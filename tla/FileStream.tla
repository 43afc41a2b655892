----------------------------- MODULE FileStream -----------------------------
(***************************************************************************)
(* The way of a file's bytes from the host's disk to the recipient's:      *)
(* File_Manager reads the file in buffers and cuts them into DATA packets  *)
(* (file_manager.cpp), the host's network thread writes the packet in wbuf *)
(* when poll says the socket can take it (network.cpp:273-329, 465-501),   *)
(* the server puts the frames together again (net_read.c:53-81) and queues *)
(* them for the recipient, whose network thread does the same              *)
(* (network.cpp:331-373) and writes the file.                              *)
(*                                                                         *)
(* The streams are sequences of bytes: a packet is Hdr bytes of header,    *)
(* which give the size of the body, and the body.  SSL_read returns any    *)
(* number of the bytes that are there, SSL_write takes all or nothing.     *)
(* How a transfer is agreed on is in TransferManager and QsServer; here it *)
(* is the step Agree.                                                      *)
(***************************************************************************)
EXTENDS Naturals, Sequences, SequencesExt, FiniteSetsExt

CONSTANTS
    FileSize,       \* FileSize[k]: the bytes of the file of transfer k
    BufferSize,     \* FILE_BUFFER_SIZE, 3072 (config.h:18)
    DataBytes,      \* the bytes a DATA packet holds, 1416 (msg.h:69-78)
    Hdr,            \* sizeof(Packet_Hdr), 8
    StateSize,      \* the body of COMPLETE and CANCEL
    SocketSize,     \* bytes a connection holds between two processes
    QueueLen,       \* packets the recipient's msg_queue holds, 16
    MaxNotice,      \* bound: answers with an empty body sent to the recipient
    MaxReconnect    \* bound: times the host's connection breaks

Transfer == DOMAIN FileSize

ASSUME SizesAssumption ==
    /\ FileSize \in Seq(Nat \ {0})      \* read_file refuses an empty file
    /\ BufferSize \in Nat \ {0} /\ DataBytes \in Nat \ {0}
    /\ Hdr \in Nat \ {0} /\ StateSize \in Nat \ {0}
    /\ {SocketSize, QueueLen, MaxNotice, MaxReconnect} \subseteq Nat

\* The bytes of file k, told apart by where they are in it.
File(k) == [i \in 1 .. FileSize[k] |-> <<k, i>>]

Data(k, b) == [type |-> "DATA", t_id |-> k, bytes |-> b]
State(type, k) == [type |-> type, t_id |-> k, bytes |-> << >>]
Notice == [type |-> "OK", t_id |-> 0, bytes |-> << >>]

\* A DATA packet is sent at its full size; b_size says what of it is file.
BodySize(p) ==
    CASE p.type = "DATA" -> DataBytes
      [] p.type \in {"COMPLETE", "CANCEL"} -> StateSize
      [] p.type = "OK" -> 0
Bytes(p) == [i \in 1 .. Hdr + BodySize(p) |-> <<p, i>>]

VARIABLES
    hosting,    \* the transfer of the host's ACTIVE row, 0 when it has none
    fpos,       \* where the host's FILE is
    buf, buf_len, buf_cnt,  \* its File_Manager: the buffer, what is left, from where
    wbuf,       \* the packet in wbuf.packet
    unsent,     \* wbuf.size # 0: it waits for write_data; wbuf.len stays 0
    want,       \* EVENT_WRITE is among the events polled for
    pc,         \* the host's handle(): "check" (check_write) or "poll"
    toServer,   \* bytes on the host's connection
    inFrame,    \* the server's decrypt_buf for the host
    rows,       \* transfers the recipient has accepted, in the server's tables
    relay,      \* the recipient's msg_queue
    serverUp,   \* no assertion of the server has failed
    toClient,   \* bytes on the recipient's connection
    rbuf,       \* the recipient's rbuf
    recv,       \* the recipient's row of each transfer
    out,        \* what it has written to its file
    started, notices, breaks,   \* counted against the bounds
    missed      \* history: a packet of wbuf was not written at its poll

fileVars == <<hosting, fpos, buf, buf_len, buf_cnt>>
loopVars == <<wbuf, unsent, want, pc>>
serverVars == <<inFrame, rows, relay, serverUp>>
clientVars == <<rbuf, recv, out>>
countVars == <<started, notices, breaks>>
vars == <<fileVars, loopVars, toServer, serverVars, toClient, clientVars,
          countVars, missed>>

NoFrame == [bytes |-> << >>, size |-> 0]

Init ==
    /\ hosting = 0 /\ fpos = 0
    /\ buf = [i \in 1 .. BufferSize |-> <<0, i>>] /\ buf_len = 0 /\ buf_cnt = 0
    /\ wbuf = Notice /\ unsent = FALSE /\ want = FALSE /\ pc = "check"
    /\ toServer = << >> /\ toClient = << >>
    /\ inFrame = NoFrame /\ rbuf = NoFrame
    /\ rows = {} /\ relay = << >> /\ serverUp = TRUE
    /\ recv = [k \in Transfer |-> "EMPTY"]
    /\ out = [k \in Transfer |-> << >>]
    /\ started = 0 /\ notices = 0 /\ breaks = 0 /\ missed = FALSE
-----------------------------------------------------------------------------
(* The host: do_work, File_Manager and the loop of handle()                *)

\* Slip: what the last file left in the buffer stays there.
AgreeKeepsBuffer ==
    /\ pc = "check" /\ hosting = 0 /\ started < Len(FileSize) /\ serverUp
    /\ started' = started + 1
    /\ hosting' = started'
    /\ fpos' = 0 /\ UNCHANGED <<buf_len, buf_cnt>>
    /\ rows' = rows \cup {started'}
    /\ recv' = [recv EXCEPT ![started'] = "ACTIVE"]
    /\ UNCHANGED <<buf, loopVars, toServer, inFrame, relay, serverUp, toClient,
                   rbuf, out, notices, breaks, missed>>

\* read_file when the transfer is asked for, write_file at the recipient, and
\* the answers that make both rows ACTIVE.
Agree ==
    /\ pc = "check" /\ hosting = 0 /\ started < Len(FileSize) /\ serverUp
    /\ started' = started + 1
    /\ hosting' = started'
    /\ fpos' = 0 /\ buf_len' = 0 /\ buf_cnt' = 0
    /\ rows' = rows \cup {started'}
    /\ recv' = [recv EXCEPT ![started'] = "ACTIVE"]
    /\ UNCHANGED <<buf, loopVars, toServer, inFrame, relay, serverUp, toClient,
                   rbuf, out, notices, breaks, missed>>

\* convert_msg has put a packet in wbuf, over the one that may be there.
Convert(p) ==
    /\ pc = "check" /\ pc' = "poll"
    /\ wbuf' = p /\ unsent' = TRUE /\ want' = TRUE
    /\ UNCHANGED <<toServer, serverVars, toClient, clientVars, countVars, missed>>

\* What fread would return.
Readable == Min({BufferSize, FileSize[hosting] - fpos})

\* read_from_file: the buffer is filled when it is empty, then a part is sent.
SendData ==
    LET n     == IF buf_len = 0 THEN Readable ELSE 0
        bytes == [i \in 1 .. BufferSize |->
                    IF i <= n THEN File(hosting)[fpos + i] ELSE buf[i]]
        left  == buf_len + n
        from  == IF buf_len = 0 THEN 0 ELSE buf_cnt
        send  == Min({left, DataBytes})
    IN  /\ hosting # 0 /\ left > 0
        /\ Convert(Data(hosting, SubSeq(bytes, from + 1, from + send)))
        /\ buf' = bytes /\ fpos' = fpos + n
        /\ buf_len' = left - send /\ buf_cnt' = from + send
        /\ UNCHANGED hosting

\* Slip: less than a full buffer is left, so the file is taken to be at its end.
SendEndShort(type) ==
    /\ hosting # 0
    /\ type = "COMPLETE" => buf_len = 0 /\ Readable < BufferSize
    /\ Convert(State(type, hosting))
    /\ hosting' = 0
    /\ UNCHANGED <<fpos, buf, buf_len, buf_cnt>>

\* The row is emptied and a packet says why: the fread after the last byte
\* returns 0; or it fails; or the user has cancelled.
SendEnd(type) ==
    /\ hosting # 0
    /\ type = "COMPLETE" => buf_len = 0 /\ Readable = 0
    /\ Convert(State(type, hosting))
    /\ hosting' = 0
    /\ UNCHANGED <<fpos, buf, buf_len, buf_cnt>>

\* The last packet was sent less than a millisecond ago.
WaitWork ==
    /\ pc = "check" /\ hosting # 0
    /\ pc' = "poll" /\ unsent' = FALSE /\ want' = TRUE
    /\ UNCHANGED <<wbuf, fileVars, toServer, serverVars, toClient, clientVars,
                   countVars, missed>>

\* Nothing to do: wbuf is left as it is and EVENT_WRITE stays unset.
NoWork ==
    /\ pc = "check" /\ hosting = 0
    /\ pc' = "poll" /\ want' = FALSE
    /\ UNCHANGED <<wbuf, unsent, fileVars, toServer, serverVars, toClient,
                   clientVars, countVars, missed>>

\* The kernel reports POLLOUT only when a packet fits.
Writable == Len(toServer) + Hdr + Max({DataBytes, StateSize}) <= SocketSize

\* poll reports EVENT_WRITE and write_data writes what is in wbuf.
PollWrites ==
    /\ pc = "poll" /\ want /\ Writable
    /\ pc' = "check" /\ unsent' = FALSE
    /\ toServer' = toServer \o (IF unsent THEN Bytes(wbuf) ELSE << >>)
    /\ UNCHANGED <<wbuf, want, fileVars, serverVars, toClient, clientVars,
                   countVars, missed>>

\* poll returns without it, after 20 ms or with something to read.
PollOther ==
    /\ pc = "poll" /\ ~(want /\ Writable)
    /\ pc' = "check"
    /\ missed' = (missed \/ unsent)
    /\ UNCHANGED <<wbuf, unsent, want, fileVars, toServer, serverVars, toClient,
                   clientVars, countVars>>

HostLoop ==
    \/ SendData \/ (\E type \in {"COMPLETE", "CANCEL"} : SendEnd(type))
    \/ WaitWork \/ NoWork \/ PollWrites \/ PollOther
-----------------------------------------------------------------------------
(* Frames                                                                  *)

\* SSL_read appends bytes; with the header complete, the size is known.
Extend(f, bytes) ==
    LET b == f.bytes \o bytes
    IN  [bytes |-> b, size |-> IF Len(b) = Hdr THEN BodySize(Head(b)[1]) ELSE f.size]

\* Slip: a whole packet is asked for, whatever the header says.
AskedPacket(f) == Hdr + DataBytes - Len(f.bytes)

\* What is asked of SSL_read: the rest of the header, then of the body.
Asked(f) == Hdr + f.size - Len(f.bytes)

\* One SSL_read of n bytes: the frame as it is then, and whether it is whole.
Read(f, stream, n) == Extend(f, SubSeq(stream, 1, n))
Whole(f) == Asked(f) = 0
Packet(f) == Head(f.bytes)[1]
-----------------------------------------------------------------------------
(* The server                                                              *)

\* enqueue, whose result is asserted.
Enqueue(ps) ==
    IF Len(relay) + Len(ps) <= QueueLen
    THEN relay' = relay \o ps /\ UNCHANGED serverUp
    ELSE serverUp' = FALSE /\ UNCHANGED relay

\* Slip: who has accepted is looked up after the transfer is removed.
ForwardLate(p) ==
    /\ rows' = IF p.type = "DATA" THEN rows ELSE rows \ {p.t_id}
    /\ Enqueue(IF p.t_id \in rows' THEN <<p>> ELSE << >>)

\* packet_data, packet_complete and packet_cancel: to the recipient if it has
\* accepted; the transfer is removed when it has ended.
Forward(p) ==
    /\ Enqueue(IF p.t_id \in rows THEN <<p>> ELSE << >>)
    /\ rows' = IF p.type = "DATA" THEN rows ELSE rows \ {p.t_id}

\* A turn of the loop of decrypt_data.
ServerReads ==
    /\ serverUp /\ toServer # << >>
    /\ \E n \in 1 .. Min({Len(toServer), Asked(inFrame)}) :
          LET f == Read(inFrame, toServer, n)
          IN  /\ toServer' = SubSeq(toServer, n + 1, Len(toServer))
              /\ IF Whole(f)
                 THEN Forward(Packet(f)) /\ inFrame' = NoFrame
                 ELSE inFrame' = f /\ UNCHANGED <<rows, relay, serverUp>>
    /\ UNCHANGED <<fileVars, loopVars, toClient, clientVars, countVars, missed>>

\* write_data, whose detail is in ServerWrite.
ServerWrites ==
    /\ serverUp /\ relay # << >>
    /\ Len(toClient) + Len(Bytes(Head(relay))) <= SocketSize
    /\ relay' = Tail(relay)
    /\ toClient' = toClient \o Bytes(Head(relay))
    /\ UNCHANGED <<fileVars, loopVars, toServer, inFrame, rows, serverUp,
                   clientVars, countVars, missed>>

\* Something else for the recipient in the same queue.
ServerNotice ==
    /\ serverUp /\ notices < MaxNotice
    /\ notices' = notices + 1
    /\ Enqueue(<<Notice>>)
    /\ UNCHANGED <<fileVars, loopVars, toServer, inFrame, rows, toClient,
                   clientVars, started, breaks, missed>>

\* The host's connection breaks and its next takes the same slot: close_client
\* cancels its transfers, client_configure resets the buffers, and the host's
\* process, which asserts that its server stays, has been started again.
Reconnect ==
    /\ serverUp /\ breaks < MaxReconnect
    /\ breaks' = breaks + 1
    /\ hosting' = 0 /\ unsent' = FALSE /\ want' = FALSE
    /\ buf_len' = 0 /\ buf_cnt' = 0 /\ fpos' = 0 /\ pc' = "check"
    /\ toServer' = << >> /\ inFrame' = NoFrame
    /\ rows' = {}
    /\ Enqueue([i \in 1 .. Cardinality(rows) |-> State("CANCEL", SetToSeq(rows)[i])])
    /\ UNCHANGED <<buf, wbuf, toClient, clientVars, started, notices, missed>>
-----------------------------------------------------------------------------
(* The recipient                                                           *)

\* write_work: b_size bytes are written, which is asserted.
write_work(p) == out' = [out EXCEPT ![p.t_id] = @ \o p.bytes]

\* recv_data, recv_complete, recv_cancel: only on an ACTIVE row.
Analize(p) ==
    CASE p.type = "OK" \/ recv[p.t_id] # "ACTIVE" -> UNCHANGED <<recv, out>>
      [] OTHER ->
           IF p.type = "DATA" THEN write_work(p) /\ UNCHANGED recv
           ELSE recv' = [recv EXCEPT ![p.t_id] = p.type] /\ UNCHANGED out

\* A turn of the loop of read_data.
ClientReads ==
    /\ toClient # << >>
    /\ \E n \in 1 .. Min({Len(toClient), Asked(rbuf)}) :
          LET f == Read(rbuf, toClient, n)
          IN  /\ toClient' = SubSeq(toClient, n + 1, Len(toClient))
              /\ IF Whole(f) THEN Analize(Packet(f)) /\ rbuf' = NoFrame
                             ELSE rbuf' = f /\ UNCHANGED <<recv, out>>
    /\ UNCHANGED <<fileVars, loopVars, toServer, serverVars, countVars, missed>>
-----------------------------------------------------------------------------
Next ==
    \/ Agree \/ HostLoop
    \/ ServerReads \/ ServerWrites \/ ServerNotice \/ Reconnect
    \/ ClientReads

Spec == Init /\ [][Next]_vars

\* The loops of the three processes go on, and time passes: WAIT_WORK is not
\* the answer for ever.
FairSpec ==
    /\ Spec
    /\ WF_vars(HostLoop) /\ SF_vars(SendData \/ SendEnd("COMPLETE"))
    /\ WF_vars(ServerReads) /\ WF_vars(ServerWrites) /\ WF_vars(ClientReads)
-----------------------------------------------------------------------------
(* Properties                                                              *)

\* f has read the beginning of one packet and what follows in the stream is the
\* rest of it.
InStep(f, stream) ==
    LET all == f.bytes \o stream
    IN  all # << >> =>
          LET p == Head(all)[1]
          IN  /\ Len(f.bytes) < Hdr + BodySize(p)
              /\ IsPrefix(Bytes(p), all)
              /\ f.size = IF Len(f.bytes) >= Hdr THEN BodySize(p) ELSE 0

\* Server and recipient find the packets where they were written: however the
\* bytes arrive, with bodies that are empty and after a broken connection, a
\* header is never read from inside a packet.
Framed == InStep(inFrame, toServer) /\ InStep(rbuf, toClient)

\* What is written is from the right file, once and in the file's order, also
\* when the host's File_Manager was left in the middle of another file.
OwnBytesInOrder ==
    \A k \in Transfer :
        /\ \A i \in DOMAIN out[k] : out[k][i][1] = k
        /\ \A i, j \in DOMAIN out[k] : i < j => out[k][i][2] < out[k][j][2]

\* A transfer that both ends call complete has the file from its first byte to
\* its last, unless a packet was missed at wbuf.
FileExact ==
    \A k \in Transfer :
        ~missed /\ recv[k] = "COMPLETE" => out[k] = File(k)

\* A recipient does not wait for ever: its transfer ends, or a packet was
\* missed at wbuf, or the server's assertion on the queue has failed.
TransferEnds ==
    \A k \in Transfer :
        recv[k] = "ACTIVE" ~> recv[k] # "ACTIVE" \/ missed \/ ~serverUp
=============================================================================
