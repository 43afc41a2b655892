--------------------------- MODULE TransferManager ---------------------------
(***************************************************************************)
(* The transfers of one client: Transfer_Manager (transfer_manager.cpp),   *)
(* its two arrays of Active_Transfer, the commands of the GUI thread       *)
(* (main_menu.cpp), the network thread that carries them out, reads the    *)
(* server's packets and sends its own (network.cpp), and what the server   *)
(* and the other clients of the session do about this client's transfers   *)
(* (net_packet.c, net_close.c).                                            *)
(*                                                                         *)
(* Two threads: GUI looks at the arrays and pushes commands, Network does  *)
(* everything else.  A packet to the server is handled when do_work makes  *)
(* it (what the server does in between does not depend on this client and  *)
(* can as well come before); one from the server waits in inbox for as     *)
(* long as it likes.  The socket takes the packet before the next is made. *)
(***************************************************************************)
EXTENDS Integers, Sequences, FiniteSets

CONSTANTS
    SIM_TRANSFERS_MAX,  \* rows of each array (config.h:27)
    CMD_CAPACITY,       \* commands the queue holds (8: LockFreeQueueCpp11.h)
    Me, Others,         \* this client, the other clients of its session
    SteadyScreen,       \* the environment: a row does not change between what
                        \* the GUI shows and the number it reads at the click
    OneAtATime,         \* the environment: nobody requests a transfer while
                        \* the server has one
    FreshNumbers,       \* the environment: no transfer_id is given twice
    Chunks,             \* bound: the packets of a file
    MaxTransfer,        \* bound: the largest transfer_id
    MaxHost, MaxRecv,   \* bounds: the requests of this client, of the others
    MaxCommands         \* bound: the user's clicks

ASSUME ManagerAssumption ==
    /\ SIM_TRANSFERS_MAX \in Nat /\ CMD_CAPACITY \in Nat /\ Chunks \in Nat
    /\ MaxTransfer \in Nat /\ MaxHost \in Nat /\ MaxRecv \in Nat /\ MaxCommands \in Nat
    /\ SteadyScreen \in BOOLEAN /\ OneAtATime \in BOOLEAN /\ FreshNumbers \in BOOLEAN
    /\ Me \notin Others

VARIABLES
    alive,              \* the client runs (no assertion has failed)
    phase,              \* the network thread: "work" (check_write) or "read"
    host,               \* host_transfers
    recv,               \* recv_transfers
    cmd_queue,          \* cmd_queue
    client_transfer_ids,\* the next local_id
    look,               \* the button the GUI drew and the user is clicking
    commands,           \* clicks so far, for MaxCommands
    inbox,              \* the server's packets this client has not read
    transfers,          \* table Transfers of the server
    transfer_clients,   \* table TransferClients
    unanswered,         \* <<transfer, client>>: requests the others may answer
    sent,               \* data packets the host of a transfer has sent to Me
    numbered,           \* the largest transfer_id given
    offered             \* requests of the others so far, for MaxRecv

arrays == <<host, recv>>
gui    == <<look, commands>>
db     == <<transfers, transfer_clients>>
peers  == <<unanswered, sent, numbered, offered>>
vars   == <<alive, phase, arrays, cmd_queue, client_transfer_ids, gui, inbox, db, peers>>

Rows        == 0 .. SIM_TRANSFERS_MAX - 1
Transfer_ID == 0 .. MaxTransfer
Clients     == Others \cup {Me}

State  == {"EMPTY", "CANCEL", "SEND_REQ", "GET_RESPONSE",
           "ACCEPT", "DENY", "PENDING", "ACTIVE"}

\* Active_Transfer of host_transfers: hdr.t_id and hdr.to, accept_list by
\* recipient, the packets left in the file, and whether file_fd is open.
HostRow == [state : State, t_id : Transfer_ID, to : SUBSET Others,
            accept_list : [Others -> {"EMPTY", "ACCEPT", "DENY"}],
            local_id : Nat, left : 0 .. Chunks, open : BOOLEAN]

\* Active_Transfer of recv_transfers: with the packets written to the file.
RecvRow == [state : State, t_id : Transfer_ID, bytes : 0 .. Chunks, open : BOOLEAN]

\* Slip: the accept_list of the last transfer stays in the row.
ZeroKeepsAnswers(r) == [r EXCEPT !.state = "EMPTY", !.t_id = 0, !.local_id = 0]

\* zero_transfer: f_manager is left as it is.
zero_host(r) == [r EXCEPT !.state = "EMPTY", !.t_id = 0, !.to = {},
                          !.accept_list = [p \in Others |-> "EMPTY"], !.local_id = 0]
zero_recv(r) == [r EXCEPT !.state = "EMPTY", !.t_id = 0]

NewHost == [state |-> "EMPTY", t_id |-> 0, to |-> {}, local_id |-> 0,
            accept_list |-> [p \in Others |-> "EMPTY"], left |-> 0, open |-> FALSE]
NewRecv == [state |-> "EMPTY", t_id |-> 0, bytes |-> 0, open |-> FALSE]

\* Transfer_Cmd, the fields its type uses: a path stands for the packets of the
\* file, 0 for one read_file refuses.
Cmd == [type : {"REQUEST"}, size : 0 .. Chunks, to : SUBSET Others]
       \cup [type : {"REPLY"}, t_id : Transfer_ID, reply : BOOLEAN]
       \cup [type : {"CANCEL"}, t_id : Transfer_ID]

Packet == [type : {"VALID", "INVALID"}, t_id : Transfer_ID, local_id : Nat, to : SUBSET Others]
          \cup [type : {"REPLY"}, t_id : Transfer_ID, from : Clients, accept : BOOLEAN]
          \cup [type : {"REQUEST", "CANCEL"}, t_id : Transfer_ID, from : Clients]
          \cup [type : {"DATA", "COMPLETE"}, t_id : Transfer_ID]

First(S) == CHOOSE i \in S : \A k \in S : i <= k

Init ==
    /\ alive = TRUE /\ phase = "work"
    /\ host = [i \in Rows |-> NewHost]
    /\ recv = [i \in Rows |-> NewRecv]
    /\ cmd_queue = << >> /\ client_transfer_ids = 1
    /\ look = << >> /\ commands = 0
    /\ inbox = << >>
    /\ transfers = {} /\ transfer_clients = {}
    /\ unanswered = {} /\ sent = [t \in Transfer_ID |-> 0]
    /\ numbered = 0 /\ offered = 0

-----------------------------------------------------------------------------
(* The server.                                                             *)

Created(p)  == {v.transfer_id : v \in {u \in transfers : u.creator_id = p}}
MyRow(t)    == {w \in transfer_clients : w.transfer_id = t /\ w.client_id = Me}

\* db_create_transfer: the number of a new row (see NewRowid of QsServer).
NewNumber(t) ==
    LET used == {v.transfer_id : v \in transfers}
    IN  /\ t \in 1 .. MaxTransfer
        /\ IF FreshNumbers
           THEN t = numbered + 1
           ELSE /\ \A u \in used : u < t
                /\ t = 1 \/ t - 1 \in used

db_create(t, creator, to) ==
    /\ transfers' = transfers \cup {[transfer_id |-> t, creator_id |-> creator]}
    /\ transfer_clients' = transfer_clients \cup
          [transfer_id : {t}, client_id : to, accepted : {-1}]
    /\ numbered' = IF t > numbered THEN t ELSE numbered
    /\ sent' = [sent EXCEPT ![t] = 0]

db_cleanup_transfer(T) ==
    /\ transfers' = {v \in transfers : v.transfer_id \notin T}
    /\ transfer_clients' = {w \in transfer_clients : w.transfer_id \notin T}

\* db_client_accept.
db_client_accept(t, p, answer) ==
    transfer_clients' =
        {IF w.transfer_id = t /\ w.client_id = p THEN [w EXCEPT !.accepted = answer] ELSE w
            : w \in transfer_clients}

\* db_client_delete: every row of the client.
db_client_delete(p) ==
    transfer_clients' = {w \in transfer_clients : w.client_id # p}

\* packet_transfer, of this client: a recipient is gone, or all are there.
packet_transfer(local_id, to) ==
    \/ /\ inbox' = Append(inbox, [type |-> "INVALID", t_id |-> 0,
                                  local_id |-> local_id, to |-> to])
       /\ UNCHANGED <<db, unanswered, sent, numbered>>
    \/ \E t \in Transfer_ID :
       /\ NewNumber(t)
       /\ db_create(t, Me, to)
       /\ unanswered' = unanswered \cup ({t} \X to)
       /\ inbox' = Append(inbox, [type |-> "VALID", t_id |-> t,
                                  local_id |-> local_id, to |-> to])

\* packet_cancel, of this client: what it changes for its transfers.
packet_cancel(t) ==
    /\ IF t \in Created(Me)
       THEN db_cleanup_transfer({t})
       ELSE /\ IF MyRow(t) # {} THEN db_client_delete(Me) ELSE UNCHANGED transfer_clients
            /\ UNCHANGED transfers
    /\ UNCHANGED inbox

\* An assertion of the client fails: the process ends, its connection closes
\* and the server cleans up after it (close_client).
ClientEnds ==
    LET gone == Created(Me)
    IN  /\ alive' = FALSE /\ phase' = "work"
        /\ host' = [i \in Rows |-> NewHost]
        /\ recv' = [i \in Rows |-> NewRecv]
        /\ cmd_queue' = << >> /\ look' = << >> /\ inbox' = << >>
        /\ transfers' = {v \in transfers : v.transfer_id \notin gone}
        /\ transfer_clients' = {w \in transfer_clients :
                                   w.transfer_id \notin gone /\ w.client_id # Me}
        /\ UNCHANGED <<client_transfer_ids, commands, peers>>

-----------------------------------------------------------------------------
(* The GUI thread.                                                         *)

\* render_request and render_session: the buttons of row i.
Shown(array, i, button) ==
    IF array = "recv"
    THEN \/ recv[i].state = "GET_RESPONSE" /\ button \in {"Accept", "Deny"}
         \/ recv[i].state = "ACTIVE" /\ button = "Cancel"
    ELSE host[i].state \in {"PENDING", "ACTIVE"} /\ button = "Cancel"

\* The GUI thread has drawn the button; the user clicks it.
render(array, i, button) ==
    /\ alive /\ ~SteadyScreen
    /\ look = << >> /\ commands < MaxCommands
    /\ Shown(array, i, button)
    /\ look' = <<array, i, button>>
    /\ UNCHANGED <<alive, phase, arrays, cmd_queue, client_transfer_ids, commands, inbox, db, peers>>

\* push of LockFreeQueueCpp11.
Full == Len(cmd_queue) = CMD_CAPACITY

\* Slip: a full queue is not noticed.
PushAnyway(cmd) == cmd_queue' = Append(cmd_queue, cmd)
push(cmd) == cmd_queue' = IF Full THEN cmd_queue ELSE Append(cmd_queue, cmd)

\* The click makes a command of the number the row has by now.  A full queue
\* ends the client, except that an answer is dropped.
click(array, i, button) ==
    LET t == IF array = "recv" THEN recv[i].t_id ELSE host[i].t_id
    IN  /\ alive
        /\ IF SteadyScreen THEN Shown(array, i, button) ELSE look = <<array, i, button>>
        /\ commands < MaxCommands
        /\ IF button = "Cancel" /\ Full
           THEN ClientEnds
           ELSE /\ push(IF button = "Cancel"
                        THEN [type |-> "CANCEL", t_id |-> t]
                        ELSE [type |-> "REPLY", t_id |-> t, reply |-> button = "Accept"])
                /\ look' = << >> /\ commands' = commands + 1
                /\ UNCHANGED <<alive, phase, arrays, client_transfer_ids, inbox, db, peers>>

\* Main_Menu::transfer: a file and at least one recipient.
transfer(size, to) ==
    /\ alive
    /\ to # {} /\ commands < MaxCommands
    /\ OneAtATime =>
          /\ transfers = {} /\ \A i \in Rows : host[i].state = "EMPTY"
          /\ \A k \in DOMAIN cmd_queue : cmd_queue[k].type # "REQUEST"
    /\ IF Full
       THEN ClientEnds
       ELSE /\ push([type |-> "REQUEST", size |-> size, to |-> to])
            /\ commands' = commands + 1
            /\ UNCHANGED <<alive, phase, arrays, client_transfer_ids, look, inbox, db, peers>>

-----------------------------------------------------------------------------
(* The network thread carries out the commands: process_cmds.              *)

\* Slip: a transfer the user has not answered cannot be cancelled.
CancellableAnswered(A, t) ==
    {i \in Rows : A[i].state \in {"ACTIVE", "PENDING"} /\ A[i].t_id = t}

\* The rows of an array that recv_cancel and cmd_cancel may cancel.
Cancellable(A, t) ==
    {i \in Rows : A[i].state \in {"ACTIVE", "PENDING", "GET_RESPONSE"} /\ A[i].t_id = t}

\* cmd_host_request: the first empty row, if there is one and the file is good.
cmd_host_request(cmd) ==
    LET free == {i \in Rows : host[i].state = "EMPTY"}
    IN  IF free = {} \/ cmd.size = 0
        THEN UNCHANGED <<arrays, client_transfer_ids>>
        ELSE /\ host' = [host EXCEPT ![First(free)] =
                   [@ EXCEPT !.state = "SEND_REQ", !.to = cmd.to, !.left = cmd.size,
                             !.local_id = client_transfer_ids, !.open = TRUE]]
             /\ client_transfer_ids' = client_transfer_ids + 1
             /\ UNCHANGED recv

\* cmd_recv_request_reply.
cmd_recv_request_reply(cmd) ==
    LET asking == {i \in Rows : recv[i].state = "GET_RESPONSE" /\ recv[i].t_id = cmd.t_id}
    IN  /\ recv' = IF asking = {} THEN recv
                   ELSE [recv EXCEPT ![First(asking)].state =
                            IF cmd.reply THEN "ACCEPT" ELSE "DENY"]
        /\ UNCHANGED <<host, client_transfer_ids>>

\* cmd_cancel: a transfer that is received, else one that is hosted.
cmd_cancel(cmd) ==
    LET r == Cancellable(recv, cmd.t_id)
        h == Cancellable(host, cmd.t_id)
    IN  /\ recv' = IF r = {} THEN recv ELSE [recv EXCEPT ![First(r)].state = "CANCEL"]
        /\ host' = IF r # {} \/ h = {} THEN host
                   ELSE [host EXCEPT ![First(h)].state = "CANCEL"]
        /\ UNCHANGED client_transfer_ids

\* One turn of the loop of process_cmds: peek, the command, pop.
process_cmds ==
    /\ alive /\ phase = "work"
    /\ cmd_queue # << >>
    /\ LET cmd == Head(cmd_queue)
       IN  \/ cmd.type = "REQUEST" /\ cmd_host_request(cmd)
           \/ cmd.type = "REPLY" /\ cmd_recv_request_reply(cmd)
           \/ cmd.type = "CANCEL" /\ cmd_cancel(cmd)
    /\ cmd_queue' = Tail(cmd_queue)
    /\ UNCHANGED <<alive, phase, gui, inbox, db, peers>>

-----------------------------------------------------------------------------
(* The network thread sends one packet: do_work after process_cmds.        *)

\* send_cancel of a host row, or of a recv row, and the server's part.
send_cancel_host(i) ==
    /\ packet_cancel(host[i].t_id)
    /\ host' = [host EXCEPT ![i] = zero_host(@)]
    /\ UNCHANGED <<recv, peers>>

send_cancel_recv(i) ==
    /\ packet_cancel(recv[i].t_id)
    /\ recv' = [recv EXCEPT ![i] = zero_recv(@)]
    /\ UNCHANGED <<host, peers>>

\* send_request.
send_request(i) ==
    /\ packet_transfer(host[i].local_id, host[i].to)
    /\ host' = [host EXCEPT ![i].state = "GET_RESPONSE"]
    /\ UNCHANGED <<recv, offered>>

\* Slip: the row of a file that is sent stays.
SendForever(i) ==
    /\ host' = [host EXCEPT ![i].left = IF @ > 0 THEN @ - 1 ELSE 0]
    /\ UNCHANGED <<recv, inbox, db, peers>>

\* send_data: a packet of the file, COMPLETE after the last, or a read error.
send_data(i) ==
    \/ /\ host[i].left > 0
       /\ host' = [host EXCEPT ![i].left = @ - 1]
       /\ UNCHANGED <<recv, inbox, db, peers>>
    \/ /\ host[i].left = 0
       /\ host' = [host EXCEPT ![i] = zero_host([@ EXCEPT !.open = FALSE])]
       /\ IF host[i].t_id \in Created(Me)
          THEN db_cleanup_transfer({host[i].t_id})
          ELSE UNCHANGED db
       /\ UNCHANGED <<recv, inbox, peers>>
    \/ send_cancel_host(i)

\* send_recv_request_reply: packet_reply records the answer.
send_recv_request_reply(i) ==
    LET accept == recv[i].state = "ACCEPT"
    IN  /\ recv' = [recv EXCEPT ![i] =
               IF accept THEN [@ EXCEPT !.state = "ACTIVE"] ELSE zero_recv(@)]
        /\ db_client_accept(recv[i].t_id, Me, IF accept THEN 1 ELSE 0)
        /\ UNCHANGED <<host, transfers, inbox, peers>>

\* host_transfer_work and recv_transfer_work: the rows that have something to
\* send; a host row goes first.
HostWork == {i \in Rows : host[i].state \in {"ACTIVE", "CANCEL", "SEND_REQ"}}
RecvWork == {i \in Rows : recv[i].state \in {"CANCEL", "ACCEPT", "DENY"}}

do_work ==
    /\ alive /\ phase = "work"
    /\ cmd_queue = << >>
    /\ IF HostWork # {}
       THEN LET i == First(HostWork)
            IN  \/ host[i].state = "ACTIVE" /\ send_data(i)
                \/ host[i].state = "CANCEL" /\ send_cancel_host(i)
                \/ host[i].state = "SEND_REQ" /\ send_request(i)
       ELSE IF RecvWork # {}
       THEN LET i == First(RecvWork)
            IN  \/ recv[i].state = "CANCEL" /\ send_cancel_recv(i)
                \/ recv[i].state # "CANCEL" /\ send_recv_request_reply(i)
       ELSE UNCHANGED <<arrays, inbox, db, peers>>
    /\ phase' = "read"
    /\ UNCHANGED <<alive, cmd_queue, client_transfer_ids, gui>>

\* WAIT_WORK: the last packet of the first active host row is less than a
\* millisecond old, nothing is sent.
wait_work ==
    /\ alive /\ phase = "work"
    /\ cmd_queue = << >>
    /\ HostWork # {} /\ host[First(HostWork)].state = "ACTIVE"
    /\ phase' = "read"
    /\ UNCHANGED <<alive, arrays, cmd_queue, client_transfer_ids, gui, inbox, db, peers>>

-----------------------------------------------------------------------------
(* The network thread reads one packet: analize.                           *)

\* set_request: recipient c has accepted or not; the transfer goes on when all
\* have answered, and is cancelled when all have denied.
set_request(r, c, reply) ==
    LET list == IF c \in r.to
                THEN [r.accept_list EXCEPT ![c] = IF reply THEN "ACCEPT" ELSE "DENY"]
                ELSE r.accept_list
        answers == {list[p] : p \in r.to}
    IN  [r EXCEPT !.accept_list = list,
                  !.state = CASE answers \subseteq {"DENY"} -> "CANCEL"
                              [] "EMPTY" \notin answers /\ "ACCEPT" \in answers -> "ACTIVE"
                              [] OTHER -> @]

\* Slip: the header of the answer is not kept.
ValidKeepsHeader(p) ==
    /\ host' = [i \in Rows |->
           IF host[i].state # "GET_RESPONSE" \/ host[i].local_id # p.local_id THEN host[i]
           ELSE [host[i] EXCEPT !.state = IF p.type = "VALID" THEN "PENDING" ELSE "CANCEL"]]
    /\ UNCHANGED recv

\* host_request_valid: VALID fills in the header, INVALID cancels.
host_request_valid(p) ==
    LET waiting == {i \in Rows : host[i].state = "GET_RESPONSE" /\ host[i].local_id = p.local_id}
    IN  /\ host' = IF waiting = {} THEN host
                   ELSE [host EXCEPT ![First(waiting)] =
                            IF p.type = "VALID"
                            THEN [@ EXCEPT !.state = "PENDING", !.t_id = p.t_id, !.to = p.to]
                            ELSE [@ EXCEPT !.state = "CANCEL"]]
        /\ UNCHANGED recv

\* host_request_reply: only while answers are missing.
host_request_reply(p) ==
    LET pending == {i \in Rows : host[i].state = "PENDING" /\ host[i].t_id = p.t_id}
    IN  /\ host' = IF pending = {} THEN host
                   ELSE [host EXCEPT ![First(pending)] = set_request(@, p.from, p.accept)]
        /\ UNCHANGED recv

\* recv_cancel: the host of a transfer this client receives, else a recipient
\* of one it hosts, has cancelled or gone.
recv_cancel(p) ==
    LET r == Cancellable(recv, p.t_id)
        h == Cancellable(host, p.t_id)
    IN  /\ recv' = IF r = {} THEN recv ELSE [recv EXCEPT ![First(r)] = zero_recv(@)]
        /\ host' = IF r # {} \/ h = {} THEN host
                   ELSE [host EXCEPT ![First(h)] = set_request(@, p.from, FALSE)]

\* Slip: the count of the last file stays in the row.
CreateKeepsCount(p) ==
    LET free == {i \in Rows : recv[i].state = "EMPTY"}
    IN  /\ recv' = [recv EXCEPT ![First(free)] =
               [@ EXCEPT !.state = "GET_RESPONSE", !.t_id = p.t_id, !.open = TRUE]]
        /\ UNCHANGED host

\* create_recv_request: the first empty row, and a file that can be written.
free_recv == {i \in Rows : recv[i].state = "EMPTY"}
create_recv_request(p) ==
    /\ recv' = [recv EXCEPT ![First(free_recv)] =
           [state |-> "GET_RESPONSE", t_id |-> p.t_id, bytes |-> 0, open |-> TRUE]]
    /\ UNCHANGED host

Receiving(t) == {i \in Rows : recv[i].state = "ACTIVE" /\ recv[i].t_id = t}

\* recv_data: write_work of the file manager.
recv_data(p) ==
    LET r == Receiving(p.t_id)
    IN  /\ recv' = IF r = {} THEN recv
                   ELSE [recv EXCEPT ![First(r)].bytes = IF @ < Chunks THEN @ + 1 ELSE @]
        /\ UNCHANGED host

\* Slip: the file is closed and the row stays.
CloseKeepsRow(p) ==
    LET r == Receiving(p.t_id)
    IN  /\ recv' = IF r = {} THEN recv ELSE [recv EXCEPT ![First(r)].open = FALSE]
        /\ UNCHANGED host

\* recv_complete: the file is closed, the row empty.
recv_complete(p) ==
    LET r == Receiving(p.t_id)
    IN  /\ recv' = IF r = {} THEN recv
                   ELSE [recv EXCEPT ![First(r)] = zero_recv([@ EXCEPT !.open = FALSE])]
        /\ UNCHANGED host

\* analize.  A REQUEST that finds no row or no file ends the client: its result
\* is asserted (network.cpp:390).
analize ==
    /\ alive /\ phase = "read"
    /\ inbox # << >>
    /\ LET p == Head(inbox)
           handled == /\ inbox' = Tail(inbox)
                      /\ UNCHANGED <<alive, phase, cmd_queue, client_transfer_ids, gui, db, peers>>
       IN  \/ p.type \in {"VALID", "INVALID"} /\ host_request_valid(p) /\ handled
           \/ p.type = "REPLY" /\ host_request_reply(p) /\ handled
           \/ p.type = "CANCEL" /\ recv_cancel(p) /\ handled
           \/ p.type = "DATA" /\ recv_data(p) /\ handled
           \/ p.type = "COMPLETE" /\ recv_complete(p) /\ handled
           \/ p.type = "REQUEST" /\ free_recv # {} /\ create_recv_request(p) /\ handled
           \/ p.type = "REQUEST" /\ ClientEnds

\* The end of read_data, and the next turn of handle.
next_round ==
    /\ alive /\ phase = "read"
    /\ phase' = "work"
    /\ UNCHANGED <<alive, arrays, cmd_queue, client_transfer_ids, gui, inbox, db, peers>>

-----------------------------------------------------------------------------
(* The other clients, and what the server does with their packets.         *)

local == <<alive, phase, arrays, cmd_queue, client_transfer_ids, gui>>

\* packet_transfer of p, with Me among the recipients.
peer_request(p) ==
    /\ alive
    /\ offered < MaxRecv
    /\ OneAtATime => transfers = {}
    /\ \E t \in Transfer_ID :
        /\ NewNumber(t)
        /\ db_create(t, p, {Me})
        /\ inbox' = Append(inbox, [type |-> "REQUEST", t_id |-> t, from |-> p])
    /\ offered' = offered + 1
    /\ UNCHANGED <<local, unanswered>>

\* packet_reply of p: forwarded to the creator of the transfer.
peer_reply(t, p, accept) ==
    /\ alive
    /\ <<t, p>> \in unanswered
    /\ db_client_accept(t, p, IF accept THEN 1 ELSE 0)
    /\ inbox' = IF t \in Created(Me)
                THEN Append(inbox, [type |-> "REPLY", t_id |-> t, from |-> p, accept |-> accept])
                ELSE inbox
    /\ unanswered' = unanswered \ {<<t, p>>}
    /\ UNCHANGED <<local, transfers, sent, numbered, offered>>

\* packet_data of the host of t: to those that have accepted.  The host sends
\* the packets of its file and then COMPLETE.
Accepted(t) == \E w \in MyRow(t) : w.accepted = 1

peer_data(t) ==
    /\ alive
    /\ Accepted(t) /\ sent[t] < Chunks
    /\ sent' = [sent EXCEPT ![t] = @ + 1]
    /\ inbox' = Append(inbox, [type |-> "DATA", t_id |-> t])
    /\ UNCHANGED <<local, db, unanswered, numbered, offered>>

\* packet_complete of the host of t.
peer_complete(t) ==
    /\ alive
    /\ Accepted(t) /\ sent[t] = Chunks
    /\ inbox' = Append(inbox, [type |-> "COMPLETE", t_id |-> t])
    /\ db_cleanup_transfer({t})
    /\ UNCHANGED <<local, peers>>

\* packet_cancel of p: its own transfer, or one of this client's it receives.
\* cancel_as_creator tells Me unless Me has denied.
Cancelled(t, p) == [type |-> "CANCEL", t_id |-> t, from |-> p]
ToldOfCancel(T) == {t \in T : \E w \in MyRow(t) : w.accepted # 0}

peer_cancel_host(t, p) ==
    /\ alive
    /\ t \in Created(p)
    /\ inbox' = IF ToldOfCancel({t}) # {}
                THEN Append(inbox, Cancelled(t, p))
                ELSE inbox
    /\ db_cleanup_transfer({t})
    /\ UNCHANGED <<local, peers>>

peer_cancel_recv(t, p) ==
    /\ alive
    /\ \E w \in transfer_clients : w.transfer_id = t /\ w.client_id = p /\ w.accepted = 1
    /\ inbox' = Append(inbox, Cancelled(t, p))
    /\ db_client_delete(p)
    /\ UNCHANGED <<local, transfers, peers>>

\* close_client of p: its transfers first, then those it receives, in one
\* order or another within each.
Ordered(S) == {q \in [1 .. Cardinality(S) -> S] : \A t \in S : \E k \in DOMAIN q : q[k] = t}

close_client(p) ==
    LET received == {w.transfer_id : w \in {v \in transfer_clients : v.client_id = p}}
    IN  /\ alive
        /\ \E a \in Ordered(ToldOfCancel(Created(p))), b \in Ordered(received) :
             inbox' = inbox \o [k \in DOMAIN a |-> Cancelled(a[k], p)]
                            \o [k \in DOMAIN b |-> Cancelled(b[k], p)]
        /\ transfers' = {v \in transfers : v.creator_id # p}
        /\ transfer_clients' = {w \in transfer_clients :
               w.client_id # p /\ w.transfer_id \notin Created(p)}
        /\ unanswered' = {u \in unanswered : u[2] # p}
        /\ received \cup Created(p) # {} \/ unanswered' # unanswered
        /\ UNCHANGED <<local, sent, numbered, offered>>

-----------------------------------------------------------------------------
GUI ==
    \/ \E array \in {"host", "recv"}, i \in Rows, button \in {"Accept", "Deny", "Cancel"} :
          render(array, i, button) \/ click(array, i, button)
    \/ \E size \in {0, Chunks}, to \in SUBSET Others :
          client_transfer_ids <= MaxHost /\ transfer(size, to)

Network == process_cmds \/ do_work \/ wait_work \/ analize \/ next_round

Peers ==
    \E p \in Others :
        \/ peer_request(p)
        \/ close_client(p)
        \/ \E t \in Transfer_ID :
             \/ \E accept \in BOOLEAN : peer_reply(t, p, accept)
             \/ peer_cancel_host(t, p)
             \/ peer_cancel_recv(t, p)

Hosts == \E t \in Transfer_ID : peer_data(t) \/ peer_complete(t)

Next == GUI \/ Network \/ Peers \/ Hosts

Spec == Init /\ [][Next]_vars

\* The network thread runs on, and the millisecond of wait_work passes.
Fairness == WF_vars(process_cmds) /\ WF_vars(next_round) /\ SF_vars(do_work)

FairSpec == Spec /\ Fairness

-----------------------------------------------------------------------------
(* Properties.                                                             *)

\* The types of the variables.
TypeOK ==
    /\ alive \in BOOLEAN /\ phase \in {"work", "read"}
    /\ host \in [Rows -> HostRow]
    /\ recv \in [Rows -> RecvRow]
    /\ cmd_queue \in Seq(Cmd) /\ Len(cmd_queue) <= CMD_CAPACITY
    /\ client_transfer_ids \in Nat
    /\ look \in {<< >>} \cup
          ({"host", "recv"} \X Rows \X {"Accept", "Deny", "Cancel"})
    /\ commands \in 0 .. MaxCommands
    /\ inbox \in Seq(Packet)
    /\ transfers \subseteq [transfer_id : Transfer_ID, creator_id : Clients]
    /\ transfer_clients \subseteq
          [transfer_id : Transfer_ID, client_id : Clients, accepted : {-1, 0, 1}]
    /\ unanswered \subseteq Transfer_ID \X Others
    /\ sent \in [Transfer_ID -> 0 .. Chunks]
    /\ numbered \in Transfer_ID /\ offered \in 0 .. MaxRecv

Queued(type, t) == {k \in DOMAIN inbox : inbox[k].type = type /\ inbox[k].t_id = t}

\* A transfer that waits for the user's answer, or for data, is one the server
\* has this client down for, or one whose end this client is about to read: no
\* row waits for ever (recv_cancel, recv_complete and the states in which they
\* find the row).
RecvAgrees ==
    \A i \in Rows : recv[i].state \in {"GET_RESPONSE", "ACTIVE"} =>
        LET t == recv[i].t_id
        IN  MyRow(t) # {} \/ Queued("CANCEL", t) \cup Queued("COMPLETE", t) # {}

\* Every packet of data the server forwards is written to the file: the row is
\* ACTIVE before the first one can come (send_recv_request_reply), and what is
\* neither written nor waiting has not been sent.
NoDataDropped ==
    \A i \in Rows : recv[i].state = "ACTIVE" =>
        LET t == recv[i].t_id
        IN  (Accepted(t) \/ Queued("COMPLETE", t) # {}) =>
                recv[i].bytes + Cardinality(Queued("DATA", t)) = sent[t]

\* The server's transfers of this client each have a row of their own that will
\* end them, or are just being announced (host_request_valid finds the row by
\* local_id): recipients never wait for a host that has forgotten them.
HostKnows ==
    \A t \in Created(Me) : \E i \in Rows :
        \/ host[i].t_id = t /\ host[i].state \in {"PENDING", "ACTIVE", "CANCEL"}
        \/ /\ host[i].state = "GET_RESPONSE"
           /\ \E k \in Queued("VALID", t) : inbox[k].local_id = host[i].local_id

\* A file is begun, and ended, only when every recipient the server still has
\* for it has answered (set_request; COMPLETE deletes the rows of the others).
DataAfterAllAnswered ==
    [][\A i \in Rows :
          (alive' /\ host[i].state = "ACTIVE"
           /\ (host'[i].left # host[i].left \/ host[i].open # host'[i].open))
          => \A w \in transfer_clients : w.transfer_id = host[i].t_id => w.accepted # -1]_vars

\* A row in use has its file open, so that write_work, read_work and close never
\* touch a FILE that is closed or was never opened.
FileOpenInUse ==
    \A i \in Rows : /\ host[i].state # "EMPTY" => host[i].open
                    /\ recv[i].state # "EMPTY" => recv[i].open

\* What the user has decided is sent: an answer or a cancel, of any row, is not
\* held back for ever by the transfers before it (host_transfer_work returns at
\* the first active one).
DecisionIsSent ==
    \A i \in Rows :
        /\ (recv[i].state \in {"ACCEPT", "DENY", "CANCEL"})
              ~> (recv[i].state \notin {"ACCEPT", "DENY", "CANCEL"})
        /\ (host[i].state \in {"SEND_REQ", "CANCEL"})
              ~> (host[i].state \notin {"SEND_REQ", "CANCEL"})
=============================================================================
