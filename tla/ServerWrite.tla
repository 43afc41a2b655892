---------------------------- MODULE ServerWrite ----------------------------
(***************************************************************************)
(* How one client's packets get from its msg_queue to its socket: the      *)
(* event loop of network.c (check_for_write, server_loop), write_data of   *)
(* net_write.c, and the encrypted_buf of secure.c between the two.  The    *)
(* socket's send buffer in the kernel fills up when the peer reads slowly; *)
(* write() then says EAGAIN and the rest stays in encrypted_buf.           *)
(*                                                                         *)
(* Packets are the sizes of the TLS records they become: 22 bytes more     *)
(* than the packet under TLS 1.3, the only version ssl_init leaves on.     *)
(***************************************************************************)
EXTENDS Naturals, Sequences, SequencesExt

CONSTANTS
    RecordSizes,    \* the sizes of the packets that are sent
    BUF_BYTES,      \* encrypted_buf: two packets, 2880 (client.c:24-27)
    SOCK_BYTES,     \* the kernel's send buffer
    QUEUE_LEN,      \* slots of msg_queue
    MaxPackets,     \* bound: packets queued on one connection
    MaxConnections  \* bound: connections that use the slot

ASSUME WriteAssumption ==
    /\ RecordSizes \subseteq Nat \ {0}
    /\ BUF_BYTES \in Nat /\ SOCK_BYTES \in Nat \ {0} /\ QUEUE_LEN \in Nat
    /\ MaxPackets \in Nat /\ MaxConnections \in Nat

VARIABLES
    slot,       \* the client: open, closed, or the server aborted
    queue,      \* msg_queue
    enc,        \* encrypted_buf.len
    sock,       \* bytes in the kernel's send buffer
    out,        \* EPOLLOUT is among the events asked for
    due,        \* epoll_wait has returned EPOLLOUT, write_data is to be called
    w_state,    \* w_state of write_data
    pc,         \* where the server is
    produced,   \* bytes encrypted on this connection
    received,   \* bytes the peer has read
    packets, connections    \* counters, for the bounds

conn == <<produced, received, packets, connections>>
vars == <<slot, queue, enc, sock, out, due, w_state, pc, conn>>

Init ==
    /\ slot = "open"
    /\ queue = << >> /\ enc = 0 /\ sock = 0
    /\ out = FALSE /\ due = FALSE
    /\ w_state = "WRITE_OK" /\ pc = "check"
    /\ produced = 0 /\ received = 0 /\ packets = 0 /\ connections = 1

\* Slip: what is already encrypted is not looked at.
QueueNotEmpty == queue # << >>

\* The test of check_for_write.
HasOutput == queue # << >> \/ enc > 0

\* check_for_write, before each epoll_wait: EPOLLOUT is asked for while there
\* is something to write.
check_for_write ==
    /\ pc = "check"
    /\ pc' = "wait"
    /\ out' = IF slot = "open" THEN HasOutput ELSE out
    /\ UNCHANGED <<slot, queue, enc, sock, due, w_state, conn>>

\* epoll_wait returns, for this socket if it is writable and EPOLLOUT is asked
\* for (level-triggered), or for another.
epoll_wait ==
    /\ pc = "wait"
    /\ pc' = "events"
    /\ due' = (slot = "open" /\ out /\ sock < SOCK_BYTES)
    /\ UNCHANGED <<slot, queue, enc, sock, out, w_state, conn>>

\* The handler of another event puts a packet on this client's queue.
enqueue(size) ==
    /\ pc = "events" /\ slot = "open"
    /\ packets < MaxPackets /\ Len(queue) < QUEUE_LEN
    /\ queue' = Append(queue, size)
    /\ packets' = packets + 1
    /\ UNCHANGED <<slot, enc, sock, out, due, w_state, pc, produced, received, connections>>

\* close_client, from an event of this socket: EPOLLHUP, or read_data failing.
hang_up ==
    /\ pc = "events" /\ slot = "open"
    /\ slot' = "closed"
    /\ UNCHANGED <<queue, enc, sock, out, due, w_state, pc, conn>>

\* Slip: the bytes of the connection before are kept.
ConfigureKeepsBuffer == queue' = << >> /\ UNCHANGED enc

\* client_configure: queue_reset, and secure_init with len = 0.
client_configure == queue' = << >> /\ enc' = 0

\* accept_client puts a new connection in the slot.
accept_client ==
    /\ pc = "events" /\ slot = "closed" /\ connections < MaxConnections
    /\ ~due
    /\ slot' = "open"
    /\ client_configure
    /\ sock' = 0 /\ out' = FALSE
    /\ produced' = 0 /\ received' = 0 /\ packets' = 0
    /\ connections' = connections + 1
    /\ UNCHANGED <<due, w_state, pc>>

\* All events of the batch are handled.
next_round ==
    /\ pc = "events" /\ ~due
    /\ pc' = "check"
    /\ UNCHANGED <<slot, queue, enc, sock, out, due, w_state, conn>>

\* write_data is entered; it finds no client if an earlier event closed it.
write_data ==
    /\ pc = "events" /\ due
    /\ due' = FALSE
    /\ w_state' = "WRITE_OK"
    /\ pc' = IF slot = "open" THEN "write" ELSE "events"
    /\ UNCHANGED <<slot, queue, enc, sock, out, conn>>

\* Slip: the loop goes on after an error.
AfterError == "encrypt"

\* The break of net_write.c:114.
after_error == "events"

\* What write() returns until it says EAGAIN: as much as the kernel has room for.
Taken == IF enc <= SOCK_BYTES - sock THEN enc ELSE SOCK_BYTES - sock

\* write_bytes: as much as the kernel takes; WRITE_BLOCK when something stays.
\* With an error, or on a socket close_client has closed, the loop is left.
write_bytes ==
    LET n == Taken
    IN  /\ pc = "write"
        /\ \/ /\ enc = 0 \/ slot = "open"
              /\ enc' = enc - n /\ sock' = sock + n
              /\ w_state' = IF enc = 0 THEN w_state
                            ELSE IF n = enc THEN "WRITE_OK" ELSE "WRITE_BLOCK"
              /\ pc' = "encrypt"
              /\ UNCHANGED slot
           \/ /\ enc > 0
              /\ slot' = "closed" /\ w_state' = "WRITE_ERROR"
              /\ pc' = after_error
              /\ UNCHANGED <<enc, sock>>
        /\ UNCHANGED <<queue, out, due, conn>>

\* The condition of the do-while loop, on the values at its end.
Again(w, e) == IF w # "WRITE_BLOCK" /\ e > 0 THEN "write" ELSE "events"

\* encrypt: the oldest packet becomes a record in encrypted_buf, also when the
\* socket has just refused bytes.  secure_queue_write asserts that the buffer
\* is not filled (secure.c:50-53).  SSL_write may fail; close_client is called
\* and the loop goes on to its condition.
encrypt ==
    /\ pc = "encrypt"
    /\ \/ /\ queue = << >>
          /\ pc' = Again(w_state, enc)
          /\ UNCHANGED <<slot, queue, enc, produced>>
       \/ /\ queue # << >>
          /\ queue' = Tail(queue)
          /\ IF enc + Head(queue) < BUF_BYTES
             THEN /\ enc' = enc + Head(queue)
                  /\ produced' = produced + Head(queue)
                  /\ pc' = Again(w_state, enc')
                  /\ UNCHANGED slot
             ELSE /\ slot' = "aborted" /\ pc' = "abort"
                  /\ UNCHANGED <<enc, produced>>
       \/ /\ queue # << >>
          /\ queue' = Tail(queue)
          /\ slot' = "closed"
          /\ pc' = Again(w_state, enc)
          /\ UNCHANGED <<enc, produced>>
    /\ UNCHANGED <<sock, out, due, w_state, received, packets, connections>>

\* The peer reads; the kernel's buffer drains, at least by half.
peer_reads ==
    /\ sock > 0
    /\ \E n \in {sock, (sock + 1) \div 2} :
          sock' = sock - n /\ received' = received + n
    /\ UNCHANGED <<slot, queue, enc, out, due, w_state, pc, produced, packets, connections>>

Server == check_for_write \/ epoll_wait \/ write_data \/ next_round \/ write_bytes \/ encrypt

Next ==
    \/ Server
    \/ \E size \in RecordSizes : enqueue(size)
    \/ hang_up
    \/ accept_client
    \/ peer_reads

\* The server thread runs on, and the peer goes on reading.
Spec == Init /\ [][Next]_vars /\ WF_vars(Server) /\ WF_vars(peer_reads)

-----------------------------------------------------------------------------
\* While a connection is open, every byte encrypted on it is in exactly one
\* place: the buffer, the kernel, or the peer; and none is another
\* connection's (write_bytes' memmove, secure_init's reset).
NoByteLost == slot = "open" => produced = enc + sock + received

\* SSL_write is never called on the SSL that close_client has freed, although
\* the loop of write_data goes on after a failed encrypt (net_write.c:122-130).
NoUseAfterFree == (pc = "encrypt" /\ queue # << >>) => slot = "open"

\* secure.c:50-53, the assertion of secure_queue_write: a record never fills
\* the buffer.
RecordFits ==
    (pc = "encrypt" /\ queue # << >>) => enc + Head(queue) < BUF_BYTES

\* Every packet gets out: what is queued or encrypted is some time all with the
\* kernel, or the connection is gone.  The wake-up is the EPOLLOUT that
\* check_for_write asks for.
EverythingIsWritten ==
    (queue # << >> \/ enc > 0) ~> (queue = << >> /\ enc = 0) \/ slot # "open"
=============================================================================
