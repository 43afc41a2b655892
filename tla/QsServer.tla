------------------------------ MODULE QsServer ------------------------------
(***************************************************************************)
(* The relay server of qs_server/src: its table of clients (client.c), the *)
(* SQLite tables of sessions and transfers (database.c, db_init.sql), the  *)
(* handlers of the packets clients send (net_packet.c), what it does when  *)
(* a client goes away (net_close.c) and when the process ends.             *)
(*                                                                         *)
(* The server is one thread around epoll_wait: a handler runs to its end   *)
(* before the next event, so each handler is one action.  It talks to a    *)
(* client only by putting packets on that client's msg_queue; write_data   *)
(* takes them off later, so a client acts on what the server knew some     *)
(* time ago.  The client's side of that conversation, as far as it decides *)
(* which packets a client sends next, is in the variables user_list,       *)
(* hosting, asked and joined.                                              *)
(***************************************************************************)
EXTENDS Integers, Sequences, FiniteSets, SequencesExt

CONSTANTS
    MAX_CLIENTS,            \* slots of the client table (client.h:15)
    QUEUE_LEN,              \* slots of a msg_queue (client.c:40)
    TRANSFER_CLIENTS_MAX,   \* recipients of one transfer (config.h)
    SessionNames,           \* the session keys users type
    NoSession,              \* session_id 0
    DistinctSeconds,        \* the environment: no two accepts in one second
    PromptAnswers,          \* the environment: a client sends an answer before
                            \* it reads the next packet (see forget)
    MaxTime,                \* bound: the seconds in which clients connect
    MaxTransfer,            \* bound: the largest transfer_id
    MaxRequests             \* bound: the transfer requests of a behaviour

ASSUME ServerAssumption ==
    /\ MAX_CLIENTS \in Nat /\ QUEUE_LEN \in Nat /\ TRANSFER_CLIENTS_MAX \in Nat
    /\ MaxTime \in Nat /\ MaxTransfer \in Nat /\ MaxRequests \in Nat
    /\ DistinctSeconds \in BOOLEAN /\ PromptAnswers \in BOOLEAN
    /\ NoSession \notin SessionNames

VARIABLES
    cstate,             \* Client.state of each slot
    cid,                \* Client.id: the second of the accept (client.c:59)
    csession,           \* Client.session_id, the key standing for its rowid
    msg_queue,          \* Client.msg_queue, a BoundedFifo (module RingQueue)
    sessions,           \* table Sessions: the keys in it
    transfers,          \* table Transfers
    transfer_clients,   \* table TransferClients
    running,            \* the server process exists
    last_id,            \* the second of the latest accept
    boot_id,            \* last_id when the process started
    requests,           \* transfer requests so far, for MaxRequests
    user_list,          \* the client of a slot: the ids it shows (users.cpp)
    hosting,            \* its host transfers: the accept_list of each
    asked,              \* transfers it has been asked to receive
    joined              \* transfers it has agreed to receive

table  == <<cstate, cid, csession>>
db     == <<sessions, transfers, transfer_clients>>
client == <<user_list, hosting, asked, joined>>
env    == <<running, last_id, boot_id, requests>>
vars   == <<table, msg_queue, db, client, env>>

Slots       == 0 .. MAX_CLIENTS - 1
Client_ID   == 0 .. MaxTime
Transfer_ID == 0 .. MaxTransfer
ClientState == {"C_EMPTY", "C_CONNECTED", "C_SECURE", "C_COMPLETE"}
Session_ID  == SessionNames \cup {NoSession}

\* TransferClients.accepted, and the client's accept_list, which has the same
\* three values: -1 no answer yet, 0 denied, 1 accepted.
Accepted == {-1, 0, 1}

TransferRow == [transfer_id : Transfer_ID, creator_id : Client_ID]
ClientRow   == [transfer_id : Transfer_ID, client_id : Client_ID, accepted : Accepted]

ServerPacket == {"OK", "DENY", "NEW_USERS", "DEL_USERS", "VALID", "INVALID",
                 "REQUEST", "REPLY", "DATA", "CANCEL", "COMPLETE"}

\* msg.h:81-119, with the fields handlers read: ids are the users of NEW_USERS
\* and DEL_USERS and the recipients (hdr.to) of a request.
Packet == [type : ServerPacket, t_id : Transfer_ID, from : Client_ID,
           ids : SUBSET Client_ID, accept : BOOLEAN]

Pkt(type, t, from, ids, accept) ==
    [type |-> type, t_id |-> t, from |-> from, ids |-> ids, accept |-> accept]

Response(type)      == Pkt(type, 0, 0, {}, FALSE)
Users(type, ids)    == Pkt(type, 0, 0, ids, FALSE)
Transfer(type, t)   == Pkt(type, t, 0, {}, FALSE)

\* Slip: the two numbers of the header (msg.h) in the wrong order.
CancelSwapped(t, from) == Pkt("CANCEL", from, t, {}, FALSE)

Cancel(t, from)     == Pkt("CANCEL", t, from, {}, FALSE)

-----------------------------------------------------------------------------
(* The client table.                                                       *)

Live(s) == cstate[s] # "C_EMPTY"

\* client_find_by_id: the FIRST slot in use with this id.
client_find_by_id(r, x) ==
    /\ Live(r) /\ cid[r] = x
    /\ \A k \in Slots : k < r => ~(Live(k) /\ cid[k] = x)

\* Slips: a slot in any state, or of any session, is taken for a mate.
SameSessionAnyState(s, r, session) ==
    cid[r] # cid[s] /\ csession[r] = session

SameSessionAnySession(s, r, session) ==
    cid[r] # cid[s] /\ cstate[r] = "C_COMPLETE"

\* The test of send_session_users and send_user_disconnect: another client, by
\* id, that has joined the same session.
SameSession(s, r, session) ==
    /\ cid[r] # cid[s]
    /\ cstate[r] = "C_COMPLETE"
    /\ csession[r] = session

Mates(s, session) == {r \in Slots : SameSession(s, r, session)}
Ids(S) == {cid[r] : r \in S}

\* out[r] is what a handler puts on the queue of slot r, in order.
Fits(out) == \A r \in Slots : Len(msg_queue[r]) + Len(out[r]) <= QUEUE_LEN
Enqueue(out) == msg_queue' = [r \in Slots |-> msg_queue[r] \o out[r]]
One(b, p) == IF b THEN <<p>> ELSE << >>

\* The process is gone, by a failed assertion or by SIGINT: connections, queues
\* and, with them, the clients' state (the client goes to NET_ERROR, which it
\* never leaves) are lost.  The database stays.
ProcessEnds ==
    /\ running' = FALSE
    /\ cstate' = [s \in Slots |-> "C_EMPTY"]
    /\ cid' = [s \in Slots |-> 0]
    /\ csession' = [s \in Slots |-> NoSession]
    /\ msg_queue' = [s \in Slots |-> << >>]
    /\ user_list' = [s \in Slots |-> {}]
    /\ hosting' = [s \in Slots |-> {}]
    /\ asked' = [s \in Slots |-> {}]
    /\ joined' = [s \in Slots |-> {}]
    /\ UNCHANGED <<last_id, boot_id, requests>>

Init ==
    /\ running = TRUE
    /\ cstate = [s \in Slots |-> "C_EMPTY"]
    /\ cid = [s \in Slots |-> 0]
    /\ csession = [s \in Slots |-> NoSession]
    /\ msg_queue = [s \in Slots |-> << >>]
    /\ user_list = [s \in Slots |-> {}]
    /\ hosting = [s \in Slots |-> {}]
    /\ asked = [s \in Slots |-> {}]
    /\ joined = [s \in Slots |-> {}]
    /\ sessions = {} /\ transfers = {} /\ transfer_clients = {}
    /\ last_id = 0 /\ boot_id = 0 /\ requests = 0

\* time(NULL) at an accept: the second of the accept before it, or a later one.
\* Only whether two accepts share a second matters, so the seconds in which
\* nobody connects are not counted.
Seconds == IF DistinctSeconds \/ last_id = 0 THEN {last_id + 1}
                                            ELSE {last_id, last_id + 1}

\* accept_client: client_init takes the first empty slot and client_configure
\* gives it the current second as id.  With the table full nothing changes (the
\* socket is dropped).  MaxTime bounds the seconds.
accept_client(s) ==
    /\ running
    /\ ~Live(s) /\ \A k \in Slots : k < s => Live(k)
    /\ last_id < MaxTime
    /\ \E now \in Seconds :
        /\ cid' = [cid EXCEPT ![s] = now]
        /\ last_id' = now
    /\ cstate' = [cstate EXCEPT ![s] = "C_CONNECTED"]
    /\ csession' = [csession EXCEPT ![s] = NoSession]
    /\ msg_queue' = [msg_queue EXCEPT ![s] = << >>]
    /\ UNCHANGED <<db, client, running, boot_id, requests>>

\* complete_handshake: TLS is up.
complete_handshake(s) ==
    /\ running
    /\ cstate[s] = "C_CONNECTED"
    /\ cstate' = [cstate EXCEPT ![s] = "C_SECURE"]
    /\ UNCHANGED <<cid, csession, msg_queue, db, client, env>>

-----------------------------------------------------------------------------
(* Sessions.                                                               *)

\* What joining puts on the queues: OK and the roster to the newcomer, the
\* newcomer to everyone on the roster.
JoinPackets(s, key) ==
    LET mates == Mates(s, key)
    IN  [r \in Slots |->
            IF r = s
            THEN <<Response("OK")>> \o One(mates # {}, Users("NEW_USERS", Ids(mates)))
            ELSE One(r \in mates, Users("NEW_USERS", {cid[s]}))]

\* packet_intro.  The login menu sends one intro at a time (NetClient!OneLogin; a
\* client with a second network thread is left out), so nothing is on its way to
\* the client.  create is d.intro.session = 1, key the session name.
packet_intro(s, create, key) ==
    LET known == IF create THEN key \notin sessions ELSE key \in sessions
        join  == JoinPackets(s, key)
        deny  == [r \in Slots |-> One(r = s, Response("DENY"))]
    IN  /\ running
        /\ cstate[s] = "C_SECURE" /\ msg_queue[s] = << >>
        /\ \/ /\ ~known
              /\ IF Fits(deny)
                 THEN Enqueue(deny) /\ UNCHANGED <<table, client, env>>
                 ELSE ProcessEnds
              /\ UNCHANGED db
           \/ /\ known
              /\ sessions' = IF create THEN sessions \cup {key} ELSE sessions
              /\ IF Fits(join)
                 THEN /\ Enqueue(join)
                      /\ cstate' = [cstate EXCEPT ![s] = "C_COMPLETE"]
                      /\ csession' = [csession EXCEPT ![s] = key]
                      /\ UNCHANGED <<cid, client, env>>
                 ELSE ProcessEnds
              /\ UNCHANGED <<transfers, transfer_clients>>

-----------------------------------------------------------------------------
(* Transfers.                                                              *)

Host(s, t) == {h \in hosting[s] : h.transfer_id = t}
Rows(t)    == {w \in transfer_clients : w.transfer_id = t}

\* Slip: every transfer, not only the client's own (no where creator_id=?).
HostedByAnyone(s) == {w.transfer_id : w \in transfers}

\* db_get_transfer, db_transfer_step: the transfers the client of s created.
Hosted(s) == {w.transfer_id : w \in {v \in transfers : v.creator_id = cid[s]}}

\* db_get_creator_by_tid, and the join of db_get_creator.
CreatorOf(t) == {w.creator_id : w \in {v \in transfers : v.transfer_id = t}}

\* The rowid SQLite gives a new transfer: one more than the largest in use, so
\* the numbers of deleted transfers come back (no AUTOINCREMENT in db_init.sql).
NewRowid(t) ==
    LET used == {w.transfer_id : w \in transfers}
    IN  /\ t \in 1 .. MaxTransfer
        /\ \A u \in used : u < t
        /\ t = 1 \/ t - 1 \in used

\* check_recipients: every id of hdr.to is a client of the sender's session.
check_recipients(s, to) ==
    \A x \in to : \E r \in Slots :
        client_find_by_id(r, x) /\ csession[r] = csession[s]

\* packet_transfer.  A user picks recipients from the list on the screen, which
\* may be out of date.  The rows are committed before anything is sent.
packet_transfer(s, to) ==
    LET invalid == [r \in Slots |-> One(r = s, Response("INVALID"))]
        valid(t) == [r \in Slots |->
            One(r = s, Pkt("VALID", t, 0, to, FALSE)) \o
            One(\E x \in to : client_find_by_id(r, x),
                Pkt("REQUEST", t, cid[s], to, FALSE))]
    IN  /\ running
        /\ cstate[s] = "C_COMPLETE"
        /\ to # {} /\ to \subseteq user_list[s]
        /\ Cardinality(to) <= TRANSFER_CLIENTS_MAX
        /\ requests < MaxRequests
        /\ \/ /\ ~check_recipients(s, to)
              /\ IF Fits(invalid)
                 THEN Enqueue(invalid) /\ requests' = requests + 1
                      /\ UNCHANGED <<table, client, running, last_id, boot_id>>
                 ELSE ProcessEnds
              /\ UNCHANGED db
           \/ /\ check_recipients(s, to)
              /\ \E t \in Transfer_ID :
                 /\ NewRowid(t)
                 /\ transfers' = transfers \cup
                       {[transfer_id |-> t, creator_id |-> cid[s]]}
                 /\ transfer_clients' = transfer_clients \cup
                       [transfer_id : {t}, client_id : to, accepted : {-1}]
                 /\ IF Fits(valid(t))
                    THEN Enqueue(valid(t)) /\ requests' = requests + 1
                         /\ UNCHANGED <<table, client, running, last_id, boot_id>>
                    ELSE ProcessEnds
              /\ UNCHANGED sessions

\* Slip: the row of every participant is set, not only the client's.
AcceptForAll(s, t, answer) ==
    {w \in transfer_clients : w.transfer_id # t} \cup
    {[w EXCEPT !.accepted = answer] : w \in Rows(t)}

\* db_client_accept: the client's row for t, if there is one.
db_client_accept(s, t, answer) ==
    LET mine == {w \in Rows(t) : w.client_id = cid[s]}
    IN  (transfer_clients \ mine) \cup
        [transfer_id : {t}, client_id : {w.client_id : w \in mine}, accepted : {answer}]

\* packet_reply.  The client answers a request once, accept being its answer;
\* the server records it if the client has a row and forwards it to the creator
\* of the transfer that has the number now, and asserts that the creator is
\* there.
packet_reply(s, t, accept) ==
    LET out == [r \in Slots |->
                  One(\E x \in CreatorOf(t) : client_find_by_id(r, x),
                      Pkt("REPLY", t, cid[s], {}, accept))]
        found == \A x \in CreatorOf(t) : \E r \in Slots : client_find_by_id(r, x)
    IN  /\ running
        /\ cstate[s] = "C_COMPLETE"
        /\ t \in asked[s]
        /\ transfer_clients' = db_client_accept(s, t, IF accept THEN 1 ELSE 0)
        /\ IF found /\ Fits(out)
           THEN /\ Enqueue(out)
                /\ asked' = [asked EXCEPT ![s] = @ \ {t}]
                /\ joined' = [joined EXCEPT ![s] = IF accept THEN @ \cup {t} ELSE @]
                /\ UNCHANGED <<table, user_list, hosting, env>>
           ELSE ProcessEnds
        /\ UNCHANGED <<sessions, transfers>>

\* Slip: the first acceptance is enough.
HostActiveEarly(s, t) == \E h \in Host(s, t) : h.accepted = 1

\* A host sends data once every recipient has answered and one has accepted
\* (Transfer_Manager::set_request).
HostActive(s, t) ==
    /\ \A h \in Host(s, t) : h.accepted # -1
    /\ \E h \in Host(s, t) : h.accepted = 1

\* The same packet to every client whose row for t says accepted.
ToAccepted(t, p) ==
    [r \in Slots |->
        One(\E w \in Rows(t) : w.accepted = 1 /\ client_find_by_id(r, w.client_id), p)]

\* packet_data: no look at who sent it.
packet_data(s, t) ==
    LET out == ToAccepted(t, Transfer("DATA", t))
    IN  /\ running
        /\ cstate[s] = "C_COMPLETE"
        /\ HostActive(s, t)
        /\ IF Fits(out)
           THEN Enqueue(out) /\ UNCHANGED <<table, client, env>>
           ELSE ProcessEnds
        /\ UNCHANGED db

\* Slip: the rows of the participants stay.
CleanupTransferOnly(T) ==
    /\ transfers' = {w \in transfers : w.transfer_id \notin T}
    /\ UNCHANGED transfer_clients

\* db_cleanup_transfer, for the transfers in T.
cleanup(T) ==
    /\ transfers' = {w \in transfers : w.transfer_id \notin T}
    /\ transfer_clients' = {w \in transfer_clients : w.transfer_id \notin T}

\* packet_complete: only for a transfer the sender created.
packet_complete(s, t) ==
    LET mine == {t} \cap Hosted(s)
        out  == [r \in Slots |-> IF mine = {} THEN << >>
                                 ELSE ToAccepted(t, Transfer("COMPLETE", t))[r]]
    IN  /\ running
        /\ cstate[s] = "C_COMPLETE"
        /\ HostActive(s, t)
        /\ IF Fits(out)
           THEN /\ Enqueue(out)
                /\ cleanup(mine)
                /\ hosting' = [hosting EXCEPT ![s] = @ \ Host(s, t)]
                /\ UNCHANGED <<table, user_list, asked, joined, env>>
           ELSE ProcessEnds /\ UNCHANGED <<transfers, transfer_clients>>
        /\ UNCHANGED sessions

\* Slip: only those that have accepted are told (the statement of packet_data).
CreatorCancelsAccepted(s, T) ==
    [r \in Slots |-> {Cancel(t, cid[s]) : t \in
        {u \in T : \E w \in Rows(u) : w.accepted = 1 /\ client_find_by_id(r, w.client_id)}}]

\* cancel_as_creator: everyone who has not denied is told, the transfer goes.
CreatorCancels(s, T) ==
    [r \in Slots |-> {Cancel(t, cid[s]) : t \in
        {u \in T : \E w \in Rows(u) : w.accepted # 0 /\ client_find_by_id(r, w.client_id)}}]

\* cancel_as_recipient: the creator is told of the transfers in T.
RecipientCancels(s, T) ==
    [r \in Slots |-> {Cancel(t, cid[s]) : t \in
        {u \in T : \E x \in CreatorOf(u) : client_find_by_id(r, x)}}]

\* The transfers the client of s has a row for.
Received(s) ==
    {w.transfer_id : w \in {v \in transfer_clients : v.client_id = cid[s]}}

\* Slip: the rows of a client that goes stay.
DeleteNoRow(s) == transfer_clients

\* db_client_delete: every row of the client goes, whatever the transfer.
db_client_delete(s) == {w \in transfer_clients : w.client_id # cid[s]}

\* packet_cancel.  A client that cancels as host or as recipient forgets the
\* transfer; one that is both is the recipient to itself (cmd_cancel).
packet_cancel(s, t) ==
    LET recipient == t \in asked[s] \cup joined[s]
        out == IF t \in Hosted(s)
               THEN CreatorCancels(s, {t})
               ELSE RecipientCancels(s, {t} \cap Received(s))
        outseq == [r \in Slots |-> SetToSeq(out[r])]
    IN  /\ running
        /\ cstate[s] = "C_COMPLETE"
        /\ recipient \/ Host(s, t) # {}
        /\ \/ /\ ~Fits(outseq)
              /\ ProcessEnds
              /\ UNCHANGED <<transfers, transfer_clients>>
           \/ /\ Fits(outseq)
              /\ Enqueue(outseq)
              /\ IF t \in Hosted(s)
                 THEN cleanup({t})
                 ELSE /\ transfer_clients' = IF t \in Received(s) /\ CreatorOf(t) # {}
                                             THEN db_client_delete(s)
                                             ELSE transfer_clients
                      /\ UNCHANGED transfers
              /\ hosting' = [hosting EXCEPT ![s] = IF recipient THEN @ ELSE @ \ Host(s, t)]
              /\ asked' = [asked EXCEPT ![s] = @ \ {t}]
              /\ joined' = [joined EXCEPT ![s] = @ \ {t}]
              /\ UNCHANGED <<table, user_list, env>>
        /\ UNCHANGED sessions

-----------------------------------------------------------------------------
(* A client goes away, the server writes, the process stops and starts.    *)

\* close_client: the peer hung up, or an error on the socket.  The slot keeps
\* its id and session until client_configure.  The cancels are one database
\* transaction, the DEL_USERS follow it.
close_client(s) ==
    LET complete == cstate[s] = "C_COMPLETE"
        gone     == Hosted(s)
        asCreator   == CreatorCancels(s, gone)
        asRecipient == RecipientCancels(s, Received(s) \ gone)
        cancels == [r \in Slots |->
            IF complete THEN SetToSeq(asCreator[r]) \o SetToSeq(asRecipient[r]) ELSE << >>]
        out == [r \in Slots |-> cancels[r] \o
            One(complete /\ SameSession(s, r, csession[s]), Users("DEL_USERS", {cid[s]}))]
    IN  /\ running
        /\ Live(s)
        /\ IF complete /\ Fits(cancels)
           THEN /\ transfers' = {w \in transfers : w.transfer_id \notin gone}
                /\ transfer_clients' = {w \in db_client_delete(s) : w.transfer_id \notin gone}
           ELSE UNCHANGED <<transfers, transfer_clients>>
        /\ UNCHANGED sessions
        /\ IF Fits(cancels) /\ Fits(out)
           THEN /\ Enqueue(out)
                /\ cstate' = [cstate EXCEPT ![s] = "C_EMPTY"]
                /\ user_list' = [user_list EXCEPT ![s] = {}]
                /\ hosting' = [hosting EXCEPT ![s] = {}]
                /\ asked' = [asked EXCEPT ![s] = {}]
                /\ joined' = [joined EXCEPT ![s] = {}]
                /\ UNCHANGED <<cid, csession, env>>
           ELSE ProcessEnds

\* User_List::add_users and remove_user.
shown(s, p) ==
    CASE p.type = "NEW_USERS" -> user_list[s] \cup p.ids
      [] p.type = "DEL_USERS" -> user_list[s] \ p.ids
      [] OTHER -> user_list[s]

\* set_request: recipient x of transfer t has answered.
set_request(s, t, x, answer) ==
    {h \in hosting[s] : ~(h.transfer_id = t /\ h.client_id = x)} \cup
    [transfer_id : {t},
     client_id : {h.client_id : h \in {g \in Host(s, t) : g.client_id = x}},
     accepted : {answer}]

\* host_request_valid, host_request_reply (only while an answer is missing)
\* and the host's part of recv_cancel.
hosted(s, p) ==
    CASE p.type = "VALID" ->
            hosting[s] \cup [transfer_id : {p.t_id}, client_id : p.ids, accepted : {-1}]
      [] p.type = "REPLY" /\ (\E h \in Host(s, p.t_id) : h.accepted = -1) ->
            set_request(s, p.t_id, p.from, IF p.accept THEN 1 ELSE 0)
      [] p.type = "CANCEL" -> set_request(s, p.t_id, p.from, 0)
      [] OTHER -> hosting[s]

\* recv_cancel looks among the transfers the client receives first.  It skips
\* one whose answer is decided and not yet sent (states ACCEPT and DENY, which
\* can_cancel excludes): such a transfer is still in asked.
forget(s, t) ==
    \/ /\ t \in joined[s]
       /\ joined' = [joined EXCEPT ![s] = @ \ {t}]
       /\ UNCHANGED <<asked, hosting>>
    \/ /\ t \in asked[s]
       /\ asked' = [asked EXCEPT ![s] = @ \ {t}]
       /\ UNCHANGED <<joined, hosting>>
    \/ /\ t \notin joined[s]
       /\ t \in asked[s] => ~PromptAnswers
       /\ hosting' = [hosting EXCEPT ![s] = hosted(s, Head(msg_queue[s]))]
       /\ UNCHANGED <<asked, joined>>

\* write_data, one packet at a time: the oldest packet leaves the queue and
\* Network::analize of the client acts on it.
write_data(s) ==
    /\ running
    /\ Live(s) /\ msg_queue[s] # << >>
    /\ LET p == Head(msg_queue[s])
       IN  /\ msg_queue' = [msg_queue EXCEPT ![s] = Tail(@)]
           /\ user_list' = [user_list EXCEPT ![s] = shown(s, p)]
           /\ IF p.type = "CANCEL"
              THEN forget(s, p.t_id)
              ELSE /\ hosting' = [hosting EXCEPT ![s] = hosted(s, p)]
                   /\ asked' = [asked EXCEPT ![s] =
                          IF p.type = "REQUEST" THEN @ \cup {p.t_id} ELSE @]
                   /\ joined' = [joined EXCEPT ![s] =
                          IF p.type = "COMPLETE" THEN @ \ {p.t_id} ELSE @]
    /\ UNCHANGED <<table, db, env>>

\* SIGINT: server_loop ends; nothing is cancelled and no row is deleted.
stop ==
    /\ running
    /\ ProcessEnds
    /\ UNCHANGED db

\* main: db_init opens the database as it was left.
start ==
    /\ ~running
    /\ running' = TRUE
    /\ boot_id' = last_id
    /\ UNCHANGED <<table, msg_queue, db, client, last_id, requests>>

Next ==
    \/ stop
    \/ start
    \/ \E s \in Slots :
        \/ accept_client(s)
        \/ complete_handshake(s)
        \/ \E create \in BOOLEAN, key \in SessionNames : packet_intro(s, create, key)
        \/ \E to \in SUBSET user_list[s] : packet_transfer(s, to)
        \/ \E t \in Transfer_ID, accept \in BOOLEAN : packet_reply(s, t, accept)
        \/ \E t \in Transfer_ID :
              packet_data(s, t) \/ packet_complete(s, t) \/ packet_cancel(s, t)
        \/ close_client(s)
        \/ write_data(s)

Spec == Init /\ [][Next]_vars

-----------------------------------------------------------------------------
(* Properties.                                                             *)

\* The types of the variables.
TypeOK ==
    /\ cstate \in [Slots -> ClientState]
    /\ cid \in [Slots -> Client_ID]
    /\ csession \in [Slots -> Session_ID]
    /\ msg_queue \in [Slots -> Seq(Packet)]
    /\ sessions \subseteq SessionNames
    /\ transfers \subseteq TransferRow
    /\ transfer_clients \subseteq ClientRow
    /\ running \in BOOLEAN
    /\ last_id \in Client_ID /\ boot_id \in Client_ID
    /\ requests \in 0 .. MaxRequests
    /\ user_list \in [Slots -> SUBSET Client_ID]
    /\ hosting \in [Slots -> SUBSET ClientRow]
    /\ asked \in [Slots -> SUBSET Transfer_ID]
    /\ joined \in [Slots -> SUBSET Transfer_ID]

Online(x, session) ==
    \E s \in Slots : cstate[s] = "C_COMPLETE" /\ cid[s] = x /\ csession[s] = session

\* db_init.sql:12-18 declares TransferClients.transfer_id a reference to
\* Transfers, which SQLite does not enforce by default.  The handlers keep it
\* true: no row of a participant outlives its transfer (a later transfer with
\* the same rowid would inherit it).
RowsHaveTransfer ==
    \A w \in transfer_clients : w.transfer_id \in {v.transfer_id : v \in transfers}

\* The tables follow the connections: what this process created has its
\* creator online, and every participant is online in the creator's session.
\* Rows of an earlier process are left over for ever (qs_server.c has no
\* cleanup at start).  packet_reply asserts a creator (net_packet.c:342).
TablesMatchClients ==
    /\ \A v \in transfers : (running /\ v.creator_id > boot_id) =>
          \E key \in SessionNames :
            /\ Online(v.creator_id, key)
            /\ \A w \in Rows(v.transfer_id) :
                  Online(w.client_id, key) /\ w.client_id # v.creator_id
    /\ \A s \in Slots, t \in Transfer_ID :
          (Live(s) /\ t \in asked[s]) => \A x \in CreatorOf(t) : x > boot_id

Queued(s, type) == {i \in DOMAIN msg_queue[s] : msg_queue[s][i].type = type}

\* How often the client of s will show user x once its queue is written out.
Showings(s, x) ==
    (IF x \in user_list[s] THEN 1 ELSE 0)
    + Cardinality({i \in Queued(s, "NEW_USERS") : x \in msg_queue[s][i].ids})
    - Cardinality({i \in Queued(s, "DEL_USERS") : x \in msg_queue[s][i].ids})

\* Each joined client shows, or is about to show, exactly the other clients of
\* its session, each once (net_packet.c:7-14, "Update connecting client on all
\* clients in their session. Also update existing client on the connecting
\* client", and net_close.c:11).
RosterAccurate ==
    \A s \in Slots : cstate[s] = "C_COMPLETE" =>
        \A x \in 1 .. MaxTime :
            Showings(s, x) =
                IF \E r \in Slots \ {s} : /\ cstate[r] = "C_COMPLETE"
                                         /\ csession[r] = csession[s]
                                         /\ cid[r] = x
                THEN 1 ELSE 0

\* The packets a step puts on the queue of r.
Added(r) == {msg_queue'[r][i] : i \in Len(msg_queue[r]) + 1 .. Len(msg_queue'[r])}

\* Users and transfers of one session are invisible in the others: a client
\* named in a packet has, or had when it left, the session of the addressee
\* (the tests of net_packet.c:25-27, 151-153 and net_close.c:14-16).
SessionIsolation ==
    [][\A r \in Slots : \A p \in Added(r) : \A x \in p.ids \cup ({p.from} \ {0}) :
          \E k \in Slots : cid'[k] = x /\ csession'[k] = csession'[r]]_vars

\* Whoever a transfer has not been denied by hears of its end: a transfer that
\* goes away, without the process, puts a CANCEL or COMPLETE on the queue of
\* every other client whose row says anything but denied (packet_complete
\* tells only those that accepted, so nobody may be undecided then).
EndIsAnnounced ==
    [][running' => \A v \in transfers \ transfers' : \A w \in Rows(v.transfer_id) :
          w.accepted # 0 => \A r \in Slots : (cid[r] = w.client_id /\ Live(r)) =>
              \E p \in Added(r) :
                  p.type \in {"CANCEL", "COMPLETE"} /\ p.t_id = v.transfer_id]_vars

\* packet_data does not look at the sender; it need not while the numbers a
\* client holds are those of its own transfers.  So it is with one transfer
\* after the other (a number that is given again breaks it, see
\* DataOnlyAfterConsent).
HostOwnsTransfer ==
    \A s \in Slots : cstate[s] = "C_COMPLETE" =>
        \A t \in {h.transfer_id : h \in hosting[s]} \cup
                 {msg_queue[s][i].t_id : i \in Queued(s, "VALID")} :
            [transfer_id |-> t, creator_id |-> cid[s]] \in transfers

\* While one transfer is on, what its host believes of an answer is what the
\* table says, or a CANCEL from that client is on its way: packet_data's
\* recipients (accepted == 1) are the host's.
HostAgrees ==
    \A s \in Slots : cstate[s] = "C_COMPLETE" => \A h \in hosting[s] :
        /\ h.accepted = 1 =>
              \/ [h EXCEPT !.accepted = 1] \in transfer_clients
              \/ \E i \in Queued(s, "CANCEL") : msg_queue[s][i] = Cancel(h.transfer_id, h.client_id)
        /\ [h EXCEPT !.accepted = -1] \in transfer_clients => h.accepted = -1

\* A client that was asked, or agreed, to receive a transfer is a participant
\* in the table, or is about to be told that the transfer is over: it never
\* waits for a transfer nobody will send it.
NoOrphanReceiver ==
    \A s \in Slots : cstate[s] = "C_COMPLETE" => \A t \in asked[s] \cup joined[s] :
        \/ \E w \in Rows(t) : w.client_id = cid[s]
        \/ \E i \in Queued(s, "CANCEL") \cup Queued(s, "COMPLETE") : msg_queue[s][i].t_id = t

\* net_packet.c:362-366, "Get all clients that accepted to the transfer": no
\* data for a transfer is queued behind the request for it, which its
\* addressee has not even seen.
DataOnlyAfterConsent ==
    \A s \in Slots : \A i \in Queued(s, "REQUEST"), j \in Queued(s, "DATA") :
        i < j => msg_queue[s][i].t_id # msg_queue[s][j].t_id
=============================================================================
