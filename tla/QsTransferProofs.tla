-------------------------- MODULE QsTransferProofs --------------------------
(***************************************************************************)
(* Theorems about the transfers of QsServer: the tables follow the         *)
(* connections, and what server, hosts and recipients hold of a transfer   *)
(* fits together.  No two clients connect in the same second (see          *)
(* QsServerProofs); the further hypotheses on the environment stand with   *)
(* the theorems that need them.                                            *)
(***************************************************************************)
EXTENDS QsServerProofs

-----------------------------------------------------------------------------
(***************************************************************************)
(* The tables of transfers follow the connections.                         *)
(***************************************************************************)

\* The client of s has been asked to receive t, or is about to be.
Asks(s, t) ==
    t \in asked[s] \/ \E i \in DOMAIN msg_queue[s] : /\ msg_queue[s][i].type = "REQUEST"
                                                    /\ msg_queue[s][i].t_id = t

\* A client is asked for a transfer of this process, and a slot without a
\* client for none.
AskedNow ==
    \A s \in Slots :
        /\ ~Live(s) => asked[s] = {}
        /\ Live(s) => \A t \in Transfer_ID : Asks(s, t) => \A x \in CreatorOf(t) : x > boot_id

CreatorsKnown == \A v \in transfers : v.creator_id <= last_id

\* A transfer this process knows of: its creator and its participants are
\* online in one session.
TransfersOnline ==
    \A v \in transfers : (running /\ v.creator_id > boot_id) =>
        \E key \in SessionNames :
            /\ Online(v.creator_id, key)
            /\ \A w \in Rows(v.transfer_id) :
                  Online(w.client_id, key) /\ w.client_id # v.creator_id

LEMMA TablesInvInit == Init => AskedNow /\ CreatorsKnown /\ TransfersOnline
  BY DEF Init, AskedNow, CreatorsKnown, TransfersOnline, Asks, Live, CreatorOf

\* A step asks nobody for a transfer that was there before it.
AsksStep ==
    \A s \in Slots :
        /\ ~Live(s)' => asked'[s] = {}
        /\ Live(s)' => \A t \in Transfer_ID : Asks(s, t)' =>
              (Live(s) /\ Asks(s, t)) \/ \A v \in transfers : v.transfer_id < t

\* What a step does to one slot.
AsksAt(s) ==
    /\ ~Live(s)' => asked'[s] = {}
    /\ Live(s)' => \A t \in Transfer_ID : Asks(s, t)' => Live(s) /\ Asks(s, t)

\* A queue to which no REQUEST is added asks for nothing new.
LEMMA SendsAsks ==
  ASSUME TypeOK, AskedNow, NEW types, "REQUEST" \notin types, Sends(types),
         NEW s \in Slots, asked'[s] \subseteq asked[s], Live(s)' <=> Live(s)
  PROVE  AsksAt(s)
<1>1. PICK o \in Seq(Of(types)) : o \in Seq(Packet) /\ msg_queue'[s] = msg_queue[s] \o o
  BY SendsAt DEF TypeOK, QueueType
<1>2. \A i \in DOMAIN o : o[i].type # "REQUEST"
  BY <1>1, OfTypes
<1>3. msg_queue[s] \in Seq(Packet)
  BY DEF TypeOK
<1> DEFINE q == msg_queue[s]
<1> HIDE DEF q
<1>4. ASSUME NEW i \in DOMAIN (q \o o), (q \o o)[i].type = "REQUEST"
      PROVE  i \in DOMAIN q /\ (q \o o)[i] = q[i]
  <2>1. q \in Seq(Packet)
    BY <1>3 DEF q
  <2>2. CASE i - Len(q) \in DOMAIN o
    <3>1. i = Len(q) + (i - Len(q))
      BY <1>1, <1>4, <2>1, ConcatAt
    <3>2. (q \o o)[i] = o[i - Len(q)]
      BY <1>1, <2>1, <2>2, <3>1, ConcatAt
    <3> QED BY <1>2, <1>4, <2>2, <3>2
  <2> QED BY <1>1, <1>4, <2>1, <2>2, ConcatAt
<1>5. ASSUME NEW t \in Transfer_ID, Asks(s, t)' PROVE Asks(s, t)
  BY <1>1, <1>4, <1>5 DEF Asks, q
<1> QED BY <1>5 DEF AsksAt, AskedNow

LEMMA JoinSends ==
  ASSUME TypeOK, NEW s \in Slots, NEW key \in SessionNames, Joins(s, key)
  PROVE  Sends({"OK", "NEW_USERS"})
<1> DEFINE types == {"OK", "NEW_USERS"}
           mates == Mates(s, key)
<1>1. /\ Response("OK") \in Of(types)
      /\ Users("NEW_USERS", Ids(mates)) \in Of(types)
      /\ Users("NEW_USERS", {cid[s]}) \in Of(types)
  <2>1. Ids(mates) \subseteq Client_ID /\ {cid[s]} \subseteq Client_ID
    BY DEF TypeOK, Ids, Mates
  <2>2. types \subseteq ServerPacket /\ "OK" \in types /\ "NEW_USERS" \in types
    BY DEF ServerPacket
  <2> HIDE DEF types, mates
  <2> QED BY <2>1, <2>2, PktIn, ZeroTypes DEF Response, Users
<1> HIDE DEF types
<1>2. ASSUME NEW r \in Slots PROVE JoinPackets(s, key)[r] \in Seq(Of(types))
  <2> DEFINE some == mates # {}
             in == r \in mates
  <2>1. some \in BOOLEAN /\ in \in BOOLEAN /\ TRUE \in BOOLEAN
    OBVIOUS
  <2>2. JoinPackets(s, key)[r] =
          IF r = s THEN One(TRUE, Response("OK")) \o One(some, Users("NEW_USERS", Ids(mates)))
                   ELSE One(in, Users("NEW_USERS", {cid[s]}))
    BY DEF JoinPackets, One
  <2> HIDE DEF some, in, mates
  <2>3. /\ One(TRUE, Response("OK")) \in Seq(Of(types))
        /\ One(some, Users("NEW_USERS", Ids(mates))) \in Seq(Of(types))
        /\ One(in, Users("NEW_USERS", {cid[s]})) \in Seq(Of(types))
    BY <1>1, <2>1, OneIn
  <2> QED BY <2>2, <2>3, ConcatProperties
<1>3. JoinPackets(s, key) \in [Slots -> Seq(Of(types))]
  BY <1>2 DEF JoinPackets
<1>4. Sends(types)
  BY <1>3 DEF Joins, Sends
<1> QED BY <1>4 DEF types

LEMMA LeaveSends ==
  ASSUME TypeOK, NEW s \in Slots, Leaves(s) PROVE Sends({"CANCEL", "DEL_USERS"})
<1> DEFINE types == {"CANCEL", "DEL_USERS"}
<1>1. PICK cancels \in [Slots -> Seq(Of({"CANCEL"}))] :
              Enqueue([k \in Slots |-> cancels[k] \o DelUsers(s, k)])
  BY DEF Leaves
<1>2. Users("DEL_USERS", {cid[s]}) \in Of(types)
  <2>1. {cid[s]} \subseteq Client_ID /\ "DEL_USERS" \in ServerPacket /\ "DEL_USERS" \in types
    BY DEF TypeOK, ServerPacket
  <2> HIDE DEF types
  <2> QED BY <2>1, PktIn, ZeroTypes DEF Users
<1>3. Of({"CANCEL"}) \subseteq Of(types)
  BY DEF Of
<1> HIDE DEF types
<1>4. ASSUME NEW r \in Slots PROVE cancels[r] \o DelUsers(s, r) \in Seq(Of(types))
  <2>1. cancels[r] \in Seq(Of(types))
    BY <1>3, SeqSubset
  <2>2. (Joined(s) /\ SameSession(s, r, csession[s])) \in BOOLEAN
    OBVIOUS
  <2>3. DelUsers(s, r) \in Seq(Of(types))
    BY <1>2, <2>2, OneIn DEF DelUsers
  <2> QED BY <2>1, <2>3, ConcatProperties
<1> DEFINE out == [k \in Slots |-> cancels[k] \o DelUsers(s, k)]
<1>5. out \in [Slots -> Seq(Of(types))]
  BY <1>4
<1>6. Enqueue(out)
  BY <1>1
<1> HIDE DEF out
<1>7. Sends(types)
  BY <1>5, <1>6 DEF Sends
<1> QED BY <1>7 DEF types

\* The request of a transfer asks for the number the new transfer gets.
LEMMA TransferAsks ==
  ASSUME TypeOK, AskedNow, NEW s \in Slots, NEW to \in SUBSET user_list[s], packet_transfer(s, to)
  PROVE  AsksStep
<1> DEFINE new(t) == \A v \in transfers : v.transfer_id < t
           pkts == {p \in Packet : p.type = "REQUEST" => new(p.t_id)}
           invalid == [r \in Slots |-> One(r = s, Response("INVALID"))]
           valid(t) == [r \in Slots |->
             One(r = s, Pkt("VALID", t, 0, to, FALSE)) \o
             One(\E x \in to : client_find_by_id(r, x), Pkt("REQUEST", t, cid[s], to, FALSE))]
<1>1. CASE ProcessEnds
  BY <1>1, AllGone DEF AsksStep
<1>2. CASE ~ProcessEnds
  <2>1. invalid \in [Slots -> Seq(pkts)]
    <3>1. Response("INVALID") \in Packet
      BY PktType, ZeroTypes DEF Response, ServerPacket
    <3>2. Response("INVALID") \in pkts
      BY <3>1 DEF Response, Pkt
    <3> HIDE DEF pkts
    <3> QED BY <3>2, OneIn
  <2>2. ASSUME NEW t \in Transfer_ID, NewRowid(t) PROVE valid(t) \in [Slots -> Seq(pkts)]
    <3>1. /\ Pkt("VALID", t, 0, to, FALSE) \in Packet
          /\ Pkt("REQUEST", t, cid[s], to, FALSE) \in Packet
      <4>1. to \subseteq Client_ID /\ cid[s] \in Client_ID
        BY DEF TypeOK
      <4> QED BY <4>1, PktType, ZeroTypes DEF ServerPacket
    <3>2. new(t)
      BY <2>2 DEF NewRowid
    <3>3. /\ Pkt("VALID", t, 0, to, FALSE) \in pkts
          /\ Pkt("REQUEST", t, cid[s], to, FALSE) \in pkts
      BY <3>1, <3>2 DEF Pkt
    <3> HIDE DEF pkts
    <3>4. ASSUME NEW r \in Slots PROVE valid(t)[r] \in Seq(pkts)
      <4>1. (r = s) \in BOOLEAN /\ (\E x \in to : client_find_by_id(r, x)) \in BOOLEAN
        OBVIOUS
      <4>2. /\ One(r = s, Pkt("VALID", t, 0, to, FALSE)) \in Seq(pkts)
            /\ One(\E x \in to : client_find_by_id(r, x), Pkt("REQUEST", t, cid[s], to, FALSE))
                  \in Seq(pkts)
        BY <3>3, <4>1, OneIn
      <4> QED BY <4>2, ConcatProperties
    <3> QED BY <3>4
  <2> HIDE DEF invalid, valid, pkts
  <2>3. \/ Enqueue(invalid)
        \/ \E t \in Transfer_ID : NewRowid(t) /\ Enqueue(valid(t))
    BY <1>2 DEF packet_transfer, invalid, valid
  <2>4. PICK out \in [Slots -> Seq(pkts)] : Enqueue(out)
    BY <2>1, <2>2, <2>3
  <2>5. UNCHANGED <<cstate, asked>>
    BY <1>2 DEF packet_transfer, table, client
  <2>6. ASSUME NEW r \in Slots, Live(r), NEW t \in Transfer_ID, Asks(r, t)', ~new(t) PROVE Asks(r, t)
    <3> DEFINE q == msg_queue[r]
               o == out[r]
    <3>1. msg_queue'[r] = q \o o
      BY <2>4 DEF Enqueue
    <3>2. q \in Seq(Packet) /\ o \in Seq(pkts) /\ o \in Seq(Packet)
      <4>1. pkts \subseteq Packet
        BY DEF pkts
      <4> QED BY <4>1, SeqSubset DEF TypeOK
    <3>3. \A i \in DOMAIN o : o[i].type = "REQUEST" => o[i].t_id # t
      BY <2>6, <3>2 DEF pkts
    <3> HIDE DEF q, o, new
    <3>4. ASSUME NEW i \in DOMAIN (q \o o), (q \o o)[i].type = "REQUEST", (q \o o)[i].t_id = t
          PROVE  i \in DOMAIN q /\ (q \o o)[i] = q[i]
      <4>1. CASE i - Len(q) \in DOMAIN o
        <5>1. i = Len(q) + (i - Len(q))
          BY <3>2, <3>4, ConcatAt
        <5>2. (q \o o)[i] = o[i - Len(q)]
          BY <3>2, <4>1, <5>1, ConcatAt
        <5> QED BY <3>3, <3>4, <4>1, <5>2
      <4> QED BY <3>2, <3>4, <4>1, ConcatAt
    <3> QED BY <2>5, <2>6, <3>1, <3>4 DEF Asks, q
  <2>7. \A r \in Slots : Live(r)' <=> Live(r)
    BY <2>5 DEF Live
  <2> QED BY <2>5, <2>6, <2>7 DEF AsksStep, AskedNow
<1> QED BY <1>1, <1>2

LEMMA WriteAsks ==
  ASSUME TypeOK, AskedNow, NEW s \in Slots, write_data(s), NEW r \in Slots PROVE AsksAt(r)
<1>1. UNCHANGED cstate /\ Live(s)
  BY DEF write_data, table
<1>2. CASE r # s
  <2>1. msg_queue'[r] = msg_queue[r] /\ asked'[r] = asked[r]
    BY <1>2 DEF write_data, forget, TypeOK
  <2> QED BY <1>1, <2>1 DEF AsksAt, AskedNow, Asks, Live
<1>3. CASE r = s
  <2> DEFINE q == msg_queue[s]
  <2>1. q \in Seq(Packet) /\ q # << >> /\ msg_queue'[s] = Tail(q)
    BY DEF write_data, TypeOK
  <2>2. asked'[s] \subseteq asked[s] \cup (IF Head(q).type = "REQUEST" THEN {Head(q).t_id} ELSE {})
    <3>1. CASE Head(q).type = "CANCEL"
      BY <3>1 DEF write_data, forget, TypeOK
    <3>2. CASE Head(q).type # "CANCEL"
      BY <3>2 DEF write_data, TypeOK
    <3> QED BY <3>1, <3>2
  <2> HIDE DEF q
  <2>3. ASSUME NEW t \in Transfer_ID, Asks(s, t)' PROVE Asks(s, t)
    <3>1. /\ \A i \in DOMAIN Tail(q) : i + 1 \in DOMAIN q /\ Tail(q)[i] = q[i + 1]
          /\ 1 \in DOMAIN q /\ Head(q) = q[1]
      BY <2>1, TailAt
    <3>2. CASE t \in asked'[s]
      BY <2>2, <3>1, <3>2 DEF Asks, q
    <3>3. CASE t \notin asked'[s]
      BY <2>1, <2>3, <3>1, <3>3 DEF Asks, q
    <3> QED BY <3>2, <3>3
  <2>4. Live(s) /\ Live(s)'
    BY <1>1 DEF Live
  <2> QED BY <1>3, <2>3, <2>4 DEF AsksAt
<1> QED BY <1>2, <1>3

LEMMA HandlersAsk == TypeOK /\ AskedNow /\ [Next]_vars => AsksStep
<1> SUFFICES ASSUME TypeOK, AskedNow, [Next]_vars PROVE AsksStep
  OBVIOUS
<1>a. (\A r \in Slots : AsksAt(r)) => AsksStep
  BY DEF AsksAt, AsksStep
<1>b. ASSUME ProcessEnds PROVE AsksStep
  BY <1>b, AllGone DEF AsksStep
<1>c. ASSUME UNCHANGED <<asked, msg_queue, cstate>> PROVE AsksStep
  BY <1>c DEF AsksStep, AskedNow, Asks, Live
<1>d. ASSUME NEW types, "REQUEST" \notin types, Sends(types),
             \A r \in Slots : asked'[r] \subseteq asked[r] /\ (Live(r)' <=> Live(r))
      PROVE  AsksStep
  BY <1>a, <1>d, SendsAsks
<1>1. CASE stop \/ start \/ UNCHANGED vars
  BY <1>1, <1>b, <1>c DEF stop, start, vars, table, client
<1>2. ASSUME NEW s \in Slots, accept_client(s) PROVE AsksStep
  <2>1. /\ cstate[s] = "C_EMPTY" /\ cstate' = [cstate EXCEPT ![s] = "C_CONNECTED"]
        /\ msg_queue' = [msg_queue EXCEPT ![s] = << >>] /\ asked' = asked
    BY <1>2 DEF accept_client, client, Live
  <2>2. ASSUME NEW r \in Slots PROVE AsksAt(r)
    <3>1. CASE r = s
      <4>1. asked'[s] = {} /\ msg_queue'[s] = << >>
        BY <2>1 DEF AskedNow, Live, TypeOK
      <4>2. Live(s)' /\ \A t : ~Asks(s, t)'
        BY <2>1, <4>1 DEF Asks, Live, TypeOK
      <4> QED BY <3>1, <4>2 DEF AsksAt
    <3>2. CASE r # s
      <4>1. msg_queue'[r] = msg_queue[r] /\ asked'[r] = asked[r] /\ (Live(r)' <=> Live(r))
        BY <2>1, <3>2 DEF TypeOK, Live
      <4> QED BY <4>1 DEF AsksAt, AskedNow, Asks
    <3> QED BY <3>1, <3>2
  <2> QED BY <1>a, <2>2
<1>3. ASSUME NEW s \in Slots, complete_handshake(s) PROVE AsksStep
  <2>1. /\ UNCHANGED <<asked, msg_queue>> /\ \A r \in Slots : Live(r)' <=> Live(r)
    BY <1>3 DEF complete_handshake, client, Live, TypeOK
  <2> QED BY <2>1 DEF AsksStep, AskedNow, Asks
<1>4. ASSUME NEW s \in Slots, NEW create \in BOOLEAN, NEW key \in SessionNames,
             packet_intro(s, create, key)
      PROVE  AsksStep
  <2>1. CASE Joins(s, key)
    <3>1. Sends({"OK", "NEW_USERS"})
      BY <2>1, JoinSends
    <3>2. (\A r \in Slots : Live(r)' <=> Live(r)) /\ (~ProcessEnds => asked' = asked)
      BY <1>4, <2>1 DEF Joins, Live, TypeOK, packet_intro, client
    <3> QED BY <1>b, <1>d, <3>1, <3>2
  <2>2. CASE Sends({"DENY"}) /\ UNCHANGED <<table, client, env>>
    <3>1. asked' = asked /\ \A r \in Slots : Live(r)' <=> Live(r)
      BY <2>2 DEF table, client, Live
    <3> QED BY <1>d, <2>2, <3>1
  <2> QED BY <1>4, <1>b, <2>1, <2>2, IntroSends
<1>5. ASSUME NEW s \in Slots, NEW to \in SUBSET user_list[s], packet_transfer(s, to) PROVE AsksStep
  BY <1>5, TransferAsks
<1>6. ASSUME NEW s \in Slots, NEW t \in Transfer_ID, NEW accept \in BOOLEAN,
             packet_reply(s, t, accept)
      PROVE  AsksStep
  <2>1. CASE ProcessEnds
    BY <2>1, <1>b
  <2>2. CASE ~ProcessEnds
    <3>1. Sends({"REPLY"}) /\ cstate' = cstate
      BY <1>6, <2>2, ReplySends DEF table
    <3>2. asked' = [asked EXCEPT ![s] = @ \ {t}]
      BY <1>6, <2>2 DEF packet_reply
    <3>3. \A r \in Slots : asked'[r] \subseteq asked[r] /\ (Live(r)' <=> Live(r))
      BY <3>1, <3>2 DEF TypeOK, Live
    <3> QED BY <1>d, <3>1, <3>3
  <2> QED BY <2>1, <2>2
<1>7. ASSUME NEW s \in Slots, NEW t \in Transfer_ID, packet_data(s, t) \/ packet_complete(s, t)
      PROVE  AsksStep
  <2>1. ProcessEnds \/ (UNCHANGED <<asked, cstate>> /\ (Sends({"DATA"}) \/ Sends({"COMPLETE"})))
    BY <1>7, DataSends, CompleteSends DEF table, client
  <2>2. UNCHANGED <<asked, cstate>> =>
           \A r \in Slots : asked'[r] \subseteq asked[r] /\ (Live(r)' <=> Live(r))
    BY DEF Live
  <2> QED BY <1>b, <1>d, <2>1, <2>2
<1>8. ASSUME NEW s \in Slots, NEW t \in Transfer_ID, packet_cancel(s, t) PROVE AsksStep
  <2>1. CASE ProcessEnds
    BY <2>1, <1>b
  <2>2. CASE ~ProcessEnds
    <3>1. Sends({"CANCEL"}) /\ cstate' = cstate
      BY <1>8, <2>2, CancelSends DEF table
    <3>2. asked' = [asked EXCEPT ![s] = @ \ {t}]
      BY <1>8, <2>2 DEF packet_cancel
    <3>3. \A r \in Slots : asked'[r] \subseteq asked[r] /\ (Live(r)' <=> Live(r))
      BY <3>1, <3>2 DEF TypeOK, Live
    <3> QED BY <1>d, <3>1, <3>3
  <2> QED BY <2>1, <2>2
<1>9. ASSUME NEW s \in Slots, close_client(s) PROVE AsksStep
  <2>1. CASE ProcessEnds
    BY <2>1, <1>b
  <2>2. CASE ~ProcessEnds
    <3>1. Leaves(s) /\ Sends({"CANCEL", "DEL_USERS"})
      BY <1>9, <2>2, CloseLeaves, LeaveSends
    <3>2. asked' = [asked EXCEPT ![s] = {}] /\ cstate' = [cstate EXCEPT ![s] = "C_EMPTY"]
      BY <1>9, <2>2 DEF close_client
    <3>3. ASSUME NEW r \in Slots PROVE AsksAt(r)
      <4>1. CASE r = s
        BY <3>2, <4>1 DEF AsksAt, TypeOK, Live
      <4>2. CASE r # s
        <5>1. asked'[r] = asked[r] /\ (Live(r)' <=> Live(r))
          BY <3>2, <4>2 DEF TypeOK, Live
        <5> QED BY <3>1, <5>1, SendsAsks
      <4> QED BY <4>1, <4>2
    <3> QED BY <1>a, <3>3
  <2> QED BY <2>1, <2>2
<1>10. ASSUME NEW s \in Slots, write_data(s) PROVE AsksStep
  BY <1>10, <1>a, WriteAsks
<1> QED BY <1>1, <1>2, <1>3, <1>4, <1>5, <1>6, <1>7, <1>8, <1>9, <1>10 DEF Next

(***************************************************************************)
(* What a step does to the tables of transfers, and who stays online.      *)
(***************************************************************************)
Stay == \A s \in Slots : Joined(s) => Joined(s)' /\ cid'[s] = cid[s] /\ csession'[s] = csession[s]

\* Transfers and participants only go, and answers change.
Shrinks ==
    /\ transfers' \subseteq transfers
    /\ \A w \in transfer_clients' : \E u \in transfer_clients :
          u.transfer_id = w.transfer_id /\ u.client_id = w.client_id

\* s leaves, and no transfer it created, nor a row of it, is left.
Forgotten(s) ==
    /\ Shrinks
    /\ \A k \in Slots : k # s /\ Joined(k) =>
          Joined(k)' /\ cid'[k] = cid[k] /\ csession'[k] = csession[k]
    /\ Joined(s) => /\ \A v \in transfers' : v.creator_id # cid[s]
                    /\ \A w \in transfer_clients' : w.client_id # cid[s]

Creates(s, t, to) ==
    /\ Joined(s) /\ to \subseteq user_list[s] /\ check_recipients(s, to)
    /\ NewRowid(t)
    /\ transfers' = transfers \cup {[transfer_id |-> t, creator_id |-> cid[s]]}
    /\ transfer_clients' = transfer_clients \cup
           [transfer_id : {t}, client_id : to, accepted : {-1}]

TransfersStep ==
    \/ ~running' \/ start
    \/ /\ UNCHANGED boot_id
       /\ running
       /\ \/ Shrinks /\ Stay
          \/ \E s \in Slots : Forgotten(s)
          \/ Stay /\ \E s \in Slots, t \in Transfer_ID, to \in SUBSET Client_ID : Creates(s, t, to)

LEMMA SameShrinks == UNCHANGED <<transfers, transfer_clients>> => Shrinks
  BY DEF Shrinks

LEMMA TableStay == UNCHANGED table => Stay
  BY DEF Stay, table, Joined

LEMMA HandlersTransfers == TypeOK /\ [Next]_vars => TransfersStep
<1> SUFFICES ASSUME TypeOK, [Next]_vars PROVE TransfersStep
  OBVIOUS
<1>a. ASSUME ProcessEnds PROVE TransfersStep
  BY <1>a DEF ProcessEnds, TransfersStep
<1>b. ASSUME UNCHANGED <<table, boot_id>>, running \/ ~running', Shrinks PROVE TransfersStep
  BY <1>b, TableStay DEF TransfersStep
<1>1. CASE stop \/ start \/ UNCHANGED vars
  <2>1. CASE stop \/ start
    BY <1>a, <2>1 DEF stop, TransfersStep
  <2>2. CASE UNCHANGED vars
    BY <1>b, <2>2, SameShrinks DEF vars, db, env
  <2> QED BY <1>1, <2>1, <2>2
<1>2. ASSUME NEW s \in Slots, accept_client(s) \/ complete_handshake(s) PROVE TransfersStep
  <2>1. Shrinks /\ UNCHANGED boot_id /\ running
    BY <1>2, SameShrinks DEF accept_client, complete_handshake, db, env
  <2>2. Stay
    BY <1>2 DEF accept_client, complete_handshake, Stay, Joined, Live, TypeOK
  <2> QED BY <2>1, <2>2 DEF TransfersStep
<1>3. ASSUME NEW s \in Slots, NEW create \in BOOLEAN, NEW key \in SessionNames,
             packet_intro(s, create, key)
      PROVE  TransfersStep
  <2>1. Shrinks /\ running
    BY <1>3, SameShrinks DEF packet_intro, db
  <2>2. CASE Joins(s, key)
    <3>1. Stay /\ UNCHANGED boot_id
      BY <2>2 DEF Joins, Stay, Joined, TypeOK
    <3> QED BY <2>1, <3>1 DEF TransfersStep
  <2>3. CASE UNCHANGED <<table, client, env>>
    BY <1>b, <2>1, <2>3 DEF env
  <2> QED BY <1>3, <1>a, <2>2, <2>3, IntroSends
<1>4. ASSUME NEW s \in Slots, NEW to \in SUBSET user_list[s], packet_transfer(s, to)
      PROVE  TransfersStep
  <2>1. CASE ~ProcessEnds
    <3>1. UNCHANGED <<table, boot_id>> /\ running
      BY <1>4, <2>1 DEF packet_transfer
    <3>2. CASE UNCHANGED db
      BY <1>b, <3>1, <3>2, SameShrinks DEF db
    <3>3. CASE ~UNCHANGED db
      <4>1. \E t \in Transfer_ID : Creates(s, t, to)
        BY <1>4, <3>3 DEF packet_transfer, Creates, Joined
      <4>2. to \in SUBSET Client_ID
        BY DEF TypeOK
      <4> QED BY <3>1, <4>1, <4>2, TableStay DEF TransfersStep
    <3> QED BY <3>2, <3>3
  <2> QED BY <1>a, <2>1
<1>5. ASSUME NEW s \in Slots, NEW t \in Transfer_ID, NEW accept \in BOOLEAN,
             packet_reply(s, t, accept)
      PROVE  TransfersStep
  <2>1. /\ transfer_clients' = db_client_accept(s, t, IF accept THEN 1 ELSE 0)
        /\ transfers' = transfers /\ running
    BY <1>5 DEF packet_reply
  <2>2. Shrinks
    BY <2>1 DEF Shrinks, db_client_accept, Rows
  <2> QED BY <1>5, <1>a, <1>b, <2>1, <2>2, ReplySends DEF env
<1>6. ASSUME NEW s \in Slots, NEW t \in Transfer_ID,
             packet_data(s, t) \/ packet_complete(s, t) \/ packet_cancel(s, t)
      PROVE  TransfersStep
  <2>1. CASE ProcessEnds
    BY <1>a, <2>1
  <2>2. CASE ~ProcessEnds
    <3>1. UNCHANGED <<table, boot_id>> /\ running
      BY <1>6, <2>2 DEF packet_data, packet_complete, packet_cancel, env
    <3>2. \/ UNCHANGED <<transfers, transfer_clients>>
          \/ \E T : cleanup(T)
          \/ transfers' = transfers /\ transfer_clients' \subseteq transfer_clients
      BY <1>6 DEF packet_data, packet_complete, packet_cancel, db, db_client_delete
    <3>3. Shrinks
      BY <3>2 DEF Shrinks, cleanup
    <3> QED BY <1>b, <3>1, <3>3
  <2> QED BY <2>1, <2>2
<1>7. ASSUME NEW s \in Slots, close_client(s) PROVE TransfersStep
  <2>1. CASE ProcessEnds
    BY <1>a, <2>1
  <2>2. CASE ~ProcessEnds
    <3> DEFINE gone == Hosted(s)
    <3>1. Leaves(s) /\ running
      BY <1>7, <2>2, CloseLeaves DEF close_client
    <3>2. IF Joined(s)
          THEN /\ transfers' = {w \in transfers : w.transfer_id \notin gone}
               /\ transfer_clients' = {w \in db_client_delete(s) : w.transfer_id \notin gone}
          ELSE UNCHANGED <<transfers, transfer_clients>>
      BY <1>7, <2>2 DEF close_client, Joined
    <3>3. \A v \in transfers : v.creator_id = cid[s] => v.transfer_id \in gone
      BY DEF Hosted
    <3> HIDE DEF gone
    <3>4. Shrinks
      BY <3>2 DEF Shrinks, db_client_delete
    <3>5. Joined(s) => /\ \A v \in transfers' : v.creator_id # cid[s]
                       /\ \A w \in transfer_clients' : w.client_id # cid[s]
      BY <3>2, <3>3 DEF db_client_delete
    <3>6. \A k \in Slots : k # s /\ Joined(k) =>
             Joined(k)' /\ cid'[k] = cid[k] /\ csession'[k] = csession[k]
      BY <3>1 DEF Leaves, Joined, TypeOK
    <3> QED BY <3>1, <3>4, <3>5, <3>6 DEF Forgotten, Leaves, TransfersStep
  <2> QED BY <2>1, <2>2
<1>8. ASSUME NEW s \in Slots, write_data(s) PROVE TransfersStep
  BY <1>8, <1>b, SameShrinks DEF write_data, db, env
<1> QED BY <1>1, <1>2, <1>3, <1>4, <1>5, <1>6, <1>7, <1>8 DEF Next

\* A new transfer is its creator's, who has joined a session.
LEMMA NewCreators ==
  ASSUME TypeOK, [Next]_vars, NEW v \in transfers'
  PROVE  v \in transfers \/ \E s \in Slots : Joined(s) /\ v.creator_id = cid[s]
<1> DEFINE Goal == v \in transfers \/ \E s \in Slots : Joined(s) /\ v.creator_id = cid[s]
<1>1. CASE stop \/ start \/ UNCHANGED vars
  BY <1>1 DEF stop, start, vars, db
<1>2. ASSUME NEW s \in Slots,
             accept_client(s) \/ complete_handshake(s) \/ close_client(s) \/ write_data(s)
      PROVE  Goal
  BY <1>2 DEF accept_client, complete_handshake, close_client, write_data, db
<1>3. ASSUME NEW s \in Slots, NEW create \in BOOLEAN, NEW key \in SessionNames,
             packet_intro(s, create, key)
      PROVE  Goal
  BY <1>3 DEF packet_intro, db
<1>4. ASSUME NEW s \in Slots, NEW to \in SUBSET user_list[s], packet_transfer(s, to)
      PROVE  Goal
  <2>1. UNCHANGED transfers \/ \E t \in Transfer_ID :
           transfers' = transfers \cup {[transfer_id |-> t, creator_id |-> cid[s]]}
    BY <1>4 DEF packet_transfer, db
  <2>2. Joined(s)
    BY <1>4 DEF packet_transfer, Joined
  <2> QED BY <2>1, <2>2
<1>5. ASSUME NEW s \in Slots, NEW t \in Transfer_ID, NEW accept \in BOOLEAN,
             packet_reply(s, t, accept)
      PROVE  Goal
  BY <1>5 DEF packet_reply
<1>6. ASSUME NEW s \in Slots, NEW t \in Transfer_ID,
             packet_data(s, t) \/ packet_complete(s, t) \/ packet_cancel(s, t)
      PROVE  Goal
  BY <1>6 DEF packet_data, packet_complete, packet_cancel, cleanup, db
<1> HIDE DEF Goal
<1> QED BY <1>1, <1>2, <1>3, <1>4, <1>5, <1>6 DEF Next, Goal

\* Time goes on, and the start of the process stays where it was.
LEMMA TimePasses ==
  ASSUME TypeOK, [Next]_vars PROVE last_id' >= last_id /\ (~start => UNCHANGED boot_id)
<1>0. last_id \in Nat /\ MaxTime \in Nat
  BY ServerAssumption DEF TypeOK, Client_ID
<1>1. \A now \in Seconds : now >= last_id
  BY <1>0 DEF Seconds
<1>2. RosterStep
  BY HandlersRoster
<1>3. ASSUME NEW s \in Slots, accept_client(s) PROVE last_id' >= last_id /\ UNCHANGED boot_id
  BY <1>1, <1>3 DEF accept_client
<1>4. ASSUME NEW s \in Slots, NEW key \in SessionNames, Joins(s, key)
      PROVE  last_id' >= last_id /\ UNCHANGED boot_id
  BY <1>0, <1>4 DEF Joins
<1>5. ASSUME NEW s \in Slots, complete_handshake(s) \/ Leaves(s) \/ Reads(s)
      PROVE  last_id' >= last_id /\ UNCHANGED boot_id
  BY <1>0, <1>5 DEF complete_handshake, Leaves, Reads, env
<1>6. CASE ProcessEnds \/ Quiet \/ start
  BY <1>0, <1>6 DEF ProcessEnds, Quiet, start
<1> QED BY <1>2, <1>3, <1>4, <1>5, <1>6 DEF RosterStep

LEMMA CreatorsKnownStep ==
  ASSUME TypeOK, Identities, CreatorsKnown, [Next]_vars PROVE CreatorsKnown'
<1>0. /\ last_id \in Nat /\ last_id' \in Nat /\ \A s \in Slots : cid[s] \in Nat
      /\ \A v \in transfers' : v.creator_id \in Nat
  BY StepType DEF TypeOK, Client_ID, TransferRow
<1>1. SUFFICES ASSUME NEW v \in transfers' PROVE v.creator_id <= last_id'
  BY DEF CreatorsKnown
<1>2. v.creator_id <= last_id
  BY NewCreators DEF CreatorsKnown, Identities
<1> QED BY <1>0, <1>2, TimePasses

LEMMA AskedNowStep ==
  ASSUME TypeOK, Identities, AskedNow, [Next]_vars PROVE AskedNow'
<1>1. AsksStep
  BY HandlersAsk
<1>2. SUFFICES ASSUME NEW s \in Slots, Live(s)', NEW t \in Transfer_ID, Asks(s, t)',
                      NEW v \in transfers', v.transfer_id = t
               PROVE  v.creator_id > boot_id'
  BY <1>1 DEF AskedNow, AsksStep, CreatorOf
<1>3. CASE start
  <2>1. ~Live(s)
    BY <1>3 DEF start, Identities
  <2>2. Live(s)' <=> Live(s)
    BY <1>3 DEF start, table, Live
  <2> QED BY <1>2, <2>1, <2>2
<1>4. CASE ~start
  <2>1. boot_id' = boot_id
    BY <1>4, TimePasses
  <2>2. CASE v \in transfers
    <3>1. t \in Nat
      BY DEF Transfer_ID
    <3>2. Live(s) /\ Asks(s, t)
      BY <1>1, <1>2, <2>2, <3>1 DEF AsksStep
    <3>3. v.creator_id \in CreatorOf(t)
      BY <1>2, <2>2 DEF CreatorOf
    <3> QED BY <2>1, <3>2, <3>3 DEF AskedNow
  <2>3. ASSUME NEW k \in Slots, Joined(k), v.creator_id = cid[k] PROVE v.creator_id > boot_id'
    <3>1. boot_id \in Nat /\ cid[k] \in Nat
      BY DEF TypeOK, Client_ID
    <3> QED BY <2>1, <2>3, <3>1 DEF Identities, Joined, Live
  <2> QED BY <2>2, <2>3, NewCreators
<1> QED BY <1>3, <1>4

\* Who is online stays so.
LEMMA OnlineStays ==
  ASSUME Stay, NEW x, NEW key, Online(x, key) PROVE Online(x, key)'
  BY DEF Stay, Online, Joined

LEMMA TransfersOnlineStep ==
  ASSUME TypeOK, Identities, NotItself, RowsHaveTransfer, CreatorsKnown, TransfersOnline,
         [Next]_vars
  PROVE  TransfersOnline'
<1>1. SUFFICES ASSUME NEW v \in transfers', running', v.creator_id > boot_id'
               PROVE  \E key \in SessionNames :
                        /\ Online(v.creator_id, key)'
                        /\ \A w \in Rows(v.transfer_id)' :
                             Online(w.client_id, key)' /\ w.client_id # v.creator_id
  BY DEF TransfersOnline
<1> DEFINE Goal == \E key \in SessionNames :
                        /\ Online(v.creator_id, key)'
                        /\ \A w \in Rows(v.transfer_id)' :
                             Online(w.client_id, key)' /\ w.client_id # v.creator_id
<1>2. TransfersStep
  BY HandlersTransfers
<1>3. CASE start
  <2>1. boot_id' = last_id /\ v \in transfers
    BY <1>3 DEF start, db
  <2>2. v.creator_id <= last_id /\ v.creator_id \in Nat /\ last_id \in Nat
    BY <2>1 DEF CreatorsKnown, TypeOK, Client_ID, TransferRow
  <2> QED BY <1>1, <2>1, <2>2
<1>4. ASSUME Shrinks, running, UNCHANGED boot_id
      PROVE  /\ v \in transfers
             /\ \A w \in Rows(v.transfer_id)' : \E u \in Rows(v.transfer_id) : u.client_id = w.client_id
             /\ \E key \in SessionNames :
                   /\ Online(v.creator_id, key)
                   /\ \A w \in Rows(v.transfer_id) :
                         Online(w.client_id, key) /\ w.client_id # v.creator_id
  <2>1. v \in transfers
    BY <1>4 DEF Shrinks
  <2>2. \A w \in Rows(v.transfer_id)' : \E u \in Rows(v.transfer_id) : u.client_id = w.client_id
    BY <1>4 DEF Shrinks, Rows
  <2> QED BY <1>1, <1>4, <2>1, <2>2 DEF TransfersOnline
<1>5. CASE Shrinks /\ Stay /\ running /\ UNCHANGED boot_id
  BY <1>4, <1>5, OnlineStays
<1>6. ASSUME NEW s \in Slots, Forgotten(s), running, UNCHANGED boot_id PROVE Goal
  <2>1. CASE ~Joined(s)
    BY <1>4, <1>6, <2>1, OnlineStays DEF Forgotten, Stay
  <2>2. CASE Joined(s)
    <3>1. /\ v.creator_id # cid[s]
          /\ \A w \in Rows(v.transfer_id)' : w.client_id # cid[s]
      BY <1>6, <2>2 DEF Forgotten, Rows
    <3>2. \A x, key : Online(x, key) /\ x # cid[s] => Online(x, key)'
      BY <1>6 DEF Forgotten, Online, Joined
    <3> QED BY <1>4, <1>6, <3>1, <3>2 DEF Forgotten
  <2> QED BY <2>1, <2>2
<1>7. ASSUME NEW s \in Slots, NEW t \in Transfer_ID, NEW to \in SUBSET Client_ID,
             Creates(s, t, to), Stay, running, UNCHANGED boot_id
      PROVE  Goal
  <2>1. \A u \in transfers : u.transfer_id < t
    BY <1>7 DEF Creates, NewRowid
  <2>2. /\ \A u \in transfers : u.transfer_id \in Nat
        /\ t \in Nat
    BY DEF TypeOK, TransferRow, Transfer_ID
  <2>3. CASE v \in transfers
    <3>1. v.transfer_id # t
      BY <2>1, <2>2, <2>3
    <3>2. Rows(v.transfer_id)' = Rows(v.transfer_id)
      BY <1>7, <3>1 DEF Creates, Rows
    <3>3. PICK key \in SessionNames :
               /\ Online(v.creator_id, key)
               /\ \A w \in Rows(v.transfer_id) :
                    Online(w.client_id, key) /\ w.client_id # v.creator_id
      BY <1>1, <1>7, <2>3 DEF TransfersOnline
    <3> QED BY <1>7, <3>2, <3>3, OnlineStays
  <2>4. CASE v \notin transfers
    <3>1. v.transfer_id = t /\ v.creator_id = cid[s]
      BY <1>7, <2>4 DEF Creates
    <3>2. \A w \in Rows(t)' : w.client_id \in to
      <4>1. \A w \in transfer_clients : w.transfer_id # t
        BY <2>1, <2>2 DEF RowsHaveTransfer
      <4> QED BY <1>7, <4>1 DEF Creates, Rows
    <3>3. Joined(s) /\ Live(s) /\ csession[s] \in SessionNames
      BY <1>7 DEF Creates, Identities, Joined, Live
    <3>4. Online(cid[s], csession[s])
      BY <3>3 DEF Online, Joined
    <3>5. ASSUME NEW x \in to PROVE Online(x, csession[s]) /\ x # cid[s]
      <4>1. PICK r \in Slots : client_find_by_id(r, x) /\ csession[r] = csession[s]
        BY <1>7, <3>5 DEF Creates, check_recipients
      <4>2. Live(r) /\ cid[r] = x /\ csession[r] # NoSession
        BY <3>3, <4>1, ServerAssumption DEF client_find_by_id
      <4>3. Joined(r)
        BY <4>2 DEF Identities, Joined, Live, TypeOK, ClientState
      <4>4. x \in user_list[s]
        BY <1>7, <3>5 DEF Creates
      <4> QED BY <3>3, <4>1, <4>2, <4>3, <4>4 DEF NotItself, Online, Joined
    <3> QED BY <1>7, <3>1, <3>2, <3>3, <3>4, <3>5, OnlineStays
  <2> QED BY <2>3, <2>4
<1> HIDE DEF Goal
<1>8. Goal
  BY <1>1, <1>2, <1>3, <1>5, <1>6, <1>7 DEF TransfersStep, Goal
<1> QED BY <1>8 DEF Goal

TablesInv == SessionInv /\ RowsHaveTransfer /\ AskedNow /\ CreatorsKnown /\ TransfersOnline

LEMMA TablesInvStep ==
  ASSUME DistinctSeconds PROVE TypeOK /\ TablesInv /\ [Next]_vars => TablesInv'
<1> SUFFICES ASSUME TypeOK, TablesInv, [Next]_vars PROVE TablesInv'
  OBVIOUS
<1>1. SessionInv' /\ RowsHaveTransfer'
  BY SessionInvStep, HandlerTables, RowsStep DEF TablesInv
<1>2. AskedNow' /\ CreatorsKnown' /\ TransfersOnline'
  BY AskedNowStep, CreatorsKnownStep, TransfersOnlineStep DEF TablesInv, SessionInv
<1> QED BY <1>1, <1>2 DEF TablesInv

LEMMA TablesInvShows == TablesInv => TablesMatchClients
<1> SUFFICES ASSUME TablesInv PROVE TablesMatchClients
  OBVIOUS
<1>1. ASSUME NEW s \in Slots, NEW t \in Transfer_ID, Live(s), t \in asked[s]
      PROVE  \A x \in CreatorOf(t) : x > boot_id
  BY <1>1 DEF TablesInv, AskedNow, Asks
<1> QED BY <1>1 DEF TablesInv, TransfersOnline, TablesMatchClients

LEMMA TablesInvAlways == DistinctSeconds => (Spec => []TablesInv)
<1> SUFFICES ASSUME DistinctSeconds PROVE Spec => []TablesInv
  OBVIOUS
<1>1. Init => TablesInv
  BY SessionInvInit, TablesInit, TablesInvInit DEF TablesInv
<1>2. TypeOK /\ TablesInv /\ [Next]_vars => TablesInv'
  BY TablesInvStep
<1> QED BY <1>1, <1>2, Typing, PTL DEF Spec

\* database.c: whatever the transfers in flight and whoever goes away, the
\* rows of this process belong to clients that are online in one session.
THEOREM TablesFollowClients == DistinctSeconds => (Spec => []TablesMatchClients)
<1>1. TablesInv => TablesMatchClients
  BY TablesInvShows
<1> QED BY <1>1, TablesInvAlways, PTL

\* net_packet.c:342: packet_reply asserts that the creator of the transfer that
\* is answered has a slot.  It always has: the transfer is gone, or its creator
\* is connected.
ReplyFindsCreator ==
    \A s \in Slots : Live(s) => \A t \in asked[s] : \A x \in CreatorOf(t) :
        \E r \in Slots : client_find_by_id(r, x)

THEOREM ReplyAssertionHolds == DistinctSeconds => (Spec => []ReplyFindsCreator)
<1>1. TypeOK /\ TablesInv => ReplyFindsCreator
  <2> SUFFICES ASSUME TypeOK, TablesInv, NEW s \in Slots, Live(s), NEW t \in asked[s],
                      NEW v \in transfers, v.transfer_id = t
               PROVE  \E r \in Slots : client_find_by_id(r, v.creator_id)
    BY DEF ReplyFindsCreator, CreatorOf
  <2>1. t \in Transfer_ID /\ v.creator_id \in CreatorOf(t)
    BY DEF TypeOK, CreatorOf
  <2>2. running /\ v.creator_id > boot_id
    BY <2>1 DEF TablesInv, SessionInv, Identities, AskedNow, Asks
  <2>3. PICK key \in SessionNames : Online(v.creator_id, key)
    BY <2>2 DEF TablesInv, TransfersOnline
  <2>4. PICK r \in Slots : cstate[r] = "C_COMPLETE" /\ cid[r] = v.creator_id
    BY <2>3 DEF Online
  <2>5. ASSUME NEW k \in Slots, k < r PROVE ~(Live(k) /\ cid[k] = v.creator_id)
    <3>1. k # r /\ Live(r)
      BY <2>4, <2>5 DEF Slots, Live
    <3> QED BY <2>4, <3>1 DEF TablesInv, SessionInv, Identities
  <2>6. client_find_by_id(r, v.creator_id)
    BY <2>4, <2>5 DEF client_find_by_id, Live
  <2> QED BY <2>6
<1> QED BY <1>1, TablesInvAlways, Typing, PTL

-----------------------------------------------------------------------------
(***************************************************************************)
(* Transfers while no number is given again that somebody still uses.      *)
(***************************************************************************)

\* Where a queue speaks of a transfer.
At(q, type, t) == {i \in DOMAIN q : q[i].type = type /\ q[i].t_id = t}

LEMMA AtConcat ==
  ASSUME NEW q \in Seq(Packet), NEW o \in Seq(Packet), NEW type, NEW t
  PROVE  At(q \o o, type, t) = At(q, type, t) \cup {Len(q) + i : i \in At(o, type, t)}
<1>1. ASSUME NEW i \in At(q \o o, type, t)
      PROVE  i \in At(q, type, t) \cup {Len(q) + k : k \in At(o, type, t)}
  <2>1. i \in DOMAIN (q \o o) /\ (q \o o)[i].type = type /\ (q \o o)[i].t_id = t
    BY <1>1 DEF At
  <2>2. CASE i \in DOMAIN q
    BY <2>1, <2>2, ConcatAt DEF At
  <2>3. CASE i - Len(q) \in DOMAIN o
    <3>1. i = Len(q) + (i - Len(q))
      BY <2>1
    <3>2. i - Len(q) \in At(o, type, t)
      BY <2>1, <2>3, <3>1, ConcatAt DEF At
    <3> QED BY <3>1, <3>2
  <2> QED BY <2>1, <2>2, <2>3, ConcatAt
<1>2. ASSUME NEW i \in At(q, type, t) PROVE i \in At(q \o o, type, t)
  BY <1>2, ConcatAt DEF At
<1>3. ASSUME NEW i \in At(o, type, t) PROVE Len(q) + i \in At(q \o o, type, t)
  BY <1>3, ConcatAt DEF At
<1> QED BY <1>1, <1>2, <1>3

\* The places of the packets that were there, and what is in them.
LEMMA AtKept ==
  ASSUME NEW q \in Seq(Packet), NEW o \in Seq(Packet), NEW type, NEW t,
         \A i \in DOMAIN o : o[i].type # type
  PROVE  /\ At(q \o o, type, t) = At(q, type, t)
         /\ \A i \in At(q, type, t) : (q \o o)[i] = q[i]
<1>1. At(o, type, t) = {}
  BY DEF At
<1>2. \A i \in At(q, type, t) : (q \o o)[i] = q[i]
  BY ConcatAt DEF At
<1>3. At(q \o o, type, t) = At(q, type, t) \cup {Len(q) + i : i \in At(o, type, t)}
  BY AtConcat
<1>4. {Len(q) + i : i \in At(o, type, t)} = {}
  BY <1>1
<1> QED BY <1>2, <1>3, <1>4

LEMMA AtTail ==
  ASSUME NEW q \in Seq(Packet), q # << >>, NEW type, NEW t
  PROVE  /\ \A i \in At(Tail(q), type, t) : /\ i \in Nat /\ i + 1 \in At(q, type, t)
                                            /\ Tail(q)[i] = q[i + 1]
         /\ \A i \in At(q, type, t) : i \in Nat /\ (i = 1 \/ i - 1 \in At(Tail(q), type, t))
         /\ 1 \in At(q, type, t) <=> Head(q).type = type /\ Head(q).t_id = t
<1>1. ASSUME NEW i \in At(Tail(q), type, t)
      PROVE  i \in Nat /\ i + 1 \in At(q, type, t) /\ Tail(q)[i] = q[i + 1]
  <2>1. i \in DOMAIN Tail(q) /\ Tail(q)[i].type = type /\ Tail(q)[i].t_id = t
    BY <1>1 DEF At
  <2> QED BY <2>1, TailAt DEF At
<1>2. ASSUME NEW i \in At(q, type, t) PROVE i \in Nat /\ (i = 1 \/ i - 1 \in At(Tail(q), type, t))
  <2>1. i \in DOMAIN q /\ q[i].type = type /\ q[i].t_id = t
    BY <1>2 DEF At
  <2> QED BY <2>1, TailAt DEF At
<1>3. 1 \in At(q, type, t) <=> Head(q).type = type /\ Head(q).t_id = t
  BY TailAt DEF At
<1> QED BY <1>1, <1>2, <1>3

\* The packets of a set, in some order, are the packets of the set.
LEMMA SetToSeqHas ==
  ASSUME NEW S, IsFiniteSet(S)
  PROVE  /\ \A i \in DOMAIN SetToSeq(S) : SetToSeq(S)[i] \in S
         /\ \A p \in S : \E i \in DOMAIN SetToSeq(S) : SetToSeq(S)[i] = p
<1> DEFINE n == Cardinality(S)
<1>1. PICK f : f \in Bijection(1 .. n, S)
  BY FS_CardinalityType DEF ExistsBijection
<1>2. f \in [1 .. n -> S] /\ IsInjective(f)
  BY <1>1 DEF Bijection, Injection
<1>3. SetToSeq(S) \in [1 .. n -> S] /\ IsInjective(SetToSeq(S))
  BY <1>2 DEF SetToSeq
<1>4. n \in Nat
  BY FS_CardinalityType
<1>5. IsFiniteSet(1 .. n) /\ Cardinality(1 .. n) = n
  BY <1>4, FS_Interval
<1>6. SetToSeq(S) \in Injection(1 .. n, S)
  BY <1>3 DEF Injection
<1> HIDE DEF n
<1>7. SetToSeq(S) \in Surjection(1 .. n, S)
  <2>1. Cardinality(S) = n
    BY DEF n
  <2> QED BY <1>5, <1>6, <2>1, FS_Injection
<1> QED BY <1>3, <1>7 DEF Surjection

\* A packet a step adds is one of those it puts behind the queue.
LEMMA AddedAt ==
  ASSUME QueueType, NEW r \in Slots, NEW o \in Seq(Packet), msg_queue'[r] = msg_queue[r] \o o
  PROVE  /\ \A p \in Added(r) : \E i \in DOMAIN o : o[i] = p
         /\ \A i \in DOMAIN o : o[i] \in Added(r)
<1> DEFINE q == msg_queue[r]
           n == q \o o
<1>1. q \in Seq(Packet) /\ Len(q) \in Nat /\ Len(o) \in Nat
  BY DEF QueueType
<1>2. Len(n) = Len(q) + Len(o) /\ DOMAIN o = 1 .. Len(o) /\ DOMAIN q = 1 .. Len(q)
  BY <1>1
<1>3. \A i \in DOMAIN o : n[Len(q) + i] = o[i]
  BY <1>1, ConcatAt
<1>4. Added(r) = {n[i] : i \in Len(q) + 1 .. Len(n)}
  BY DEF Added
<1> HIDE DEF n
<1>5. ASSUME NEW i \in Len(q) + 1 .. Len(n) PROVE i - Len(q) \in DOMAIN o /\ n[i] = o[i - Len(q)]
  <2>1. i - Len(q) \in 1 .. Len(o) /\ i = Len(q) + (i - Len(q))
    BY <1>1, <1>2
  <2> QED BY <1>2, <1>3, <2>1
<1>6. ASSUME NEW i \in DOMAIN o PROVE Len(q) + i \in Len(q) + 1 .. Len(n)
  BY <1>1, <1>2
<1> HIDE DEF q
<1>7. ASSUME NEW p \in Added(r) PROVE \E i \in DOMAIN o : o[i] = p
  <2>1. PICK i \in Len(q) + 1 .. Len(n) : p = n[i]
    BY <1>4
  <2> QED BY <1>5, <2>1
<1>8. ASSUME NEW i \in DOMAIN o PROVE o[i] \in Added(r)
  BY ONLY <1>3, <1>4, <1>6, i \in DOMAIN o
<1> QED BY ONLY <1>7, <1>8

\* The client of s hosts t, has been asked to receive it or receives it, or a
\* packet about it waits for the client.
TransferPackets == {"VALID", "REQUEST", "REPLY", "CANCEL", "COMPLETE"}
Uses(s, t) ==
    \/ t \in asked[s] \cup joined[s] \/ Host(s, t) # {}
    \/ \E type \in TransferPackets : At(msg_queue[s], type, t) # {}

\* The environment: a number that SQLite gives again is one that no connected
\* client still uses.  It is so at the first transfer, and as long as clients
\* read what is queued for them before the next one.
NumbersFree ==
    \A v \in transfers' \ transfers : \A s \in Slots : Live(s) => ~Uses(s, v.transfer_id)

Own(s, t)    == [transfer_id |-> t, creator_id |-> cid[s]] \in transfers
Row(t, x, a) == [transfer_id |-> t, client_id |-> x, accepted |-> a]

Numbers == \A v, w \in transfers : v.transfer_id = w.transfer_id => v = w

\* Who has not joined a session takes part in no transfer, and is not about to.
Strangers ==
    \A s \in Slots : ~Joined(s) =>
        /\ hosting[s] = {} /\ asked[s] = {} /\ joined[s] = {}
        /\ Live(s) => \A i \in DOMAIN msg_queue[s] : msg_queue[s][i].type \notin {"VALID", "REQUEST"}

\* A host hears of its transfer once, and has it as long as the server.
HostsAt(s, t) ==
    LET valid == At(msg_queue[s], "VALID", t)
    IN  /\ \A i, j \in valid : i = j
        /\ valid # {} => Host(s, t) = {}
        /\ (valid # {} \/ Host(s, t) # {}) => Own(s, t)
Hosts == \A s \in Slots, t \in Transfer_ID : Joined(s) => HostsAt(s, t)

\* Nobody receives its own transfer.
NotOwn ==
    \A s \in Slots, t \in Transfer_ID :
        (Joined(s) /\ (Asks(s, t) \/ t \in joined[s])) => ~Own(s, t)

\* The host knows, or will know, of every participant.
CoversAt(s, t, x) ==
    \/ \E h \in Host(s, t) : h.client_id = x
    \/ \E i \in At(msg_queue[s], "VALID", t) : x \in msg_queue[s][i].ids
Covers ==
    \A s \in Slots, t \in Transfer_ID : (Joined(s) /\ Own(s, t)) =>
        \A w \in Rows(t) : CoversAt(s, t, w.client_id)

\* Who has answered, or left, has no row without an answer: what the host has
\* heard and what is still to come to it.
Answered(p, rows) == p.type \in {"REPLY", "CANCEL"} => Row(p.t_id, p.from, -1) \notin rows
Heard ==
    \A s \in Slots : Joined(s) =>
        /\ \A i \in DOMAIN msg_queue[s] : Answered(msg_queue[s][i], transfer_clients)
        /\ \A h \in hosting[s] :
              h.accepted # -1 => Row(h.transfer_id, h.client_id, -1) \notin transfer_clients

TalkInv == Numbers /\ Strangers /\ Hosts /\ NotOwn /\ Covers /\ Heard

LEMMA TalkInit == Init => TalkInv
  BY DEF Init, TalkInv, Numbers, Strangers, Hosts, NotOwn, Covers, Heard, Joined, Live

\* The creator of a transfer of this process has joined a session.
LEMMA OwnerJoined ==
  ASSUME TypeOK, TablesInv, NEW s \in Slots, Live(s), NEW t \in Transfer_ID, Own(s, t)
  PROVE  Joined(s)
<1> DEFINE v == [transfer_id |-> t, creator_id |-> cid[s]]
<1>1. v \in transfers /\ running /\ v.creator_id > boot_id
  BY DEF Own, TablesInv, SessionInv, Identities, TypeOK, Client_ID
<1>2. PICK key \in SessionNames : Online(v.creator_id, key)
  BY <1>1 DEF TablesInv, TransfersOnline
<1>3. PICK r \in Slots : cstate[r] = "C_COMPLETE" /\ cid[r] = cid[s]
  BY <1>2 DEF Online
<1>4. r = s
  BY <1>3 DEF TablesInv, SessionInv, Identities, Live
<1> QED BY <1>3, <1>4 DEF Joined

(***************************************************************************)
(* Most steps: transfers and participants only go, and answers come.       *)
(***************************************************************************)

\* What is put on a queue is no offer, and no answer or cancel of a client that
\* still has to answer.
Quits(o) == \A i \in DOMAIN o : /\ o[i].type \notin {"VALID", "REQUEST"}
                                /\ Answered(o[i], transfer_clients')

QueueLessens(s) ==
    \E o \in Seq(Packet) : msg_queue'[s] = msg_queue[s] \o o /\ Quits(o)

\* A host forgets its transfer when, and only when, the server does.
HostLessens(s) ==
    \A t \in Transfer_ID :
        /\ Own(s, t)' => Host(s, t)' = Host(s, t)
        /\ Own(s, t) /\ ~Own(s, t)' => Host(s, t)' = {} /\ At(msg_queue[s], "VALID", t) = {}

LessensAt(s) ==
    /\ hosting'[s] \subseteq hosting[s] /\ asked'[s] \subseteq asked[s]
    /\ joined'[s] \subseteq joined[s] \cup asked[s]
    /\ ~Joined(s)' => hosting'[s] = {} /\ asked'[s] = {} /\ joined'[s] = {}
    /\ (Joined(s) /\ Live(s)') => Joined(s)'
    /\ Live(s)' => (msg_queue'[s] = << >> \/ (Live(s) /\ QueueLessens(s)))
    /\ Joined(s)' => /\ Live(s) /\ cid'[s] = cid[s]
                     /\ ~Joined(s) => msg_queue[s] = << >>
                     /\ QueueLessens(s) /\ HostLessens(s)

Lessens ==
    /\ transfers' \subseteq transfers
    /\ \A w \in transfer_clients' :
          \/ w \in transfer_clients
          \/ /\ w.accepted # -1
             /\ \E u \in transfer_clients : u.transfer_id = w.transfer_id /\ u.client_id = w.client_id
    /\ \A s \in Slots : LessensAt(s)

\* The offers on a queue are the same.
LEMMA QuitsAt ==
  ASSUME TypeOK, NEW s \in Slots, QueueLessens(s), NEW type \in {"VALID", "REQUEST"}, NEW t
  PROVE  /\ At(msg_queue[s], type, t)' = At(msg_queue[s], type, t)
         /\ \A i \in At(msg_queue[s], type, t) : msg_queue'[s][i] = msg_queue[s][i]
<1>1. PICK o \in Seq(Packet) : msg_queue'[s] = msg_queue[s] \o o /\ Quits(o)
  BY DEF QueueLessens
<1>2. \A i \in DOMAIN o : o[i].type # type
  BY <1>1 DEF Quits
<1>3. msg_queue[s] \in Seq(Packet)
  BY DEF TypeOK
<1>4. At(msg_queue[s], type, t)' = At(msg_queue'[s], type, t)
  BY DEF At
<1> DEFINE q == msg_queue[s]
<1> HIDE DEF q
<1>5. q \in Seq(Packet)
  BY <1>3 DEF q
<1>6. At(q \o o, type, t) = At(q, type, t) /\ \A i \in At(q, type, t) : (q \o o)[i] = q[i]
  <2>1. o \in Seq(Packet)
    BY <1>1
  <2>2. At(q \o o, type, t) = At(q, type, t)
    BY ONLY <1>2, <1>5, <2>1, AtKept
  <2>3. \A i \in At(q, type, t) : (q \o o)[i] = q[i]
    BY ONLY <1>5, <2>1, ConcatAt DEF At
  <2> QED BY <2>2, <2>3
<1> QED BY <1>1, <1>4, <1>6 DEF q

LEMMA QuitsOld ==
  ASSUME TypeOK, NEW s \in Slots, QueueLessens(s), NEW i \in DOMAIN msg_queue'[s]
  PROVE  (i \in DOMAIN msg_queue[s] /\ msg_queue'[s][i] = msg_queue[s][i])
         \/ (msg_queue'[s][i].type \notin {"VALID", "REQUEST"} /\ Answered(msg_queue'[s][i], transfer_clients'))
<1>1. PICK o \in Seq(Packet) : msg_queue'[s] = msg_queue[s] \o o /\ Quits(o)
  BY DEF QueueLessens
<1> DEFINE q == msg_queue[s]
<1>2. q \in Seq(Packet) /\ i \in DOMAIN (q \o o)
  BY <1>1 DEF TypeOK
<1> HIDE DEF q
<1>3. CASE i \in DOMAIN q
  <2>1. (q \o o)[i] = q[i]
    BY <1>2, <1>3, ConcatAt
  <2> QED BY <1>1, <1>3, <2>1 DEF q
<1>4. CASE i - Len(q) \in DOMAIN o
  <2>1. i = Len(q) + (i - Len(q))
    BY <1>2, ConcatAt
  <2>2. (q \o o)[i] = o[i - Len(q)]
    BY <1>2, <1>4, <2>1, ConcatAt
  <2>3. msg_queue'[s][i] = o[i - Len(q)]
    BY <1>1, <2>2 DEF q
  <2> QED BY <1>1, <1>4, <2>3 DEF Quits, Answered
<1> QED BY <1>2, <1>3, <1>4, ConcatAt

\* Each part of the invariant survives such a step.
LEMMA StrangersLessen == ASSUME TypeOK, Strangers, Lessens PROVE Strangers'
<1> SUFFICES ASSUME NEW s \in Slots, ~Joined(s)'
             PROVE  /\ hosting'[s] = {} /\ asked'[s] = {} /\ joined'[s] = {}
                    /\ Live(s)' => \A i \in DOMAIN msg_queue'[s] :
                                      msg_queue'[s][i].type \notin {"VALID", "REQUEST"}
  BY DEF Strangers
<1>1. LessensAt(s)
  BY DEF Lessens
<1>2. ASSUME Live(s)', NEW i \in DOMAIN msg_queue'[s] PROVE msg_queue'[s][i].type \notin {"VALID", "REQUEST"}
  <2>1. CASE msg_queue'[s] = << >>
    BY <1>2, <2>1
  <2>2. CASE Live(s) /\ QueueLessens(s)
    <3>1. ~Joined(s)
      BY <1>1, <1>2 DEF LessensAt
    <3>2. \A k \in DOMAIN msg_queue[s] : msg_queue[s][k].type \notin {"VALID", "REQUEST"}
      BY <2>2, <3>1 DEF Strangers
    <3> QED BY <1>2, <2>2, <3>2, QuitsOld
  <2> QED BY <1>1, <1>2, <2>1, <2>2 DEF LessensAt
<1> QED BY <1>1, <1>2 DEF LessensAt

LEMMA HostsLessen == ASSUME TypeOK, Strangers, Hosts, Lessens PROVE Hosts'
<1> SUFFICES ASSUME NEW s \in Slots, NEW t \in Transfer_ID, Joined(s)' PROVE HostsAt(s, t)'
  BY DEF Hosts
<1>1. LessensAt(s)
  BY DEF Lessens
<1>2. /\ Live(s) /\ cid'[s] = cid[s] /\ (~Joined(s) => msg_queue[s] = << >>)
      /\ QueueLessens(s) /\ HostLessens(s) /\ hosting'[s] \subseteq hosting[s]
  BY <1>1 DEF LessensAt
<1> DEFINE valid == At(msg_queue[s], "VALID", t)
<1>3. At(msg_queue[s], "VALID", t)' = valid
  BY <1>2, QuitsAt
<1>4. Host(s, t)' \subseteq Host(s, t)
  BY <1>2 DEF Host
<1>5. /\ \A i, j \in valid : i = j
      /\ valid # {} => Host(s, t) = {}
      /\ (valid # {} \/ Host(s, t) # {}) => Own(s, t)
  <2>1. CASE Joined(s)
    BY <2>1 DEF Hosts, HostsAt
  <2>2. CASE ~Joined(s)
    <3>1. hosting[s] = {} /\ valid = {}
      BY <1>2, <2>2 DEF Strangers, At
    <3> QED BY <3>1 DEF Host
  <2> QED BY <2>1, <2>2
<1>6. Own(s, t) /\ ~Own(s, t)' => Host(s, t)' = {} /\ valid = {}
  BY <1>2 DEF HostLessens
<1> HIDE DEF valid
<1>7. (valid # {} \/ Host(s, t)' # {}) => Own(s, t)'
  BY <1>4, <1>5, <1>6
<1> QED BY <1>3, <1>4, <1>5, <1>7 DEF HostsAt

LEMMA NotOwnLessen == ASSUME TypeOK, Strangers, NotOwn, Lessens PROVE NotOwn'
<1> SUFFICES ASSUME NEW s \in Slots, NEW t \in Transfer_ID, Joined(s)',
                    Asks(s, t)' \/ t \in joined'[s], Own(s, t)'
             PROVE  FALSE
  BY DEF NotOwn
<1>1. LessensAt(s)
  BY DEF Lessens
<1>2. /\ cid'[s] = cid[s] /\ (~Joined(s) => msg_queue[s] = << >>) /\ QueueLessens(s)
      /\ asked'[s] \subseteq asked[s] /\ joined'[s] \subseteq joined[s] \cup asked[s]
  BY <1>1 DEF LessensAt
<1>3. At(msg_queue[s], "REQUEST", t)' = At(msg_queue[s], "REQUEST", t)
  BY <1>2, QuitsAt
<1>4. Asks(s, t) <=> t \in asked[s] \/ At(msg_queue[s], "REQUEST", t) # {}
  BY DEF Asks, At
<1>5. Asks(s, t)' <=> t \in asked'[s] \/ At(msg_queue[s], "REQUEST", t)' # {}
  BY DEF Asks, At
<1>6. Asks(s, t) \/ t \in joined[s]
  BY <1>2, <1>3, <1>4, <1>5
<1>7. Own(s, t)
  BY <1>2 DEF Own, Lessens
<1>8. Joined(s)
  BY <1>2, <1>6 DEF Strangers, Asks
<1> QED BY <1>6, <1>7, <1>8 DEF NotOwn

LEMMA CoversLessen == ASSUME TypeOK, TablesInv, Covers, Lessens PROVE Covers'
<1> SUFFICES ASSUME NEW s \in Slots, NEW t \in Transfer_ID, Joined(s)', Own(s, t)', NEW w \in Rows(t)'
             PROVE  CoversAt(s, t, w.client_id)'
  BY DEF Covers
<1>1. LessensAt(s)
  BY DEF Lessens
<1>2. Live(s) /\ cid'[s] = cid[s] /\ QueueLessens(s) /\ HostLessens(s)
  BY <1>1 DEF LessensAt
<1>3. Own(s, t)
  BY <1>2 DEF Own, Lessens
<1>4. Joined(s)
  BY <1>2, <1>3, OwnerJoined
<1>5. PICK u \in Rows(t) : u.client_id = w.client_id
  BY DEF Lessens, Rows
<1>6. CoversAt(s, t, w.client_id)
  BY <1>3, <1>4, <1>5 DEF Covers
<1>7. Host(s, t)' = Host(s, t)
  BY <1>2 DEF HostLessens
<1>8. /\ At(msg_queue[s], "VALID", t)' = At(msg_queue[s], "VALID", t)
      /\ \A i \in At(msg_queue[s], "VALID", t) : msg_queue'[s][i] = msg_queue[s][i]
  BY <1>2, QuitsAt
<1> QED BY <1>6, <1>7, <1>8 DEF CoversAt

LEMMA HeardLessen == ASSUME TypeOK, Strangers, Heard, Lessens PROVE Heard'
<1>1. ASSUME NEW t, NEW x, Row(t, x, -1) \in transfer_clients' PROVE Row(t, x, -1) \in transfer_clients
  <2>1. Row(t, x, -1).accepted = -1
    BY DEF Row
  <2> QED BY <1>1, <2>1 DEF Lessens
<1>2. ASSUME NEW s \in Slots, Joined(s)', NEW i \in DOMAIN msg_queue'[s] PROVE Answered(msg_queue'[s][i], transfer_clients')
  <2>1. (~Joined(s) => msg_queue[s] = << >>) /\ QueueLessens(s)
    BY <1>2 DEF Lessens, LessensAt
  <2>2. CASE i \in DOMAIN msg_queue[s] /\ msg_queue'[s][i] = msg_queue[s][i]
    <3>1. Joined(s)
      BY <2>1, <2>2
    <3>2. Answered(msg_queue[s][i], transfer_clients)
      BY <2>2, <3>1 DEF Heard
    <3> QED BY <1>1, <2>2, <3>2 DEF Answered
  <2>3. CASE Answered(msg_queue'[s][i], transfer_clients')
    BY <2>3 DEF Answered
  <2> QED BY <1>2, <2>1, <2>2, <2>3, QuitsOld
<1>3. ASSUME NEW s \in Slots, Joined(s)', NEW h \in hosting'[s], h.accepted # -1
      PROVE  Row(h.transfer_id, h.client_id, -1) \notin transfer_clients'
  <2>1. h \in hosting[s]
    BY <1>3 DEF Lessens, LessensAt
  <2>2. Joined(s)
    BY <2>1 DEF Strangers
  <2> QED BY <1>1, <1>3, <2>1, <2>2 DEF Heard
<1> QED BY <1>2, <1>3 DEF Heard

LEMMA NumbersStep == ASSUME TypeOK, Numbers, TablesStep PROVE Numbers'
<1>1. ASSUME NEW T, Removes(T) PROVE Numbers'
  BY <1>1 DEF Removes, Numbers
<1>2. ASSUME NEW t, NEW x, Adds(t, x) PROVE Numbers'
  <2>1. \A v \in transfers : v.transfer_id # t
    BY <1>2 DEF Adds, TypeOK, TransferRow, Transfer_ID
  <2> QED BY <1>2, <2>1 DEF Adds, Numbers
<1> QED BY <1>1, <1>2 DEF TablesStep

\* Some packets of S are put on the queues.
Puts(S) == \E out \in [Slots -> Seq(S)] : Enqueue(out)

LEMMA PutsLessen ==
  ASSUME TypeOK, NEW S \in SUBSET Packet, Puts(S),
         \A p \in S : p.type \notin {"VALID", "REQUEST"} /\ Answered(p, transfer_clients')
  PROVE  \A s \in Slots : QueueLessens(s)
<1> TAKE s \in Slots
<1>1. PICK out \in [Slots -> Seq(S)] : Enqueue(out)
  BY DEF Puts
<1> DEFINE o == out[s]
<1>2. o \in Seq(S) /\ msg_queue'[s] = msg_queue[s] \o o
  BY <1>1 DEF Enqueue
<1> HIDE DEF o
<1>3. o \in Seq(Packet) /\ \A i \in DOMAIN o : o[i] \in S
  BY <1>2
<1> QED BY <1>2, <1>3 DEF QueueLessens, Quits

LEMMA SendsLessen ==
  ASSUME TypeOK, NEW types, types \cap {"VALID", "REQUEST", "REPLY", "CANCEL"} = {}, Sends(types)
  PROVE  \A s \in Slots : QueueLessens(s)
<1>1. Of(types) \subseteq Packet /\ Puts(Of(types))
  BY DEF Of, Sends, Puts
<1>2. \A p \in Of(types) : p.type \notin {"VALID", "REQUEST"} /\ Answered(p, transfer_clients')
  BY DEF Of, Answered
<1> QED BY <1>1, <1>2, PutsLessen

\* A slot whose client is told nothing new about transfers.
LEMMA StillAt ==
  ASSUME TypeOK, Strangers, NEW s \in Slots,
         UNCHANGED <<transfers, hosting, asked, joined>>,
         Joined(s) /\ Live(s)' => Joined(s)', ~Joined(s)' => ~Joined(s),
         Live(s)' => msg_queue'[s] = << >> \/ (Live(s) /\ QueueLessens(s)),
         Joined(s)' => /\ Live(s) /\ cid'[s] = cid[s]
                       /\ ~Joined(s) => msg_queue[s] = << >>
                       /\ QueueLessens(s)
  PROVE  LessensAt(s)
<1>1. ~Joined(s)' => hosting'[s] = {} /\ asked'[s] = {} /\ joined'[s] = {}
  BY DEF Strangers
<1>2. Joined(s)' => HostLessens(s)
  BY DEF HostLessens, Own, Host
<1> QED BY <1>1, <1>2 DEF LessensAt

\* The handlers that touch no transfer.
Calm ==
    /\ UNCHANGED <<transfers, transfer_clients, hosting, asked, joined>>
    /\ \/ UNCHANGED <<table, msg_queue>>
       \/ \E s \in Slots : accept_client(s) \/ complete_handshake(s)
       \/ \E s \in Slots, key \in SessionNames : Joins(s, key)
       \/ UNCHANGED table /\ (Sends({"DENY"}) \/ Sends({"DATA"}) \/ Sends({"INVALID"}))

LEMMA CalmLessens == ASSUME TypeOK, Strangers, Calm PROVE Lessens
<1> USE DEF Calm
<1>0. /\ cstate \in [Slots -> ClientState] /\ cid \in [Slots -> Client_ID]
      /\ msg_queue \in [Slots -> Seq(Packet)]
  BY DEF TypeOK
<1> SUFFICES ASSUME NEW r \in Slots PROVE LessensAt(r)
  BY DEF Lessens
<1>1. ASSUME msg_queue'[r] = msg_queue[r] PROVE QueueLessens(r)
  <2>1. << >> \in Seq(Packet) /\ Quits(<< >>)
    BY DEF Quits
  <2>2. msg_queue[r] \o << >> = msg_queue[r]
    BY <1>0, ConcatProperties
  <2> QED BY <1>1, <2>1, <2>2 DEF QueueLessens
<1>2. CASE UNCHANGED <<table, msg_queue>>
  BY <1>1, <1>2, StillAt DEF table, Joined, Live
<1>3. CASE UNCHANGED table /\ (Sends({"DENY"}) \/ Sends({"DATA"}) \/ Sends({"INVALID"}))
  <2>1. QueueLessens(r)
    BY <1>3, SendsLessen
  <2> QED BY <1>3, <2>1, StillAt DEF table, Joined, Live
<1>4. ASSUME NEW s \in Slots, complete_handshake(s) PROVE LessensAt(r)
  <2>1. /\ cstate' = [cstate EXCEPT ![s] = "C_SECURE"] /\ cstate[s] = "C_CONNECTED"
        /\ UNCHANGED <<cid, msg_queue>>
    BY <1>4 DEF complete_handshake
  <2>2. /\ (Live(r)' <=> Live(r)) /\ (Joined(r)' <=> Joined(r)) /\ cid'[r] = cid[r]
    BY <1>0, <2>1 DEF Live, Joined
  <2>3. QueueLessens(r)
    BY <1>1, <2>1
  <2>4. Joined(r) => Live(r)
    BY DEF Joined, Live
  <2> QED BY <2>2, <2>3, <2>4, StillAt
<1>5. ASSUME NEW s \in Slots, accept_client(s) PROVE LessensAt(r)
  <2>1. /\ cstate[s] = "C_EMPTY" /\ cstate' = [cstate EXCEPT ![s] = "C_CONNECTED"]
        /\ msg_queue' = [msg_queue EXCEPT ![s] = << >>]
        /\ \E now \in Seconds : cid' = [cid EXCEPT ![s] = now]
    BY <1>5 DEF accept_client, Live
  <2>2. CASE r = s
    <3>1. ~Joined(r) /\ ~Joined(r)' /\ msg_queue'[r] = << >>
      BY <1>0, <2>1, <2>2 DEF Joined
    <3> QED BY <3>1, StillAt
  <2>3. CASE r # s
    <3>1. /\ (Live(r)' <=> Live(r)) /\ (Joined(r)' <=> Joined(r)) /\ cid'[r] = cid[r]
          /\ msg_queue'[r] = msg_queue[r]
      BY <1>0, <2>1, <2>3 DEF Joined, Live
    <3>2. Joined(r) => Live(r)
      BY DEF Joined, Live
    <3> QED BY <1>1, <3>1, <3>2, StillAt
  <2> QED BY <2>2, <2>3
<1>6. ASSUME NEW s \in Slots, NEW key \in SessionNames, Joins(s, key) PROVE LessensAt(r)
  <2>1. /\ cstate[s] = "C_SECURE" /\ msg_queue[s] = << >> /\ UNCHANGED cid
        /\ cstate' = [cstate EXCEPT ![s] = "C_COMPLETE"]
    BY <1>6 DEF Joins
  <2>2. Sends({"OK", "NEW_USERS"})
    BY <1>6, JoinSends
  <2>3. QueueLessens(r)
    BY <2>2, SendsLessen
  <2>4. /\ (Live(r)' <=> Live(r)) /\ cid'[r] = cid[r] /\ (Joined(r) => Joined(r)')
        /\ (Joined(r)' => Live(r) /\ (~Joined(r) => msg_queue[r] = << >>))
    BY <1>0, <2>1 DEF Joined, Live
  <2> QED BY <2>3, <2>4, StillAt
<1> QED BY <1>2, <1>3, <1>4, <1>5, <1>6

\* The answer to a request.
LEMMA ReplyLessens ==
  ASSUME TypeOK, Strangers, NEW s \in Slots, NEW t \in Transfer_ID, NEW accept \in BOOLEAN,
         packet_reply(s, t, accept), ~ProcessEnds
  PROVE  Lessens
<1> DEFINE answer == IF accept THEN 1 ELSE 0
           reply == Pkt("REPLY", t, cid[s], {}, accept)
           out == [r \in Slots |->
                     One(\E x \in CreatorOf(t) : client_find_by_id(r, x), reply)]
<1>1. /\ Enqueue(out) /\ UNCHANGED <<table, hosting, transfers>> /\ Joined(s) /\ t \in asked[s]
      /\ transfer_clients' = db_client_accept(s, t, answer)
      /\ asked' = [asked EXCEPT ![s] = @ \ {t}]
      /\ joined' = [joined EXCEPT ![s] = IF accept THEN @ \cup {t} ELSE @]
  BY DEF packet_reply, Joined
<1>2. reply \in Packet /\ reply.type = "REPLY" /\ reply.t_id = t /\ reply.from = cid[s]
  BY PktType DEF TypeOK, ServerPacket, Pkt
<1>3. out \in [Slots -> Seq({reply})]
  <2> HIDE DEF reply
  <2>1. ASSUME NEW r \in Slots PROVE (\E x \in CreatorOf(t) : client_find_by_id(r, x)) \in BOOLEAN
    OBVIOUS
  <2> QED BY <2>1, OneIn
<1>4. answer # -1 /\ answer \in {0, 1}
  OBVIOUS
<1>5. \A w \in transfer_clients' :
        \/ w \in transfer_clients /\ ~(w.transfer_id = t /\ w.client_id = cid[s])
        \/ /\ w.accepted = answer
           /\ \E u \in transfer_clients : u.transfer_id = w.transfer_id /\ u.client_id = w.client_id
  <2> HIDE DEF answer
  <2> QED BY <1>1 DEF db_client_accept, Rows
<1> HIDE DEF answer, reply, out
<1>6. Answered(reply, transfer_clients')
  <2>1. Row(t, cid[s], -1) \notin transfer_clients'
    <3> DEFINE w == Row(t, cid[s], -1)
    <3>1. w.transfer_id = t /\ w.client_id = cid[s] /\ w.accepted = -1
      BY DEF Row
    <3> HIDE DEF w
    <3>2. w \notin transfer_clients'
      BY <1>4, <1>5, <3>1
    <3> QED BY <3>2 DEF w
  <2> QED BY <1>2, <2>1 DEF Answered
<1>7. \A r \in Slots : QueueLessens(r)
  <2>1. Puts({reply})
    BY <1>1, <1>3 DEF Puts
  <2> QED BY <1>2, <1>6, <2>1, PutsLessen
<1>8. ASSUME NEW r \in Slots PROVE LessensAt(r)
  <2>1. hosting'[r] = hosting[r] /\ Host(r, t)' = Host(r, t)
    BY <1>1 DEF Host
  <2>2. asked'[r] \subseteq asked[r] /\ joined'[r] \subseteq joined[r] \cup asked[r]
    BY <1>1 DEF TypeOK
  <2>3. /\ (Joined(r)' <=> Joined(r)) /\ (Live(r)' <=> Live(r)) /\ (Joined(r) => Live(r))
        /\ cid'[r] = cid[r]
    BY <1>1 DEF table, Joined, Live
  <2>4. HostLessens(r)
    BY <1>1, <2>1, <2>3 DEF HostLessens, Own, Host
  <2>5. ~Joined(r) => hosting'[r] = {} /\ asked'[r] = {} /\ joined'[r] = {}
    BY <2>1, <2>2 DEF Strangers
  <2> QED BY <1>7, <2>1, <2>2, <2>3, <2>4, <2>5 DEF LessensAt
<1>9. \A w \in transfer_clients' :
        \/ w \in transfer_clients
        \/ /\ w.accepted # -1
           /\ \E u \in transfer_clients : u.transfer_id = w.transfer_id /\ u.client_id = w.client_id
  BY <1>4, <1>5
<1> QED BY <1>1, <1>8, <1>9 DEF Lessens

\* A number names one transfer, so one connected client.
LEMMA OneOwner ==
  ASSUME Identities, Numbers, NEW s \in Slots, NEW r \in Slots, Live(s), Live(r),
         NEW t, Own(s, t), Own(r, t)
  PROVE  s = r
<1>1. [transfer_id |-> t, creator_id |-> cid[s]] = [transfer_id |-> t, creator_id |-> cid[r]]
  BY DEF Numbers, Own
<1>2. cid[s] = cid[r]
  BY <1>1
<1> QED BY <1>2 DEF Identities

LEMMA HostedOwn ==
  ASSUME TypeOK, NEW s \in Slots, NEW t PROVE t \in Hosted(s) <=> Own(s, t)
<1>1. ASSUME NEW v \in transfers, v.creator_id = cid[s] PROVE Own(s, v.transfer_id)
  BY <1>1 DEF TypeOK, TransferRow, Own
<1>2. Own(s, t) => t \in Hosted(s)
  BY DEF Own, Hosted
<1> QED BY <1>1, <1>2 DEF Hosted

\* The end of a file.
LEMMA CompleteLessens ==
  ASSUME TypeOK, Identities, Numbers, Strangers, Hosts,
         NEW s \in Slots, NEW t \in Transfer_ID, packet_complete(s, t), ~ProcessEnds
  PROVE  Lessens
<1>1. /\ UNCHANGED <<table, asked, joined>> /\ Joined(s) /\ HostActive(s, t)
      /\ cleanup({t} \cap Hosted(s))
      /\ hosting' = [hosting EXCEPT ![s] = @ \ Host(s, t)]
  BY DEF packet_complete, Joined
<1>2. \A r \in Slots : QueueLessens(r)
  BY CompleteSends, SendsLessen
<1>3. Host(s, t) # {} /\ At(msg_queue[s], "VALID", t) = {}
  BY <1>1 DEF HostActive, Hosts, HostsAt
<1>4. Own(s, t) /\ t \in Hosted(s)
  BY <1>1, <1>3, HostedOwn DEF Hosts, HostsAt
<1>5. transfers' = {v \in transfers : v.transfer_id # t}
  BY <1>1, <1>4 DEF cleanup
<1>6. transfer_clients' \subseteq transfer_clients
  BY <1>1 DEF cleanup
<1>7. ASSUME NEW r \in Slots PROVE LessensAt(r)
  <2>1. /\ (Joined(r)' <=> Joined(r)) /\ (Live(r)' <=> Live(r)) /\ (Joined(r) => Live(r))
        /\ cid'[r] = cid[r] /\ asked'[r] = asked[r] /\ joined'[r] = joined[r]
    BY <1>1 DEF table, Joined, Live
  <2>2. /\ hosting'[r] \subseteq hosting[r]
        /\ r # s => hosting'[r] = hosting[r]
        /\ r = s => hosting'[r] = hosting[r] \ Host(s, t)
    BY <1>1 DEF TypeOK
  <2>3. ASSUME Joined(r), NEW u \in Transfer_ID
        PROVE  /\ Own(r, u)' => Host(r, u)' = Host(r, u)
               /\ Own(r, u) /\ ~Own(r, u)' => Host(r, u)' = {} /\ At(msg_queue[r], "VALID", u) = {}
    <3>1. CASE u = t
      <4>1. ~Own(r, u)'
        BY <1>5, <3>1 DEF Own
      <4>2. Own(r, u) => r = s
        BY <1>1, <1>4, <2>1, <2>3, <3>1, OneOwner DEF Joined, Live
      <4>3. r = s => Host(r, u)' = {}
        BY <2>2, <3>1 DEF Host
      <4> QED BY <1>3, <3>1, <4>1, <4>2, <4>3
    <3>2. CASE u # t
      <4>1. Own(r, u)' <=> Own(r, u)
        BY <1>5, <2>1, <3>2 DEF Own
      <4>2. Host(r, u)' = Host(r, u)
        BY <2>2, <3>2 DEF Host
      <4> QED BY <4>1, <4>2
    <3> QED BY <3>1, <3>2
  <2>4. Joined(r) => HostLessens(r)
    BY <2>3 DEF HostLessens
  <2>5. ~Joined(r) => hosting'[r] = {} /\ asked'[r] = {} /\ joined'[r] = {}
    BY <2>1, <2>2 DEF Strangers
  <2> QED BY <1>2, <2>1, <2>2, <2>4, <2>5 DEF LessensAt
<1> QED BY <1>5, <1>6, <1>7 DEF Lessens

\* What a client that cancels, or goes, makes the server send: a CANCEL of its
\* own for each transfer of the set.
LEMMA CancelsOf ==
  ASSUME TypeOK, NEW s \in Slots, NEW T \in SUBSET Transfer_ID, NEW r \in Slots
  PROVE  /\ SetToSeq(CreatorCancels(s, T)[r]) \in Seq({Cancel(u, cid[s]) : u \in T})
         /\ SetToSeq(RecipientCancels(s, T)[r]) \in
               Seq({Cancel(u, cid[s]) : u \in {k \in T : CreatorOf(k) # {}}})
<1> DEFINE C == {u \in T : \E w \in Rows(u) : w.accepted # 0 /\ client_find_by_id(r, w.client_id)}
           R == {u \in T : \E x \in CreatorOf(u) : client_find_by_id(r, x)}
           K == {k \in T : CreatorOf(k) # {}}
<1>1. /\ CreatorCancels(s, T)[r] = {Cancel(t, cid[s]) : t \in C}
      /\ RecipientCancels(s, T)[r] = {Cancel(t, cid[s]) : t \in R}
  BY DEF CreatorCancels, RecipientCancels
<1>2. /\ C \in SUBSET Transfer_ID /\ R \in SUBSET Transfer_ID /\ cid[s] \in Client_ID
      /\ C \subseteq T /\ R \subseteq K
  BY DEF TypeOK
<1> HIDE DEF C, R, K
<1>3. /\ IsFiniteSet({Cancel(t, cid[s]) : t \in C}) /\ IsFiniteSet({Cancel(t, cid[s]) : t \in R})
  BY <1>2, CancelsType
<1>4. /\ SetToSeq({Cancel(t, cid[s]) : t \in C}) \in Seq({Cancel(t, cid[s]) : t \in C})
      /\ SetToSeq({Cancel(t, cid[s]) : t \in R}) \in Seq({Cancel(t, cid[s]) : t \in R})
  BY <1>3, SetToSeqIn
<1>5. /\ {Cancel(t, cid[s]) : t \in C} \subseteq {Cancel(u, cid[s]) : u \in T}
      /\ {Cancel(t, cid[s]) : t \in R} \subseteq {Cancel(u, cid[s]) : u \in K}
  BY <1>2
<1>6. /\ SetToSeq({Cancel(t, cid[s]) : t \in C}) \in Seq({Cancel(u, cid[s]) : u \in T})
      /\ SetToSeq({Cancel(t, cid[s]) : t \in R}) \in Seq({Cancel(u, cid[s]) : u \in K})
  BY <1>4, <1>5, SeqSubset
<1> QED BY <1>1, <1>6 DEF K

\* CANCELs of transfers for which the client has no row without an answer.
LEMMA CancelsLessen ==
  ASSUME TypeOK, NEW s \in Slots, NEW T \in SUBSET Transfer_ID,
         \A u \in T : Row(u, cid[s], -1) \notin transfer_clients',
         Puts({Cancel(u, cid[s]) : u \in T})
  PROVE  \A r \in Slots : QueueLessens(r)
<1> DEFINE S == {Cancel(u, cid[s]) : u \in T}
<1>1. S \in SUBSET Packet
  BY CancelsType DEF TypeOK
<1>2. \A p \in S : p.type \notin {"VALID", "REQUEST"} /\ Answered(p, transfer_clients')
  BY DEF Cancel, Pkt, Answered
<1>3. Puts(S)
  OBVIOUS
<1> HIDE DEF S
<1> QED BY <1>1, <1>2, <1>3, PutsLessen

\* A transfer of the set goes from the tables.
LEMMA CancelLessens ==
  ASSUME TypeOK, Identities, Numbers, Strangers, Hosts, NotOwn,
         NEW s \in Slots, NEW t \in Transfer_ID, packet_cancel(s, t), ~ProcessEnds
  PROVE  Lessens
<1> DEFINE recipient == t \in asked[s] \cup joined[s]
           mine == t \in Hosted(s)
           T == {t} \cap Received(s)
           K == {k \in T : CreatorOf(k) # {}}
           out == IF mine THEN CreatorCancels(s, {t}) ELSE RecipientCancels(s, T)
           outseq == [r \in Slots |-> SetToSeq(out[r])]
           gone == IF mine THEN {t} ELSE K
           pkts == {Cancel(u, cid[s]) : u \in gone}
<1>1. /\ Enqueue(outseq) /\ UNCHANGED table /\ Joined(s)
      /\ recipient \/ Host(s, t) # {}
      /\ mine => cleanup({t})
      /\ ~mine => /\ transfers' = transfers
                  /\ transfer_clients' = IF t \in Received(s) /\ CreatorOf(t) # {}
                                         THEN db_client_delete(s) ELSE transfer_clients
      /\ hosting' = [hosting EXCEPT ![s] = IF recipient THEN @ ELSE @ \ Host(s, t)]
      /\ asked' = [asked EXCEPT ![s] = @ \ {t}]
      /\ joined' = [joined EXCEPT ![s] = @ \ {t}]
  BY DEF packet_cancel, Joined
<1>2. mine <=> Own(s, t)
  BY HostedOwn
<1>3. recipient => ~mine
  BY <1>1, <1>2 DEF NotOwn, Asks
<1>4. mine => Host(s, t) # {} /\ At(msg_queue[s], "VALID", t) = {}
  BY <1>1, <1>3 DEF Hosts, HostsAt
<1>5. ~recipient /\ ~mine => Host(s, t) = {}
  BY <1>1, <1>2 DEF Hosts, HostsAt
<1>6. T \in SUBSET Transfer_ID /\ {t} \in SUBSET Transfer_ID /\ gone \in SUBSET Transfer_ID
  OBVIOUS
<1>7. outseq \in [Slots -> Seq(pkts)]
  <2> SUFFICES ASSUME NEW r \in Slots PROVE SetToSeq(out[r]) \in Seq(pkts)
    OBVIOUS
  <2> HIDE DEF mine, T
  <2>1. CASE mine
    BY <1>6, <2>1, CancelsOf
  <2>2. CASE ~mine
    BY <1>6, <2>2, CancelsOf
  <2> QED BY <2>1, <2>2
<1>8. ASSUME NEW u \in gone PROVE Row(u, cid[s], -1) \notin transfer_clients'
  <2>1. CASE mine
    BY <1>1, <1>8, <2>1 DEF cleanup, Row
  <2>2. CASE ~mine
    BY <1>1, <1>8, <2>2 DEF db_client_delete, Row
  <2> QED BY <2>1, <2>2
<1> HIDE DEF recipient, outseq, out, gone, pkts, K, T
<1>9. \A r \in Slots : QueueLessens(r)
  <2>1. Puts(pkts)
    BY <1>1, <1>7 DEF Puts
  <2> QED BY <1>6, <1>8, <2>1, CancelsLessen DEF pkts
<1>10. transfers' = {v \in transfers : mine => v.transfer_id # t}
  BY <1>1 DEF cleanup
<1>11. transfer_clients' \subseteq transfer_clients
  BY <1>1 DEF cleanup, db_client_delete
<1> HIDE DEF mine
<1>12. ASSUME NEW r \in Slots PROVE LessensAt(r)
  <2>1. /\ (Joined(r)' <=> Joined(r)) /\ (Live(r)' <=> Live(r)) /\ (Joined(r) => Live(r))
        /\ cid'[r] = cid[r] /\ asked'[r] \subseteq asked[r] /\ joined'[r] \subseteq joined[r]
    BY <1>1 DEF table, Joined, Live, TypeOK
  <2>2. /\ hosting'[r] \subseteq hosting[r]
        /\ (r # s \/ ~mine) => hosting'[r] = hosting[r]
        /\ (r = s /\ mine) => hosting'[r] = hosting[r] \ Host(s, t)
    <3>1. ~recipient /\ ~mine => hosting[s] \ Host(s, t) = hosting[s]
      BY <1>5
    <3> QED BY <1>1, <1>3, <3>1 DEF TypeOK
  <2>3. ASSUME Joined(r), NEW u \in Transfer_ID
        PROVE  /\ Own(r, u)' => Host(r, u)' = Host(r, u)
               /\ Own(r, u) /\ ~Own(r, u)' => Host(r, u)' = {} /\ At(msg_queue[r], "VALID", u) = {}
    <3>1. CASE mine /\ u = t
      <4>1. ~Own(r, u)'
        BY <1>10, <3>1 DEF Own
      <4>2. Own(r, u) => r = s
        BY <1>1, <1>2, <2>1, <2>3, <3>1, OneOwner DEF Joined, Live
      <4>3. r = s => Host(r, u)' = {}
        BY <2>2, <3>1 DEF Host
      <4> QED BY <1>4, <3>1, <4>1, <4>2, <4>3
    <3>2. CASE ~(mine /\ u = t)
      <4>1. Own(r, u)' <=> Own(r, u)
        BY <1>10, <2>1, <3>2 DEF Own
      <4>2. Host(r, u)' = Host(r, u)
        BY <2>2, <3>2 DEF Host
      <4> QED BY <4>1, <4>2
    <3> QED BY <3>1, <3>2
  <2>4. Joined(r) => HostLessens(r)
    BY <2>3 DEF HostLessens
  <2>5. ~Joined(r) => hosting'[r] = {} /\ asked'[r] = {} /\ joined'[r] = {}
    BY <2>1, <2>2 DEF Strangers
  <2> QED BY <1>9, <2>1, <2>2, <2>4, <2>5 DEF LessensAt
<1> QED BY <1>10, <1>11, <1>12 DEF Lessens

\* A client that goes.
LEMMA CloseLessens ==
  ASSUME TypeOK, Identities, Numbers, Strangers,
         NEW s \in Slots, close_client(s), ~ProcessEnds
  PROVE  Lessens
<1> DEFINE complete == Joined(s)
           gone == Hosted(s)
           rest == Received(s) \ gone
           T == IF complete THEN gone \cup rest ELSE {}
           cancels == [r \in Slots |->
             IF complete THEN SetToSeq(CreatorCancels(s, gone)[r]) \o SetToSeq(RecipientCancels(s, rest)[r])
                         ELSE << >>]
           del(r) == One(complete /\ SameSession(s, r, csession[s]), Users("DEL_USERS", {cid[s]}))
           out == [r \in Slots |-> cancels[r] \o del(r)]
           pkts == {Cancel(u, cid[s]) : u \in T} \cup {Users("DEL_USERS", {cid[s]})}
<1>1. /\ Live(s) /\ Enqueue(out)
      /\ cstate' = [cstate EXCEPT ![s] = "C_EMPTY"]
      /\ hosting' = [hosting EXCEPT ![s] = {}]
      /\ asked' = [asked EXCEPT ![s] = {}]
      /\ joined' = [joined EXCEPT ![s] = {}]
      /\ UNCHANGED cid
      /\ IF complete
         THEN /\ transfers' = {v \in transfers : v.transfer_id \notin gone}
              /\ transfer_clients' = {w \in db_client_delete(s) : w.transfer_id \notin gone}
         ELSE UNCHANGED <<transfers, transfer_clients>>
  BY DEF close_client, Joined
<1>2. gone \in SUBSET Transfer_ID /\ rest \in SUBSET Transfer_ID /\ T \in SUBSET Transfer_ID
      /\ cid[s] \in Client_ID
  BY HostedType DEF TypeOK
<1>3. out \in [Slots -> Seq(pkts)]
  <2> SUFFICES ASSUME NEW r \in Slots PROVE cancels[r] \o del(r) \in Seq(pkts)
    OBVIOUS
  <2>1. del(r) \in Seq(pkts)
    <3>1. (complete /\ SameSession(s, r, csession[s])) \in BOOLEAN
      OBVIOUS
    <3>2. Users("DEL_USERS", {cid[s]}) \in pkts
      OBVIOUS
    <3> HIDE DEF pkts, complete
    <3> QED BY <3>1, <3>2, OneIn
  <2>2. CASE ~complete
    BY <2>1, <2>2, SeqOfEmpty, ConcatProperties
  <2>3. CASE complete
    <3>1. /\ {Cancel(u, cid[s]) : u \in gone} \subseteq pkts
          /\ {Cancel(u, cid[s]) : u \in {k \in rest : CreatorOf(k) # {}}} \subseteq pkts
      BY <2>3
    <3> HIDE DEF gone, rest, pkts
    <3>2. /\ SetToSeq(CreatorCancels(s, gone)[r]) \in Seq(pkts)
          /\ SetToSeq(RecipientCancels(s, rest)[r]) \in Seq(pkts)
      <4>1. /\ SetToSeq(CreatorCancels(s, gone)[r]) \in Seq({Cancel(u, cid[s]) : u \in gone})
            /\ SetToSeq(RecipientCancels(s, rest)[r]) \in
                  Seq({Cancel(u, cid[s]) : u \in {k \in rest : CreatorOf(k) # {}}})
        BY <1>2, CancelsOf
      <4> QED BY <3>1, <4>1, SeqSubset
    <3>3. cancels[r] \in Seq(pkts)
      BY <2>3, <3>2, ConcatProperties
    <3> HIDE DEF cancels, del
    <3> QED BY <2>1, <3>3, ConcatProperties
  <2> QED BY <2>2, <2>3
<1>4. pkts \in SUBSET Packet
  <2>1. Users("DEL_USERS", {cid[s]}) \in Packet
    BY <1>2, PktType, ZeroTypes DEF Users, ServerPacket
  <2> HIDE DEF T
  <2>2. {Cancel(u, cid[s]) : u \in T} \subseteq Packet
    BY <1>2, CancelsType
  <2> QED BY <2>1, <2>2
<1>5. ASSUME NEW u \in T PROVE Row(u, cid[s], -1) \notin transfer_clients'
  BY <1>1, <1>5 DEF db_client_delete, Row
<1>6. \A p \in pkts : p.type \notin {"VALID", "REQUEST"} /\ Answered(p, transfer_clients')
  <2> HIDE DEF T
  <2> QED BY <1>5 DEF Cancel, Users, Pkt, Answered
<1> HIDE DEF out, pkts
<1>7. \A r \in Slots : QueueLessens(r)
  <2>1. Puts(pkts)
    BY <1>1, <1>3 DEF Puts
  <2> QED BY <1>4, <1>6, <2>1, PutsLessen
<1>8. /\ transfers' = {v \in transfers : complete => v.transfer_id \notin gone}
      /\ transfer_clients' \subseteq transfer_clients
  BY <1>1 DEF db_client_delete
<1>9. \A u : u \in gone <=> Own(s, u)
  BY HostedOwn
<1> HIDE DEF gone, complete
<1>10. ASSUME NEW r \in Slots PROVE LessensAt(r)
  <2>1. CASE r = s
    <3>1. ~Joined(r)' /\ ~Live(r)' /\ hosting'[r] = {} /\ asked'[r] = {} /\ joined'[r] = {}
      BY <1>1, <2>1 DEF Joined, Live, TypeOK
    <3> QED BY <3>1 DEF LessensAt
  <2>2. CASE r # s
    <3>1. /\ (Joined(r)' <=> Joined(r)) /\ (Live(r)' <=> Live(r)) /\ (Joined(r) => Live(r))
          /\ cid'[r] = cid[r] /\ asked'[r] = asked[r] /\ joined'[r] = joined[r]
          /\ hosting'[r] = hosting[r]
      BY <1>1, <2>2 DEF Joined, Live, TypeOK
    <3>2. ASSUME Joined(r), NEW u \in Transfer_ID PROVE Own(r, u)' <=> Own(r, u)
      <4>1. Own(r, u) => ~Own(s, u)
        BY <1>1, <2>2, <3>1, <3>2, OneOwner
      <4> QED BY <1>8, <1>9, <3>1, <4>1 DEF Own
    <3>3. Joined(r) => HostLessens(r)
      BY <3>1, <3>2 DEF HostLessens, Host
    <3>4. ~Joined(r) => hosting'[r] = {} /\ asked'[r] = {} /\ joined'[r] = {}
      BY <3>1 DEF Strangers
    <3> QED BY <1>7, <3>1, <3>3, <3>4 DEF LessensAt
  <2> QED BY <2>1, <2>2
<1> QED BY <1>8, <1>10 DEF Lessens

(***************************************************************************)
(* A transfer is created, with a number nobody uses.                       *)
(***************************************************************************)
LEMMA AtOne ==
  ASSUME NEW q \in Seq(Packet), NEW p \in Packet, NEW type, NEW t
  PROVE  /\ At(q \o <<p>>, type, t) =
              At(q, type, t) \cup (IF p.type = type /\ p.t_id = t THEN {Len(q) + 1} ELSE {})
         /\ \A i \in DOMAIN q : (q \o <<p>>)[i] = q[i]
         /\ (q \o <<p>>)[Len(q) + 1] = p
         /\ DOMAIN (q \o <<p>>) = 1 .. Len(q) + 1 /\ DOMAIN q = 1 .. Len(q)
<1>1. <<p>> \in Seq(Packet) /\ DOMAIN <<p>> = {1} /\ <<p>>[1] = p /\ Len(<<p>>) = 1
  OBVIOUS
<1>2. At(<<p>>, type, t) = IF p.type = type /\ p.t_id = t THEN {1} ELSE {}
  BY <1>1 DEF At
<1>3. At(q \o <<p>>, type, t) = At(q, type, t) \cup {Len(q) + i : i \in At(<<p>>, type, t)}
  BY <1>1, AtConcat
<1>4. {Len(q) + i : i \in At(<<p>>, type, t)} = IF p.type = type /\ p.t_id = t THEN {Len(q) + 1} ELSE {}
  BY <1>2
<1> QED BY <1>3, <1>4

Found(to, r) == \E x \in to : client_find_by_id(r, x)
Offer(t, to)      == Pkt("VALID", t, 0, to, FALSE)
Request(s, t, to) == Pkt("REQUEST", t, cid[s], to, FALSE)

\* A new transfer: its creator is told, and those it is for.
Offers(s, t, to) ==
    /\ Creates(s, t, to)
    /\ msg_queue' = [r \in Slots |-> msg_queue[r] \o
                        (One(r = s, Offer(t, to)) \o One(Found(to, r), Request(s, t, to)))]
    /\ UNCHANGED <<table, client>>

LEMMA TransferOffers ==
  ASSUME TypeOK, NEW s \in Slots, NEW to \in SUBSET user_list[s], packet_transfer(s, to)
  PROVE  \/ ProcessEnds
         \/ \E t \in Transfer_ID : Offers(s, t, to)
         \/ UNCHANGED <<table, client, transfers, transfer_clients>> /\ Sends({"INVALID"})
<1> DEFINE invalid == [r \in Slots |-> One(r = s, Response("INVALID"))]
           valid(t) == [r \in Slots |->
             One(r = s, Pkt("VALID", t, 0, to, FALSE)) \o
             One(\E x \in to : client_find_by_id(r, x), Pkt("REQUEST", t, cid[s], to, FALSE))]
<1>1. \/ ProcessEnds
      \/ Enqueue(invalid) /\ UNCHANGED <<table, client, db>>
      \/ /\ check_recipients(s, to) /\ UNCHANGED <<table, client>> /\ Joined(s)
         /\ \E t \in Transfer_ID :
               /\ NewRowid(t)
               /\ transfers' = transfers \cup {[transfer_id |-> t, creator_id |-> cid[s]]}
               /\ transfer_clients' = transfer_clients \cup
                     [transfer_id : {t}, client_id : to, accepted : {-1}]
               /\ Enqueue(valid(t))
  BY DEF packet_transfer, Joined
<1>2. Enqueue(invalid) => Sends({"INVALID"})
  <2>1. Response("INVALID") \in Of({"INVALID"})
    BY PktIn, ZeroTypes DEF Response, ServerPacket
  <2>2. invalid \in [Slots -> Seq(Of({"INVALID"}))]
    BY <2>1, OneIn
  <2> QED BY <2>2 DEF Sends
<1>3. ASSUME NEW t \in Transfer_ID, Enqueue(valid(t))
      PROVE  msg_queue' = [r \in Slots |-> msg_queue[r] \o
                        (One(r = s, Offer(t, to)) \o One(Found(to, r), Request(s, t, to)))]
  BY <1>3 DEF Enqueue, Offer, Found, Request
<1> HIDE DEF invalid, valid
<1> QED BY <1>1, <1>2, <1>3 DEF Offers, Creates, db

\* What the new transfer finds: its number is free, and those it is for have
\* joined the session of its creator and are not the creator.
LEMMA OffersFind ==
  ASSUME TypeOK, TablesInv, NumbersFree,
         NEW s \in Slots, NEW t \in Transfer_ID, NEW to \in SUBSET user_list[s], Offers(s, t, to)
  PROVE  /\ \A v \in transfers : v.transfer_id # t
         /\ \A w \in transfer_clients : w.transfer_id # t
         /\ \A r \in Slots : Live(r) => ~Uses(r, t)
         /\ \A r \in Slots : Found(to, r) =>
               Joined(r) /\ r # s /\ cid[r] \in to /\ csession[r] = csession[s]
         /\ Joined(s) /\ to \in SUBSET Client_ID
<1>1. \A v \in transfers : v.transfer_id # t
  <2>1. \A v \in transfers : v.transfer_id < t
    BY DEF Offers, Creates, NewRowid
  <2>2. t \in Nat /\ \A v \in transfers : v.transfer_id \in Nat
    BY DEF TypeOK, TransferRow, Transfer_ID
  <2> QED BY <2>1, <2>2
<1>2. \A w \in transfer_clients : w.transfer_id # t
  BY <1>1 DEF TablesInv, RowsHaveTransfer
<1>3. \A r \in Slots : Live(r) => ~Uses(r, t)
  <2> DEFINE v == [transfer_id |-> t, creator_id |-> cid[s]]
  <2>1. v \in transfers' /\ v.transfer_id = t
    BY DEF Offers, Creates
  <2>2. v \notin transfers
    BY <1>1, <2>1
  <2> HIDE DEF v
  <2> QED BY <2>1, <2>2 DEF NumbersFree
<1>4. Joined(s) /\ to \in SUBSET Client_ID /\ cid[s] \notin to
  BY DEF Offers, Creates, TypeOK, TablesInv, SessionInv, NotItself, Joined, Live
<1>5. ASSUME NEW r \in Slots, Found(to, r)
      PROVE  Joined(r) /\ r # s /\ cid[r] \in to /\ csession[r] = csession[s]
  <2>1. PICK x \in to : client_find_by_id(r, x)
    BY <1>5 DEF Found
  <2>2. Live(r) /\ cid[r] = x
    BY <2>1 DEF client_find_by_id
  <2>3. PICK k \in Slots : client_find_by_id(k, x) /\ csession[k] = csession[s]
    BY DEF Offers, Creates, check_recipients
  <2>4. k = r
    BY <2>2, <2>3 DEF client_find_by_id, TablesInv, SessionInv, Identities
  <2>5. csession[s] \in SessionNames
    BY <1>4 DEF TablesInv, SessionInv, Identities
  <2>6. csession[r] # NoSession
    BY <2>3, <2>4, <2>5, ServerAssumption
  <2>7. Joined(r)
    BY <2>2, <2>6 DEF Live, Joined, TablesInv, SessionInv, Identities, TypeOK, ClientState
  <2> QED BY <1>4, <2>2, <2>3, <2>4, <2>7
<1> QED BY <1>1, <1>2, <1>3, <1>4, <1>5

\* What it does to a queue.
LEMMA OffersQueue ==
  ASSUME TypeOK, TablesInv, NumbersFree,
         NEW s \in Slots, NEW t \in Transfer_ID, NEW to \in SUBSET user_list[s], Offers(s, t, to),
         NEW r \in Slots
  PROVE  /\ r = s => msg_queue'[r] = msg_queue[r] \o <<Offer(t, to)>>
         /\ Found(to, r) => msg_queue'[r] = msg_queue[r] \o <<Request(s, t, to)>>
         /\ r # s /\ ~Found(to, r) => msg_queue'[r] = msg_queue[r]
         /\ msg_queue[r] \in Seq(Packet)
         /\ Offer(t, to) \in Packet /\ Request(s, t, to) \in Packet
<1>1. Found(to, r) => r # s
  BY OffersFind
<1>2. msg_queue'[r] = msg_queue[r] \o
          (One(r = s, Offer(t, to)) \o One(Found(to, r), Request(s, t, to)))
  BY DEF Offers
<1>3. Offer(t, to) \in Packet /\ Request(s, t, to) \in Packet
  BY PktType, ZeroTypes, OffersFind DEF Offer, Request, TypeOK, ServerPacket
<1>4. msg_queue[r] \in Seq(Packet)
  BY DEF TypeOK
<1>5. ASSUME NEW p \in Packet
      PROVE  <<p>> \o << >> = <<p>> /\ << >> \o <<p>> = <<p>> /\ << >> \o << >> = << >>
  OBVIOUS
<1>6. msg_queue[r] \o << >> = msg_queue[r]
  BY <1>4
<1>7. CASE r = s
  BY <1>1, <1>2, <1>3, <1>4, <1>5, <1>7 DEF One
<1>8. CASE Found(to, r)
  BY <1>1, <1>2, <1>3, <1>4, <1>5, <1>8 DEF One
<1>9. CASE r # s /\ ~Found(to, r)
  BY <1>2, <1>3, <1>4, <1>5, <1>6, <1>9 DEF One
<1> QED BY <1>7, <1>8, <1>9, <1>3, <1>4, <1>1

\* Where a queue speaks of transfer u afterwards: the new number is spoken of
\* once, the others as before.
LEMMA OffersAt ==
  ASSUME TypeOK, TablesInv, NumbersFree,
         NEW s \in Slots, NEW t \in Transfer_ID, NEW to \in SUBSET user_list[s], Offers(s, t, to),
         NEW r \in Slots
  PROVE  /\ \A i \in DOMAIN msg_queue[r] : msg_queue'[r][i] = msg_queue[r][i]
         /\ \A i \in DOMAIN msg_queue'[r] :
               \/ i \in DOMAIN msg_queue[r] /\ msg_queue'[r][i] = msg_queue[r][i]
               \/ r = s /\ msg_queue'[r][i] = Offer(t, to)
               \/ Found(to, r) /\ msg_queue'[r][i] = Request(s, t, to)
         /\ \A u : At(msg_queue'[r], "VALID", u) = At(msg_queue[r], "VALID", u) \cup
               (IF u = t /\ r = s THEN {Len(msg_queue[r]) + 1} ELSE {})
         /\ \A u : At(msg_queue'[r], "REQUEST", u) = At(msg_queue[r], "REQUEST", u) \cup
               (IF u = t /\ Found(to, r) THEN {Len(msg_queue[r]) + 1} ELSE {})
         /\ r = s => msg_queue'[r][Len(msg_queue[r]) + 1] = Offer(t, to)
<1>1. Found(to, r) => r # s
  BY OffersFind
<1>2. /\ Offer(t, to).type = "VALID" /\ Offer(t, to).t_id = t
      /\ Request(s, t, to).type = "REQUEST" /\ Request(s, t, to).t_id = t
  BY DEF Offer, Request, Pkt
<1> DEFINE q == msg_queue[r]
           n == msg_queue'[r]
           offer == Offer(t, to)
           request == Request(s, t, to)
           last == Len(q) + 1
<1>3. /\ r = s => n = q \o <<offer>>
      /\ Found(to, r) => n = q \o <<request>>
      /\ r # s /\ ~Found(to, r) => n = q
      /\ q \in Seq(Packet) /\ offer \in Packet /\ request \in Packet
  BY OffersQueue
<1> HIDE DEF q, n, offer, request
<1>4. ASSUME NEW p \in Packet, n = q \o <<p>>
      PROVE  /\ \A i \in DOMAIN q : n[i] = q[i]
             /\ \A i \in DOMAIN n : (i \in DOMAIN q /\ n[i] = q[i]) \/ n[i] = p
             /\ n[last] = p
             /\ \A type, u : At(n, type, u) = At(q, type, u) \cup
                              (IF p.type = type /\ p.t_id = u THEN {last} ELSE {})
  <2>1. \A i \in DOMAIN q : n[i] = q[i]
    BY <1>3, <1>4, AtOne
  <2>2. n[last] = p /\ DOMAIN n = 1 .. last /\ DOMAIN q = 1 .. Len(q) /\ Len(q) \in Nat
    BY <1>3, <1>4, AtOne
  <2>3. \A i \in DOMAIN n : i \in DOMAIN q \/ i = last
    BY <2>2
  <2>4. ASSUME NEW type, NEW u
        PROVE  At(n, type, u) = At(q, type, u) \cup
                                (IF p.type = type /\ p.t_id = u THEN {last} ELSE {})
    <3>1. q \in Seq(Packet)
      BY <1>3
    <3>2. At(q \o <<p>>, type, u) = At(q, type, u) \cup
                                (IF p.type = type /\ p.t_id = u THEN {Len(q) + 1} ELSE {})
      BY ONLY <3>1, AtOne
    <3> QED BY <1>4, <3>2
  <2> HIDE DEF last
  <2> QED BY <2>1, <2>2, <2>3, <2>4
<1>5. CASE r = s
  <2>1. n = q \o <<offer>> /\ offer \in Packet
    BY <1>3, <1>5
  <2> HIDE DEF last
  <2>2. /\ \A i \in DOMAIN q : n[i] = q[i]
        /\ \A i \in DOMAIN n : (i \in DOMAIN q /\ n[i] = q[i]) \/ n[i] = offer
        /\ n[last] = offer
        /\ \A type, u : At(n, type, u) = At(q, type, u) \cup
                              (IF offer.type = type /\ offer.t_id = u THEN {last} ELSE {})
    BY <1>4, <2>1
  <2>3. ASSUME NEW u
        PROVE  At(n, "VALID", u) = At(q, "VALID", u) \cup (IF u = t /\ r = s THEN {last} ELSE {})
    <3>1. At(n, "VALID", u) = At(q, "VALID", u) \cup
             (IF offer.type = "VALID" /\ offer.t_id = u THEN {last} ELSE {})
      BY <2>2
    <3>2. (offer.type = "VALID" /\ offer.t_id = u) <=> (u = t /\ r = s)
      BY <1>1, <1>2, <1>5 DEF offer
    <3> QED BY <3>1, <3>2
  <2>4. ASSUME NEW u
        PROVE  At(n, "REQUEST", u) = At(q, "REQUEST", u) \cup (IF u = t /\ Found(to, r) THEN {last} ELSE {})
    <3>1. At(n, "REQUEST", u) = At(q, "REQUEST", u) \cup
             (IF offer.type = "REQUEST" /\ offer.t_id = u THEN {last} ELSE {})
      BY <2>2
    <3>2. (offer.type = "REQUEST" /\ offer.t_id = u) <=> (u = t /\ Found(to, r))
      BY <1>1, <1>2, <1>5 DEF offer
    <3> QED BY <3>1, <3>2
  <2> QED BY <1>1, <1>5, <2>2, <2>3, <2>4 DEF q, n, offer, last
<1>6. CASE Found(to, r)
  <2>1. n = q \o <<request>> /\ request \in Packet
    BY <1>3, <1>6
  <2> HIDE DEF last
  <2>2. /\ \A i \in DOMAIN q : n[i] = q[i]
        /\ \A i \in DOMAIN n : (i \in DOMAIN q /\ n[i] = q[i]) \/ n[i] = request
        /\ \A type, u : At(n, type, u) = At(q, type, u) \cup
                              (IF request.type = type /\ request.t_id = u THEN {last} ELSE {})
    BY <1>4, <2>1
  <2>3. ASSUME NEW u
        PROVE  At(n, "VALID", u) = At(q, "VALID", u) \cup (IF u = t /\ r = s THEN {last} ELSE {})
    <3>1. At(n, "VALID", u) = At(q, "VALID", u) \cup
             (IF request.type = "VALID" /\ request.t_id = u THEN {last} ELSE {})
      BY <2>2
    <3>2. (request.type = "VALID" /\ request.t_id = u) <=> (u = t /\ r = s)
      BY <1>1, <1>2, <1>6 DEF request
    <3> QED BY <3>1, <3>2
  <2>4. ASSUME NEW u
        PROVE  At(n, "REQUEST", u) = At(q, "REQUEST", u) \cup (IF u = t /\ Found(to, r) THEN {last} ELSE {})
    <3>1. At(n, "REQUEST", u) = At(q, "REQUEST", u) \cup
             (IF request.type = "REQUEST" /\ request.t_id = u THEN {last} ELSE {})
      BY <2>2
    <3>2. (request.type = "REQUEST" /\ request.t_id = u) <=> (u = t /\ Found(to, r))
      BY <1>1, <1>2, <1>6 DEF request
    <3> QED BY <3>1, <3>2
  <2> QED BY <1>1, <1>6, <2>2, <2>3, <2>4 DEF q, n, request, last
<1>7. CASE r # s /\ ~Found(to, r)
  BY <1>3, <1>7 DEF q, n
<1> QED BY <1>5, <1>6, <1>7

\* A number that is not used.
LEMMA Unused ==
  ASSUME TypeOK, NEW r \in Slots, NEW t \in Transfer_ID, ~Uses(r, t)
  PROVE  /\ t \notin asked[r] /\ t \notin joined[r] /\ Host(r, t) = {}
         /\ At(msg_queue[r], "VALID", t) = {} /\ At(msg_queue[r], "REQUEST", t) = {}
         /\ \A i \in DOMAIN msg_queue[r] :
               msg_queue[r][i].type \in TransferPackets => msg_queue[r][i].t_id # t
<1>1. \A type \in TransferPackets : At(msg_queue[r], type, t) = {}
  BY DEF Uses
<1>2. \A i \in DOMAIN msg_queue[r] :
         msg_queue[r][i].type \in TransferPackets => msg_queue[r][i].t_id # t
  BY <1>1 DEF At
<1> QED BY <1>1, <1>2 DEF Uses, TransferPackets

LEMMA OffersKeep ==
  ASSUME TypeOK, TablesInv, TalkInv, NumbersFree,
         NEW s \in Slots, NEW t \in Transfer_ID, NEW to \in SUBSET user_list[s], Offers(s, t, to)
  PROVE  Strangers' /\ Hosts' /\ NotOwn' /\ Covers' /\ Heard'
<1>1. /\ UNCHANGED <<cstate, cid, hosting, asked, joined>>
      /\ transfers' = transfers \cup {[transfer_id |-> t, creator_id |-> cid[s]]}
      /\ transfer_clients' = transfer_clients \cup
            [transfer_id : {t}, client_id : to, accepted : {-1}]
  BY DEF Offers, Creates, table, client
<1>2. /\ \A v \in transfers : v.transfer_id # t
      /\ \A w \in transfer_clients : w.transfer_id # t
      /\ \A r \in Slots : Live(r) => ~Uses(r, t)
      /\ \A r \in Slots : Found(to, r) => Joined(r) /\ r # s /\ cid[r] \in to
      /\ Joined(s)
  BY OffersFind
<1>3. \A r \in Slots : (Joined(r)' <=> Joined(r)) /\ (Live(r)' <=> Live(r)) /\ (Joined(r) => Live(r))
  BY <1>1 DEF Joined, Live
<1>4. ASSUME NEW r \in Slots, Joined(r), NEW u
      PROVE  Own(r, u)' <=> Own(r, u) \/ (u = t /\ r = s)
  <2>1. Own(r, u)' <=> Own(r, u) \/ (u = t /\ cid[r] = cid[s])
    BY <1>1 DEF Own
  <2>2. cid[r] = cid[s] <=> r = s
    BY <1>2, <1>3, <1>4 DEF TablesInv, SessionInv, Identities
  <2> QED BY <2>1, <2>2
<1>5. \A r \in Slots : \A u : Host(r, u)' = Host(r, u)
  BY <1>1 DEF Host
<1>6. \A r \in Slots : ~Own(r, t)
  BY <1>2 DEF Own
<1>7. Strangers'
  <2> SUFFICES ASSUME NEW r \in Slots, ~Joined(r)
               PROVE  /\ hosting'[r] = {} /\ asked'[r] = {} /\ joined'[r] = {}
                      /\ Live(r) => \A i \in DOMAIN msg_queue'[r] :
                                       msg_queue'[r][i].type \notin {"VALID", "REQUEST"}
    BY <1>3 DEF Strangers
  <2>1. r # s /\ ~Found(to, r)
    BY <1>2
  <2>2. msg_queue'[r] = msg_queue[r]
    BY <2>1, OffersQueue
  <2> QED BY <1>1, <2>2 DEF TalkInv, Strangers
<1>8. Hosts'
  <2> SUFFICES ASSUME NEW r \in Slots, NEW u \in Transfer_ID, Joined(r) PROVE HostsAt(r, u)'
    BY <1>3 DEF Hosts
  <2> DEFINE valid == At(msg_queue[r], "VALID", u)
             now == At(msg_queue'[r], "VALID", u)
  <2>1. At(msg_queue'[r], "VALID", u) = At(msg_queue[r], "VALID", u) \cup
               (IF u = t /\ r = s THEN {Len(msg_queue[r]) + 1} ELSE {})
    BY OffersAt
  <2>2. /\ \A i, j \in valid : i = j
        /\ valid # {} => Host(r, u) = {}
        /\ (valid # {} \/ Host(r, u) # {}) => Own(r, u)
    BY DEF TalkInv, Hosts, HostsAt
  <2>3. u = t => valid = {} /\ Host(r, u) = {}
    BY <1>2, <1>3, Unused
  <2> HIDE DEF valid, now
  <2>6. now = valid \cup (IF u = t /\ r = s THEN {Len(msg_queue[r]) + 1} ELSE {})
    BY <2>1 DEF now, valid
  <2>7. Own(r, u)' <=> Own(r, u) \/ (u = t /\ r = s)
    BY <1>4
  <2>4. /\ \A i, j \in now : i = j
        /\ now # {} => Host(r, u) = {}
        /\ (now # {} \/ Host(r, u) # {}) => Own(r, u)'
    <3>1. CASE u = t /\ r = s
      <4>1. now = {Len(msg_queue[r]) + 1}
        BY <2>3, <2>6, <3>1
      <4> QED BY <2>3, <2>7, <3>1, <4>1
    <3>2. CASE ~(u = t /\ r = s)
      <4>1. now = valid
        BY <2>6, <3>2
      <4> QED BY <2>2, <2>7, <3>2, <4>1
    <3> QED BY <3>1, <3>2
  <2>5. At(msg_queue[r], "VALID", u)' = now
    BY DEF now, At
  <2> QED BY <1>5, <2>4, <2>5 DEF HostsAt
<1>9. NotOwn'
  <2> SUFFICES ASSUME NEW r \in Slots, NEW u \in Transfer_ID, Joined(r),
                      Asks(r, u)' \/ u \in joined'[r], Own(r, u)'
               PROVE  FALSE
    BY <1>3 DEF NotOwn
  <2>1. At(msg_queue'[r], "REQUEST", u) = At(msg_queue[r], "REQUEST", u) \cup
           (IF u = t /\ Found(to, r) THEN {Len(msg_queue[r]) + 1} ELSE {})
    BY OffersAt
  <2>2. Asks(r, u) <=> u \in asked[r] \/ At(msg_queue[r], "REQUEST", u) # {}
    BY DEF Asks, At
  <2>3. Asks(r, u)' <=> u \in asked'[r] \/ At(msg_queue'[r], "REQUEST", u) # {}
    BY DEF Asks, At
  <2>4. CASE u # t
    BY <1>1, <1>4, <2>1, <2>2, <2>3, <2>4 DEF TalkInv, NotOwn
  <2>5. CASE u = t
    <3>1. r = s
      BY <1>4, <1>6, <2>5
    <3>2. u \notin asked[r] /\ u \notin joined[r] /\ At(msg_queue[r], "REQUEST", u) = {}
      BY <1>2, <1>3, <2>5, Unused
    <3>3. ~Found(to, r)
      BY <1>2, <3>1
    <3> QED BY <1>1, <2>1, <2>3, <3>2, <3>3
  <2> QED BY <2>4, <2>5
<1>10. Covers'
  <2> SUFFICES ASSUME NEW r \in Slots, NEW u \in Transfer_ID, Joined(r), Own(r, u)', NEW w \in Rows(u)'
               PROVE  CoversAt(r, u, w.client_id)'
    BY <1>3 DEF Covers
  <2>1. CASE u = t
    <3>1. r = s
      BY <1>4, <1>6, <2>1
    <3>2. w.client_id \in to
      BY <1>1, <1>2, <2>1 DEF Rows
    <3> DEFINE i == Len(msg_queue[r]) + 1
    <3>3. i \in At(msg_queue'[r], "VALID", t) /\ msg_queue'[r][i] = Offer(t, to)
      BY <3>1, OffersAt
    <3>4. Offer(t, to).ids = to
      BY DEF Offer, Pkt
    <3>5. At(msg_queue[r], "VALID", u)' = At(msg_queue'[r], "VALID", t)
      BY <2>1 DEF At
    <3> HIDE DEF i
    <3> QED BY <3>2, <3>3, <3>4, <3>5 DEF CoversAt
  <2>2. CASE u # t
    <3>1. Own(r, u) /\ w \in Rows(u)
      BY <1>1, <1>4, <2>2 DEF Rows
    <3>2. CoversAt(r, u, w.client_id)
      BY <3>1 DEF TalkInv, Covers
    <3>6. At(msg_queue'[r], "VALID", u) = At(msg_queue[r], "VALID", u) \cup
               (IF u = t /\ r = s THEN {Len(msg_queue[r]) + 1} ELSE {})
      BY OffersAt
    <3>7. At(msg_queue'[r], "VALID", u) = At(msg_queue[r], "VALID", u)
      BY <2>2, <3>6
    <3>3. \A i \in DOMAIN msg_queue[r] : msg_queue'[r][i] = msg_queue[r][i]
      BY OffersAt
    <3>4. \A i \in At(msg_queue[r], "VALID", u) : msg_queue'[r][i] = msg_queue[r][i]
      BY <3>3 DEF At
    <3>5. At(msg_queue[r], "VALID", u)' = At(msg_queue'[r], "VALID", u)
      BY DEF At
    <3> QED BY <1>5, <3>2, <3>4, <3>5, <3>7 DEF CoversAt
  <2> QED BY <2>1, <2>2
<1>11. Heard'
  <2>1. \A n, x : n # t /\ Row(n, x, -1) \in transfer_clients' => Row(n, x, -1) \in transfer_clients
    BY <1>1 DEF Row
  <2>2. ASSUME NEW r \in Slots, Joined(r), NEW i \in DOMAIN msg_queue'[r]
        PROVE  Answered(msg_queue'[r][i], transfer_clients')
    <3>1. CASE i \in DOMAIN msg_queue[r] /\ msg_queue'[r][i] = msg_queue[r][i]
      <4> DEFINE p == msg_queue[r][i]
      <4>1. Answered(p, transfer_clients)
        BY <2>2, <3>1 DEF TalkInv, Heard
      <4>2. p.type \in {"REPLY", "CANCEL"} => p.t_id # t
        BY <1>2, <1>3, <2>2, <3>1, Unused DEF TransferPackets
      <4> QED BY <2>1, <3>1, <4>1, <4>2 DEF Answered
    <3>2. CASE msg_queue'[r][i] \in {Offer(t, to), Request(s, t, to)}
      BY <3>2 DEF Offer, Request, Pkt, Answered
    <3> QED BY <2>2, <3>1, <3>2, OffersAt
  <2>3. ASSUME NEW r \in Slots, Joined(r), NEW h \in hosting'[r], h.accepted # -1
        PROVE  Row(h.transfer_id, h.client_id, -1) \notin transfer_clients'
    <3>1. h \in hosting[r]
      BY <1>1, <2>3
    <3>2. h.transfer_id # t
      BY <1>2, <1>3, <2>3, <3>1, Unused DEF Host
    <3> QED BY <2>1, <2>3, <3>1, <3>2 DEF TalkInv, Heard
  <2> QED BY <1>3, <2>2, <2>3 DEF Heard
<1> QED BY <1>7, <1>8, <1>9, <1>10, <1>11

(***************************************************************************)
(* A client reads a packet.                                                *)
(***************************************************************************)

\* What becomes of its transfers: none is lost, an answer comes from a packet.
LEMMA ReadHosting ==
  ASSUME TypeOK, NEW s \in Slots, write_data(s)
  PROVE  LET p == Head(msg_queue[s])
         IN  /\ \A h \in hosting'[s] :
                   \/ h \in hosting[s]
                   \/ p.type = "VALID" /\ h.transfer_id = p.t_id /\ h.client_id \in p.ids /\ h.accepted = -1
                   \/ /\ p.type \in {"REPLY", "CANCEL"} /\ h.transfer_id = p.t_id /\ h.client_id = p.from
                      /\ \E g \in hosting[s] : g.transfer_id = p.t_id /\ g.client_id = p.from
             /\ \A h \in hosting[s] : \E g \in hosting'[s] :
                   g.transfer_id = h.transfer_id /\ g.client_id = h.client_id
             /\ p.type = "VALID" => \A x \in p.ids : \E g \in hosting'[s] :
                   g.transfer_id = p.t_id /\ g.client_id = x
<1> DEFINE p == Head(msg_queue[s])
           n == hosting'[s]
<1>1. n = hosting[s] \/ n = hosted(s, p)
  <2>1. hosting \in [Slots -> SUBSET ClientRow]
    BY DEF TypeOK
  <2> QED BY <2>1 DEF write_data, forget
<1>2. p.type = "VALID" => n = hosted(s, p)
  <2>1. hosting \in [Slots -> SUBSET ClientRow]
    BY DEF TypeOK
  <2> QED BY <2>1 DEF write_data
<1>3. hosting[s] \subseteq ClientRow
  BY DEF TypeOK
<1> DEFINE now(m) ==
     /\ \A h \in m :
           \/ h \in hosting[s]
           \/ p.type = "VALID" /\ h.transfer_id = p.t_id /\ h.client_id \in p.ids /\ h.accepted = -1
           \/ /\ p.type \in {"REPLY", "CANCEL"} /\ h.transfer_id = p.t_id /\ h.client_id = p.from
              /\ \E g \in hosting[s] : g.transfer_id = p.t_id /\ g.client_id = p.from
     /\ \A h \in hosting[s] : \E g \in m :
           g.transfer_id = h.transfer_id /\ g.client_id = h.client_id
<1>4. now(hosting[s])
  OBVIOUS
<1>5. ASSUME NEW answer, p.type \in {"REPLY", "CANCEL"} PROVE now(set_request(s, p.t_id, p.from, answer))
  <2> DEFINE m == set_request(s, p.t_id, p.from, answer)
             mine == {g \in Host(s, p.t_id) : g.client_id = p.from}
             set == [transfer_id : {p.t_id}, client_id : {g.client_id : g \in mine}, accepted : {answer}]
  <2>1. m = {h \in hosting[s] : ~(h.transfer_id = p.t_id /\ h.client_id = p.from)} \cup set
    BY DEF set_request
  <2>2. \A g \in mine : g \in hosting[s] /\ g.transfer_id = p.t_id /\ g.client_id = p.from
    BY DEF Host
  <2>3. \A h \in hosting[s] : h.transfer_id = p.t_id /\ h.client_id = p.from => h \in mine
    BY DEF Host
  <2> HIDE DEF mine, m
  <2>4. \A h \in set : h.transfer_id = p.t_id /\ h.client_id = p.from /\ mine # {}
    BY <2>2
  <2>5. \A g \in mine : \E h \in set : h.transfer_id = p.t_id /\ h.client_id = p.from
    <3> TAKE g \in mine
    <3>1. [transfer_id |-> p.t_id, client_id |-> g.client_id, accepted |-> answer] \in set
      OBVIOUS
    <3> QED BY <2>4, <3>1
  <2> HIDE DEF set, p
  <2>6. \A h \in m :
           \/ h \in hosting[s]
           \/ /\ p.type \in {"REPLY", "CANCEL"} /\ h.transfer_id = p.t_id /\ h.client_id = p.from
              /\ \E g \in hosting[s] : g.transfer_id = p.t_id /\ g.client_id = p.from
    BY <1>5, <2>1, <2>2, <2>4
  <2>7. ASSUME NEW h \in hosting[s]
        PROVE  \E g \in m : g.transfer_id = h.transfer_id /\ g.client_id = h.client_id
    BY <2>1, <2>3, <2>5
  <2> QED BY <2>6, <2>7 DEF m
<1>6. CASE p.type = "VALID"
  <2> DEFINE new == [transfer_id : {p.t_id}, client_id : p.ids, accepted : {-1}]
  <2>1. hosted(s, p) = hosting[s] \cup new
    BY <1>6 DEF hosted
  <2>2. \A h \in new : h.transfer_id = p.t_id /\ h.client_id \in p.ids /\ h.accepted = -1
    OBVIOUS
  <2>3. ASSUME NEW x \in p.ids PROVE \E g \in new : g.transfer_id = p.t_id /\ g.client_id = x
    <3>1. [transfer_id |-> p.t_id, client_id |-> x, accepted |-> -1] \in new
      OBVIOUS
    <3> QED BY <3>1
  <2> HIDE DEF new, p, n
  <2>4. n = hosting[s] \cup new
    BY <1>2, <1>6, <2>1
  <2>5. now(n) /\ \A x \in p.ids : \E g \in n : g.transfer_id = p.t_id /\ g.client_id = x
    BY <1>6, <2>2, <2>3, <2>4
  <2> QED BY <2>5 DEF p, n
<1>7. CASE p.type # "VALID"
  <2>1. \/ hosted(s, p) = hosting[s]
        \/ /\ p.type \in {"REPLY", "CANCEL"}
           /\ \E answer : hosted(s, p) = set_request(s, p.t_id, p.from, answer)
    <3>1. CASE p.type = "REPLY" /\ \E h \in Host(s, p.t_id) : h.accepted = -1
      BY <1>7, <3>1 DEF hosted
    <3>2. CASE p.type = "CANCEL" /\ ~(p.type = "REPLY" /\ \E h \in Host(s, p.t_id) : h.accepted = -1)
      BY <1>7, <3>2 DEF hosted
    <3>3. CASE p.type # "CANCEL" /\ ~(p.type = "REPLY" /\ \E h \in Host(s, p.t_id) : h.accepted = -1)
      BY <1>7, <3>3 DEF hosted
    <3> QED BY <3>1, <3>2, <3>3
  <2> HIDE DEF now, p, n
  <2>2. now(n)
    BY <1>1, <1>4, <1>5, <2>1
  <2> QED BY <1>7, <2>2 DEF now, p, n
<1> QED BY <1>6, <1>7

LEMMA ReadKeeps ==
  ASSUME TypeOK, TablesInv, TalkInv, NEW s \in Slots, write_data(s)
  PROVE  Strangers' /\ Hosts' /\ NotOwn' /\ Covers' /\ Heard'
<1> DEFINE q == msg_queue[s]
           p == Head(q)
<1>1. UNCHANGED <<cstate, cid, transfers, transfer_clients>> /\ Live(s) /\ q # << >>
  BY DEF write_data, table, db
<1>2. q \in Seq(Packet) /\ msg_queue'[s] = Tail(q)
  BY DEF write_data, TypeOK
<1>3. /\ \A h \in hosting'[s] :
            \/ h \in hosting[s]
            \/ p.type = "VALID" /\ h.transfer_id = p.t_id /\ h.client_id \in p.ids /\ h.accepted = -1
            \/ /\ p.type \in {"REPLY", "CANCEL"} /\ h.transfer_id = p.t_id /\ h.client_id = p.from
               /\ \E g \in hosting[s] : g.transfer_id = p.t_id /\ g.client_id = p.from
      /\ \A h \in hosting[s] : \E g \in hosting'[s] :
            g.transfer_id = h.transfer_id /\ g.client_id = h.client_id
      /\ p.type = "VALID" => \A x \in p.ids : \E g \in hosting'[s] :
            g.transfer_id = p.t_id /\ g.client_id = x
  BY ReadHosting
<1>4. \A r \in Slots \ {s} : /\ msg_queue'[r] = msg_queue[r] /\ hosting'[r] = hosting[r]
                             /\ asked'[r] = asked[r] /\ joined'[r] = joined[r]
  BY DEF write_data, forget, TypeOK
<1>5. /\ joined'[s] \subseteq joined[s]
      /\ asked'[s] \subseteq asked[s] \cup (IF p.type = "REQUEST" THEN {p.t_id} ELSE {})
  <2>1. asked \in [Slots -> SUBSET Transfer_ID] /\ joined \in [Slots -> SUBSET Transfer_ID]
    BY DEF TypeOK
  <2>2. CASE p.type = "CANCEL"
    BY <2>1, <2>2 DEF write_data, forget
  <2>3. CASE p.type # "CANCEL"
    BY <2>1, <2>3 DEF write_data
  <2> QED BY <2>2, <2>3
<1>6. \A r \in Slots : (Joined(r)' <=> Joined(r)) /\ (Live(r)' <=> Live(r)) /\ \A t : Own(r, t)' <=> Own(r, t)
  BY <1>1 DEF Joined, Live, Own
<1>7. \A r \in Slots \ {s} : \A t : /\ Host(r, t)' = Host(r, t)
                                    /\ \A type : At(msg_queue[r], type, t)' = At(msg_queue[r], type, t)
                                    /\ Asks(r, t)' <=> Asks(r, t)
  BY <1>4 DEF Host, At, Asks
<1>8. /\ \A i \in DOMAIN Tail(q) : i \in Nat /\ i # 0 /\ i + 1 \in DOMAIN q /\ Tail(q)[i] = q[i + 1]
      /\ 1 \in DOMAIN q /\ p = q[1]
  BY <1>1, <1>2, TailAt
<1> HIDE DEF q, p
<1>9. Strangers'
  <2> SUFFICES ASSUME NEW r \in Slots, ~Joined(r)
               PROVE  /\ hosting'[r] = {} /\ asked'[r] = {} /\ joined'[r] = {}
                      /\ Live(r) => \A i \in DOMAIN msg_queue'[r] :
                                       msg_queue'[r][i].type \notin {"VALID", "REQUEST"}
    BY <1>6 DEF Strangers
  <2>1. CASE r # s
    BY <1>4, <2>1 DEF TalkInv, Strangers
  <2>2. CASE r = s
    <3>1. /\ hosting[s] = {} /\ asked[s] = {} /\ joined[s] = {}
          /\ \A i \in DOMAIN q : q[i].type \notin {"VALID", "REQUEST"}
      BY <1>1, <2>2 DEF TalkInv, Strangers, q
    <3>2. p.type \notin {"VALID", "REQUEST"}
      BY <1>8, <3>1
    <3>3. hosting'[s] = {} /\ asked'[s] = {} /\ joined'[s] = {}
      BY <1>3, <1>5, <3>1, <3>2
    <3> QED BY <1>2, <1>8, <2>2, <3>1, <3>3
  <2> QED BY <2>1, <2>2
<1>10. Hosts'
  <2> SUFFICES ASSUME NEW r \in Slots, NEW t \in Transfer_ID, Joined(r) PROVE HostsAt(r, t)'
    BY <1>6 DEF Hosts
  <2>0. HostsAt(r, t)
    BY DEF TalkInv, Hosts
  <2>1. CASE r # s
    BY <1>6, <1>7, <2>0, <2>1 DEF HostsAt
  <2>2. CASE r = s
    <3> DEFINE valid == At(q, "VALID", t)
               now == At(Tail(q), "VALID", t)
    <3>1. /\ \A i, j \in valid : i = j
          /\ valid # {} => Host(s, t) = {}
          /\ (valid # {} \/ Host(s, t) # {}) => Own(s, t)
      BY <2>0, <2>2 DEF HostsAt, q
    <3>2. \A i \in now : i \in Nat /\ i # 0 /\ i + 1 \in valid
      BY <1>1, <1>2, <1>8, AtTail DEF At
    <3>3. p.type = "VALID" /\ p.t_id = t => 1 \in valid
      BY <1>8 DEF At
    <3> HIDE DEF valid, now
    <3>4. \A i, j \in now : i = j
      <4> TAKE i, j \in now
      <4>1. i + 1 = j + 1 /\ i \in Nat /\ j \in Nat
        BY <3>1, <3>2
      <4> QED BY <4>1
    <3>5. Host(s, t)' # {} => Host(s, t) # {} \/ (p.type = "VALID" /\ p.t_id = t)
      BY <1>3 DEF Host
    <3>6. now # {} => Host(s, t)' = {}
      <4>1. ASSUME NEW i \in now, p.type = "VALID", p.t_id = t PROVE FALSE
        <5>1. i + 1 = 1 /\ i \in Nat /\ i # 0
          BY <3>1, <3>2, <3>3, <4>1
        <5> QED BY <5>1
      <4> QED BY <3>1, <3>2, <3>5, <4>1
    <3>7. (now # {} \/ Host(s, t)' # {}) => Own(s, t)
      BY <3>1, <3>2, <3>3, <3>5
    <3>8. At(msg_queue[s], "VALID", t)' = now
      BY <1>2 DEF At, now
    <3> QED BY <1>6, <2>2, <3>4, <3>6, <3>7, <3>8 DEF HostsAt
  <2> QED BY <2>1, <2>2
<1>11. NotOwn'
  <2> SUFFICES ASSUME NEW r \in Slots, NEW t \in Transfer_ID, Joined(r),
                      Asks(r, t)' \/ t \in joined'[r], Own(r, t)
               PROVE  FALSE
    BY <1>6 DEF NotOwn
  <2>1. AsksAt(r)
    BY WriteAsks DEF TablesInv
  <2>2. Live(r)'
    BY <1>6 DEF Joined, Live
  <2>3. Asks(r, t)' => Asks(r, t)
    BY <2>1, <2>2 DEF AsksAt
  <2>4. joined'[r] \subseteq joined[r]
    BY <1>4, <1>5
  <2> QED BY <2>3, <2>4 DEF TalkInv, NotOwn
<1>12. Covers'
  <2> SUFFICES ASSUME NEW r \in Slots, NEW t \in Transfer_ID, Joined(r), Own(r, t), NEW w \in Rows(t)
               PROVE  CoversAt(r, t, w.client_id)'
    <3>2. \A r \in Slots, t \in Transfer_ID : (Joined(r) /\ Own(r, t)) =>
             \A w \in Rows(t) : CoversAt(r, t, w.client_id)'
      OBVIOUS
    <3>3. \A t : Rows(t)' = Rows(t)
      BY <1>1 DEF Rows
    <3> QED BY <1>6, <3>2, <3>3 DEF Covers
  <2>0. CoversAt(r, t, w.client_id)
    BY DEF TalkInv, Covers
  <2>1. CASE r # s
    <3>1. msg_queue'[r] = msg_queue[r] /\ Host(r, t)' = Host(r, t)
      BY <1>4, <1>7, <2>1
    <3>2. At(msg_queue[r], "VALID", t)' = At(msg_queue[r], "VALID", t)
      BY <1>7, <2>1
    <3> QED BY <2>0, <3>1, <3>2 DEF CoversAt
  <2>2. CASE r = s
    <3> DEFINE x == w.client_id
    <3> HIDE DEF x
    <3>1. ASSUME NEW h \in Host(s, t), h.client_id = x PROVE CoversAt(s, t, x)'
      <4>1. PICK g \in hosting'[s] : g.transfer_id = t /\ g.client_id = x
        BY <1>3, <3>1 DEF Host
      <4> QED BY <4>1 DEF CoversAt, Host
    <3>2. ASSUME NEW i \in At(q, "VALID", t), x \in q[i].ids PROVE CoversAt(s, t, x)'
      <4>1. CASE i = 1
        <5>1. p.type = "VALID" /\ p.t_id = t /\ x \in p.ids
          BY <1>8, <3>2, <4>1 DEF At
        <5> QED BY <1>3, <5>1 DEF CoversAt, Host
      <4>2. CASE i # 1
        <5>1. i \in Nat /\ i - 1 \in At(Tail(q), "VALID", t)
          BY <1>1, <1>2, <3>2, <4>2, AtTail
        <5>2. Tail(q)[i - 1] = q[(i - 1) + 1]
          BY <1>8, <5>1 DEF At
        <5>3. (i - 1) + 1 = i
          BY <5>1
        <5>4. At(msg_queue[s], "VALID", t)' = At(Tail(q), "VALID", t)
          BY <1>2 DEF At
        <5> QED BY <1>2, <3>2, <5>1, <5>2, <5>3, <5>4 DEF CoversAt
      <4> QED BY <4>1, <4>2
    <3> QED BY <2>0, <2>2, <3>1, <3>2 DEF CoversAt, q, x
  <2> QED BY <2>1, <2>2
<1>13. Heard'
  <2>1. ASSUME NEW r \in Slots, Joined(r), NEW i \in DOMAIN msg_queue'[r]
        PROVE  Answered(msg_queue'[r][i], transfer_clients)
    <3>1. \A k \in DOMAIN msg_queue[r] : Answered(msg_queue[r][k], transfer_clients)
      BY <2>1 DEF TalkInv, Heard
    <3>2. CASE r # s
      BY <1>4, <2>1, <3>1, <3>2
    <3>3. CASE r = s
      BY <1>2, <1>8, <2>1, <3>1, <3>3 DEF q
    <3> QED BY <3>2, <3>3
  <2>2. ASSUME NEW r \in Slots, Joined(r), NEW h \in hosting'[r], h.accepted # -1
        PROVE  Row(h.transfer_id, h.client_id, -1) \notin transfer_clients
    <3>1. CASE h \in hosting[r]
      BY <2>2, <3>1 DEF TalkInv, Heard
    <3>2. CASE h \notin hosting[r]
      <4>1. r = s
        BY <1>4, <2>2, <3>2
      <4>2. p.type \in {"REPLY", "CANCEL"} /\ h.transfer_id = p.t_id /\ h.client_id = p.from
        BY <1>3, <2>2, <3>2, <4>1
      <4>3. Answered(p, transfer_clients)
        BY <1>8, <2>2, <4>1 DEF TalkInv, Heard, q
      <4> QED BY <4>2, <4>3 DEF Answered
    <3> QED BY <3>1, <3>2
  <2> QED BY <1>1, <1>6, <2>1, <2>2 DEF Heard, Answered
<1> QED BY <1>9, <1>10, <1>11, <1>12, <1>13

(***************************************************************************)
(* Every step.                                                             *)
(***************************************************************************)
LEMMA Handlers ==
  ASSUME TypeOK, [Next]_vars
  PROVE  \/ ProcessEnds \/ Calm
         \/ \E s \in Slots : write_data(s)
         \/ \E s \in Slots : \E t \in Transfer_ID : \E to \in SUBSET user_list[s] : Offers(s, t, to)
         \/ \E s \in Slots, t \in Transfer_ID : \E accept \in BOOLEAN : packet_reply(s, t, accept)
         \/ \E s \in Slots, t \in Transfer_ID : packet_complete(s, t) \/ packet_cancel(s, t)
         \/ \E s \in Slots : close_client(s)
<1> DEFINE Goal ==
         \/ ProcessEnds \/ Calm
         \/ \E s \in Slots : write_data(s)
         \/ \E s \in Slots : \E t \in Transfer_ID : \E to \in SUBSET user_list[s] : Offers(s, t, to)
         \/ \E s \in Slots, t \in Transfer_ID : \E accept \in BOOLEAN : packet_reply(s, t, accept)
         \/ \E s \in Slots, t \in Transfer_ID : packet_complete(s, t) \/ packet_cancel(s, t)
         \/ \E s \in Slots : close_client(s)
<1>1. ASSUME stop \/ start \/ UNCHANGED vars PROVE Goal
  BY <1>1 DEF stop, start, vars, table, db, client, Calm
<1>2. ASSUME NEW s \in Slots, accept_client(s) \/ complete_handshake(s) PROVE Goal
  <2>1. UNCHANGED <<transfers, transfer_clients, hosting, asked, joined>>
    BY <1>2 DEF accept_client, complete_handshake, db, client
  <2>2. Calm
    BY <1>2, <2>1 DEF Calm
  <2> QED BY <2>2
<1>3. ASSUME NEW s \in Slots, NEW create \in BOOLEAN, NEW key \in SessionNames,
             packet_intro(s, create, key)
      PROVE  Goal
  <2>1. UNCHANGED <<transfers, transfer_clients>>
    BY <1>3 DEF packet_intro, db
  <2>2. ~ProcessEnds => UNCHANGED <<hosting, asked, joined>>
    BY <1>3 DEF packet_intro, client
  <2> HIDE DEF Goal
  <2>3. CASE ProcessEnds
    BY <2>3 DEF Goal
  <2>4. CASE ~ProcessEnds
    <3>1. Joins(s, key) \/ (Sends({"DENY"}) /\ UNCHANGED table)
      BY <1>3, <2>4, IntroSends
    <3>2. Calm
      BY <2>1, <2>2, <2>4, <3>1 DEF Calm
    <3> QED BY <3>2 DEF Goal
  <2> QED BY <2>3, <2>4
<1>4. ASSUME NEW s \in Slots, NEW to \in SUBSET user_list[s], packet_transfer(s, to) PROVE Goal
  <2> HIDE DEF Goal
  <2>1. CASE ProcessEnds \/ \E t \in Transfer_ID : Offers(s, t, to)
    BY <2>1 DEF Goal
  <2>2. CASE UNCHANGED <<table, client, transfers, transfer_clients>> /\ Sends({"INVALID"})
    <3>1. UNCHANGED <<table, transfers, transfer_clients, hosting, asked, joined>>
      BY <2>2 DEF client
    <3>2. Calm
      BY <2>2, <3>1 DEF Calm
    <3> QED BY <3>2 DEF Goal
  <2> QED BY <1>4, <2>1, <2>2, TransferOffers
<1>5. ASSUME NEW s \in Slots, NEW t \in Transfer_ID, packet_data(s, t) PROVE Goal
  <2>1. UNCHANGED <<transfers, transfer_clients>>
    BY <1>5 DEF packet_data, db
  <2> HIDE DEF Goal
  <2>2. CASE ProcessEnds
    BY <2>2 DEF Goal
  <2>3. CASE ~ProcessEnds
    <3>1. Sends({"DATA"}) /\ UNCHANGED <<table, hosting, asked, joined>>
      BY <1>5, <2>3, DataSends DEF client
    <3>2. Calm
      BY <2>1, <3>1 DEF Calm
    <3> QED BY <3>2 DEF Goal
  <2> QED BY <2>2, <2>3
<1>6. ASSUME NEW s \in Slots, write_data(s) \/ close_client(s) PROVE Goal
  BY <1>6
<1>7. ASSUME NEW s \in Slots, NEW t \in Transfer_ID, NEW accept \in BOOLEAN, packet_reply(s, t, accept)
      PROVE  Goal
  BY <1>7
<1>8. ASSUME NEW s \in Slots, NEW t \in Transfer_ID, packet_complete(s, t) \/ packet_cancel(s, t)
      PROVE  Goal
  BY <1>8
<1> HIDE DEF Goal
<1>9. ASSUME NEW s \in Slots,
             \/ accept_client(s)
             \/ complete_handshake(s)
             \/ \E create \in BOOLEAN, key \in SessionNames : packet_intro(s, create, key)
             \/ \E to \in SUBSET user_list[s] : packet_transfer(s, to)
             \/ \E t \in Transfer_ID, accept \in BOOLEAN : packet_reply(s, t, accept)
             \/ \E t \in Transfer_ID :
                   packet_data(s, t) \/ packet_complete(s, t) \/ packet_cancel(s, t)
             \/ close_client(s)
             \/ write_data(s)
      PROVE  Goal
  BY <1>2, <1>3, <1>4, <1>5, <1>6, <1>7, <1>8, <1>9
<1>10. Goal
  BY <1>1, <1>9 DEF Next
<1> QED BY <1>10 DEF Goal

LEMMA HandlersTalk ==
  ASSUME TypeOK, Identities, Numbers, Strangers, Hosts, NotOwn, [Next]_vars
  PROVE  \/ ProcessEnds \/ Lessens
         \/ \E s \in Slots : write_data(s)
         \/ \E s \in Slots : \E t \in Transfer_ID : \E to \in SUBSET user_list[s] : Offers(s, t, to)
<1>1. CASE Calm
  BY <1>1, CalmLessens
<1>2. ASSUME NEW s \in Slots, NEW t \in Transfer_ID, NEW accept \in BOOLEAN,
             packet_reply(s, t, accept), ~ProcessEnds
      PROVE  Lessens
  BY <1>2, ReplyLessens
<1>3. ASSUME NEW s \in Slots, NEW t \in Transfer_ID, packet_complete(s, t) \/ packet_cancel(s, t),
             ~ProcessEnds
      PROVE  Lessens
  BY <1>3, CompleteLessens, CancelLessens
<1>4. ASSUME NEW s \in Slots, close_client(s), ~ProcessEnds PROVE Lessens
  BY <1>4, CloseLessens
<1> QED BY <1>1, <1>2, <1>3, <1>4, Handlers

LEMMA TalkStep ==
  ASSUME TypeOK, TablesInv, TalkInv, NumbersFree, [Next]_vars PROVE TalkInv'
<1>1. Numbers'
  BY HandlerTables, NumbersStep DEF TalkInv
<1>2. Identities /\ Numbers /\ Strangers /\ Hosts /\ NotOwn
  BY DEF TablesInv, SessionInv, TalkInv
<1>3. CASE ProcessEnds
  <2>1. \A s \in Slots : ~Joined(s)' /\ ~Live(s)'
    BY <1>3, AllGone
  <2>2. \A s \in Slots : hosting'[s] = {} /\ asked'[s] = {} /\ joined'[s] = {}
    BY <1>3 DEF ProcessEnds
  <2> QED BY <1>1, <2>1, <2>2 DEF TalkInv, Strangers, Hosts, NotOwn, Covers, Heard
<1>4. CASE Lessens
  BY <1>1, <1>4, StrangersLessen, HostsLessen, NotOwnLessen, CoversLessen, HeardLessen DEF TalkInv
<1>5. ASSUME NEW s \in Slots, write_data(s) PROVE TalkInv'
  BY <1>1, <1>5, ReadKeeps DEF TalkInv
<1>6. ASSUME NEW s \in Slots, NEW t \in Transfer_ID, NEW to \in SUBSET user_list[s], Offers(s, t, to)
      PROVE  TalkInv'
  BY <1>1, <1>6, OffersKeep DEF TalkInv
<1> QED BY <1>2, <1>3, <1>4, <1>5, <1>6, HandlersTalk

LEMMA TalkInvAlways == DistinctSeconds => (Spec /\ [][NumbersFree]_vars => []TalkInv)
<1> SUFFICES ASSUME DistinctSeconds PROVE Spec /\ [][NumbersFree]_vars => []TalkInv
  OBVIOUS
<1>1. Init => TalkInv
  BY TalkInit
<1>2. TypeOK /\ TablesInv /\ TalkInv /\ [Next]_vars /\ [NumbersFree]_vars => TalkInv'
  <2>1. UNCHANGED vars => NumbersFree
    BY DEF vars, db, NumbersFree
  <2> QED BY <2>1, TalkStep
<1>3. Spec => []TablesInv
  BY TablesInvAlways
<1> QED BY <1>1, <1>2, <1>3, Typing, PTL DEF Spec

\* packet_data does not ask whose transfer it is (net_packet.c:367): it need
\* not, for the transfers a client has in its list of hosted ones, and those it
\* is about to be told of, are its own rows of the table.
THEOREM HostsOwnTransfers ==
  DistinctSeconds => (Spec /\ [][NumbersFree]_vars => []HostOwnsTransfer)
<1>1. TypeOK /\ TalkInv => HostOwnsTransfer
  <2> SUFFICES ASSUME TypeOK, TalkInv, NEW s \in Slots, Joined(s), NEW t,
                      (\E h \in hosting[s] : t = h.transfer_id)
                        \/ (\E i \in DOMAIN msg_queue[s] :
                              msg_queue[s][i].type = "VALID" /\ t = msg_queue[s][i].t_id)
               PROVE  [transfer_id |-> t, creator_id |-> cid[s]] \in transfers
    BY DEF HostOwnsTransfer, Joined, Queued
  <2>1. msg_queue[s] \in Seq(Packet) /\ hosting[s] \subseteq ClientRow
    BY DEF TypeOK
  <2>2. t \in Transfer_ID
    <3>1. \A h \in hosting[s] : h.transfer_id \in Transfer_ID
      BY <2>1 DEF ClientRow
    <3>2. ASSUME NEW i \in DOMAIN msg_queue[s] PROVE msg_queue[s][i].t_id \in Transfer_ID
      <4>1. msg_queue[s][i] \in Packet
        BY <2>1
      <4> QED BY <4>1 DEF Packet
    <3> QED BY <3>1, <3>2
  <2>3. At(msg_queue[s], "VALID", t) # {} \/ Host(s, t) # {}
    BY DEF At, Host
  <2> QED BY <2>2, <2>3 DEF TalkInv, Hosts, HostsAt, Own
<1> QED BY <1>1, TalkInvAlways, Typing, PTL

(***************************************************************************)
(* The end of a transfer is announced.                                     *)
(***************************************************************************)
\* A connected client is found by its id.
LEMMA FoundById ==
  ASSUME Identities, NEW r \in Slots, Live(r) PROVE client_find_by_id(r, cid[r])
<1>1. ASSUME NEW k \in Slots, k < r PROVE ~(Live(k) /\ cid[k] = cid[r])
  <2>1. k # r
    BY <1>1 DEF Slots
  <2> QED BY <2>1 DEF Identities
<1> QED BY <1>1 DEF client_find_by_id

\* The cancel of a creator is among the packets for whoever has not denied.
LEMMA CancelIsSent ==
  ASSUME TypeOK, NEW s \in Slots, NEW T \in SUBSET Transfer_ID, NEW t \in T, NEW r \in Slots,
         NEW w \in Rows(t), w.accepted # 0, client_find_by_id(r, w.client_id)
  PROVE  LET o == SetToSeq(CreatorCancels(s, T)[r])
         IN  o \in Seq(Packet) /\ \E i \in DOMAIN o : o[i] = Cancel(t, cid[s])
<1> DEFINE C == {u \in T : \E w1 \in Rows(u) : w1.accepted # 0 /\ client_find_by_id(r, w1.client_id)}
           P == {Cancel(u, cid[s]) : u \in C}
<1>1. CreatorCancels(s, T)[r] = P
  BY DEF CreatorCancels
<1>2. C \in SUBSET Transfer_ID /\ t \in C /\ cid[s] \in Client_ID
  BY DEF TypeOK
<1>3. Cancel(t, cid[s]) \in P
  BY <1>2
<1> HIDE DEF C
<1>4. IsFiniteSet(P) /\ P \subseteq Packet
  BY <1>2, CancelsType
<1> HIDE DEF P
<1>5. SetToSeq(P) \in Seq(Packet)
  BY <1>4, SetToSeqIn, SeqSubset
<1>6. \E i \in DOMAIN SetToSeq(P) : SetToSeq(P)[i] = Cancel(t, cid[s])
  BY <1>3, <1>4, SetToSeqHas
<1> QED BY <1>1, <1>5, <1>6

\* When a host completes, nobody is undecided (set_request lets it send only
\* after the last answer).
LEMMA NobodyUndecided ==
  ASSUME TypeOK, TalkInv, NEW s \in Slots, Joined(s), NEW t \in Transfer_ID, HostActive(s, t)
  PROVE  Own(s, t) /\ \A w \in Rows(t) : w.accepted # -1
<1>1. Host(s, t) # {} /\ \A h \in Host(s, t) : h.accepted # -1
  BY DEF HostActive
<1>2. Own(s, t) /\ At(msg_queue[s], "VALID", t) = {}
  BY <1>1 DEF TalkInv, Hosts, HostsAt
<1>3. ASSUME NEW w \in Rows(t) PROVE w.accepted # -1
  <2>1. CoversAt(s, t, w.client_id)
    BY <1>2 DEF TalkInv, Covers
  <2>2. PICK h \in Host(s, t) : h.client_id = w.client_id
    BY <1>2, <2>1 DEF CoversAt
  <2>3. h \in hosting[s] /\ h.transfer_id = t /\ h.accepted # -1
    BY <1>1 DEF Host
  <2>4. Row(t, w.client_id, -1) \notin transfer_clients
    BY <2>2, <2>3 DEF TalkInv, Heard
  <2>5. w = Row(t, w.client_id, w.accepted) /\ w \in transfer_clients
    BY DEF Rows, TypeOK, ClientRow, Row
  <2> QED BY <2>4, <2>5
<1> QED BY <1>2, <1>3

Announced(v) ==
    \A w \in Rows(v.transfer_id) :
        w.accepted # 0 => \A r \in Slots : (cid[r] = w.client_id /\ Live(r)) =>
            \E p \in Added(r) : p.type \in {"CANCEL", "COMPLETE"} /\ p.t_id = v.transfer_id

LEMMA CompleteAnnounces ==
  ASSUME TypeOK, TablesInv, TalkInv, NEW s \in Slots, NEW t \in Transfer_ID,
         packet_complete(s, t), ~ProcessEnds, NEW v \in transfers \ transfers'
  PROVE  Announced(v)
<1> DEFINE done == Transfer("COMPLETE", t)
           mine == {t} \cap Hosted(s)
           out == [r \in Slots |-> IF mine = {} THEN << >> ELSE ToAccepted(t, done)[r]]
<1>1. Enqueue(out) /\ Joined(s) /\ HostActive(s, t) /\ cleanup(mine)
  BY DEF packet_complete, Joined
<1>2. Own(s, t) /\ \A w \in Rows(t) : w.accepted # -1
  BY <1>1, NobodyUndecided
<1>3. v.transfer_id = t /\ mine # {}
  BY <1>1 DEF cleanup
<1>4. done \in Packet /\ done.type = "COMPLETE" /\ done.t_id = t
  BY PktType, ZeroTypes DEF Transfer, Pkt, ServerPacket
<1> SUFFICES ASSUME NEW w \in Rows(t), w.accepted # 0, NEW r \in Slots, cid[r] = w.client_id, Live(r)
             PROVE  \E p \in Added(r) : p.type \in {"CANCEL", "COMPLETE"} /\ p.t_id = t
  BY <1>3 DEF Announced
<1>5. w.accepted = 1
  BY <1>2 DEF Rows, TypeOK, ClientRow, Accepted
<1>6. client_find_by_id(r, w.client_id)
  BY FoundById DEF TablesInv, SessionInv
<1> HIDE DEF done, mine
<1>7. ToAccepted(t, done)[r] = <<done>>
  BY <1>5, <1>6 DEF ToAccepted, One
<1>8. msg_queue'[r] = msg_queue[r] \o <<done>>
  BY <1>1, <1>3, <1>7 DEF Enqueue
<1>9. <<done>> \in Seq(Packet) /\ 1 \in DOMAIN <<done>> /\ <<done>>[1] = done
  BY <1>4
<1>10. done \in Added(r)
  <2>1. QueueType
    BY DEF TypeOK, QueueType
  <2> QED BY <1>8, <1>9, <2>1, AddedAt
<1> QED BY <1>4, <1>10

LEMMA CancelAnnounces ==
  ASSUME TypeOK, TablesInv, NEW s \in Slots, NEW t \in Transfer_ID,
         packet_cancel(s, t), ~ProcessEnds, NEW v \in transfers \ transfers'
  PROVE  Announced(v)
<1> DEFINE mine == t \in Hosted(s)
           out == IF mine THEN CreatorCancels(s, {t}) ELSE RecipientCancels(s, {t} \cap Received(s))
           outseq == [r \in Slots |-> SetToSeq(out[r])]
<1>1. /\ Enqueue(outseq)
      /\ mine => cleanup({t})
      /\ ~mine => transfers' = transfers
  BY DEF packet_cancel
<1>2. mine /\ v.transfer_id = t
  BY <1>1 DEF cleanup
<1> SUFFICES ASSUME NEW w \in Rows(t), w.accepted # 0, NEW r \in Slots, cid[r] = w.client_id, Live(r)
             PROVE  \E p \in Added(r) : p.type \in {"CANCEL", "COMPLETE"} /\ p.t_id = t
  BY <1>2 DEF Announced
<1>3. client_find_by_id(r, w.client_id)
  BY FoundById DEF TablesInv, SessionInv
<1> DEFINE o == SetToSeq(CreatorCancels(s, {t})[r])
<1>4. o \in Seq(Packet) /\ \E i \in DOMAIN o : o[i] = Cancel(t, cid[s])
  <2>1. {t} \in SUBSET Transfer_ID /\ t \in {t}
    OBVIOUS
  <2> QED BY <1>3, <2>1, CancelIsSent
<1>5. msg_queue'[r] = msg_queue[r] \o o
  BY <1>1, <1>2 DEF Enqueue
<1> HIDE DEF o
<1>6. Cancel(t, cid[s]) \in Added(r)
  <2>1. QueueType
    BY DEF TypeOK, QueueType
  <2> QED BY <1>4, <1>5, <2>1, AddedAt
<1> QED BY <1>6 DEF Cancel, Pkt

LEMMA CloseAnnounces ==
  ASSUME TypeOK, TablesInv, NEW s \in Slots,
         close_client(s), ~ProcessEnds, NEW v \in transfers \ transfers'
  PROVE  Announced(v)
<1> DEFINE complete == cstate[s] = "C_COMPLETE"
           gone == Hosted(s)
           rest == Received(s) \ gone
           cancels == [r \in Slots |->
             IF complete THEN SetToSeq(CreatorCancels(s, gone)[r]) \o SetToSeq(RecipientCancels(s, rest)[r])
                         ELSE << >>]
           del(r) == One(complete /\ SameSession(s, r, csession[s]), Users("DEL_USERS", {cid[s]}))
           out == [r \in Slots |-> cancels[r] \o del(r)]
           t == v.transfer_id
<1>1. /\ Enqueue(out)
      /\ complete \/ transfers' = transfers
      /\ complete => transfers' = {w \in transfers : w.transfer_id \notin gone}
  BY DEF close_client
<1>2. complete /\ t \in gone
  BY <1>1
<1>3. gone \in SUBSET Transfer_ID /\ rest \in SUBSET Transfer_ID /\ cid[s] \in Client_ID
  BY HostedType DEF TypeOK
<1> HIDE DEF gone, rest, t
<1> SUFFICES ASSUME NEW w \in Rows(t), w.accepted # 0, NEW r \in Slots, cid[r] = w.client_id, Live(r)
             PROVE  \E p \in Added(r) : p.type \in {"CANCEL", "COMPLETE"} /\ p.t_id = t
  BY DEF Announced, t
<1>4. client_find_by_id(r, w.client_id)
  BY FoundById DEF TablesInv, SessionInv
<1> DEFINE a == SetToSeq(CreatorCancels(s, gone)[r])
           b == SetToSeq(RecipientCancels(s, rest)[r])
<1>5. a \in Seq(Packet) /\ \E i \in DOMAIN a : a[i] = Cancel(t, cid[s])
  BY <1>2, <1>3, <1>4, CancelIsSent
<1>6. b \in Seq(Packet)
  <2>1. b \in Seq(Of({"CANCEL"})) /\ Of({"CANCEL"}) \subseteq Packet
    BY <1>3, CreatorCancelsIn DEF Of
  <2> HIDE DEF b
  <2> QED BY <2>1, SeqSubset
<1>7. del(r) \in Seq(Packet)
  <2>1. Users("DEL_USERS", {cid[s]}) \in Packet
    BY <1>3, PktType, ZeroTypes DEF Users, ServerPacket
  <2>2. (complete /\ SameSession(s, r, csession[s])) \in BOOLEAN
    OBVIOUS
  <2> HIDE DEF complete
  <2> QED BY <2>1, <2>2, OneIn
<1>8. msg_queue'[r] = msg_queue[r] \o ((a \o b) \o del(r))
  BY <1>1, <1>2 DEF Enqueue
<1> DEFINE d == del(r)
<1> HIDE DEF a, b, d, del
<1>9. PICK i \in DOMAIN a : a[i] = Cancel(t, cid[s])
  BY <1>5
<1>10. /\ d \in Seq(Packet)
       /\ a \o b \in Seq(Packet) /\ i \in DOMAIN (a \o b) /\ (a \o b)[i] = Cancel(t, cid[s])
  <2>1. d \in Seq(Packet)
    BY <1>7 DEF d
  <2>2. \A j \in DOMAIN a : (a \o b)[j] = a[j]
    BY <1>5, <1>6, ConcatAt
  <2>3. a \o b \in Seq(Packet) /\ i \in DOMAIN (a \o b)
    BY <1>5, <1>6
  <2> QED BY <1>9, <2>1, <2>2, <2>3
<1> DEFINE ab == a \o b
<1> HIDE DEF ab
<1>11. ab \o d \in Seq(Packet) /\ i \in DOMAIN (ab \o d) /\ (ab \o d)[i] = Cancel(t, cid[s])
  <2>1. /\ ab \in Seq(Packet) /\ d \in Seq(Packet)
        /\ i \in DOMAIN ab /\ ab[i] = Cancel(t, cid[s])
    BY <1>10 DEF ab
  <2> HIDE DEF ab
  <2>2. \A j \in DOMAIN ab : (ab \o d)[j] = ab[j]
    BY ONLY <2>1, ConcatAt
  <2> QED BY <2>1, <2>2
<1>12. Cancel(t, cid[s]) \in Added(r)
  <2> HIDE DEF ab
  <2>1. QueueType
    BY DEF TypeOK, QueueType
  <2>2. msg_queue'[r] = msg_queue[r] \o (ab \o d)
    BY <1>8 DEF ab, d
  <2>3. ab \o d \in Seq(Packet)
    BY <1>11
  <2>4. \A j \in DOMAIN (ab \o d) : (ab \o d)[j] \in Added(r)
    BY <2>1, <2>2, <2>3, AddedAt
  <2> QED BY <1>11, <2>4
<1> QED BY <1>12 DEF Cancel, Pkt

LEMMA EndStep ==
  ASSUME TypeOK, TablesInv, TalkInv, [Next]_vars, running', NEW v \in transfers \ transfers'
  PROVE  Announced(v)
<1>1. ~ProcessEnds
  BY DEF ProcessEnds
<1>2. CASE start \/ UNCHANGED vars
  BY <1>2 DEF start, vars, db
<1>3. CASE stop
  BY <1>1, <1>3 DEF stop
<1>4. ASSUME NEW s \in Slots, accept_client(s) \/ complete_handshake(s) \/ write_data(s)
      PROVE  Announced(v)
  BY <1>4 DEF accept_client, complete_handshake, write_data, db
<1>5. ASSUME NEW s \in Slots, NEW create \in BOOLEAN, NEW key \in SessionNames,
             packet_intro(s, create, key)
      PROVE  Announced(v)
  BY <1>5 DEF packet_intro, db
<1>6. ASSUME NEW s \in Slots, NEW to \in SUBSET user_list[s], packet_transfer(s, to)
      PROVE  Announced(v)
  <2>1. transfers \subseteq transfers'
    BY <1>6 DEF packet_transfer, db
  <2> QED BY <2>1
<1>7. ASSUME NEW s \in Slots, NEW t \in Transfer_ID, NEW accept \in BOOLEAN,
             packet_reply(s, t, accept)
      PROVE  Announced(v)
  BY <1>7 DEF packet_reply
<1>8. ASSUME NEW s \in Slots, NEW t \in Transfer_ID, packet_data(s, t) PROVE Announced(v)
  BY <1>8 DEF packet_data, db
<1>9. ASSUME NEW s \in Slots, NEW t \in Transfer_ID, packet_complete(s, t) \/ packet_cancel(s, t)
      PROVE  Announced(v)
  BY <1>1, <1>9, CompleteAnnounces, CancelAnnounces
<1>10. ASSUME NEW s \in Slots, close_client(s) PROVE Announced(v)
  BY <1>1, <1>10, CloseAnnounces
<1> QED BY <1>2, <1>3, <1>4, <1>5, <1>6, <1>7, <1>8, <1>9, <1>10 DEF Next

\* packet_complete tells only those that accepted (net_packet.c:523), and
\* cancel_as_creator everyone that has not denied: nobody who may still wait is
\* left out, since a host does not complete before the last answer.
THEOREM EndsAreAnnounced ==
  DistinctSeconds => (Spec /\ [][NumbersFree]_vars => EndIsAnnounced)
<1>1. TypeOK /\ TablesInv /\ TalkInv /\ [Next]_vars =>
        [running' => \A v \in transfers \ transfers' : \A w \in Rows(v.transfer_id) :
          w.accepted # 0 => \A r \in Slots : (cid[r] = w.client_id /\ Live(r)) =>
              \E p \in Added(r) :
                  p.type \in {"CANCEL", "COMPLETE"} /\ p.t_id = v.transfer_id]_vars
  BY EndStep DEF Announced
<1>2. DistinctSeconds => (Spec => []TablesInv)
  BY TablesInvAlways
<1> QED BY <1>1, <1>2, TalkInvAlways, Typing, PTL DEF Spec, EndIsAnnounced

(***************************************************************************)
(* A session does not hear of another.                                     *)
(***************************************************************************)
\* Who is asked to receive a transfer is in the session of its creator.
Invited ==
    \A s, r \in Slots : \A t \in Transfer_ID :
        (Joined(s) /\ Joined(r) /\ Asks(s, t) /\ Own(r, t)) => csession[r] = csession[s]

LEMMA InvitedInit == Init => Invited
  BY DEF Init, Invited, Joined

\* A client stays in its session.
LEMMA SessionKept ==
  ASSUME TypeOK, [Next]_vars, NEW s \in Slots, Joined(s), Joined(s)'
  PROVE  csession'[s] = csession[s] /\ cid'[s] = cid[s]
<1>1. CASE ProcessEnds
  BY <1>1, AllGone
<1>2. CASE start \/ Quiet
  BY <1>2 DEF start, Quiet, table
<1>3. ASSUME NEW k \in Slots, accept_client(k) PROVE csession'[s] = csession[s] /\ cid'[s] = cid[s]
  BY <1>3 DEF accept_client, Joined, Live, TypeOK
<1>4. ASSUME NEW k \in Slots, NEW key \in SessionNames, Joins(k, key)
      PROVE  csession'[s] = csession[s] /\ cid'[s] = cid[s]
  BY <1>4 DEF Joins, Joined, TypeOK
<1>5. ASSUME NEW k \in Slots, complete_handshake(k) \/ Leaves(k) \/ Reads(k)
      PROVE  csession'[s] = csession[s] /\ cid'[s] = cid[s]
  BY <1>5 DEF complete_handshake, Leaves, Reads, table
<1> QED BY <1>1, <1>2, <1>3, <1>4, <1>5, HandlersRoster DEF RosterStep

LEMMA InvitedLessen ==
  ASSUME TypeOK, TablesInv, Strangers, Invited, Lessens, [Next]_vars PROVE Invited'
<1> SUFFICES ASSUME NEW s \in Slots, NEW r \in Slots, NEW t \in Transfer_ID,
                    Joined(s)', Joined(r)', Asks(s, t)', Own(r, t)'
             PROVE  csession'[r] = csession[s]'
  BY DEF Invited
<1>1. LessensAt(s) /\ LessensAt(r)
  BY DEF Lessens
<1>2. /\ (~Joined(s) => msg_queue[s] = << >>) /\ QueueLessens(s) /\ asked'[s] \subseteq asked[s]
      /\ Live(r) /\ cid'[r] = cid[r]
  BY <1>1 DEF LessensAt
<1>3. At(msg_queue[s], "REQUEST", t)' = At(msg_queue[s], "REQUEST", t)
  BY <1>2, QuitsAt
<1>4. Asks(s, t) <=> t \in asked[s] \/ At(msg_queue[s], "REQUEST", t) # {}
  BY DEF Asks, At
<1>5. Asks(s, t)' <=> t \in asked'[s] \/ At(msg_queue[s], "REQUEST", t)' # {}
  BY DEF Asks, At
<1>6. Asks(s, t)
  BY <1>2, <1>3, <1>4, <1>5
<1>7. Joined(s)
  BY <1>2, <1>6 DEF Strangers, Asks
<1>8. Own(r, t)
  BY <1>2 DEF Own, Lessens
<1>9. Joined(r)
  BY <1>2, <1>8, OwnerJoined
<1> QED BY <1>6, <1>7, <1>8, <1>9, SessionKept DEF Invited

LEMMA InvitedRead ==
  ASSUME TypeOK, TablesInv, Invited, NEW k \in Slots, write_data(k) PROVE Invited'
<1> SUFFICES ASSUME NEW s \in Slots, NEW r \in Slots, NEW t \in Transfer_ID,
                    Joined(s)', Joined(r)', Asks(s, t)', Own(r, t)'
             PROVE  csession'[r] = csession[s]'
  BY DEF Invited
<1>1. UNCHANGED <<cstate, cid, csession, transfers>>
  BY DEF write_data, table, db
<1>2. Joined(s) /\ Joined(r) /\ Own(r, t) /\ Live(s)'
  BY <1>1 DEF Joined, Own, Live
<1>3. Asks(s, t)
  BY <1>2, WriteAsks DEF AsksAt, TablesInv
<1> QED BY <1>1, <1>2, <1>3 DEF Invited

LEMMA InvitedOffers ==
  ASSUME TypeOK, TablesInv, Invited, NumbersFree,
         NEW k \in Slots, NEW n \in Transfer_ID, NEW to \in SUBSET user_list[k], Offers(k, n, to)
  PROVE  Invited'
<1> SUFFICES ASSUME NEW s \in Slots, NEW r \in Slots, NEW t \in Transfer_ID,
                    Joined(s)', Joined(r)', Asks(s, t)', Own(r, t)'
             PROVE  csession'[r] = csession[s]'
  BY DEF Invited
<1>1. /\ UNCHANGED <<cstate, cid, csession, asked>>
      /\ transfers' = transfers \cup {[transfer_id |-> n, creator_id |-> cid[k]]}
  BY DEF Offers, Creates, table, client
<1>2. Joined(s) /\ Joined(r) /\ Live(s) /\ Live(r)
  BY <1>1 DEF Joined, Live
<1>3. /\ \A v \in transfers : v.transfer_id # n
      /\ ~Uses(s, n) /\ Joined(k)
      /\ Found(to, s) => csession[s] = csession[k]
  BY <1>2, OffersFind
<1>4. At(msg_queue'[s], "REQUEST", t) = At(msg_queue[s], "REQUEST", t) \cup
         (IF t = n /\ Found(to, s) THEN {Len(msg_queue[s]) + 1} ELSE {})
  BY OffersAt
<1>5. Asks(s, t) <=> t \in asked[s] \/ At(msg_queue[s], "REQUEST", t) # {}
  BY DEF Asks, At
<1>6. Asks(s, t)' <=> t \in asked'[s] \/ At(msg_queue'[s], "REQUEST", t) # {}
  BY DEF Asks, At
<1>7. CASE t # n
  <2>1. Own(r, t)
    BY <1>1, <1>7 DEF Own
  <2>2. Asks(s, t)
    BY <1>1, <1>4, <1>5, <1>6, <1>7
  <2> QED BY <1>1, <1>2, <2>1, <2>2 DEF Invited
<1>8. CASE t = n
  <2>1. cid[r] = cid[k]
    BY <1>1, <1>3, <1>8 DEF Own
  <2>2. r = k
    BY <1>2, <1>3, <2>1 DEF TablesInv, SessionInv, Identities, Joined, Live
  <2>3. t \notin asked[s] /\ At(msg_queue[s], "REQUEST", t) = {}
    BY <1>3, <1>8, Unused
  <2>4. Found(to, s)
    BY <1>1, <1>4, <1>6, <1>8, <2>3
  <2> QED BY <1>1, <1>3, <2>2, <2>4
<1> QED BY <1>7, <1>8

LEMMA InvitedStep ==
  ASSUME TypeOK, TablesInv, TalkInv, Invited, NumbersFree, [Next]_vars PROVE Invited'
<1>1. Identities /\ Numbers /\ Strangers /\ Hosts /\ NotOwn
  BY DEF TablesInv, SessionInv, TalkInv
<1>2. CASE ProcessEnds
  BY <1>2, AllGone DEF Invited
<1>3. CASE Lessens
  BY <1>1, <1>3, InvitedLessen
<1>4. ASSUME NEW s \in Slots, write_data(s) PROVE Invited'
  BY <1>4, InvitedRead
<1>5. ASSUME NEW s \in Slots, NEW t \in Transfer_ID, NEW to \in SUBSET user_list[s], Offers(s, t, to)
      PROVE  Invited'
  BY <1>5, InvitedOffers
<1> QED BY <1>1, <1>2, <1>3, <1>4, <1>5, HandlersTalk

\* Those a packet to r speaks of are, or were when they left, in its session.
Proper(p, r) ==
    \A x \in p.ids \cup ({p.from} \ {0}) :
        \E k \in Slots : cid'[k] = x /\ csession'[k] = csession'[r]

ProperTo(r, o) == o \in Seq(Packet) /\ \A i \in DOMAIN o : Proper(o[i], r)

Isolated == \A r \in Slots : \A p \in Added(r) : Proper(p, r)

LEMMA ProperAdded ==
  ASSUME TypeOK, NEW out, Enqueue(out), \A r \in Slots : ProperTo(r, out[r])
  PROVE  Isolated
<1> SUFFICES ASSUME NEW r \in Slots, NEW p \in Added(r) PROVE Proper(p, r)
  BY DEF Isolated
<1> DEFINE o == out[r]
<1>1. o \in Seq(Packet) /\ \A i \in DOMAIN o : Proper(o[i], r)
  BY DEF ProperTo
<1>2. msg_queue'[r] = msg_queue[r] \o o /\ QueueType
  BY DEF Enqueue, TypeOK, QueueType
<1> HIDE DEF o
<1>3. PICK i \in DOMAIN o : o[i] = p
  BY <1>1, <1>2, AddedAt
<1> QED BY <1>1, <1>3

LEMMA ProperOne ==
  ASSUME NEW r \in Slots, NEW p \in Packet, NEW b, b => Proper(p, r)
  PROVE  ProperTo(r, One(b, p))
<1>1. CASE b
  <2>1. <<p>> \in Seq(Packet) /\ DOMAIN <<p>> = {1} /\ <<p>>[1] = p
    OBVIOUS
  <2>2. One(b, p) = <<p>>
    BY <1>1 DEF One
  <2> QED BY <1>1, <2>1, <2>2 DEF ProperTo
<1>2. CASE ~b
  <2>1. One(b, p) = << >>
    BY <1>2 DEF One
  <2> QED BY <2>1 DEF ProperTo
<1> QED BY <1>1, <1>2

LEMMA ProperConcat ==
  ASSUME NEW r \in Slots, NEW a, NEW b, ProperTo(r, a), ProperTo(r, b)
  PROVE  ProperTo(r, a \o b)
<1>1. a \in Seq(Packet) /\ b \in Seq(Packet)
  BY DEF ProperTo
<1>2. a \o b \in Seq(Packet)
  BY <1>1, ConcatAt
<1>3. ASSUME NEW i \in DOMAIN (a \o b) PROVE Proper((a \o b)[i], r)
  <2>1. CASE i \in DOMAIN a
    <3>1. (a \o b)[i] = a[i] /\ Proper(a[i], r)
      BY <1>1, <2>1, ConcatAt DEF ProperTo
    <3> QED BY <3>1
  <2>2. CASE i - Len(a) \in DOMAIN b
    <3>1. i = Len(a) + (i - Len(a))
      BY <1>1, <1>3
    <3>2. (a \o b)[i] = b[i - Len(a)] /\ Proper(b[i - Len(a)], r)
      BY <1>1, <2>2, <3>1, ConcatAt DEF ProperTo
    <3> QED BY <3>2
  <2> QED BY <1>1, <1>3, <2>1, <2>2, ConcatAt
<1> QED BY <1>2, <1>3 DEF ProperTo

\* A packet that speaks of nobody.
LEMMA ProperMute ==
  ASSUME NEW p, p.ids = {}, p.from = 0 PROVE \A r : Proper(p, r)
  BY DEF Proper

\* The cancels of the client of s, if those that get one are in its session.
LEMMA ProperCancels ==
  ASSUME TypeOK, NEW s \in Slots, NEW r \in Slots, NEW T \in SUBSET Transfer_ID,
         cid'[s] = cid[s], T # {} => csession'[s] = csession'[r]
  PROVE  ProperTo(r, SetToSeq({Cancel(u, cid[s]) : u \in T}))
<1> DEFINE P == {Cancel(u, cid[s]) : u \in T}
<1>1. IsFiniteSet(P) /\ P \subseteq Packet
  BY CancelsType DEF TypeOK
<1>2. \A p \in P : Proper(p, r)
  <2> SUFFICES ASSUME NEW u \in T PROVE Proper(Cancel(u, cid[s]), r)
    OBVIOUS
  <2>1. Cancel(u, cid[s]).ids = {} /\ Cancel(u, cid[s]).from = cid[s]
    BY DEF Cancel, Pkt
  <2> QED BY <2>1 DEF Proper
<1> HIDE DEF P
<1>3. SetToSeq(P) \in Seq(Packet)
  BY <1>1, SetToSeqIn, SeqSubset
<1>4. \A i \in DOMAIN SetToSeq(P) : SetToSeq(P)[i] \in P
  BY <1>1, SetToSeqHas
<1>5. ProperTo(r, SetToSeq(P))
  BY <1>2, <1>3, <1>4 DEF ProperTo
<1> QED BY <1>5 DEF P

\* The creator of a transfer and a participant, both connected, are in one
\* session.
LEMMA OneSession ==
  ASSUME TypeOK, TablesInv, NEW v \in transfers, NEW w \in Rows(v.transfer_id),
         NEW s \in Slots, NEW r \in Slots, Live(s), Live(r),
         cid[s] = v.creator_id, cid[r] = w.client_id
  PROVE  csession[s] = csession[r]
<1>1. running /\ v.creator_id > boot_id
  BY DEF TablesInv, SessionInv, Identities, TypeOK, Client_ID
<1>2. PICK key \in SessionNames : Online(v.creator_id, key) /\ Online(w.client_id, key)
  BY <1>1 DEF TablesInv, TransfersOnline
<1>3. PICK k \in Slots : Live(k) /\ cid[k] = cid[s] /\ csession[k] = key
  BY <1>2 DEF Online, Live
<1>4. PICK l \in Slots : Live(l) /\ cid[l] = cid[r] /\ csession[l] = key
  BY <1>2 DEF Online, Live
<1> QED BY <1>3, <1>4 DEF TablesInv, SessionInv, Identities

LEMMA CancelsProper ==
  ASSUME TypeOK, TablesInv, NEW s \in Slots, Joined(s), UNCHANGED <<cid, csession>>,
         NEW T \in SUBSET Transfer_ID, T \subseteq Hosted(s),
         NEW R \in SUBSET Transfer_ID, R \subseteq Received(s), NEW r \in Slots
  PROVE  /\ ProperTo(r, SetToSeq(CreatorCancels(s, T)[r]))
         /\ ProperTo(r, SetToSeq(RecipientCancels(s, R)[r]))
<1> DEFINE C == {u \in T : \E w \in Rows(u) : w.accepted # 0 /\ client_find_by_id(r, w.client_id)}
           D == {u \in R : \E x \in CreatorOf(u) : client_find_by_id(r, x)}
<1>1. /\ CreatorCancels(s, T)[r] = {Cancel(t, cid[s]) : t \in C}
      /\ RecipientCancels(s, R)[r] = {Cancel(t, cid[s]) : t \in D}
  BY DEF CreatorCancels, RecipientCancels
<1>2. Live(s)
  BY DEF Joined, Live
<1>3. ASSUME NEW u \in C PROVE csession[s] = csession[r]
  <2>1. PICK w \in Rows(u) : client_find_by_id(r, w.client_id)
    BY <1>3
  <2>2. PICK v \in transfers : v.creator_id = cid[s] /\ v.transfer_id = u
    BY <1>3 DEF Hosted
  <2>3. Live(r) /\ cid[r] = w.client_id
    BY <2>1 DEF client_find_by_id
  <2> QED BY <1>2, <2>1, <2>2, <2>3, OneSession
<1>4. ASSUME NEW u \in D PROVE csession[s] = csession[r]
  <2>1. PICK x \in CreatorOf(u) : client_find_by_id(r, x)
    BY <1>4
  <2>2. PICK v \in transfers : v.creator_id = x /\ v.transfer_id = u
    BY <2>1 DEF CreatorOf
  <2>3. PICK w \in transfer_clients : w.client_id = cid[s] /\ w.transfer_id = u
    BY <1>4 DEF Received
  <2>4. w \in Rows(v.transfer_id)
    BY <2>2, <2>3 DEF Rows
  <2>5. Live(r) /\ cid[r] = v.creator_id
    BY <2>1, <2>2 DEF client_find_by_id
  <2> QED BY <1>2, <2>3, <2>4, <2>5, OneSession
<1>5. C \in SUBSET Transfer_ID /\ D \in SUBSET Transfer_ID
  OBVIOUS
<1> HIDE DEF C, D
<1> QED BY <1>1, <1>3, <1>4, <1>5, ProperCancels

\* A queue that does not grow.
LEMMA NothingAdded ==
  ASSUME TypeOK, NEW r \in Slots,
         msg_queue'[r] = msg_queue[r] \/ msg_queue'[r] = << >>
         \/ (msg_queue[r] # << >> /\ msg_queue'[r] = Tail(msg_queue[r]))
  PROVE  Added(r) = {}
<1> DEFINE q == msg_queue[r]
           n == msg_queue'[r]
<1>1. q \in Seq(Packet) /\ Len(q) \in Nat
  BY DEF TypeOK
<1>2. Added(r) = {n[i] : i \in Len(q) + 1 .. Len(n)}
  BY DEF Added
<1> HIDE DEF q, n
<1>3. n = q \/ n = << >> \/ (q # << >> /\ n = Tail(q))
  BY DEF q, n
<1>4. Len(n) \in Nat /\ Len(n) <= Len(q)
  <2>1. CASE n = q \/ n = << >>
    BY <1>1, <2>1
  <2>2. CASE q # << >> /\ n = Tail(q)
    <3>1. Len(q) # 0 /\ Len(Tail(q)) = Len(q) - 1
      BY <1>1, <2>2
    <3> QED BY <1>1, <2>2, <3>1
  <2> QED BY <1>3, <2>1, <2>2
<1>5. Len(q) + 1 .. Len(n) = {}
  BY <1>1, <1>4
<1> QED BY <1>2, <1>5

\* Who joins is told of the clients of its session, and they of it.
LEMMA JoinIsolated ==
  ASSUME TypeOK, NEW s \in Slots, NEW key \in SessionNames, Joins(s, key) PROVE Isolated
<1> DEFINE mates == Mates(s, key)
           ok == Response("OK")
           all == Users("NEW_USERS", Ids(mates))
           me == Users("NEW_USERS", {cid[s]})
           out == JoinPackets(s, key)
<1>1. Enqueue(out) /\ cid' = cid /\ csession' = [csession EXCEPT ![s] = key]
  BY DEF Joins
<1>2. \A r \in Slots : out[r] = IF r = s THEN <<ok>> \o One(mates # {}, all) ELSE One(r \in mates, me)
  BY DEF JoinPackets
<1>3. ok \in Packet /\ all \in Packet /\ me \in Packet
  <2>1. Ids(mates) \in SUBSET Client_ID /\ {cid[s]} \in SUBSET Client_ID
    BY DEF Ids, Mates, TypeOK
  <2> QED BY <2>1, PktType, ZeroTypes DEF Response, Users, ServerPacket
<1>4. csession'[s] = key /\ \A r \in mates : r \in Slots /\ r # s /\ csession'[r] = key
  BY <1>1 DEF Mates, SameSession, TypeOK
<1>5. Proper(ok, s)
  BY ProperMute DEF Response, Pkt
<1>6. Proper(all, s)
  <2>1. all.ids = Ids(mates) /\ all.from = 0
    BY DEF Users, Pkt
  <2> HIDE DEF all, mates
  <2> QED BY <1>1, <1>4, <2>1 DEF Proper, Ids
<1>7. ASSUME NEW r \in mates PROVE Proper(me, r)
  <2>1. me.ids = {cid[s]} /\ me.from = 0
    BY DEF Users, Pkt
  <2> HIDE DEF me, mates
  <2> QED BY <1>1, <1>4, <1>7, <2>1 DEF Proper
<1> HIDE DEF mates, ok, all, me, out
<1>8. ASSUME NEW r \in Slots PROVE ProperTo(r, out[r])
  <2>1. CASE r = s
    <3>1. ProperTo(s, One(TRUE, ok)) /\ ProperTo(s, One(mates # {}, all))
      BY <1>3, <1>5, <1>6, ProperOne
    <3>2. One(TRUE, ok) = <<ok>>
      BY DEF One
    <3> QED BY <1>2, <2>1, <3>1, <3>2, ProperConcat
  <2>2. CASE r # s
    <3>1. ProperTo(r, One(r \in mates, me))
      BY <1>3, <1>7, ProperOne
    <3> QED BY <1>2, <2>2, <3>1
  <2> QED BY <2>1, <2>2
<1> QED BY <1>1, <1>8, ProperAdded

LEMMA IntroIsolated ==
  ASSUME TypeOK, NEW s \in Slots, NEW create \in BOOLEAN, NEW key \in SessionNames,
         packet_intro(s, create, key), ~ProcessEnds
  PROVE  Isolated
<1> DEFINE no == Response("DENY")
           deny == [r \in Slots |-> One(r = s, no)]
<1>1. Joins(s, key) \/ Enqueue(deny)
  BY DEF packet_intro, Joins, client, env
<1>2. ASSUME Enqueue(deny) PROVE Isolated
  <2>1. no \in Packet /\ \A r : Proper(no, r)
    BY PktType, ZeroTypes, ProperMute DEF Response, Pkt, ServerPacket
  <2> HIDE DEF no
  <2>2. \A r \in Slots : ProperTo(r, deny[r])
    BY <2>1, ProperOne
  <2> QED BY <1>2, <2>2, ProperAdded
<1> QED BY <1>1, <1>2, JoinIsolated

LEMMA TransferIsolated ==
  ASSUME TypeOK, TablesInv, NumbersFree, NEW s \in Slots, NEW to \in SUBSET user_list[s],
         packet_transfer(s, to), ~ProcessEnds
  PROVE  Isolated
<1> DEFINE no == Response("INVALID")
           invalid == [r \in Slots |-> One(r = s, no)]
<1>1. Enqueue(invalid) \/ \E t \in Transfer_ID : Offers(s, t, to)
  <2>1. \/ Enqueue(invalid)
        \/ UNCHANGED <<table, client>> /\ Joined(s) /\ \E t \in Transfer_ID :
             /\ check_recipients(s, to) /\ NewRowid(t)
             /\ transfers' = transfers \cup {[transfer_id |-> t, creator_id |-> cid[s]]}
             /\ transfer_clients' = transfer_clients \cup
                   [transfer_id : {t}, client_id : to, accepted : {-1}]
             /\ Enqueue([r \in Slots |->
                  One(r = s, Pkt("VALID", t, 0, to, FALSE)) \o
                  One(\E x \in to : client_find_by_id(r, x), Pkt("REQUEST", t, cid[s], to, FALSE))])
    BY DEF packet_transfer, Joined
  <2> HIDE DEF invalid
  <2> QED BY <2>1 DEF Offers, Creates, Enqueue, Offer, Request, Found
<1>2. ASSUME Enqueue(invalid) PROVE Isolated
  <2>1. no \in Packet /\ \A r : Proper(no, r)
    BY PktType, ZeroTypes, ProperMute DEF Response, Pkt, ServerPacket
  <2> HIDE DEF no
  <2>2. \A r \in Slots : ProperTo(r, invalid[r])
    BY <2>1, ProperOne
  <2> QED BY <1>2, <2>2, ProperAdded
<1>3. ASSUME NEW t \in Transfer_ID, Offers(s, t, to) PROVE Isolated
  <2> DEFINE offer == Offer(t, to)
             request == Request(s, t, to)
             out == [r \in Slots |-> One(r = s, offer) \o One(Found(to, r), request)]
  <2>1. Enqueue(out) /\ UNCHANGED <<cid, csession>>
    BY <1>3 DEF Offers, Enqueue, table
  <2>2. offer \in Packet /\ request \in Packet
    BY <1>3, OffersQueue
  <2>3. \A x \in to : \E k \in Slots : cid[k] = x /\ csession[k] = csession[s]
    BY <1>3 DEF Offers, Creates, check_recipients, client_find_by_id
  <2>4. offer.ids = to /\ offer.from = 0 /\ request.ids = to /\ request.from = cid[s]
    BY DEF Offer, Request, Pkt
  <2>5. \A r \in Slots : Found(to, r) => csession[r] = csession[s]
    BY <1>3, OffersFind
  <2> HIDE DEF offer, request
  <2>6. Proper(offer, s)
    BY <2>1, <2>3, <2>4 DEF Proper
  <2>7. \A r \in Slots : Found(to, r) => Proper(request, r)
    BY <2>1, <2>3, <2>4, <2>5 DEF Proper
  <2>8. ASSUME NEW r \in Slots PROVE ProperTo(r, out[r])
    <3>1. ProperTo(r, One(r = s, offer))
      BY <2>2, <2>6, ProperOne
    <3>2. ProperTo(r, One(Found(to, r), request))
      <4>1. Found(to, r) \in BOOLEAN
        BY DEF Found
      <4> QED BY <2>2, <2>7, <4>1, ProperOne
    <3> QED BY <3>1, <3>2, ProperConcat
  <2> HIDE DEF out
  <2> QED BY <2>1, <2>8, ProperAdded
<1> QED BY <1>1, <1>2, <1>3

LEMMA ReplyIsolated ==
  ASSUME TypeOK, TablesInv, Invited, NEW s \in Slots, NEW t \in Transfer_ID, NEW accept \in BOOLEAN,
         packet_reply(s, t, accept), ~ProcessEnds
  PROVE  Isolated
<1> DEFINE reply == Pkt("REPLY", t, cid[s], {}, accept)
           told(r) == \E x \in CreatorOf(t) : client_find_by_id(r, x)
           out == [r \in Slots |-> One(told(r), reply)]
<1>1. Enqueue(out) /\ UNCHANGED <<cid, csession>> /\ Joined(s) /\ t \in asked[s]
  BY DEF packet_reply, table, Joined
<1>2. reply \in Packet /\ reply.ids = {} /\ reply.from = cid[s]
  BY PktType DEF TypeOK, ServerPacket, Pkt
<1>3. ASSUME NEW r \in Slots, told(r) PROVE csession[r] = csession[s]
  <2>1. PICK x \in CreatorOf(t) : client_find_by_id(r, x)
    BY <1>3
  <2>2. Live(r) /\ cid[r] = x
    BY <2>1 DEF client_find_by_id
  <2>3. PICK v \in transfers : v.transfer_id = t /\ v.creator_id = x
    BY DEF CreatorOf
  <2>4. v = [transfer_id |-> t, creator_id |-> cid[r]]
    BY <2>2, <2>3 DEF TypeOK, TransferRow
  <2>5. Own(r, t)
    BY <2>4 DEF Own
  <2>6. Joined(r)
    BY <2>2, <2>5, OwnerJoined
  <2> QED BY <1>1, <2>5, <2>6 DEF Invited, Asks
<1> HIDE DEF reply, told
<1>4. ASSUME NEW r \in Slots, told(r) PROVE Proper(reply, r)
  BY <1>1, <1>2, <1>3, <1>4 DEF Proper
<1>5. \A r \in Slots : ProperTo(r, out[r])
  <2>1. \A r \in Slots : told(r) \in BOOLEAN
    BY DEF told
  <2> QED BY <1>2, <1>4, <2>1, ProperOne
<1> HIDE DEF out
<1> QED BY <1>1, <1>5, ProperAdded

\* DATA and COMPLETE speak of nobody.
LEMMA DataIsolated ==
  ASSUME TypeOK, NEW t \in Transfer_ID, NEW type \in {"DATA", "COMPLETE"}, NEW r \in Slots
  PROVE  ProperTo(r, ToAccepted(t, Transfer(type, t))[r])
<1> DEFINE p == Transfer(type, t)
           told == \E w \in Rows(t) : w.accepted = 1 /\ client_find_by_id(r, w.client_id)
<1>1. p \in Packet /\ p.ids = {} /\ p.from = 0
  BY PktType, ZeroTypes DEF Transfer, Pkt, ServerPacket
<1>2. told \in BOOLEAN
  OBVIOUS
<1>3. ToAccepted(t, p)[r] = One(told, p)
  BY DEF ToAccepted
<1> HIDE DEF p, told
<1>4. ProperTo(r, One(told, p))
  BY <1>1, <1>2, ProperMute, ProperOne
<1> QED BY <1>3, <1>4 DEF p

LEMMA StreamIsolated ==
  ASSUME TypeOK, NEW s \in Slots, NEW t \in Transfer_ID,
         packet_data(s, t) \/ packet_complete(s, t), ~ProcessEnds
  PROVE  Isolated
<1> DEFINE data == ToAccepted(t, Transfer("DATA", t))
           mine == {t} \cap Hosted(s)
           done == [r \in Slots |-> IF mine = {} THEN << >> ELSE ToAccepted(t, Transfer("COMPLETE", t))[r]]
<1>1. Enqueue(data) \/ Enqueue(done)
  BY DEF packet_data, packet_complete
<1>2. \A r \in Slots : ProperTo(r, data[r])
  BY DataIsolated
<1>3. \A r \in Slots : ProperTo(r, done[r])
  <2>1. \A r : ProperTo(r, << >>)
    BY DEF ProperTo
  <2>2. \A r \in Slots : ProperTo(r, ToAccepted(t, Transfer("COMPLETE", t))[r])
    BY DataIsolated
  <2> HIDE DEF mine
  <2> QED BY <2>1, <2>2
<1> HIDE DEF data, done
<1> QED BY <1>1, <1>2, <1>3, ProperAdded

LEMMA CancelIsolated ==
  ASSUME TypeOK, TablesInv, NEW s \in Slots, NEW t \in Transfer_ID, packet_cancel(s, t), ~ProcessEnds
  PROVE  Isolated
<1> DEFINE mine == t \in Hosted(s)
           T == {t} \cap Received(s)
           out == IF mine THEN CreatorCancels(s, {t}) ELSE RecipientCancels(s, T)
           outseq == [r \in Slots |-> SetToSeq(out[r])]
<1>1. Enqueue(outseq) /\ UNCHANGED <<cid, csession>> /\ Joined(s)
  BY DEF packet_cancel, table, Joined
<1>2. T \in SUBSET Transfer_ID /\ T \subseteq Received(s) /\ {t} \in SUBSET Transfer_ID
      /\ {} \in SUBSET Transfer_ID /\ {} \subseteq Hosted(s) /\ {} \subseteq Received(s)
  OBVIOUS
<1> HIDE DEF T
<1>3. ASSUME NEW r \in Slots PROVE ProperTo(r, outseq[r])
  <2>1. CASE mine
    <3>1. {t} \subseteq Hosted(s)
      BY <2>1
    <3>2. ProperTo(r, SetToSeq(CreatorCancels(s, {t})[r]))
      BY <1>1, <1>2, <3>1, CancelsProper
    <3> QED BY <2>1, <3>2
  <2>2. CASE ~mine
    <3>1. ProperTo(r, SetToSeq(RecipientCancels(s, T)[r]))
      BY <1>1, <1>2, CancelsProper
    <3> QED BY <2>2, <3>1
  <2> QED BY <2>1, <2>2
<1> HIDE DEF outseq
<1> QED BY <1>1, <1>3, ProperAdded

LEMMA CloseIsolated ==
  ASSUME TypeOK, TablesInv, NEW s \in Slots, close_client(s), ~ProcessEnds PROVE Isolated
<1> DEFINE complete == cstate[s] = "C_COMPLETE"
           gone == Hosted(s)
           rest == Received(s) \ gone
           cancels == [r \in Slots |->
             IF complete THEN SetToSeq(CreatorCancels(s, gone)[r]) \o SetToSeq(RecipientCancels(s, rest)[r])
                         ELSE << >>]
           bye == Users("DEL_USERS", {cid[s]})
           told(r) == complete /\ SameSession(s, r, csession[s])
           out == [r \in Slots |-> cancels[r] \o One(told(r), bye)]
<1>1. Enqueue(out) /\ UNCHANGED <<cid, csession>>
  BY DEF close_client
<1>2. gone \in SUBSET Transfer_ID /\ rest \in SUBSET Transfer_ID /\ gone \subseteq Hosted(s)
      /\ rest \subseteq Received(s)
  BY HostedType
<1>3. bye \in Packet /\ bye.ids = {cid[s]} /\ bye.from = 0
  <2>1. {cid[s]} \in SUBSET Client_ID
    BY DEF TypeOK
  <2> QED BY <2>1, PktType, ZeroTypes DEF Users, Pkt, ServerPacket
<1>4. \A r \in Slots : told(r) => csession[r] = csession[s]
  BY DEF SameSession
<1>5. \A r \in Slots : told(r) \in BOOLEAN
  OBVIOUS
<1> HIDE DEF gone, rest, bye, told
<1>6. ASSUME NEW r \in Slots PROVE ProperTo(r, cancels[r])
  <2>1. CASE complete
    <3>1. /\ ProperTo(r, SetToSeq(CreatorCancels(s, gone)[r]))
          /\ ProperTo(r, SetToSeq(RecipientCancels(s, rest)[r]))
      BY <1>1, <1>2, <2>1, CancelsProper DEF Joined
    <3> QED BY <2>1, <3>1, ProperConcat
  <2>2. CASE ~complete
    <3>1. ProperTo(r, << >>)
      BY DEF ProperTo
    <3> QED BY <2>2, <3>1
  <2> QED BY <2>1, <2>2
<1>7. ASSUME NEW r \in Slots PROVE ProperTo(r, One(told(r), bye))
  <2>1. told(r) => Proper(bye, r)
    BY <1>1, <1>3, <1>4 DEF Proper
  <2> QED BY <1>3, <1>5, <2>1, ProperOne
<1> HIDE DEF cancels
<1>8. \A r \in Slots : ProperTo(r, out[r])
  BY <1>6, <1>7, ProperConcat
<1> HIDE DEF out
<1> QED BY <1>1, <1>8, ProperAdded

LEMMA IsolatedStep ==
  ASSUME TypeOK, TablesInv, Invited, NumbersFree, [Next]_vars PROVE Isolated
<1>1. ASSUME \A r \in Slots : msg_queue'[r] = msg_queue[r] \/ msg_queue'[r] = << >>
                \/ (msg_queue[r] # << >> /\ msg_queue'[r] = Tail(msg_queue[r]))
      PROVE  Isolated
  BY <1>1, NothingAdded DEF Isolated
<1>2. CASE ProcessEnds
  BY <1>1, <1>2, AllGone
<1>3. CASE start \/ UNCHANGED vars
  BY <1>1, <1>3 DEF start, vars
<1>4. ASSUME NEW s \in Slots, accept_client(s) \/ complete_handshake(s) \/ write_data(s)
      PROVE  Isolated
  BY <1>1, <1>4 DEF accept_client, complete_handshake, write_data, TypeOK
<1>5. ASSUME NEW s \in Slots, NEW create \in BOOLEAN, NEW key \in SessionNames,
             packet_intro(s, create, key), ~ProcessEnds
      PROVE  Isolated
  BY <1>5, IntroIsolated
<1>6. ASSUME NEW s \in Slots, NEW to \in SUBSET user_list[s], packet_transfer(s, to), ~ProcessEnds
      PROVE  Isolated
  BY <1>6, TransferIsolated
<1>7. ASSUME NEW s \in Slots, NEW t \in Transfer_ID, NEW accept \in BOOLEAN,
             packet_reply(s, t, accept), ~ProcessEnds
      PROVE  Isolated
  BY <1>7, ReplyIsolated
<1>8. ASSUME NEW s \in Slots, NEW t \in Transfer_ID,
             packet_data(s, t) \/ packet_complete(s, t) \/ packet_cancel(s, t), ~ProcessEnds
      PROVE  Isolated
  BY <1>8, StreamIsolated, CancelIsolated
<1>9. ASSUME NEW s \in Slots, close_client(s), ~ProcessEnds PROVE Isolated
  BY <1>9, CloseIsolated
<1>10. CASE stop
  BY <1>2, <1>10 DEF stop
<1> QED BY <1>2, <1>3, <1>4, <1>5, <1>6, <1>7, <1>8, <1>9, <1>10 DEF Next

\* net_packet.c:25 and 151, net_close.c:14: a client hears only of clients of
\* its own session, also through the transfers.  An answer goes to whoever
\* created the transfer that has the number now: it is the one the client was
\* asked for.
THEOREM SessionsAreApart ==
  DistinctSeconds => (Spec /\ [][NumbersFree]_vars => SessionIsolation)
<1> SUFFICES ASSUME DistinctSeconds PROVE Spec /\ [][NumbersFree]_vars => SessionIsolation
  OBVIOUS
<1>1. /\ Init => Invited
      /\ TypeOK /\ TablesInv /\ TalkInv /\ Invited /\ [Next]_vars /\ [NumbersFree]_vars => Invited'
  <2>1. UNCHANGED vars => NumbersFree
    BY DEF vars, db, NumbersFree
  <2> QED BY <2>1, InvitedInit, InvitedStep
<1>2. TypeOK /\ TablesInv /\ Invited /\ [Next]_vars /\ [NumbersFree]_vars =>
        [\A r \in Slots : \A p \in Added(r) : \A x \in p.ids \cup ({p.from} \ {0}) :
          \E k \in Slots : cid'[k] = x /\ csession'[k] = csession'[r]]_vars
  <2>1. UNCHANGED vars => NumbersFree
    BY DEF vars, db, NumbersFree
  <2> QED BY <2>1, IsolatedStep DEF Isolated, Proper
<1>3. Spec => []TablesInv
  BY TablesInvAlways
<1>4. Spec /\ [][NumbersFree]_vars => []TalkInv
  BY TalkInvAlways
<1> QED BY <1>1, <1>2, <1>3, <1>4, Typing, PTL DEF Spec, SessionIsolation

-----------------------------------------------------------------------------
(***************************************************************************)
(* The answers.  What a host believes of a participant, and what a         *)
(* participant believes of a transfer, is in the table or is about to be   *)
(* corrected.                                                              *)
(***************************************************************************)

\* The environment: a client is a recipient of one transfer at a time.  A
\* client that takes part in two and cancels one loses its rows in both
\* (db_client_delete goes by the client only, database.c:34).
OneEach ==
    \A v \in transfers' \ transfers : \A w \in Rows(v.transfer_id)' :
        \A u \in transfer_clients : u.client_id # w.client_id

OneRow == \A u, w \in transfer_clients : u.client_id = w.client_id => u.transfer_id = w.transfer_id

\* A client is asked once.
OnceIn(q, A, J, t) ==
    /\ \A i, j \in At(q, "REQUEST", t) : i = j
    /\ At(q, "REQUEST", t) # {} => t \notin A /\ t \notin J
    /\ ~(t \in A /\ t \in J)
Once ==
    \A s \in Slots, t \in Transfer_ID : Joined(s) => OnceIn(msg_queue[s], asked[s], joined[s], t)

\* Who is still to answer has not answered, and has its row as long as there
\* is a transfer.
Unanswered ==
    \A s \in Slots, t \in Transfer_ID : (Joined(s) /\ Asks(s, t)) =>
        /\ \A a \in {0, 1} : Row(t, cid[s], a) \notin transfer_clients
        /\ \A v \in transfers : v.transfer_id = t => Row(t, cid[s], -1) \in transfer_clients

Cancels(q, t, x) == {i \in DOMAIN q : q[i] = Cancel(t, x)}
Accepts(q, t, x) == {i \in At(q, "REPLY", t) : q[i].from = x /\ q[i].accept}

\* What a host believes to be accepted is, or a cancel is on its way.
RightIn(q, hosts, rows, t, x) ==
    \/ Row(t, x, 1) \in rows
    \/ /\ \A i \in Accepts(q, t, x) : \E j \in Cancels(q, t, x) : i < j
       /\ (\E h \in hosts : h.client_id = x /\ h.accepted = 1) => Cancels(q, t, x) # {}
Right ==
    \A s \in Slots, t \in Transfer_ID : (Joined(s) /\ Own(s, t)) =>
        \A x \in Client_ID : RightIn(msg_queue[s], Host(s, t), transfer_clients, t, x)

AnswerInv == OneRow /\ Once /\ Unanswered /\ Right

\* A participant has its row, or will hear that the transfer is over.
GuestIn(q, A, J, rows, t, x) ==
    /\ t \in A => Row(t, x, -1) \in rows \/ At(q, "CANCEL", t) # {}
    /\ \A i \in At(q, "REQUEST", t) :
          Row(t, x, -1) \in rows \/ \E j \in At(q, "CANCEL", t) : i < j
    /\ t \in J => Row(t, x, 1) \in rows \/ At(q, "CANCEL", t) \cup At(q, "COMPLETE", t) # {}
Guests ==
    \A s \in Slots, t \in Transfer_ID : Joined(s) =>
        GuestIn(msg_queue[s], asked[s], joined[s], transfer_clients, t, cid[s])

LEMMA AnswerInit == Init => AnswerInv /\ Guests
  BY DEF Init, AnswerInv, OneRow, Once, Unanswered, Right, Guests, Joined

(***************************************************************************)
(* Most steps: what goes from the table is told.                           *)
(***************************************************************************)
Goes(w) == w \in transfer_clients /\ w \notin transfer_clients'

HostTold(s, o) ==
    \A t \in Transfer_ID : Own(s, t)' => \A x \in Client_ID :
        /\ Goes(Row(t, x, 1)) => Cancels(o, t, x) # {}
        /\ Accepts(o, t, x) # {} => Row(t, x, 1) \in transfer_clients'

GuestTold(s, o) ==
    \A t \in Transfer_ID :
        /\ Asks(s, t)' /\ Goes(Row(t, cid[s], -1)) =>
              /\ At(o, "CANCEL", t) # {}
              /\ \A v \in transfers' : v.transfer_id # t
        /\ Asks(s, t)' => \A a \in {0, 1} :
              Row(t, cid[s], a) \in transfer_clients' => Row(t, cid[s], a) \in transfer_clients
        /\ t \in joined'[s] =>
              \/ /\ t \in joined[s]
                 /\ Goes(Row(t, cid[s], 1)) => At(o, "CANCEL", t) \cup At(o, "COMPLETE", t) # {}
              \/ /\ t \in asked[s] /\ t \notin asked'[s]
                 /\ Row(t, cid[s], -1) \in transfer_clients => Row(t, cid[s], 1) \in transfer_clients'

TellsAt(s) ==
    \E o \in Seq(Packet) : /\ msg_queue'[s] = msg_queue[s] \o o
                           /\ HostTold(s, o) /\ GuestTold(s, o)

Tells == \A s \in Slots : Joined(s)' => TellsAt(s)

LEMMA CancelsConcat ==
  ASSUME NEW q \in Seq(Packet), NEW o \in Seq(Packet), NEW t, NEW x
  PROVE  /\ Cancels(q, t, x) \subseteq Cancels(q \o o, t, x)
         /\ Cancels(o, t, x) # {} => \E j \in Cancels(q \o o, t, x) : \A i \in DOMAIN q : i < j
         /\ \A i \in Accepts(q \o o, t, x) : i \in Accepts(q, t, x) \/ Accepts(o, t, x) # {}
         /\ \A type : At(q, type, t) \subseteq At(q \o o, type, t)
         /\ \A type : At(o, type, t) # {} => \E j \in At(q \o o, type, t) : \A i \in DOMAIN q : i < j
<1>1. ASSUME NEW i \in DOMAIN q PROVE i \in DOMAIN (q \o o) /\ (q \o o)[i] = q[i]
  BY ConcatAt
<1>2. ASSUME NEW i \in DOMAIN o
      PROVE  /\ Len(q) + i \in DOMAIN (q \o o) /\ (q \o o)[Len(q) + i] = o[i]
             /\ \A k \in DOMAIN q : k < Len(q) + i
  BY ConcatAt
<1>3. ASSUME NEW i \in DOMAIN (q \o o), i \notin DOMAIN q
      PROVE  i - Len(q) \in DOMAIN o /\ (q \o o)[i] = o[i - Len(q)]
  <2>1. i - Len(q) \in DOMAIN o /\ i = Len(q) + (i - Len(q))
    BY <1>3, ConcatAt
  <2> QED BY <1>2, <2>1
<1> DEFINE n == q \o o
<1> HIDE DEF n
<1>4. \A type : At(q, type, t) \subseteq At(n, type, t)
  BY <1>1 DEF At, n
<1>5. Cancels(q, t, x) \subseteq Cancels(n, t, x)
  BY <1>1 DEF n, Cancels
<1>6. ASSUME NEW type, NEW i \in At(o, type, t)
      PROVE  /\ Len(q) + i \in At(n, type, t) /\ n[Len(q) + i] = o[i]
             /\ \A k \in DOMAIN q : k < Len(q) + i
  BY <1>2, <1>6 DEF At, n
<1>7. Cancels(o, t, x) # {} => \E j \in Cancels(n, t, x) : \A i \in DOMAIN q : i < j
  <2>1. ASSUME NEW i \in Cancels(o, t, x)
        PROVE  Len(q) + i \in Cancels(n, t, x) /\ \A k \in DOMAIN q : k < Len(q) + i
    BY <1>2 DEF Cancels, n
  <2> QED BY <2>1
<1>8. ASSUME NEW i \in Accepts(n, t, x) PROVE i \in Accepts(q, t, x) \/ Accepts(o, t, x) # {}
  <2>1. i \in DOMAIN n /\ n[i].type = "REPLY" /\ n[i].t_id = t /\ n[i].from = x /\ n[i].accept
    BY DEF Accepts, At
  <2>2. CASE i \in DOMAIN q
    BY <1>1, <2>1, <2>2 DEF Accepts, At, n
  <2>3. CASE i \notin DOMAIN q
    <3>1. i - Len(q) \in Accepts(o, t, x)
      BY <1>3, <2>1, <2>3 DEF Accepts, At, n
    <3> QED BY <3>1
  <2> QED BY <2>2, <2>3
<1> QED BY <1>4, <1>5, <1>6, <1>7, <1>8 DEF n

\* The predicates on a queue, of the queue afterwards.
LEMMA AnswersPrimed ==
  ASSUME NEW s \in Slots
  PROVE  /\ \A t \in Transfer_ID :
               /\ OnceIn(msg_queue[s], asked[s], joined[s], t)' <=>
                     OnceIn(msg_queue'[s], asked'[s], joined'[s], t)
               /\ GuestIn(msg_queue[s], asked[s], joined[s], transfer_clients, t, cid[s])' <=>
                     GuestIn(msg_queue'[s], asked'[s], joined'[s], transfer_clients', t, cid'[s])
         /\ \A t \in Transfer_ID, x \in Client_ID :
               RightIn(msg_queue[s], Host(s, t), transfer_clients, t, x)' <=>
                     RightIn(msg_queue'[s], Host(s, t)', transfer_clients', t, x)
  BY DEF OnceIn, GuestIn, RightIn, Cancels, Accepts, At, Row, Host

LEMMA OneRowLessen == ASSUME OneRow, Lessens PROVE OneRow'
<1> SUFFICES ASSUME NEW u \in transfer_clients', NEW w \in transfer_clients', u.client_id = w.client_id
             PROVE  u.transfer_id = w.transfer_id
  BY DEF OneRow
<1>1. \A v \in transfer_clients' : \E o \in transfer_clients :
         o.transfer_id = v.transfer_id /\ o.client_id = v.client_id
  BY DEF Lessens
<1> QED BY <1>1 DEF OneRow

LEMMA OnceLessen == ASSUME TypeOK, Strangers, Once, Lessens, Tells PROVE Once'
<1> SUFFICES ASSUME NEW s \in Slots, NEW t \in Transfer_ID, Joined(s)'
             PROVE  OnceIn(msg_queue'[s], asked'[s], joined'[s], t)
  BY AnswersPrimed DEF Once
<1>1. LessensAt(s) /\ TellsAt(s)
  BY DEF Lessens, Tells
<1>2. /\ (~Joined(s) => msg_queue[s] = << >>) /\ QueueLessens(s) /\ Live(s)
      /\ asked'[s] \subseteq asked[s] /\ joined'[s] \subseteq joined[s] \cup asked[s]
  BY <1>1 DEF LessensAt
<1>3. At(msg_queue'[s], "REQUEST", t) = At(msg_queue[s], "REQUEST", t)
  <2>1. At(msg_queue[s], "REQUEST", t)' = At(msg_queue'[s], "REQUEST", t)
    BY DEF At
  <2> QED BY <1>2, <2>1, QuitsAt
<1>4. OnceIn(msg_queue[s], asked[s], joined[s], t)
  <2>1. CASE Joined(s)
    BY <2>1 DEF Once
  <2>2. CASE ~Joined(s)
    <3>1. msg_queue[s] = << >> /\ asked[s] = {} /\ joined[s] = {}
      BY <1>2, <2>2 DEF Strangers
    <3> QED BY <3>1 DEF OnceIn, At
  <2> QED BY <2>1, <2>2
<1>5. t \in joined'[s] => t \in joined[s] \/ t \notin asked'[s]
  BY <1>1 DEF TellsAt, GuestTold
<1> QED BY <1>2, <1>3, <1>4, <1>5 DEF OnceIn

\* A client that is still asked was asked before, and had joined.
LEMMA AsksLessen ==
  ASSUME TypeOK, Strangers, Lessens, NEW s \in Slots, NEW t \in Transfer_ID, Joined(s)', Asks(s, t)'
  PROVE  Joined(s) /\ Asks(s, t) /\ cid'[s] = cid[s]
<1>1. LessensAt(s)
  BY DEF Lessens
<1>2. /\ (~Joined(s) => msg_queue[s] = << >>) /\ QueueLessens(s) /\ asked'[s] \subseteq asked[s]
      /\ cid'[s] = cid[s]
  BY <1>1 DEF LessensAt
<1>3. At(msg_queue[s], "REQUEST", t)' = At(msg_queue[s], "REQUEST", t)
  BY <1>2, QuitsAt
<1>4. Asks(s, t) <=> t \in asked[s] \/ At(msg_queue[s], "REQUEST", t) # {}
  BY DEF Asks, At
<1>5. Asks(s, t)' <=> t \in asked'[s] \/ At(msg_queue[s], "REQUEST", t)' # {}
  BY DEF Asks, At
<1>6. Asks(s, t)
  BY <1>2, <1>3, <1>4, <1>5
<1>7. Joined(s)
  BY <1>2, <1>6 DEF Strangers, Asks
<1> QED BY <1>2, <1>6, <1>7

LEMMA UnansweredLessen == ASSUME TypeOK, Strangers, Unanswered, Lessens, Tells PROVE Unanswered'
<1> SUFFICES ASSUME NEW s \in Slots, NEW t \in Transfer_ID, Joined(s)', Asks(s, t)'
             PROVE  /\ \A a \in {0, 1} : Row(t, cid'[s], a) \notin transfer_clients'
                    /\ \A v \in transfers' : v.transfer_id = t => Row(t, cid'[s], -1) \in transfer_clients'
  BY DEF Unanswered, Row
<1>1. Joined(s) /\ Asks(s, t) /\ cid'[s] = cid[s]
  BY AsksLessen
<1>2. TellsAt(s)
  BY DEF Tells
<1>3. /\ \A a \in {0, 1} : Row(t, cid[s], a) \in transfer_clients' => Row(t, cid[s], a) \in transfer_clients
      /\ Goes(Row(t, cid[s], -1)) => \A v \in transfers' : v.transfer_id # t
  BY <1>2 DEF TellsAt, GuestTold
<1>4. /\ \A a \in {0, 1} : Row(t, cid[s], a) \notin transfer_clients
      /\ \A v \in transfers : v.transfer_id = t => Row(t, cid[s], -1) \in transfer_clients
  BY <1>1 DEF Unanswered
<1>5. transfers' \subseteq transfers
  BY DEF Lessens
<1> QED BY <1>1, <1>3, <1>4, <1>5 DEF Goes

LEMMA RightLessen == ASSUME TypeOK, TablesInv, Right, Lessens, Tells PROVE Right'
<1> SUFFICES ASSUME NEW s \in Slots, NEW t \in Transfer_ID, Joined(s)', Own(s, t)', NEW x \in Client_ID
             PROVE  RightIn(msg_queue'[s], Host(s, t)', transfer_clients', t, x)
  BY AnswersPrimed DEF Right
<1>1. LessensAt(s) /\ TellsAt(s)
  BY DEF Lessens, Tells
<1>2. Live(s) /\ cid'[s] = cid[s] /\ HostLessens(s)
  BY <1>1 DEF LessensAt
<1>3. Own(s, t)
  BY <1>2 DEF Own, Lessens
<1>4. Joined(s)
  BY <1>2, <1>3, OwnerJoined
<1>5. RightIn(msg_queue[s], Host(s, t), transfer_clients, t, x)
  BY <1>3, <1>4 DEF Right
<1>6. Host(s, t)' = Host(s, t)
  BY <1>2 DEF HostLessens
<1>7. PICK o \in Seq(Packet) : /\ msg_queue'[s] = msg_queue[s] \o o
                               /\ HostTold(s, o)
  BY <1>1 DEF TellsAt
<1>8. /\ Goes(Row(t, x, 1)) => Cancels(o, t, x) # {}
      /\ Accepts(o, t, x) # {} => Row(t, x, 1) \in transfer_clients'
  BY <1>7 DEF HostTold
<1> DEFINE q == msg_queue[s]
           n == q \o o
<1>9. q \in Seq(Packet)
  BY DEF TypeOK
<1> HIDE DEF q
<1>10. /\ Cancels(q, t, x) \subseteq Cancels(n, t, x)
       /\ Cancels(o, t, x) # {} => \E j \in Cancels(n, t, x) : \A i \in DOMAIN q : i < j
       /\ \A i \in Accepts(n, t, x) : i \in Accepts(q, t, x) \/ Accepts(o, t, x) # {}
  BY <1>7, <1>9, CancelsConcat
<1>11. \A i \in Accepts(q, t, x) : i \in DOMAIN q
  BY DEF Accepts, At
<1>12. msg_queue'[s] = n
  BY <1>7 DEF q
<1> HIDE DEF n
<1>13. CASE Row(t, x, 1) \in transfer_clients /\ Row(t, x, 1) \notin transfer_clients'
  <2>1. Accepts(o, t, x) = {} /\ Cancels(o, t, x) # {}
    BY <1>8, <1>13 DEF Goes
  <2> QED BY <1>10, <1>11, <1>12, <2>1 DEF RightIn
<1>14. CASE Row(t, x, 1) \notin transfer_clients /\ Row(t, x, 1) \notin transfer_clients'
  <2>1. Accepts(o, t, x) = {}
    BY <1>8, <1>14
  <2>2. /\ \A i \in Accepts(q, t, x) : \E j \in Cancels(q, t, x) : i < j
        /\ (\E h \in Host(s, t) : h.client_id = x /\ h.accepted = 1) => Cancels(q, t, x) # {}
    BY <1>5, <1>14 DEF RightIn, q
  <2> QED BY <1>6, <1>10, <1>12, <2>1, <2>2 DEF RightIn
<1>15. CASE Row(t, x, 1) \in transfer_clients'
  BY <1>15 DEF RightIn
<1> QED BY <1>13, <1>14, <1>15

LEMMA GuestsLessen == ASSUME TypeOK, Strangers, Guests, Lessens, Tells PROVE Guests'
<1> SUFFICES ASSUME NEW s \in Slots, NEW t \in Transfer_ID, Joined(s)'
             PROVE  GuestIn(msg_queue'[s], asked'[s], joined'[s], transfer_clients', t, cid'[s])
  BY AnswersPrimed DEF Guests
<1>1. LessensAt(s) /\ TellsAt(s)
  BY DEF Lessens, Tells
<1>2. /\ (~Joined(s) => msg_queue[s] = << >>) /\ QueueLessens(s) /\ Live(s) /\ cid'[s] = cid[s]
      /\ asked'[s] \subseteq asked[s]
  BY <1>1 DEF LessensAt
<1> DEFINE x == cid[s]
           q == msg_queue[s]
<1>3. /\ t \in asked[s] => Row(t, x, -1) \in transfer_clients \/ At(q, "CANCEL", t) # {}
      /\ \A i \in At(q, "REQUEST", t) :
            Row(t, x, -1) \in transfer_clients \/ \E j \in At(q, "CANCEL", t) : i < j
      /\ t \in joined[s] => Row(t, x, 1) \in transfer_clients
                            \/ At(q, "CANCEL", t) \cup At(q, "COMPLETE", t) # {}
  <2>1. CASE Joined(s)
    BY <2>1 DEF Guests, GuestIn
  <2>2. CASE ~Joined(s)
    <3>1. msg_queue[s] = << >> /\ asked[s] = {} /\ joined[s] = {}
      BY <1>2, <2>2 DEF Strangers
    <3> QED BY <3>1 DEF At
  <2> QED BY <2>1, <2>2
<1>4. PICK o \in Seq(Packet) : msg_queue'[s] = q \o o /\ GuestTold(s, o)
  BY <1>1 DEF TellsAt
<1>5. /\ Asks(s, t)' /\ Goes(Row(t, x, -1)) => At(o, "CANCEL", t) # {}
      /\ t \in joined'[s] =>
            \/ /\ t \in joined[s]
               /\ Goes(Row(t, x, 1)) => At(o, "CANCEL", t) \cup At(o, "COMPLETE", t) # {}
            \/ /\ t \in asked[s] /\ t \notin asked'[s]
               /\ Row(t, x, -1) \in transfer_clients => Row(t, x, 1) \in transfer_clients'
  BY <1>4 DEF GuestTold
<1> DEFINE n == q \o o
<1>6. q \in Seq(Packet)
  BY DEF TypeOK
<1>7. At(msg_queue'[s], "REQUEST", t) = At(q, "REQUEST", t)
  <2>1. At(msg_queue[s], "REQUEST", t)' = At(msg_queue'[s], "REQUEST", t)
    BY DEF At
  <2> QED BY <1>2, <2>1, QuitsAt
<1>8. Asks(s, t)' <=> t \in asked'[s] \/ At(msg_queue'[s], "REQUEST", t) # {}
  BY DEF Asks, At
<1>9. msg_queue'[s] = n
  BY <1>4
<1> HIDE DEF q, x
<1>10. /\ \A type : At(q, type, t) \subseteq At(n, type, t)
       /\ \A type : At(o, type, t) # {} => \E j \in At(n, type, t) : \A i \in DOMAIN q : i < j
  BY <1>4, <1>6, CancelsConcat
<1> HIDE DEF n
<1>11. At(n, "REQUEST", t) = At(q, "REQUEST", t) /\ \A i \in At(q, "REQUEST", t) : i \in DOMAIN q
  BY <1>7, <1>9 DEF At
<1>12. t \in asked'[s] => Row(t, x, -1) \in transfer_clients' \/ At(n, "CANCEL", t) # {}
  BY <1>2, <1>3, <1>5, <1>8, <1>10 DEF Goes
<1>13. ASSUME NEW i \in At(n, "REQUEST", t)
       PROVE  Row(t, x, -1) \in transfer_clients' \/ \E j \in At(n, "CANCEL", t) : i < j
  <2>1. Asks(s, t)' /\ i \in At(q, "REQUEST", t) /\ i \in DOMAIN q
    BY <1>8, <1>9, <1>11
  <2>2. CASE Row(t, x, -1) \in transfer_clients
    BY <1>5, <1>10, <2>1, <2>2 DEF Goes
  <2>3. CASE Row(t, x, -1) \notin transfer_clients
    BY <1>3, <1>10, <2>1, <2>3
  <2> QED BY <2>2, <2>3
<1>14. t \in joined'[s] => Row(t, x, 1) \in transfer_clients' \/ At(n, "CANCEL", t) \cup At(n, "COMPLETE", t) # {}
  BY <1>3, <1>5, <1>10 DEF Goes
<1> QED BY <1>2, <1>9, <1>12, <1>13, <1>14 DEF GuestIn, x

(***************************************************************************)
(* What the handlers tell.                                                 *)
(***************************************************************************)
LEMMA NoAccepts ==
  ASSUME NEW o, \A i \in DOMAIN o : o[i].type # "REPLY" PROVE \A t, x : Accepts(o, t, x) = {}
  BY DEF Accepts, At

LEMMA CancelIn ==
  ASSUME NEW o, NEW t, NEW x, \E i \in DOMAIN o : o[i] = Cancel(t, x)
  PROVE  Cancels(o, t, x) # {} /\ At(o, "CANCEL", t) # {}
<1>1. PICK i \in DOMAIN o : o[i] = Cancel(t, x)
  OBVIOUS
<1>2. Cancel(t, x).type = "CANCEL" /\ Cancel(t, x).t_id = t
  BY DEF Cancel, Pkt
<1> QED BY <1>1, <1>2 DEF Cancels, At

\* No row goes, and no reply comes.
LEMMA KeepsTells ==
  ASSUME UNCHANGED <<transfer_clients, asked, joined>>, NEW s \in Slots, NEW o \in Seq(Packet),
         msg_queue'[s] = msg_queue[s] \o o, \A i \in DOMAIN o : o[i].type # "REPLY"
  PROVE  TellsAt(s)
<1>1. HostTold(s, o)
  BY NoAccepts DEF HostTold, Goes
<1>2. GuestTold(s, o)
  BY DEF GuestTold, Goes
<1> QED BY <1>1, <1>2 DEF TellsAt

LEMMA CalmTells == ASSUME TypeOK, Calm PROVE Tells
<1> SUFFICES ASSUME NEW r \in Slots, Joined(r)' PROVE TellsAt(r)
  BY DEF Tells
<1>0. /\ UNCHANGED <<transfer_clients, asked, joined>>
      /\ cstate \in [Slots -> ClientState] /\ msg_queue \in [Slots -> Seq(Packet)]
  BY DEF Calm, TypeOK
<1>1. ASSUME msg_queue'[r] = msg_queue[r] PROVE TellsAt(r)
  <2>1. << >> \in Seq(Packet) /\ DOMAIN << >> = {}
    OBVIOUS
  <2>2. msg_queue[r] \o << >> = msg_queue[r]
    BY <1>0, ConcatProperties
  <2> QED BY <1>0, <1>1, <2>1, <2>2, KeepsTells
<1>2. ASSUME NEW types, "REPLY" \notin types, Sends(types) PROVE TellsAt(r)
  <2>1. PICK out \in [Slots -> Seq(Of(types))] : Enqueue(out)
    BY <1>2 DEF Sends
  <2> DEFINE o == out[r]
  <2>2. o \in Seq(Of(types)) /\ msg_queue'[r] = msg_queue[r] \o o
    BY <2>1 DEF Enqueue
  <2> HIDE DEF o
  <2>3. Of(types) \subseteq Packet /\ \A p \in Of(types) : p.type # "REPLY"
    BY <1>2 DEF Of
  <2>4. o \in Seq(Packet) /\ \A i \in DOMAIN o : o[i].type # "REPLY"
    BY <2>2, <2>3
  <2> QED BY <1>0, <2>2, <2>4, KeepsTells
<1>3. CASE UNCHANGED <<table, msg_queue>>
  BY <1>1, <1>3
<1>4. ASSUME NEW s \in Slots, accept_client(s) \/ complete_handshake(s) PROVE TellsAt(r)
  <2>1. CASE complete_handshake(s)
    BY <1>1, <2>1 DEF complete_handshake
  <2>2. CASE accept_client(s)
    <3>1. /\ cstate' = [cstate EXCEPT ![s] = "C_CONNECTED"]
          /\ msg_queue' = [msg_queue EXCEPT ![s] = << >>]
      BY <2>2 DEF accept_client
    <3>2. r # s
      BY <1>0, <3>1 DEF Joined
    <3> QED BY <1>0, <1>1, <3>1, <3>2
  <2> QED BY <1>4, <2>1, <2>2
<1>5. ASSUME NEW s \in Slots, NEW key \in SessionNames, Joins(s, key) PROVE TellsAt(r)
  <2>1. Sends({"OK", "NEW_USERS"})
    BY <1>5, JoinSends
  <2> QED BY <1>2, <2>1
<1>6. CASE Sends({"DENY"}) \/ Sends({"DATA"}) \/ Sends({"INVALID"})
  BY <1>2, <1>6
<1> QED BY <1>3, <1>4, <1>5, <1>6 DEF Calm

\* The owner of a transfer hears of who leaves it.
LEMMA OwnerIsTold ==
  ASSUME TypeOK, Identities, NEW s \in Slots, NEW T \in SUBSET Transfer_ID, NEW t \in T,
         NEW r \in Slots, Live(r), Own(r, t)
  PROVE  LET o == SetToSeq(RecipientCancels(s, T)[r])
         IN  o \in Seq(Packet) /\ \E i \in DOMAIN o : o[i] = Cancel(t, cid[s])
<1> DEFINE C == {u \in T : \E x \in CreatorOf(u) : client_find_by_id(r, x)}
           P == {Cancel(u, cid[s]) : u \in C}
<1>1. RecipientCancels(s, T)[r] = P
  BY DEF RecipientCancels
<1>2. cid[r] \in CreatorOf(t) /\ client_find_by_id(r, cid[r])
  BY FoundById DEF Own, CreatorOf
<1>3. C \in SUBSET Transfer_ID /\ t \in C /\ cid[s] \in Client_ID
  BY <1>2 DEF TypeOK
<1>4. Cancel(t, cid[s]) \in P
  BY <1>3
<1> HIDE DEF C
<1>5. IsFiniteSet(P) /\ P \subseteq Packet
  BY <1>3, CancelsType
<1> HIDE DEF P
<1>6. SetToSeq(P) \in Seq(Packet)
  BY <1>5, SetToSeqIn, SeqSubset
<1>7. \E i \in DOMAIN SetToSeq(P) : SetToSeq(P)[i] = Cancel(t, cid[s])
  BY <1>4, <1>5, SetToSeqHas
<1> QED BY <1>1, <1>6, <1>7

LEMMA CompleteTells ==
  ASSUME TypeOK, TablesInv, TalkInv, NEW s \in Slots, NEW t \in Transfer_ID,
         packet_complete(s, t), ~ProcessEnds
  PROVE  Tells
<1> DEFINE done == Transfer("COMPLETE", t)
           mine == {t} \cap Hosted(s)
           out == [r \in Slots |-> IF mine = {} THEN << >> ELSE ToAccepted(t, done)[r]]
<1>1. Enqueue(out) /\ UNCHANGED <<table, asked, joined>> /\ Joined(s) /\ HostActive(s, t) /\ cleanup(mine)
  BY DEF packet_complete, Joined
<1>2. Own(s, t) /\ \A w \in Rows(t) : w.accepted # -1
  BY <1>1, NobodyUndecided
<1>3. mine = {t}
  BY <1>2, HostedOwn
<1>4. done \in Packet /\ done.type = "COMPLETE" /\ done.t_id = t
  BY PktType, ZeroTypes DEF Transfer, Pkt, ServerPacket
<1> SUFFICES ASSUME NEW r \in Slots, Joined(r)' PROVE TellsAt(r)
  BY DEF Tells
<1> HIDE DEF done, mine
<1>5. /\ transfers' = {v \in transfers : v.transfer_id # t}
      /\ transfer_clients' = {w \in transfer_clients : w.transfer_id # t}
  BY <1>1, <1>3 DEF cleanup
<1> DEFINE got == \E w \in Rows(t) : w.accepted = 1 /\ client_find_by_id(r, w.client_id)
           o == One(got, done)
<1>6. msg_queue'[r] = msg_queue[r] \o o
  BY <1>1, <1>3 DEF Enqueue, ToAccepted
<1>7. o \in Seq(Packet) /\ (\A i \in DOMAIN o : o[i].type # "REPLY") /\ (got => At(o, "COMPLETE", t) # {})
  <2>1. CASE got
    <3>1. o = <<done>>
      BY <2>1 DEF One
    <3>2. <<done>> \in Seq(Packet) /\ DOMAIN <<done>> = {1} /\ <<done>>[1] = done
      BY <1>4
    <3> QED BY <1>4, <3>1, <3>2 DEF At
  <2>2. CASE ~got
    <3>1. o = << >>
      BY <2>2 DEF One
    <3>2. << >> \in Seq(Packet) /\ DOMAIN << >> = {}
      OBVIOUS
    <3> HIDE DEF o, got
    <3> QED BY <2>2, <3>1, <3>2
  <2> QED BY <2>1, <2>2
<1> HIDE DEF o
<1>8. Live(r)
  BY <1>1 DEF table, Joined, Live
<1>9. Row(t, cid[r], 1) \in transfer_clients => got
  <2>1. client_find_by_id(r, cid[r])
    BY <1>8, FoundById DEF TablesInv, SessionInv
  <2>2. Row(t, cid[r], 1).transfer_id = t /\ Row(t, cid[r], 1).accepted = 1 /\ Row(t, cid[r], 1).client_id = cid[r]
    BY DEF Row
  <2> QED BY <2>1, <2>2 DEF Rows
<1> HIDE DEF got
<1>10. \A u, x, a : Row(u, x, a).transfer_id = u /\ Row(u, x, a).accepted = a
  BY DEF Row
<1>11. \A u, x, a : Goes(Row(u, x, a)) => u = t /\ a # -1
  BY <1>2, <1>5, <1>10 DEF Goes, Rows
<1>12. HostTold(r, o)
  <2>1. \A u \in Transfer_ID : Own(r, u)' => u # t
    BY <1>5 DEF Own
  <2>2. \A u, x : Accepts(o, u, x) = {}
    BY <1>7, NoAccepts
  <2> QED BY <1>11, <2>1, <2>2 DEF HostTold
<1>13. GuestTold(r, o)
  <2>1. \A u : Goes(Row(u, cid[r], 1)) => u = t /\ At(o, "COMPLETE", t) # {}
    BY <1>7, <1>9, <1>11 DEF Goes
  <2> QED BY <1>1, <1>5, <1>11, <2>1 DEF GuestTold
<1> QED BY <1>6, <1>7, <1>12, <1>13 DEF TellsAt

\* The cancel of a creator or of a recipient.
LEMMA CancelTells ==
  ASSUME TypeOK, TablesInv, TalkInv, OneRow, Once, NEW s \in Slots, NEW t \in Transfer_ID,
         packet_cancel(s, t), ~ProcessEnds
  PROVE  Tells
<1> DEFINE recipient == t \in asked[s] \cup joined[s]
           mine == t \in Hosted(s)
           T == {t} \cap Received(s)
           out == IF mine THEN CreatorCancels(s, {t}) ELSE RecipientCancels(s, T)
           outseq == [r \in Slots |-> SetToSeq(out[r])]
<1>1. /\ Enqueue(outseq) /\ UNCHANGED table /\ Joined(s)
      /\ recipient \/ Host(s, t) # {}
      /\ mine => cleanup({t})
      /\ ~mine => /\ transfers' = transfers
                  /\ transfer_clients' = IF t \in Received(s) /\ CreatorOf(t) # {}
                                         THEN db_client_delete(s) ELSE transfer_clients
      /\ asked' = [asked EXCEPT ![s] = @ \ {t}]
      /\ joined' = [joined EXCEPT ![s] = @ \ {t}]
  BY DEF packet_cancel, Joined
<1>2. mine <=> Own(s, t)
  BY HostedOwn
<1>3. ~mine => recipient
  BY <1>1, <1>2 DEF TalkInv, Hosts, HostsAt
<1>4. {t} \in SUBSET Transfer_ID /\ T \in SUBSET Transfer_ID /\ t \in {t} /\ cid[s] \in Client_ID
  BY DEF TypeOK
<1> SUFFICES ASSUME NEW r \in Slots, Joined(r)' PROVE TellsAt(r)
  BY DEF Tells
<1>5. Joined(r) /\ Live(r) /\ Live(s) /\ cid'[r] = cid[r] /\ asked'[r] \subseteq asked[r] /\ joined'[r] \subseteq joined[r]
  BY <1>1 DEF table, Joined, Live, TypeOK
<1>6. client_find_by_id(r, cid[r])
  BY <1>5, FoundById DEF TablesInv, SessionInv
<1> DEFINE o == SetToSeq(out[r])
<1>7. msg_queue'[r] = msg_queue[r] \o o
  BY <1>1 DEF Enqueue
<1>8. o \in Seq(Of({"CANCEL"}))
  <2>1. CASE mine
    BY <1>4, <2>1, CreatorCancelsIn
  <2>2. CASE ~mine
    BY <1>4, <2>2, CreatorCancelsIn
  <2> QED BY <2>1, <2>2
<1>9. mine => o = SetToSeq(CreatorCancels(s, {t})[r])
  OBVIOUS
<1>10. ~mine => o = SetToSeq(RecipientCancels(s, T)[r])
  OBVIOUS
<1> HIDE DEF o, out, outseq, mine, recipient
<1>11. o \in Seq(Packet) /\ \A i \in DOMAIN o : o[i].type # "REPLY"
  BY <1>8 DEF Of
<1>12. \A u, x : Accepts(o, u, x) = {}
  BY <1>11, NoAccepts
<1>13. \A u, x, a : /\ Row(u, x, a).transfer_id = u /\ Row(u, x, a).client_id = x
                    /\ Row(u, x, a).accepted = a
  BY DEF Row
<1>14. transfer_clients' \subseteq transfer_clients
  BY <1>1 DEF cleanup, db_client_delete
<1>15. ASSUME mine PROVE HostTold(r, o) /\ GuestTold(r, o)
  <2>1. /\ transfers' = {v \in transfers : v.transfer_id # t}
        /\ transfer_clients' = {w \in transfer_clients : w.transfer_id # t}
    BY <1>1, <1>15 DEF cleanup
  <2>2. \A u, x, a : Goes(Row(u, x, a)) => u = t
    BY <1>13, <2>1 DEF Goes
  <2>3. \A u \in Transfer_ID : Own(r, u)' => u # t
    BY <2>1 DEF Own
  <2>4. ASSUME NEW a \in {-1, 1}, Row(t, cid[r], a) \in transfer_clients PROVE At(o, "CANCEL", t) # {}
    <3> DEFINE w == Row(t, cid[r], a)
    <3>1. w \in Rows(t) /\ w.accepted # 0 /\ w.client_id = cid[r]
      BY <1>13, <2>4 DEF Rows
    <3> HIDE DEF w
    <3>2. \E i \in DOMAIN o : o[i] = Cancel(t, cid[s])
      BY <1>4, <1>6, <1>9, <1>15, <3>1, CancelIsSent
    <3> QED BY <3>2, CancelIn
  <2>5. HostTold(r, o)
    BY <1>12, <2>2, <2>3 DEF HostTold
  <2>6. \A u : \A a \in {-1, 1} : Goes(Row(u, cid[r], a)) => u = t /\ At(o, "CANCEL", u) # {}
    BY <2>2, <2>4 DEF Goes
  <2>7. \A v \in transfers' : v.transfer_id # t
    BY <2>1
  <2> QED BY <1>5, <1>14, <2>5, <2>6, <2>7 DEF GuestTold
<1>16. ASSUME ~mine PROVE HostTold(r, o) /\ GuestTold(r, o)
  <2>1. ASSUME NEW u, NEW x, NEW a, Goes(Row(u, x, a))
        PROVE  u = t /\ x = cid[s] /\ t \in T
    <3>1. /\ t \in Received(s)
          /\ transfer_clients' = {w \in transfer_clients : w.client_id # cid[s]}
      BY <1>1, <1>16, <2>1 DEF Goes, db_client_delete
    <3>2. PICK w \in transfer_clients : w.transfer_id = t /\ w.client_id = cid[s]
      BY <3>1 DEF Received
    <3>3. x = cid[s]
      BY <1>13, <2>1, <3>1 DEF Goes
    <3>4. u = t
      BY <1>13, <2>1, <3>2, <3>3 DEF Goes, OneRow
    <3> QED BY <3>1, <3>3, <3>4
  <2>2. ASSUME Own(r, t), t \in T PROVE Cancels(o, t, cid[s]) # {}
    <3>1. \E i \in DOMAIN o : o[i] = Cancel(t, cid[s])
      BY <1>4, <1>5, <1>10, <1>16, <2>2, OwnerIsTold DEF TablesInv, SessionInv
    <3> QED BY <3>1, CancelIn
  <2>3. \A u : Own(r, u)' => Own(r, u)
    BY <1>1, <1>5, <1>16 DEF Own
  <2>4. HostTold(r, o)
    BY <1>12, <2>1, <2>2, <2>3 DEF HostTold
  <2>5. r = s => ~Asks(r, t)' /\ t \notin joined'[r]
    <3>1. ASSUME r = s PROVE At(msg_queue[r], "REQUEST", t) = {}
      BY <1>3, <1>5, <1>16, <3>1 DEF Once, OnceIn, recipient
    <3>2. At(msg_queue[r], "REQUEST", t)' = At(msg_queue[r] \o o, "REQUEST", t)
      BY <1>7 DEF At
    <3>3. At(msg_queue[r] \o o, "REQUEST", t) = At(msg_queue[r], "REQUEST", t)
      <4>1. msg_queue[r] \in Seq(Packet)
        BY DEF TypeOK
      <4>2. \A i \in DOMAIN o : o[i].type # "REQUEST"
        BY <1>8 DEF Of
      <4> QED BY <1>11, <4>1, <4>2, AtKept
    <3>4. Asks(r, t)' <=> t \in asked'[r] \/ At(msg_queue[r], "REQUEST", t)' # {}
      BY DEF Asks, At
    <3>5. r = s => t \notin asked'[r] /\ t \notin joined'[r]
      BY <1>1 DEF TypeOK
    <3> QED BY <3>1, <3>2, <3>3, <3>4, <3>5
  <2>6. \A u, a : Goes(Row(u, cid[r], a)) => u = t /\ r = s
    BY <1>5, <2>1 DEF TablesInv, SessionInv, Identities
  <2> QED BY <1>5, <1>14, <2>4, <2>5, <2>6 DEF GuestTold
<1> QED BY <1>7, <1>11, <1>15, <1>16 DEF TellsAt

\* A client that goes.
LEMMA CloseTells ==
  ASSUME TypeOK, TablesInv, TalkInv, NEW s \in Slots, close_client(s), ~ProcessEnds
  PROVE  Tells
<1> DEFINE complete == Joined(s)
           gone == Hosted(s)
           rest == Received(s) \ gone
           cancels == [r \in Slots |->
             IF complete THEN SetToSeq(CreatorCancels(s, gone)[r]) \o SetToSeq(RecipientCancels(s, rest)[r])
                         ELSE << >>]
           del(r) == One(complete /\ SameSession(s, r, csession[s]), Users("DEL_USERS", {cid[s]}))
           out == [r \in Slots |-> cancels[r] \o del(r)]
<1>1. /\ Live(s) /\ Enqueue(out)
      /\ cstate' = [cstate EXCEPT ![s] = "C_EMPTY"]
      /\ asked' = [asked EXCEPT ![s] = {}]
      /\ joined' = [joined EXCEPT ![s] = {}]
      /\ UNCHANGED cid
      /\ IF complete
         THEN /\ transfers' = {v \in transfers : v.transfer_id \notin gone}
              /\ transfer_clients' = {w \in db_client_delete(s) : w.transfer_id \notin gone}
         ELSE UNCHANGED <<transfers, transfer_clients>>
  BY DEF close_client, Joined
<1>2. gone \in SUBSET Transfer_ID /\ rest \in SUBSET Transfer_ID /\ cid[s] \in Client_ID
  BY HostedType DEF TypeOK
<1>3. \A t \in Received(s) : t \in gone \/ t \in rest
  OBVIOUS
<1> SUFFICES ASSUME NEW r \in Slots, Joined(r)' PROVE TellsAt(r)
  BY DEF Tells
<1>4. r # s /\ Joined(r) /\ Live(r) /\ cid'[r] = cid[r] /\ asked'[r] = asked[r] /\ joined'[r] = joined[r]
  BY <1>1 DEF Joined, Live, TypeOK
<1>5. client_find_by_id(r, cid[r]) /\ cid[r] # cid[s]
  BY <1>1, <1>4, FoundById DEF TablesInv, SessionInv, Identities
<1> DEFINE a == SetToSeq(CreatorCancels(s, gone)[r])
           b == SetToSeq(RecipientCancels(s, rest)[r])
           ab == cancels[r]
           d == del(r)
           o == ab \o d
<1>6. msg_queue'[r] = msg_queue[r] \o o
  BY <1>1 DEF Enqueue
<1>7. complete => ab = a \o b
  OBVIOUS
<1>8. ~complete => ab = << >>
  OBVIOUS
<1> HIDE DEF gone, rest
<1>9. a \in Seq(Of({"CANCEL"})) /\ b \in Seq(Of({"CANCEL"}))
  BY <1>2, CreatorCancelsIn
<1>10. d \in Seq(Of({"DEL_USERS"}))
  <2>1. Users("DEL_USERS", {cid[s]}) \in Of({"DEL_USERS"})
    BY <1>2, PktType, ZeroTypes DEF Users, ServerPacket, Of, Pkt
  <2>2. (complete /\ SameSession(s, r, csession[s])) \in BOOLEAN
    OBVIOUS
  <2> HIDE DEF complete
  <2> QED BY <2>1, <2>2, OneIn
<1> HIDE DEF a, b, ab, d, cancels, del, out, complete
<1> DEFINE S == Of({"CANCEL", "DEL_USERS"})
<1>11. S \subseteq Packet /\ Of({"CANCEL"}) \subseteq S /\ Of({"DEL_USERS"}) \subseteq S
       /\ \A p \in S : p.type # "REPLY"
  BY DEF Of
<1> HIDE DEF S
<1>12. a \in Seq(S) /\ b \in Seq(S) /\ d \in Seq(S)
  BY <1>9, <1>10, <1>11, SeqSubset
<1>13. ab \in Seq(S)
  <2>1. CASE complete
    BY <1>7, <1>12, <2>1, ConcatProperties
  <2>2. CASE ~complete
    BY <1>8, <2>2, SeqOfEmpty
  <2> QED BY <2>1, <2>2
<1>14. o \in Seq(S)
  BY <1>12, <1>13, ConcatProperties
<1>15. a \in Seq(Packet) /\ b \in Seq(Packet) /\ ab \in Seq(Packet) /\ d \in Seq(Packet) /\ o \in Seq(Packet)
  BY <1>11, <1>12, <1>13, <1>14, SeqSubset
\* A cancel that is in one of the parts is in the whole.
<1>16. ASSUME complete, NEW t \in Transfer_ID,
              (\E i \in DOMAIN a : a[i] = Cancel(t, cid[s])) \/ (\E i \in DOMAIN b : b[i] = Cancel(t, cid[s]))
       PROVE  Cancels(o, t, cid[s]) # {} /\ At(o, "CANCEL", t) # {}
  <2>1. \E i \in DOMAIN ab : ab[i] = Cancel(t, cid[s])
    <3>1. ab = a \o b
      BY <1>7, <1>16
    <3>2. ASSUME NEW i \in DOMAIN a, a[i] = Cancel(t, cid[s]) PROVE \E k \in DOMAIN ab : ab[k] = Cancel(t, cid[s])
      <4>1. i \in DOMAIN (a \o b) /\ (a \o b)[i] = a[i]
        BY <1>15, ConcatAt
      <4> QED BY <3>1, <3>2, <4>1
    <3>3. ASSUME NEW i \in DOMAIN b, b[i] = Cancel(t, cid[s]) PROVE \E k \in DOMAIN ab : ab[k] = Cancel(t, cid[s])
      BY <1>15, <3>1, <3>3, ConcatAt
    <3> QED BY <1>16, <3>2, <3>3
  <2>2. PICK i \in DOMAIN ab : ab[i] = Cancel(t, cid[s])
    BY <2>1
  <2>3. i \in DOMAIN o /\ o[i] = Cancel(t, cid[s])
    <3>1. ab \in Seq(Packet) /\ d \in Seq(Packet)
      BY <1>15
    <3>2. i \in DOMAIN (ab \o d) /\ (ab \o d)[i] = ab[i]
      BY ONLY <3>1, i \in DOMAIN ab, ConcatAt
    <3> QED BY <2>2, <3>2
  <2> HIDE DEF o
  <2> QED BY <2>3, CancelIn
<1> HIDE DEF o
<1>17. \A i \in DOMAIN o : o[i].type # "REPLY"
  BY <1>11, <1>14
<1>18. CASE ~complete
  <2> DEFINE l == IF r = s THEN {} ELSE {r}
  <2>1. transfer_clients' = transfer_clients
    BY <1>1, <1>18
  <2>2. \A u, x, k : ~Goes(Row(u, x, k))
    BY <2>1 DEF Goes
  <2>3. HostTold(r, o)
    BY <1>17, <2>2, NoAccepts DEF HostTold
  <2>4. GuestTold(r, o)
    BY <1>4, <2>1, <2>2 DEF GuestTold
  <2> QED BY <1>6, <1>15, <2>3, <2>4 DEF TellsAt
<1>19. CASE complete
  <2>1. /\ transfers' = {v \in transfers : v.transfer_id \notin gone}
        /\ transfer_clients' = {w \in transfer_clients : w.client_id # cid[s] /\ w.transfer_id \notin gone}
    BY <1>1, <1>19 DEF db_client_delete
  <2>2. \A u, x, k : /\ Row(u, x, k).transfer_id = u /\ Row(u, x, k).client_id = x
                     /\ Row(u, x, k).accepted = k
    BY DEF Row
  <2>3. ASSUME NEW u, NEW x, NEW k, Goes(Row(u, x, k))
        PROVE  u \in gone \/ (x = cid[s] /\ u \in rest)
    <3>1. u \in gone \/ x = cid[s]
      BY <2>1, <2>2, <2>3 DEF Goes
    <3>2. x = cid[s] => u \in Received(s)
      BY <2>2, <2>3 DEF Goes, Received
    <3> QED BY <1>3, <3>1, <3>2 DEF gone, rest
  <2>4. \A u : Own(r, u)' => u \notin gone /\ Own(r, u)
    BY <1>4, <2>1 DEF Own
  <2>5. ASSUME NEW u \in rest, Own(r, u) PROVE Cancels(o, u, cid[s]) # {}
    <3>1. \E i \in DOMAIN b : b[i] = Cancel(u, cid[s])
      BY <1>2, <1>4, <2>5, OwnerIsTold DEF TablesInv, SessionInv, b
    <3> QED BY <1>2, <1>16, <1>19, <3>1
  <2>6. HostTold(r, o)
    BY <1>17, <2>3, <2>4, <2>5, NoAccepts DEF HostTold
  <2>7. ASSUME NEW u \in gone, NEW k \in {-1, 1}, Row(u, cid[r], k) \in transfer_clients
        PROVE  At(o, "CANCEL", u) # {}
    <3> DEFINE w == Row(u, cid[r], k)
    <3>1. w \in Rows(u) /\ w.accepted # 0 /\ w.client_id = cid[r]
      BY <2>2, <2>7 DEF Rows
    <3> HIDE DEF w
    <3>2. \E i \in DOMAIN a : a[i] = Cancel(u, cid[s])
      BY <1>2, <1>5, <3>1, CancelIsSent DEF a
    <3> QED BY <1>2, <1>16, <1>19, <3>2
  <2>8. \A u : \A k \in {-1, 1} : Goes(Row(u, cid[r], k)) =>
           /\ At(o, "CANCEL", u) # {}
           /\ \A v \in transfers' : v.transfer_id # u
    BY <1>5, <2>1, <2>3, <2>7 DEF Goes
  <2>9. GuestTold(r, o)
    BY <1>4, <2>1, <2>8 DEF GuestTold
  <2> QED BY <1>6, <1>15, <2>6, <2>9 DEF TellsAt
<1> QED BY <1>18, <1>19

\* The answer to a request.
LEMMA ReplyTells ==
  ASSUME TypeOK, TablesInv, TalkInv, Once, Unanswered,
         NEW s \in Slots, NEW t \in Transfer_ID, NEW accept \in BOOLEAN,
         packet_reply(s, t, accept), ~ProcessEnds
  PROVE  Tells
<1> DEFINE answer == IF accept THEN 1 ELSE 0
           reply == Pkt("REPLY", t, cid[s], {}, accept)
           out == [r \in Slots |->
                     One(\E x \in CreatorOf(t) : client_find_by_id(r, x), reply)]
<1>1. /\ Enqueue(out) /\ UNCHANGED <<table, transfers>> /\ Joined(s) /\ t \in asked[s]
      /\ transfer_clients' = db_client_accept(s, t, answer)
      /\ asked' = [asked EXCEPT ![s] = @ \ {t}]
      /\ joined' = [joined EXCEPT ![s] = IF accept THEN @ \cup {t} ELSE @]
  BY DEF packet_reply, Joined
<1>2. /\ reply \in Packet /\ reply.type = "REPLY" /\ reply.t_id = t /\ reply.from = cid[s]
      /\ reply.accept = accept
  BY PktType DEF TypeOK, ServerPacket, Pkt
<1>3. answer \in {0, 1} /\ answer # -1 /\ (accept => answer = 1) /\ (~accept => answer = 0)
  OBVIOUS
<1> SUFFICES ASSUME NEW r \in Slots, Joined(r)' PROVE TellsAt(r)
  BY DEF Tells
<1>4. Joined(r) /\ Live(r) /\ Live(s) /\ cid'[r] = cid[r]
  BY <1>1 DEF table, Joined, Live
<1>5. cid[r] = cid[s] => r = s
  BY <1>4 DEF TablesInv, SessionInv, Identities
<1> DEFINE o == out[r]
<1>6. msg_queue'[r] = msg_queue[r] \o o
  BY <1>1 DEF Enqueue
<1>7. o \in Seq(Packet) /\ \A i \in DOMAIN o : o[i] = reply
  <2> DEFINE b == \E x \in CreatorOf(t) : client_find_by_id(r, x)
  <2>1. b \in BOOLEAN /\ o = One(b, reply)
    OBVIOUS
  <2> HIDE DEF b, o, reply
  <2>2. One(b, reply) = <<reply>> \/ One(b, reply) = << >>
    BY <2>1 DEF One
  <2>3. <<reply>> \in Seq(Packet) /\ DOMAIN <<reply>> = {1} /\ <<reply>>[1] = reply
    BY <1>2
  <2>4. << >> \in Seq(Packet) /\ DOMAIN << >> = {}
    OBVIOUS
  <2> QED BY <2>1, <2>2, <2>3, <2>4
<1> HIDE DEF o, out, reply
<1>8. \A u, x, a : /\ Row(u, x, a).transfer_id = u /\ Row(u, x, a).client_id = x
                   /\ Row(u, x, a).accepted = a
  BY DEF Row
<1>9. /\ \A a \in {0, 1} : Row(t, cid[s], a) \notin transfer_clients
      /\ \A v \in transfers : v.transfer_id = t => Row(t, cid[s], -1) \in transfer_clients
  BY <1>1 DEF Unanswered, Asks
\* Only the row of the client for t is touched; it takes the answer.
<1>10. /\ \A u, x, a : (u # t \/ x # cid[s]) =>
              (Row(u, x, a) \in transfer_clients' <=> Row(u, x, a) \in transfer_clients)
       /\ Row(t, cid[s], -1) \in transfer_clients => Row(t, cid[s], answer) \in transfer_clients'
  <2> DEFINE mine == {w \in Rows(t) : w.client_id = cid[s]}
             set == [transfer_id : {t}, client_id : {w.client_id : w \in mine}, accepted : {answer}]
  <2>1. transfer_clients' = (transfer_clients \ mine) \cup set
    BY <1>1 DEF db_client_accept
  <2>2. \A w \in mine : w.transfer_id = t /\ w.client_id = cid[s]
    BY DEF Rows
  <2>3. \A w \in set : w.transfer_id = t /\ w.client_id = cid[s]
    BY <2>2
  <2>4. Row(t, cid[s], -1) \in transfer_clients => Row(t, cid[s], answer) \in set
    <3>1. ASSUME Row(t, cid[s], -1) \in transfer_clients PROVE \E w \in mine : w.client_id = cid[s]
      BY <1>8, <3>1 DEF Rows
    <3> HIDE DEF mine, answer
    <3> QED BY <3>1 DEF Row
  <2> HIDE DEF mine, set
  <2> QED BY <1>8, <2>1, <2>2, <2>3, <2>4
<1> HIDE DEF answer
<1>11. HostTold(r, o)
  <2> SUFFICES ASSUME NEW u \in Transfer_ID, Own(r, u)', NEW x \in Client_ID
               PROVE  /\ Goes(Row(u, x, 1)) => Cancels(o, u, x) # {}
                      /\ Accepts(o, u, x) # {} => Row(u, x, 1) \in transfer_clients'
    BY DEF HostTold
  <2>1. ~Goes(Row(u, x, 1))
    BY <1>9, <1>10 DEF Goes
  <2>2. ASSUME Accepts(o, u, x) # {} PROVE Row(u, x, 1) \in transfer_clients'
    <3>1. u = t /\ x = cid[s] /\ accept
      BY <1>2, <1>7, <2>2 DEF Accepts, At
    <3>2. \E v \in transfers : v.transfer_id = t
      <4>1. [transfer_id |-> u, creator_id |-> cid[r]] \in transfers
        BY <1>1, <1>4 DEF Own
      <4> QED BY <3>1, <4>1
    <3> QED BY <1>3, <1>9, <1>10, <3>1, <3>2
  <2> QED BY <2>1, <2>2
<1>12. ~Asks(s, t)'
  <2>1. At(msg_queue[s], "REQUEST", t) = {}
    BY <1>1 DEF Once, OnceIn
  <2>2. QueueLessens(s)
    BY <1>1, ReplyLessens DEF Lessens, LessensAt, TalkInv, table, Joined
  <2>3. At(msg_queue[s], "REQUEST", t)' = {}
    BY <2>1, <2>2, QuitsAt
  <2>4. Asks(s, t)' <=> t \in asked'[s] \/ At(msg_queue[s], "REQUEST", t)' # {}
    BY DEF Asks, At
  <2>5. t \notin asked'[s]
    BY <1>1 DEF TypeOK
  <2> QED BY <2>3, <2>4, <2>5
<1>13. GuestTold(r, o)
  <2> SUFFICES ASSUME NEW u \in Transfer_ID
               PROVE  /\ Asks(r, u)' /\ Goes(Row(u, cid[r], -1)) =>
                           At(o, "CANCEL", u) # {} /\ \A v \in transfers' : v.transfer_id # u
                      /\ Asks(r, u)' => \A a \in {0, 1} :
                           Row(u, cid[r], a) \in transfer_clients' => Row(u, cid[r], a) \in transfer_clients
                      /\ u \in joined'[r] =>
                           \/ /\ u \in joined[r]
                              /\ Goes(Row(u, cid[r], 1)) => At(o, "CANCEL", u) \cup At(o, "COMPLETE", u) # {}
                           \/ /\ u \in asked[r] /\ u \notin asked'[r]
                              /\ Row(u, cid[r], -1) \in transfer_clients => Row(u, cid[r], 1) \in transfer_clients'
    BY DEF GuestTold
  <2>1. CASE u = t /\ r = s
    <3>1. u \in asked[r] /\ u \notin asked'[r] /\ u \notin joined[r]
      BY <1>1, <2>1 DEF TypeOK, Once, OnceIn
    <3>2. u \in joined'[r] => accept
      BY <1>1, <2>1, <3>1 DEF TypeOK
    <3> QED BY <1>3, <1>10, <1>12, <2>1, <3>1, <3>2
  <2>2. CASE u # t \/ r # s
    <3>1. \A a : Row(u, cid[r], a) \in transfer_clients' <=> Row(u, cid[r], a) \in transfer_clients
      BY <1>5, <1>10, <2>2
    <3>2. u \in joined'[r] => u \in joined[r]
      BY <1>1, <2>2 DEF TypeOK
    <3> QED BY <3>1, <3>2 DEF Goes
  <2> QED BY <2>1, <2>2
<1> QED BY <1>6, <1>7, <1>11, <1>13 DEF TellsAt

LEMMA HandlersTell ==
  ASSUME TypeOK, TablesInv, TalkInv, OneRow, Once, Unanswered, [Next]_vars
  PROVE  \/ ProcessEnds \/ (Lessens /\ Tells)
         \/ \E s \in Slots : write_data(s)
         \/ \E s \in Slots : \E t \in Transfer_ID : \E to \in SUBSET user_list[s] : Offers(s, t, to)
<1>0. Identities /\ Numbers /\ Strangers /\ Hosts /\ NotOwn
  BY DEF TablesInv, SessionInv, TalkInv
<1>1. CASE Calm
  BY <1>0, <1>1, CalmLessens, CalmTells
<1>2. ASSUME NEW s \in Slots, NEW t \in Transfer_ID, NEW accept \in BOOLEAN,
             packet_reply(s, t, accept), ~ProcessEnds
      PROVE  Lessens /\ Tells
  BY <1>0, <1>2, ReplyLessens, ReplyTells
<1>3. ASSUME NEW s \in Slots, NEW t \in Transfer_ID, packet_complete(s, t) \/ packet_cancel(s, t),
             ~ProcessEnds
      PROVE  Lessens /\ Tells
  BY <1>0, <1>3, CompleteLessens, CancelLessens, CompleteTells, CancelTells
<1>4. ASSUME NEW s \in Slots, close_client(s), ~ProcessEnds PROVE Lessens /\ Tells
  BY <1>0, <1>4, CloseLessens, CloseTells
<1> QED BY <1>1, <1>2, <1>3, <1>4, Handlers

(***************************************************************************)
(* A client reads a packet: what the predicates say of the rest.           *)
(***************************************************************************)
LEMMA RestAt ==
  ASSUME NEW q \in Seq(Packet), q # << >>, NEW t, NEW x
  PROVE  /\ \A type : /\ \A i \in At(Tail(q), type, t) : i \in Nat /\ i # 0 /\ i + 1 \in At(q, type, t)
                      /\ \A i \in At(q, type, t) : i \in Nat /\ (i = 1 \/ i - 1 \in At(Tail(q), type, t))
                      /\ 1 \in At(q, type, t) <=> Head(q).type = type /\ Head(q).t_id = t
         /\ \A i \in Cancels(q, t, x) : i \in Nat /\ (i = 1 \/ i - 1 \in Cancels(Tail(q), t, x))
         /\ 1 \in Cancels(q, t, x) <=> Head(q) = Cancel(t, x)
         /\ \A i \in Accepts(Tail(q), t, x) : i \in Nat /\ i # 0 /\ i + 1 \in Accepts(q, t, x)
         /\ Head(q).type = "REPLY" /\ Head(q).t_id = t /\ Head(q).from = x /\ Head(q).accept
               => 1 \in Accepts(q, t, x)
<1>1. /\ \A i \in DOMAIN Tail(q) : i \in Nat /\ i # 0 /\ i + 1 \in DOMAIN q /\ Tail(q)[i] = q[i + 1]
      /\ \A i \in DOMAIN q : i \in Nat /\ (i = 1 \/ (i - 1 \in DOMAIN Tail(q) /\ Tail(q)[i - 1] = q[i]))
      /\ 1 \in DOMAIN q /\ Head(q) = q[1]
  BY TailAt
<1> HIDE DEF Packet
<1>2. ASSUME NEW type
      PROVE  /\ \A i \in At(Tail(q), type, t) : i \in Nat /\ i # 0 /\ i + 1 \in At(q, type, t)
             /\ \A i \in At(q, type, t) : i \in Nat /\ (i = 1 \/ i - 1 \in At(Tail(q), type, t))
             /\ 1 \in At(q, type, t) <=> Head(q).type = type /\ Head(q).t_id = t
  BY <1>1 DEF At
<1>3. \A i \in Cancels(q, t, x) : i \in Nat /\ (i = 1 \/ i - 1 \in Cancels(Tail(q), t, x))
  BY <1>1 DEF Cancels
<1>4. 1 \in Cancels(q, t, x) <=> Head(q) = Cancel(t, x)
  BY <1>1 DEF Cancels
<1>5. \A i \in Accepts(Tail(q), t, x) : i \in Nat /\ i # 0 /\ i + 1 \in Accepts(q, t, x)
  BY <1>1 DEF Accepts, At
<1>6. Head(q).type = "REPLY" /\ Head(q).t_id = t /\ Head(q).from = x /\ Head(q).accept
         => 1 \in Accepts(q, t, x)
  BY <1>1 DEF Accepts, At
<1> QED BY <1>2, <1>3, <1>4, <1>5, <1>6

LEMMA OnceRest ==
  ASSUME NEW q \in Seq(Packet), q # << >>, NEW A, NEW J, NEW A2, NEW J2, NEW t, OnceIn(q, A, J, t),
         t \in A2 => t \in A \/ (Head(q).type = "REQUEST" /\ Head(q).t_id = t),
         t \in J2 => t \in J
  PROVE  OnceIn(Tail(q), A2, J2, t)
<1> DEFINE was == At(q, "REQUEST", t)
           now == At(Tail(q), "REQUEST", t)
<1>1. /\ \A i \in now : i \in Nat /\ i # 0 /\ i + 1 \in was
      /\ 1 \in was <=> Head(q).type = "REQUEST" /\ Head(q).t_id = t
  BY RestAt
<1>2. /\ \A i, j \in was : i = j
      /\ was # {} => t \notin A /\ t \notin J
      /\ ~(t \in A /\ t \in J)
  BY DEF OnceIn
<1> HIDE DEF was, now
<1>3. \A i, j \in now : i = j
  <2> TAKE i, j \in now
  <2>1. i + 1 = j + 1 /\ i \in Nat /\ j \in Nat
    BY <1>1, <1>2
  <2> QED BY <2>1
<1>4. now # {} => t \notin A2 /\ t \notin J2
  <2> SUFFICES ASSUME NEW i \in now PROVE t \notin A2 /\ t \notin J2
    OBVIOUS
  <2>1. i + 1 \in was /\ i + 1 # 1
    BY <1>1
  <2>2. 1 \notin was
    BY <1>2, <2>1
  <2> QED BY <1>1, <1>2, <2>1, <2>2
<1>5. ~(t \in A2 /\ t \in J2)
  BY <1>1, <1>2
<1> QED BY <1>3, <1>4, <1>5 DEF OnceIn, now

LEMMA RightRest ==
  ASSUME NEW q \in Seq(Packet), q # << >>, NEW hosts, NEW hosts2, NEW rows, NEW t, NEW x,
         RightIn(q, hosts, rows, t, x),
         \A h \in hosts2 : h.client_id = x /\ h.accepted = 1 =>
            /\ h \in hosts \/ 1 \in Accepts(q, t, x)
            /\ Head(q) # Cancel(t, x)
  PROVE  RightIn(Tail(q), hosts2, rows, t, x)
<1> SUFFICES ASSUME Row(t, x, 1) \notin rows
             PROVE  /\ \A i \in Accepts(Tail(q), t, x) : \E j \in Cancels(Tail(q), t, x) : i < j
                    /\ (\E h \in hosts2 : h.client_id = x /\ h.accepted = 1) => Cancels(Tail(q), t, x) # {}
  BY DEF RightIn
<1> DEFINE was == Cancels(q, t, x)
           now == Cancels(Tail(q), t, x)
           acc == Accepts(q, t, x)
           acn == Accepts(Tail(q), t, x)
<1>1. /\ \A i \in acc : \E j \in was : i < j
      /\ (\E h \in hosts : h.client_id = x /\ h.accepted = 1) => was # {}
  BY DEF RightIn
<1>2. /\ \A j \in was : j \in Nat /\ (j = 1 \/ j - 1 \in now)
      /\ 1 \in was <=> Head(q) = Cancel(t, x)
      /\ \A i \in acn : i \in Nat /\ i # 0 /\ i + 1 \in acc
  BY RestAt
<1> HIDE DEF was, now, acc, acn
<1>3. ASSUME NEW i \in acn PROVE \E j \in now : i < j
  <2>1. i \in Nat /\ i # 0 /\ i + 1 \in acc
    BY <1>2
  <2>2. PICK j \in was : i + 1 < j
    BY <1>1, <2>1
  <2>3. j \in Nat /\ j # 1
    BY <1>2, <2>1, <2>2
  <2>4. j - 1 \in now /\ i < j - 1
    BY <1>2, <2>1, <2>2, <2>3
  <2> QED BY <2>4
<1>4. ASSUME NEW h \in hosts2, h.client_id = x, h.accepted = 1 PROVE now # {}
  <2>1. (h \in hosts \/ 1 \in acc) /\ Head(q) # Cancel(t, x)
    BY <1>4 DEF acc
  <2>2. was # {}
    BY <1>1, <1>4, <2>1
  <2> QED BY <1>2, <2>1, <2>2
<1> QED BY <1>3, <1>4 DEF acn, now

LEMMA GuestRest ==
  ASSUME NEW q \in Seq(Packet), q # << >>, NEW A, NEW J, NEW A2, NEW J2, NEW rows, NEW t, NEW x,
         GuestIn(q, A, J, rows, t, x),
         t \in A2 => \/ t \in A /\ ~(Head(q).type = "CANCEL" /\ Head(q).t_id = t)
                     \/ Head(q).type = "REQUEST" /\ Head(q).t_id = t,
         t \in J2 => t \in J /\ ~(Head(q).type \in {"CANCEL", "COMPLETE"} /\ Head(q).t_id = t)
  PROVE  GuestIn(Tail(q), A2, J2, rows, t, x)
<1> DEFINE was(type) == At(q, type, t)
           now(type) == At(Tail(q), type, t)
<1>1. \A type : /\ \A i \in now(type) : i \in Nat /\ i # 0 /\ i + 1 \in was(type)
                /\ \A i \in was(type) : i \in Nat /\ (i = 1 \/ i - 1 \in now(type))
                /\ 1 \in was(type) <=> Head(q).type = type /\ Head(q).t_id = t
  BY RestAt
<1>2. /\ t \in A => Row(t, x, -1) \in rows \/ was("CANCEL") # {}
      /\ \A i \in was("REQUEST") : Row(t, x, -1) \in rows \/ \E j \in was("CANCEL") : i < j
      /\ t \in J => Row(t, x, 1) \in rows \/ was("CANCEL") \cup was("COMPLETE") # {}
  BY DEF GuestIn
<1> HIDE DEF was, now
<1>3. ASSUME NEW i \in Nat, NEW j \in was("CANCEL"), i < j, i # 0
      PROVE  j - 1 \in now("CANCEL") /\ i - 1 < j - 1
  BY <1>1, <1>3
<1>4. t \in A2 => Row(t, x, -1) \in rows \/ now("CANCEL") # {}
  <2>1. ASSUME t \in A, ~(Head(q).type = "CANCEL" /\ Head(q).t_id = t)
        PROVE  Row(t, x, -1) \in rows \/ now("CANCEL") # {}
    BY <1>1, <1>2, <2>1
  <2>2. ASSUME Head(q).type = "REQUEST", Head(q).t_id = t
        PROVE  Row(t, x, -1) \in rows \/ now("CANCEL") # {}
    <3>1. 1 \in was("REQUEST")
      BY <1>1, <2>2
    <3> QED BY <1>2, <1>3, <3>1
  <2> QED BY <2>1, <2>2
<1>5. ASSUME NEW i \in now("REQUEST") PROVE Row(t, x, -1) \in rows \/ \E j \in now("CANCEL") : i < j
  <2>1. i \in Nat /\ i + 1 \in was("REQUEST") /\ i + 1 # 0 /\ (i + 1) - 1 = i
    BY <1>1
  <2>2. ASSUME NEW j \in was("CANCEL"), i + 1 < j PROVE j - 1 \in now("CANCEL") /\ i < j - 1
    <3>1. (i + 1) \in Nat /\ i + 1 # 0
      BY <2>1
    <3> QED BY <1>3, <2>1, <2>2, <3>1
  <2> QED BY <1>2, <2>1, <2>2
<1>6. t \in J2 => Row(t, x, 1) \in rows \/ now("CANCEL") \cup now("COMPLETE") # {}
  BY <1>1, <1>2
<1> QED BY <1>4, <1>5, <1>6 DEF GuestIn, now

\* What becomes of what the client has: an acceptance comes from a reply, and a
\* cancel of a transfer the client does not receive takes it back.
LEMMA ReadAnswers ==
  ASSUME TypeOK, NEW s \in Slots, write_data(s)
  PROVE  LET p == Head(msg_queue[s])
         IN  /\ \A h \in hosting'[s] : h.accepted = 1 =>
                   \/ h \in hosting[s]
                   \/ p.type = "REPLY" /\ p.accept /\ h.transfer_id = p.t_id /\ h.client_id = p.from
             /\ (p.type = "CANCEL" /\ p.t_id \notin asked[s] /\ p.t_id \notin joined[s]) =>
                   \A h \in hosting'[s] :
                      h.transfer_id = p.t_id /\ h.client_id = p.from => h.accepted # 1
             /\ joined'[s] \subseteq joined[s]
             /\ asked'[s] \subseteq asked[s] \cup (IF p.type = "REQUEST" THEN {p.t_id} ELSE {})
             /\ p.type = "COMPLETE" => p.t_id \notin joined'[s]
             /\ (p.type = "CANCEL" /\ p.t_id \in joined[s] /\ p.t_id \notin asked[s]) => p.t_id \notin joined'[s]
             /\ (p.type = "CANCEL" /\ p.t_id \in asked[s] /\ p.t_id \notin joined[s] /\ PromptAnswers) =>
                   p.t_id \notin asked'[s]
<1> DEFINE p == Head(msg_queue[s])
<1>0. /\ asked \in [Slots -> SUBSET Transfer_ID] /\ joined \in [Slots -> SUBSET Transfer_ID]
      /\ hosting \in [Slots -> SUBSET ClientRow]
  BY DEF TypeOK
<1>1. /\ p.type = "CANCEL" => forget(s, p.t_id)
      /\ p.type # "CANCEL" =>
            /\ hosting' = [hosting EXCEPT ![s] = hosted(s, p)]
            /\ asked' = [asked EXCEPT ![s] = IF p.type = "REQUEST" THEN @ \cup {p.t_id} ELSE @]
            /\ joined' = [joined EXCEPT ![s] = IF p.type = "COMPLETE" THEN @ \ {p.t_id} ELSE @]
  BY DEF write_data
<1>2. forget(s, p.t_id) =>
        \/ /\ p.t_id \in joined[s] /\ joined' = [joined EXCEPT ![s] = @ \ {p.t_id}]
           /\ UNCHANGED <<asked, hosting>>
        \/ /\ p.t_id \in asked[s] /\ asked' = [asked EXCEPT ![s] = @ \ {p.t_id}]
           /\ UNCHANGED <<joined, hosting>>
        \/ /\ p.t_id \notin joined[s] /\ (p.t_id \in asked[s] => ~PromptAnswers)
           /\ hosting' = [hosting EXCEPT ![s] = hosted(s, p)]
           /\ UNCHANGED <<asked, joined>>
  BY DEF forget
<1>3. ASSUME NEW h, NEW t, NEW x, NEW answer, h \in set_request(s, t, x, answer)
      PROVE  \/ h \in hosting[s] /\ ~(h.transfer_id = t /\ h.client_id = x)
             \/ h.transfer_id = t /\ h.client_id = x /\ h.accepted = answer
  BY <1>3 DEF set_request
<1>4. p.type = "CANCEL" => hosted(s, p) = set_request(s, p.t_id, p.from, 0)
  BY DEF hosted
<1>5. ASSUME NEW h \in hosted(s, p), h.accepted = 1
      PROVE  \/ h \in hosting[s]
             \/ p.type = "REPLY" /\ p.accept /\ h.transfer_id = p.t_id /\ h.client_id = p.from
  <2> HIDE DEF p
  <2>1. CASE p.type = "VALID"
    BY <1>5, <2>1 DEF hosted
  <2>2. CASE p.type = "REPLY" /\ \E g \in Host(s, p.t_id) : g.accepted = -1
    <3>1. hosted(s, p) = set_request(s, p.t_id, p.from, IF p.accept THEN 1 ELSE 0)
      BY <2>2 DEF hosted
    <3> DEFINE answer == IF p.accept THEN 1 ELSE 0
    <3>2. answer = 1 => p.accept
      OBVIOUS
    <3> HIDE DEF answer
    <3>3. h \in set_request(s, p.t_id, p.from, answer)
      BY <1>5, <3>1 DEF answer
    <3> QED BY <1>3, <1>5, <2>2, <3>2, <3>3
  <2>3. CASE p.type = "CANCEL"
    BY <1>3, <1>4, <1>5, <2>3
  <2>4. CASE p.type \notin {"VALID", "CANCEL"} /\ ~(p.type = "REPLY" /\ \E g \in Host(s, p.t_id) : g.accepted = -1)
    <3>1. hosted(s, p) = hosting[s]
      BY <2>4 DEF hosted
    <3> QED BY <1>5, <3>1
  <2> QED BY <2>1, <2>2, <2>3, <2>4
<1> HIDE DEF p
<1>6. hosting'[s] = hosting[s] \/ hosting'[s] = hosted(s, p)
  BY <1>0, <1>1, <1>2
<1>7. \A h \in hosting'[s] : h.accepted = 1 =>
         \/ h \in hosting[s]
         \/ p.type = "REPLY" /\ p.accept /\ h.transfer_id = p.t_id /\ h.client_id = p.from
  BY <1>5, <1>6
<1>8. ASSUME p.type = "CANCEL", p.t_id \notin asked[s], p.t_id \notin joined[s],
             NEW h \in hosting'[s], h.transfer_id = p.t_id, h.client_id = p.from
      PROVE  h.accepted # 1
  <2>1. hosting'[s] = set_request(s, p.t_id, p.from, 0)
    BY <1>0, <1>1, <1>2, <1>4, <1>8
  <2> QED BY <1>3, <1>8, <2>1
<1>9. /\ joined'[s] \subseteq joined[s]
      /\ asked'[s] \subseteq asked[s] \cup (IF p.type = "REQUEST" THEN {p.t_id} ELSE {})
  BY <1>0, <1>1, <1>2
<1>10. p.type = "COMPLETE" => p.t_id \notin joined'[s]
  BY <1>0, <1>1
<1>11. /\ (p.type = "CANCEL" /\ p.t_id \in joined[s] /\ p.t_id \notin asked[s]) => p.t_id \notin joined'[s]
       /\ (p.type = "CANCEL" /\ p.t_id \in asked[s] /\ p.t_id \notin joined[s] /\ PromptAnswers) =>
             p.t_id \notin asked'[s]
  BY <1>0, <1>1, <1>2
<1> QED BY <1>7, <1>8, <1>9, <1>10, <1>11 DEF p

LEMMA ReadKeepsAnswers ==
  ASSUME TypeOK, TablesInv, TalkInv, AnswerInv, NEW s \in Slots, write_data(s)
  PROVE  AnswerInv' /\ (PromptAnswers /\ Guests => Guests')
<1> DEFINE q == msg_queue[s]
           p == Head(q)
<1>1. UNCHANGED <<cstate, cid, transfers, transfer_clients>> /\ Live(s) /\ q # << >>
  BY DEF write_data, table, db
<1>2. q \in Seq(Packet) /\ msg_queue'[s] = Tail(q)
  BY DEF write_data, TypeOK
<1>3. /\ \A h \in hosting'[s] : h.accepted = 1 =>
            \/ h \in hosting[s]
            \/ p.type = "REPLY" /\ p.accept /\ h.transfer_id = p.t_id /\ h.client_id = p.from
      /\ (p.type = "CANCEL" /\ p.t_id \notin asked[s] /\ p.t_id \notin joined[s]) =>
            \A h \in hosting'[s] :
               h.transfer_id = p.t_id /\ h.client_id = p.from => h.accepted # 1
      /\ joined'[s] \subseteq joined[s]
      /\ asked'[s] \subseteq asked[s] \cup (IF p.type = "REQUEST" THEN {p.t_id} ELSE {})
      /\ p.type = "COMPLETE" => p.t_id \notin joined'[s]
      /\ (p.type = "CANCEL" /\ p.t_id \in joined[s] /\ p.t_id \notin asked[s]) => p.t_id \notin joined'[s]
      /\ (p.type = "CANCEL" /\ p.t_id \in asked[s] /\ p.t_id \notin joined[s] /\ PromptAnswers) =>
            p.t_id \notin asked'[s]
  BY ReadAnswers
<1>4. \A r \in Slots \ {s} : /\ msg_queue'[r] = msg_queue[r] /\ hosting'[r] = hosting[r]
                             /\ asked'[r] = asked[r] /\ joined'[r] = joined[r]
  BY DEF write_data, forget, TypeOK
<1>5. \A r \in Slots : /\ (Joined(r)' <=> Joined(r)) /\ (Joined(r) => Live(r)')
                       /\ \A t : Own(r, t)' <=> Own(r, t)
  BY <1>1 DEF Joined, Live, Own
<1> HIDE DEF q, p
<1>6. OneRow'
  BY <1>1 DEF AnswerInv, OneRow
<1>7. Once'
  <2> SUFFICES ASSUME NEW r \in Slots, NEW t \in Transfer_ID, Joined(r)
               PROVE  OnceIn(msg_queue'[r], asked'[r], joined'[r], t)
    BY <1>5, AnswersPrimed DEF Once
  <2>1. OnceIn(msg_queue[r], asked[r], joined[r], t)
    BY DEF AnswerInv, Once
  <2>2. CASE r # s
    BY <1>4, <2>1, <2>2
  <2>3. CASE r = s
    <3>1. OnceIn(q, asked[s], joined[s], t)
      BY <2>1, <2>3 DEF q
    <3>2. /\ t \in asked'[s] => t \in asked[s] \/ (p.type = "REQUEST" /\ p.t_id = t)
          /\ t \in joined'[s] => t \in joined[s]
      BY <1>3
    <3>3. OnceIn(Tail(q), asked'[s], joined'[s], t)
      BY <1>1, <1>2, <3>1, <3>2, OnceRest DEF p
    <3> QED BY <1>2, <2>3, <3>3
  <2> QED BY <2>2, <2>3
<1>8. Unanswered'
  <2> SUFFICES ASSUME NEW r \in Slots, NEW t \in Transfer_ID, Joined(r), Asks(r, t)'
               PROVE  /\ \A a \in {0, 1} : Row(t, cid[r], a) \notin transfer_clients
                      /\ \A v \in transfers : v.transfer_id = t => Row(t, cid[r], -1) \in transfer_clients
    BY <1>1, <1>5 DEF Unanswered, Row
  <2>1. AsksAt(r)
    BY WriteAsks DEF TablesInv
  <2>2. Asks(r, t)
    BY <1>5, <2>1 DEF AsksAt
  <2> QED BY <2>2 DEF AnswerInv, Unanswered
<1>9. Right'
  <2> SUFFICES ASSUME NEW r \in Slots, NEW t \in Transfer_ID, Joined(r), Own(r, t), NEW x \in Client_ID
               PROVE  RightIn(msg_queue'[r], Host(r, t)', transfer_clients, t, x)
    BY <1>1, <1>5, AnswersPrimed DEF Right
  <2>1. RightIn(msg_queue[r], Host(r, t), transfer_clients, t, x)
    BY DEF AnswerInv, Right
  <2>2. CASE r # s
    <3>1. Host(r, t)' = Host(r, t)
      BY <1>4, <2>2 DEF Host
    <3> QED BY <1>4, <2>1, <2>2, <3>1
  <2>3. CASE r = s
    <3>1. RightIn(q, Host(s, t), transfer_clients, t, x)
      BY <2>1, <2>3 DEF q
    <3>2. t \notin asked[s] /\ t \notin joined[s]
      BY <2>3 DEF TalkInv, NotOwn, Asks
    <3>3. ASSUME NEW h \in Host(s, t)', h.client_id = x, h.accepted = 1
          PROVE  (h \in Host(s, t) \/ 1 \in Accepts(q, t, x)) /\ p # Cancel(t, x)
      <4>1. h \in hosting'[s] /\ h.transfer_id = t
        BY DEF Host
      <4>2. h \in Host(s, t) \/ 1 \in Accepts(q, t, x)
        <5>1. CASE h \in hosting[s]
          BY <4>1, <5>1 DEF Host
        <5>2. CASE p.type = "REPLY" /\ p.accept /\ t = p.t_id /\ x = p.from
          BY <1>1, <1>2, <5>2, RestAt DEF p
        <5> QED BY <1>3, <3>3, <4>1, <5>1, <5>2
      <4>3. ASSUME p = Cancel(t, x) PROVE FALSE
        <5>1. p.type = "CANCEL" /\ p.t_id = t /\ p.from = x
          BY <4>3 DEF Cancel, Pkt
        <5> QED BY <1>3, <3>2, <3>3, <4>1, <5>1
      <4> QED BY <4>2, <4>3
    <3> DEFINE hosts == Host(s, t)
               hosts2 == Host(s, t)'
    <3> HIDE DEF hosts, hosts2
    <3>4. RightIn(q, hosts, transfer_clients, t, x)
      BY <3>1 DEF hosts
    <3>5. \A h \in hosts2 : h.client_id = x /\ h.accepted = 1 =>
             /\ h \in hosts \/ 1 \in Accepts(q, t, x)
             /\ Head(q) # Cancel(t, x)
      BY <3>3 DEF hosts, hosts2, p
    <3>6. RightIn(Tail(q), hosts2, transfer_clients, t, x)
      BY <1>1, <1>2, <3>4, <3>5, RightRest
    <3> QED BY <1>2, <2>3, <3>6 DEF hosts2
  <2> QED BY <2>2, <2>3
<1>10. ASSUME PromptAnswers, Guests PROVE Guests'
  <2> SUFFICES ASSUME NEW r \in Slots, NEW t \in Transfer_ID, Joined(r)
               PROVE  GuestIn(msg_queue'[r], asked'[r], joined'[r], transfer_clients, t, cid[r])
    BY <1>1, <1>5, AnswersPrimed DEF Guests
  <2>1. GuestIn(msg_queue[r], asked[r], joined[r], transfer_clients, t, cid[r])
    BY <1>10 DEF Guests
  <2>2. CASE r # s
    BY <1>4, <2>1, <2>2
  <2>3. CASE r = s
    <3>1. GuestIn(q, asked[s], joined[s], transfer_clients, t, cid[s])
      BY <2>1, <2>3 DEF q
    <3>2. /\ ~(t \in asked[s] /\ t \in joined[s])
          /\ p.type = "REQUEST" /\ p.t_id = t => t \notin asked[s] /\ t \notin joined[s]
      <4>1. OnceIn(q, asked[s], joined[s], t)
        BY <2>3 DEF AnswerInv, Once, q
      <4>2. p.type = "REQUEST" /\ p.t_id = t => At(q, "REQUEST", t) # {}
        BY <1>1, <1>2, RestAt DEF p
      <4> QED BY <4>1, <4>2 DEF OnceIn
    <3>3. t \in asked'[s] => \/ t \in asked[s] /\ ~(p.type = "CANCEL" /\ p.t_id = t)
                             \/ p.type = "REQUEST" /\ p.t_id = t
      BY <1>3, <1>10, <3>2
    <3>4. t \in joined'[s] => t \in joined[s] /\ ~(p.type \in {"CANCEL", "COMPLETE"} /\ p.t_id = t)
      BY <1>3, <3>2
    <3>5. GuestIn(Tail(q), asked'[s], joined'[s], transfer_clients, t, cid[s])
      BY <1>1, <1>2, <3>1, <3>3, <3>4, GuestRest DEF p
    <3> QED BY <1>2, <2>3, <3>5
  <2> QED BY <2>2, <2>3
<1> QED BY <1>6, <1>7, <1>8, <1>9, <1>10 DEF AnswerInv

LEMMA OneRowStep == ASSUME TypeOK, TablesInv, OneRow, OneEach, TablesStep PROVE OneRow'
<1> SUFFICES ASSUME NEW a \in transfer_clients', NEW b \in transfer_clients', a.client_id = b.client_id
             PROVE  a.transfer_id = b.transfer_id
  BY DEF OneRow
<1>1. ASSUME NEW T, Removes(T) PROVE a.transfer_id = b.transfer_id
  BY <1>1 DEF Removes, OneRow
<1>2. ASSUME NEW t, NEW x, Adds(t, x) PROVE a.transfer_id = b.transfer_id
  <2>1. ASSUME NEW c \in transfer_clients', c.transfer_id = t, NEW d \in transfer_clients
        PROVE  c.client_id # d.client_id
    <3>1. \A v \in transfers : v.transfer_id # t
      BY <1>2 DEF Adds, TypeOK, TransferRow, Transfer_ID
    <3> DEFINE n == [transfer_id |-> t, creator_id |-> x]
    <3>2. n \in transfers' \ transfers /\ n.transfer_id = t
      BY <1>2, <3>1 DEF Adds
    <3> HIDE DEF n
    <3>3. c \in Rows(n.transfer_id)'
      BY <2>1, <3>2 DEF Rows
    <3> QED BY <3>2, <3>3 DEF OneEach
  <2>2. \A c \in transfer_clients' : c.transfer_id = t \/ c \in transfer_clients
    BY <1>2 DEF Adds
  <2> QED BY <2>1, <2>2 DEF OneRow
<1> QED BY <1>1, <1>2 DEF TablesStep

\* A transfer is created.
LEMMA OffersOthers ==
  ASSUME TypeOK, TablesInv, NumbersFree,
         NEW s \in Slots, NEW t \in Transfer_ID, NEW to \in SUBSET user_list[s], Offers(s, t, to),
         NEW r \in Slots, NEW u, NEW x
  PROVE  /\ Cancels(msg_queue'[r], u, x) = Cancels(msg_queue[r], u, x)
         /\ Accepts(msg_queue'[r], u, x) = Accepts(msg_queue[r], u, x)
         /\ \A type \in {"CANCEL", "COMPLETE"} : At(msg_queue'[r], type, u) = At(msg_queue[r], type, u)
<1> DEFINE q == msg_queue[r]
           n == msg_queue'[r]
<1>1. /\ \A i \in DOMAIN q : n[i] = q[i]
      /\ \A i \in DOMAIN n : \/ i \in DOMAIN q /\ n[i] = q[i]
                             \/ n[i] \in {Offer(t, to), Request(s, t, to)}
  BY OffersAt
<1>2. DOMAIN q \subseteq DOMAIN n
  <2>1. /\ \/ n = q
           \/ \E p \in Packet : n = q \o <<p>>
        /\ q \in Seq(Packet)
    BY OffersQueue
  <2> HIDE DEF q, n
  <2>2. ASSUME NEW p \in Packet, n = q \o <<p>> PROVE DOMAIN q \subseteq DOMAIN n
    <3>1. <<p>> \in Seq(Packet)
      OBVIOUS
    <3> QED BY <2>1, <2>2, <3>1, ConcatAt
  <2> QED BY <2>1, <2>2
<1>3. \A p \in {Offer(t, to), Request(s, t, to)} : p.type \in {"VALID", "REQUEST"}
  BY DEF Offer, Request, Pkt
<1>4. Cancel(u, x).type = "CANCEL"
  BY DEF Cancel, Pkt
<1> HIDE DEF q, n
<1>5. Cancels(n, u, x) = Cancels(q, u, x)
  BY <1>1, <1>2, <1>3, <1>4 DEF Cancels
<1>6. Accepts(n, u, x) = Accepts(q, u, x)
  BY <1>1, <1>2, <1>3 DEF Accepts, At
<1>7. \A type \in {"CANCEL", "COMPLETE"} : At(n, type, u) = At(q, type, u)
  BY <1>1, <1>2, <1>3 DEF At
<1> QED BY <1>5, <1>6, <1>7 DEF q, n

LEMMA OffersKeepAnswers ==
  ASSUME TypeOK, TablesInv, TalkInv, AnswerInv, NumbersFree, OneEach, [Next]_vars,
         NEW s \in Slots, NEW t \in Transfer_ID, NEW to \in SUBSET user_list[s], Offers(s, t, to)
  PROVE  AnswerInv' /\ (Guests => Guests')
<1> DEFINE new == [transfer_id : {t}, client_id : to, accepted : {-1}]
           v == [transfer_id |-> t, creator_id |-> cid[s]]
<1>1. /\ UNCHANGED <<cstate, cid, hosting, asked, joined>>
      /\ transfers' = transfers \cup {v}
      /\ transfer_clients' = transfer_clients \cup new
  BY DEF Offers, Creates, table, client
<1>2. /\ \A o \in transfers : o.transfer_id # t
      /\ \A w \in transfer_clients : w.transfer_id # t
      /\ \A r \in Slots : Live(r) => ~Uses(r, t)
      /\ \A r \in Slots : Found(to, r) => cid[r] \in to
  BY OffersFind
<1>3. \A r \in Slots : (Joined(r)' <=> Joined(r)) /\ (Joined(r) => Live(r))
  BY <1>1 DEF Joined, Live
<1>4. v.transfer_id = t /\ v \notin transfers
  BY <1>2
<1>5. \A w \in new : w.transfer_id = t /\ w.accepted = -1
  OBVIOUS
<1>6. \A x \in to : Row(t, x, -1) \in new
  BY DEF Row
<1> HIDE DEF new, v
<1>7. \A u, x, a : Row(u, x, a).transfer_id = u /\ Row(u, x, a).accepted = a
  BY DEF Row
<1>8. ASSUME NEW r \in Slots, Joined(r)
      PROVE  /\ t \notin asked[r] /\ t \notin joined[r] /\ Host(r, t) = {}
             /\ At(msg_queue[r], "REQUEST", t) = {}
             /\ \A x : Accepts(msg_queue[r], t, x) = {}
  <2>1. ~Uses(r, t)
    BY <1>2, <1>3, <1>8
  <2>2. At(msg_queue[r], "REPLY", t) = {}
    BY <2>1 DEF Uses, TransferPackets
  <2> QED BY <2>1, <2>2, Unused DEF Accepts
<1>9. \A r \in Slots, u \in Transfer_ID :
         At(msg_queue'[r], "REQUEST", u) = At(msg_queue[r], "REQUEST", u) \cup
               (IF u = t /\ Found(to, r) THEN {Len(msg_queue[r]) + 1} ELSE {})
  BY OffersAt
<1>10. OneRow'
  BY HandlerTables, OneRowStep DEF AnswerInv
<1>11. Once'
  <2> SUFFICES ASSUME NEW r \in Slots, NEW u \in Transfer_ID, Joined(r)
               PROVE  OnceIn(msg_queue'[r], asked'[r], joined'[r], u)
    BY <1>3, AnswersPrimed DEF Once
  <2>1. OnceIn(msg_queue[r], asked[r], joined[r], u)
    BY DEF AnswerInv, Once
  <2>2. CASE u = t
    <3>1. \A i, j \in At(msg_queue'[r], "REQUEST", t) : i = j
      BY <1>8, <1>9, <2>2
    <3> QED BY <1>1, <1>8, <2>2, <3>1 DEF OnceIn
  <2>3. CASE u # t
    <3>1. At(msg_queue'[r], "REQUEST", u) = At(msg_queue[r], "REQUEST", u)
      BY <1>9, <2>3
    <3> QED BY <1>1, <2>1, <3>1 DEF OnceIn
  <2> QED BY <2>2, <2>3
<1>12. Unanswered'
  <2> SUFFICES ASSUME NEW r \in Slots, NEW u \in Transfer_ID, Joined(r), Asks(r, u)'
               PROVE  /\ \A a \in {0, 1} : Row(u, cid[r], a) \notin transfer_clients'
                      /\ \A o \in transfers' : o.transfer_id = u => Row(u, cid[r], -1) \in transfer_clients'
    BY <1>1, <1>3 DEF Unanswered, Row
  <2>1. Asks(r, u)' <=> u \in asked[r] \/ At(msg_queue'[r], "REQUEST", u) # {}
    BY <1>1 DEF Asks, At
  <2>2. Asks(r, u) <=> u \in asked[r] \/ At(msg_queue[r], "REQUEST", u) # {}
    BY DEF Asks, At
  <2>3. CASE u = t
    <3>1. Found(to, r)
      BY <1>8, <1>9, <2>1, <2>3
    <3>2. Row(t, cid[r], -1) \in transfer_clients'
      BY <1>1, <1>2, <1>6, <3>1
    <3>3. \A a \in {0, 1} : Row(t, cid[r], a) \notin transfer_clients'
      BY <1>1, <1>2, <1>5, <1>7
    <3> QED BY <2>3, <3>2, <3>3
  <2>4. CASE u # t
    <3>1. Asks(r, u)
      BY <1>9, <2>1, <2>2, <2>4
    <3>2. /\ \A a \in {0, 1} : Row(u, cid[r], a) \notin transfer_clients
          /\ \A o \in transfers : o.transfer_id = u => Row(u, cid[r], -1) \in transfer_clients
      BY <3>1 DEF AnswerInv, Unanswered
    <3> QED BY <1>1, <1>4, <1>5, <1>7, <2>4, <3>2
  <2> QED BY <2>3, <2>4
<1>13. Right'
  <2> SUFFICES ASSUME NEW r \in Slots, NEW u \in Transfer_ID, Joined(r), Own(r, u)', NEW x \in Client_ID
               PROVE  RightIn(msg_queue'[r], Host(r, u), transfer_clients', u, x)
    <3>1. \A r \in Slots, u \in Transfer_ID : Host(r, u)' = Host(r, u)
      BY <1>1 DEF Host
    <3>2. \A r \in Slots, u \in Transfer_ID : (Joined(r) /\ Own(r, u)') =>
             \A x \in Client_ID : RightIn(msg_queue'[r], Host(r, u)', transfer_clients', u, x)
      BY <3>1
    <3> QED BY <1>3, <3>2, AnswersPrimed DEF Right
  <2>1. /\ Cancels(msg_queue'[r], u, x) = Cancels(msg_queue[r], u, x)
        /\ Accepts(msg_queue'[r], u, x) = Accepts(msg_queue[r], u, x)
    BY OffersOthers
  <2>2. CASE u = t
    BY <1>8, <2>1, <2>2 DEF RightIn
  <2>3. CASE u # t
    <3>1. Own(r, u)
      BY <1>1, <1>4, <2>3 DEF Own
    <3>2. RightIn(msg_queue[r], Host(r, u), transfer_clients, u, x)
      BY <3>1 DEF AnswerInv, Right
    <3> QED BY <1>1, <2>1, <3>2 DEF RightIn
  <2> QED BY <2>2, <2>3
<1>14. ASSUME Guests PROVE Guests'
  <2> SUFFICES ASSUME NEW r \in Slots, NEW u \in Transfer_ID, Joined(r)
               PROVE  GuestIn(msg_queue'[r], asked'[r], joined'[r], transfer_clients', u, cid[r])
    BY <1>1, <1>3, AnswersPrimed DEF Guests
  <2>1. GuestIn(msg_queue[r], asked[r], joined[r], transfer_clients, u, cid[r])
    BY <1>14 DEF Guests
  <2>2. CASE u = t
    <3>1. At(msg_queue'[r], "REQUEST", t) # {} => Row(t, cid[r], -1) \in transfer_clients'
      BY <1>1, <1>2, <1>6, <1>8, <1>9
    <3> QED BY <1>1, <1>8, <2>2, <3>1 DEF GuestIn
  <2>3. CASE u # t
    <3>1. At(msg_queue'[r], "REQUEST", u) = At(msg_queue[r], "REQUEST", u)
      BY <1>9, <2>3
    <3>2. \A type \in {"CANCEL", "COMPLETE"} : At(msg_queue'[r], type, u) = At(msg_queue[r], type, u)
      BY OffersOthers
    <3> QED BY <1>1, <2>1, <3>1, <3>2 DEF GuestIn
  <2> QED BY <2>2, <2>3
<1> QED BY <1>10, <1>11, <1>12, <1>13, <1>14 DEF AnswerInv

(***************************************************************************)
(* Every step.                                                             *)
(***************************************************************************)
LEMMA AnswerStep ==
  ASSUME TypeOK, TablesInv, TalkInv, AnswerInv, NumbersFree, OneEach, [Next]_vars
  PROVE  AnswerInv' /\ (PromptAnswers /\ Guests => Guests')
<1>1. OneRow /\ Once /\ Unanswered /\ Right /\ Strangers
  BY DEF AnswerInv, TalkInv
<1>2. CASE ProcessEnds
  <2>1. \A s \in Slots : ~Joined(s)'
    BY <1>2, AllGone
  <2>2. OneRow'
    BY <1>1, HandlerTables, OneRowStep
  <2> QED BY <2>1, <2>2 DEF AnswerInv, Once, Unanswered, Right, Guests
<1>3. CASE Lessens /\ Tells
  BY <1>1, <1>3, OneRowLessen, OnceLessen, UnansweredLessen, RightLessen, GuestsLessen DEF AnswerInv
<1>4. ASSUME NEW s \in Slots, write_data(s) PROVE AnswerInv' /\ (PromptAnswers /\ Guests => Guests')
  BY <1>4, ReadKeepsAnswers
<1>5. ASSUME NEW s \in Slots, NEW t \in Transfer_ID, NEW to \in SUBSET user_list[s], Offers(s, t, to)
      PROVE  AnswerInv' /\ (PromptAnswers /\ Guests => Guests')
  BY <1>5, OffersKeepAnswers
<1> QED BY <1>1, <1>2, <1>3, <1>4, <1>5, HandlersTell

LEMMA AnswerInvAlways ==
  DistinctSeconds => (Spec /\ [][NumbersFree]_vars /\ [][OneEach]_vars => []AnswerInv)
<1> SUFFICES ASSUME DistinctSeconds
             PROVE  Spec /\ [][NumbersFree]_vars /\ [][OneEach]_vars => []AnswerInv
  OBVIOUS
<1>1. Init => AnswerInv
  BY AnswerInit
<1>2. TypeOK /\ TablesInv /\ TalkInv /\ AnswerInv /\ [Next]_vars /\ [NumbersFree]_vars /\ [OneEach]_vars
        => AnswerInv'
  <2>1. UNCHANGED vars => NumbersFree /\ OneEach
    BY DEF vars, db, NumbersFree, OneEach
  <2> QED BY <2>1, AnswerStep
<1>3. Spec => []TablesInv
  BY TablesInvAlways
<1>4. Spec /\ [][NumbersFree]_vars => []TalkInv
  BY TalkInvAlways
<1> QED BY <1>1, <1>2, <1>3, <1>4, Typing, PTL DEF Spec

\* net_packet.c:362-366: the clients packet_data sends to, those with accepted
\* = 1, are those the host counts on, but for the cancel that is on its way to
\* it; and whom the host heard of has no row that waits for an answer.
THEOREM HostsAgree ==
  DistinctSeconds => (Spec /\ [][NumbersFree]_vars /\ [][OneEach]_vars => []HostAgrees)
<1> SUFFICES ASSUME DistinctSeconds
             PROVE  Spec /\ [][NumbersFree]_vars /\ [][OneEach]_vars => []HostAgrees
  OBVIOUS
<1>1. TypeOK /\ TalkInv /\ AnswerInv => HostAgrees
  <2> SUFFICES ASSUME TypeOK, TalkInv, AnswerInv, NEW s \in Slots, Joined(s), NEW h \in hosting[s]
               PROVE  /\ h.accepted = 1 =>
                            \/ [h EXCEPT !.accepted = 1] \in transfer_clients
                            \/ \E i \in Queued(s, "CANCEL") :
                                  msg_queue[s][i] = Cancel(h.transfer_id, h.client_id)
                      /\ [h EXCEPT !.accepted = -1] \in transfer_clients => h.accepted = -1
    BY DEF HostAgrees, Joined
  <2> DEFINE t == h.transfer_id
             x == h.client_id
  <2>1. /\ t \in Transfer_ID /\ x \in Client_ID
        /\ \A a : [h EXCEPT !.accepted = a] = Row(t, x, a)
    <3>1. h \in ClientRow
      BY DEF TypeOK
    <3> QED BY <3>1 DEF ClientRow, Row
  <2>2. h \in Host(s, t)
    BY DEF Host
  <2>3. [h EXCEPT !.accepted = -1] \in transfer_clients => h.accepted = -1
    BY <2>1 DEF TalkInv, Heard
  <2>4. ASSUME h.accepted = 1, Row(t, x, 1) \notin transfer_clients
        PROVE  \E i \in Queued(s, "CANCEL") : msg_queue[s][i] = Cancel(t, x)
    <3>1. Own(s, t)
      BY <2>1, <2>2 DEF TalkInv, Hosts, HostsAt
    <3>2. RightIn(msg_queue[s], Host(s, t), transfer_clients, t, x)
      BY <2>1, <3>1 DEF AnswerInv, Right
    <3>3. Cancels(msg_queue[s], t, x) # {}
      BY <2>2, <2>4, <3>2 DEF RightIn
    <3>4. Cancel(t, x).type = "CANCEL"
      BY DEF Cancel, Pkt
    <3> QED BY <3>3, <3>4 DEF Cancels, Queued
  <2> QED BY <2>1, <2>3, <2>4
<1>2. Spec /\ [][NumbersFree]_vars => []TalkInv
  BY TalkInvAlways
<1> QED BY <1>1, <1>2, AnswerInvAlways, Typing, PTL

\* net_packet.c:236-301 and net_close.c:83-91: a client that was asked, or that
\* agreed, has its row, or the cancel or the completion that ends its wait is
\* queued for it, when clients answer what they are asked about transfers of
\* others.
THEOREM NobodyWaitsInVain ==
  DistinctSeconds /\ PromptAnswers =>
    (Spec /\ [][NumbersFree]_vars /\ [][OneEach]_vars => []NoOrphanReceiver)
<1> SUFFICES ASSUME DistinctSeconds, PromptAnswers
             PROVE  Spec /\ [][NumbersFree]_vars /\ [][OneEach]_vars => []NoOrphanReceiver
  OBVIOUS
<1>1. Init => Guests
  BY AnswerInit
<1>2. TypeOK /\ TablesInv /\ TalkInv /\ AnswerInv /\ Guests
        /\ [Next]_vars /\ [NumbersFree]_vars /\ [OneEach]_vars => Guests'
  <2>1. UNCHANGED vars => NumbersFree /\ OneEach
    BY DEF vars, db, NumbersFree, OneEach
  <2> QED BY <2>1, AnswerStep
<1>3. TypeOK /\ Guests => NoOrphanReceiver
  <2> SUFFICES ASSUME TypeOK, Guests, NEW s \in Slots, Joined(s), NEW t \in asked[s] \cup joined[s]
               PROVE  \/ \E w \in Rows(t) : w.client_id = cid[s]
                      \/ \E i \in Queued(s, "CANCEL") \cup Queued(s, "COMPLETE") :
                            msg_queue[s][i].t_id = t
    BY DEF NoOrphanReceiver, Joined
  <2>1. t \in Transfer_ID
    BY DEF TypeOK
  <2>2. GuestIn(msg_queue[s], asked[s], joined[s], transfer_clients, t, cid[s])
    BY <2>1 DEF Guests
  <2>3. \/ \E a \in {-1, 1} : Row(t, cid[s], a) \in transfer_clients
        \/ At(msg_queue[s], "CANCEL", t) \cup At(msg_queue[s], "COMPLETE", t) # {}
    BY <2>2 DEF GuestIn
  <2>4. ASSUME NEW a, Row(t, cid[s], a) \in transfer_clients
        PROVE  \E w \in Rows(t) : w.client_id = cid[s]
    BY <2>4 DEF Row, Rows
  <2> QED BY <2>3, <2>4 DEF At, Queued
<1>4. Spec => []TablesInv
  BY TablesInvAlways
<1>5. Spec /\ [][NumbersFree]_vars => []TalkInv
  BY TalkInvAlways
<1> QED BY <1>1, <1>2, <1>3, <1>4, <1>5, AnswerInvAlways, Typing, PTL DEF Spec
=============================================================================
