--------------------------- MODULE QsServerProofs ---------------------------
(***************************************************************************)
(* Theorems about QsServer for every size of the client table and of the   *)
(* queues, every set of session keys and every bound: its types, its       *)
(* tables, and what the clients know of each other.  The rosters need that *)
(* no two clients connect in the same second (the id of a client is the    *)
(* second of its accept, client.c:59).                                     *)
(***************************************************************************)
EXTENDS QsServer, FiniteSetTheorems, SequenceTheorems, TLAPS

(***************************************************************************)
(* Types of the packets and of what the handlers put on the queues.        *)
(***************************************************************************)
QueueType  == msg_queue \in [Slots -> Seq(Packet)]
TableType  == /\ cstate \in [Slots -> ClientState]
              /\ cid \in [Slots -> Client_ID]
              /\ csession \in [Slots -> Session_ID]
DbType     == /\ sessions \subseteq SessionNames
              /\ transfers \subseteq TransferRow
              /\ transfer_clients \subseteq ClientRow
ClientType == /\ user_list \in [Slots -> SUBSET Client_ID]
              /\ hosting \in [Slots -> SUBSET ClientRow]
              /\ asked \in [Slots -> SUBSET Transfer_ID]
              /\ joined \in [Slots -> SUBSET Transfer_ID]
EnvType    == /\ running \in BOOLEAN
              /\ last_id \in Client_ID /\ boot_id \in Client_ID
              /\ requests \in 0 .. MaxRequests

LEMMA TypeParts == TypeOK <=> QueueType /\ TableType /\ DbType /\ ClientType /\ EnvType
  BY DEF TypeOK, QueueType, TableType, DbType, ClientType, EnvType

LEMMA PktType ==
  ASSUME NEW type \in ServerPacket, NEW t \in Transfer_ID, NEW from \in Client_ID,
         NEW ids \in SUBSET Client_ID, NEW accept \in BOOLEAN
  PROVE  Pkt(type, t, from, ids, accept) \in Packet
  BY DEF Pkt, Packet

LEMMA ZeroTypes == 0 \in Transfer_ID /\ 0 \in Client_ID
  BY ServerAssumption DEF Transfer_ID, Client_ID

LEMMA OneType ==
  ASSUME NEW b \in BOOLEAN, NEW p \in Packet PROVE One(b, p) \in Seq(Packet)
  BY DEF One

LEMMA EnqueueType ==
  ASSUME QueueType, NEW out \in [Slots -> Seq(Packet)], Enqueue(out)
  PROVE  QueueType'
  BY ConcatProperties DEF QueueType, Enqueue

LEMMA ProcessEndsType ==
  ASSUME TypeOK, ProcessEnds PROVE (QueueType /\ TableType /\ ClientType /\ EnvType)'
<1>1. QueueType' /\ TableType'
  BY ServerAssumption DEF ProcessEnds, QueueType, TableType, ClientState, Client_ID, Session_ID
<1>2. ClientType' /\ EnvType'
  BY DEF TypeOK, ProcessEnds, ClientType, EnvType
<1> QED BY <1>1, <1>2

\* SetToSeq chooses an enumeration of the set, and a finite set has one.
LEMMA SetToSeqType ==
  ASSUME NEW S, IsFiniteSet(S), S \subseteq Packet PROVE SetToSeq(S) \in Seq(Packet)
<1>1. PICK f : f \in Bijection(1 .. Cardinality(S), S)
  BY FS_CardinalityType DEF ExistsBijection
<1>2. f \in [1 .. Cardinality(S) -> S] /\ IsInjective(f)
  BY <1>1 DEF Bijection, Injection
<1>3. SetToSeq(S) \in [1 .. Cardinality(S) -> S]
  BY <1>2 DEF SetToSeq
<1>4. Cardinality(S) \in Nat
  BY FS_CardinalityType
<1> QED BY <1>3, <1>4, IsASeq

\* The CANCELs a handler sends are finitely many: one for a transfer.
LEMMA CancelsType ==
  ASSUME NEW T \in SUBSET Transfer_ID, NEW x \in Client_ID
  PROVE  /\ IsFiniteSet({Cancel(t, x) : t \in T})
         /\ {Cancel(t, x) : t \in T} \subseteq Packet
<1>1. IsFiniteSet(T)
  <2>1. IsFiniteSet(Transfer_ID)
    BY FS_Interval, ServerAssumption DEF Transfer_ID
  <2> QED BY <2>1, FS_Subset
<1> DEFINE f == [t \in T |-> Cancel(t, x)]
<1>2. f \in Surjection(T, {Cancel(t, x) : t \in T})
  BY DEF Surjection
<1>3. IsFiniteSet({Cancel(t, x) : t \in T})
  BY <1>1, <1>2, FS_Surjection
<1>4. ASSUME NEW t \in T PROVE Cancel(t, x) \in Packet
  BY PktType DEF Cancel, ServerPacket
<1> QED BY <1>3, <1>4

-----------------------------------------------------------------------------
(***************************************************************************)
(* Every handler keeps the types.                                          *)
(***************************************************************************)
LEMMA AcceptType == ASSUME TypeOK, NEW s \in Slots, accept_client(s) PROVE TypeOK'
<1>1. \A now \in Seconds : now \in Client_ID
  BY ServerAssumption DEF TypeOK, accept_client, Seconds, Client_ID
<1>2. QueueType'
  BY DEF TypeOK, accept_client, QueueType
<1>3. TableType' /\ EnvType'
  BY <1>1 DEF TypeOK, accept_client, TableType, EnvType, ClientState, Session_ID
<1>4. DbType' /\ ClientType'
  BY DEF TypeOK, accept_client, db, client, DbType, ClientType
<1> QED BY <1>2, <1>3, <1>4 DEF TypeOK, QueueType, TableType, DbType, ClientType, EnvType

LEMMA HandshakeType == ASSUME TypeOK, NEW s \in Slots, complete_handshake(s) PROVE TypeOK'
  BY DEF TypeOK, complete_handshake, db, client, env, ClientState

LEMMA IntroType ==
  ASSUME TypeOK, NEW s \in Slots, NEW create \in BOOLEAN, NEW key \in SessionNames,
         packet_intro(s, create, key)
  PROVE  TypeOK'
<1> DEFINE known == IF create THEN key \notin sessions ELSE key \in sessions
           join  == JoinPackets(s, key)
           deny  == [r \in Slots |-> One(r = s, Response("DENY"))]
<1>1. deny \in [Slots -> Seq(Packet)]
  <2>1. Response("DENY") \in Packet
    BY PktType, ZeroTypes DEF Response, ServerPacket
  <2> QED BY <2>1, OneType
<1>2. join \in [Slots -> Seq(Packet)]
  <2> DEFINE mates == Mates(s, key)
  <2>1. Ids(mates) \subseteq Client_ID /\ {cid[s]} \subseteq Client_ID
    BY DEF TypeOK, Ids, Mates
  <2>2. /\ Response("OK") \in Packet
        /\ Users("NEW_USERS", Ids(mates)) \in Packet
        /\ Users("NEW_USERS", {cid[s]}) \in Packet
    BY <2>1, PktType, ZeroTypes DEF Response, Users, ServerPacket
  <2> HIDE DEF mates
  <2>3. /\ <<Response("OK")>> \in Seq(Packet)
        /\ One(mates # {}, Users("NEW_USERS", Ids(mates))) \in Seq(Packet)
    <3>1. (mates # {}) \in BOOLEAN
      OBVIOUS
    <3>2. One(mates # {}, Users("NEW_USERS", Ids(mates))) \in Seq(Packet)
      BY <3>1, <2>2, OneType
    <3>3. \A p \in Packet : <<p>> \in Seq(Packet)
      OBVIOUS
    <3> QED BY <3>2, <3>3, <2>2
  <2>4. <<Response("OK")>> \o One(mates # {}, Users("NEW_USERS", Ids(mates))) \in Seq(Packet)
    BY <2>3, ConcatProperties
  <2>5. ASSUME NEW r \in Slots
        PROVE  One(r \in mates, Users("NEW_USERS", {cid[s]})) \in Seq(Packet)
    <3>1. (r \in mates) \in BOOLEAN
      OBVIOUS
    <3> QED BY <3>1, <2>2, OneType
  <2> QED BY <2>4, <2>5 DEF JoinPackets, mates
<1> HIDE DEF join, deny
<1>3. packet_intro(s, create, key) =>
        \/ /\ IF Fits(deny) THEN Enqueue(deny) /\ UNCHANGED <<table, client, env>>
              ELSE ProcessEnds
           /\ UNCHANGED db
        \/ /\ sessions' = IF create THEN sessions \cup {key} ELSE sessions
           /\ IF Fits(join)
              THEN /\ Enqueue(join)
                   /\ cstate' = [cstate EXCEPT ![s] = "C_COMPLETE"]
                   /\ csession' = [csession EXCEPT ![s] = key]
                   /\ UNCHANGED <<cid, client, env>>
              ELSE ProcessEnds
           /\ UNCHANGED <<transfers, transfer_clients>>
  BY DEF packet_intro, join, deny
<1>4. DbType'
  BY <1>3 DEF TypeOK, DbType, db
<1>5. CASE ProcessEnds
  BY <1>4, <1>5, ProcessEndsType, TypeParts DEF TypeOK, QueueType, TableType, DbType, ClientType, EnvType
<1>6. CASE ~ProcessEnds
  <2>1. QueueType'
    BY <1>1, <1>2, <1>3, <1>6, EnqueueType DEF TypeOK, QueueType
  <2>2. TableType' /\ ClientType' /\ EnvType'
    BY <1>3, <1>6 DEF TypeOK, TableType, ClientType, EnvType, table, client, env, ClientState, Session_ID
  <2> QED BY <2>1, <2>2, <1>4 DEF TypeOK, QueueType, TableType, DbType, ClientType, EnvType
<1> QED BY <1>5, <1>6

\* The two ends of a handler: the process is gone, or packets are sent.
LEMMA EndsType == ASSUME TypeOK, DbType', ProcessEnds PROVE TypeOK'
  BY ProcessEndsType DEF TypeOK, QueueType, TableType, DbType, ClientType, EnvType

LEMMA SendsType ==
  ASSUME TypeOK, NEW out \in [Slots -> Seq(Packet)], Enqueue(out),
         DbType', TableType', ClientType', EnvType'
  PROVE  TypeOK'
<1>1. QueueType'
  BY EnqueueType DEF TypeOK, QueueType
<1> QED BY <1>1 DEF TypeOK, QueueType, TableType, DbType, ClientType, EnvType

LEMMA TransferType ==
  ASSUME TypeOK, NEW s \in Slots, NEW to \in SUBSET user_list[s], packet_transfer(s, to)
  PROVE  TypeOK'
<1> DEFINE invalid == [r \in Slots |-> One(r = s, Response("INVALID"))]
           valid(t) == [r \in Slots |->
             One(r = s, Pkt("VALID", t, 0, to, FALSE)) \o
             One(\E x \in to : client_find_by_id(r, x), Pkt("REQUEST", t, cid[s], to, FALSE))]
<1>1. to \subseteq Client_ID /\ cid[s] \in Client_ID
  BY DEF TypeOK
<1>2. invalid \in [Slots -> Seq(Packet)]
  <2>1. Response("INVALID") \in Packet
    BY PktType, ZeroTypes DEF Response, ServerPacket
  <2> QED BY <2>1, OneType
<1>3. ASSUME NEW t \in Transfer_ID PROVE valid(t) \in [Slots -> Seq(Packet)]
  <2>1. /\ Pkt("VALID", t, 0, to, FALSE) \in Packet
        /\ Pkt("REQUEST", t, cid[s], to, FALSE) \in Packet
    BY <1>1, PktType, ZeroTypes DEF ServerPacket
  <2>2. ASSUME NEW r \in Slots PROVE valid(t)[r] \in Seq(Packet)
    <3>1. /\ (r = s) \in BOOLEAN
          /\ (\E x \in to : client_find_by_id(r, x)) \in BOOLEAN
      OBVIOUS
    <3>2. /\ One(r = s, Pkt("VALID", t, 0, to, FALSE)) \in Seq(Packet)
          /\ One(\E x \in to : client_find_by_id(r, x),
                 Pkt("REQUEST", t, cid[s], to, FALSE)) \in Seq(Packet)
      BY <2>1, <3>1, OneType
    <3> QED BY <3>2, ConcatProperties
  <2> QED BY <2>2
<1> HIDE DEF invalid, valid
<1>4. \/ /\ IF Fits(invalid)
            THEN Enqueue(invalid) /\ requests' = requests + 1
                 /\ UNCHANGED <<table, client, running, last_id, boot_id>>
            ELSE ProcessEnds
         /\ UNCHANGED db
      \/ /\ \E t \in Transfer_ID :
             /\ transfers' = transfers \cup {[transfer_id |-> t, creator_id |-> cid[s]]}
             /\ transfer_clients' = transfer_clients \cup
                   [transfer_id : {t}, client_id : to, accepted : {-1}]
             /\ IF Fits(valid(t))
                THEN Enqueue(valid(t)) /\ requests' = requests + 1
                     /\ UNCHANGED <<table, client, running, last_id, boot_id>>
                ELSE ProcessEnds
         /\ UNCHANGED sessions
  BY DEF packet_transfer, invalid, valid
<1>5. DbType'
  <2>1. CASE UNCHANGED db
    BY <2>1 DEF TypeOK, DbType, db
  <2>2. ASSUME NEW t \in Transfer_ID, UNCHANGED sessions,
               transfers' = transfers \cup {[transfer_id |-> t, creator_id |-> cid[s]]},
               transfer_clients' = transfer_clients \cup
                   [transfer_id : {t}, client_id : to, accepted : {-1}]
        PROVE  DbType'
    BY <1>1, <2>2 DEF TypeOK, DbType, TransferRow, ClientRow, Accepted
  <2> QED BY <1>4, <2>1, <2>2
<1>6. requests < MaxRequests
  BY DEF packet_transfer
<1>7. ASSUME NEW out \in [Slots -> Seq(Packet)], Enqueue(out), requests' = requests + 1,
             UNCHANGED <<table, client, running, last_id, boot_id>>
      PROVE  TypeOK'
  <2>1. TableType' /\ ClientType'
    BY <1>7 DEF TypeOK, TableType, ClientType, table, client
  <2>2. EnvType'
    BY <1>6, <1>7, ServerAssumption DEF TypeOK, EnvType
  <2> QED BY <1>5, <1>7, <2>1, <2>2, SendsType
<1>8. CASE ProcessEnds
  BY <1>5, <1>8, EndsType
<1>9. CASE ~ProcessEnds
  <2>1. \E out \in [Slots -> Seq(Packet)] :
           Enqueue(out) /\ requests' = requests + 1
           /\ UNCHANGED <<table, client, running, last_id, boot_id>>
    BY <1>2, <1>3, <1>4, <1>9
  <2> QED BY <1>7, <2>1
<1> QED BY <1>8, <1>9

LEMMA ReplyType ==
  ASSUME TypeOK, NEW s \in Slots, NEW t \in Transfer_ID, NEW accept \in BOOLEAN,
         packet_reply(s, t, accept)
  PROVE  TypeOK'
<1> DEFINE out == [r \in Slots |->
                     One(\E x \in CreatorOf(t) : client_find_by_id(r, x),
                         Pkt("REPLY", t, cid[s], {}, accept))]
           answer == IF accept THEN 1 ELSE 0
<1>1. out \in [Slots -> Seq(Packet)]
  <2>1. Pkt("REPLY", t, cid[s], {}, accept) \in Packet
    BY PktType DEF TypeOK, ServerPacket
  <2>2. ASSUME NEW r \in Slots PROVE (\E x \in CreatorOf(t) : client_find_by_id(r, x)) \in BOOLEAN
    OBVIOUS
  <2> QED BY <2>1, <2>2, OneType
<1> HIDE DEF out
<1>2. /\ transfer_clients' = db_client_accept(s, t, answer)
      /\ \/ /\ Enqueue(out)
            /\ asked' = [asked EXCEPT ![s] = @ \ {t}]
            /\ joined' = [joined EXCEPT ![s] = IF accept THEN @ \cup {t} ELSE @]
            /\ UNCHANGED <<table, user_list, hosting, env>>
         \/ ProcessEnds
      /\ UNCHANGED <<sessions, transfers>>
  BY DEF packet_reply, out
<1>3. DbType'
  <2>1. answer \in Accepted
    BY DEF Accepted
  <2>2. db_client_accept(s, t, answer) \subseteq ClientRow
    BY <2>1 DEF TypeOK, db_client_accept, Rows, ClientRow
  <2> QED BY <1>2, <2>2 DEF TypeOK, DbType
<1>4. CASE ProcessEnds
  BY <1>3, <1>4, EndsType
<1>5. CASE ~ProcessEnds
  <2>1. TableType' /\ EnvType'
    BY <1>2, <1>5 DEF TypeOK, TableType, EnvType, table, env
  <2>2. /\ asked[s] \ {t} \in SUBSET Transfer_ID
        /\ (IF accept THEN joined[s] \cup {t} ELSE joined[s]) \in SUBSET Transfer_ID
        /\ asked \in [Slots -> SUBSET Transfer_ID]
        /\ joined \in [Slots -> SUBSET Transfer_ID]
    BY DEF TypeOK
  <2>3. asked' \in [Slots -> SUBSET Transfer_ID] /\ joined' \in [Slots -> SUBSET Transfer_ID]
    BY <1>2, <1>5, <2>2
  <2>4. ClientType'
    BY <1>2, <1>5, <2>3 DEF TypeOK, ClientType
  <2> QED BY <1>1, <1>2, <1>3, <1>5, <2>1, <2>4, SendsType
<1> QED BY <1>4, <1>5

LEMMA ToAcceptedType ==
  ASSUME TypeOK, NEW t \in Transfer_ID, NEW p \in Packet
  PROVE  ToAccepted(t, p) \in [Slots -> Seq(Packet)]
<1>1. ASSUME NEW r \in Slots
      PROVE  One(\E w \in Rows(t) : w.accepted = 1 /\ client_find_by_id(r, w.client_id), p)
                \in Seq(Packet)
  <2>1. (\E w \in Rows(t) : w.accepted = 1 /\ client_find_by_id(r, w.client_id)) \in BOOLEAN
    OBVIOUS
  <2> QED BY <2>1, OneType
<1> QED BY <1>1 DEF ToAccepted

LEMMA DataType ==
  ASSUME TypeOK, NEW s \in Slots, NEW t \in Transfer_ID, packet_data(s, t) PROVE TypeOK'
<1> DEFINE out == ToAccepted(t, Transfer("DATA", t))
<1>1. out \in [Slots -> Seq(Packet)]
  <2>1. Transfer("DATA", t) \in Packet
    BY PktType, ZeroTypes DEF Transfer, ServerPacket
  <2> QED BY <2>1, ToAcceptedType
<1> HIDE DEF out
<1>2. /\ \/ Enqueue(out) /\ UNCHANGED <<table, client, env>>
         \/ ProcessEnds
      /\ UNCHANGED db
  BY DEF packet_data, out
<1>3. DbType'
  BY <1>2 DEF TypeOK, DbType, db
<1>4. CASE ProcessEnds
  BY <1>3, <1>4, EndsType
<1>5. CASE ~ProcessEnds
  <2>1. TableType' /\ EnvType' /\ ClientType'
    BY <1>2, <1>5 DEF TypeOK, TableType, EnvType, ClientType, table, env, client
  <2> QED BY <1>1, <1>2, <1>3, <1>5, <2>1, SendsType
<1> QED BY <1>4, <1>5

LEMMA CompleteType ==
  ASSUME TypeOK, NEW s \in Slots, NEW t \in Transfer_ID, packet_complete(s, t) PROVE TypeOK'
<1> DEFINE mine == {t} \cap Hosted(s)
           sent == ToAccepted(t, Transfer("COMPLETE", t))
           out  == [r \in Slots |-> IF mine = {} THEN << >> ELSE sent[r]]
<1>1. out \in [Slots -> Seq(Packet)]
  <2>1. Transfer("COMPLETE", t) \in Packet
    BY PktType, ZeroTypes DEF Transfer, ServerPacket
  <2>2. sent \in [Slots -> Seq(Packet)]
    BY <2>1, ToAcceptedType
  <2>3. << >> \in Seq(Packet)
    OBVIOUS
  <2> HIDE DEF sent, mine
  <2> QED BY <2>2, <2>3
<1> HIDE DEF out, mine
<1>2. /\ \/ /\ Enqueue(out)
            /\ cleanup(mine)
            /\ hosting' = [hosting EXCEPT ![s] = @ \ Host(s, t)]
            /\ UNCHANGED <<table, user_list, asked, joined, env>>
         \/ ProcessEnds /\ UNCHANGED <<transfers, transfer_clients>>
      /\ UNCHANGED sessions
  BY DEF packet_complete, out, mine
<1>3. DbType'
  BY <1>2 DEF TypeOK, DbType, cleanup
<1>4. CASE ProcessEnds
  BY <1>3, <1>4, EndsType
<1>5. CASE ~ProcessEnds
  <2>1. TableType' /\ EnvType'
    BY <1>2, <1>5 DEF TypeOK, TableType, EnvType, table, env
  <2>2. hosting[s] \ Host(s, t) \in SUBSET ClientRow
    BY DEF TypeOK
  <2>3. ClientType'
    BY <1>2, <1>5, <2>2 DEF TypeOK, ClientType
  <2> QED BY <1>1, <1>2, <1>3, <1>5, <2>1, <2>3, SendsType
<1> QED BY <1>4, <1>5

\* The CANCELs are sent in the order of some enumeration.
LEMMA CancelSeqType ==
  ASSUME TypeOK, NEW s \in Slots, NEW T \in SUBSET Transfer_ID, NEW r \in Slots
  PROVE  /\ SetToSeq(CreatorCancels(s, T)[r]) \in Seq(Packet)
         /\ SetToSeq(RecipientCancels(s, T)[r]) \in Seq(Packet)
<1> DEFINE A == {u \in T : \E w \in Rows(u) : w.accepted # 0 /\ client_find_by_id(r, w.client_id)}
           B == {u \in T : \E x \in CreatorOf(u) : client_find_by_id(r, x)}
<1>1. A \in SUBSET Transfer_ID /\ B \in SUBSET Transfer_ID /\ cid[s] \in Client_ID
  BY DEF TypeOK
<1>2. /\ CreatorCancels(s, T)[r] = {Cancel(t, cid[s]) : t \in A}
      /\ RecipientCancels(s, T)[r] = {Cancel(t, cid[s]) : t \in B}
  BY DEF CreatorCancels, RecipientCancels
<1> HIDE DEF A, B
<1>3. /\ IsFiniteSet({Cancel(t, cid[s]) : t \in A})
      /\ {Cancel(t, cid[s]) : t \in A} \subseteq Packet
  BY <1>1, CancelsType
<1>4. /\ IsFiniteSet({Cancel(t, cid[s]) : t \in B})
      /\ {Cancel(t, cid[s]) : t \in B} \subseteq Packet
  BY <1>1, CancelsType
<1>5. /\ SetToSeq({Cancel(t, cid[s]) : t \in A}) \in Seq(Packet)
      /\ SetToSeq({Cancel(t, cid[s]) : t \in B}) \in Seq(Packet)
  BY <1>3, <1>4, SetToSeqType
<1> QED BY <1>2, <1>5

LEMMA HostedType ==
  ASSUME TypeOK, NEW s \in Slots
  PROVE  Hosted(s) \in SUBSET Transfer_ID /\ Received(s) \in SUBSET Transfer_ID
  BY DEF TypeOK, Hosted, Received, TransferRow, ClientRow

LEMMA CancelType ==
  ASSUME TypeOK, NEW s \in Slots, NEW t \in Transfer_ID, packet_cancel(s, t) PROVE TypeOK'
<1> DEFINE recipient == t \in asked[s] \cup joined[s]
           mine == t \in Hosted(s)
           out == IF mine THEN CreatorCancels(s, {t})
                  ELSE RecipientCancels(s, {t} \cap Received(s))
           outseq == [r \in Slots |-> SetToSeq(out[r])]
           rows == IF t \in Received(s) /\ CreatorOf(t) # {} THEN db_client_delete(s)
                   ELSE transfer_clients
<1>1. outseq \in [Slots -> Seq(Packet)]
  <2> SUFFICES ASSUME NEW r \in Slots PROVE SetToSeq(out[r]) \in Seq(Packet)
    OBVIOUS
  <2>1. {t} \in SUBSET Transfer_ID /\ {t} \cap Received(s) \in SUBSET Transfer_ID
    OBVIOUS
  <2>2. CASE mine
    <3>1. out = CreatorCancels(s, {t})
      BY <2>2
    <3>2. SetToSeq(CreatorCancels(s, {t})[r]) \in Seq(Packet)
      BY <2>1, CancelSeqType
    <3> QED BY <3>1, <3>2
  <2>3. CASE ~mine
    <3>1. out = RecipientCancels(s, {t} \cap Received(s))
      BY <2>3
    <3>2. SetToSeq(RecipientCancels(s, {t} \cap Received(s))[r]) \in Seq(Packet)
      BY <2>1, CancelSeqType
    <3> QED BY <3>1, <3>2
  <2> QED BY <2>2, <2>3
<1>2. rows \subseteq ClientRow
  BY DEF TypeOK, db_client_delete
<1> HIDE DEF out, outseq, mine, rows, recipient
<1>3. /\ \/ ProcessEnds /\ UNCHANGED <<transfers, transfer_clients>>
         \/ /\ Enqueue(outseq)
            /\ IF mine THEN cleanup({t}) ELSE transfer_clients' = rows /\ UNCHANGED transfers
            /\ hosting' = [hosting EXCEPT ![s] = IF recipient THEN @ ELSE @ \ Host(s, t)]
            /\ asked' = [asked EXCEPT ![s] = @ \ {t}]
            /\ joined' = [joined EXCEPT ![s] = @ \ {t}]
            /\ UNCHANGED <<table, user_list, env>>
      /\ UNCHANGED sessions
  BY DEF packet_cancel, outseq, out, mine, rows, recipient
<1>4. DbType'
  BY <1>2, <1>3 DEF TypeOK, DbType, cleanup
<1>5. CASE ProcessEnds
  BY <1>4, <1>5, EndsType
<1>6. CASE ~ProcessEnds
  <2>1. TableType' /\ EnvType'
    BY <1>3, <1>6 DEF TypeOK, TableType, EnvType, table, env
  <2>2. /\ (IF recipient THEN hosting[s] ELSE hosting[s] \ Host(s, t)) \in SUBSET ClientRow
        /\ asked[s] \ {t} \in SUBSET Transfer_ID
        /\ joined[s] \ {t} \in SUBSET Transfer_ID
        /\ hosting \in [Slots -> SUBSET ClientRow]
        /\ asked \in [Slots -> SUBSET Transfer_ID]
        /\ joined \in [Slots -> SUBSET Transfer_ID]
    BY DEF TypeOK
  <2>3. /\ hosting' \in [Slots -> SUBSET ClientRow]
        /\ asked' \in [Slots -> SUBSET Transfer_ID]
        /\ joined' \in [Slots -> SUBSET Transfer_ID]
    BY <1>3, <1>6, <2>2
  <2>4. ClientType'
    BY <1>3, <1>6, <2>3 DEF TypeOK, ClientType
  <2> QED BY <1>1, <1>3, <1>4, <1>6, <2>1, <2>4, SendsType
<1> QED BY <1>5, <1>6

LEMMA CloseType ==
  ASSUME TypeOK, NEW s \in Slots, close_client(s) PROVE TypeOK'
<1> DEFINE complete == cstate[s] = "C_COMPLETE"
           gone == Hosted(s)
           asCreator == CreatorCancels(s, gone)
           asRecipient == RecipientCancels(s, Received(s) \ gone)
           cancels == [r \in Slots |->
             IF complete THEN SetToSeq(asCreator[r]) \o SetToSeq(asRecipient[r]) ELSE << >>]
           out == [r \in Slots |-> cancels[r] \o
             One(complete /\ SameSession(s, r, csession[s]), Users("DEL_USERS", {cid[s]}))]
<1>1. cancels \in [Slots -> Seq(Packet)]
  <2>1. gone \in SUBSET Transfer_ID /\ Received(s) \ gone \in SUBSET Transfer_ID
    BY HostedType
  <2> HIDE DEF gone
  <2>2. ASSUME NEW r \in Slots
        PROVE  SetToSeq(asCreator[r]) \o SetToSeq(asRecipient[r]) \in Seq(Packet)
    <3>1. SetToSeq(asCreator[r]) \in Seq(Packet) /\ SetToSeq(asRecipient[r]) \in Seq(Packet)
      BY <2>1, CancelSeqType
    <3> QED BY <3>1, ConcatProperties
  <2>3. << >> \in Seq(Packet)
    OBVIOUS
  <2> HIDE DEF asCreator, asRecipient, complete
  <2> QED BY <2>2, <2>3
<1> HIDE DEF cancels
<1>2. out \in [Slots -> Seq(Packet)]
  <2> SUFFICES ASSUME NEW r \in Slots
               PROVE  cancels[r] \o One(complete /\ SameSession(s, r, csession[s]),
                                        Users("DEL_USERS", {cid[s]})) \in Seq(Packet)
    OBVIOUS
  <2>1. Users("DEL_USERS", {cid[s]}) \in Packet
    BY PktType, ZeroTypes DEF TypeOK, Users, ServerPacket
  <2>2. (complete /\ SameSession(s, r, csession[s])) \in BOOLEAN
    OBVIOUS
  <2>3. One(complete /\ SameSession(s, r, csession[s]), Users("DEL_USERS", {cid[s]})) \in Seq(Packet)
    BY <2>1, <2>2, OneType
  <2>4. cancels[r] \in Seq(Packet)
    BY <1>1
  <2> QED BY <2>3, <2>4, ConcatProperties
<1> HIDE DEF out, gone
<1>3. /\ \/ /\ transfers' = {w \in transfers : w.transfer_id \notin gone}
            /\ transfer_clients' = {w \in db_client_delete(s) : w.transfer_id \notin gone}
         \/ UNCHANGED <<transfers, transfer_clients>>
      /\ UNCHANGED sessions
      /\ \/ /\ Enqueue(out)
            /\ cstate' = [cstate EXCEPT ![s] = "C_EMPTY"]
            /\ user_list' = [user_list EXCEPT ![s] = {}]
            /\ hosting' = [hosting EXCEPT ![s] = {}]
            /\ asked' = [asked EXCEPT ![s] = {}]
            /\ joined' = [joined EXCEPT ![s] = {}]
            /\ UNCHANGED <<cid, csession, env>>
         \/ ProcessEnds
  BY DEF close_client, out, cancels, gone
<1>4. DbType'
  BY <1>3 DEF TypeOK, DbType, db_client_delete
<1>5. CASE ProcessEnds
  BY <1>4, <1>5, EndsType
<1>6. CASE ~ProcessEnds
  <2>1. TableType' /\ ClientType' /\ EnvType'
    BY <1>3, <1>6 DEF TypeOK, TableType, ClientType, EnvType, env, ClientState
  <2> QED BY <1>2, <1>3, <1>4, <1>6, <2>1, SendsType
<1> QED BY <1>5, <1>6

LEMMA ShownType ==
  ASSUME TypeOK, NEW s \in Slots, NEW p \in Packet
  PROVE  shown(s, p) \in SUBSET Client_ID
  BY DEF TypeOK, shown, Packet

LEMMA SetRequestType ==
  ASSUME TypeOK, NEW s \in Slots, NEW t \in Transfer_ID, NEW x \in Client_ID,
         NEW answer \in Accepted
  PROVE  set_request(s, t, x, answer) \in SUBSET ClientRow
  BY DEF TypeOK, set_request, Host, ClientRow

LEMMA HostedListType ==
  ASSUME TypeOK, NEW s \in Slots, NEW p \in Packet
  PROVE  hosted(s, p) \in SUBSET ClientRow
<1>1. /\ p.t_id \in Transfer_ID /\ p.from \in Client_ID /\ p.ids \in SUBSET Client_ID
      /\ hosting[s] \in SUBSET ClientRow
  BY DEF TypeOK, Packet
<1>2. [transfer_id : {p.t_id}, client_id : p.ids, accepted : {-1}] \in SUBSET ClientRow
  BY <1>1 DEF ClientRow, Accepted
<1>3. /\ set_request(s, p.t_id, p.from, IF p.accept THEN 1 ELSE 0) \in SUBSET ClientRow
      /\ set_request(s, p.t_id, p.from, 0) \in SUBSET ClientRow
  BY <1>1, SetRequestType DEF Accepted
<1> QED BY <1>1, <1>2, <1>3 DEF hosted

LEMMA WriteType == ASSUME TypeOK, NEW s \in Slots, write_data(s) PROVE TypeOK'
<1> DEFINE p == Head(msg_queue[s])
<1>1. /\ msg_queue[s] \in Seq(Packet) /\ msg_queue[s] # << >>
  BY DEF TypeOK, write_data
<1>2. p \in Packet /\ Tail(msg_queue[s]) \in Seq(Packet)
  BY <1>1
<1>3. hosted(s, p) \in SUBSET ClientRow /\ shown(s, p) \in SUBSET Client_ID
  BY <1>2, HostedListType, ShownType
<1>4. p.t_id \in Transfer_ID
  BY <1>2 DEF Packet
<1> HIDE DEF p
<1>5. /\ msg_queue' = [msg_queue EXCEPT ![s] = Tail(msg_queue[s])]
      /\ user_list' = [user_list EXCEPT ![s] = shown(s, p)]
      /\ UNCHANGED <<table, db, env>>
  BY DEF write_data, p
<1>6. QueueType' /\ TableType' /\ DbType' /\ EnvType'
  BY <1>2, <1>5 DEF TypeOK, QueueType, TableType, DbType, EnvType, table, db, env
<1>7. user_list' \in [Slots -> SUBSET Client_ID]
  BY <1>3, <1>5 DEF TypeOK
<1>8. hosting' \in [Slots -> SUBSET ClientRow]
  <2>1. hosting' = [hosting EXCEPT ![s] = hosted(s, p)] \/ hosting' = hosting
    BY DEF write_data, forget, p
  <2> QED BY <2>1, <1>3 DEF TypeOK
<1>9. asked' \in [Slots -> SUBSET Transfer_ID] /\ joined' \in [Slots -> SUBSET Transfer_ID]
  <2>1. /\ \E S \in SUBSET Transfer_ID : asked' = [asked EXCEPT ![s] = S]
        /\ \E S \in SUBSET Transfer_ID : joined' = [joined EXCEPT ![s] = S]
    <3>1. /\ asked[s] \in SUBSET Transfer_ID /\ joined[s] \in SUBSET Transfer_ID
          /\ asked = [asked EXCEPT ![s] = asked[s]]
          /\ joined = [joined EXCEPT ![s] = joined[s]]
      BY DEF TypeOK
    <3>2. CASE p.type = "CANCEL"
      <4>1. forget(s, p.t_id)
        BY <3>2 DEF write_data, p
      <4> QED BY <4>1, <3>1 DEF forget
    <3>3. CASE p.type # "CANCEL"
      <4>1. /\ asked' = [asked EXCEPT ![s] =
                  IF p.type = "REQUEST" THEN asked[s] \cup {p.t_id} ELSE asked[s]]
            /\ joined' = [joined EXCEPT ![s] =
                  IF p.type = "COMPLETE" THEN joined[s] \ {p.t_id} ELSE joined[s]]
        BY <3>3 DEF write_data, p
      <4>2. /\ (IF p.type = "REQUEST" THEN asked[s] \cup {p.t_id} ELSE asked[s])
                  \in SUBSET Transfer_ID
            /\ (IF p.type = "COMPLETE" THEN joined[s] \ {p.t_id} ELSE joined[s])
                  \in SUBSET Transfer_ID
        BY <3>1, <1>4
      <4> QED BY <4>1, <4>2
    <3> QED BY <3>2, <3>3
  <2> QED BY <2>1 DEF TypeOK
<1>10. ClientType'
  BY <1>7, <1>8, <1>9 DEF ClientType
<1> QED BY <1>6, <1>10 DEF TypeOK, QueueType, TableType, DbType, ClientType, EnvType

LEMMA StopStartType == TypeOK /\ (stop \/ start) => TypeOK'
<1>1. ASSUME TypeOK, stop PROVE TypeOK'
  <2>1. ProcessEnds /\ DbType'
    BY <1>1 DEF stop, TypeOK, DbType, db
  <2> QED BY <1>1, <2>1, EndsType
<1>2. ASSUME TypeOK, start PROVE TypeOK'
  BY <1>2 DEF start, TypeOK, table, db, client
<1> QED BY <1>1, <1>2

LEMMA InitType == Init => TypeOK
  BY ServerAssumption DEF Init, TypeOK, ClientState, Client_ID, Session_ID

LEMMA StepType == TypeOK /\ [Next]_vars => TypeOK'
<1> SUFFICES ASSUME TypeOK, [Next]_vars PROVE TypeOK'
  OBVIOUS
<1>1. CASE stop \/ start
  BY <1>1, StopStartType
<1>2. ASSUME NEW s \in Slots, accept_client(s) \/ complete_handshake(s) PROVE TypeOK'
  BY <1>2, AcceptType, HandshakeType
<1>3. ASSUME NEW s \in Slots, NEW create \in BOOLEAN, NEW key \in SessionNames,
             packet_intro(s, create, key)
      PROVE  TypeOK'
  BY <1>3, IntroType
<1>4. ASSUME NEW s \in Slots, NEW to \in SUBSET user_list[s], packet_transfer(s, to)
      PROVE  TypeOK'
  BY <1>4, TransferType
<1>5. ASSUME NEW s \in Slots, NEW t \in Transfer_ID, NEW accept \in BOOLEAN,
             packet_reply(s, t, accept)
      PROVE  TypeOK'
  BY <1>5, ReplyType
<1>6. ASSUME NEW s \in Slots, NEW t \in Transfer_ID,
             packet_data(s, t) \/ packet_complete(s, t) \/ packet_cancel(s, t)
      PROVE  TypeOK'
  BY <1>6, DataType, CompleteType, CancelType
<1>7. ASSUME NEW s \in Slots, close_client(s) \/ write_data(s) PROVE TypeOK'
  BY <1>7, CloseType, WriteType
<1>8. CASE UNCHANGED vars
  BY <1>8 DEF vars, table, db, client, env, TypeOK
<1> QED BY <1>1, <1>2, <1>3, <1>4, <1>5, <1>6, <1>7, <1>8 DEF Next

\* Every handler keeps the types of the table, the queues, the database and
\* what the clients know: ids stay inside their ranges, and a packet that is
\* queued has the fields its receiver reads.
THEOREM Typing == Spec => []TypeOK
  BY InitType, StepType, PTL DEF Spec

-----------------------------------------------------------------------------
(***************************************************************************)
(* The tables of transfers and of their participants.  Every handler does  *)
(* one of two things to them: it removes transfers, with the rows of their *)
(* participants, or it adds one with a number above those in use.          *)
(***************************************************************************)
Removes(T) ==
    /\ transfers' = {v \in transfers : v.transfer_id \notin T}
    /\ \A w \in transfer_clients' :
          /\ w.transfer_id \notin T
          /\ \E u \in transfer_clients : u.transfer_id = w.transfer_id /\ u.client_id = w.client_id

Adds(t, x) ==
    /\ \A v \in transfers : v.transfer_id < t
    /\ transfers' = transfers \cup {[transfer_id |-> t, creator_id |-> x]}
    /\ \A w \in transfer_clients' : w.transfer_id = t \/ w \in transfer_clients

TablesStep == (\E T : Removes(T)) \/ (\E t, x : Adds(t, x))

LEMMA SameTables == UNCHANGED <<transfers, transfer_clients>> => TablesStep
<1> SUFFICES ASSUME UNCHANGED <<transfers, transfer_clients>> PROVE Removes({})
  BY DEF TablesStep
<1> QED BY DEF Removes

LEMMA HandlerTables == TypeOK /\ [Next]_vars => TablesStep
<1> SUFFICES ASSUME TypeOK, [Next]_vars PROVE TablesStep
  OBVIOUS
<1>1. CASE \/ stop \/ start \/ UNCHANGED vars
           \/ \E s \in Slots : accept_client(s) \/ complete_handshake(s) \/ write_data(s)
  BY <1>1, SameTables DEF stop, start, vars, accept_client, complete_handshake, write_data, db
<1>2. ASSUME NEW s \in Slots, NEW create \in BOOLEAN, NEW key \in SessionNames,
             packet_intro(s, create, key)
      PROVE  TablesStep
  BY <1>2, SameTables DEF packet_intro, db
<1>3. ASSUME NEW s \in Slots, NEW to \in SUBSET user_list[s], packet_transfer(s, to)
      PROVE  TablesStep
  <2>1. CASE UNCHANGED db
    BY <2>1, SameTables DEF db
  <2>2. CASE ~UNCHANGED db
    <3>1. PICK t \in Transfer_ID :
             /\ NewRowid(t)
             /\ transfers' = transfers \cup {[transfer_id |-> t, creator_id |-> cid[s]]}
             /\ transfer_clients' = transfer_clients \cup
                   [transfer_id : {t}, client_id : to, accepted : {-1}]
      BY <1>3, <2>2 DEF packet_transfer
    <3>2. Adds(t, cid[s])
      BY <3>1 DEF Adds, NewRowid
    <3> QED BY <3>2 DEF TablesStep
  <2> QED BY <2>1, <2>2
<1>4. ASSUME NEW s \in Slots, NEW t \in Transfer_ID, NEW accept \in BOOLEAN,
             packet_reply(s, t, accept)
      PROVE  TablesStep
  <2>1. /\ transfer_clients' = db_client_accept(s, t, IF accept THEN 1 ELSE 0)
        /\ transfers' = transfers
    BY <1>4 DEF packet_reply
  <2>2. Removes({})
    BY <2>1 DEF Removes, db_client_accept, Rows
  <2> QED BY <2>2 DEF TablesStep
<1>5. ASSUME NEW s \in Slots, NEW t \in Transfer_ID, packet_data(s, t) PROVE TablesStep
  BY <1>5, SameTables DEF packet_data, db
<1>6. ASSUME NEW s \in Slots, NEW t \in Transfer_ID, packet_complete(s, t) PROVE TablesStep
  <2>1. UNCHANGED <<transfers, transfer_clients>> \/ cleanup({t} \cap Hosted(s))
    BY <1>6 DEF packet_complete
  <2>2. cleanup({t} \cap Hosted(s)) => Removes({t} \cap Hosted(s))
    BY DEF cleanup, Removes
  <2> QED BY <2>1, <2>2, SameTables DEF TablesStep
<1>7. ASSUME NEW s \in Slots, NEW t \in Transfer_ID, packet_cancel(s, t) PROVE TablesStep
  <2>1. \/ UNCHANGED <<transfers, transfer_clients>>
        \/ cleanup({t})
        \/ transfers' = transfers /\ transfer_clients' \subseteq transfer_clients
    BY <1>7 DEF packet_cancel, db_client_delete
  <2>2. cleanup({t}) => Removes({t})
    BY DEF cleanup, Removes
  <2>3. transfers' = transfers /\ transfer_clients' \subseteq transfer_clients => Removes({})
    BY DEF Removes
  <2> QED BY <2>1, <2>2, <2>3, SameTables DEF TablesStep
<1>8. ASSUME NEW s \in Slots, close_client(s) PROVE TablesStep
  <2>1. \/ UNCHANGED <<transfers, transfer_clients>>
        \/ /\ transfers' = {w \in transfers : w.transfer_id \notin Hosted(s)}
           /\ transfer_clients' = {w \in db_client_delete(s) : w.transfer_id \notin Hosted(s)}
    BY <1>8 DEF close_client
  <2>2. CASE /\ transfers' = {w \in transfers : w.transfer_id \notin Hosted(s)}
             /\ transfer_clients' = {w \in db_client_delete(s) : w.transfer_id \notin Hosted(s)}
    <3>1. Removes(Hosted(s))
      BY <2>2 DEF Removes, db_client_delete
    <3> QED BY <3>1 DEF TablesStep
  <2> QED BY <2>1, <2>2, SameTables
<1> QED BY <1>1, <1>2, <1>3, <1>4, <1>5, <1>6, <1>7, <1>8 DEF Next

LEMMA TablesInit == Init => RowsHaveTransfer
  BY DEF Init, RowsHaveTransfer

LEMMA RowsStep == RowsHaveTransfer /\ TablesStep => RowsHaveTransfer'
<1>1. ASSUME RowsHaveTransfer, NEW T, Removes(T) PROVE RowsHaveTransfer'
  <2>1. SUFFICES ASSUME NEW w \in transfer_clients'
                 PROVE  \E v \in transfers' : w.transfer_id = v.transfer_id
    BY DEF RowsHaveTransfer
  <2>2. PICK v \in transfers : w.transfer_id = v.transfer_id
    BY <1>1 DEF Removes, RowsHaveTransfer
  <2>3. v \in transfers'
    BY <1>1, <2>2 DEF Removes
  <2> QED BY <2>2, <2>3
<1>2. ASSUME RowsHaveTransfer, NEW t, NEW x, Adds(t, x) PROVE RowsHaveTransfer'
  <2>1. SUFFICES ASSUME NEW w \in transfer_clients'
                 PROVE  \E v \in transfers' : w.transfer_id = v.transfer_id
    BY DEF RowsHaveTransfer
  <2>2. CASE w.transfer_id = t
    <3>1. [transfer_id |-> t, creator_id |-> x] \in transfers'
      BY <1>2 DEF Adds
    <3> QED BY <2>2, <3>1
  <2>3. CASE w \in transfer_clients
    BY <1>2, <2>3 DEF Adds, RowsHaveTransfer
  <2> QED BY <1>2, <2>2, <2>3 DEF Adds
<1> QED BY <1>1, <1>2 DEF TablesStep

\* database.c: db_cleanup_transfer, and the two calls that delete by client,
\* leave no participant behind whose transfer is gone, so none is inherited by
\* a later transfer that gets the same rowid.
THEOREM NoOrphanRows == Spec => []RowsHaveTransfer
<1>1. TypeOK /\ RowsHaveTransfer /\ [Next]_vars => RowsHaveTransfer'
  BY HandlerTables, RowsStep
<1> QED BY <1>1, Typing, TablesInit, PTL DEF Spec

-----------------------------------------------------------------------------
(***************************************************************************)
(* Where a queue speaks of a client.                                       *)
(***************************************************************************)
About(q, type, x) == {i \in DOMAIN q : q[i].type = type /\ x \in q[i].ids}
Entering(q, x)    == About(q, "NEW_USERS", x)
Leaving(q, x)     == About(q, "DEL_USERS", x)

LEMMA ConcatAt ==
  ASSUME NEW S, NEW q \in Seq(S), NEW o \in Seq(S)
  PROVE  /\ q \o o \in Seq(S)
         /\ DOMAIN (q \o o) = 1 .. Len(q) + Len(o)
         /\ \A i \in DOMAIN q : (q \o o)[i] = q[i]
         /\ \A i \in DOMAIN o : (q \o o)[Len(q) + i] = o[i]
         /\ \A i \in DOMAIN (q \o o) : i \in DOMAIN q \/ i - Len(q) \in DOMAIN o
         /\ \A i \in DOMAIN o : Len(q) + i \in DOMAIN (q \o o)
  OBVIOUS

LEMMA TailAt ==
  ASSUME NEW S, NEW q \in Seq(S), q # << >>
  PROVE  /\ Tail(q) \in Seq(S) /\ Head(q) = q[1] /\ Head(q) \in S
         /\ 1 \in DOMAIN q
         /\ \A i \in DOMAIN Tail(q) : i + 1 \in DOMAIN q /\ Tail(q)[i] = q[i + 1]
         /\ \A i \in DOMAIN q : i = 1 \/ (i - 1 \in DOMAIN Tail(q) /\ Tail(q)[i - 1] = q[i])
  OBVIOUS

LEMMA AboutConcat ==
  ASSUME NEW q \in Seq(Packet), NEW o \in Seq(Packet), NEW type, NEW x
  PROVE  About(q \o o, type, x) = About(q, type, x) \cup {Len(q) + i : i \in About(o, type, x)}
<1>1. ASSUME NEW i \in About(q \o o, type, x)
      PROVE  i \in About(q, type, x) \cup {Len(q) + k : k \in About(o, type, x)}
  <2>1. i \in DOMAIN (q \o o) /\ (q \o o)[i].type = type /\ x \in (q \o o)[i].ids
    BY <1>1 DEF About
  <2>2. CASE i \in DOMAIN q
    BY <2>1, <2>2, ConcatAt DEF About
  <2>3. CASE i - Len(q) \in DOMAIN o
    <3>1. i = Len(q) + (i - Len(q))
      BY <2>1
    <3>2. i - Len(q) \in About(o, type, x)
      BY <2>1, <2>3, <3>1, ConcatAt DEF About
    <3> QED BY <3>1, <3>2
  <2> QED BY <2>1, <2>2, <2>3, ConcatAt
<1>2. ASSUME NEW i \in About(q, type, x) PROVE i \in About(q \o o, type, x)
  BY <1>2, ConcatAt DEF About
<1>3. ASSUME NEW i \in About(o, type, x) PROVE Len(q) + i \in About(q \o o, type, x)
  BY <1>3, ConcatAt DEF About
<1> QED BY <1>1, <1>2, <1>3

LEMMA AboutTail ==
  ASSUME NEW q \in Seq(Packet), q # << >>, NEW type, NEW x
  PROVE  /\ \A i \in About(Tail(q), type, x) : i \in Nat /\ i + 1 \in About(q, type, x)
         /\ \A i \in About(q, type, x) : i = 1 \/ i - 1 \in About(Tail(q), type, x)
         /\ 1 \in About(q, type, x) <=> (Head(q).type = type /\ x \in Head(q).ids)
<1>1. ASSUME NEW i \in About(Tail(q), type, x) PROVE i \in Nat /\ i + 1 \in About(q, type, x)
  <2>1. i \in DOMAIN Tail(q) /\ Tail(q)[i].type = type /\ x \in Tail(q)[i].ids
    BY <1>1 DEF About
  <2> QED BY <2>1, TailAt DEF About
<1>2. ASSUME NEW i \in About(q, type, x), i # 1 PROVE i - 1 \in About(Tail(q), type, x)
  BY <1>2, TailAt DEF About
<1>3. 1 \in About(q, type, x) <=> (Head(q).type = type /\ x \in Head(q).ids)
  BY TailAt DEF About
<1> QED BY <1>1, <1>2, <1>3

LEMMA AboutOne ==
  ASSUME NEW b \in BOOLEAN, NEW p \in Packet, NEW type, NEW x
  PROVE  About(One(b, p), type, x) = IF b /\ p.type = type /\ x \in p.ids THEN {1} ELSE {}
<1>1. CASE b
  <2>1. One(b, p) = <<p>> /\ DOMAIN <<p>> = {1} /\ <<p>>[1] = p
    BY <1>1 DEF One
  <2> QED BY <1>1, <2>1 DEF About
<1>2. CASE ~b
  BY <1>2 DEF One, About
<1> QED BY <1>1, <1>2

LEMMA AboutQuiet ==
  ASSUME NEW q \in Seq(Packet), NEW o \in Seq(Packet), NEW type, NEW x, About(o, type, x) = {}
  PROVE  About(q \o o, type, x) = About(q, type, x)
<1> DEFINE new == {Len(q) + i : i \in About(o, type, x)}
<1>1. About(q \o o, type, x) = About(q, type, x) \cup new
  BY AboutConcat
<1>2. new = {}
  OBVIOUS
<1> HIDE DEF new
<1> QED BY <1>1, <1>2

LEMMA AboutIndices ==
  ASSUME NEW q \in Seq(Packet), NEW type, NEW x
  PROVE  /\ About(q, type, x) \subseteq 1 .. Len(q)
         /\ Len(q) \in Nat
  BY DEF About

(***************************************************************************)
(* One client of one queue: whether the client of queue q shows x now (in) *)
(* and will, by and by, show x exactly when x is one of its mates.         *)
(***************************************************************************)
Single(S) == \A i, j \in S : i = j

Consistent(q, in, mate, x) ==
    /\ Single(Entering(q, x)) /\ Single(Leaving(q, x))
    /\ \A i \in Entering(q, x), j \in Leaving(q, x) : i < j
    /\ in => Entering(q, x) = {}
    /\ (in \/ Entering(q, x) # {}) <=> (mate \/ Leaving(q, x) # {})
    /\ mate => Leaving(q, x) = {}

\* Packets that do not speak of x change nothing.
LEMMA ConsistentQuiet ==
  ASSUME NEW q \in Seq(Packet), NEW o \in Seq(Packet), NEW x,
         NEW in \in BOOLEAN, NEW mate \in BOOLEAN, Consistent(q, in, mate, x),
         Entering(o, x) = {}, Leaving(o, x) = {}
  PROVE  Consistent(q \o o, in, mate, x)
<1>1. Entering(q \o o, x) = Entering(q, x) /\ Leaving(q \o o, x) = Leaving(q, x)
  BY AboutQuiet DEF Entering, Leaving
<1> QED BY <1>1 DEF Consistent

\* x joins: a queue that did not speak of it gets one NEW_USERS with it.
LEMMA ConsistentJoin ==
  ASSUME NEW q \in Seq(Packet), NEW o \in Seq(Packet), NEW x,
         Consistent(q, FALSE, FALSE, x), Entering(q, x) = {},
         Single(Entering(o, x)), Entering(o, x) # {}, Leaving(o, x) = {}
  PROVE  Consistent(q \o o, FALSE, TRUE, x)
<1>1. Leaving(q, x) = {}
  BY DEF Consistent
<1>2. /\ Entering(q \o o, x) = {Len(q) + i : i \in Entering(o, x)}
      /\ Leaving(q \o o, x) = {}
  BY <1>1, AboutConcat DEF Entering, Leaving
<1> QED BY <1>2 DEF Consistent, Single

\* x leaves: a mate that shows it, or is about to, gets one DEL_USERS with it.
LEMMA ConsistentLeave ==
  ASSUME NEW q \in Seq(Packet), NEW o \in Seq(Packet), NEW x, NEW in \in BOOLEAN,
         Consistent(q, in, TRUE, x),
         Entering(o, x) = {}, Single(Leaving(o, x)), Leaving(o, x) # {}
  PROVE  Consistent(q \o o, in, FALSE, x)
<1>1. Leaving(q, x) = {}
  BY DEF Consistent
<1>2. /\ Entering(q \o o, x) = Entering(q, x)
      /\ Leaving(q \o o, x) = {Len(q) + i : i \in Leaving(o, x)}
  BY <1>1, AboutQuiet, AboutConcat DEF Entering, Leaving
<1>3. \A i \in Entering(q, x) : i \in 1 .. Len(q)
  BY AboutIndices DEF Entering
<1>4. \A i \in Leaving(o, x) : i \in 1 .. Len(o)
  BY AboutIndices DEF Leaving
<1>5. Single(Leaving(q \o o, x))
  BY <1>2 DEF Single
<1>6. \A i \in Entering(q \o o, x), j \in Leaving(q \o o, x) : i < j
  <2>1. Len(q) \in Nat
    OBVIOUS
  <2> QED BY <1>2, <1>3, <1>4, <2>1
<1> QED BY <1>1, <1>2, <1>5, <1>6 DEF Consistent

\* The client reads the oldest packet.
LEMMA ConsistentRead ==
  ASSUME NEW q \in Seq(Packet), q # << >>, NEW x,
         NEW in \in BOOLEAN, NEW now \in BOOLEAN, NEW mate \in BOOLEAN,
         Consistent(q, in, mate, x),
         1 \in Entering(q, x) => now,
         1 \in Leaving(q, x) => ~now,
         1 \notin Entering(q, x) /\ 1 \notin Leaving(q, x) => (now <=> in)
  PROVE  Consistent(Tail(q), now, mate, x)
<1> DEFINE E == Entering(q, x)
           L == Leaving(q, x)
           E1 == Entering(Tail(q), x)
           L1 == Leaving(Tail(q), x)
<1>0. Tail(q) \in Seq(Packet)
  BY TailAt
<1>1. /\ E \subseteq Nat \ {0} /\ L \subseteq Nat \ {0}
      /\ E1 \subseteq Nat \ {0} /\ L1 \subseteq Nat \ {0}
  <2>1. \A k \in Nat : 1 .. k \subseteq Nat \ {0}
    OBVIOUS
  <2>2. E \subseteq Nat \ {0} /\ L \subseteq Nat \ {0}
    BY <2>1, AboutIndices DEF Entering, Leaving
  <2>3. E1 \subseteq Nat \ {0} /\ L1 \subseteq Nat \ {0}
    BY <1>0, <2>1, AboutIndices DEF Entering, Leaving
  <2> QED BY <2>2, <2>3
<1>2. /\ \A i \in E1 : i + 1 \in E
      /\ \A i \in L1 : i + 1 \in L
      /\ \A i \in E : i = 1 \/ i - 1 \in E1
      /\ \A i \in L : i = 1 \/ i - 1 \in L1
  <2>1. (\A i \in E1 : i + 1 \in E) /\ (\A i \in E : i = 1 \/ i - 1 \in E1)
    BY AboutTail DEF Entering
  <2>2. (\A i \in L1 : i + 1 \in L) /\ (\A i \in L : i = 1 \/ i - 1 \in L1)
    BY AboutTail DEF Leaving
  <2> QED BY <2>1, <2>2
<1>3. /\ Single(E) /\ Single(L)
      /\ \A i \in E, j \in L : i < j
      /\ in => E = {}
      /\ (in \/ E # {}) <=> (mate \/ L # {})
      /\ mate => L = {}
  BY DEF Consistent
<1>4. /\ 1 \in E => now
      /\ 1 \in L => ~now
      /\ 1 \notin E /\ 1 \notin L => (now <=> in)
  OBVIOUS
<1> HIDE DEF E, L, E1, L1
<1>5. Single(E1) /\ Single(L1)
  BY <1>1, <1>2, <1>3 DEF Single
<1>6. \A i \in E1, j \in L1 : i < j
  BY <1>1, <1>2, <1>3
<1>7. CASE 1 \in E
  <2>1. E1 = {} /\ now
    BY <1>1, <1>2, <1>3, <1>4, <1>7 DEF Single
  <2>2. L = {} <=> L1 = {}
    BY <1>1, <1>2, <1>3, <1>7
  <2>3. (mate \/ L1 # {}) /\ (mate => L1 = {})
    BY <1>3, <1>7, <2>2
  <2> QED BY <2>1, <2>3, <1>5, <1>6 DEF Consistent, E1, L1
<1>8. CASE 1 \in L
  <2>1. E1 = {} /\ L1 = {} /\ ~now /\ ~mate
    BY <1>1, <1>2, <1>3, <1>4, <1>8 DEF Single
  <2> QED BY <2>1, <1>5, <1>6 DEF Consistent, E1, L1
<1>9. CASE 1 \notin E /\ 1 \notin L
  <2>1. (E = {} <=> E1 = {}) /\ (L = {} <=> L1 = {})
    BY <1>1, <1>2, <1>9
  <2> QED BY <1>3, <1>4, <1>5, <1>6, <1>9, <2>1 DEF Consistent, E1, L1
<1> QED BY <1>7, <1>8, <1>9

-----------------------------------------------------------------------------
(***************************************************************************)
(* What a step does to the table of clients and to the rosters: most       *)
(* handlers only put packets on queues that do not speak of users.         *)
(***************************************************************************)
Joined(s) == cstate[s] = "C_COMPLETE"

\* The packets of these types.
Of(types) == {p \in Packet : p.type \in types}

Sends(types) ==
    \E out \in [Slots -> Seq(Of(types))] : Enqueue(out)

UserPackets == {"NEW_USERS", "DEL_USERS"}
QuietPackets == ServerPacket \ UserPackets

Quiet ==
    /\ Sends(QuietPackets)
    /\ UNCHANGED <<table, user_list, running, last_id, boot_id>>

Joins(s, key) ==
    /\ cstate[s] = "C_SECURE" /\ msg_queue[s] = << >>
    /\ Enqueue(JoinPackets(s, key))
    /\ cstate' = [cstate EXCEPT ![s] = "C_COMPLETE"]
    /\ csession' = [csession EXCEPT ![s] = key]
    /\ UNCHANGED <<cid, user_list, running, last_id, boot_id>>

DelUsers(s, r) == One(Joined(s) /\ SameSession(s, r, csession[s]), Users("DEL_USERS", {cid[s]}))

Leaves(s) ==
    /\ Live(s)
    /\ \E cancels \in [Slots -> Seq(Of({"CANCEL"}))] :
          Enqueue([r \in Slots |-> cancels[r] \o DelUsers(s, r)])
    /\ cstate' = [cstate EXCEPT ![s] = "C_EMPTY"]
    /\ user_list' = [user_list EXCEPT ![s] = {}]
    /\ UNCHANGED <<cid, csession, running, last_id, boot_id>>

Reads(s) ==
    /\ Live(s) /\ msg_queue[s] # << >>
    /\ msg_queue' = [msg_queue EXCEPT ![s] = Tail(@)]
    /\ user_list' = [user_list EXCEPT ![s] = shown(s, Head(msg_queue[s]))]
    /\ UNCHANGED <<table, running, last_id, boot_id>>

RosterStep ==
    \/ ProcessEnds
    \/ start
    \/ Quiet
    \/ \E s \in Slots :
          \/ accept_client(s)
          \/ complete_handshake(s)
          \/ \E key \in SessionNames : Joins(s, key)
          \/ Leaves(s)
          \/ Reads(s)

LEMMA SeqOfEmpty == ASSUME NEW S PROVE << >> \in Seq(S)
  OBVIOUS

LEMMA SeqSubset == ASSUME NEW S, NEW T, S \subseteq T, NEW q \in Seq(S) PROVE q \in Seq(T)
  OBVIOUS

LEMMA OneIn == ASSUME NEW S, NEW b \in BOOLEAN, NEW p \in S PROVE One(b, p) \in Seq(S)
  BY DEF One

LEMMA SetToSeqIn == ASSUME NEW S, IsFiniteSet(S) PROVE SetToSeq(S) \in Seq(S)
<1>1. PICK f : f \in Bijection(1 .. Cardinality(S), S)
  BY FS_CardinalityType DEF ExistsBijection
<1>2. f \in [1 .. Cardinality(S) -> S] /\ IsInjective(f)
  BY <1>1 DEF Bijection, Injection
<1>3. SetToSeq(S) \in [1 .. Cardinality(S) -> S]
  BY <1>2 DEF SetToSeq
<1>4. Cardinality(S) \in Nat
  BY FS_CardinalityType
<1> QED BY <1>3, <1>4, IsASeq

LEMMA PktIn ==
  ASSUME NEW type \in ServerPacket, NEW t \in Transfer_ID, NEW from \in Client_ID,
         NEW ids \in SUBSET Client_ID, NEW accept \in BOOLEAN, NEW types, type \in types
  PROVE  Pkt(type, t, from, ids, accept) \in Of(types)
<1>1. Pkt(type, t, from, ids, accept) \in Packet
  BY PktType
<1> QED BY <1>1 DEF Pkt, Of

LEMMA CancelsIn ==
  ASSUME NEW T \in SUBSET Transfer_ID, NEW x \in Client_ID
  PROVE  SetToSeq({Cancel(t, x) : t \in T}) \in Seq(Of({"CANCEL"}))
<1>1. IsFiniteSet({Cancel(t, x) : t \in T})
  BY CancelsType
<1>2. ASSUME NEW t \in T PROVE Cancel(t, x) \in Of({"CANCEL"})
  <2>1. "CANCEL" \in ServerPacket /\ "CANCEL" \in {"CANCEL"} /\ FALSE \in BOOLEAN
    BY DEF ServerPacket
  <2> QED BY <2>1, PktIn DEF Cancel
<1>3. {Cancel(t, x) : t \in T} \subseteq Of({"CANCEL"})
  BY <1>2
<1> QED BY <1>1, <1>3, SetToSeqIn, SeqSubset

LEMMA SendsMore ==
  ASSUME NEW types, NEW more, types \subseteq more, Sends(types) PROVE Sends(more)
<1>1. PICK out \in [Slots -> Seq(Of(types))] : Enqueue(out)
  BY DEF Sends
<1>2. Of(types) \subseteq Of(more)
  BY DEF Of
<1>3. out \in [Slots -> Seq(Of(more))]
  BY <1>2, SeqSubset
<1> QED BY <1>1, <1>3 DEF Sends

LEMMA IntroSends ==
  ASSUME TypeOK, NEW s \in Slots, NEW create \in BOOLEAN, NEW key \in SessionNames,
         packet_intro(s, create, key)
  PROVE  \/ ProcessEnds
         \/ Joins(s, key)
         \/ Sends({"DENY"}) /\ UNCHANGED <<table, client, env>>
<1> DEFINE deny == [r \in Slots |-> One(r = s, Response("DENY"))]
<1>1. deny \in [Slots -> Seq(Of({"DENY"}))]
  <2>1. Response("DENY") \in Of({"DENY"})
    BY PktIn, ZeroTypes DEF Response, ServerPacket
  <2> QED BY <2>1, OneIn
<1> HIDE DEF deny
<1>2. \/ ProcessEnds
      \/ Enqueue(deny) /\ UNCHANGED <<table, client, env>>
      \/ Joins(s, key)
  BY DEF packet_intro, deny, Joins, client, env
<1> QED BY <1>1, <1>2 DEF Sends

LEMMA TransferSends ==
  ASSUME TypeOK, NEW s \in Slots, NEW to \in SUBSET user_list[s], packet_transfer(s, to)
  PROVE  \/ ProcessEnds
         \/ /\ Sends({"INVALID", "VALID", "REQUEST"})
            /\ UNCHANGED <<table, client, running, last_id, boot_id>>
<1> DEFINE types == {"INVALID", "VALID", "REQUEST"}
           invalid == [r \in Slots |-> One(r = s, Response("INVALID"))]
           valid(t) == [r \in Slots |->
             One(r = s, Pkt("VALID", t, 0, to, FALSE)) \o
             One(\E x \in to : client_find_by_id(r, x), Pkt("REQUEST", t, cid[s], to, FALSE))]
<1>0. types \subseteq ServerPacket /\ \A t \in types : t \in types
  BY DEF ServerPacket
<1>1. to \subseteq Client_ID /\ cid[s] \in Client_ID
  BY DEF TypeOK
<1>2. invalid \in [Slots -> Seq(Of(types))]
  <2>1. Response("INVALID") \in Of(types)
    BY <1>0, PktIn, ZeroTypes DEF Response
  <2> QED BY <2>1, OneIn
<1>3. ASSUME NEW t \in Transfer_ID PROVE valid(t) \in [Slots -> Seq(Of(types))]
  <2>1. /\ Pkt("VALID", t, 0, to, FALSE) \in Of(types)
        /\ Pkt("REQUEST", t, cid[s], to, FALSE) \in Of(types)
    BY <1>0, <1>1, PktIn, ZeroTypes
  <2>2. ASSUME NEW r \in Slots PROVE valid(t)[r] \in Seq(Of(types))
    <3>1. /\ (r = s) \in BOOLEAN
          /\ (\E x \in to : client_find_by_id(r, x)) \in BOOLEAN
      OBVIOUS
    <3>2. /\ One(r = s, Pkt("VALID", t, 0, to, FALSE)) \in Seq(Of(types))
          /\ One(\E x \in to : client_find_by_id(r, x),
                 Pkt("REQUEST", t, cid[s], to, FALSE)) \in Seq(Of(types))
      BY <2>1, <3>1, OneIn
    <3> QED BY <3>2, ConcatProperties
  <2> QED BY <2>2
<1> HIDE DEF invalid, valid, types
<1>4. \/ ProcessEnds
      \/ \E o \in {invalid} \cup {valid(t) : t \in Transfer_ID} :
            Enqueue(o) /\ UNCHANGED <<table, client, running, last_id, boot_id>>
  BY DEF packet_transfer, invalid, valid
<1>5. \/ ProcessEnds
      \/ Sends(types) /\ UNCHANGED <<table, client, running, last_id, boot_id>>
  BY <1>2, <1>3, <1>4 DEF Sends
<1> QED BY <1>5 DEF types

LEMMA ReplySends ==
  ASSUME TypeOK, NEW s \in Slots, NEW t \in Transfer_ID, NEW accept \in BOOLEAN,
         packet_reply(s, t, accept)
  PROVE  \/ ProcessEnds
         \/ Sends({"REPLY"}) /\ UNCHANGED <<table, user_list, hosting, env>>
<1> DEFINE out == [r \in Slots |->
                     One(\E x \in CreatorOf(t) : client_find_by_id(r, x),
                         Pkt("REPLY", t, cid[s], {}, accept))]
<1>1. out \in [Slots -> Seq(Of({"REPLY"}))]
  <2>1. Pkt("REPLY", t, cid[s], {}, accept) \in Of({"REPLY"})
    BY PktIn DEF TypeOK, ServerPacket
  <2>2. ASSUME NEW r \in Slots PROVE (\E x \in CreatorOf(t) : client_find_by_id(r, x)) \in BOOLEAN
    OBVIOUS
  <2> QED BY <2>1, <2>2, OneIn
<1> HIDE DEF out
<1>2. \/ ProcessEnds
      \/ Enqueue(out) /\ UNCHANGED <<table, user_list, hosting, env>>
  BY DEF packet_reply, out
<1> QED BY <1>1, <1>2 DEF Sends

LEMMA ToAcceptedIn ==
  ASSUME NEW t \in Transfer_ID, NEW S, NEW p \in S
  PROVE  ToAccepted(t, p) \in [Slots -> Seq(S)]
<1>1. ASSUME NEW r \in Slots
      PROVE  One(\E w \in Rows(t) : w.accepted = 1 /\ client_find_by_id(r, w.client_id), p)
                \in Seq(S)
  <2>1. (\E w \in Rows(t) : w.accepted = 1 /\ client_find_by_id(r, w.client_id)) \in BOOLEAN
    OBVIOUS
  <2> QED BY <2>1, OneIn
<1> QED BY <1>1 DEF ToAccepted

LEMMA DataSends ==
  ASSUME NEW s \in Slots, NEW t \in Transfer_ID, packet_data(s, t)
  PROVE  ProcessEnds \/ (Sends({"DATA"}) /\ UNCHANGED <<table, client, env>>)
<1> DEFINE out == ToAccepted(t, Transfer("DATA", t))
<1>1. out \in [Slots -> Seq(Of({"DATA"}))]
  <2>1. Transfer("DATA", t) \in Of({"DATA"})
    BY PktIn, ZeroTypes DEF Transfer, ServerPacket
  <2> QED BY <2>1, ToAcceptedIn
<1> HIDE DEF out
<1>2. ProcessEnds \/ (Enqueue(out) /\ UNCHANGED <<table, client, env>>)
  BY DEF packet_data, out
<1> QED BY <1>1, <1>2 DEF Sends

LEMMA CompleteSends ==
  ASSUME NEW s \in Slots, NEW t \in Transfer_ID, packet_complete(s, t)
  PROVE  ProcessEnds \/ (Sends({"COMPLETE"}) /\ UNCHANGED <<table, user_list, asked, joined, env>>)
<1> DEFINE mine == {t} \cap Hosted(s)
           sent == ToAccepted(t, Transfer("COMPLETE", t))
           out  == [r \in Slots |-> IF mine = {} THEN << >> ELSE sent[r]]
<1>1. out \in [Slots -> Seq(Of({"COMPLETE"}))]
  <2>1. Transfer("COMPLETE", t) \in Of({"COMPLETE"})
    BY PktIn, ZeroTypes DEF Transfer, ServerPacket
  <2>2. sent \in [Slots -> Seq(Of({"COMPLETE"}))]
    BY <2>1, ToAcceptedIn
  <2> HIDE DEF sent, mine
  <2> QED BY <2>2, SeqOfEmpty
<1> HIDE DEF out
<1>2. ProcessEnds \/ (Enqueue(out) /\ UNCHANGED <<table, user_list, asked, joined, env>>)
  BY DEF packet_complete, out
<1> QED BY <1>1, <1>2 DEF Sends

\* What a client that cancels, or goes, makes the server send: CANCELs.
LEMMA CreatorCancelsIn ==
  ASSUME TypeOK, NEW s \in Slots, NEW T \in SUBSET Transfer_ID, NEW r \in Slots
  PROVE  /\ SetToSeq(CreatorCancels(s, T)[r]) \in Seq(Of({"CANCEL"}))
         /\ SetToSeq(RecipientCancels(s, T)[r]) \in Seq(Of({"CANCEL"}))
<1> DEFINE C == {u \in T : \E w \in Rows(u) : w.accepted # 0 /\ client_find_by_id(r, w.client_id)}
           R == {u \in T : \E x \in CreatorOf(u) : client_find_by_id(r, x)}
<1>1. /\ CreatorCancels(s, T)[r] = {Cancel(t, cid[s]) : t \in C}
      /\ RecipientCancels(s, T)[r] = {Cancel(t, cid[s]) : t \in R}
  BY DEF CreatorCancels, RecipientCancels
<1>2. C \in SUBSET Transfer_ID /\ R \in SUBSET Transfer_ID /\ cid[s] \in Client_ID
  BY DEF TypeOK
<1> HIDE DEF C, R
<1> QED BY <1>1, <1>2, CancelsIn

LEMMA CancelSends ==
  ASSUME TypeOK, NEW s \in Slots, NEW t \in Transfer_ID, packet_cancel(s, t)
  PROVE  \/ ProcessEnds
         \/ /\ Sends({"CANCEL"})
            /\ UNCHANGED <<table, user_list, env>>
<1> DEFINE mine == t \in Hosted(s)
           out == IF mine THEN CreatorCancels(s, {t})
                  ELSE RecipientCancels(s, {t} \cap Received(s))
           outseq == [r \in Slots |-> SetToSeq(out[r])]
<1>1. outseq \in [Slots -> Seq(Of({"CANCEL"}))]
  <2> SUFFICES ASSUME NEW r \in Slots PROVE SetToSeq(out[r]) \in Seq(Of({"CANCEL"}))
    OBVIOUS
  <2>1. {t} \in SUBSET Transfer_ID /\ {t} \cap Received(s) \in SUBSET Transfer_ID
    OBVIOUS
  <2>2. CASE mine
    BY <2>1, <2>2, CreatorCancelsIn
  <2>3. CASE ~mine
    BY <2>1, <2>3, CreatorCancelsIn
  <2> QED BY <2>2, <2>3
<1> HIDE DEF outseq
<1>2. ProcessEnds \/ (Enqueue(outseq) /\ UNCHANGED <<table, user_list, env>>)
  BY DEF packet_cancel, outseq
<1> QED BY <1>1, <1>2 DEF Sends

LEMMA CloseLeaves ==
  ASSUME TypeOK, NEW s \in Slots, close_client(s) PROVE ProcessEnds \/ Leaves(s)
<1> DEFINE complete == cstate[s] = "C_COMPLETE"
           gone == Hosted(s)
           asCreator == CreatorCancels(s, gone)
           asRecipient == RecipientCancels(s, Received(s) \ gone)
           cancels == [r \in Slots |->
             IF complete THEN SetToSeq(asCreator[r]) \o SetToSeq(asRecipient[r]) ELSE << >>]
           out == [r \in Slots |-> cancels[r] \o
             One(complete /\ SameSession(s, r, csession[s]), Users("DEL_USERS", {cid[s]}))]
<1>1. cancels \in [Slots -> Seq(Of({"CANCEL"}))]
  <2>1. gone \in SUBSET Transfer_ID /\ Received(s) \ gone \in SUBSET Transfer_ID
    BY HostedType
  <2> HIDE DEF gone
  <2>2. ASSUME NEW r \in Slots
        PROVE  SetToSeq(asCreator[r]) \o SetToSeq(asRecipient[r]) \in Seq(Of({"CANCEL"}))
    <3>1. /\ SetToSeq(asCreator[r]) \in Seq(Of({"CANCEL"}))
          /\ SetToSeq(asRecipient[r]) \in Seq(Of({"CANCEL"}))
      BY <2>1, CreatorCancelsIn
    <3> QED BY <3>1, ConcatProperties
  <2> HIDE DEF asCreator, asRecipient, complete
  <2> QED BY <2>2, SeqOfEmpty
<1> HIDE DEF cancels
<1>2. out = [r \in Slots |-> cancels[r] \o DelUsers(s, r)]
  BY DEF DelUsers, Joined
<1> HIDE DEF out
<1>3. \/ ProcessEnds
      \/ /\ Enqueue(out)
         /\ cstate' = [cstate EXCEPT ![s] = "C_EMPTY"]
         /\ user_list' = [user_list EXCEPT ![s] = {}]
         /\ UNCHANGED <<cid, csession, running, last_id, boot_id>>
  BY DEF close_client, out, cancels, env
<1>4. Live(s)
  BY DEF close_client
<1> QED BY <1>1, <1>2, <1>3, <1>4 DEF Leaves

LEMMA WriteReads == ASSUME NEW s \in Slots, write_data(s) PROVE Reads(s)
  BY DEF write_data, Reads, env

LEMMA SendsNothing == QueueType /\ UNCHANGED msg_queue => \A types : Sends(types)
<1> SUFFICES ASSUME QueueType, UNCHANGED msg_queue, NEW types PROVE Sends(types)
  OBVIOUS
<1> DEFINE out == [r \in Slots |-> << >>]
<1>1. out \in [Slots -> Seq(Of(types))]
  BY SeqOfEmpty
<1>2. \A r \in Slots : msg_queue[r] \o out[r] = msg_queue[r]
  BY ConcatProperties DEF QueueType
<1>3. Enqueue(out)
  BY <1>2 DEF Enqueue, QueueType
<1> QED BY <1>1, <1>3 DEF Sends

LEMMA HandlersRoster == TypeOK /\ [Next]_vars => RosterStep
<1> SUFFICES ASSUME TypeOK, [Next]_vars PROVE RosterStep
  OBVIOUS
<1>1. CASE stop \/ start
  BY <1>1 DEF stop, RosterStep
<1>2. CASE UNCHANGED vars
  <2>1. Sends(QuietPackets)
    BY <1>2, SendsNothing DEF vars, TypeOK, QueueType
  <2> QED BY <1>2, <2>1 DEF RosterStep, Quiet, vars, client, env
<1>3. ASSUME NEW types, types \subseteq QuietPackets, Sends(types),
             UNCHANGED <<table, user_list, running, last_id, boot_id>>
      PROVE  RosterStep
  BY <1>3, SendsMore DEF RosterStep, Quiet
<1> DEFINE still == UNCHANGED <<table, user_list, running, last_id, boot_id>>
<1>4. ASSUME NEW s \in Slots, \/ accept_client(s) \/ complete_handshake(s)
                              \/ close_client(s) \/ write_data(s)
      PROVE  RosterStep
  BY <1>4, CloseLeaves, WriteReads DEF RosterStep
<1>5. ASSUME NEW s \in Slots, NEW create \in BOOLEAN, NEW key \in SessionNames,
             packet_intro(s, create, key)
      PROVE  RosterStep
  <2>1. {"DENY"} \subseteq QuietPackets
    BY DEF QuietPackets, UserPackets, ServerPacket
  <2>2. UNCHANGED <<table, client, env>> => still
    BY DEF client, env
  <2> QED BY <1>3, <1>5, <2>1, <2>2, IntroSends DEF RosterStep
<1>6. ASSUME NEW s \in Slots, NEW to \in SUBSET user_list[s], packet_transfer(s, to)
      PROVE  RosterStep
  <2>1. {"INVALID", "VALID", "REQUEST"} \subseteq QuietPackets
    BY DEF QuietPackets, UserPackets, ServerPacket
  <2>2. UNCHANGED <<table, client, running, last_id, boot_id>> => still
    BY DEF client
  <2> QED BY <1>3, <1>6, <2>1, <2>2, TransferSends DEF RosterStep
<1>7. ASSUME NEW s \in Slots, NEW t \in Transfer_ID, NEW accept \in BOOLEAN,
             packet_reply(s, t, accept)
      PROVE  RosterStep
  <2>1. {"REPLY"} \subseteq QuietPackets
    BY DEF QuietPackets, UserPackets, ServerPacket
  <2>2. UNCHANGED <<table, user_list, hosting, env>> => still
    BY DEF env
  <2> QED BY <1>3, <1>7, <2>1, <2>2, ReplySends DEF RosterStep
<1>8. ASSUME NEW s \in Slots, NEW t \in Transfer_ID,
             packet_data(s, t) \/ packet_complete(s, t) \/ packet_cancel(s, t)
      PROVE  RosterStep
  <2>1. {"DATA"} \subseteq QuietPackets /\ {"COMPLETE"} \subseteq QuietPackets
        /\ {"CANCEL"} \subseteq QuietPackets
    BY DEF QuietPackets, UserPackets, ServerPacket
  <2>2. /\ UNCHANGED <<table, client, env>> => still
        /\ UNCHANGED <<table, user_list, asked, joined, env>> => still
        /\ UNCHANGED <<table, user_list, env>> => still
    BY DEF client, env
  <2>3. ProcessEnds \/ (still /\ (Sends({"DATA"}) \/ Sends({"COMPLETE"}) \/ Sends({"CANCEL"})))
    BY <1>8, <2>2, DataSends, CompleteSends, CancelSends
  <2> QED BY <1>3, <2>1, <2>3 DEF RosterStep
<1> QED BY <1>1, <1>2, <1>4, <1>5, <1>6, <1>7, <1>8 DEF Next

-----------------------------------------------------------------------------
(***************************************************************************)
(* The identities of the connected clients.                                *)
(***************************************************************************)

\* Ids are given once and in increasing order, also across restarts; a client
\* has a session exactly when it has joined one.
Identities ==
    /\ boot_id <= last_id
    /\ \A s \in Slots : cid[s] <= last_id
    /\ \A s \in Slots : Live(s) => running /\ boot_id < cid[s]
    /\ \A s, r \in Slots : Live(s) /\ Live(r) /\ cid[s] = cid[r] => s = r
    /\ \A s \in Slots : Joined(s) => csession[s] \in SessionNames
    /\ \A s \in Slots : cstate[s] \in {"C_CONNECTED", "C_SECURE"} => csession[s] = NoSession

LEMMA IdentitiesInit == Init => Identities
  BY DEF Init, Identities, Live, Joined

LEMMA IdentitiesStep ==
  ASSUME DistinctSeconds, TypeOK, Identities, RosterStep PROVE Identities'
<1>0. /\ last_id \in Nat /\ boot_id \in Nat /\ \A s \in Slots : cid[s] \in Nat
      /\ cid \in [Slots -> Nat] /\ cstate \in [Slots -> ClientState] /\ DOMAIN csession = Slots
  BY DEF TypeOK, Client_ID
<1>1. CASE ProcessEnds
  <2>1. \A s \in Slots : cstate'[s] = "C_EMPTY" /\ cid'[s] = 0
    BY <1>1 DEF ProcessEnds
  <2>2. boot_id' = boot_id /\ last_id' = last_id
    BY <1>1 DEF ProcessEnds
  <2> QED BY <1>0, <2>1, <2>2 DEF Identities, Live, Joined
<1>2. CASE start
  <2>1. /\ ~running /\ running' /\ boot_id' = last_id /\ last_id' = last_id
        /\ cstate' = cstate /\ cid' = cid /\ csession' = csession
    BY <1>2 DEF start, table
  <2> QED BY <1>0, <2>1 DEF Identities, Live, Joined
<1>3. CASE Quiet \/ \E s \in Slots : Reads(s)
  BY <1>3 DEF Quiet, Reads, table, Identities, Live, Joined
<1>4. ASSUME NEW s \in Slots, accept_client(s) PROVE Identities'
  <2>1. /\ running /\ running' = running /\ boot_id' = boot_id /\ last_id' = last_id + 1
        /\ cstate' = [cstate EXCEPT ![s] = "C_CONNECTED"]
        /\ csession' = [csession EXCEPT ![s] = NoSession]
        /\ cid' = [cid EXCEPT ![s] = last_id + 1]
    BY <1>4 DEF accept_client, Seconds
  <2>2. /\ \A r \in Slots \ {s} : cstate'[r] = cstate[r] /\ csession'[r] = csession[r] /\ cid'[r] = cid[r]
        /\ cstate'[s] = "C_CONNECTED" /\ csession'[s] = NoSession /\ cid'[s] = last_id + 1
    BY <1>0, <2>1
  <2> QED BY <1>0, <2>1, <2>2 DEF Identities, Live, Joined
<1>5. ASSUME NEW s \in Slots, complete_handshake(s) PROVE Identities'
  <2>1. /\ UNCHANGED <<cid, csession, running, boot_id, last_id>> /\ cstate[s] = "C_CONNECTED"
        /\ cstate' = [cstate EXCEPT ![s] = "C_SECURE"]
    BY <1>5 DEF complete_handshake, env
  <2> QED BY <1>0, <2>1 DEF Identities, Live, Joined
<1>6. ASSUME NEW s \in Slots, NEW key \in SessionNames, Joins(s, key) PROVE Identities'
  <2>1. /\ UNCHANGED <<cid, running, boot_id, last_id>> /\ cstate[s] = "C_SECURE"
        /\ cstate' = [cstate EXCEPT ![s] = "C_COMPLETE"]
        /\ csession' = [csession EXCEPT ![s] = key]
    BY <1>6 DEF Joins
  <2> QED BY <1>0, <2>1 DEF Identities, Live, Joined
<1>7. ASSUME NEW s \in Slots, Leaves(s) PROVE Identities'
  <2>1. /\ UNCHANGED <<cid, csession, running, boot_id, last_id>>
        /\ cstate' = [cstate EXCEPT ![s] = "C_EMPTY"]
    BY <1>7 DEF Leaves
  <2> QED BY <1>0, <2>1 DEF Identities, Live, Joined
<1> QED BY <1>1, <1>2, <1>3, <1>4, <1>5, <1>6, <1>7 DEF RosterStep

(***************************************************************************)
(* Who has not joined a session shows nobody, and nothing on its queue     *)
(* will make it.                                                           *)
(***************************************************************************)
Outsiders ==
    \A s \in Slots : ~Joined(s) =>
        /\ user_list[s] = {}
        /\ Live(s) => \A i \in DOMAIN msg_queue[s] : msg_queue[s][i].type \notin UserPackets

LEMMA OutsidersInit == Init => Outsiders
  BY DEF Init, Outsiders, Live

\* What a step with Sends does to a queue.
LEMMA SendsAt ==
  ASSUME QueueType, NEW types, Sends(types), NEW s \in Slots
  PROVE  \E o \in Seq(Of(types)) : /\ o \in Seq(Packet)
                                   /\ msg_queue'[s] = msg_queue[s] \o o
<1>1. PICK out \in [Slots -> Seq(Of(types))] : Enqueue(out)
  BY DEF Sends
<1>2. msg_queue'[s] = msg_queue[s] \o out[s] /\ out[s] \in Seq(Of(types))
  BY <1>1 DEF Enqueue
<1>3. out[s] \in Seq(Packet)
  BY <1>2, SeqSubset DEF Of
<1> QED BY <1>2, <1>3

\* A packet of q \o o is one of q or one of o.
LEMMA ConcatNone ==
  ASSUME NEW q \in Seq(Packet), NEW o \in Seq(Packet), NEW types,
         \A i \in DOMAIN q : q[i].type \notin types,
         \A i \in DOMAIN o : o[i].type \notin types
  PROVE  \A i \in DOMAIN (q \o o) : (q \o o)[i].type \notin types
<1> TAKE i \in DOMAIN (q \o o)
<1>1. CASE i \in DOMAIN q
  BY <1>1, ConcatAt
<1>2. CASE i - Len(q) \in DOMAIN o
  <2>1. i = Len(q) + (i - Len(q))
    BY ConcatAt
  <2> QED BY <1>2, <2>1, ConcatAt
<1> QED BY <1>1, <1>2, ConcatAt

LEMMA OfTypes ==
  ASSUME NEW types, NEW o \in Seq(Of(types)) PROVE \A i \in DOMAIN o : o[i].type \in types
  BY DEF Of

\* What joining puts on the queues, user by user.
LEMMA JoinAt ==
  ASSUME TypeOK, NEW s \in Slots, NEW key \in SessionNames, NEW r \in Slots, NEW x
  PROVE  LET o == JoinPackets(s, key)[r]
         IN  /\ o \in Seq(Packet)
             /\ Leaving(o, x) = {}
             /\ r # s => Entering(o, x) = IF r \in Mates(s, key) /\ x = cid[s] THEN {1} ELSE {}
             /\ r = s => Entering(o, x) = IF x \in Ids(Mates(s, key)) THEN {2} ELSE {}
<1> DEFINE mates == Mates(s, key)
           o == JoinPackets(s, key)[r]
           arrival == Users("NEW_USERS", {cid[s]})
           roster == Users("NEW_USERS", Ids(mates))
<1>2. /\ arrival \in Packet /\ arrival.type = "NEW_USERS" /\ arrival.ids = {cid[s]}
      /\ roster \in Packet /\ roster.type = "NEW_USERS" /\ roster.ids = Ids(mates)
      /\ Response("OK") \in Packet /\ Response("OK").type = "OK"
  <2>1. Ids(mates) \subseteq Client_ID /\ {cid[s]} \subseteq Client_ID
    BY DEF TypeOK, Ids, Mates
  <2>2. arrival \in Packet /\ roster \in Packet /\ Response("OK") \in Packet
    BY <2>1, PktType, ZeroTypes DEF Response, Users, ServerPacket
  <2>3. /\ arrival.type = "NEW_USERS" /\ arrival.ids = {cid[s]}
        /\ roster.type = "NEW_USERS" /\ roster.ids = Ids(mates)
        /\ Response("OK").type = "OK"
    BY DEF Users, Pkt, Response
  <2> QED BY <2>2, <2>3
<1>3. CASE r # s
  <2>1. o = One(r \in mates, arrival)
    BY <1>3 DEF JoinPackets
  <2>2. (r \in mates) \in BOOLEAN
    OBVIOUS
  <2> HIDE DEF mates, o, arrival, roster
  <2>3. o \in Seq(Packet)
    BY <1>2, <2>1, <2>2, OneType
  <2>4. /\ Entering(o, x) = IF r \in mates /\ x = cid[s] THEN {1} ELSE {}
        /\ Leaving(o, x) = {}
    BY <1>2, <2>1, <2>2, AboutOne DEF Entering, Leaving
  <2> QED BY <1>3, <2>3, <2>4 DEF mates, o
<1>4. CASE r = s
  <2> DEFINE some == mates # {}
             tail == One(some, roster)
             ok == One(TRUE, Response("OK"))
  <2>1. o = ok \o tail
    BY <1>4 DEF JoinPackets, One
  <2>2. some \in BOOLEAN
    OBVIOUS
  <2>3. ~some => Ids(mates) = {}
    BY DEF Ids
  <2> HIDE DEF mates, o, arrival, roster, some
  <2>4. tail \in Seq(Packet) /\ ok \in Seq(Packet) /\ Len(ok) = 1
    BY <1>2, <2>2, OneType DEF One
  <2>5. /\ About(tail, "NEW_USERS", x) = IF x \in Ids(mates) THEN {1} ELSE {}
        /\ About(tail, "DEL_USERS", x) = {}
    BY <1>2, <2>2, <2>3, AboutOne
  <2>6. \A type \in UserPackets : About(ok, type, x) = {}
    BY <1>2, AboutOne DEF UserPackets
  <2> HIDE DEF tail, ok
  <2>7. o \in Seq(Packet)
    BY <2>1, <2>4, ConcatProperties
  <2>71. ASSUME NEW type \in UserPackets
         PROVE  About(o, type, x) = {Len(ok) + i : i \in About(tail, type, x)}
    <3> DEFINE new == {Len(ok) + i : i \in About(tail, type, x)}
    <3>a. ok \in Seq(Packet) /\ tail \in Seq(Packet)
      BY <2>4
    <3>0. About(ok \o tail, type, x) = About(ok, type, x) \cup new
      BY ONLY <3>a, AboutConcat
    <3>1. About(o, type, x) = About(ok, type, x) \cup new
      BY <2>1, <3>0
    <3> HIDE DEF new
    <3>2. About(o, type, x) = new
      BY <2>6, <3>1
    <3> QED BY <3>2 DEF new
  <2>8. Entering(o, x) = IF x \in Ids(mates) THEN {2} ELSE {}
    <3>1. CASE x \in Ids(mates)
      <4>1. About(tail, "NEW_USERS", x) = {1}
        BY <2>5, <3>1
      <4>2. About(o, "NEW_USERS", x) = {Len(ok) + 1}
        BY <2>71, <4>1 DEF UserPackets
      <4>3. Len(ok) + 1 = 2
        BY <2>4
      <4> QED BY <3>1, <4>2, <4>3 DEF Entering
    <3>2. CASE x \notin Ids(mates)
      <4>1. About(tail, "NEW_USERS", x) = {}
        BY <2>5, <3>2
      <4> QED BY <2>71, <3>2, <4>1 DEF Entering, UserPackets
    <3> QED BY <3>1, <3>2
  <2>9. Leaving(o, x) = {}
    BY <2>5, <2>71 DEF Leaving, UserPackets
  <2> QED BY <1>4, <2>7, <2>8, <2>9 DEF mates, o
<1> QED BY <1>3, <1>4

LEMMA JoinSkips ==
  ASSUME NEW s \in Slots, NEW key \in SessionNames, NEW r \in Slots, r # s, r \notin Mates(s, key)
  PROVE  JoinPackets(s, key)[r] = << >>
  BY DEF JoinPackets, One

LEMMA JoinQueue ==
  ASSUME NEW s \in Slots, NEW key \in SessionNames, Joins(s, key), NEW r \in Slots
  PROVE  msg_queue'[r] = msg_queue[r] \o JoinPackets(s, key)[r]
  BY DEF Joins, Enqueue

\* What leaving puts on the queues, user by user.
LEMMA LeaveAt ==
  ASSUME TypeOK, NEW s \in Slots, Leaves(s), NEW r \in Slots
  PROVE  \E o \in Seq(Packet) :
            /\ msg_queue'[r] = msg_queue[r] \o o
            /\ ~Joined(r) => \A i \in DOMAIN o : o[i].type = "CANCEL"
            /\ \A x :
               /\ Entering(o, x) = {}
               /\ IF Joined(s) /\ SameSession(s, r, csession[s]) /\ x = cid[s]
                  THEN Single(Leaving(o, x)) /\ Leaving(o, x) # {}
                  ELSE Leaving(o, x) = {}
<1> DEFINE told == Joined(s) /\ SameSession(s, r, csession[s])
           departure == Users("DEL_USERS", {cid[s]})
           del == DelUsers(s, r)
<1>1. PICK cancels \in [Slots -> Seq(Of({"CANCEL"}))] :
              Enqueue([k \in Slots |-> cancels[k] \o DelUsers(s, k)])
  BY DEF Leaves
<1>2. msg_queue'[r] = msg_queue[r] \o (cancels[r] \o del)
  BY <1>1 DEF Enqueue
<1>3. /\ departure \in Packet /\ departure.type = "DEL_USERS" /\ departure.ids = {cid[s]}
      /\ told \in BOOLEAN /\ del = One(told, departure)
      /\ ~Joined(r) => ~told
  <2>1. departure \in Packet
    BY PktType, ZeroTypes DEF TypeOK, Users, ServerPacket
  <2>2. departure.type = "DEL_USERS" /\ departure.ids = {cid[s]}
    BY DEF Users, Pkt
  <2> QED BY <2>1, <2>2 DEF DelUsers, SameSession, Joined
<1>4. /\ cancels[r] \in Seq(Packet)
      /\ \A i \in DOMAIN cancels[r] : cancels[r][i].type = "CANCEL"
  <2>1. cancels[r] \in Seq(Of({"CANCEL"}))
    BY <1>1
  <2> QED BY <2>1, SeqSubset, OfTypes DEF Of
<1> DEFINE c == cancels[r]
           o == c \o del
<1>5. ~Joined(r) => o = c
  BY <1>3, <1>4, ConcatProperties DEF One
<1> HIDE DEF told, departure, del, c, o
<1>6. del \in Seq(Packet) /\ o \in Seq(Packet)
  BY <1>3, <1>4, OneType, ConcatProperties DEF c, o
<1>7. ASSUME NEW x
      PROVE  /\ Entering(o, x) = {}
             /\ IF told /\ x = cid[s] THEN Single(Leaving(o, x)) /\ Leaving(o, x) # {}
                                      ELSE Leaving(o, x) = {}
  <2>1. \A type \in UserPackets : About(c, type, x) = {}
    BY <1>4 DEF About, UserPackets, c
  <2>2. /\ About(del, "NEW_USERS", x) = {}
        /\ About(del, "DEL_USERS", x) = IF told /\ x = cid[s] THEN {1} ELSE {}
    BY <1>3, AboutOne
  <2>3. \A type \in UserPackets : About(o, type, x) = {Len(c) + i : i \in About(del, type, x)}
    BY <1>4, <1>6, <2>1, AboutConcat DEF c, o
  <2>4. Entering(o, x) = {}
    BY <2>2, <2>3 DEF Entering, UserPackets
  <2>5. ASSUME told, x = cid[s] PROVE Single(Leaving(o, x)) /\ Leaving(o, x) # {}
    <3>1. About(del, "DEL_USERS", x) = {1}
      BY <2>2, <2>5
    <3>2. Leaving(o, x) = {Len(c) + 1}
      BY <2>3, <3>1 DEF Leaving, UserPackets
    <3> QED BY <3>2 DEF Single
  <2>6. ASSUME ~(told /\ x = cid[s]) PROVE Leaving(o, x) = {}
    <3>1. About(del, "DEL_USERS", x) = {}
      BY <2>2, <2>6
    <3> QED BY <2>3, <3>1 DEF Leaving, UserPackets
  <2> QED BY <2>4, <2>5, <2>6
<1> QED BY <1>2, <1>4, <1>5, <1>6, <1>7 DEF told, del, c, o

LEMMA AllGone ==
  ASSUME TypeOK, ProcessEnds
  PROVE  \A s \in Slots : /\ cstate'[s] = "C_EMPTY" /\ cid'[s] = 0 /\ msg_queue'[s] = << >>
                          /\ user_list'[s] = {} /\ asked'[s] = {}
                          /\ ~Joined(s)' /\ ~Live(s)'
  BY DEF ProcessEnds, Joined, Live

\* A slot whose queue speaks of no user, whoever the user.
LEMMA NoUsers ==
  ASSUME NEW q \in Seq(Packet)
  PROVE  (\A i \in DOMAIN q : q[i].type \notin UserPackets) =>
            \A x : Entering(q, x) = {} /\ Leaving(q, x) = {}
  BY DEF Entering, Leaving, About, UserPackets

LEMMA OutsidersStep == ASSUME TypeOK, Outsiders, RosterStep PROVE Outsiders'
<1>0. /\ QueueType /\ cstate \in [Slots -> ClientState] /\ user_list \in [Slots -> SUBSET Client_ID]
      /\ \A k \in Slots : msg_queue[k] \in Seq(Packet)
  BY DEF TypeOK, QueueType
<1> DEFINE Silent(q) == \A i \in DOMAIN q : q[i].type \notin UserPackets
<1>a. SUFFICES ASSUME NEW r \in Slots, ~Joined(r)'
               PROVE  user_list'[r] = {} /\ (Live(r)' => Silent(msg_queue'[r]))
  BY DEF Outsiders
<1>b. ~Joined(r) => user_list[r] = {} /\ (Live(r) => Silent(msg_queue[r]))
  BY DEF Outsiders
<1>c. Silent(<< >>)
  OBVIOUS
<1>d. ASSUME ~Joined(r), Live(r), NEW o \in Seq(Packet), Silent(o), msg_queue'[r] = msg_queue[r] \o o
      PROVE  Silent(msg_queue'[r])
  BY <1>0, <1>b, <1>d, ConcatNone
<1> HIDE DEF Silent
<1>1. CASE ProcessEnds
  BY <1>1, AllGone
<1>2. CASE start
  <2>1. UNCHANGED <<cstate, msg_queue, user_list>>
    BY <1>2 DEF start, table, client
  <2> QED BY <2>1, <1>a, <1>b DEF Joined, Live
<1>3. CASE Quiet
  <2>1. UNCHANGED <<cstate, user_list>>
    BY <1>3 DEF Quiet, table
  <2>2. PICK o \in Seq(Of(QuietPackets)) : o \in Seq(Packet) /\ msg_queue'[r] = msg_queue[r] \o o
    BY <1>0, <1>3, SendsAt DEF Quiet
  <2>3. Silent(o)
    BY <2>2, OfTypes DEF Silent, QuietPackets
  <2> QED BY <1>a, <1>b, <1>d, <2>1, <2>2, <2>3 DEF Joined, Live
<1>4. ASSUME NEW s \in Slots, accept_client(s)
      PROVE  user_list'[r] = {} /\ (Live(r)' => Silent(msg_queue'[r]))
  <2>1. /\ cstate[s] = "C_EMPTY" /\ cstate' = [cstate EXCEPT ![s] = "C_CONNECTED"]
        /\ msg_queue' = [msg_queue EXCEPT ![s] = << >>] /\ user_list' = user_list
    BY <1>4 DEF accept_client, client, Live
  <2>2. CASE r = s
    BY <1>0, <1>b, <1>c, <2>1, <2>2 DEF Joined, QueueType
  <2>3. CASE r # s
    BY <1>0, <1>a, <1>b, <2>1, <2>3 DEF Joined, Live, QueueType
  <2> QED BY <2>2, <2>3
<1>5. ASSUME NEW s \in Slots, complete_handshake(s)
      PROVE  user_list'[r] = {} /\ (Live(r)' => Silent(msg_queue'[r]))
  <2>1. /\ cstate[s] = "C_CONNECTED" /\ cstate' = [cstate EXCEPT ![s] = "C_SECURE"]
        /\ UNCHANGED <<msg_queue, user_list>>
    BY <1>5 DEF complete_handshake, client
  <2> QED BY <1>0, <1>a, <1>b, <2>1 DEF Joined, Live
<1>6. ASSUME NEW s \in Slots, NEW key \in SessionNames, Joins(s, key)
      PROVE  user_list'[r] = {} /\ (Live(r)' => Silent(msg_queue'[r]))
  <2>1. cstate' = [cstate EXCEPT ![s] = "C_COMPLETE"] /\ user_list' = user_list
    BY <1>6 DEF Joins
  <2>2. r # s /\ ~Joined(r) /\ (Live(r)' => Live(r))
    BY <1>0, <1>a, <2>1 DEF Joined, Live
  <2>3. r \notin Mates(s, key)
    BY <2>2 DEF Mates, SameSession, Joined
  <2>4. msg_queue'[r] = msg_queue[r] \o << >>
    <3>1. JoinPackets(s, key)[r] = << >>
      BY <2>2, <2>3, JoinSkips
    <3> QED BY <1>6, <3>1, JoinQueue
  <2> QED BY <1>b, <1>c, <1>d, <2>1, <2>2, <2>4
<1>7. ASSUME NEW s \in Slots, Leaves(s)
      PROVE  user_list'[r] = {} /\ (Live(r)' => Silent(msg_queue'[r]))
  <2>1. /\ cstate' = [cstate EXCEPT ![s] = "C_EMPTY"]
        /\ user_list' = [user_list EXCEPT ![s] = {}]
    BY <1>7 DEF Leaves
  <2>2. CASE r = s
    BY <1>0, <2>1, <2>2 DEF Live
  <2>3. CASE r # s
    <3>1. ~Joined(r) /\ (Live(r)' <=> Live(r)) /\ user_list'[r] = user_list[r]
      BY <1>0, <1>a, <2>1, <2>3 DEF Joined, Live
    <3>2. PICK o \in Seq(Packet) : /\ msg_queue'[r] = msg_queue[r] \o o
                                   /\ \A i \in DOMAIN o : o[i].type = "CANCEL"
      BY <1>7, <3>1, LeaveAt
    <3>3. Silent(o)
      BY <3>2 DEF Silent, UserPackets
    <3> QED BY <1>b, <1>d, <3>1, <3>2, <3>3
  <2> QED BY <2>2, <2>3
<1>8. ASSUME NEW s \in Slots, Reads(s)
      PROVE  user_list'[r] = {} /\ (Live(r)' => Silent(msg_queue'[r]))
  <2>1. /\ cstate' = cstate /\ Live(s) /\ msg_queue[s] # << >>
        /\ msg_queue' = [msg_queue EXCEPT ![s] = Tail(@)]
        /\ user_list' = [user_list EXCEPT ![s] = shown(s, Head(msg_queue[s]))]
    BY <1>8 DEF Reads, table
  <2>2. CASE r # s
    BY <1>0, <1>a, <1>b, <2>1, <2>2 DEF Joined, Live, QueueType
  <2>3. CASE r = s
    <3>1. user_list[r] = {} /\ Silent(msg_queue[r])
      BY <1>a, <1>b, <2>1, <2>3 DEF Joined, Live
    <3>2. Head(msg_queue[r]).type \notin UserPackets /\ Silent(Tail(msg_queue[r]))
      BY <1>0, <2>1, <2>3, <3>1, TailAt DEF Silent
    <3>3. shown(r, Head(msg_queue[r])) = {}
      BY <3>1, <3>2 DEF shown, UserPackets
    <3> QED BY <1>0, <2>1, <2>3, <3>2, <3>3 DEF QueueType
  <2> QED BY <2>2, <2>3
<1> QED BY <1>1, <1>2, <1>3, <1>4, <1>5, <1>6, <1>7, <1>8 DEF RosterStep

(***************************************************************************)
(* No client is told of itself.                                            *)
(***************************************************************************)
NotItself ==
    \A s \in Slots : Live(s) => cid[s] \notin user_list[s] /\ Entering(msg_queue[s], cid[s]) = {}

LEMMA NotItselfInit == Init => NotItself
  BY DEF Init, NotItself, Live

LEMMA EmptyQueue == \A x : Entering(<< >>, x) = {} /\ Leaving(<< >>, x) = {}
  BY DEF Entering, Leaving, About

LEMMA QuietAt ==
  ASSUME TypeOK, Quiet, NEW r \in Slots
  PROVE  \E o \in Seq(Packet) : /\ msg_queue'[r] = msg_queue[r] \o o
                                /\ \A x : Entering(o, x) = {} /\ Leaving(o, x) = {}
<1>1. PICK o \in Seq(Of(QuietPackets)) : o \in Seq(Packet) /\ msg_queue'[r] = msg_queue[r] \o o
  BY SendsAt DEF Quiet, TypeOK, QueueType
<1>2. \A i \in DOMAIN o : o[i].type \notin UserPackets
  BY <1>1, OfTypes DEF QuietPackets
<1> QED BY <1>1, <1>2, NoUsers

\* A queue that gets nothing new about x.
LEMMA EnteringQuiet ==
  ASSUME NEW q \in Seq(Packet), NEW o \in Seq(Packet), NEW x,
         Entering(q, x) = {}, Entering(o, x) = {}
  PROVE  Entering(q \o o, x) = {}
  BY AboutQuiet DEF Entering

\* A client that reads a packet that does not speak of x.
LEMMA EnteringRead ==
  ASSUME TypeOK, NEW s \in Slots, Reads(s), NEW x,
         x \notin user_list[s], Entering(msg_queue[s], x) = {}
  PROVE  x \notin user_list'[s] /\ Entering(msg_queue'[s], x) = {}
<1> DEFINE q == msg_queue[s]
<1>1. q \in Seq(Packet) /\ q # << >>
  BY DEF TypeOK, Reads
<1>2. msg_queue'[s] = Tail(q) /\ user_list'[s] = shown(s, Head(q))
  BY DEF TypeOK, Reads
<1>3. Tail(q) \in Seq(Packet)
  BY <1>1, TailAt
<1> HIDE DEF q
<1>4. Entering(Tail(q), x) = {}
  BY <1>1, AboutTail DEF Entering, q
<1>5. ~(Head(q).type = "NEW_USERS" /\ x \in Head(q).ids)
  BY <1>1, AboutTail DEF Entering, q
<1>6. x \notin shown(s, Head(q))
  BY <1>5 DEF shown
<1> QED BY <1>2, <1>4, <1>6

LEMMA NotItselfStep ==
  ASSUME TypeOK, Outsiders, NotItself, RosterStep PROVE NotItself'
<1>0. /\ cstate \in [Slots -> ClientState] /\ user_list \in [Slots -> SUBSET Client_ID]
      /\ cid \in [Slots -> Client_ID] /\ \A k \in Slots : msg_queue[k] \in Seq(Packet)
      /\ msg_queue \in [Slots -> Seq(Packet)]
  BY DEF TypeOK
<1> DEFINE Fine(r) == cid'[r] \notin user_list'[r] /\ Entering(msg_queue'[r], cid'[r]) = {}
<1>a. SUFFICES ASSUME NEW r \in Slots, Live(r)' PROVE Fine(r)
  BY DEF NotItself
<1>b. Live(r) => cid[r] \notin user_list[r] /\ Entering(msg_queue[r], cid[r]) = {}
  BY DEF NotItself
<1>1. CASE ProcessEnds
  BY <1>1, <1>a, AllGone
<1>2. CASE start
  <2>1. UNCHANGED <<cstate, cid, msg_queue, user_list>>
    BY <1>2 DEF start, table, client
  <2> QED BY <2>1, <1>a, <1>b DEF Live
<1>3. CASE Quiet
  <2>1. UNCHANGED <<cstate, cid, user_list>>
    BY <1>3 DEF Quiet, table
  <2>2. PICK o \in Seq(Packet) : msg_queue'[r] = msg_queue[r] \o o /\ \A x : Entering(o, x) = {}
    BY <1>3, QuietAt
  <2> QED BY <1>0, <1>a, <1>b, <2>1, <2>2, EnteringQuiet DEF Live
<1>4. ASSUME NEW s \in Slots, accept_client(s) PROVE Fine(r)
  <2>1. /\ cstate[s] = "C_EMPTY" /\ cstate' = [cstate EXCEPT ![s] = "C_CONNECTED"]
        /\ msg_queue' = [msg_queue EXCEPT ![s] = << >>] /\ user_list' = user_list
        /\ \A k \in Slots : k # s => cid'[k] = cid[k]
    BY <1>4, <1>0 DEF accept_client, client, Live
  <2>2. CASE r = s
    <3>1. user_list'[r] = {} /\ msg_queue'[r] = << >>
      BY <1>0, <2>1, <2>2 DEF Outsiders, Joined
    <3> QED BY <3>1, EmptyQueue
  <2>3. CASE r # s
    BY <1>0, <1>a, <1>b, <2>1, <2>3 DEF Live
  <2> QED BY <2>2, <2>3
<1>5. ASSUME NEW s \in Slots, complete_handshake(s) PROVE Fine(r)
  <2>1. /\ cstate[s] = "C_CONNECTED" /\ cstate' = [cstate EXCEPT ![s] = "C_SECURE"]
        /\ UNCHANGED <<msg_queue, user_list, cid>>
    BY <1>5 DEF complete_handshake, client
  <2> QED BY <1>0, <1>a, <1>b, <2>1 DEF Live
<1>6. ASSUME NEW s \in Slots, NEW key \in SessionNames, Joins(s, key) PROVE Fine(r)
  <2> DEFINE o == JoinPackets(s, key)[r]
  <2>1. /\ cstate[s] = "C_SECURE" /\ cstate' = [cstate EXCEPT ![s] = "C_COMPLETE"]
        /\ UNCHANGED <<cid, user_list>>
    BY <1>6 DEF Joins
  <2>2. Live(r)
    BY <1>0, <1>a, <2>1 DEF Live
  <2>3. msg_queue'[r] = msg_queue[r] \o o
    BY <1>6, JoinQueue
  <2>4. o \in Seq(Packet) /\ Entering(o, cid[r]) = {}
    <3>1. cid[r] = cid[s] => r \notin Mates(s, key)
      BY DEF Mates, SameSession
    <3>2. cid[s] \notin Ids(Mates(s, key))
      BY DEF Mates, SameSession, Ids
    <3> QED BY <3>1, <3>2, JoinAt
  <2> HIDE DEF o
  <2> QED BY <1>0, <1>b, <2>1, <2>2, <2>3, <2>4, EnteringQuiet
<1>7. ASSUME NEW s \in Slots, Leaves(s) PROVE Fine(r)
  <2>1. /\ cstate' = [cstate EXCEPT ![s] = "C_EMPTY"] /\ cid' = cid
        /\ user_list' = [user_list EXCEPT ![s] = {}]
    BY <1>7 DEF Leaves
  <2>2. r # s /\ Live(r) /\ user_list'[r] = user_list[r]
    BY <1>0, <1>a, <2>1 DEF Live
  <2>3. PICK o \in Seq(Packet) : msg_queue'[r] = msg_queue[r] \o o /\ \A x : Entering(o, x) = {}
    BY <1>7, LeaveAt
  <2>4. msg_queue[r] \in Seq(Packet) /\ Entering(msg_queue[r], cid[r]) = {} /\ Entering(o, cid[r]) = {}
    BY <1>0, <1>b, <2>2, <2>3
  <2>5. Entering(msg_queue'[r], cid[r]) = {}
    BY <2>3, <2>4, EnteringQuiet
  <2>6. cid'[r] = cid[r] /\ cid[r] \notin user_list'[r]
    BY <1>b, <2>1, <2>2
  <2> QED BY <2>5, <2>6
<1>8. ASSUME NEW s \in Slots, Reads(s) PROVE Fine(r)
  <2>1. UNCHANGED <<cstate, cid>>
    BY <1>8 DEF Reads, table
  <2>2. CASE r = s
    BY <1>8, <1>a, <1>b, <2>1, <2>2, EnteringRead DEF Live
  <2>3. CASE r # s
    <3>1. msg_queue'[r] = msg_queue[r] /\ user_list'[r] = user_list[r]
      BY <1>0, <1>8, <2>3 DEF Reads
    <3> QED BY <1>a, <1>b, <2>1, <3>1 DEF Live
  <2> QED BY <2>2, <2>3
<1> HIDE DEF Fine
<1> QED BY <1>1, <1>2, <1>3, <1>4, <1>5, <1>6, <1>7, <1>8 DEF RosterStep

-----------------------------------------------------------------------------
(***************************************************************************)
(* The rosters.  The client of s shows, once its queue is written out, the *)
(* other clients of its session and nobody else.                           *)
(***************************************************************************)
Mate(s, x) == \E r \in Slots \ {s} : Joined(r) /\ csession[r] = csession[s] /\ cid[r] = x

Roster ==
    \A s \in Slots : Joined(s) => \A x \in Client_ID :
        Consistent(msg_queue[s], x \in user_list[s], Mate(s, x), x)

\* x has not joined a session: it is still to come, or has just connected.
Unknown(x) == x > last_id \/ \E r \in Slots : Live(r) /\ ~Joined(r) /\ cid[r] = x

\* Nobody shows, or is about to show, a client that has not joined.
Newcomers ==
    \A s \in Slots : Joined(s) => \A x \in Client_ID : Unknown(x) =>
        x \notin user_list[s] /\ Entering(msg_queue[s], x) = {}

LEMMA RosterInit == Init => Roster /\ Newcomers
  BY DEF Init, Roster, Newcomers, Joined

\* The mates of a client change only when someone joins or leaves.
LEMMA SameMates ==
  ASSUME \A k \in Slots : Joined(k)' <=> Joined(k),
         \A k \in Slots : Joined(k) => cid'[k] = cid[k] /\ csession'[k] = csession[k],
         NEW r \in Slots, Joined(r), NEW x
  PROVE  Mate(r, x)' <=> Mate(r, x)
<1>1. Mate(r, x)' => Mate(r, x)
  BY DEF Mate
<1>2. Mate(r, x) => Mate(r, x)'
  BY DEF Mate
<1> QED BY <1>1, <1>2

\* s joins: it is the one new mate of the clients of its session.
LEMMA JoinMates ==
  ASSUME TypeOK, Identities, NEW s \in Slots, NEW key \in SessionNames, Joins(s, key), NEW x
  PROVE  /\ Mate(s, x)' <=> x \in Ids(Mates(s, key))
         /\ \A r \in Slots : r # s /\ Joined(r) =>
               (Mate(r, x)' <=> Mate(r, x) \/ (r \in Mates(s, key) /\ x = cid[s]))
<1>1. /\ cstate[s] = "C_SECURE" /\ ~Joined(s) /\ Joined(s)' /\ csession'[s] = key /\ Live(s)
      /\ \A k \in Slots : k # s => (Joined(k)' <=> Joined(k)) /\ csession'[k] = csession[k]
      /\ cid' = cid
  BY DEF Joins, Joined, Live, TypeOK
<1>2. \A k \in Slots : Joined(k) => cid[k] # cid[s]
  BY <1>1 DEF Identities, Joined, Live
<1>3. \A k \in Slots : k \in Mates(s, key) <=> Joined(k) /\ csession[k] = key
  BY <1>2 DEF Mates, SameSession, Joined
<1>4. Mate(s, x)' <=> \E k \in Slots : k # s /\ Joined(k) /\ csession[k] = key /\ cid[k] = x
  BY <1>1 DEF Mate
<1>5. Mate(s, x)' <=> x \in Ids(Mates(s, key))
  BY <1>1, <1>3, <1>4 DEF Ids, Mates
<1>6. ASSUME NEW r \in Slots, r # s, Joined(r)
      PROVE  Mate(r, x)' <=> Mate(r, x) \/ (r \in Mates(s, key) /\ x = cid[s])
  <2>1. ASSUME Mate(r, x)' PROVE Mate(r, x) \/ (r \in Mates(s, key) /\ x = cid[s])
    BY <1>1, <1>3, <1>6, <2>1 DEF Mate
  <2>2. Mate(r, x) => Mate(r, x)'
    BY <1>1, <1>6 DEF Mate
  <2>3. r \in Mates(s, key) /\ x = cid[s] => Mate(r, x)'
    BY <1>1, <1>3, <1>6 DEF Mate
  <2> QED BY <2>1, <2>2, <2>3
<1> QED BY <1>5, <1>6

\* s leaves: it is no mate any more of those that were told.
LEMMA LeaveMates ==
  ASSUME TypeOK, Identities, NEW s \in Slots, Leaves(s), NEW r \in Slots, r # s, Joined(r), NEW x
  PROVE  IF Joined(s) /\ SameSession(s, r, csession[s]) /\ x = cid[s]
         THEN Mate(r, x) /\ ~Mate(r, x)'
         ELSE Mate(r, x)' <=> Mate(r, x)
<1>1. /\ Live(s) /\ ~Joined(s)' /\ cid' = cid /\ csession' = csession
      /\ \A k \in Slots : k # s => (Joined(k)' <=> Joined(k))
  BY DEF Leaves, Joined, TypeOK
<1>2. \A k \in Slots : Joined(k) /\ k # s => cid[k] # cid[s]
  BY <1>1 DEF Identities, Joined, Live
<1>3. SameSession(s, r, csession[s]) <=> csession[r] = csession[s]
  BY <1>2 DEF SameSession, Joined
<1>4. Mate(r, x)' <=> \E k \in Slots : k # r /\ k # s /\ Joined(k) /\ csession[k] = csession[r] /\ cid[k] = x
  BY <1>1 DEF Mate
<1>5. CASE Joined(s) /\ csession[r] = csession[s] /\ x = cid[s]
  <2>1. Mate(r, x)
    BY <1>5 DEF Mate
  <2>2. ~Mate(r, x)'
    BY <1>2, <1>4, <1>5
  <2> QED BY <1>3, <1>5, <2>1, <2>2
<1>6. CASE ~(Joined(s) /\ csession[r] = csession[s] /\ x = cid[s])
  <2>1. Mate(r, x)' <=> Mate(r, x)
    BY <1>4, <1>6 DEF Mate
  <2> QED BY <1>3, <1>6, <2>1
<1> QED BY <1>5, <1>6

\* Whom a step leaves, or makes, unknown.
LEMMA UnknownStep ==
  ASSUME DistinctSeconds, TypeOK, Identities, RosterStep, ~ProcessEnds, ~start,
         NEW x \in Client_ID, Unknown(x)'
  PROVE  /\ Unknown(x)
         /\ \A s \in Slots, key \in SessionNames : Joins(s, key) => x # cid[s]
<1>0. /\ last_id \in Nat /\ x \in Nat /\ \A s \in Slots : cid[s] \in Nat
      /\ cid \in [Slots -> Client_ID] /\ cstate \in [Slots -> ClientState]
  BY DEF TypeOK, Client_ID
<1>j. ASSUME NEW s \in Slots, NEW key \in SessionNames, Joins(s, key)
      PROVE  Unknown(x) /\ x # cid[s]
  <2>1. /\ UNCHANGED <<cid, last_id>> /\ cstate[s] = "C_SECURE" /\ Joined(s)' /\ Live(s)
        /\ \A k \in Slots : k # s => (Joined(k)' <=> Joined(k)) /\ (Live(k)' <=> Live(k))
    BY <1>0, <1>j DEF Joins, Joined, Live
  <2>2. CASE x > last_id
    BY <1>0, <2>1, <2>2 DEF Unknown, Identities
  <2>3. ASSUME NEW k \in Slots, Live(k)', ~Joined(k)', cid'[k] = x PROVE Unknown(x) /\ x # cid[s]
    <3>1. k # s /\ Live(k) /\ ~Joined(k) /\ cid[k] = x
      BY <2>1, <2>3
    <3> QED BY <2>1, <3>1 DEF Unknown, Identities
  <2> QED BY <2>1, <2>2, <2>3 DEF Unknown
<1>3. CASE Quiet \/ \E s \in Slots : Reads(s)
  <2>1. UNCHANGED <<cstate, cid, last_id>>
    BY <1>3 DEF Quiet, Reads, table
  <2> QED BY <1>j, <2>1 DEF Unknown, Joined, Live
<1>4. ASSUME NEW s \in Slots, accept_client(s) PROVE Unknown(x)
  <2>1. /\ last_id' = last_id + 1 /\ cid'[s] = last_id + 1
        /\ \A k \in Slots : k # s => cid'[k] = cid[k] /\ cstate'[k] = cstate[k]
    BY <1>0, <1>4 DEF accept_client, Seconds
  <2>2. CASE x > last_id'
    BY <1>0, <2>1, <2>2 DEF Unknown
  <2>3. ASSUME NEW k \in Slots, Live(k)', ~Joined(k)', cid'[k] = x PROVE Unknown(x)
    <3>1. CASE k = s
      BY <1>0, <2>1, <2>3, <3>1 DEF Unknown
    <3>2. CASE k # s
      BY <2>1, <2>3, <3>2 DEF Unknown, Joined, Live
    <3> QED BY <3>1, <3>2
  <2> QED BY <2>2, <2>3 DEF Unknown
<1>5. ASSUME NEW s \in Slots, complete_handshake(s) PROVE Unknown(x)
  <2>1. /\ cstate[s] = "C_CONNECTED" /\ UNCHANGED <<cid, last_id>>
        /\ \A k \in Slots : k # s => cstate'[k] = cstate[k]
    BY <1>0, <1>5 DEF complete_handshake, env
  <2>2. \A k \in Slots : Live(k)' /\ ~Joined(k)' => Live(k) /\ ~Joined(k)
    BY <2>1 DEF Live, Joined
  <2> QED BY <2>1, <2>2 DEF Unknown
<1>7. ASSUME NEW s \in Slots, Leaves(s) PROVE Unknown(x)
  <2>1. UNCHANGED <<cid, last_id>> /\ cstate' = [cstate EXCEPT ![s] = "C_EMPTY"]
    BY <1>7 DEF Leaves
  <2>2. \A k \in Slots : Live(k)' /\ ~Joined(k)' => Live(k) /\ ~Joined(k)
    BY <1>0, <2>1 DEF Live, Joined
  <2> QED BY <2>1, <2>2 DEF Unknown
<1> QED BY <1>j, <1>3, <1>4, <1>5, <1>7 DEF RosterStep

LEMMA NewcomersStep ==
  ASSUME DistinctSeconds, TypeOK, Identities, Outsiders, Newcomers, RosterStep PROVE Newcomers'
<1>0. /\ cstate \in [Slots -> ClientState] /\ user_list \in [Slots -> SUBSET Client_ID]
      /\ \A k \in Slots : msg_queue[k] \in Seq(Packet)
      /\ msg_queue \in [Slots -> Seq(Packet)]
  BY DEF TypeOK
<1>a. SUFFICES ASSUME NEW r \in Slots, Joined(r)', NEW x \in Client_ID, Unknown(x)'
               PROVE  x \notin user_list'[r] /\ Entering(msg_queue'[r], x) = {}
  BY DEF Newcomers
<1> DEFINE Fine == x \notin user_list'[r] /\ Entering(msg_queue'[r], x) = {}
<1>1. ~ProcessEnds
  BY <1>a, AllGone
<1>2. CASE start
  <2>1. UNCHANGED cstate /\ ~running
    BY <1>2 DEF start, table
  <2> QED BY <1>a, <2>1 DEF Identities, Joined, Live
<1>b. ASSUME ~start
      PROVE  /\ Unknown(x)
             /\ Joined(r) => x \notin user_list[r] /\ Entering(msg_queue[r], x) = {}
             /\ \A s \in Slots, key \in SessionNames : Joins(s, key) => x # cid[s]
  BY <1>a, <1>b, <1>1, UnknownStep DEF Newcomers
<1>3. CASE Quiet /\ ~start
  <2>1. UNCHANGED <<cstate, user_list>>
    BY <1>3 DEF Quiet, table
  <2>2. PICK o \in Seq(Packet) : msg_queue'[r] = msg_queue[r] \o o /\ \A y : Entering(o, y) = {}
    BY <1>3, QuietAt
  <2> QED BY <1>0, <1>3, <1>a, <1>b, <2>1, <2>2, EnteringQuiet DEF Joined
<1>4. ASSUME NEW s \in Slots, accept_client(s) \/ complete_handshake(s), ~start PROVE Fine
  <2>1. r # s /\ Joined(r) /\ user_list' = user_list /\ msg_queue'[r] = msg_queue[r]
    BY <1>0, <1>4, <1>a DEF accept_client, complete_handshake, client, Joined, Live
  <2> QED BY <1>4, <1>b, <2>1
<1>6. ASSUME NEW s \in Slots, NEW key \in SessionNames, Joins(s, key), ~start PROVE Fine
  <2> DEFINE o == JoinPackets(s, key)[r]
  <2>1. /\ cstate[s] = "C_SECURE" /\ cstate' = [cstate EXCEPT ![s] = "C_COMPLETE"]
        /\ user_list' = user_list /\ msg_queue[s] = << >>
    BY <1>6 DEF Joins
  <2>2. msg_queue'[r] = msg_queue[r] \o o
    BY <1>6, JoinQueue
  <2>3. x # cid[s] /\ x \notin Ids(Mates(s, key))
    <3>1. \A k \in Mates(s, key) : k \in Slots /\ Joined(k) /\ Live(k)
      BY DEF Mates, SameSession, Joined, Live
    <3>2. x # cid[s] /\ Unknown(x)
      BY <1>6, <1>b
    <3>3. last_id \in Nat /\ x \in Nat /\ \A k \in Slots : cid[k] \in Nat /\ cid[k] <= last_id
      BY DEF TypeOK, Client_ID, Identities
    <3>4. \A k \in Slots : Joined(k) => cid[k] # x
      BY <3>2, <3>3 DEF Unknown, Identities, Joined, Live
    <3> QED BY <3>1, <3>2, <3>4 DEF Ids
  <2>4. o \in Seq(Packet) /\ Entering(o, x) = {}
    BY <2>3, JoinAt
  <2>5. x \notin user_list[r] /\ Entering(msg_queue[r], x) = {}
    <3>1. CASE r = s
      BY <2>1, <3>1, EmptyQueue DEF Outsiders, Joined
    <3>2. CASE r # s
      BY <1>0, <1>6, <1>a, <1>b, <2>1, <3>2 DEF Joined
    <3> QED BY <3>1, <3>2
  <2> HIDE DEF o
  <2> QED BY <1>0, <2>1, <2>2, <2>4, <2>5, EnteringQuiet
<1>7. ASSUME NEW s \in Slots, Leaves(s), ~start PROVE Fine
  <2>1. /\ cstate' = [cstate EXCEPT ![s] = "C_EMPTY"]
        /\ user_list' = [user_list EXCEPT ![s] = {}]
    BY <1>7 DEF Leaves
  <2>2. r # s /\ Joined(r) /\ user_list'[r] = user_list[r]
    BY <1>0, <1>a, <2>1 DEF Joined
  <2>3. PICK o \in Seq(Packet) : msg_queue'[r] = msg_queue[r] \o o /\ \A y : Entering(o, y) = {}
    BY <1>7, LeaveAt
  <2> QED BY <1>0, <1>7, <1>b, <2>2, <2>3, EnteringQuiet
<1>8. ASSUME NEW s \in Slots, Reads(s), ~start PROVE Fine
  <2>1. UNCHANGED cstate
    BY <1>8 DEF Reads, table
  <2>2. x \notin user_list[r] /\ Entering(msg_queue[r], x) = {}
    BY <1>8, <1>a, <1>b, <2>1 DEF Joined
  <2>3. CASE r = s
    BY <1>8, <2>2, <2>3, EnteringRead
  <2>4. CASE r # s
    <3>1. msg_queue'[r] = msg_queue[r] /\ user_list'[r] = user_list[r]
      BY <1>0, <1>8, <2>4 DEF Reads
    <3> QED BY <2>2, <3>1
  <2> QED BY <2>3, <2>4
<1> HIDE DEF Fine
<1> QED BY <1>1, <1>2, <1>3, <1>4, <1>6, <1>7, <1>8 DEF RosterStep, Fine

LEMMA RosterStepKept ==
  ASSUME DistinctSeconds, TypeOK, Identities, Outsiders, Roster, Newcomers, RosterStep
  PROVE  Roster'
<1>0. /\ cstate \in [Slots -> ClientState] /\ user_list \in [Slots -> SUBSET Client_ID]
      /\ \A k \in Slots : msg_queue[k] \in Seq(Packet)
      /\ msg_queue \in [Slots -> Seq(Packet)]
  BY DEF TypeOK
<1>a. SUFFICES ASSUME NEW r \in Slots, Joined(r)', NEW x \in Client_ID
               PROVE  Consistent(msg_queue'[r], x \in user_list'[r], Mate(r, x)', x)
  BY DEF Roster
<1> DEFINE Fine == Consistent(msg_queue'[r], x \in user_list'[r], Mate(r, x)', x)
           in == x \in user_list[r]
           mate == Mate(r, x)
<1>b. Joined(r) => Consistent(msg_queue[r], in, mate, x)
  BY DEF Roster
<1>c. in \in BOOLEAN /\ mate \in BOOLEAN
  BY DEF Mate
<1>1. ~ProcessEnds
  BY <1>a, AllGone
<1>2. CASE start
  <2>1. UNCHANGED cstate /\ ~running
    BY <1>2 DEF start, table
  <2> QED BY <1>a, <2>1 DEF Identities, Joined, Live
<1> HIDE DEF in, mate
<1>3. CASE Quiet
  <2>1. UNCHANGED <<cstate, cid, csession, user_list>>
    BY <1>3 DEF Quiet, table
  <2>2. PICK o \in Seq(Packet) : /\ msg_queue'[r] = msg_queue[r] \o o
                                 /\ \A y : Entering(o, y) = {} /\ Leaving(o, y) = {}
    BY <1>3, QuietAt
  <2>3. Joined(r) /\ (\A k \in Slots : Joined(k)' <=> Joined(k))
    BY <1>a, <2>1 DEF Joined
  <2>4. Mate(r, x)' <=> mate
    BY <2>1, <2>3, SameMates DEF mate
  <2>5. Consistent(msg_queue[r] \o o, in, mate, x)
    BY <1>0, <1>b, <1>c, <2>2, <2>3, ConsistentQuiet
  <2> QED BY <2>1, <2>2, <2>4, <2>5 DEF in, Consistent
<1>4. ASSUME NEW s \in Slots, accept_client(s) \/ complete_handshake(s) PROVE Fine
  <2>1. /\ r # s /\ Joined(r) /\ user_list' = user_list /\ msg_queue'[r] = msg_queue[r]
        /\ \A k \in Slots : Joined(k)' <=> Joined(k)
        /\ \A k \in Slots : Joined(k) => cid'[k] = cid[k] /\ csession'[k] = csession[k]
    <3>1. CASE accept_client(s)
      <4>1. /\ cstate[s] = "C_EMPTY" /\ cstate' = [cstate EXCEPT ![s] = "C_CONNECTED"]
            /\ msg_queue' = [msg_queue EXCEPT ![s] = << >>] /\ user_list' = user_list
            /\ \A k \in Slots : k # s => cid'[k] = cid[k] /\ csession'[k] = csession[k]
        BY <3>1 DEF accept_client, client, Live, TypeOK
      <4> QED BY <1>0, <1>a, <4>1 DEF Joined
    <3>2. CASE complete_handshake(s)
      BY <1>0, <3>2, <1>a DEF complete_handshake, client, Joined
    <3> QED BY <1>4, <3>1, <3>2
  <2>2. Mate(r, x)' <=> mate
    BY <2>1, SameMates DEF mate
  <2> QED BY <1>b, <2>1, <2>2 DEF in, Consistent
<1>6. ASSUME NEW s \in Slots, NEW key \in SessionNames, Joins(s, key) PROVE Fine
  <2> DEFINE o == JoinPackets(s, key)[r]
  <2>1. /\ cstate[s] = "C_SECURE" /\ cstate' = [cstate EXCEPT ![s] = "C_COMPLETE"]
        /\ user_list' = user_list /\ msg_queue[s] = << >>
    BY <1>6 DEF Joins
  <2>2. msg_queue'[r] = msg_queue[r] \o o /\ o \in Seq(Packet) /\ Leaving(o, x) = {}
    BY <1>6, JoinQueue, JoinAt
  <2>3. CASE r = s
    <3>1. ~in /\ Entering(msg_queue[r], x) = {} /\ Leaving(msg_queue[r], x) = {}
      BY <2>1, <2>3, EmptyQueue DEF in, Outsiders, Joined
    <3>2. Mate(r, x)' <=> x \in Ids(Mates(s, key))
      BY <1>6, <2>3, JoinMates
    <3>3. Entering(o, x) = IF x \in Ids(Mates(s, key)) THEN {2} ELSE {}
      BY <2>3, JoinAt
    <3>4. Consistent(msg_queue[r], FALSE, FALSE, x)
      BY <3>1 DEF Consistent, Single
    <3> HIDE DEF o
    <3>5. CASE x \in Ids(Mates(s, key))
      <4>1. Entering(o, x) # {} /\ Single(Entering(o, x))
        BY <3>3, <3>5 DEF Single
      <4>2. Consistent(msg_queue[r] \o o, FALSE, TRUE, x)
        BY <1>0, <2>2, <3>1, <3>4, <4>1, ConsistentJoin
      <4> QED BY <2>1, <2>2, <3>1, <3>2, <3>5, <4>2 DEF in, Consistent
    <3>6. CASE x \notin Ids(Mates(s, key))
      <4>1. Consistent(msg_queue[r] \o o, FALSE, FALSE, x)
        BY <1>0, <2>2, <3>3, <3>4, <3>6, ConsistentQuiet
      <4> QED BY <2>1, <2>2, <3>1, <3>2, <3>6, <4>1 DEF in, Consistent
    <3> QED BY <3>5, <3>6
  <2>4. CASE r # s
    <3>1. Joined(r)
      BY <1>0, <1>a, <2>1, <2>4 DEF Joined
    <3>2. Mate(r, x)' <=> mate \/ (r \in Mates(s, key) /\ x = cid[s])
      BY <1>6, <2>4, <3>1, JoinMates DEF mate
    <3>3. Entering(o, x) = IF r \in Mates(s, key) /\ x = cid[s] THEN {1} ELSE {}
      BY <2>4, JoinAt
    <3> HIDE DEF o
    <3>5. CASE r \in Mates(s, key) /\ x = cid[s]
      <4>1. Unknown(x)
        BY <2>1, <3>5 DEF Unknown, Joined, Live
      <4>2. ~in /\ Entering(msg_queue[r], x) = {}
        BY <3>1, <4>1 DEF in, Newcomers
      <4>3. ~mate
        BY <2>1, <3>5 DEF mate, Mate, Identities, Joined, Live
      <4>4. Entering(o, x) # {} /\ Single(Entering(o, x))
        BY <3>3, <3>5 DEF Single
      <4>5. Consistent(msg_queue[r], FALSE, FALSE, x)
        BY <1>b, <3>1, <4>2, <4>3 DEF Consistent
      <4>6. Consistent(msg_queue[r] \o o, FALSE, TRUE, x)
        BY <1>0, <2>2, <4>2, <4>4, <4>5, ConsistentJoin
      <4> QED BY <2>1, <2>2, <3>2, <3>5, <4>2, <4>6 DEF in, Consistent
    <3>6. CASE ~(r \in Mates(s, key) /\ x = cid[s])
      <4>1. Consistent(msg_queue[r] \o o, in, mate, x)
        BY <1>0, <1>b, <1>c, <2>2, <3>1, <3>3, <3>6, ConsistentQuiet
      <4> QED BY <2>1, <2>2, <3>2, <3>6, <4>1 DEF in, Consistent
    <3> QED BY <3>5, <3>6
  <2> QED BY <2>3, <2>4
<1>7. ASSUME NEW s \in Slots, Leaves(s) PROVE Fine
  <2>1. /\ cstate' = [cstate EXCEPT ![s] = "C_EMPTY"]
        /\ user_list' = [user_list EXCEPT ![s] = {}]
    BY <1>7 DEF Leaves
  <2>2. r # s /\ Joined(r) /\ user_list'[r] = user_list[r]
    BY <1>0, <1>a, <2>1 DEF Joined
  <2> DEFINE told == Joined(s) /\ SameSession(s, r, csession[s]) /\ x = cid[s]
  <2>3. PICK o \in Seq(Packet) :
             /\ msg_queue'[r] = msg_queue[r] \o o
             /\ Entering(o, x) = {}
             /\ IF told THEN Single(Leaving(o, x)) /\ Leaving(o, x) # {} ELSE Leaving(o, x) = {}
    BY <1>7, LeaveAt
  <2>4. IF told THEN mate /\ ~Mate(r, x)' ELSE Mate(r, x)' <=> mate
    BY <1>7, <2>2, LeaveMates DEF mate
  <2> HIDE DEF told
  <2>5. CASE told
    <3>1. Consistent(msg_queue[r] \o o, in, FALSE, x)
      <4>1. Consistent(msg_queue[r], in, TRUE, x)
        BY <1>b, <2>2, <2>4, <2>5 DEF Consistent
      <4> QED BY <1>0, <1>c, <2>3, <2>5, <4>1, ConsistentLeave
    <3> QED BY <2>2, <2>3, <2>4, <2>5, <3>1 DEF in, Consistent
  <2>6. CASE ~told
    <3>1. Consistent(msg_queue[r] \o o, in, mate, x)
      BY <1>0, <1>b, <1>c, <2>2, <2>3, <2>6, ConsistentQuiet
    <3> QED BY <2>2, <2>3, <2>4, <2>6, <3>1 DEF in, Consistent
  <2> QED BY <2>5, <2>6
<1>8. ASSUME NEW s \in Slots, Reads(s) PROVE Fine
  <2>1. UNCHANGED <<cstate, cid, csession>>
    BY <1>8 DEF Reads, table
  <2>2. Joined(r) /\ (\A k \in Slots : Joined(k)' <=> Joined(k))
    BY <1>a, <2>1 DEF Joined
  <2>3. Mate(r, x)' <=> mate
    BY <2>1, <2>2, SameMates DEF mate
  <2>4. CASE r = s
    <3> DEFINE q == msg_queue[r]
               now == x \in shown(r, Head(q))
    <3>1. q \in Seq(Packet) /\ q # << >> /\ msg_queue'[r] = Tail(q)
          /\ user_list'[r] = shown(r, Head(q))
      BY <1>0, <1>8, <2>4 DEF Reads
    <3>2. /\ 1 \in Entering(q, x) <=> (Head(q).type = "NEW_USERS" /\ x \in Head(q).ids)
          /\ 1 \in Leaving(q, x) <=> (Head(q).type = "DEL_USERS" /\ x \in Head(q).ids)
      BY <3>1, AboutTail DEF Entering, Leaving
    <3>3. /\ 1 \in Entering(q, x) => now
          /\ 1 \in Leaving(q, x) => ~now
          /\ 1 \notin Entering(q, x) /\ 1 \notin Leaving(q, x) => (now <=> in)
      BY <3>2 DEF shown, in
    <3>4. Consistent(q, in, mate, x) /\ now \in BOOLEAN
      BY <1>b, <2>2
    <3> HIDE DEF q, now
    <3>5. Consistent(Tail(q), now, mate, x)
      BY <1>c, <3>1, <3>3, <3>4, ConsistentRead
    <3> QED BY <2>3, <3>1, <3>5 DEF now, Consistent
  <2>5. CASE r # s
    <3>1. msg_queue'[r] = msg_queue[r] /\ user_list'[r] = user_list[r]
      BY <1>0, <1>8, <2>5 DEF Reads
    <3> QED BY <1>b, <2>2, <2>3, <3>1 DEF in, Consistent
  <2> QED BY <2>4, <2>5
<1> HIDE DEF Fine
<1> QED BY <1>1, <1>2, <1>3, <1>4, <1>6, <1>7, <1>8 DEF RosterStep, Fine

SessionInv == Identities /\ Outsiders /\ NotItself /\ Roster /\ Newcomers

LEMMA SessionInvInit == Init => SessionInv
  BY IdentitiesInit, OutsidersInit, NotItselfInit, RosterInit DEF SessionInv

LEMMA SessionInvStep ==
  ASSUME DistinctSeconds PROVE TypeOK /\ SessionInv /\ [Next]_vars => SessionInv'
<1> SUFFICES ASSUME TypeOK, SessionInv, [Next]_vars PROVE SessionInv'
  OBVIOUS
<1>1. RosterStep
  BY HandlersRoster
<1> QED BY <1>1, IdentitiesStep, OutsidersStep, NotItselfStep, RosterStepKept, NewcomersStep
        DEF SessionInv

\* At most one place of a queue speaks of x entering, or leaving.
LEMMA SingleCount ==
  ASSUME NEW S, Single(S) PROVE Cardinality(S) = IF S = {} THEN 0 ELSE 1
<1>1. CASE S = {}
  BY <1>1, FS_EmptySet
<1>2. CASE S # {}
  <2>1. PICK e : S = {e}
    BY <1>2 DEF Single
  <2> QED BY <1>2, <2>1, FS_Singleton
<1> QED BY <1>1, <1>2

LEMMA RosterShown == TypeOK /\ Roster => RosterAccurate
<1> SUFFICES ASSUME TypeOK, Roster, NEW s \in Slots, Joined(s), NEW x \in 1 .. MaxTime
             PROVE  Showings(s, x) =
                      IF \E r \in Slots \ {s} : /\ cstate[r] = "C_COMPLETE"
                                               /\ csession[r] = csession[s]
                                               /\ cid[r] = x
                      THEN 1 ELSE 0
  BY DEF RosterAccurate, Joined
<1> DEFINE q == msg_queue[s]
           E == Entering(q, x)
           L == Leaving(q, x)
           in == x \in user_list[s]
           mate == Mate(s, x)
<1>1. x \in Client_ID
  BY ServerAssumption DEF Client_ID
<1>2. /\ Single(E) /\ Single(L)
      /\ in => E = {}
      /\ (in \/ E # {}) <=> (mate \/ L # {})
      /\ mate => L = {}
  BY <1>1 DEF Roster, Consistent
<1>3. Showings(s, x) = (IF in THEN 1 ELSE 0) + Cardinality(E) - Cardinality(L)
  <2>1. /\ E = {i \in Queued(s, "NEW_USERS") : x \in msg_queue[s][i].ids}
        /\ L = {i \in Queued(s, "DEL_USERS") : x \in msg_queue[s][i].ids}
    BY DEF Entering, Leaving, About, Queued
  <2> QED BY <2>1 DEF Showings
<1>4. mate <=> \E r \in Slots \ {s} : /\ cstate[r] = "C_COMPLETE"
                                     /\ csession[r] = csession[s]
                                     /\ cid[r] = x
  BY DEF Mate, Joined
<1> HIDE DEF E, L, in, mate
<1>5. /\ Cardinality(E) = IF E = {} THEN 0 ELSE 1
      /\ Cardinality(L) = IF L = {} THEN 0 ELSE 1
  BY <1>2, SingleCount
<1>6. Showings(s, x) = IF mate THEN 1 ELSE 0
  BY <1>2, <1>3, <1>5
<1> QED BY <1>4, <1>6

\* packet_intro and close_client tell every client of its session mates, and
\* only of them, each once, whatever the order in which clients come and go
\* and read their queues (net_packet.c:7-14, net_close.c:11).
THEOREM RostersAgree == DistinctSeconds => (Spec => []RosterAccurate)
<1> SUFFICES ASSUME DistinctSeconds PROVE Spec => []RosterAccurate
  OBVIOUS
<1>1. Init => SessionInv
  BY SessionInvInit
<1>2. TypeOK /\ SessionInv /\ [Next]_vars => SessionInv'
  BY SessionInvStep
<1>3. TypeOK /\ SessionInv => RosterAccurate
  BY RosterShown DEF SessionInv
<1> QED BY <1>1, <1>2, <1>3, Typing, PTL DEF Spec
=============================================================================
