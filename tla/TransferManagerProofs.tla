----------------------- MODULE TransferManagerProofs -----------------------
(***************************************************************************)
(* Theorems about TransferManager, for every number of rows, commands,     *)
(* clients and transfers.                                                  *)
(*                                                                         *)
(* Typing has one lemma per action.  OpenFiles needs of it only that the   *)
(* arrays are functions on Rows to records: whichever row First picks, a   *)
(* handler that leaves a row in use leaves its file open.                  *)
(*                                                                         *)
(* The others each have an invariant over the rows, the server's tables    *)
(* and the packets between them: KnowInv for the transfers this client     *)
(* hosts, AnswersInv for who has answered, FlowInv for the data it         *)
(* receives, HeldInv for the row of a client that only receives.           *)
(***************************************************************************)
EXTENDS TransferManager, FiniteSetTheorems, FunctionTheorems, WellFoundedInduction, TLAPS

TransferTable == [transfer_id : Transfer_ID, creator_id : Clients]
ClientTable   == [transfer_id : Transfer_ID, client_id : Clients, accepted : {-1, 0, 1}]

\* The conjuncts of TypeOK a packet to the server may disturb.
RowTypes == host \in [Rows -> HostRow] /\ recv \in [Rows -> RecvRow]
DbTypes  == transfers \subseteq TransferTable /\ transfer_clients \subseteq ClientTable
PeerTypes ==
    /\ unanswered \subseteq Transfer_ID \X Others
    /\ sent \in [Transfer_ID -> 0 .. Chunks]
    /\ numbered \in Transfer_ID
Inbox == inbox \in Seq(Packet)

-----------------------------------------------------------------------------
(* The rows.                                                               *)

\* A new row has its type.
LEMMA NewRows == NewHost \in HostRow /\ NewRecv \in RecvRow
  BY ManagerAssumption DEF NewHost, NewRecv, HostRow, RecvRow, State, Transfer_ID

\* zero_transfer keeps the type of a host row.
LEMMA ZeroHost == ASSUME NEW r \in HostRow PROVE zero_host(r) \in HostRow
<1>1. "EMPTY" \in State /\ 0 \in Transfer_ID
  BY ManagerAssumption DEF State, Transfer_ID
<1>2. [p \in Others |-> "EMPTY"] \in [Others -> {"EMPTY", "ACCEPT", "DENY"}]
  OBVIOUS
<1> QED BY <1>1, <1>2 DEF zero_host, HostRow

\* zero_transfer keeps the type of a recv row.
LEMMA ZeroRecv == ASSUME NEW r \in RecvRow PROVE zero_recv(r) \in RecvRow
<1>1. "EMPTY" \in State /\ 0 \in Transfer_ID
  BY ManagerAssumption DEF State, Transfer_ID
<1> QED BY <1>1 DEF zero_recv, RecvRow

\* set_request keeps the type of a row, whoever has answered.
LEMMA SetRequest ==
  ASSUME NEW r \in HostRow, NEW c, NEW reply \in BOOLEAN
  PROVE  set_request(r, c, reply) \in HostRow
<1> DEFINE list == IF c \in r.to
                   THEN [r.accept_list EXCEPT ![c] = IF reply THEN "ACCEPT" ELSE "DENY"]
                   ELSE r.accept_list
           answers == {list[p] : p \in r.to}
           st == CASE answers \subseteq {"DENY"} -> "CANCEL"
                   [] "EMPTY" \notin answers /\ "ACCEPT" \in answers -> "ACTIVE"
                   [] OTHER -> r.state
<1>1. list \in [Others -> {"EMPTY", "ACCEPT", "DENY"}]
  BY DEF HostRow
<1>2. st \in State
  <2>1. CASE answers \subseteq {"DENY"} /\ ~("EMPTY" \notin answers /\ "ACCEPT" \in answers)
    BY <2>1 DEF State
  <2>2. CASE ~(answers \subseteq {"DENY"}) /\ "EMPTY" \notin answers /\ "ACCEPT" \in answers
    BY <2>2 DEF State
  <2>3. CASE ~(answers \subseteq {"DENY"}) /\ ~("EMPTY" \notin answers /\ "ACCEPT" \in answers)
    BY <2>3 DEF HostRow
  <2>4. ~(answers \subseteq {"DENY"} /\ "ACCEPT" \in answers)
    OBVIOUS
  <2> QED BY <2>1, <2>2, <2>3, <2>4
<1>3. set_request(r, c, reply) = [r EXCEPT !.accept_list = list, !.state = st]
  BY DEF set_request
<1> HIDE DEF list, answers, st
<1> QED BY <1>1, <1>2, <1>3 DEF HostRow

\* Setting one row to a value of its type keeps the type of the array.
LEMMA HostArray ==
  ASSUME NEW A \in [Rows -> HostRow], NEW i, NEW v, i \in Rows => v \in HostRow
  PROVE  [A EXCEPT ![i] = v] \in [Rows -> HostRow]
  OBVIOUS

\* The same for the other array.
LEMMA RecvArray ==
  ASSUME NEW A \in [Rows -> RecvRow], NEW i, NEW v, i \in Rows => v \in RecvRow
  PROVE  [A EXCEPT ![i] = v] \in [Rows -> RecvRow]
  OBVIOUS

-----------------------------------------------------------------------------
(* The server's tables.                                                    *)

\* Deleting and updating rows keeps the types of the tables.
LEMMA DbSteps ==
  ASSUME DbTypes, NEW T, NEW t, NEW p, NEW answer \in {0, 1}
  PROVE  /\ db_cleanup_transfer(T) => DbTypes'
         /\ db_client_accept(t, p, answer) /\ UNCHANGED transfers => DbTypes'
         /\ db_client_delete(p) /\ UNCHANGED transfers => DbTypes'
<1>1. db_cleanup_transfer(T) => DbTypes'
  BY DEF DbTypes, db_cleanup_transfer
<1>2. ASSUME db_client_accept(t, p, answer), UNCHANGED transfers PROVE DbTypes'
  <2>1. ASSUME NEW w \in transfer_clients
        PROVE  w \in ClientTable /\ [w EXCEPT !.accepted = answer] \in ClientTable
    BY DEF DbTypes, ClientTable
  <2> QED BY <1>2, <2>1 DEF DbTypes, db_client_accept
<1>3. db_client_delete(p) /\ UNCHANGED transfers => DbTypes'
  BY DEF DbTypes, db_client_delete
<1> QED BY <1>1, <1>2, <1>3

\* A new transfer has a number of the type.
LEMMA CreateTypes ==
  ASSUME DbTypes, PeerTypes, NEW t \in Transfer_ID, NEW c \in Clients,
         NEW to \in SUBSET Clients, db_create(t, c, to)
  PROVE  DbTypes' /\ (sent \in [Transfer_ID -> 0 .. Chunks])' /\ (numbered \in Transfer_ID)'
<1>1. DbTypes'
  BY DEF DbTypes, db_create, TransferTable, ClientTable
<1>2. (sent \in [Transfer_ID -> 0 .. Chunks])' /\ (numbered \in Transfer_ID)'
  BY ManagerAssumption DEF PeerTypes, db_create
<1> QED BY <1>1, <1>2

\* What the server does with a request of this client.
LEMMA PacketTransfer ==
  ASSUME DbTypes, PeerTypes, Inbox, NEW l \in Nat, NEW to \in SUBSET Others,
         packet_transfer(l, to)
  PROVE  DbTypes' /\ PeerTypes' /\ Inbox'
<1> DEFINE P(type, t) == [type |-> type, t_id |-> t, local_id |-> l, to |-> to]
<1>1. CASE inbox' = Append(inbox, P("INVALID", 0))
           /\ UNCHANGED <<db, unanswered, sent, numbered>>
  <2>1. P("INVALID", 0) \in Packet
    BY ManagerAssumption DEF Packet, Transfer_ID
  <2> QED BY <1>1, <2>1 DEF db, DbTypes, PeerTypes, Inbox
<1>2. ASSUME NEW t \in Transfer_ID, db_create(t, Me, to),
             unanswered' = unanswered \cup ({t} \X to),
             inbox' = Append(inbox, P("VALID", t))
      PROVE  DbTypes' /\ PeerTypes' /\ Inbox'
  <2>1. P("VALID", t) \in Packet
    BY DEF Packet
  <2>2. Me \in Clients /\ to \in SUBSET Clients
    BY DEF Clients
  <2>3. DbTypes' /\ (sent \in [Transfer_ID -> 0 .. Chunks])' /\ (numbered \in Transfer_ID)'
    BY <1>2, <2>2, CreateTypes
  <2> QED BY <1>2, <2>1, <2>3 DEF PeerTypes, Inbox
<1> QED BY <1>1, <1>2 DEF packet_transfer

\* What the server does with a cancel of this client.
LEMMA PacketCancel ==
  ASSUME DbTypes, Inbox, NEW t, packet_cancel(t)
  PROVE  DbTypes' /\ Inbox'
<1>1. CASE db_cleanup_transfer({t})
  BY <1>1, DbSteps DEF packet_cancel, Inbox
<1>2. CASE db_client_delete(Me) /\ UNCHANGED transfers
  BY <1>2, DbSteps DEF packet_cancel, Inbox
<1>3. CASE UNCHANGED <<transfers, transfer_clients>>
  BY <1>3 DEF packet_cancel, Inbox, DbTypes
<1> QED BY <1>1, <1>2, <1>3 DEF packet_cancel

\* The end of the client leaves the types.
LEMMA ClientEndsType == ASSUME TypeOK, ClientEnds PROVE TypeOK'
<1>1. RowTypes'
  BY NewRows DEF ClientEnds, RowTypes
<1>2. DbTypes'
  BY DEF ClientEnds, TypeOK, DbTypes, TransferTable, ClientTable
<1>3. PeerTypes' /\ (offered \in 0 .. MaxRecv)'
  BY DEF ClientEnds, TypeOK, PeerTypes, peers
<1>4. (cmd_queue \in Seq(Cmd) /\ Len(cmd_queue) <= CMD_CAPACITY)' /\ Inbox'
  BY ManagerAssumption DEF ClientEnds, Inbox
<1> QED BY <1>1, <1>2, <1>3, <1>4
     DEF ClientEnds, TypeOK, RowTypes, DbTypes, PeerTypes, Inbox, TransferTable, ClientTable

-----------------------------------------------------------------------------
(* The GUI thread.                                                         *)

\* A command that is pushed, or refused by a full queue, leaves a queue.
LEMMA PushType ==
  ASSUME TypeOK, NEW cmd \in Cmd, push(cmd)
  PROVE  (cmd_queue \in Seq(Cmd) /\ Len(cmd_queue) <= CMD_CAPACITY)'
  BY ManagerAssumption DEF TypeOK, push, Full

\* Drawing a button.
LEMMA RenderType ==
  ASSUME TypeOK, NEW array \in {"host", "recv"}, NEW i \in Rows,
         NEW button \in {"Accept", "Deny", "Cancel"}, render(array, i, button)
  PROVE  TypeOK'
  BY DEF TypeOK, render, arrays, db, peers

\* Clicking it.
LEMMA ClickType ==
  ASSUME TypeOK, NEW array \in {"host", "recv"}, NEW i \in Rows,
         NEW button \in {"Accept", "Deny", "Cancel"}, click(array, i, button)
  PROVE  TypeOK'
<1> DEFINE t == IF array = "recv" THEN recv[i].t_id ELSE host[i].t_id
           cmd == IF button = "Cancel"
                  THEN [type |-> "CANCEL", t_id |-> t]
                  ELSE [type |-> "REPLY", t_id |-> t, reply |-> button = "Accept"]
<1>1. CASE ClientEnds
  BY <1>1, ClientEndsType
<1>2. CASE ~ClientEnds
  <2>1. t \in Transfer_ID
    BY DEF TypeOK, HostRow, RecvRow
  <2>2. cmd \in Cmd
    BY <2>1 DEF Cmd
  <2>3. /\ push(cmd) /\ look' = << >> /\ commands' = commands + 1
        /\ UNCHANGED <<alive, phase, arrays, client_transfer_ids, inbox, db, peers>>
        /\ commands < MaxCommands
    BY <1>2 DEF click
  <2>4. (cmd_queue \in Seq(Cmd) /\ Len(cmd_queue) <= CMD_CAPACITY)'
    BY <2>2, <2>3, PushType
  <2> HIDE DEF cmd, t
  <2> QED BY <2>3, <2>4, ManagerAssumption DEF TypeOK, arrays, db, peers
<1> QED BY <1>1, <1>2

\* Asking for a transfer.
LEMMA TransferType ==
  ASSUME TypeOK, NEW size \in {0, Chunks}, NEW to \in SUBSET Others, transfer(size, to)
  PROVE  TypeOK'
<1>1. CASE ClientEnds
  BY <1>1, ClientEndsType
<1>2. CASE ~ClientEnds
  <2>1. [type |-> "REQUEST", size |-> size, to |-> to] \in Cmd
    BY ManagerAssumption DEF Cmd
  <2>2. /\ push([type |-> "REQUEST", size |-> size, to |-> to])
        /\ commands' = commands + 1 /\ commands < MaxCommands
        /\ UNCHANGED <<alive, phase, arrays, client_transfer_ids, look, inbox, db, peers>>
    BY <1>2 DEF transfer
  <2>3. (cmd_queue \in Seq(Cmd) /\ Len(cmd_queue) <= CMD_CAPACITY)'
    BY <2>1, <2>2, PushType
  <2> QED BY <2>2, <2>3, ManagerAssumption DEF TypeOK, arrays, db, peers
<1> QED BY <1>1, <1>2

-----------------------------------------------------------------------------
(* The network thread.                                                     *)

\* A request takes a row, or none.
LEMMA CmdRequestType ==
  ASSUME TypeOK, NEW cmd \in Cmd, cmd.type = "REQUEST", cmd_host_request(cmd)
  PROVE  RowTypes' /\ (client_transfer_ids \in Nat)'
<1> DEFINE i == First({k \in Rows : host[k].state = "EMPTY"})
           v == [host[i] EXCEPT !.state = "SEND_REQ", !.to = cmd.to, !.left = cmd.size,
                                !.local_id = client_transfer_ids, !.open = TRUE]
<1>1. CASE UNCHANGED <<arrays, client_transfer_ids>>
  BY <1>1 DEF TypeOK, RowTypes, arrays
<1>2. CASE /\ host' = [host EXCEPT ![i] = v]
           /\ client_transfer_ids' = client_transfer_ids + 1 /\ UNCHANGED recv
  <2>1. cmd.to \in SUBSET Others /\ cmd.size \in 0 .. Chunks
    BY DEF Cmd
  <2>2. ASSUME i \in Rows PROVE v \in HostRow
    <3>1. host[i] \in HostRow /\ client_transfer_ids \in Nat /\ "SEND_REQ" \in State
      BY <2>2 DEF TypeOK, State
    <3> HIDE DEF i
    <3> QED BY <2>1, <3>1 DEF HostRow
  <2> HIDE DEF v, i
  <2>3. host' \in [Rows -> HostRow]
    BY <1>2, <2>2, HostArray DEF TypeOK
  <2> QED BY <1>2, <2>3 DEF TypeOK, RowTypes
<1> QED BY <1>1, <1>2 DEF cmd_host_request

\* An answer or a cancel sets the state of a row, or of none.
LEMMA SetState ==
  ASSUME NEW A, NEW st \in State, NEW i
  PROVE  /\ A \in [Rows -> HostRow] => [A EXCEPT ![i].state = st] \in [Rows -> HostRow]
         /\ A \in [Rows -> RecvRow] => [A EXCEPT ![i].state = st] \in [Rows -> RecvRow]
  BY DEF HostRow, RecvRow

\* The loop of process_cmds.
LEMMA ProcessType == ASSUME TypeOK, process_cmds PROVE TypeOK'
<1> DEFINE cmd == Head(cmd_queue)
<1>1. cmd \in Cmd /\ (cmd_queue \in Seq(Cmd) /\ Len(cmd_queue) <= CMD_CAPACITY)'
  BY ManagerAssumption DEF TypeOK, process_cmds
<1>2. RowTypes' /\ (client_transfer_ids \in Nat)'
  <2>1. CASE cmd.type = "REQUEST" /\ cmd_host_request(cmd)
    BY <1>1, <2>1, CmdRequestType
  <2>2. CASE cmd.type = "REPLY" /\ cmd_recv_request_reply(cmd)
    <3> HIDE DEF cmd
    <3>1. (IF cmd.reply THEN "ACCEPT" ELSE "DENY") \in State
      BY DEF State
    <3> QED BY <2>2, <3>1, SetState DEF cmd_recv_request_reply, TypeOK, RowTypes
  <2>3. CASE cmd.type = "CANCEL" /\ cmd_cancel(cmd)
    <3> HIDE DEF cmd
    <3>1. "CANCEL" \in State
      BY DEF State
    <3> QED BY <2>3, <3>1, SetState DEF cmd_cancel, TypeOK, RowTypes
  <2> QED BY <2>1, <2>2, <2>3 DEF process_cmds
<1> QED BY <1>1, <1>2 DEF process_cmds, TypeOK, RowTypes, gui, db, peers

\* A cancel empties its row.
LEMMA SendCancelType ==
  ASSUME TypeOK, NEW i \in Rows, send_cancel_host(i) \/ send_cancel_recv(i)
  PROVE  RowTypes' /\ DbTypes' /\ PeerTypes' /\ Inbox' /\ (offered \in 0 .. MaxRecv)'
<1>1. DbTypes /\ Inbox
  BY DEF TypeOK, DbTypes, Inbox, TransferTable, ClientTable
<1>2. DbTypes' /\ Inbox'
  BY <1>1, PacketCancel DEF send_cancel_host, send_cancel_recv
<1>3. zero_host(host[i]) \in HostRow /\ zero_recv(recv[i]) \in RecvRow
  BY ZeroHost, ZeroRecv DEF TypeOK
<1>3a. RowTypes'
  BY <1>3 DEF TypeOK, RowTypes, send_cancel_host, send_cancel_recv
<1>4. PeerTypes' /\ (offered \in 0 .. MaxRecv)'
  BY DEF TypeOK, PeerTypes, send_cancel_host, send_cancel_recv, peers
<1> QED BY <1>2, <1>3a, <1>4

\* A packet of a file, the last packet, or an error.
LEMMA SendDataType ==
  ASSUME TypeOK, NEW i \in Rows, send_data(i)
  PROVE  RowTypes' /\ DbTypes' /\ PeerTypes' /\ Inbox' /\ (offered \in 0 .. MaxRecv)'
<1>1. CASE send_cancel_host(i)
  BY <1>1, SendCancelType
<1>2. CASE /\ host[i].left > 0
           /\ host' = [host EXCEPT ![i].left = @ - 1]
           /\ UNCHANGED <<recv, inbox, db, peers>>
  <2>0. host[i] \in HostRow /\ host[i].left \in 0 .. Chunks
    BY DEF TypeOK, HostRow
  <2>0a. host[i].left - 1 \in 0 .. Chunks
    BY <1>2, <2>0, ManagerAssumption
  <2>1. [host[i] EXCEPT !.left = @ - 1] \in HostRow
    BY <2>0, <2>0a DEF HostRow
  <2>2. host' = [host EXCEPT ![i] = [host[i] EXCEPT !.left = @ - 1]]
    BY <1>2
  <2>3. host' \in [Rows -> HostRow]
    BY <2>1, <2>2 DEF TypeOK
  <2> QED BY <1>2, <2>3
       DEF TypeOK, RowTypes, DbTypes, PeerTypes, Inbox, TransferTable, ClientTable, db, peers
<1>3. CASE /\ host' = [host EXCEPT ![i] = zero_host([@ EXCEPT !.open = FALSE])]
           /\ IF host[i].t_id \in Created(Me)
              THEN db_cleanup_transfer({host[i].t_id})
              ELSE UNCHANGED db
           /\ UNCHANGED <<recv, inbox, peers>>
  <2>0. host[i] \in HostRow
    BY DEF TypeOK
  <2>1. [host[i] EXCEPT !.open = FALSE] \in HostRow
    BY <2>0 DEF HostRow
  <2>2. RowTypes'
    BY <1>3, <2>1, ZeroHost DEF TypeOK, RowTypes
  <2>3. DbTypes
    BY DEF TypeOK, DbTypes, TransferTable, ClientTable
  <2>4. DbTypes'
    BY <1>3, <2>3, DbSteps DEF db, DbTypes
  <2> QED BY <1>3, <2>2, <2>4 DEF TypeOK, PeerTypes, Inbox, peers
<1> QED BY <1>1, <1>2, <1>3 DEF send_data

\* A request.
LEMMA SendRequestType ==
  ASSUME TypeOK, NEW i \in Rows, send_request(i)
  PROVE  RowTypes' /\ DbTypes' /\ PeerTypes' /\ Inbox' /\ (offered \in 0 .. MaxRecv)'
<1>1. DbTypes /\ PeerTypes /\ Inbox
  BY DEF TypeOK, DbTypes, PeerTypes, Inbox, TransferTable, ClientTable
<1>2. host[i].local_id \in Nat /\ host[i].to \in SUBSET Others
  BY DEF TypeOK, HostRow
<1>3. DbTypes' /\ PeerTypes' /\ Inbox'
  BY <1>1, <1>2, PacketTransfer DEF send_request
<1>4. "GET_RESPONSE" \in State
  BY DEF State
<1> QED BY <1>3, <1>4, SetState DEF send_request, TypeOK, RowTypes

\* An answer.
LEMMA SendReplyType ==
  ASSUME TypeOK, NEW i \in Rows, send_recv_request_reply(i)
  PROVE  RowTypes' /\ DbTypes' /\ PeerTypes' /\ Inbox' /\ (offered \in 0 .. MaxRecv)'
<1> DEFINE v == IF recv[i].state = "ACCEPT"
                THEN [recv[i] EXCEPT !.state = "ACTIVE"] ELSE zero_recv(recv[i])
<1>1. v \in RecvRow
  <2>1. recv[i] \in RecvRow /\ "ACTIVE" \in State
    BY DEF TypeOK, State
  <2>2. [recv[i] EXCEPT !.state = "ACTIVE"] \in RecvRow
    BY <2>1 DEF RecvRow
  <2> QED BY <2>1, <2>2, ZeroRecv
<1>2. recv' = [recv EXCEPT ![i] = v]
  BY DEF send_recv_request_reply
<1>3. RowTypes'
  <2> HIDE DEF v
  <2> QED BY <1>1, <1>2 DEF TypeOK, RowTypes, send_recv_request_reply
<1>4. DbTypes
  BY DEF TypeOK, DbTypes, TransferTable, ClientTable
<1>5. DbTypes'
  BY <1>4, DbSteps DEF send_recv_request_reply
<1> QED BY <1>3, <1>5 DEF send_recv_request_reply, TypeOK, PeerTypes, Inbox, peers

-----------------------------------------------------------------------------
(* Which row First picks.                                                  *)

\* The least row of a set of rows is one of them: < is well founded.
LEMMA FirstIn == ASSUME NEW S \in SUBSET Rows, S # {} PROVE First(S) \in S
<1>1. S \subseteq Nat
  BY ManagerAssumption DEF Rows
<1>2. PICK i \in S : \A k \in S : ~(<<k, i>> \in OpToRel(<, Nat))
  <2> SUFFICES \E i \in S : \A k \in S : ~(<<k, i>> \in OpToRel(<, Nat))
    OBVIOUS
  <2> QED BY <1>1, NatLessThanWellFounded, WFMin
<1>3. \A k \in S : i <= k
  <2> SUFFICES ASSUME NEW k \in S, k < i PROVE FALSE
    BY <1>1
  <2>1. <<k, i>> \in OpToRel(<, Nat)
    BY <1>1 DEF OpToRel
  <2> QED BY <1>2, <2>1
<1> QED BY <1>3 DEF First

\* One packet sent, or none.
LEMMA DoWorkType == ASSUME TypeOK, do_work PROVE TypeOK'
<1> DEFINE Parts == RowTypes' /\ DbTypes' /\ PeerTypes' /\ Inbox' /\ (offered \in 0 .. MaxRecv)'
<1>1. Parts
  <2>1. CASE HostWork # {}
    <3> DEFINE i == First(HostWork)
    <3>1. i \in Rows
      BY <2>1, FirstIn DEF HostWork
    <3>2. send_data(i) \/ send_cancel_host(i) \/ send_request(i)
      BY <2>1 DEF do_work
    <3> HIDE DEF i
    <3> QED BY <3>1, <3>2, SendDataType, SendCancelType, SendRequestType
  <2>2. CASE HostWork = {} /\ RecvWork # {}
    <3> DEFINE i == First(RecvWork)
    <3>1. i \in Rows
      BY <2>2, FirstIn DEF RecvWork
    <3>2. send_cancel_recv(i) \/ send_recv_request_reply(i)
      BY <2>2 DEF do_work
    <3> HIDE DEF i
    <3> QED BY <3>1, <3>2, SendReplyType, SendCancelType
  <2>3. CASE HostWork = {} /\ RecvWork = {}
    <3>1. UNCHANGED <<arrays, inbox, db, peers>>
      BY <2>3 DEF do_work
    <3> QED BY <3>1 DEF TypeOK, RowTypes, DbTypes, PeerTypes, Inbox, TransferTable,
                        ClientTable, arrays, db, peers
  <2> QED BY <2>1, <2>2, <2>3
<1>2. phase' = "read" /\ UNCHANGED <<alive, cmd_queue, client_transfer_ids, gui>>
  BY DEF do_work
<1> QED BY <1>1, <1>2
     DEF TypeOK, RowTypes, DbTypes, PeerTypes, Inbox, TransferTable, ClientTable, gui

\* The turns in which nothing is sent, and the end of a turn.
LEMMA TurnType == ASSUME TypeOK, wait_work \/ next_round PROVE TypeOK'
  BY DEF TypeOK, wait_work, next_round, arrays, gui, db, peers

\* The packets of an array's handlers keep its type.
LEMMA HandlerTypes ==
  ASSUME TypeOK, NEW p \in Packet
  PROVE  /\ p.type \in {"VALID", "INVALID"} /\ host_request_valid(p) => RowTypes'
         /\ p.type = "REPLY" /\ host_request_reply(p) => RowTypes'
         /\ p.type = "CANCEL" /\ recv_cancel(p) => RowTypes'
         /\ p.type = "DATA" /\ recv_data(p) => RowTypes'
         /\ p.type = "COMPLETE" /\ recv_complete(p) => RowTypes'
         /\ p.type = "REQUEST" /\ create_recv_request(p) => RowTypes'
<1> USE DEF RowTypes
<1>1. /\ host \in [Rows -> HostRow] /\ recv \in [Rows -> RecvRow]
      /\ p.t_id \in Transfer_ID
      /\ p.type \in {"VALID", "INVALID"} => p.to \in SUBSET Others
      /\ p.type = "REPLY" => p.accept \in BOOLEAN
  BY DEF TypeOK, Packet
<1>2. ASSUME NEW i \in Rows
      PROVE  /\ host[i] \in HostRow /\ recv[i] \in RecvRow
             /\ zero_recv(recv[i]) \in RecvRow
             /\ zero_recv([recv[i] EXCEPT !.open = FALSE]) \in RecvRow
             /\ \A c : \A reply \in BOOLEAN : set_request(host[i], c, reply) \in HostRow
  <2>1. host[i] \in HostRow /\ recv[i] \in RecvRow
    BY <1>1
  <2>2. [recv[i] EXCEPT !.open = FALSE] \in RecvRow
    BY <2>1 DEF RecvRow
  <2>3. \A c : \A reply \in BOOLEAN : set_request(host[i], c, reply) \in HostRow
    BY <2>1, SetRequest
  <2> QED BY <2>1, <2>2, <2>3, ZeroRecv
<1>3. ASSUME p.type \in {"VALID", "INVALID"}, host_request_valid(p) PROVE RowTypes'
  <2> DEFINE i == First({k \in Rows : host[k].state = "GET_RESPONSE" /\ host[k].local_id = p.local_id})
             v == IF p.type = "VALID"
                  THEN [host[i] EXCEPT !.state = "PENDING", !.t_id = p.t_id, !.to = p.to]
                  ELSE [host[i] EXCEPT !.state = "CANCEL"]
  <2>1. host' = host \/ host' = [host EXCEPT ![i] = v]
    BY <1>3 DEF host_request_valid
  <2>2. ASSUME i \in Rows PROVE v \in HostRow
    <3>1. host[i] \in HostRow
      BY <1>2, <2>2
    <3> HIDE DEF i
    <3> QED BY <1>1, <1>3, <3>1 DEF HostRow, State
  <2> HIDE DEF v, i
  <2>3. host' \in [Rows -> HostRow]
    BY <1>1, <2>1, <2>2, HostArray
  <2> QED BY <1>1, <1>3, <2>3 DEF host_request_valid
<1>4. ASSUME p.type = "REPLY", host_request_reply(p) PROVE RowTypes'
  <2> DEFINE i == First({k \in Rows : host[k].state = "PENDING" /\ host[k].t_id = p.t_id})
             v == set_request(host[i], p.from, p.accept)
  <2>1. host' = host \/ host' = [host EXCEPT ![i] = v]
    BY <1>4 DEF host_request_reply
  <2>2. ASSUME i \in Rows PROVE v \in HostRow
    <3> HIDE DEF i
    <3>1. p.accept \in BOOLEAN
      BY <1>1, <1>4
    <3> QED BY <1>2, <2>2, <3>1
  <2> HIDE DEF v, i
  <2>3. host' \in [Rows -> HostRow]
    BY <1>1, <2>1, <2>2, HostArray
  <2> QED BY <1>1, <1>4, <2>3 DEF host_request_reply
<1>5. ASSUME p.type = "CANCEL", recv_cancel(p) PROVE RowTypes'
  <2> DEFINE i == First(Cancellable(recv, p.t_id))
             j == First(Cancellable(host, p.t_id))
             v == zero_recv(recv[i])
             w == set_request(host[j], p.from, FALSE)
  <2>1. /\ recv' = recv \/ recv' = [recv EXCEPT ![i] = v]
        /\ host' = host \/ host' = [host EXCEPT ![j] = w]
    BY <1>5 DEF recv_cancel
  <2>2. (i \in Rows => v \in RecvRow) /\ (j \in Rows => w \in HostRow)
    <3> HIDE DEF i, j
    <3> QED BY <1>2
  <2> HIDE DEF v, w, i, j
  <2> QED BY <1>1, <2>1, <2>2, HostArray, RecvArray
<1>6. ASSUME p.type = "DATA", recv_data(p) PROVE RowTypes'
  <2> DEFINE i == First(Receiving(p.t_id))
             v == [recv[i] EXCEPT !.bytes = IF @ < Chunks THEN @ + 1 ELSE @]
  <2>1. recv' = recv \/ recv' = [recv EXCEPT ![i] = v]
    BY <1>6 DEF recv_data
  <2>2. ASSUME i \in Rows PROVE v \in RecvRow
    <3>1. recv[i] \in RecvRow
      BY <1>2, <2>2
    <3> HIDE DEF i
    <3>2. (IF recv[i].bytes < Chunks THEN recv[i].bytes + 1 ELSE recv[i].bytes) \in 0 .. Chunks
      BY <3>1, ManagerAssumption DEF RecvRow
    <3> QED BY <3>1, <3>2 DEF RecvRow
  <2> HIDE DEF v, i
  <2>3. recv' \in [Rows -> RecvRow]
    BY <1>1, <2>1, <2>2, RecvArray
  <2> QED BY <1>1, <1>6, <2>3 DEF recv_data
<1>7. ASSUME p.type = "COMPLETE", recv_complete(p) PROVE RowTypes'
  <2> DEFINE i == First(Receiving(p.t_id))
             v == zero_recv([recv[i] EXCEPT !.open = FALSE])
  <2>1. recv' = recv \/ recv' = [recv EXCEPT ![i] = v]
    BY <1>7 DEF recv_complete
  <2>2. i \in Rows => v \in RecvRow
    BY <1>2
  <2> HIDE DEF v, i
  <2>3. recv' \in [Rows -> RecvRow]
    BY <1>1, <2>1, <2>2, RecvArray
  <2> QED BY <1>1, <1>7, <2>3 DEF recv_complete
<1>8. ASSUME p.type = "REQUEST", create_recv_request(p) PROVE RowTypes'
  <2> DEFINE v == [state |-> "GET_RESPONSE", t_id |-> p.t_id, bytes |-> 0, open |-> TRUE]
  <2>1. v \in RecvRow
    BY <1>1, ManagerAssumption DEF RecvRow, State
  <2>2. recv' = [recv EXCEPT ![First(free_recv)] = v]
    BY <1>8 DEF create_recv_request
  <2> HIDE DEF v
  <2>3. recv' \in [Rows -> RecvRow]
    BY <1>1, <2>1, <2>2, RecvArray
  <2> QED BY <1>1, <1>8, <2>3 DEF create_recv_request
<1> QED BY <1>3, <1>4, <1>5, <1>6, <1>7, <1>8

\* One packet read.
LEMMA AnalizeType == ASSUME TypeOK, analize PROVE TypeOK'
<1> DEFINE p == Head(inbox)
<1>1. p \in Packet /\ Tail(inbox) \in Seq(Packet)
  BY DEF analize, TypeOK
<1>2. CASE ClientEnds
  BY <1>2, ClientEndsType
<1>3. CASE ~ClientEnds
  <2>1. RowTypes' /\ inbox' = Tail(inbox)
        /\ UNCHANGED <<alive, phase, cmd_queue, client_transfer_ids, gui, db, peers>>
    <3> HIDE DEF p
    <3> QED BY <1>1, <1>3, HandlerTypes DEF analize, p
  <2> QED BY <1>1, <2>1 DEF TypeOK, RowTypes, gui, db, peers
<1> QED BY <1>2, <1>3

-----------------------------------------------------------------------------
(* The other clients.                                                      *)

\* A step that leaves what is the client's own.
LEMMA PeerParts ==
  ASSUME TypeOK, UNCHANGED local, DbTypes', PeerTypes', Inbox', (offered \in 0 .. MaxRecv)'
  PROVE  TypeOK'
  BY DEF TypeOK, DbTypes, PeerTypes, Inbox, TransferTable, ClientTable, local, arrays, gui

\* TypeOK gives the parts.
LEMMA Parts ==
  ASSUME TypeOK
  PROVE  /\ DbTypes /\ PeerTypes /\ Inbox /\ offered \in 0 .. MaxRecv
         /\ Me \in Clients /\ Others \subseteq Clients
  BY DEF TypeOK, DbTypes, PeerTypes, Inbox, TransferTable, ClientTable, Clients

\* A request to this client.
LEMMA PeerRequestType == ASSUME TypeOK, NEW p \in Others, peer_request(p) PROVE TypeOK'
<1> USE Parts
<1>1. PICK t \in Transfer_ID :
         /\ db_create(t, p, {Me})
         /\ inbox' = Append(inbox, [type |-> "REQUEST", t_id |-> t, from |-> p])
  BY DEF peer_request
<1>2. DbTypes' /\ (sent \in [Transfer_ID -> 0 .. Chunks])' /\ (numbered \in Transfer_ID)'
  BY <1>1, CreateTypes
<1>3. PeerTypes'
  BY <1>2 DEF PeerTypes, peer_request
<1>4. [type |-> "REQUEST", t_id |-> t, from |-> p] \in Packet
  BY DEF Packet, Clients
<1>5. Inbox'
  BY <1>1, <1>4 DEF Inbox
<1>6. (offered \in 0 .. MaxRecv)' /\ UNCHANGED local
  BY ManagerAssumption DEF peer_request
<1> QED BY <1>2, <1>3, <1>5, <1>6, PeerParts

\* An answer, forwarded or not.
LEMMA PeerReplyType ==
  ASSUME TypeOK, NEW t \in Transfer_ID, NEW p \in Others, NEW accept \in BOOLEAN,
         peer_reply(t, p, accept)
  PROVE  TypeOK'
<1> USE Parts
<1>1. DbTypes'
  BY DbSteps DEF peer_reply
<1>2. PeerTypes' /\ (offered \in 0 .. MaxRecv)' /\ UNCHANGED local
  BY DEF PeerTypes, peer_reply
<1>3. [type |-> "REPLY", t_id |-> t, from |-> p, accept |-> accept] \in Packet
  BY DEF Packet, Clients
<1>4. Inbox'
  BY <1>3 DEF Inbox, peer_reply
<1> QED BY <1>1, <1>2, <1>4, PeerParts

\* A file, packet by packet, and its end.
LEMMA HostsType ==
  ASSUME TypeOK, NEW t \in Transfer_ID, peer_data(t) \/ peer_complete(t)
  PROVE  TypeOK'
<1> USE Parts
<1>1. [type |-> "DATA", t_id |-> t] \in Packet /\ [type |-> "COMPLETE", t_id |-> t] \in Packet
  BY DEF Packet
<1>2. CASE peer_data(t)
  <2>1. sent[t] + 1 \in 0 .. Chunks
    BY <1>2, ManagerAssumption DEF PeerTypes, peer_data
  <2>2. PeerTypes'
    BY <1>2, <2>1 DEF PeerTypes, peer_data
  <2>3. DbTypes' /\ Inbox' /\ (offered \in 0 .. MaxRecv)' /\ UNCHANGED local
    BY <1>1, <1>2 DEF DbTypes, Inbox, peer_data, db
  <2> QED BY <2>2, <2>3, PeerParts
<1>3. CASE peer_complete(t)
  <2>1. DbTypes'
    BY <1>3, DbSteps DEF peer_complete
  <2>2. PeerTypes' /\ Inbox' /\ (offered \in 0 .. MaxRecv)' /\ UNCHANGED local
    BY <1>1, <1>3 DEF PeerTypes, Inbox, peer_complete, peers
  <2> QED BY <2>1, <2>2, PeerParts
<1> QED BY <1>2, <1>3

\* A cancel of the host of a transfer, or of a recipient.
LEMMA PeerCancelType ==
  ASSUME TypeOK, NEW t \in Transfer_ID, NEW p \in Others,
         peer_cancel_host(t, p) \/ peer_cancel_recv(t, p)
  PROVE  TypeOK'
<1> USE Parts
<1>1. Cancelled(t, p) \in Packet
  BY DEF Packet, Clients, Cancelled
<1>2. DbTypes'
  BY DbSteps DEF peer_cancel_host, peer_cancel_recv
<1>3. PeerTypes' /\ (offered \in 0 .. MaxRecv)' /\ UNCHANGED local
  BY DEF PeerTypes, peers, peer_cancel_host, peer_cancel_recv
<1>4. Inbox'
  BY <1>1 DEF Inbox, peer_cancel_host, peer_cancel_recv
<1> QED BY <1>2, <1>3, <1>4, PeerParts

\* One order or another of a set of transfers is a sequence of cancels.
LEMMA CancelSeq ==
  ASSUME NEW S \in SUBSET Transfer_ID, NEW p \in Others, NEW q \in Ordered(S)
  PROVE  [k \in DOMAIN q |-> Cancelled(q[k], p)] \in Seq(Packet)
<1>1. IsFiniteSet(Transfer_ID)
  BY FS_Interval, ManagerAssumption DEF Transfer_ID
<1>2. Cardinality(S) \in Nat
  BY <1>1, FS_Subset, FS_CardinalityType
<1>3. DOMAIN q = 1 .. Cardinality(S) /\ \A k \in DOMAIN q : q[k] \in S
  BY DEF Ordered
<1>4. \A t \in Transfer_ID : Cancelled(t, p) \in Packet
  BY DEF Packet, Clients, Cancelled
<1>5. [k \in DOMAIN q |-> Cancelled(q[k], p)] \in [1 .. Cardinality(S) -> Packet]
  BY <1>3, <1>4
<1> QED BY <1>2, <1>5

\* A client that goes.
LEMMA CloseClientType == ASSUME TypeOK, NEW p \in Others, close_client(p) PROVE TypeOK'
<1> USE Parts
<1> DEFINE received == {w.transfer_id : w \in {v \in transfer_clients : v.client_id = p}}
<1>1. ToldOfCancel(Created(p)) \subseteq Transfer_ID /\ received \subseteq Transfer_ID
  BY DEF ToldOfCancel, Created, DbTypes, TransferTable, ClientTable
<1>2. PICK a \in Ordered(ToldOfCancel(Created(p))), b \in Ordered(received) :
        inbox' = inbox \o [k \in DOMAIN a |-> Cancelled(a[k], p)]
                       \o [k \in DOMAIN b |-> Cancelled(b[k], p)]
  BY DEF close_client
<1>3. /\ [k \in DOMAIN a |-> Cancelled(a[k], p)] \in Seq(Packet)
      /\ [k \in DOMAIN b |-> Cancelled(b[k], p)] \in Seq(Packet)
  BY <1>1, CancelSeq
<1>4. Inbox'
  BY <1>2, <1>3 DEF Inbox
<1>5. DbTypes'
  BY DEF DbTypes, close_client
<1>6. PeerTypes' /\ (offered \in 0 .. MaxRecv)' /\ UNCHANGED local
  BY DEF PeerTypes, close_client
<1> QED BY <1>4, <1>5, <1>6, PeerParts

-----------------------------------------------------------------------------
(* The specification.                                                      *)

\* The initial states have the types.
LEMMA InitType == Init => TypeOK
<1> SUFFICES ASSUME Init PROVE TypeOK
  OBVIOUS
<1>1. host \in [Rows -> HostRow] /\ recv \in [Rows -> RecvRow]
  BY NewRows DEF Init
<1>2. cmd_queue \in Seq(Cmd) /\ Len(cmd_queue) <= CMD_CAPACITY /\ inbox \in Seq(Packet)
  BY ManagerAssumption DEF Init
<1>3. sent \in [Transfer_ID -> 0 .. Chunks] /\ numbered \in Transfer_ID /\ offered \in 0 .. MaxRecv
  BY ManagerAssumption DEF Init, Transfer_ID
<1>4. commands \in 0 .. MaxCommands /\ client_transfer_ids \in Nat
  BY ManagerAssumption DEF Init
<1> QED BY <1>1, <1>2, <1>3, <1>4 DEF Init, TypeOK

\* Every step keeps the types.
LEMMA StepType == TypeOK /\ [Next]_vars => TypeOK'
<1> SUFFICES ASSUME TypeOK, [Next]_vars PROVE TypeOK'
  OBVIOUS
<1>1. CASE GUI
  BY <1>1, RenderType, ClickType, TransferType DEF GUI
<1>2. CASE Network
  BY <1>2, ProcessType, DoWorkType, TurnType, AnalizeType DEF Network
<1>3. CASE Peers
  BY <1>3, PeerRequestType, PeerReplyType, PeerCancelType, CloseClientType DEF Peers
<1>4. CASE Hosts
  BY <1>4, HostsType DEF Hosts
<1>5. CASE UNCHANGED vars
  BY <1>5 DEF TypeOK, vars, arrays, gui, db, peers
<1> QED BY <1>1, <1>2, <1>3, <1>4, <1>5 DEF Next

\* Type correctness of a client's transfers: every handler leaves every row, the
\* queue of commands, the packets and the server's tables of their types.
THEOREM Typing == Spec => []TypeOK
<1>1. Init => TypeOK
  BY InitType
<1>2. TypeOK /\ [Next]_vars => TypeOK'
  BY StepType
<1> QED BY <1>1, <1>2, PTL DEF Spec

-----------------------------------------------------------------------------
(* Open files.                                                             *)

\* A row in use has its file open.
RowOpen(r) == r.state # "EMPTY" => r.open
AllOpen(A) == \A i \in Rows : RowOpen(A[i])

\* A row that is set to one whose file is open if it is in use.
LEMMA OpenSet ==
  ASSUME NEW A, DOMAIN A = Rows, AllOpen(A), NEW i, NEW v, i \in Rows => RowOpen(v)
  PROVE  AllOpen([A EXCEPT ![i] = v])
  BY DEF AllOpen

\* What the handlers set a row to, from a row in use (or, the first, a free one).
LEMMA OpenRows ==
  /\ \A r \in HostRow : /\ RowOpen(zero_host(r))
                        /\ RowOpen(zero_host([r EXCEPT !.open = FALSE]))
                        /\ \A l : RowOpen(r) => RowOpen([r EXCEPT !.left = l])
                        /\ \A st : r.open => RowOpen([r EXCEPT !.state = st])
                        /\ \A c, reply : r.open => RowOpen(set_request(r, c, reply))
  /\ \A r \in RecvRow : /\ RowOpen(zero_recv(r))
                        /\ RowOpen(zero_recv([r EXCEPT !.open = FALSE]))
                        /\ \A b : RowOpen(r) => RowOpen([r EXCEPT !.bytes = b])
                        /\ \A st : r.open => RowOpen([r EXCEPT !.state = st])
  /\ RowOpen(NewHost) /\ RowOpen(NewRecv)
  BY DEF RowOpen, zero_host, zero_recv, set_request, HostRow, RecvRow, NewHost, NewRecv

\* The same rows, and the ends of the client.
LEMMA OpenSame ==
  ASSUME FileOpenInUse, UNCHANGED arrays \/ ClientEnds
  PROVE  FileOpenInUse'
  BY OpenRows DEF FileOpenInUse, RowOpen, ClientEnds, arrays

\* The invariant in terms of the two arrays.
LEMMA OpenArrays ==
  ASSUME TypeOK
  PROVE  /\ FileOpenInUse <=> AllOpen(host) /\ AllOpen(recv)
         /\ FileOpenInUse' <=> AllOpen(host') /\ AllOpen(recv')
         /\ DOMAIN host = Rows /\ DOMAIN recv = Rows
         /\ \A i \in Rows : host[i] \in HostRow /\ recv[i] \in RecvRow
  BY DEF TypeOK, FileOpenInUse, AllOpen, RowOpen

\* The commands: a request opens the file of the row it takes.
LEMMA ProcessOpen == ASSUME TypeOK, FileOpenInUse, process_cmds PROVE FileOpenInUse'
<1> DEFINE cmd == Head(cmd_queue)
<1> HIDE DEF cmd
<1>1. cmd_host_request(cmd) \/ cmd_recv_request_reply(cmd) \/ cmd_cancel(cmd)
  BY DEF process_cmds, cmd
<1>2. CASE cmd_host_request(cmd)
  <2> DEFINE i == First({k \in Rows : host[k].state = "EMPTY"})
             v == [host[i] EXCEPT !.state = "SEND_REQ", !.to = cmd.to, !.left = cmd.size,
                                  !.local_id = client_transfer_ids, !.open = TRUE]
  <2>1. UNCHANGED arrays \/ (host' = [host EXCEPT ![i] = v] /\ UNCHANGED recv)
    BY <1>2 DEF cmd_host_request
  <2>2. i \in Rows => RowOpen(v)
    <3> HIDE DEF i
    <3> QED BY OpenArrays DEF RowOpen, HostRow
  <2> HIDE DEF i, v
  <2> QED BY <2>1, <2>2, OpenSame, OpenArrays, OpenSet
<1>3. CASE cmd_recv_request_reply(cmd)
  <2> DEFINE asking == {k \in Rows : recv[k].state = "GET_RESPONSE" /\ recv[k].t_id = cmd.t_id}
             i == First(asking)
             v == [recv[i] EXCEPT !.state = IF cmd.reply THEN "ACCEPT" ELSE "DENY"]
  <2>1. CASE asking = {}
    BY <1>3, <2>1, OpenSame DEF cmd_recv_request_reply, arrays
  <2>2. CASE asking # {}
    <3>1. i \in asking
      BY <2>2, FirstIn
    <3>2. recv' = [recv EXCEPT ![i] = v] /\ UNCHANGED host
      BY <1>3, <2>2 DEF cmd_recv_request_reply
    <3>3. i \in Rows /\ recv[i].open
      BY <3>1, OpenArrays DEF AllOpen, RowOpen
    <3>4. RowOpen(v)
      <4> HIDE DEF i
      <4> QED BY <3>3, OpenArrays, OpenRows
    <3> HIDE DEF i, v
    <3> QED BY <3>2, <3>4, OpenArrays, OpenSet
  <2> QED BY <2>1, <2>2
<1>4. CASE cmd_cancel(cmd)
  <2> DEFINE r == Cancellable(recv, cmd.t_id)
             h == Cancellable(host, cmd.t_id)
             v == [recv[First(r)] EXCEPT !.state = "CANCEL"]
             w == [host[First(h)] EXCEPT !.state = "CANCEL"]
  <2>1. /\ UNCHANGED recv \/ (r # {} /\ recv' = [recv EXCEPT ![First(r)] = v])
        /\ UNCHANGED host \/ (h # {} /\ host' = [host EXCEPT ![First(h)] = w])
    BY <1>4 DEF cmd_cancel
  <2>2. ASSUME r # {} PROVE RowOpen(v)
    <3>1. First(r) \in Rows /\ recv[First(r)].state # "EMPTY"
      BY <2>2, FirstIn DEF Cancellable
    <3>2. recv[First(r)].open
      BY <3>1, OpenArrays DEF AllOpen, RowOpen
    <3> HIDE DEF r
    <3> QED BY <3>1, <3>2, OpenArrays, OpenRows
  <2>3. ASSUME h # {} PROVE RowOpen(w)
    <3>1. First(h) \in Rows /\ host[First(h)].state # "EMPTY"
      BY <2>3, FirstIn DEF Cancellable
    <3>2. host[First(h)].open
      BY <3>1, OpenArrays DEF AllOpen, RowOpen
    <3> HIDE DEF h
    <3> QED BY <3>1, <3>2, OpenArrays, OpenRows
  <2> HIDE DEF r, h, v, w
  <2>4. AllOpen(host') /\ AllOpen(recv')
    BY <2>1, <2>2, <2>3, OpenArrays, OpenSet
  <2> QED BY <2>4, OpenArrays
<1> QED BY <1>1, <1>2, <1>3, <1>4

\* What is sent: a row is emptied before its file may be closed.
LEMMA DoWorkOpen == ASSUME TypeOK, FileOpenInUse, do_work PROVE FileOpenInUse'
<1>1. CASE HostWork # {}
  <2> DEFINE i == First(HostWork)
  <2>1. i \in Rows /\ host[i].state # "EMPTY"
    BY <1>1, FirstIn DEF HostWork
  <2>2. send_data(i) \/ send_cancel_host(i) \/ send_request(i)
    BY <1>1 DEF do_work
  <2> HIDE DEF i
  <2>3. host[i] \in HostRow /\ host[i].open
    BY <2>1, OpenArrays DEF AllOpen, RowOpen
  <2>4. PICK v : RowOpen(v) /\ host' = [host EXCEPT ![i] = v] /\ UNCHANGED recv
    <3>1. CASE send_data(i) /\ ~send_cancel_host(i)
      <4>1. \/ host' = [host EXCEPT ![i] = [host[i] EXCEPT !.left = @ - 1]]
            \/ host' = [host EXCEPT ![i] = zero_host([host[i] EXCEPT !.open = FALSE])]
        BY <3>1 DEF send_data
      <4>2. UNCHANGED recv
        BY <3>1 DEF send_data
      <4> QED BY <2>3, <4>1, <4>2, OpenRows DEF RowOpen
    <3>2. CASE send_cancel_host(i)
      BY <2>3, <3>2, OpenRows DEF send_cancel_host
    <3>3. CASE send_request(i)
      <4>1. host' = [host EXCEPT ![i] = [host[i] EXCEPT !.state = "GET_RESPONSE"]]
        BY <3>3 DEF send_request
      <4> QED BY <2>3, <3>3, <4>1, OpenRows DEF send_request
    <3> QED BY <2>2, <3>1, <3>2, <3>3
  <2> QED BY <2>4, OpenArrays, OpenSet
<1>2. CASE HostWork = {} /\ RecvWork # {}
  <2> DEFINE i == First(RecvWork)
  <2>1. i \in Rows /\ recv[i].state # "EMPTY"
    BY <1>2, FirstIn DEF RecvWork
  <2>2. send_cancel_recv(i) \/ send_recv_request_reply(i)
    BY <1>2 DEF do_work
  <2> HIDE DEF i
  <2>3. recv[i] \in RecvRow /\ recv[i].open
    BY <2>1, OpenArrays DEF AllOpen, RowOpen
  <2>4. PICK v : RowOpen(v) /\ recv' = [recv EXCEPT ![i] = v] /\ UNCHANGED host
    <3>1. \/ recv' = [recv EXCEPT ![i] = zero_recv(recv[i])]
          \/ recv' = [recv EXCEPT ![i] = [recv[i] EXCEPT !.state = "ACTIVE"]]
      BY <2>2 DEF send_cancel_recv, send_recv_request_reply
    <3>2. UNCHANGED host
      BY <2>2 DEF send_cancel_recv, send_recv_request_reply
    <3> QED BY <2>3, <3>1, <3>2, OpenRows
  <2> QED BY <2>4, OpenArrays, OpenSet
<1>3. CASE HostWork = {} /\ RecvWork = {}
  BY <1>3, OpenSame DEF do_work
<1> QED BY <1>1, <1>2, <1>3

\* What is read: a packet finds a row in use, or opens the file of a free one.
LEMMA AnalizeOpen == ASSUME TypeOK, FileOpenInUse, analize PROVE FileOpenInUse'
<1> DEFINE p == Head(inbox)
<1> HIDE DEF p
<1>1. \/ host_request_valid(p) \/ host_request_reply(p) \/ recv_cancel(p)
      \/ recv_data(p) \/ recv_complete(p) \/ create_recv_request(p) \/ ClientEnds
  BY DEF analize, p
<1>2. \A S \in SUBSET Rows : S # {} => First(S) \in S
  BY FirstIn
<1>3. CASE host_request_valid(p)
  <2> DEFINE S == {k \in Rows : host[k].state = "GET_RESPONSE" /\ host[k].local_id = p.local_id}
             i == First(S)
             v == IF p.type = "VALID"
                  THEN [host[i] EXCEPT !.state = "PENDING", !.t_id = p.t_id, !.to = p.to]
                  ELSE [host[i] EXCEPT !.state = "CANCEL"]
  <2>1. UNCHANGED recv /\ (UNCHANGED host \/ (S # {} /\ host' = [host EXCEPT ![i] = v]))
    BY <1>3 DEF host_request_valid
  <2>2. ASSUME S # {} PROVE RowOpen(v)
    <3>1. i \in Rows /\ host[i].state # "EMPTY"
      BY <1>2, <2>2
    <3> HIDE DEF i, S
    <3>2. host[i] \in HostRow /\ host[i].open
      BY <3>1, OpenArrays DEF AllOpen, RowOpen
    <3> QED BY <3>2 DEF RowOpen, HostRow
  <2> HIDE DEF S, i, v
  <2>3. AllOpen(host') /\ AllOpen(recv')
    BY <2>1, <2>2, OpenArrays, OpenSet
  <2> QED BY <2>3, OpenArrays
<1>4. CASE host_request_reply(p)
  <2> DEFINE S == {k \in Rows : host[k].state = "PENDING" /\ host[k].t_id = p.t_id}
             i == First(S)
             v == set_request(host[i], p.from, p.accept)
  <2>1. UNCHANGED recv /\ (UNCHANGED host \/ (S # {} /\ host' = [host EXCEPT ![i] = v]))
    BY <1>4 DEF host_request_reply
  <2>2. ASSUME S # {} PROVE RowOpen(v)
    <3>1. i \in Rows /\ host[i].state # "EMPTY"
      BY <1>2, <2>2
    <3> HIDE DEF i, S
    <3>2. host[i] \in HostRow /\ host[i].open
      BY <3>1, OpenArrays DEF AllOpen, RowOpen
    <3> QED BY <3>2, OpenRows
  <2> HIDE DEF S, i, v
  <2>3. AllOpen(host') /\ AllOpen(recv')
    BY <2>1, <2>2, OpenArrays, OpenSet
  <2> QED BY <2>3, OpenArrays
<1>5. CASE recv_cancel(p)
  <2> DEFINE r == Cancellable(recv, p.t_id)
             h == Cancellable(host, p.t_id)
             v == zero_recv(recv[First(r)])
             w == set_request(host[First(h)], p.from, FALSE)
  <2>1. /\ UNCHANGED recv \/ (r # {} /\ recv' = [recv EXCEPT ![First(r)] = v])
        /\ UNCHANGED host \/ (h # {} /\ host' = [host EXCEPT ![First(h)] = w])
    BY <1>5 DEF recv_cancel
  <2>2. ASSUME r # {} PROVE RowOpen(v)
    <3>1. First(r) \in Rows
      BY <1>2, <2>2 DEF Cancellable
    <3> HIDE DEF r
    <3> QED BY <3>1, OpenArrays, OpenRows
  <2>3. ASSUME h # {} PROVE RowOpen(w)
    <3>1. First(h) \in Rows /\ host[First(h)].state # "EMPTY"
      BY <1>2, <2>3 DEF Cancellable
    <3> HIDE DEF h
    <3>2. host[First(h)] \in HostRow /\ host[First(h)].open
      BY <3>1, OpenArrays DEF AllOpen, RowOpen
    <3> QED BY <3>2, OpenRows
  <2> HIDE DEF r, h, v, w
  <2>4. AllOpen(host') /\ AllOpen(recv')
    BY <2>1, <2>2, <2>3, OpenArrays, OpenSet
  <2> QED BY <2>4, OpenArrays
<1>6. CASE recv_data(p) \/ recv_complete(p)
  <2> DEFINE i == First(Receiving(p.t_id))
             v == [recv[i] EXCEPT !.bytes = IF @ < Chunks THEN @ + 1 ELSE @]
             w == zero_recv([recv[i] EXCEPT !.open = FALSE])
  <2>1. /\ UNCHANGED host
        /\ \/ UNCHANGED recv
           \/ recv' = [recv EXCEPT ![i] = v]
           \/ recv' = [recv EXCEPT ![i] = w]
    BY <1>6 DEF recv_data, recv_complete
  <2>2. i \in Rows => RowOpen(v) /\ RowOpen(w)
    <3> HIDE DEF i
    <3> QED BY OpenArrays, OpenRows DEF AllOpen
  <2> HIDE DEF i, v, w
  <2>3. AllOpen(host') /\ AllOpen(recv')
    BY <2>1, <2>2, OpenArrays, OpenSet
  <2> QED BY <2>3, OpenArrays
<1>7. CASE create_recv_request(p)
  <2> DEFINE v == [state |-> "GET_RESPONSE", t_id |-> p.t_id, bytes |-> 0, open |-> TRUE]
  <2>1. UNCHANGED host /\ recv' = [recv EXCEPT ![First(free_recv)] = v]
    BY <1>7 DEF create_recv_request
  <2>2. RowOpen(v)
    BY DEF RowOpen
  <2> HIDE DEF v
  <2>3. AllOpen(host') /\ AllOpen(recv')
    BY <2>1, <2>2, OpenArrays, OpenSet
  <2> QED BY <2>3, OpenArrays
<1>8. CASE ClientEnds
  BY <1>8, OpenSame
<1> QED BY <1>1, <1>3, <1>4, <1>5, <1>6, <1>7, <1>8

\* The client never writes to, reads or closes a file that is not open: every
\* row in use has been given an open file (cmd_host_request, create_recv_request)
\* and is emptied in the step that closes it (send_data, recv_complete).
THEOREM OpenFiles == Spec => []FileOpenInUse
<1>1. Init => FileOpenInUse
  BY OpenRows DEF Init, FileOpenInUse, RowOpen
<1>2. TypeOK /\ FileOpenInUse /\ [Next]_vars => FileOpenInUse'
  <2> SUFFICES ASSUME TypeOK, FileOpenInUse, [Next]_vars PROVE FileOpenInUse'
    OBVIOUS
  <2>1. CASE GUI
    BY <2>1, OpenSame DEF GUI, render, click, transfer
  <2>2. CASE Network
    BY <2>2, ProcessOpen, DoWorkOpen, AnalizeOpen, OpenSame DEF Network, wait_work, next_round
  <2>3. CASE Peers
    BY <2>3, OpenSame
       DEF Peers, peer_request, peer_reply, peer_cancel_host, peer_cancel_recv, close_client, local
  <2>4. CASE Hosts
    BY <2>4, OpenSame DEF Hosts, peer_data, peer_complete, local
  <2>5. CASE UNCHANGED vars
    BY <2>5, OpenSame DEF vars
  <2> QED BY <2>1, <2>2, <2>3, <2>4, <2>5 DEF Next
<1> QED BY <1>1, <1>2, Typing, PTL DEF Spec

-----------------------------------------------------------------------------
(* The transfers this client hosts.                                        *)

\* A request is out from SEND_REQ to the answer, found again by its local_id; a
\* transfer is known by its number from the answer on.
Asking   == {"SEND_REQ", "GET_RESPONSE"}
Hosting  == {"PENDING", "ACTIVE", "CANCEL"}
Response == {"VALID", "INVALID"}

\* 0 is the number of no transfer, so a row that has none yet is not found by a
\* number: a cancel never meets a row that waits for VALID.
HostNumbered(r) == /\ r.state \in Asking \cup {"EMPTY"} => r.t_id = 0
                   /\ r.state \in {"PENDING", "ACTIVE"} => r.t_id # 0
RecvNumbered(r) == r.state # "EMPTY" => r.t_id # 0
CmdNumbered(c)  == c.type = "CANCEL" => c.t_id # 0
PacketNumbered(p)     == p.type \in {"VALID", "CANCEL", "REQUEST"} => p.t_id # 0

RowNumbers == \A i \in Rows : HostNumbered(host[i]) /\ RecvNumbered(recv[i])
CmdNumbers == \A k \in DOMAIN cmd_queue : CmdNumbered(cmd_queue[k])
InboxNumbers == \A k \in DOMAIN inbox : PacketNumbered(inbox[k])
TableNumbers == /\ \A v \in transfers : v.transfer_id # 0
                /\ \A w \in transfer_clients : w.transfer_id # 0

\* The local_ids of the requests that are out have been drawn and differ, and an
\* answer on its way has its row, which no other answer has.
LocalDrawn == \A i \in Rows : host[i].state \in Asking => host[i].local_id < client_transfer_ids
LocalOwn ==
    \A i, j \in Rows : /\ host[i].state \in Asking /\ host[j].state \in Asking
                       /\ host[i].local_id = host[j].local_id
                       => i = j
WaitsFor(i, p) == host[i].state = "GET_RESPONSE" /\ host[i].local_id = p.local_id
AnswerHasRow ==
    \A k \in DOMAIN inbox : inbox[k].type \in Response => \E i \in Rows : WaitsFor(i, inbox[k])
AnswerOnce ==
    \A k, l \in DOMAIN inbox : /\ inbox[k].type \in Response /\ inbox[l].type \in Response
                               /\ inbox[k].local_id = inbox[l].local_id
                               => k = l
LocalIds == LocalDrawn /\ LocalOwn /\ AnswerHasRow /\ AnswerOnce

\* HostKnows, with its two alternatives named.
HostsAt(i, t)    == host[i].t_id = t /\ host[i].state \in Hosting
Announced(i, t) == \E k \in DOMAIN inbox : /\ inbox[k].type = "VALID" /\ inbox[k].t_id = t
                                           /\ WaitsFor(i, inbox[k])
KnownAt(t) == \E i \in Rows : HostsAt(i, t) \/ Announced(i, t)

KnowInv == TypeOK /\ RowNumbers /\ CmdNumbers /\ InboxNumbers /\ TableNumbers
           /\ LocalIds /\ HostKnows

\* The model's HostKnows is every transfer being known.
LEMMA KnowsAlike == /\ HostKnows <=> \A t \in Created(Me) : KnownAt(t)
                    /\ HostKnows' <=> \A t \in Created(Me)' : KnownAt(t)'
  BY DEF HostKnows, KnownAt, HostsAt, Announced, WaitsFor, Hosting, Queued

\* The answers on their way are the same, n places further on.
SameAnswers(n) ==
    /\ \A k \in DOMAIN inbox' : inbox'[k].type \in Response =>
          k + n \in DOMAIN inbox /\ inbox[k + n] = inbox'[k]
    /\ \A k \in DOMAIN inbox : inbox[k].type \in Response =>
          k - n \in DOMAIN inbox' /\ inbox'[k - n] = inbox[k]

\* A row that is left alone, goes on with its transfer, or is emptied with it.
Follows(r, s) ==
    \/ s = r
    \/ r.state \in Hosting /\ s.state \in Hosting /\ s.t_id = r.t_id
    \/ r.state \in Hosting /\ s.state = "EMPTY" /\ r.t_id \notin Created(Me)'

\* Most steps: no request begins or is answered, no transfer is created.
LEMMA KnowFollows ==
  ASSUME Inbox, Inbox', LocalIds, HostKnows, NEW n \in Nat, SameAnswers(n),
         Created(Me)' \subseteq Created(Me), UNCHANGED client_transfer_ids,
         \A i \in Rows : Follows(host[i], host'[i])
  PROVE  LocalIds' /\ HostKnows'
<1>1. \A i \in Rows : host[i].state \in Asking \/ host'[i].state \in Asking => host'[i] = host[i]
  BY DEF Follows, Asking, Hosting
<1>3. LocalDrawn' /\ LocalOwn'
  BY <1>1 DEF LocalIds, LocalDrawn, LocalOwn
<1>4. AnswerHasRow'
  <2> SUFFICES ASSUME NEW k \in DOMAIN inbox', inbox'[k].type \in Response
               PROVE  \E i \in Rows : WaitsFor(i, inbox[k])'
    BY DEF AnswerHasRow
  <2>1. k + n \in DOMAIN inbox /\ inbox[k + n] = inbox'[k]
    BY DEF SameAnswers
  <2>2. PICK i \in Rows : WaitsFor(i, inbox[k + n])
    BY <2>1 DEF LocalIds, AnswerHasRow
  <2> QED BY <1>1, <2>1, <2>2 DEF WaitsFor, Asking
<1>5. AnswerOnce'
  <2> SUFFICES ASSUME NEW k \in DOMAIN inbox', NEW l \in DOMAIN inbox',
                      inbox'[k].type \in Response, inbox'[l].type \in Response,
                      inbox'[k].local_id = inbox'[l].local_id
               PROVE  k = l
    BY DEF AnswerOnce
  <2>1. /\ k + n \in DOMAIN inbox /\ inbox[k + n] = inbox'[k]
        /\ l + n \in DOMAIN inbox /\ inbox[l + n] = inbox'[l]
    BY DEF SameAnswers
  <2>2. k + n = l + n
    BY <2>1 DEF LocalIds, AnswerOnce
  <2>3. k \in Int /\ l \in Int /\ n \in Int
    BY DEF Inbox
  <2>4. (k + n) - n = k /\ (l + n) - n = l
    BY ONLY <2>3
  <2> QED BY ONLY <2>2, <2>4
<1>6. ASSUME NEW t \in Created(Me)' PROVE KnownAt(t)'
  <2>1. PICK i \in Rows : HostsAt(i, t) \/ Announced(i, t)
    BY KnowsAlike DEF KnownAt
  <2>2. CASE HostsAt(i, t)
    <3>1. HostsAt(i, t)'
      BY <2>2 DEF Follows, HostsAt
    <3> QED BY <3>1 DEF KnownAt
  <2>3. CASE Announced(i, t)
    <3>1. PICK k \in DOMAIN inbox : inbox[k].type = "VALID" /\ inbox[k].t_id = t /\ WaitsFor(i, inbox[k])
      BY <2>3 DEF Announced
    <3>2. k - n \in DOMAIN inbox' /\ inbox'[k - n] = inbox[k]
      BY <3>1 DEF SameAnswers, Response
    <3>3. WaitsFor(i, inbox[k - n])'
      BY <1>1, <3>1, <3>2 DEF WaitsFor, Asking
    <3>4. Announced(i, t)'
      BY <3>1, <3>2, <3>3 DEF Announced
    <3> QED BY <3>4 DEF KnownAt
  <2> QED BY <2>1, <2>2, <2>3
<1> QED BY <1>3, <1>4, <1>5, <1>6, KnowsAlike DEF LocalIds

\* A request begins: its row was empty, its local_id is new.
LEMMA KnowRequest ==
  ASSUME TypeOK, LocalIds, HostKnows, NEW i \in Rows, host[i].state = "EMPTY",
         host'[i].state = "SEND_REQ", host'[i].local_id = client_transfer_ids,
         \A j \in Rows : j # i => host'[j] = host[j],
         client_transfer_ids' = client_transfer_ids + 1,
         UNCHANGED <<inbox, transfers>>
  PROVE  LocalIds' /\ HostKnows'
<1>1. \A j \in Rows : host[j].local_id \in Nat /\ client_transfer_ids \in Nat
  BY DEF TypeOK, HostRow
<1>2. LocalDrawn' /\ LocalOwn'
  BY <1>1 DEF LocalIds, LocalDrawn, LocalOwn, Asking
<1>3. \A j \in Rows, k \in DOMAIN inbox : WaitsFor(j, inbox[k]) => WaitsFor(j, inbox[k])'
  BY DEF WaitsFor
<1>4. AnswerHasRow' /\ AnswerOnce'
  BY <1>3 DEF LocalIds, AnswerHasRow, AnswerOnce
<1>5. \A j \in Rows : \A t : HostsAt(j, t) \/ Announced(j, t) => (HostsAt(j, t) \/ Announced(j, t))'
  BY <1>3 DEF HostsAt, Hosting, Announced
<1>6. Created(Me)' = Created(Me)
  BY DEF Created
<1> QED BY <1>2, <1>4, <1>5, <1>6, KnowsAlike DEF LocalIds, KnownAt

\* The server answers a request: it says so, and the row waits for it.
LEMMA KnowAnswer ==
  ASSUME TypeOK, LocalIds, HostKnows, NEW i \in Rows, host[i].state = "SEND_REQ",
         host'[i].state = "GET_RESPONSE", host'[i].local_id = host[i].local_id,
         \A j \in Rows : j # i => host'[j] = host[j],
         UNCHANGED client_transfer_ids,
         NEW p, inbox' = Append(inbox, p), p.type \in Response, p.local_id = host[i].local_id,
         Created(Me)' \subseteq Created(Me) \cup (IF p.type = "VALID" THEN {p.t_id} ELSE {})
  PROVE  LocalIds' /\ HostKnows'
<1>1. PICK n :
        /\ inbox \in Seq(Packet) /\ n \in DOMAIN inbox' /\ inbox'[n] = p
        /\ \A k \in DOMAIN inbox : k \in DOMAIN inbox' /\ inbox'[k] = inbox[k]
        /\ \A k \in DOMAIN inbox' : k = n \/ k \in DOMAIN inbox
  <2> DEFINE n == Len(inbox) + 1
  <2>1. /\ inbox \in Seq(Packet) /\ n \in DOMAIN inbox' /\ inbox'[n] = p
        /\ \A k \in DOMAIN inbox : k \in DOMAIN inbox' /\ inbox'[k] = inbox[k]
        /\ \A k \in DOMAIN inbox' : k = n \/ k \in DOMAIN inbox
    BY DEF TypeOK
  <2> QED BY <2>1
<1>2. LocalDrawn' /\ LocalOwn'
  BY DEF LocalIds, LocalDrawn, LocalOwn, Asking
<1>3. \A j \in Rows, k \in DOMAIN inbox : WaitsFor(j, inbox[k]) => j # i /\ WaitsFor(j, inbox[k])'
  BY <1>1 DEF WaitsFor
<1>4. WaitsFor(i, inbox[n])'
  BY <1>1 DEF WaitsFor
<1>5. AnswerHasRow'
  BY <1>1, <1>3, <1>4 DEF LocalIds, AnswerHasRow
<1>6. ASSUME NEW k \in DOMAIN inbox, inbox[k].type \in Response PROVE inbox[k].local_id # p.local_id
  <2>1. PICK j \in Rows : WaitsFor(j, inbox[k])
    BY <1>6 DEF LocalIds, AnswerHasRow
  <2>2. j # i
    BY <1>3, <2>1
  <2> QED BY <2>1, <2>2 DEF LocalIds, LocalOwn, WaitsFor, Asking
<1>7. AnswerOnce'
  BY <1>1, <1>6 DEF LocalIds, AnswerOnce
<1>8. \A j \in Rows : \A t : HostsAt(j, t) \/ Announced(j, t) => (HostsAt(j, t) \/ Announced(j, t))'
  <2> SUFFICES ASSUME NEW j \in Rows, NEW t, HostsAt(j, t) \/ Announced(j, t)
               PROVE  (HostsAt(j, t) \/ Announced(j, t))'
    OBVIOUS
  <2>1. CASE HostsAt(j, t)
    <3>1. j # i
      BY <2>1 DEF HostsAt, Hosting
    <3> QED BY <2>1, <3>1 DEF HostsAt
  <2>2. CASE Announced(j, t)
    <3>1. Announced(j, t)'
      BY <1>1, <1>3, <2>2 DEF Announced
    <3> QED BY <3>1
  <2> QED BY <2>1, <2>2
<1>9. ASSUME p.type = "VALID" PROVE Announced(i, p.t_id)'
  BY <1>1, <1>4, <1>9 DEF Announced
<1>10. \A t \in Created(Me)' : KnownAt(t)'
  BY <1>8, <1>9, KnowsAlike DEF KnownAt
<1> QED BY <1>2, <1>5, <1>7, <1>10, KnowsAlike DEF LocalIds

\* The answer is read: its row goes on, the other answers keep theirs.
LEMMA KnowValid ==
  ASSUME TypeOK, LocalIds, HostKnows, inbox # << >>, inbox' = Tail(inbox),
         inbox[1].type \in Response, host_request_valid(inbox[1]),
         UNCHANGED <<client_transfer_ids, transfers>>
  PROVE  LocalIds' /\ HostKnows'
<1> DEFINE p == inbox[1]
           waiting == {i \in Rows : host[i].state = "GET_RESPONSE" /\ host[i].local_id = p.local_id}
<1>1. /\ inbox \in Seq(Packet) /\ 1 \in DOMAIN inbox
      /\ \A k \in DOMAIN inbox' : k + 1 \in DOMAIN inbox /\ inbox[k + 1] = inbox'[k] /\ k \in Nat \ {0}
      /\ \A k \in DOMAIN inbox : k = 1 \/ (k - 1 \in DOMAIN inbox' /\ inbox'[k - 1] = inbox[k])
      /\ \A k \in DOMAIN inbox : k \in Nat
  BY DEF TypeOK
<1>2. waiting # {}
  BY <1>1 DEF LocalIds, AnswerHasRow, WaitsFor
<1>3. PICK i \in Rows : WaitsFor(i, p) /\ i = First(waiting)
  BY <1>2, FirstIn DEF WaitsFor
<1> DEFINE v == IF p.type = "VALID"
                THEN [host[i] EXCEPT !.state = "PENDING", !.t_id = p.t_id, !.to = p.to]
                ELSE [host[i] EXCEPT !.state = "CANCEL"]
<1>4. host' = [host EXCEPT ![i] = v]
  BY <1>2, <1>3 DEF host_request_valid
<1>5. host \in [Rows -> HostRow] /\ host[i] \in HostRow
  BY <1>3 DEF TypeOK
<1> HIDE DEF waiting
<1>6. /\ v.state \in {"PENDING", "CANCEL"}
      /\ p.type = "VALID" => v.state = "PENDING" /\ v.t_id = p.t_id
  BY <1>5 DEF HostRow
<1> HIDE DEF v
<1>7. host'[i] = v /\ \A j \in Rows : j # i => host'[j] = host[j]
  BY <1>3, <1>4, <1>5
<1> HIDE DEF p
<1>8. LocalDrawn' /\ LocalOwn'
  BY <1>6, <1>7 DEF LocalIds, LocalDrawn, LocalOwn, Asking
<1>9. ASSUME NEW j \in Rows, NEW k \in DOMAIN inbox, inbox[k].type \in Response,
             WaitsFor(j, inbox[k]), k # 1
      PROVE  /\ j # i /\ k - 1 \in DOMAIN inbox' /\ inbox'[k - 1] = inbox[k]
             /\ WaitsFor(j, inbox[k - 1])'
  <2>1. inbox[k].local_id # p.local_id
    BY <1>1, <1>9 DEF LocalIds, AnswerOnce, p
  <2>2. j # i
    BY <1>3, <1>9, <2>1 DEF WaitsFor
  <2>3. k - 1 \in DOMAIN inbox' /\ inbox'[k - 1] = inbox[k]
    BY <1>1, <1>9
  <2> QED BY <1>7, <1>9, <2>2, <2>3 DEF WaitsFor
<1>10. AnswerHasRow'
  <2> SUFFICES ASSUME NEW k \in DOMAIN inbox', inbox'[k].type \in Response
               PROVE  \E j \in Rows : WaitsFor(j, inbox[k])'
    BY DEF AnswerHasRow, WaitsFor
  <2>1. k + 1 \in DOMAIN inbox /\ inbox[k + 1] = inbox'[k] /\ k \in Nat \ {0}
    BY <1>1
  <2>2. PICK j \in Rows : WaitsFor(j, inbox[k + 1])
    BY <2>1 DEF LocalIds, AnswerHasRow
  <2>3. k + 1 # 1 /\ (k + 1) - 1 = k
    BY <2>1
  <2>4. WaitsFor(j, inbox[(k + 1) - 1])'
    BY <1>9, <2>1, <2>2, <2>3
  <2> QED BY <2>3, <2>4
<1>11. AnswerOnce'
  <2> SUFFICES ASSUME NEW k \in DOMAIN inbox', NEW l \in DOMAIN inbox',
                      inbox'[k].type \in Response, inbox'[l].type \in Response,
                      inbox'[k].local_id = inbox'[l].local_id
               PROVE  k = l
    BY DEF AnswerOnce
  <2>1. /\ k + 1 \in DOMAIN inbox /\ inbox[k + 1] = inbox'[k] /\ k \in Nat
        /\ l + 1 \in DOMAIN inbox /\ inbox[l + 1] = inbox'[l] /\ l \in Nat
    BY <1>1
  <2>2. k + 1 = l + 1
    BY <2>1 DEF LocalIds, AnswerOnce
  <2> QED BY ONLY <2>1, <2>2
<1>12. ASSUME NEW t \in Created(Me) PROVE KnownAt(t)'
  <2>1. PICK j \in Rows : HostsAt(j, t) \/ Announced(j, t)
    BY KnowsAlike DEF KnownAt
  <2>2. CASE HostsAt(j, t)
    <3>1. j # i
      BY <1>3, <2>2 DEF HostsAt, Hosting, WaitsFor
    <3>2. HostsAt(j, t)'
      BY <1>7, <2>2, <3>1 DEF HostsAt
    <3> QED BY <3>2 DEF KnownAt
  <2>3. CASE Announced(j, t)
    <3>1. PICK k \in DOMAIN inbox : inbox[k].type = "VALID" /\ inbox[k].t_id = t /\ WaitsFor(j, inbox[k])
      BY <2>3 DEF Announced
    <3>2. CASE k = 1
      <4>1. v.state = "PENDING" /\ v.t_id = t
        BY <1>6, <3>1, <3>2 DEF p
      <4>2. HostsAt(i, t)'
        BY <1>7, <4>1 DEF HostsAt, Hosting
      <4> QED BY <1>3, <4>2 DEF KnownAt
    <3>3. CASE k # 1
      <4>1. k - 1 \in DOMAIN inbox' /\ inbox'[k - 1] = inbox[k] /\ WaitsFor(j, inbox[k - 1])'
        BY <1>9, <3>1, <3>3 DEF Response
      <4>2. Announced(j, t)'
        BY <3>1, <4>1 DEF Announced, WaitsFor
      <4> QED BY <4>2 DEF KnownAt
    <3> QED BY <3>2, <3>3
  <2> QED BY <2>1, <2>2, <2>3
<1>13. Created(Me)' = Created(Me)
  BY DEF Created
<1> QED BY <1>8, <1>10, <1>11, <1>12, <1>13, KnowsAlike DEF LocalIds

\* The numbers and the local_ids together.
Numbers == RowNumbers /\ CmdNumbers /\ InboxNumbers /\ TableNumbers

\* The server adds packets that are not answers to this client's requests.
OnlyNews ==
    /\ \A k \in DOMAIN inbox : k \in DOMAIN inbox' /\ inbox'[k] = inbox[k]
    /\ \A k \in DOMAIN inbox' \ DOMAIN inbox :
          inbox'[k].type \notin Response /\ PacketNumbered(inbox'[k])

LEMMA NewsSame == OnlyNews /\ Inbox /\ Inbox' => SameAnswers(0)
  BY DEF OnlyNews, SameAnswers, Inbox

LEMMA NewsNumbers == OnlyNews /\ InboxNumbers => InboxNumbers'
  BY DEF OnlyNews, InboxNumbers, PacketNumbered

\* No packet more, or one.
LEMMA NoNews == Inbox /\ inbox' = inbox => OnlyNews
  BY DEF OnlyNews, Inbox

LEMMA OneNew ==
  ASSUME Inbox, NEW p, p.type \notin Response, PacketNumbered(p), inbox' = Append(inbox, p)
  PROVE  OnlyNews
  BY DEF OnlyNews, Inbox

\* The rows are the same, and at most other clients' packets are new.
LEMMA KnowPeer ==
  ASSUME KnowInv, TypeOK', UNCHANGED <<arrays, client_transfer_ids>>, OnlyNews,
         Created(Me)' \subseteq Created(Me), TableNumbers', CmdNumbers'
  PROVE  KnowInv'
<1>1. Inbox /\ Inbox' /\ LocalIds /\ HostKnows /\ RowNumbers /\ InboxNumbers
  BY DEF KnowInv, TypeOK, Inbox
<1>2. LocalIds' /\ HostKnows'
  <2>1. \A i \in Rows : Follows(host[i], host'[i])
    BY DEF arrays, Follows
  <2> QED BY <1>1, <2>1, NewsSame, KnowFollows
<1>3. RowNumbers' /\ InboxNumbers'
  BY <1>1, NewsNumbers DEF RowNumbers, arrays
<1> QED BY <1>2, <1>3 DEF KnowInv

\* The end of the client.
LEMMA KnowEnds == ASSUME KnowInv, TypeOK', ClientEnds PROVE KnowInv'
<1>1. inbox' = << >> /\ cmd_queue' = << >>
      /\ \A i \in Rows : host'[i] = NewHost /\ recv'[i] = NewRecv
  BY DEF ClientEnds
<1>2. RowNumbers' /\ CmdNumbers' /\ InboxNumbers'
  BY <1>1 DEF RowNumbers, CmdNumbers, InboxNumbers, HostNumbered, RecvNumbered, NewHost, NewRecv
<1>3. TableNumbers'
  BY DEF KnowInv, TableNumbers, ClientEnds
<1>4. LocalIds'
  BY <1>1 DEF LocalIds, LocalDrawn, LocalOwn, AnswerHasRow, AnswerOnce, Asking, NewHost
<1>5. Created(Me)' = {}
  BY DEF Created, ClientEnds
<1>6. HostKnows'
  BY <1>5, KnowsAlike
<1> QED BY <1>2, <1>3, <1>4, <1>6 DEF KnowInv

\* A click, while what is clicked is what is there.
LEMMA KnowGUI == ASSUME SteadyScreen, KnowInv, TypeOK', GUI PROVE KnowInv'
<1>1. CASE ClientEnds
  BY <1>1, KnowEnds
<1>2. CASE ~ClientEnds
  <2>1. UNCHANGED <<arrays, client_transfer_ids, inbox, db>>
    BY <1>2 DEF GUI, render, click, transfer
  <2>2. PICK cmd : push(cmd) /\ CmdNumbered(cmd)
    <3>1. ASSUME NEW size, NEW to, transfer(size, to)
          PROVE  \E cmd : push(cmd) /\ CmdNumbered(cmd)
      <4>1. push([type |-> "REQUEST", size |-> size, to |-> to])
        BY <1>2, <3>1 DEF transfer
      <4> QED BY <4>1 DEF CmdNumbered
    <3>2. ASSUME NEW array \in {"host", "recv"}, NEW i \in Rows,
                 NEW button \in {"Accept", "Deny", "Cancel"}, click(array, i, button)
          PROVE  \E cmd : push(cmd) /\ CmdNumbered(cmd)
      <4> DEFINE t == IF array = "recv" THEN recv[i].t_id ELSE host[i].t_id
                 c == [type |-> "CANCEL", t_id |-> t]
                 r == [type |-> "REPLY", t_id |-> t, reply |-> button = "Accept"]
      <4>1. Shown(array, i, button) /\ push(IF button = "Cancel" THEN c ELSE r)
        BY <1>2, <3>2 DEF click
      <4>2. button = "Cancel" => t # 0
        BY <4>1 DEF Shown, KnowInv, RowNumbers, HostNumbered, RecvNumbered
      <4> HIDE DEF t
      <4>3. CASE button = "Cancel"
        BY <4>1, <4>2, <4>3 DEF CmdNumbered
      <4>4. CASE button # "Cancel"
        BY <4>1, <4>4 DEF CmdNumbered
      <4> QED BY <4>3, <4>4
    <3> QED BY <3>1, <3>2 DEF GUI, render
  <2>3. CmdNumbers'
    BY <2>2 DEF KnowInv, TypeOK, CmdNumbers, push
  <2>4. TableNumbers' /\ Created(Me)' = Created(Me) /\ OnlyNews
    BY <2>1, NoNews DEF KnowInv, TableNumbers, Created, db, TypeOK, Inbox
  <2> QED BY <2>1, <2>3, <2>4, KnowPeer
<1> QED BY <1>1, <1>2

\* An array of which one row is set to a numbered one.
LEMMA NumberedSet ==
  ASSUME RowNumbers, TypeOK, NEW i,
         \/ UNCHANGED recv /\ \E v : host' = [host EXCEPT ![i] = v] /\ (i \in Rows => HostNumbered(v))
         \/ UNCHANGED host /\ \E v : recv' = [recv EXCEPT ![i] = v] /\ (i \in Rows => RecvNumbered(v))
  PROVE  RowNumbers'
<1>1. DOMAIN host = Rows /\ DOMAIN recv = Rows
  BY DEF TypeOK
<1> QED BY <1>1 DEF RowNumbers

\* The commands.
LEMMA KnowProcess == ASSUME KnowInv, TypeOK', process_cmds PROVE KnowInv'
<1> DEFINE cmd == Head(cmd_queue)
<1>1. /\ CmdNumbered(cmd) /\ CmdNumbers' /\ TableNumbers' /\ InboxNumbers' /\ OnlyNews
      /\ Created(Me)' = Created(Me) /\ UNCHANGED <<inbox, transfers>>
  BY NoNews DEF KnowInv, TypeOK, Inbox, CmdNumbers, InboxNumbers, TableNumbers, Created,
                process_cmds, db
<1>2. \/ cmd.type = "REQUEST" /\ cmd_host_request(cmd)
      \/ UNCHANGED client_transfer_ids /\ cmd_recv_request_reply(cmd)
      \/ UNCHANGED client_transfer_ids /\ cmd.type = "CANCEL" /\ cmd_cancel(cmd)
  BY DEF process_cmds, cmd_recv_request_reply, cmd_cancel
<1> HIDE DEF cmd
<1>3. /\ TypeOK /\ Inbox /\ Inbox' /\ RowNumbers /\ LocalIds /\ HostKnows /\ SameAnswers(0)
      /\ DOMAIN host = Rows /\ \A i \in Rows : host[i] \in HostRow /\ recv[i] \in RecvRow
      /\ \A r : Follows(r, r)
  BY <1>1, NewsSame DEF KnowInv, TypeOK, Inbox, Follows
<1>4. CASE UNCHANGED <<arrays, client_transfer_ids>>
  BY <1>1, <1>4, KnowPeer
<1>5. CASE cmd_host_request(cmd) /\ ~UNCHANGED <<arrays, client_transfer_ids>>
  <2> DEFINE free == {k \in Rows : host[k].state = "EMPTY"}
  <2>1. PICK i : i = First(free)
    OBVIOUS
  <2> DEFINE v == [host[i] EXCEPT !.state = "SEND_REQ", !.to = cmd.to, !.left = cmd.size,
                                  !.local_id = client_transfer_ids, !.open = TRUE]
  <2>2. /\ free # {} /\ host' = [host EXCEPT ![i] = v] /\ UNCHANGED recv
        /\ client_transfer_ids' = client_transfer_ids + 1
    BY <1>5, <2>1 DEF cmd_host_request
  <2>3. i \in Rows /\ host[i].state = "EMPTY"
    BY <2>1, <2>2, FirstIn
  <2> HIDE DEF free
  <2>4. v.state = "SEND_REQ" /\ v.local_id = client_transfer_ids /\ v.t_id = host[i].t_id
    BY <1>3, <2>3 DEF HostRow
  <2> HIDE DEF v
  <2>5. HostNumbered(v)
    BY <1>3, <2>3, <2>4 DEF RowNumbers, HostNumbered, Asking
  <2>6. RowNumbers'
    BY <1>3, <2>2, <2>5, NumberedSet
  <2>7. LocalIds' /\ HostKnows'
    <3>1. host'[i] = v /\ \A j \in Rows : j # i => host'[j] = host[j]
      BY <1>3, <2>2, <2>3
    <3> QED BY <1>1, <1>3, <2>2, <2>3, <2>4, <3>1, KnowRequest
  <2> QED BY <1>1, <2>6, <2>7 DEF KnowInv
<1>6. CASE UNCHANGED client_transfer_ids /\ cmd_recv_request_reply(cmd) /\ ~UNCHANGED arrays
  <2>1. PICK i, st : /\ i \in Rows /\ recv[i].state = "GET_RESPONSE" /\ UNCHANGED host
                     /\ recv' = [recv EXCEPT ![i] = [recv[i] EXCEPT !.state = st]]
    <3> DEFINE asking == {k \in Rows : recv[k].state = "GET_RESPONSE" /\ recv[k].t_id = cmd.t_id}
               i == First(asking)
               st == IF cmd.reply THEN "ACCEPT" ELSE "DENY"
    <3>1. asking # {} /\ UNCHANGED host /\ recv' = [recv EXCEPT ![i] = [recv[i] EXCEPT !.state = st]]
      BY <1>6 DEF cmd_recv_request_reply, arrays
    <3>2. i \in asking
      BY <3>1, FirstIn
    <3> HIDE DEF i, st
    <3> QED BY <3>1, <3>2
  <2>2. RecvNumbered([recv[i] EXCEPT !.state = st])
    BY <1>3, <2>1 DEF RowNumbers, RecvNumbered, RecvRow
  <2>3. RowNumbers'
    BY <1>3, <2>1, <2>2, NumberedSet
  <2>4. LocalIds' /\ HostKnows'
    BY <1>1, <1>3, <1>6, <2>1, KnowFollows
  <2> QED BY <1>1, <2>3, <2>4 DEF KnowInv
<1>7. CASE UNCHANGED client_transfer_ids /\ cmd.type = "CANCEL" /\ cmd_cancel(cmd)
           /\ ~UNCHANGED arrays
  <2>1. cmd.t_id # 0
    BY <1>1, <1>7 DEF CmdNumbered
  <2>2. PICK i, A : /\ i \in Cancellable(A, cmd.t_id)
                    /\ \/ /\ A = recv /\ UNCHANGED host
                          /\ recv' = [recv EXCEPT ![i] = [recv[i] EXCEPT !.state = "CANCEL"]]
                       \/ /\ A = host /\ UNCHANGED recv
                          /\ host' = [host EXCEPT ![i] = [host[i] EXCEPT !.state = "CANCEL"]]
    <3> DEFINE r == Cancellable(recv, cmd.t_id)
               h == Cancellable(host, cmd.t_id)
    <3>1. \/ /\ r # {} /\ UNCHANGED host
             /\ recv' = [recv EXCEPT ![First(r)] = [recv[First(r)] EXCEPT !.state = "CANCEL"]]
          \/ /\ h # {} /\ UNCHANGED recv
             /\ host' = [host EXCEPT ![First(h)] = [host[First(h)] EXCEPT !.state = "CANCEL"]]
      BY <1>7 DEF cmd_cancel, arrays
    <3>2. (r # {} => First(r) \in r) /\ (h # {} => First(h) \in h)
      BY FirstIn DEF Cancellable
    <3> HIDE DEF r, h
    <3>3. CASE r # {} /\ UNCHANGED host
               /\ recv' = [recv EXCEPT ![First(r)] = [recv[First(r)] EXCEPT !.state = "CANCEL"]]
      BY <3>2, <3>3 DEF r
    <3>4. CASE h # {} /\ UNCHANGED recv
               /\ host' = [host EXCEPT ![First(h)] = [host[First(h)] EXCEPT !.state = "CANCEL"]]
      BY <3>2, <3>4 DEF h
    <3> QED BY <3>1, <3>3, <3>4
  <2>3. /\ i \in Rows
        /\ A = recv => recv[i].state # "EMPTY"
        /\ A = host => host[i].state \in Hosting /\ host[i].t_id # 0
    BY <1>3, <2>1, <2>2 DEF Cancellable, Hosting, RowNumbers, HostNumbered, Asking
  <2>4. RowNumbers' /\ \A j \in Rows : Follows(host[j], host'[j])
    <3>1. CASE A = recv /\ UNCHANGED host
               /\ recv' = [recv EXCEPT ![i] = [recv[i] EXCEPT !.state = "CANCEL"]]
      <4>1. RecvNumbered([recv[i] EXCEPT !.state = "CANCEL"])
        BY <1>3, <2>3, <3>1 DEF RowNumbers, RecvNumbered, RecvRow
      <4> QED BY <1>3, <3>1, <4>1, NumberedSet
    <3>2. CASE A = host /\ UNCHANGED recv
               /\ host' = [host EXCEPT ![i] = [host[i] EXCEPT !.state = "CANCEL"]]
      <4> DEFINE v == [host[i] EXCEPT !.state = "CANCEL"]
      <4>1. v.state = "CANCEL" /\ v.t_id = host[i].t_id
        BY <1>3, <2>3 DEF HostRow
      <4>2. host' = [host EXCEPT ![i] = v]
        BY <3>2
      <4> HIDE DEF v
      <4>3. HostNumbered(v) /\ Follows(host[i], v)
        BY <2>3, <3>2, <4>1 DEF HostNumbered, Asking, Follows, Hosting
      <4>4. \A j \in Rows : host'[j] = IF j = i THEN v ELSE host[j]
        BY <1>3, <4>2
      <4> QED BY <1>3, <3>2, <4>2, <4>3, <4>4, NumberedSet
    <3> QED BY <2>2, <3>1, <3>2
  <2>5. LocalIds' /\ HostKnows'
    BY <1>1, <1>3, <1>7, <2>4, KnowFollows
  <2> QED BY <1>1, <2>4, <2>5 DEF KnowInv
<1> QED BY <1>2, <1>4, <1>5, <1>6, <1>7

\* The server's part of a cancel, and of the end of a file: the transfer is gone,
\* and no other comes.
LEMMA Gone ==
  ASSUME NEW t, TableNumbers,
         \/ packet_cancel(t)
         \/ (IF t \in Created(Me) THEN db_cleanup_transfer({t}) ELSE UNCHANGED db)
  PROVE  TableNumbers' /\ Created(Me)' \subseteq Created(Me) /\ t \notin Created(Me)'
  BY DEF TableNumbers, Created, packet_cancel, db_cleanup_transfer, db_client_delete, db

\* An answer keeps the numbers of the rows of the table.
LEMMA AcceptNumbers ==
  ASSUME TypeOK, TableNumbers, UNCHANGED transfers, NEW t, NEW p, NEW answer,
         db_client_accept(t, p, answer)
  PROVE  TableNumbers' /\ Created(Me)' = Created(Me)
<1>1. \A w \in transfer_clients : [w EXCEPT !.accepted = answer].transfer_id = w.transfer_id
  BY DEF TypeOK
<1> QED BY <1>1 DEF TableNumbers, Created, db_client_accept

\* A row of the transfers it hosts has something to send.
LEMMA KnowHostWork ==
  ASSUME KnowInv, TypeOK', NEW i \in Rows, UNCHANGED <<cmd_queue, client_transfer_ids>>,
         \/ host[i].state = "ACTIVE" /\ send_data(i)
         \/ host[i].state = "CANCEL" /\ send_cancel_host(i)
         \/ host[i].state = "SEND_REQ" /\ send_request(i)
  PROVE  KnowInv'
<1>1. /\ TypeOK /\ Inbox /\ Inbox' /\ RowNumbers /\ LocalIds /\ HostKnows /\ InboxNumbers
      /\ TableNumbers /\ CmdNumbers' /\ host[i] \in HostRow /\ host \in [Rows -> HostRow]
  BY DEF KnowInv, TypeOK, Inbox, CmdNumbers
<1>2. CASE host[i].state \in {"ACTIVE", "CANCEL"}
  <2>1. PICK v :
           /\ host' = [host EXCEPT ![i] = v] /\ UNCHANGED <<recv, inbox>>
           /\ TableNumbers' /\ Created(Me)' \subseteq Created(Me)
           /\ HostNumbered(v) /\ Follows(host[i], v)
    <3>1. CASE send_cancel_host(i)
      <4> DEFINE v == zero_host(host[i])
      <4>1. v.state = "EMPTY" /\ v.t_id = 0
        BY <1>1 DEF zero_host, HostRow
      <4>2. host' = [host EXCEPT ![i] = v] /\ UNCHANGED <<recv, inbox>>
        BY <3>1 DEF send_cancel_host, packet_cancel
      <4>3. PICK t : t = host[i].t_id
        OBVIOUS
      <4>4. packet_cancel(t)
        BY <3>1, <4>3 DEF send_cancel_host
      <4>5. TableNumbers' /\ Created(Me)' \subseteq Created(Me) /\ t \notin Created(Me)'
        BY <1>1, <4>4, Gone
      <4> HIDE DEF v
      <4>6. HostNumbered(v) /\ Follows(host[i], v)
        BY <1>2, <4>1, <4>3, <4>5 DEF HostNumbered, Asking, Follows, Hosting
      <4> QED BY <4>2, <4>5, <4>6
    <3>2. CASE /\ host[i].state = "ACTIVE" /\ host' = [host EXCEPT ![i].left = @ - 1]
               /\ UNCHANGED <<recv, inbox, db, peers>>
      <4> DEFINE v == [host[i] EXCEPT !.left = @ - 1]
      <4>1. v.state = "ACTIVE" /\ v.t_id = host[i].t_id
        BY <1>1, <3>2 DEF HostRow
      <4>2. host' = [host EXCEPT ![i] = v] /\ UNCHANGED <<recv, inbox>>
        BY <3>2
      <4>3. TableNumbers' /\ Created(Me)' = Created(Me)
        BY <1>1, <3>2 DEF TableNumbers, Created, db
      <4> HIDE DEF v
      <4>4. HostNumbered(v) /\ Follows(host[i], v)
        BY <1>1, <3>2, <4>1 DEF RowNumbers, HostNumbered, Asking, Follows, Hosting
      <4> QED BY <4>2, <4>3, <4>4
    <3>3. CASE /\ host' = [host EXCEPT ![i] = zero_host([@ EXCEPT !.open = FALSE])]
               /\ IF host[i].t_id \in Created(Me)
                  THEN db_cleanup_transfer({host[i].t_id})
                  ELSE UNCHANGED db
               /\ UNCHANGED <<recv, inbox, peers>>
      <4> DEFINE v == zero_host([host[i] EXCEPT !.open = FALSE])
      <4>1. v.state = "EMPTY" /\ v.t_id = 0
        BY <1>1 DEF zero_host, HostRow
      <4>2. host' = [host EXCEPT ![i] = v] /\ UNCHANGED <<recv, inbox>>
        BY <3>3
      <4>3. PICK t : t = host[i].t_id
        OBVIOUS
      <4>4. IF t \in Created(Me) THEN db_cleanup_transfer({t}) ELSE UNCHANGED db
        BY <3>3, <4>3
      <4>5. TableNumbers' /\ Created(Me)' \subseteq Created(Me) /\ t \notin Created(Me)'
        BY <1>1, <4>4, Gone
      <4> HIDE DEF v
      <4>6. HostNumbered(v) /\ Follows(host[i], v)
        BY <1>2, <4>1, <4>3, <4>5 DEF HostNumbered, Asking, Follows, Hosting
      <4> QED BY <4>2, <4>5, <4>6
    <3> QED BY <1>2, <3>1, <3>2, <3>3 DEF send_data
  <2>2. RowNumbers'
    BY <1>1, <2>1, NumberedSet
  <2>3. \A j \in Rows : Follows(host[j], host'[j])
    BY <1>1, <2>1 DEF Follows
  <2>4. OnlyNews /\ InboxNumbers' /\ SameAnswers(0)
    BY <1>1, <2>1, NoNews, NewsNumbers, NewsSame
  <2>5. LocalIds' /\ HostKnows'
    BY <1>1, <2>1, <2>3, <2>4, KnowFollows
  <2> QED BY <1>1, <2>1, <2>2, <2>4, <2>5 DEF KnowInv
<1>3. CASE host[i].state = "SEND_REQ" /\ send_request(i)
  <2> DEFINE v == [host[i] EXCEPT !.state = "GET_RESPONSE"]
  <2>1. v.state = "GET_RESPONSE" /\ v.local_id = host[i].local_id /\ v.t_id = host[i].t_id
    BY <1>1 DEF HostRow
  <2>2. host' = [host EXCEPT ![i] = v] /\ UNCHANGED recv
    BY <1>3 DEF send_request
  <2> HIDE DEF v
  <2>3. host'[i] = v /\ \A j \in Rows : j # i => host'[j] = host[j]
    BY <1>1, <2>2
  <2>4. HostNumbered(v)
    BY <1>1, <1>3, <2>1 DEF RowNumbers, HostNumbered, Asking
  <2>5. RowNumbers'
    BY <1>1, <2>2, <2>4, NumberedSet
  <2>6. PICK p :
          /\ inbox' = Append(inbox, p) /\ p.type \in Response /\ p.local_id = host[i].local_id
          /\ PacketNumbered(p) /\ TableNumbers'
          /\ Created(Me)' \subseteq Created(Me) \cup (IF p.type = "VALID" THEN {p.t_id} ELSE {})
    <3> DEFINE P(type, t) == [type |-> type, t_id |-> t, local_id |-> host[i].local_id,
                              to |-> host[i].to]
    <3>1. CASE inbox' = Append(inbox, P("INVALID", 0)) /\ UNCHANGED <<db, unanswered, sent, numbered>>
      <4>1. TableNumbers' /\ Created(Me)' = Created(Me)
        BY <1>1, <3>1 DEF TableNumbers, Created, db
      <4> QED BY <3>1, <4>1 DEF Response, PacketNumbered
    <3>2. ASSUME NEW t \in Transfer_ID, NewNumber(t), db_create(t, Me, host[i].to),
                 inbox' = Append(inbox, P("VALID", t))
          PROVE  \E p :
                  /\ inbox' = Append(inbox, p) /\ p.type \in Response
                  /\ p.local_id = host[i].local_id
                  /\ PacketNumbered(p) /\ TableNumbers'
                  /\ Created(Me)' \subseteq Created(Me) \cup (IF p.type = "VALID" THEN {p.t_id} ELSE {})
      <4>1. t # 0
        BY <3>2, ManagerAssumption DEF NewNumber
      <4>2. TableNumbers' /\ Created(Me)' \subseteq Created(Me) \cup {t}
        BY <1>1, <3>2, <4>1 DEF TableNumbers, Created, db_create
      <4> QED BY <3>2, <4>1, <4>2 DEF Response, PacketNumbered
    <3> QED BY <1>3, <3>1, <3>2 DEF send_request, packet_transfer
  <2>7. LocalIds' /\ HostKnows'
    BY <1>1, <1>3, <2>1, <2>3, <2>6, KnowAnswer
  <2>8. InboxNumbers'
    BY <1>1, <2>6 DEF Inbox, InboxNumbers
  <2> QED BY <1>1, <2>5, <2>6, <2>7, <2>8 DEF KnowInv
<1> QED BY <1>2, <1>3

\* A row of the transfers it receives has something to send.
LEMMA KnowRecvWork ==
  ASSUME KnowInv, TypeOK', NEW i \in Rows, UNCHANGED <<cmd_queue, client_transfer_ids>>,
         \/ send_cancel_recv(i)
         \/ recv[i].state \in {"ACCEPT", "DENY"} /\ send_recv_request_reply(i)
  PROVE  KnowInv'
<1>1. /\ TypeOK /\ Inbox /\ Inbox' /\ RowNumbers /\ LocalIds /\ HostKnows /\ InboxNumbers
      /\ TableNumbers /\ CmdNumbers' /\ recv[i] \in RecvRow
  BY DEF KnowInv, TypeOK, Inbox, CmdNumbers
<1>2. UNCHANGED <<host, inbox>>
  BY DEF send_cancel_recv, send_recv_request_reply, packet_cancel
<1>3. RowNumbers'
  <2>1. RecvNumbered(zero_recv(recv[i]))
    BY <1>1 DEF RecvNumbered, zero_recv, RecvRow
  <2>2. recv[i].state # "EMPTY" => RecvNumbered([recv[i] EXCEPT !.state = "ACTIVE"])
    BY <1>1 DEF RowNumbers, RecvNumbered, RecvRow
  <2>3. PICK v : recv' = [recv EXCEPT ![i] = v] /\ RecvNumbered(v)
    BY <2>1, <2>2 DEF send_cancel_recv, send_recv_request_reply
  <2> QED BY <1>1, <1>2, <2>3, NumberedSet
<1>4. TableNumbers' /\ Created(Me)' \subseteq Created(Me)
  BY <1>1, Gone, AcceptNumbers DEF send_cancel_recv, send_recv_request_reply
<1>5. OnlyNews /\ InboxNumbers' /\ SameAnswers(0)
  BY <1>1, <1>2, NoNews, NewsNumbers, NewsSame
<1>6. \A j \in Rows : Follows(host[j], host'[j])
  BY <1>2 DEF Follows
<1>7. LocalIds' /\ HostKnows'
  BY <1>1, <1>4, <1>5, <1>6, KnowFollows
<1> QED BY <1>1, <1>3, <1>4, <1>5, <1>7 DEF KnowInv

\* What is sent.
LEMMA KnowWork == ASSUME KnowInv, TypeOK', do_work PROVE KnowInv'
<1>1. UNCHANGED <<cmd_queue, client_transfer_ids>>
  BY DEF do_work
<1>2. CASE HostWork # {}
  <2>1. PICK i \in Rows : i = First(HostWork)
    BY <1>2, FirstIn DEF HostWork
  <2> QED BY <1>1, <1>2, <2>1, KnowHostWork DEF do_work
<1>3. CASE HostWork = {} /\ RecvWork # {}
  <2>1. PICK i \in RecvWork : i = First(RecvWork)
    BY <1>3, FirstIn DEF RecvWork
  <2>2. i \in Rows /\ (recv[i].state # "CANCEL" => recv[i].state \in {"ACCEPT", "DENY"})
    BY <2>1 DEF RecvWork
  <2> QED BY <1>1, <1>3, <2>1, <2>2, KnowRecvWork DEF do_work
<1>4. CASE HostWork = {} /\ RecvWork = {}
  <2>1. UNCHANGED <<arrays, inbox, db, cmd_queue, client_transfer_ids>>
    BY <1>1, <1>4 DEF do_work
  <2>2. OnlyNews /\ TableNumbers' /\ CmdNumbers' /\ Created(Me)' = Created(Me)
    BY <2>1, NoNews DEF KnowInv, TypeOK, Inbox, TableNumbers, CmdNumbers, Created, db
  <2> QED BY <2>1, <2>2, KnowPeer
<1> QED BY <1>2, <1>3, <1>4

\* Reading a packet that is no answer leaves the answers, one place nearer.
LEMMA TailSame ==
  ASSUME Inbox, inbox # << >>, inbox' = Tail(inbox)
  PROVE  /\ inbox[1].type \notin Response => SameAnswers(1)
         /\ InboxNumbers => PacketNumbered(inbox[1]) /\ InboxNumbers'
<1>1. /\ 1 \in DOMAIN inbox
      /\ \A k \in DOMAIN inbox' : k + 1 \in DOMAIN inbox /\ inbox[k + 1] = inbox'[k]
      /\ \A k \in DOMAIN inbox : k = 1 \/ (k - 1 \in DOMAIN inbox' /\ inbox'[k - 1] = inbox[k])
  BY DEF Inbox
<1> QED BY <1>1 DEF SameAnswers, InboxNumbers

\* What is read.
LEMMA KnowAnalize == ASSUME KnowInv, TypeOK', analize PROVE KnowInv'
<1> DEFINE p == inbox[1]
<1>1. CASE ClientEnds
  BY <1>1, KnowEnds
<1>2. CASE ~ClientEnds
  <2>1. /\ inbox # << >> /\ inbox' = Tail(inbox)
        /\ UNCHANGED <<alive, phase, cmd_queue, client_transfer_ids, gui, db, peers>>
    BY <1>2 DEF analize
  <2>1a. \/ p.type \in Response /\ host_request_valid(p)
         \/ p.type = "REPLY" /\ host_request_reply(p)
         \/ p.type = "CANCEL" /\ recv_cancel(p)
         \/ p.type = "DATA" /\ recv_data(p)
         \/ p.type = "COMPLETE" /\ recv_complete(p)
         \/ p.type = "REQUEST" /\ create_recv_request(p)
    <3>1. Head(inbox) = p
      BY <2>1 DEF KnowInv, TypeOK
    <3> HIDE DEF p
    <3> QED BY <1>2, <3>1 DEF analize, Response
  <2> HIDE DEF p
  <2>2. /\ TypeOK /\ Inbox /\ Inbox' /\ RowNumbers /\ LocalIds /\ HostKnows
        /\ CmdNumbers' /\ TableNumbers' /\ Created(Me)' = Created(Me)
        /\ DOMAIN host = Rows /\ \A i \in Rows : host[i] \in HostRow /\ recv[i] \in RecvRow
    BY <2>1 DEF KnowInv, TypeOK, Inbox, CmdNumbers, TableNumbers, Created, db
  <2>3. InboxNumbers' /\ PacketNumbered(p) /\ (p.type \notin Response => SameAnswers(1))
    BY <2>1, <2>2, TailSame DEF KnowInv, p
  <2>4. \A S \in SUBSET Rows : S # {} => First(S) \in S
    BY FirstIn
  <2>5. CASE p.type \in Response /\ host_request_valid(p)
    <3>1. LocalIds' /\ HostKnows'
      BY <2>1, <2>2, <2>5, KnowValid DEF p, db
    <3> DEFINE S == {k \in Rows : host[k].state = "GET_RESPONSE" /\ host[k].local_id = p.local_id}
               i == First(S)
               v == IF p.type = "VALID"
                    THEN [host[i] EXCEPT !.state = "PENDING", !.t_id = p.t_id, !.to = p.to]
                    ELSE [host[i] EXCEPT !.state = "CANCEL"]
    <3>2. UNCHANGED recv /\ (UNCHANGED host \/ (S # {} /\ host' = [host EXCEPT ![i] = v]))
      BY <2>5 DEF host_request_valid
    <3>3. ASSUME S # {} PROVE HostNumbered(v)
      <4>1. i \in Rows
        BY <2>4, <3>3
      <4> HIDE DEF i, S
      <4>2. v.state = (IF p.type = "VALID" THEN "PENDING" ELSE "CANCEL")
            /\ (p.type = "VALID" => v.t_id = p.t_id)
        BY <2>2, <4>1 DEF HostRow
      <4> QED BY <2>3, <4>2 DEF HostNumbered, PacketNumbered, Asking
    <3> HIDE DEF S, i, v
    <3>4. RowNumbers'
      BY <2>2, <3>2, <3>3, NumberedSet DEF RowNumbers
    <3> QED BY <2>2, <2>3, <3>1, <3>4 DEF KnowInv
  <2>6. CASE \/ p.type = "REPLY" /\ host_request_reply(p)
             \/ p.type = "CANCEL" /\ recv_cancel(p)
    <3>1. \/ UNCHANGED arrays
          \/ \E i \in Rows : /\ recv' = [recv EXCEPT ![i] = zero_recv(recv[i])]
                             /\ UNCHANGED host
          \/ \E i \in Rows : \E c, reply :
                /\ host[i].state \in {"PENDING", "ACTIVE", "GET_RESPONSE"} /\ host[i].t_id = p.t_id
                /\ host[i].state = "GET_RESPONSE" => p.t_id # 0
                /\ host' = [host EXCEPT ![i] = set_request(host[i], c, reply)]
                /\ UNCHANGED recv
      <4> DEFINE S == {k \in Rows : host[k].state = "PENDING" /\ host[k].t_id = p.t_id}
                 r == Cancellable(recv, p.t_id)
                 h == Cancellable(host, p.t_id)
      <4>1. /\ S # {} => First(S) \in S
            /\ r # {} => First(r) \in r
            /\ h # {} => First(h) \in h
        BY <2>4 DEF Cancellable
      <4>2. CASE p.type = "REPLY" /\ host_request_reply(p)
        <5>1. UNCHANGED recv
              /\ (UNCHANGED host
                  \/ (S # {} /\ host' = [host EXCEPT ![First(S)]
                                           = set_request(host[First(S)], p.from, p.accept)]))
          BY <4>2 DEF host_request_reply
        <5> QED BY <4>1, <5>1 DEF arrays
      <4>3. CASE p.type = "CANCEL" /\ recv_cancel(p)
        <5>1. \/ UNCHANGED arrays
              \/ /\ r # {} /\ UNCHANGED host
                 /\ recv' = [recv EXCEPT ![First(r)] = zero_recv(recv[First(r)])]
              \/ /\ h # {} /\ UNCHANGED recv
                 /\ host' = [host EXCEPT ![First(h)] = set_request(host[First(h)], p.from, FALSE)]
          BY <4>3 DEF recv_cancel, arrays
        <5>2. p.t_id # 0
          BY <2>3, <4>3 DEF PacketNumbered
        <5>3. /\ r # {} => First(r) \in Rows
              /\ h # {} => /\ First(h) \in Rows /\ host[First(h)].t_id = p.t_id
                           /\ host[First(h)].state \in {"PENDING", "ACTIVE", "GET_RESPONSE"}
          BY <4>1 DEF Cancellable
        <5> HIDE DEF r, h
        <5> QED BY <5>1, <5>2, <5>3
      <4> QED BY <2>6, <4>2, <4>3
    <3>2. CASE UNCHANGED arrays
      <4>1. RowNumbers' /\ \A i \in Rows : Follows(host[i], host'[i])
        BY <2>2, <3>2 DEF RowNumbers, arrays, Follows
      <4>2. SameAnswers(1)
        BY <2>3, <2>6 DEF Response
      <4>3. LocalIds' /\ HostKnows'
        BY <2>1, <2>2, <4>1, <4>2, KnowFollows
      <4> QED BY <2>2, <2>3, <4>1, <4>3 DEF KnowInv
    <3>3. ASSUME NEW i \in Rows, recv' = [recv EXCEPT ![i] = zero_recv(recv[i])], UNCHANGED host
          PROVE  KnowInv'
      <4>1. RecvNumbered(zero_recv(recv[i]))
        BY <2>2 DEF RecvNumbered, zero_recv, RecvRow
      <4>2. RowNumbers' /\ \A j \in Rows : Follows(host[j], host'[j])
        BY <2>2, <3>3, <4>1, NumberedSet DEF Follows
      <4>3. SameAnswers(1)
        BY <2>3, <2>6 DEF Response
      <4>4. LocalIds' /\ HostKnows'
        BY <2>1, <2>2, <4>2, <4>3, KnowFollows
      <4> QED BY <2>2, <2>3, <4>2, <4>4 DEF KnowInv
    <3>4. ASSUME NEW i \in Rows, NEW c, NEW reply,
                 host[i].state \in {"PENDING", "ACTIVE", "GET_RESPONSE"}, host[i].t_id = p.t_id,
                 host[i].state = "GET_RESPONSE" => p.t_id # 0,
                 host' = [host EXCEPT ![i] = set_request(host[i], c, reply)], UNCHANGED recv
          PROVE  KnowInv'
      <4> DEFINE v == set_request(host[i], c, reply)
      <4>1. host[i].state \in {"PENDING", "ACTIVE"} /\ host[i].t_id # 0
        BY <2>2, <3>4 DEF RowNumbers, HostNumbered, Asking
      <4>2. v.state \in {"CANCEL", "ACTIVE", host[i].state} /\ v.t_id = host[i].t_id
        BY <2>2 DEF set_request, HostRow
      <4> HIDE DEF v
      <4>3. HostNumbered(v) /\ Follows(host[i], v)
        BY <4>1, <4>2 DEF HostNumbered, Asking, Follows, Hosting
      <4>4. host' = [host EXCEPT ![i] = v]
        BY <3>4 DEF v
      <4>5. RowNumbers'
        BY <2>2, <3>4, <4>3, <4>4, NumberedSet
      <4>6. \A j \in Rows : Follows(host[j], host'[j])
        BY <2>2, <4>3, <4>4 DEF Follows
      <4>7. SameAnswers(1)
        BY <2>3, <2>6 DEF Response
      <4>8. LocalIds' /\ HostKnows'
        BY <2>1, <2>2, <4>6, <4>7, KnowFollows
      <4> QED BY <2>2, <2>3, <4>5, <4>8 DEF KnowInv
    <3> QED BY <3>1, <3>2, <3>3, <3>4
  <2>7. CASE \/ p.type = "DATA" /\ recv_data(p)
             \/ p.type = "COMPLETE" /\ recv_complete(p)
             \/ p.type = "REQUEST" /\ create_recv_request(p)
    <3>1. UNCHANGED host
          /\ (UNCHANGED recv
              \/ \E i, v : recv' = [recv EXCEPT ![i] = v] /\ (i \in Rows => RecvNumbered(v)))
      <4>1. CASE p.type = "DATA" /\ recv_data(p)
        <5>1. \A i \in Rows : \A b : RecvNumbered([recv[i] EXCEPT !.bytes = b])
          BY <2>2 DEF RowNumbers, RecvNumbered, RecvRow
        <5>2. UNCHANGED recv \/ \E i, b : recv' = [recv EXCEPT ![i] = [recv[i] EXCEPT !.bytes = b]]
          BY <4>1 DEF recv_data
        <5>3. UNCHANGED host
          BY <4>1 DEF recv_data
        <5> QED BY <5>1, <5>2, <5>3
      <4>2. CASE p.type = "COMPLETE" /\ recv_complete(p)
        <5>1. \A i \in Rows : RecvNumbered(zero_recv([recv[i] EXCEPT !.open = FALSE]))
          BY <2>2 DEF RecvNumbered, zero_recv, RecvRow
        <5> QED BY <4>2, <5>1 DEF recv_complete
      <4>3. CASE p.type = "REQUEST" /\ create_recv_request(p)
        <5> DEFINE v == [state |-> "GET_RESPONSE", t_id |-> p.t_id, bytes |-> 0, open |-> TRUE]
        <5>1. RecvNumbered(v)
          BY <2>3, <4>3 DEF RecvNumbered, PacketNumbered
        <5>2. recv' = [recv EXCEPT ![First(free_recv)] = v] /\ UNCHANGED host
          BY <4>3 DEF create_recv_request
        <5> HIDE DEF v
        <5> QED BY <5>1, <5>2
      <4> QED BY <2>7, <4>1, <4>2, <4>3
    <3>2. RowNumbers'
      <4>1. UNCHANGED arrays => RowNumbers'
        BY <2>2 DEF RowNumbers, arrays
      <4> QED BY <2>2, <3>1, <4>1, NumberedSet DEF arrays
    <3>3. \A j \in Rows : Follows(host[j], host'[j])
      BY <3>1 DEF Follows
    <3>4. SameAnswers(1)
      BY <2>3, <2>7 DEF Response
    <3>5. LocalIds' /\ HostKnows'
      BY <2>1, <2>2, <3>3, <3>4, KnowFollows
    <3> QED BY <2>2, <2>3, <3>2, <3>5 DEF KnowInv
  <2> QED BY <2>1a, <2>5, <2>6, <2>7
<1> QED BY <1>1, <1>2

\* What the other clients do.
LEMMA KnowPeers == ASSUME KnowInv, TypeOK', Peers \/ Hosts PROVE KnowInv'
<1>1. /\ TypeOK /\ Inbox /\ TableNumbers /\ CmdNumbers
      /\ transfers \subseteq TransferTable /\ transfer_clients \subseteq ClientTable
      /\ Me \notin Others
  BY ManagerAssumption DEF KnowInv, TypeOK, Inbox, TransferTable, ClientTable
<1>2. UNCHANGED local
  BY DEF Peers, Hosts, peer_request, close_client, peer_reply, peer_cancel_host,
         peer_cancel_recv, peer_data, peer_complete
<1>3. UNCHANGED <<arrays, client_transfer_ids>> /\ CmdNumbers'
  BY <1>1, <1>2 DEF local, CmdNumbers
<1>4. OnlyNews /\ TableNumbers' /\ Created(Me)' \subseteq Created(Me)
  <2>1. ASSUME NEW p \in Others, peer_request(p)
        PROVE  OnlyNews /\ TableNumbers' /\ Created(Me)' \subseteq Created(Me)
    <3>1. PICK t \in Transfer_ID :
            /\ NewNumber(t) /\ db_create(t, p, {Me})
            /\ inbox' = Append(inbox, [type |-> "REQUEST", t_id |-> t, from |-> p])
      BY <2>1 DEF peer_request
    <3>2. t # 0
      BY <3>1, ManagerAssumption DEF NewNumber
    <3>3. TableNumbers' /\ Created(Me)' \subseteq Created(Me)
      BY <1>1, <3>1, <3>2 DEF TableNumbers, Created, db_create
    <3> QED BY <1>1, <3>1, <3>2, <3>3, OneNew DEF Response, PacketNumbered
  <2>2. ASSUME NEW p \in Others, NEW t \in Transfer_ID, NEW accept \in BOOLEAN,
               peer_reply(t, p, accept)
        PROVE  OnlyNews /\ TableNumbers' /\ Created(Me)' \subseteq Created(Me)
    <3>1. OnlyNews
      BY <1>1, <2>2, NoNews, OneNew DEF peer_reply, Response, PacketNumbered
    <3>2. TableNumbers' /\ Created(Me)' \subseteq Created(Me)
      BY <1>1, <2>2, AcceptNumbers DEF peer_reply
    <3> QED BY <3>1, <3>2
  <2>3. ASSUME NEW p \in Others, NEW t \in Transfer_ID,
               peer_cancel_host(t, p) \/ peer_cancel_recv(t, p)
        PROVE  OnlyNews /\ TableNumbers' /\ Created(Me)' \subseteq Created(Me)
    <3>1. t # 0
      BY <1>1, <2>3 DEF peer_cancel_host, peer_cancel_recv, Created, TableNumbers
    <3>2. Cancelled(t, p).type \notin Response /\ PacketNumbered(Cancelled(t, p))
      BY <3>1 DEF Cancelled, Response, PacketNumbered
    <3>3. inbox' = inbox \/ inbox' = Append(inbox, Cancelled(t, p))
      BY <2>3 DEF peer_cancel_host, peer_cancel_recv
    <3>4. OnlyNews
      BY <1>1, <3>2, <3>3, NoNews, OneNew
    <3>5. TableNumbers' /\ Created(Me)' \subseteq Created(Me)
      BY <1>1, <2>3 DEF peer_cancel_host, peer_cancel_recv, db_cleanup_transfer,
                        db_client_delete, TableNumbers, Created
    <3> QED BY <3>4, <3>5
  <2>4. ASSUME NEW t \in Transfer_ID, peer_data(t) \/ peer_complete(t)
        PROVE  OnlyNews /\ TableNumbers' /\ Created(Me)' \subseteq Created(Me)
    <3>1. PICK type \in {"DATA", "COMPLETE"} : inbox' = Append(inbox, [type |-> type, t_id |-> t])
      BY <2>4 DEF peer_data, peer_complete
    <3>2. OnlyNews
      BY <1>1, <3>1, OneNew DEF Response, PacketNumbered
    <3>3. TableNumbers' /\ Created(Me)' \subseteq Created(Me)
      BY <1>1, <2>4 DEF peer_data, peer_complete, db_cleanup_transfer, db, TableNumbers, Created
    <3> QED BY <3>2, <3>3
  <2>5. ASSUME NEW p \in Others, close_client(p)
        PROVE  OnlyNews /\ TableNumbers' /\ Created(Me)' \subseteq Created(Me)
    <3> DEFINE received == {w.transfer_id : w \in {v \in transfer_clients : v.client_id = p}}
               News(q) == [k \in DOMAIN q |-> Cancelled(q[k], p)]
    <3>1. /\ ToldOfCancel(Created(p)) \subseteq Transfer_ID \ {0}
          /\ received \subseteq Transfer_ID \ {0}
      BY <1>1 DEF ToldOfCancel, Created, TransferTable, ClientTable, TableNumbers
    <3>2. PICK a \in Ordered(ToldOfCancel(Created(p))), b \in Ordered(received) :
            inbox' = inbox \o News(a) \o News(b)
      BY <2>5 DEF close_client
    <3>3. News(a) \in Seq(Packet) /\ News(b) \in Seq(Packet)
      BY <3>1, CancelSeq
    <3>4. /\ \A k \in DOMAIN News(a) : News(a)[k] = Cancelled(a[k], p) /\ a[k] # 0
          /\ \A k \in DOMAIN News(b) : News(b)[k] = Cancelled(b[k], p) /\ b[k] # 0
      BY <3>1 DEF Ordered
    <3>5. \A t : t # 0 => Cancelled(t, p).type \notin Response /\ PacketNumbered(Cancelled(t, p))
      BY DEF Cancelled, Response, PacketNumbered
    <3>6. OnlyNews
      <4>1. PICK x, y : /\ x = News(a) /\ y = News(b)
        OBVIOUS
      <4> HIDE DEF News, received
      <4>2. /\ inbox \in Seq(Packet) /\ x \in Seq(Packet) /\ y \in Seq(Packet)
            /\ inbox' = inbox \o x \o y
            /\ \A k \in DOMAIN x : x[k].type \notin Response /\ PacketNumbered(x[k])
            /\ \A k \in DOMAIN y : y[k].type \notin Response /\ PacketNumbered(y[k])
        BY <1>1, <3>2, <3>3, <3>4, <3>5, <4>1 DEF Inbox
      <4>3. \A k \in DOMAIN inbox : k \in DOMAIN inbox' /\ inbox'[k] = inbox[k]
        BY <4>2
      <4>4. ASSUME NEW k \in DOMAIN inbox' \ DOMAIN inbox
            PROVE  \/ k - Len(inbox) \in DOMAIN x /\ inbox'[k] = x[k - Len(inbox)]
                   \/ /\ k - Len(inbox) - Len(x) \in DOMAIN y
                      /\ inbox'[k] = y[k - Len(inbox) - Len(x)]
        BY <4>2
      <4> QED BY <4>2, <4>3, <4>4 DEF OnlyNews
    <3>7. TableNumbers' /\ Created(Me)' \subseteq Created(Me)
      BY <1>1, <2>5 DEF close_client, TableNumbers, Created
    <3> QED BY <3>6, <3>7
  <2> QED BY <2>1, <2>2, <2>3, <2>4, <2>5 DEF Peers, Hosts
<1> QED BY <1>3, <1>4, KnowPeer DEF KnowInv

\* The turns in which nothing is sent, and stuttering.
LEMMA KnowTurn ==
  ASSUME KnowInv, TypeOK', wait_work \/ next_round \/ UNCHANGED vars
  PROVE  KnowInv'
<1>1. UNCHANGED <<arrays, inbox, db, cmd_queue, client_transfer_ids>>
  BY DEF wait_work, next_round, vars
<1>2. OnlyNews /\ TableNumbers' /\ CmdNumbers' /\ Created(Me)' = Created(Me)
  BY <1>1, NoNews DEF KnowInv, TypeOK, Inbox, TableNumbers, CmdNumbers, Created, db
<1> QED BY <1>1, <1>2, KnowPeer

\* Nothing is numbered, asked or hosted at first.
LEMMA InitKnows == Init => KnowInv
<1> SUFFICES ASSUME Init PROVE KnowInv
  OBVIOUS
<1>1. RowNumbers /\ CmdNumbers /\ InboxNumbers /\ TableNumbers
  BY DEF Init, RowNumbers, CmdNumbers, InboxNumbers, TableNumbers, HostNumbered, RecvNumbered,
         NewHost, NewRecv
<1>2. LocalIds
  BY DEF Init, LocalIds, LocalDrawn, LocalOwn, AnswerHasRow, AnswerOnce, Asking, NewHost
<1>3. HostKnows
  BY DEF Init, HostKnows, Created
<1> QED BY <1>1, <1>2, <1>3, InitType DEF KnowInv

\* No recipient waits for a host that has forgotten it: each transfer the server
\* has of this client is in a row that will end it, or its VALID is on its way to
\* the row that asked (host_request_valid finds it by local_id, and a cancel, which
\* goes by number, never meets a row that waits).  The row a click is about must
\* still be the one that was drawn: the number the GUI reads late may be 0, and
\* cmd_cancel then takes a row that waits for VALID.
THEOREM HostsKnow == SteadyScreen => (Spec => []HostKnows)
<1>1. Init => KnowInv
  BY InitKnows
<1>2. ASSUME SteadyScreen PROVE KnowInv /\ [Next]_vars => KnowInv'
  <2> SUFFICES ASSUME KnowInv, [Next]_vars PROVE KnowInv'
    OBVIOUS
  <2>1. TypeOK'
    BY StepType DEF KnowInv
  <2> QED BY <1>2, <2>1, KnowGUI, KnowProcess, KnowWork, KnowAnalize, KnowPeers, KnowTurn
          DEF Next, Network
<1>3. KnowInv => HostKnows
  BY DEF KnowInv
<1>4. SUFFICES ASSUME SteadyScreen PROVE Spec => []HostKnows
  OBVIOUS
<1>5. KnowInv /\ [Next]_vars => KnowInv'
  BY <1>2, <1>4
<1> QED BY <1>1, <1>3, <1>5, PTL DEF Spec

-----------------------------------------------------------------------------
(* What a step does to a row this client hosts, whichever row First picks. *)

NoAnswers == [p \in Others |-> "EMPTY"]
Unset     == {"EMPTY", "SEND_REQ", "GET_RESPONSE"}

\* The row is emptied.
Vacant(s) == s.state = "EMPTY" /\ s.t_id = 0 /\ s.accept_list = NoAnswers

\* The request is being made.
Asks(r, s) == /\ r.state \in Unset /\ s.state \in {"SEND_REQ", "GET_RESPONSE"}
              /\ s.t_id = r.t_id /\ s.accept_list = r.accept_list

\* VALID is read.
Begins(r, s) ==
    /\ inbox # << >> /\ inbox[1].type = "VALID"
    /\ r.state = "GET_RESPONSE" /\ s.state = "PENDING"
    /\ s.t_id = inbox[1].t_id /\ s.to = inbox[1].to /\ s.accept_list = r.accept_list

\* An answer is read, or that a recipient has gone.
Hears(r, s) ==
    /\ inbox # << >> /\ inbox[1].type \in {"REPLY", "CANCEL"} /\ inbox[1].t_id = r.t_id
    /\ \/ r.state \in {"PENDING", "ACTIVE"}
       \/ r.state = "GET_RESPONSE" /\ inbox[1].type = "CANCEL"
    /\ \E reply \in BOOLEAN : s = set_request(r, inbox[1].from, reply)

\* The transfer goes on.
GoesOn(r, s) == /\ r.state = "ACTIVE" /\ s.state = "ACTIVE" /\ s.t_id = r.t_id
                /\ s.to = r.to /\ s.accept_list = r.accept_list

Cancels(r, s) == s.state = "CANCEL" /\ s.t_id = r.t_id

HostStep(r, s) == \/ s = r \/ Vacant(s) \/ Asks(r, s) \/ Begins(r, s) \/ Hears(r, s)
                  \/ GoesOn(r, s) \/ Cancels(r, s)

\* Setting one row leaves the others.
LEMMA OneSet ==
  ASSUME NEW A, DOMAIN A = Rows, NEW j, NEW v, NEW i \in Rows
  PROVE  [A EXCEPT ![j] = v][i] = A[i] \/ (j = i /\ [A EXCEPT ![j] = v][i] = v)
  OBVIOUS

\* The rows themselves.
LEMMA HostVacant ==
  ASSUME NEW r \in HostRow
  PROVE  Vacant(zero_host(r)) /\ Vacant(zero_host([r EXCEPT !.open = FALSE])) /\ Vacant(NewHost)
  BY DEF Vacant, zero_host, HostRow, NewHost, NoAnswers

\* process_cmds: a request takes a row, a cancel marks one.
LEMMA ProcessHost ==
  ASSUME TypeOK, process_cmds, NEW i \in Rows PROVE HostStep(host[i], host'[i])
<1> DEFINE cmd == Head(cmd_queue)
<1>1. cmd_host_request(cmd) \/ cmd_recv_request_reply(cmd) \/ cmd_cancel(cmd)
  BY DEF process_cmds
<1>2. DOMAIN host = Rows /\ \A j \in Rows : host[j] \in HostRow
  BY DEF TypeOK
<1> HIDE DEF cmd
<1>3. CASE UNCHANGED host
  BY <1>3 DEF HostStep
<1>4. CASE cmd_host_request(cmd) /\ ~UNCHANGED host
  <2> DEFINE free == {k \in Rows : host[k].state = "EMPTY"}
             j == First(free)
             v == [host[j] EXCEPT !.state = "SEND_REQ", !.to = cmd.to, !.left = cmd.size,
                                  !.local_id = client_transfer_ids, !.open = TRUE]
  <2>1. free # {} /\ host' = [host EXCEPT ![j] = v]
    BY <1>4 DEF cmd_host_request, arrays
  <2>2. j \in free
    BY <2>1, FirstIn
  <2> HIDE DEF j
  <2>3. Asks(host[j], v)
    BY <1>2, <2>2 DEF Asks, Unset, HostRow
  <2> HIDE DEF v
  <2> QED BY <1>2, <2>1, <2>3, OneSet DEF HostStep
<1>5. CASE cmd_cancel(cmd) /\ ~UNCHANGED host
  <2> DEFINE j == First(Cancellable(host, cmd.t_id))
             v == [host[j] EXCEPT !.state = "CANCEL"]
  <2>1. host' = [host EXCEPT ![j] = v]
    BY <1>5 DEF cmd_cancel
  <2> HIDE DEF j
  <2>2. j \in Rows => Cancels(host[j], v)
    BY <1>2 DEF Cancels, HostRow
  <2> HIDE DEF v
  <2> QED BY <1>2, <2>1, <2>2, OneSet DEF HostStep
<1> QED BY <1>1, <1>3, <1>4, <1>5 DEF cmd_recv_request_reply

\* do_work: the first row with something to send.
LEMMA WorkHost ==
  ASSUME TypeOK, do_work, NEW i \in Rows PROVE HostStep(host[i], host'[i])
<1> DEFINE j == First(HostWork)
<1>1. DOMAIN host = Rows /\ \A k \in Rows : host[k] \in HostRow
  BY DEF TypeOK
<1>2. CASE UNCHANGED host
  BY <1>2 DEF HostStep
<1>3. CASE HostWork # {}
  <2>1. j \in Rows
    BY <1>3, FirstIn DEF HostWork
  <2>2. \/ host[j].state = "ACTIVE" /\ send_data(j)
        \/ host[j].state = "CANCEL" /\ send_cancel_host(j)
        \/ host[j].state = "SEND_REQ" /\ send_request(j)
    BY <1>3 DEF do_work
  <2> HIDE DEF j
  <2>3. PICK v : host' = [host EXCEPT ![j] = v] /\ HostStep(host[j], v)
    <3>1. CASE send_cancel_host(j)
      BY <1>1, <2>1, <3>1, HostVacant DEF send_cancel_host, HostStep
    <3>2. CASE host' = [host EXCEPT ![j] = zero_host([@ EXCEPT !.open = FALSE])]
      BY <1>1, <2>1, <3>2, HostVacant DEF HostStep
    <3>3. CASE host[j].state = "ACTIVE" /\ host' = [host EXCEPT ![j].left = @ - 1]
      <4> DEFINE v == [host[j] EXCEPT !.left = @ - 1]
      <4>1. GoesOn(host[j], v)
        BY <1>1, <2>1, <3>3 DEF GoesOn, HostRow
      <4>2. host' = [host EXCEPT ![j] = v]
        BY <3>3
      <4> HIDE DEF v
      <4> QED BY <4>1, <4>2 DEF HostStep
    <3>4. CASE host[j].state = "SEND_REQ" /\ send_request(j)
      <4> DEFINE v == [host[j] EXCEPT !.state = "GET_RESPONSE"]
      <4>1. Asks(host[j], v)
        BY <1>1, <2>1, <3>4 DEF Asks, Unset, HostRow
      <4>2. host' = [host EXCEPT ![j] = v]
        BY <3>4 DEF send_request
      <4> HIDE DEF v
      <4> QED BY <4>1, <4>2 DEF HostStep
    <3> QED BY <2>2, <3>1, <3>2, <3>3, <3>4 DEF send_data
  <2> QED BY <1>1, <2>3, OneSet DEF HostStep
<1> QED BY <1>2, <1>3 DEF do_work, send_cancel_recv, send_recv_request_reply, arrays

\* analize: an answer of the server, or of a recipient.
LEMMA AnalizeHost ==
  ASSUME TypeOK, analize, ~ClientEnds, NEW i \in Rows PROVE HostStep(host[i], host'[i])
<1> DEFINE p == inbox[1]
<1>1. inbox # << >>
  BY DEF analize
<1>2. DOMAIN host = Rows /\ \A k \in Rows : host[k] \in HostRow
  BY DEF TypeOK
<1>3. \/ p.type \in {"VALID", "INVALID"} /\ host_request_valid(p)
      \/ p.type = "REPLY" /\ host_request_reply(p)
      \/ p.type = "CANCEL" /\ recv_cancel(p)
      \/ UNCHANGED host
  <2>1. Head(inbox) = p
    BY <1>1 DEF TypeOK
  <2> HIDE DEF p
  <2> QED BY <2>1 DEF analize, recv_data, recv_complete, create_recv_request
<1>4. p \in Packet
  BY <1>1 DEF TypeOK
<1>5. \A S \in SUBSET Rows : S # {} => First(S) \in S
  BY FirstIn
<1>6. PICK q : q = p
  OBVIOUS
<1> HIDE DEF p
<1>7. CASE UNCHANGED host
  BY <1>7 DEF HostStep
<1>8. CASE q.type \in {"VALID", "INVALID"} /\ host_request_valid(q) /\ ~UNCHANGED host
  <2> DEFINE S == {k \in Rows : host[k].state = "GET_RESPONSE" /\ host[k].local_id = q.local_id}
             j == First(S)
             v == IF q.type = "VALID"
                  THEN [host[j] EXCEPT !.state = "PENDING", !.t_id = q.t_id, !.to = q.to]
                  ELSE [host[j] EXCEPT !.state = "CANCEL"]
  <2>1. S # {} /\ host' = [host EXCEPT ![j] = v]
    BY <1>8 DEF host_request_valid
  <2>2. j \in S
    BY <1>5, <2>1
  <2> HIDE DEF j
  <2>3. Begins(host[j], v) \/ Cancels(host[j], v)
    BY <1>1, <1>2, <1>6, <1>8, <2>2 DEF Begins, Cancels, HostRow, p
  <2> HIDE DEF v
  <2> QED BY <1>2, <2>1, <2>3, OneSet DEF HostStep
<1>9. CASE /\ \/ q.type = "REPLY" /\ host_request_reply(q)
              \/ q.type = "CANCEL" /\ recv_cancel(q)
           /\ ~UNCHANGED host
  <2> DEFINE S == IF q.type = "REPLY"
                  THEN {k \in Rows : host[k].state = "PENDING" /\ host[k].t_id = q.t_id}
                  ELSE Cancellable(host, q.t_id)
             j == First(S)
             v == set_request(host[j], q.from, IF q.type = "REPLY" THEN q.accept ELSE FALSE)
  <2>1. S # {} /\ host' = [host EXCEPT ![j] = v]
    BY <1>9 DEF host_request_reply, recv_cancel
  <2>2. j \in S
    BY <1>5, <2>1 DEF Cancellable
  <2>3. (IF q.type = "REPLY" THEN q.accept ELSE FALSE) \in BOOLEAN
    BY <1>4, <1>6 DEF Packet
  <2> HIDE DEF j
  <2>4. Hears(host[j], v)
    BY <1>1, <1>6, <1>9, <2>2, <2>3 DEF Hears, p, Cancellable
  <2> HIDE DEF v
  <2> QED BY <1>2, <2>1, <2>4, OneSet DEF HostStep
<1> QED BY <1>3, <1>6, <1>7, <1>8, <1>9

\* Every step does one of these to each row.
LEMMA HostRows == ASSUME TypeOK, [Next]_vars, NEW i \in Rows PROVE HostStep(host[i], host'[i])
<1>1. CASE ClientEnds
  <2>1. host[i] \in HostRow /\ host'[i] = NewHost
    BY <1>1 DEF TypeOK, ClientEnds
  <2> QED BY <2>1, HostVacant DEF HostStep
<1>2. CASE UNCHANGED host
  BY <1>2 DEF HostStep
<1>3. CASE GUI \/ Peers \/ Hosts \/ wait_work \/ next_round \/ UNCHANGED vars
  BY <1>1, <1>2, <1>3 DEF GUI, render, click, transfer, Peers, Hosts, peer_request, peer_reply,
     peer_cancel_host, peer_cancel_recv, close_client, peer_data, peer_complete, local,
     wait_work, next_round, vars, arrays
<1> QED BY <1>1, <1>3, ProcessHost, WorkHost, AnalizeHost DEF Next, Network

-----------------------------------------------------------------------------
(* Who has still to answer, and what the packets on their way say of it.   *)

Waits(t, c) == [transfer_id |-> t, client_id |-> c, accepted |-> -1] \in transfer_clients

\* A packet waits to be read.
In(p) == \E k \in DOMAIN inbox : inbox[k] = p

\* The numbers in the tables have been given.
KnownRows == /\ \A v \in transfers : 1 <= v.transfer_id /\ v.transfer_id <= numbered
             /\ \A w \in transfer_clients : 1 <= w.transfer_id /\ w.transfer_id <= numbered

\* What the server may do to the tables: rows go, are answered, or are of a new
\* transfer.
Lessens ==
    /\ transfers' \subseteq transfers /\ numbered' = numbered
    /\ \A w \in transfer_clients' : \E u \in transfer_clients :
          u.transfer_id = w.transfer_id /\ (w.accepted = -1 => w = u)
NewWaits == \A t, c : Waits(t, c)' => Waits(t, c) \/ (t = numbered + 1 /\ numbered' = t)
TableStep == KnownRows' /\ NewWaits /\ numbered <= numbered'

\* What a packet the server sends means.
Arrived(p) ==
    /\ p.t_id <= numbered'
    /\ p.type = "VALID" => p.t_id = numbered + 1 /\ \A c : Waits(p.t_id, c)' => c \in p.to
    /\ p.type \in {"REPLY", "CANCEL"} => ~Waits(p.t_id, p.from)'
    /\ p.type = "CANCEL" => p.t_id # 0
Arrivals == \A p : In(p)' => In(p) \/ Arrived(p)

\* The numbers are numbers.
LEMMA TypesOf ==
  ASSUME TypeOK
  PROVE  /\ numbered \in Nat /\ \A v \in transfers : v.transfer_id \in Nat
         /\ \A w \in transfer_clients : w.transfer_id \in Nat
  BY DEF TypeOK, Transfer_ID

\* Tables that lessen are as a step may leave them.
LEMMA LessensShows == ASSUME TypeOK, KnownRows, Lessens PROVE TableStep
<1>1. KnownRows' /\ NewWaits
  BY DEF KnownRows, Lessens, NewWaits, Waits
<1>2. numbered <= numbered'
  BY DEF TypeOK, Lessens, Transfer_ID
<1> QED BY <1>1, <1>2 DEF TableStep

\* Tables that stay lessen.
LEMMA SameTables == ASSUME TypeOK, UNCHANGED <<transfers, transfer_clients, numbered>> PROVE Lessens
  BY DEF Lessens

\* db_cleanup_transfer: nobody is waited for.
LEMMA CleanLessens ==
  ASSUME TypeOK, NEW T, db_cleanup_transfer(T), UNCHANGED numbered
  PROVE  Lessens /\ \A t \in T : \A c : ~Waits(t, c)'
<1>1. Lessens
  BY DEF Lessens, db_cleanup_transfer
<1>2. \A t \in T : \A w \in transfer_clients' : w.transfer_id # t
  BY DEF db_cleanup_transfer
<1> QED BY <1>1, <1>2 DEF Waits

\* db_client_delete: this client is not waited for.
LEMMA DeleteLessens ==
  ASSUME TypeOK, NEW c, db_client_delete(c), UNCHANGED <<transfers, numbered>>
  PROVE  Lessens /\ \A t : ~Waits(t, c)'
<1>1. Lessens
  BY DEF Lessens, db_client_delete
<1>2. \A w \in transfer_clients' : w.client_id # c
  BY DEF db_client_delete
<1> QED BY <1>1, <1>2 DEF Waits

\* db_client_accept: an answer that is recorded is not waited for.
LEMMA AcceptLessens ==
  ASSUME TypeOK, NEW t, NEW c, NEW answer \in {0, 1}, db_client_accept(t, c, answer),
         UNCHANGED <<transfers, numbered>>
  PROVE  Lessens /\ ~Waits(t, c)'
<1>1. ASSUME NEW w \in transfer_clients'
      PROVE  \E u \in transfer_clients : u.transfer_id = w.transfer_id /\ (w.accepted = -1 => w = u)
  <2>1. PICK u \in transfer_clients :
          w = IF u.transfer_id = t /\ u.client_id = c THEN [u EXCEPT !.accepted = answer] ELSE u
    BY DEF db_client_accept
  <2>2. u \in ClientTable
    BY DEF TypeOK, ClientTable
  <2> QED BY <2>1, <2>2 DEF ClientTable
<1>2. Lessens
  BY <1>1 DEF Lessens
<1>3. ASSUME Waits(t, c)' PROVE FALSE
  <2>1. PICK u \in transfer_clients :
          [transfer_id |-> t, client_id |-> c, accepted |-> -1] =
            IF u.transfer_id = t /\ u.client_id = c THEN [u EXCEPT !.accepted = answer] ELSE u
    BY <1>3 DEF db_client_accept, Waits
  <2>2. u \in ClientTable
    BY DEF TypeOK, ClientTable
  <2> QED BY <2>1, <2>2 DEF ClientTable
<1> QED BY <1>2, <1>3

\* A new transfer.
LEMMA CreateStep ==
  ASSUME FreshNumbers, TypeOK, KnownRows, NEW t \in Transfer_ID, NewNumber(t), NEW x, NEW to,
         db_create(t, x, to)
  PROVE  /\ TableStep /\ t = numbered + 1 /\ numbered' = t
         /\ \A c : Waits(t, c)' => c \in to
<1>1. t = numbered + 1 /\ numbered \in Nat /\ t >= 1
  BY ManagerAssumption DEF NewNumber, TypeOK, Transfer_ID
<1>2. numbered' = t
  BY <1>1 DEF db_create
<1>3. /\ \A v \in transfers' : v \in transfers \/ v.transfer_id = t
      /\ \A w \in transfer_clients' :
            w \in transfer_clients \/ (w.transfer_id = t /\ w.client_id \in to)
  BY DEF db_create
<1>4. KnownRows'
  BY <1>1, <1>2, <1>3, TypesOf DEF KnownRows
<1>5. NewWaits
  BY <1>1, <1>2, <1>3 DEF NewWaits, Waits
<1>6. ASSUME NEW c, Waits(t, c)' PROVE c \in to
  <2>1. ~Waits(t, c)
    BY <1>1 DEF KnownRows, Waits
  <2> QED BY <1>3, <1>6, <2>1 DEF Waits
<1> QED BY <1>1, <1>2, <1>4, <1>5, <1>6 DEF TableStep

\* A step that sends this client nothing.
LEMMA NoneArrive ==
  ASSUME Inbox, inbox' = inbox \/ inbox' = << >> \/ (inbox # << >> /\ inbox' = Tail(inbox))
  PROVE  Arrivals
<1>1. CASE inbox # << >> /\ inbox' = Tail(inbox)
  <2>1. \A k \in DOMAIN inbox' : k + 1 \in DOMAIN inbox /\ inbox'[k] = inbox[k + 1]
    BY <1>1 DEF Inbox
  <2> QED BY <2>1 DEF Arrivals, In
<1>2. CASE inbox' = inbox \/ inbox' = << >>
  BY <1>2 DEF Arrivals, In
<1> QED BY <1>1, <1>2

\* A step that sends it one packet.
LEMMA OneArrives ==
  ASSUME Inbox, NEW q \in Packet, inbox' = Append(inbox, q), Arrived(q)
  PROVE  Arrivals
<1>1. \A k \in DOMAIN inbox' : (k \in DOMAIN inbox /\ inbox'[k] = inbox[k]) \/ inbox'[k] = q
  BY DEF Inbox
<1> QED BY <1>1 DEF Arrivals, In

\* A step that sends it two runs of packets (close_client).
LEMMA TwoArrive ==
  ASSUME Inbox, NEW x \in Seq(Packet), NEW y \in Seq(Packet), inbox' = inbox \o x \o y,
         \A k \in DOMAIN x : Arrived(x[k]), \A k \in DOMAIN y : Arrived(y[k])
  PROVE  Arrivals
<1>1. ASSUME NEW k \in DOMAIN inbox'
      PROVE  \/ k \in DOMAIN inbox /\ inbox'[k] = inbox[k]
             \/ k - Len(inbox) \in DOMAIN x /\ inbox'[k] = x[k - Len(inbox)]
             \/ /\ k - Len(inbox) - Len(x) \in DOMAIN y
                /\ inbox'[k] = y[k - Len(inbox) - Len(x)]
  BY DEF Inbox
<1> QED BY <1>1 DEF Arrivals, In

\* What this client does.
LEMMA OwnEnd == ASSUME TypeOK, KnownRows, ClientEnds PROVE TableStep /\ Arrivals
<1>1. Lessens
  BY DEF ClientEnds, Lessens, peers
<1>2. Inbox /\ inbox' = << >>
  BY DEF TypeOK, Inbox, ClientEnds
<1> QED BY <1>1, <1>2, LessensShows, NoneArrive

\* packet_transfer: VALID names all the recipients.
LEMMA OwnRequest ==
  ASSUME FreshNumbers, TypeOK, KnownRows, NEW i \in Rows, send_request(i)
  PROVE  TableStep /\ Arrivals
<1> DEFINE l == host[i].local_id
           to == host[i].to
           P(type, t) == [type |-> type, t_id |-> t, local_id |-> l, to |-> to]
<1>1. Inbox /\ l \in Nat /\ to \in SUBSET Others /\ packet_transfer(l, to)
  BY DEF TypeOK, Inbox, HostRow, send_request
<1>2. \A type \in {"VALID", "INVALID"}, t \in Transfer_ID : P(type, t) \in Packet
  BY <1>1 DEF Packet
<1>3. 0 \in Transfer_ID
  BY ManagerAssumption DEF Transfer_ID
<1>4. CASE inbox' = Append(inbox, P("INVALID", 0)) /\ UNCHANGED <<db, unanswered, sent, numbered>>
  <2>1. TableStep
    BY <1>4, SameTables, LessensShows DEF db
  <2>2. Arrived(P("INVALID", 0))
    BY <1>4, TypesOf DEF Arrived
  <2> QED BY <1>1, <1>2, <1>3, <1>4, <2>1, <2>2, OneArrives
<1>5. ASSUME NEW t \in Transfer_ID, NewNumber(t), db_create(t, Me, to),
             inbox' = Append(inbox, P("VALID", t))
      PROVE  TableStep /\ Arrivals
  <2>1. /\ TableStep /\ t = numbered + 1 /\ numbered' = t
        /\ \A c : Waits(t, c)' => c \in to
    BY <1>5, CreateStep
  <2>2. Arrived(P("VALID", t))
    BY <2>1, TypesOf DEF Arrived
  <2> QED BY <1>1, <1>2, <1>5, <2>1, <2>2, OneArrives
<1> QED BY <1>1, <1>4, <1>5 DEF packet_transfer

\* packet_cancel.
LEMMA OwnCancel ==
  ASSUME TypeOK, KnownRows, NEW t, packet_cancel(t), UNCHANGED numbered
  PROVE  TableStep /\ Arrivals
<1>1. Lessens
  BY CleanLessens, DeleteLessens, SameTables DEF packet_cancel
<1>2. Inbox /\ inbox' = inbox
  BY DEF TypeOK, Inbox, packet_cancel
<1> QED BY <1>1, <1>2, LessensShows, NoneArrive

\* packet_data and packet_complete of this client.
LEMMA OwnData ==
  ASSUME TypeOK, KnownRows, NEW i \in Rows, send_data(i)
  PROVE  TableStep /\ Arrivals
<1>1. CASE send_cancel_host(i)
  BY <1>1, OwnCancel DEF send_cancel_host, peers
<1>2. CASE ~send_cancel_host(i)
  <2>1. UNCHANGED <<inbox, numbered>>
        /\ (UNCHANGED <<transfers, transfer_clients>> \/ db_cleanup_transfer({host[i].t_id}))
    BY <1>2 DEF send_data, db, peers
  <2> QED BY <2>1, CleanLessens, SameTables, LessensShows, NoneArrive DEF TypeOK, Inbox
<1> QED BY <1>1, <1>2

\* What do_work makes the server do.
LEMMA OwnWork ==
  ASSUME FreshNumbers, TypeOK, KnownRows, do_work PROVE TableStep /\ Arrivals
<1>1. Inbox
  BY DEF TypeOK, Inbox
<1>2. CASE HostWork # {}
  <2> DEFINE i == First(HostWork)
  <2>1. i \in Rows
    BY <1>2, FirstIn DEF HostWork
  <2>2. send_data(i) \/ send_cancel_host(i) \/ send_request(i)
    BY <1>2 DEF do_work
  <2> HIDE DEF i
  <2> QED BY <2>1, <2>2, OwnData, OwnRequest, OwnCancel DEF send_cancel_host, peers
<1>3. CASE HostWork = {} /\ RecvWork # {}
  <2> DEFINE i == First(RecvWork)
  <2>1. send_cancel_recv(i) \/ send_recv_request_reply(i)
    BY <1>3 DEF do_work
  <2> HIDE DEF i
  <2>2. CASE send_cancel_recv(i)
    BY <2>2, OwnCancel DEF send_cancel_recv, peers
  <2>3. CASE send_recv_request_reply(i)
    BY <1>1, <2>3, AcceptLessens, LessensShows, NoneArrive DEF send_recv_request_reply, peers
  <2> QED BY <2>1, <2>2, <2>3
<1>4. CASE HostWork = {} /\ RecvWork = {}
  <2>1. UNCHANGED <<inbox, db, peers>>
    BY <1>4 DEF do_work
  <2> QED BY <1>1, <2>1, SameTables, LessensShows, NoneArrive DEF db, peers
<1> QED BY <1>2, <1>3, <1>4

\* Reading makes the server do nothing.
LEMMA OwnAnalize == ASSUME TypeOK, KnownRows, analize PROVE TableStep /\ Arrivals
<1>1. CASE ClientEnds
  BY <1>1, OwnEnd
<1>2. CASE ~ClientEnds
  <2>1. inbox # << >> /\ inbox' = Tail(inbox) /\ UNCHANGED <<db, peers>>
    BY <1>2 DEF analize
  <2> QED BY <2>1, SameTables, LessensShows, NoneArrive DEF TypeOK, Inbox, db, peers
<1> QED BY <1>1, <1>2

\* Nor does the GUI, but for the end of the client.
LEMMA OwnGUI == ASSUME TypeOK, KnownRows, GUI PROVE TableStep /\ Arrivals
<1>1. ClientEnds \/ UNCHANGED <<inbox, db, peers>>
  <2>1. ASSUME NEW array, NEW i, NEW button, render(array, i, button) \/ click(array, i, button)
        PROVE  ClientEnds \/ UNCHANGED <<inbox, db, peers>>
    BY <2>1, Zenon DEF render, click
  <2>2. ASSUME NEW size, NEW to, transfer(size, to)
        PROVE  ClientEnds \/ UNCHANGED <<inbox, db, peers>>
    BY <2>2, Zenon DEF transfer
  <2> QED BY <2>1, <2>2, Zenon DEF GUI
<1>2. CASE UNCHANGED <<inbox, db, peers>>
  BY <1>2, SameTables, LessensShows, NoneArrive DEF TypeOK, Inbox, db, peers
<1> QED BY <1>1, <1>2, OwnEnd

\* What the others do.
LEMMA PeersArrive ==
  ASSUME FreshNumbers, TypeOK, KnownRows, Peers \/ Hosts PROVE TableStep /\ Arrivals
<1>0. Inbox /\ Me \in Clients /\ transfers \subseteq TransferTable /\ transfer_clients \subseteq ClientTable
  BY DEF TypeOK, Inbox, Clients, TransferTable, ClientTable
<1>1. ASSUME NEW p \in Others, peer_request(p) PROVE TableStep /\ Arrivals
  <2>1. PICK t \in Transfer_ID :
          /\ NewNumber(t) /\ db_create(t, p, {Me})
          /\ inbox' = Append(inbox, [type |-> "REQUEST", t_id |-> t, from |-> p])
    BY <1>1 DEF peer_request
  <2>2. TableStep /\ t = numbered + 1 /\ numbered' = t
    BY <2>1, CreateStep
  <2>3. [type |-> "REQUEST", t_id |-> t, from |-> p] \in Packet
    BY DEF Packet, Clients
  <2>4. Arrived([type |-> "REQUEST", t_id |-> t, from |-> p])
    BY <2>2, TypesOf DEF Arrived
  <2> QED BY <1>0, <2>1, <2>2, <2>3, <2>4, OneArrives
<1>2. ASSUME NEW p \in Others, NEW t \in Transfer_ID, NEW accept \in BOOLEAN,
             peer_reply(t, p, accept)
      PROVE  TableStep /\ Arrivals
  <2> DEFINE q == [type |-> "REPLY", t_id |-> t, from |-> p, accept |-> accept]
  <2>1. Lessens /\ ~Waits(t, p)'
    BY <1>2, AcceptLessens DEF peer_reply
  <2>2. q \in Packet
    BY DEF Packet, Clients
  <2>3. CASE t \in Created(Me)
    <3>1. t <= numbered'
      BY <2>1, <2>3 DEF Created, KnownRows, Lessens
    <3>2. Arrived(q)
      BY <2>1, <3>1 DEF Arrived
    <3> QED BY <1>0, <1>2, <2>1, <2>2, <2>3, <3>2, LessensShows, OneArrives DEF peer_reply
  <2>4. CASE t \notin Created(Me)
    BY <1>0, <1>2, <2>1, <2>4, LessensShows, NoneArrive DEF peer_reply
  <2> QED BY <2>3, <2>4
<1>3. ASSUME NEW p \in Others, NEW t \in Transfer_ID,
             peer_cancel_host(t, p) \/ peer_cancel_recv(t, p)
      PROVE  TableStep /\ Arrivals
  <2>1. Lessens /\ ~Waits(t, p)'
    BY <1>3, CleanLessens, DeleteLessens DEF peer_cancel_host, peer_cancel_recv, peers
  <2>2. 1 <= t /\ t <= numbered' /\ t # 0
    <3>1. 1 <= t /\ t <= numbered
      BY <1>3 DEF peer_cancel_host, peer_cancel_recv, Created, KnownRows
    <3> QED BY <2>1, <3>1, TypesOf DEF Lessens
  <2>3. Cancelled(t, p) \in Packet
    BY DEF Cancelled, Packet, Clients
  <2>4. Arrived(Cancelled(t, p))
    BY <2>1, <2>2 DEF Arrived, Cancelled
  <2>5. inbox' = inbox \/ inbox' = Append(inbox, Cancelled(t, p))
    BY <1>3 DEF peer_cancel_host, peer_cancel_recv
  <2> QED BY <1>0, <2>1, <2>3, <2>4, <2>5, LessensShows, NoneArrive, OneArrives
<1>4. ASSUME NEW t \in Transfer_ID, peer_data(t) \/ peer_complete(t) PROVE TableStep /\ Arrivals
  <2>1. PICK type \in {"DATA", "COMPLETE"} : inbox' = Append(inbox, [type |-> type, t_id |-> t])
    BY <1>4 DEF peer_data, peer_complete
  <2>2. Lessens
    BY <1>4, SameTables, CleanLessens DEF peer_data, peer_complete, db, peers
  <2>3. t <= numbered'
    <3>1. Accepted(t)
      BY <1>4 DEF peer_data, peer_complete
    <3> QED BY <2>2, <3>1 DEF Accepted, MyRow, KnownRows, Lessens
  <2>4. [type |-> type, t_id |-> t] \in Packet
    BY DEF Packet
  <2>5. Arrived([type |-> type, t_id |-> t])
    BY <2>3 DEF Arrived
  <2> QED BY <1>0, <2>1, <2>2, <2>4, <2>5, LessensShows, OneArrives
<1>5. ASSUME NEW p \in Others, close_client(p) PROVE TableStep /\ Arrivals
  <2> DEFINE received == {w.transfer_id : w \in {v \in transfer_clients : v.client_id = p}}
             News(q) == [k \in DOMAIN q |-> Cancelled(q[k], p)]
  <2>1. Lessens /\ \A t : ~Waits(t, p)'
    <3>1. Lessens
      BY <1>5 DEF close_client, Lessens
    <3>2. \A w \in transfer_clients' : w.client_id # p
      BY <1>5 DEF close_client
    <3> QED BY <3>1, <3>2 DEF Waits
  <2>2. /\ ToldOfCancel(Created(p)) \subseteq Transfer_ID \ {0}
        /\ received \subseteq Transfer_ID \ {0}
        /\ \A t \in ToldOfCancel(Created(p)) \cup received : t # 0 /\ t <= numbered'
    <3>1. ToldOfCancel(Created(p)) \subseteq Transfer_ID /\ received \subseteq Transfer_ID
      BY <1>0 DEF ToldOfCancel, Created, TransferTable, ClientTable
    <3>2. \A t \in ToldOfCancel(Created(p)) \cup received : 1 <= t /\ t <= numbered'
      BY <2>1 DEF ToldOfCancel, Created, KnownRows, Lessens
    <3> QED BY <3>1, <3>2 DEF Transfer_ID
  <2>3. PICK a \in Ordered(ToldOfCancel(Created(p))), b \in Ordered(received) :
          inbox' = inbox \o News(a) \o News(b)
    BY <1>5 DEF close_client
  <2>4. News(a) \in Seq(Packet) /\ News(b) \in Seq(Packet)
    BY <2>2, CancelSeq
  <2>5. \A t \in ToldOfCancel(Created(p)) \cup received : Arrived(Cancelled(t, p))
    BY <2>1, <2>2 DEF Arrived, Cancelled
  <2>6. /\ \A k \in DOMAIN a : a[k] \in ToldOfCancel(Created(p))
        /\ \A k \in DOMAIN b : b[k] \in received
    BY DEF Ordered
  <2>7. /\ \A k \in DOMAIN News(a) : Arrived(News(a)[k])
        /\ \A k \in DOMAIN News(b) : Arrived(News(b)[k])
    <3> HIDE DEF received
    <3> QED BY <2>5, <2>6
  <2> HIDE DEF News, received
  <2> QED BY <1>0, <2>1, <2>3, <2>4, <2>7, LessensShows, TwoArrive
<1> QED BY <1>1, <1>2, <1>3, <1>4, <1>5 DEF Peers, Hosts

\* Every step.
LEMMA AnswerSteps ==
  ASSUME FreshNumbers, TypeOK, KnownRows, [Next]_vars PROVE TableStep /\ Arrivals
<1>1. CASE UNCHANGED <<inbox, db, peers>>
  BY <1>1, SameTables, LessensShows, NoneArrive DEF TypeOK, Inbox, db, peers
<1>2. process_cmds \/ wait_work \/ next_round \/ UNCHANGED vars => UNCHANGED <<inbox, db, peers>>
  BY DEF process_cmds, wait_work, next_round, vars, db, peers
<1> QED BY <1>1, <1>2, OwnGUI, OwnWork, OwnAnalize, PeersArrive DEF Next, Network

-----------------------------------------------------------------------------
(* A host begins when all have answered.                                   *)

\* Of the row of a transfer that is numbered: whom the server still waits for
\* is a recipient whose answer is missing; of one that is being sent, none is.
AnswersIn(r) ==
    /\ r.t_id <= numbered
    /\ r.state \in Unset => r.accept_list = NoAnswers /\ r.t_id = 0
    /\ r.state \in {"PENDING", "ACTIVE"} =>
          \A c \in Clients : Waits(r.t_id, c) => c \in r.to /\ r.accept_list[c] = "EMPTY"
    /\ r.state = "ACTIVE" => \A c \in r.to : r.accept_list[c] # "EMPTY"

\* Of a packet: VALID names all that are waited for, an answer is in the table.
Truthful(p) ==
    /\ p.t_id <= numbered
    /\ p.type = "VALID" => \A c \in Clients : Waits(p.t_id, c) => c \in p.to
    /\ p.type \in {"REPLY", "CANCEL"} => ~Waits(p.t_id, p.from)
    /\ p.type = "CANCEL" => p.t_id # 0

AnswersInv == /\ KnownRows
              /\ \A i \in Rows : AnswersIn(host[i])
              /\ \A k \in DOMAIN inbox : Truthful(inbox[k])

\* No transfer and no packet, at first.
LEMMA AnswersInit == Init => AnswersInv
<1> SUFFICES ASSUME Init PROVE AnswersInv
  OBVIOUS
<1>1. AnswersIn(NewHost)
  BY DEF Init, AnswersIn, NewHost, NoAnswers
<1> QED BY <1>1 DEF Init, AnswersInv, KnownRows

\* A packet that is still to be read keeps its truth, one that comes has it.
LEMMA StaysTruthful ==
  ASSUME TypeOK, TypeOK', TableStep, AnswersInv, Arrivals, NEW p, In(p)'
  PROVE  Truthful(p)'
<1>2. In(p) => Truthful(p)
  BY DEF In, AnswersInv
<1>3. numbered \in Nat /\ numbered' \in Nat /\ p \in Packet
  BY DEF TypeOK, Transfer_ID, In
<1>4. p.t_id \in Nat
  BY <1>3 DEF Packet, Transfer_ID
<1>5. CASE Truthful(p)
  <2>1. \A c : Waits(p.t_id, c)' => Waits(p.t_id, c)
    BY <1>3, <1>4, <1>5 DEF Truthful, TableStep, NewWaits
  <2> QED BY <1>3, <1>4, <1>5, <2>1 DEF Truthful, TableStep
<1>6. CASE Arrived(p)
  BY <1>6 DEF Arrived, Truthful
<1> QED BY <1>2, <1>5, <1>6 DEF Arrivals

\* A row, whatever the step does to it.
LEMMA StaysAnswered ==
  ASSUME TypeOK, TypeOK', TableStep, AnswersInv, NEW i \in Rows,
         NEW r, NEW s, r = host[i], s = host'[i], HostStep(r, s)
  PROVE  AnswersIn(s)'
<1>1. r \in HostRow /\ s \in HostRow /\ AnswersIn(r) /\ r.t_id \in Nat
  <2>1. r \in HostRow /\ s \in HostRow
    BY DEF TypeOK
  <2>2. r.t_id \in Nat
    BY <2>1 DEF HostRow, Transfer_ID
  <2> QED BY <2>1, <2>2 DEF AnswersInv
<1>2. numbered \in Nat /\ numbered' \in Nat /\ numbered <= numbered'
  BY DEF TypeOK, Transfer_ID, TableStep
<1>3. \A t \in Nat : t <= numbered => \A c : Waits(t, c)' => Waits(t, c)
  BY <1>2 DEF TableStep, NewWaits
<1>4. inbox # << >> => /\ Truthful(inbox[1]) /\ inbox[1].t_id \in Nat
                       /\ (inbox[1].type = "VALID" => inbox[1].to \in SUBSET Others)
  <2> SUFFICES ASSUME inbox # << >> PROVE /\ Truthful(inbox[1]) /\ inbox[1].t_id \in Nat
                       /\ (inbox[1].type = "VALID" => inbox[1].to \in SUBSET Others)
    OBVIOUS
  <2>1. 1 \in DOMAIN inbox /\ inbox[1] \in Packet
    BY DEF TypeOK
  <2> QED BY <2>1 DEF AnswersInv, Packet, Transfer_ID
<1>5. PICK p : p = inbox[1]
  OBVIOUS
<1>6. CASE s = r
  BY <1>1, <1>2, <1>3, <1>6 DEF AnswersIn
<1>7. CASE Vacant(s)
  BY <1>2, <1>7 DEF Vacant, AnswersIn, Unset
<1>8. CASE Asks(r, s)
  BY <1>1, <1>2, <1>8 DEF Asks, AnswersIn, Unset
<1>9. CASE Begins(r, s)
  <2>1. /\ p.type = "VALID" /\ r.accept_list = NoAnswers /\ s.state = "PENDING"
        /\ s.t_id = p.t_id /\ s.to = p.to /\ s.accept_list = NoAnswers
    BY <1>1, <1>5, <1>9 DEF Begins, AnswersIn, Unset
  <2>2. Truthful(p) /\ p.t_id \in Nat /\ p.to \in SUBSET Others
    BY <1>4, <1>5, <1>9, <2>1 DEF Begins
  <2>3. \A c \in Clients : Waits(p.t_id, c)' => c \in p.to /\ NoAnswers[c] = "EMPTY"
    BY <1>3, <2>1, <2>2 DEF Truthful, NoAnswers
  <2> QED BY <1>2, <2>1, <2>2, <2>3 DEF AnswersIn, Truthful, Unset
<1>10. CASE Hears(r, s)
  <2>1. PICK reply \in BOOLEAN : s = set_request(r, p.from, reply)
    BY <1>5, <1>10 DEF Hears
  <2>2. /\ p.type \in {"REPLY", "CANCEL"} /\ p.t_id = r.t_id /\ r.state \in {"PENDING", "ACTIVE"}
        /\ ~Waits(r.t_id, p.from)
    <3>1. p.type \in {"REPLY", "CANCEL"} /\ p.t_id = r.t_id /\ Truthful(p)
      BY <1>4, <1>5, <1>10 DEF Hears
    <3>2. r.state = "GET_RESPONSE" /\ p.type = "CANCEL" => FALSE
      BY <1>1, <3>1 DEF Truthful, AnswersIn, Unset
    <3> QED BY <1>5, <1>10, <3>1, <3>2 DEF Hears, Truthful
  <2> DEFINE list == IF p.from \in r.to
                     THEN [r.accept_list EXCEPT ![p.from] = IF reply THEN "ACCEPT" ELSE "DENY"]
                     ELSE r.accept_list
             answers == {list[c] : c \in r.to}
             st == CASE answers \subseteq {"DENY"} -> "CANCEL"
                     [] "EMPTY" \notin answers /\ "ACCEPT" \in answers -> "ACTIVE"
                     [] OTHER -> r.state
  <2>3. s.t_id = r.t_id /\ s.to = r.to /\ s.accept_list = list /\ s.state = st
    BY <1>1, <2>1 DEF set_request, HostRow
  <2>4. \A c \in r.to : (c # p.from => list[c] = r.accept_list[c]) /\ (c = p.from => list[c] # "EMPTY")
    BY <1>1 DEF HostRow
  <2>5. \A c \in Clients : Waits(r.t_id, c)' => c \in r.to /\ list[c] = "EMPTY"
    <3> HIDE DEF list
    <3> QED BY <1>1, <1>3, <2>2, <2>4 DEF AnswersIn
  <2>6. st = "ACTIVE" => \A c \in r.to : list[c] # "EMPTY"
    <3>1. ASSUME r.state = "ACTIVE" PROVE \A c \in r.to : list[c] # "EMPTY"
      <4> HIDE DEF list
      <4> QED BY <1>1, <2>4, <3>1 DEF AnswersIn
    <3>2. ASSUME "EMPTY" \notin answers PROVE \A c \in r.to : list[c] # "EMPTY"
      BY <3>2
    <3> HIDE DEF list, answers
    <3> QED BY <3>1, <3>2
  <2>7. st \in {"CANCEL", "ACTIVE", r.state}
    <3> HIDE DEF answers
    <3> QED OBVIOUS
  <2>8. s.state \notin Unset
    BY <2>2, <2>3, <2>7 DEF Unset
  <2> HIDE DEF list, answers, st
  <2> QED BY <1>1, <1>2, <2>2, <2>3, <2>5, <2>6, <2>8 DEF AnswersIn
<1>11. CASE GoesOn(r, s)
  BY <1>1, <1>2, <1>3, <1>11 DEF GoesOn, AnswersIn, Unset
<1>12. CASE Cancels(r, s)
  BY <1>1, <1>2, <1>12 DEF Cancels, AnswersIn, Unset
<1> QED BY <1>6, <1>7, <1>8, <1>9, <1>10, <1>11, <1>12 DEF HostStep

\* The invariant holds in every state.
LEMMA AnswersAlways == FreshNumbers => (Spec => [](TypeOK /\ AnswersInv))
<1> SUFFICES ASSUME FreshNumbers PROVE Spec => [](TypeOK /\ AnswersInv)
  OBVIOUS
<1>1. TypeOK /\ AnswersInv /\ [Next]_vars => (TypeOK /\ AnswersInv)'
  <2> SUFFICES ASSUME TypeOK, AnswersInv, [Next]_vars PROVE (TypeOK /\ AnswersInv)'
    OBVIOUS
  <2>1. TypeOK'
    BY StepType
  <2>2. TableStep /\ Arrivals
    BY AnswerSteps DEF AnswersInv
  <2>3. \A p : In(p)' => Truthful(p)'
    BY <2>1, <2>2, StaysTruthful
  <2>4. ASSUME NEW i \in Rows, NEW s, s = host'[i] PROVE AnswersIn(s)'
    <3>1. PICK r : r = host[i]
      OBVIOUS
    <3> QED BY <2>1, <2>2, <2>4, <3>1, HostRows, StaysAnswered
  <2> QED BY <2>1, <2>2, <2>3, <2>4 DEF AnswersInv, TableStep, In
<1> QED BY <1>1, InitType, AnswersInit, PTL DEF Spec

\* transfer_manager.hpp: set_request makes a row ACTIVE at the last answer, and a
\* file is begun and completed in that state only.  Whoever the server still
\* waits for then has no answer in the row, so there is nobody: no answer of an
\* earlier transfer is left in it, and none comes from a client that has not
\* given one.
THEOREM AnswersBeforeData == FreshNumbers => (Spec => DataAfterAllAnswered)
<1>1. ASSUME TypeOK, AnswersInv, NEW i \in Rows, host[i].state = "ACTIVE",
             NEW w \in transfer_clients, w.transfer_id = host[i].t_id
      PROVE  w.accepted # -1
  <2>1. w \in ClientTable /\ AnswersIn(host[i])
    BY <1>1 DEF TypeOK, ClientTable, AnswersInv
  <2>2. w.accepted = -1 => Waits(host[i].t_id, w.client_id)
    BY <1>1, <2>1 DEF ClientTable, Waits
  <2> QED BY <1>1, <2>1, <2>2 DEF AnswersIn, ClientTable
<1> DEFINE Answered ==
      \A i \in Rows :
        (alive' /\ host[i].state = "ACTIVE"
         /\ (host'[i].left # host[i].left \/ host[i].open # host'[i].open))
        => \A w \in transfer_clients : w.transfer_id = host[i].t_id => w.accepted # -1
<1>2. TypeOK /\ AnswersInv => Answered
  BY <1>1
<1> SUFFICES ASSUME FreshNumbers PROVE Spec => DataAfterAllAnswered
  OBVIOUS
<1>3. Spec => [](TypeOK /\ AnswersInv)
  BY AnswersAlways
<1> QED BY <1>2, <1>3, PTL DEF DataAfterAllAnswered

-----------------------------------------------------------------------------
(* How many packets of a type and a transfer wait to be read.              *)

At(q, type, t)   == {k \in DOMAIN q : q[k].type = type /\ q[k].t_id = t}
Many(q, type, t) == Cardinality(At(q, type, t))

\* 1 when p is such a packet.
Hit(p, type, t) == IF p.type = type /\ p.t_id = t THEN 1 ELSE 0

\* The count is a number, 0 when there is no such packet.
LEMMA AtFinite ==
  ASSUME NEW q \in Seq(Packet), NEW type, NEW t
  PROVE  /\ IsFiniteSet(At(q, type, t)) /\ Many(q, type, t) \in Nat
         /\ Many(q, type, t) = 0 <=> At(q, type, t) = {}
<1>1. At(q, type, t) \subseteq 1 .. Len(q) /\ Len(q) \in Nat
  BY DEF At
<1>2. IsFiniteSet(At(q, type, t))
  <2>1. IsFiniteSet(1 .. Len(q))
    BY <1>1, FS_Interval
  <2> QED BY <1>1, <2>1, FS_Subset
<1> QED BY <1>2, FS_CardinalityType, FS_EmptySet DEF Many

\* A packet that is sent adds to its own count.
LEMMA ManyMore ==
  ASSUME NEW q \in Seq(Packet), NEW p \in Packet, NEW type, NEW t
  PROVE  Many(Append(q, p), type, t) = Many(q, type, t) + Hit(p, type, t)
<1> DEFINE n == Len(q) + 1
<1>1. /\ DOMAIN Append(q, p) = DOMAIN q \cup {n} /\ n \notin DOMAIN q
      /\ Append(q, p)[n] = p /\ \A k \in DOMAIN q : Append(q, p)[k] = q[k]
  OBVIOUS
<1> HIDE DEF n
<1>2. CASE p.type = type /\ p.t_id = t
  <2>1. At(Append(q, p), type, t) = At(q, type, t) \cup {n} /\ n \notin At(q, type, t)
    BY <1>1, <1>2 DEF At
  <2>2. IsFiniteSet(At(q, type, t)) /\ Hit(p, type, t) = 1
    BY <1>2, AtFinite DEF Hit
  <2>3. Cardinality(At(q, type, t) \cup {n}) = Cardinality(At(q, type, t)) + 1
    BY <2>1, <2>2, FS_AddElement
  <2> QED BY <2>1, <2>2, <2>3 DEF Many
<1>3. CASE ~(p.type = type /\ p.t_id = t)
  <2>1. At(Append(q, p), type, t) = At(q, type, t)
    BY <1>1, <1>3 DEF At
  <2> QED BY <1>3, <2>1, AtFinite DEF Many, Hit
<1> QED BY <1>2, <1>3

\* A packet that is read is taken from its own count.
LEMMA ManyLess ==
  ASSUME NEW q \in Seq(Packet), q # << >>, NEW type, NEW t
  PROVE  Many(q, type, t) = Many(Tail(q), type, t) + Hit(q[1], type, t)
<1> DEFINE S == At(q, type, t) \ {1}
           T == At(Tail(q), type, t)
           f == [k \in S |-> k - 1]
<1>1. /\ DOMAIN q = 1 .. Len(q) /\ Len(q) \in Nat /\ 1 \in DOMAIN q
      /\ DOMAIN Tail(q) = 1 .. Len(q) - 1
      /\ \A k \in 1 .. Len(q) - 1 : Tail(q)[k] = q[k + 1]
  OBVIOUS
<1>2. \A k \in S : k \in Int /\ k - 1 \in T
  BY <1>1 DEF At
<1>3. \A k \in T : k \in Int /\ k + 1 \in S
  BY <1>1 DEF At
<1>4. f \in [S -> T] /\ \A k \in S : f[k] = k - 1
  BY <1>2
<1>5. \A j, k \in S : f[j] = f[k] => j = k
  BY <1>2, <1>4
<1>6. \A k \in T : \E j \in S : f[j] = k
  BY <1>3, <1>4
<1>7. ExistsBijection(S, T)
  <2> HIDE DEF f, S, T
  <2>1. f \in Injection(S, T)
    BY <1>4, <1>5, Fun_IsInj
  <2>2. f \in Surjection(S, T)
    BY <1>4, <1>6, Fun_IsSurj
  <2> QED BY <2>1, <2>2 DEF ExistsBijection, Bijection
<1>8. IsFiniteSet(S)
      /\ Cardinality(S) = IF 1 \in At(q, type, t) THEN Many(q, type, t) - 1 ELSE Many(q, type, t)
  BY AtFinite, FS_RemoveElement DEF Many
<1>9. Cardinality(T) = Cardinality(S)
  <2> HIDE DEF S, T
  <2> QED BY <1>7, <1>8, FS_Bijection
<1>10. 1 \in At(q, type, t) <=> Hit(q[1], type, t) = 1
  BY <1>1 DEF At, Hit
<1> HIDE DEF S, T, f
<1> QED BY <1>8, <1>9, <1>10, AtFinite DEF Many, Hit, T

\* Packets of another type change nothing.
LEMMA ManyOthers ==
  ASSUME NEW q \in Seq(Packet), NEW x \in Seq(Packet), NEW type, NEW t,
         \A k \in DOMAIN x : x[k].type # type
  PROVE  q \o x \in Seq(Packet) /\ Many(q \o x, type, t) = Many(q, type, t)
<1>1. /\ q \o x \in Seq(Packet)
      /\ \A k \in DOMAIN q : k \in DOMAIN (q \o x) /\ (q \o x)[k] = q[k]
      /\ \A k \in DOMAIN (q \o x) \ DOMAIN q :
            k - Len(q) \in DOMAIN x /\ (q \o x)[k] = x[k - Len(q)]
  OBVIOUS
<1>2. At(q \o x, type, t) = At(q, type, t)
  BY <1>1 DEF At
<1> QED BY <1>1, <1>2 DEF Many

-----------------------------------------------------------------------------
(* What is sent of a file, and what of it has been read.                   *)

Used(r)    == r.state # "EMPTY"
Waiting(r) == r.state \in {"GET_RESPONSE", "ACCEPT", "DENY"}

\* Nothing of transfer t has been sent, and this client has not accepted it.
Fresh(t) ==
    /\ Many(inbox, "DATA", t) = 0 /\ Many(inbox, "COMPLETE", t) = 0 /\ sent[t] = 0
    /\ \A w \in MyRow(t) : w.accepted = -1

\* Of what has been sent, n packets are written and the others are waiting.
Flowing(t, n) ==
    Accepted(t) \/ Many(inbox, "COMPLETE", t) # 0 => n + Many(inbox, "DATA", t) = sent[t]

FlowsIn(r) ==
    /\ r.t_id <= numbered
    /\ Used(r) => Many(inbox, "REQUEST", r.t_id) = 0
    /\ Waiting(r) => Fresh(r.t_id) /\ r.bytes = 0
    /\ r.state = "ACTIVE" => Flowing(r.t_id, r.bytes)

\* A transfer is asked for once, and has one row.
AskedOnce == \A t \in Transfer_ID : Many(inbox, "REQUEST", t) # 0 =>
                Many(inbox, "REQUEST", t) = 1 /\ Fresh(t)
Apart == \A i, j \in Rows : Used(recv[i]) /\ Used(recv[j]) /\ recv[i].t_id = recv[j].t_id => i = j

FlowInv == AskedOnce /\ Apart /\ \A i \in Rows : FlowsIn(recv[i])

\* A step that is not about transfer t.
Still(t) ==
    /\ \A type \in {"REQUEST", "DATA", "COMPLETE"} : Many(inbox, type, t)' = Many(inbox, type, t)
    /\ sent'[t] = sent[t] /\ MyRow(t)' \subseteq MyRow(t)

\* The row is left alone, emptied, cancelled or answered.
RowGoes(r, s) ==
    \/ s = r
    \/ ~Used(s) /\ s.t_id = 0
    \/ /\ s.t_id = r.t_id /\ s.bytes = r.bytes
       /\ \/ Used(r) /\ s.state = "CANCEL"
          \/ Waiting(r) /\ s.state \in {"ACCEPT", "DENY"}

\* No packet and no row, at first.
LEMMA FlowInit == Init => FlowInv
<1> SUFFICES ASSUME Init PROVE FlowInv
  OBVIOUS
<1>1. inbox \in Seq(Packet) /\ \A type, t : At(inbox, type, t) = {}
  BY DEF Init, At
<1>2. \A type, t : Many(inbox, type, t) = 0
  BY <1>1, AtFinite
<1>3. \A i \in Rows : FlowsIn(recv[i]) /\ ~Used(recv[i])
  BY DEF Init, FlowsIn, NewRecv, Used, Waiting
<1> QED BY <1>2, <1>3 DEF FlowInv, AskedOnce, Apart

\* What has been sent and written of such a transfer stays true.
LEMMA StillFlows ==
  ASSUME NEW t, Still(t)
  PROVE  /\ Fresh(t) => Fresh(t)'
         /\ \A n : Flowing(t, n) => Flowing(t, n)'
  BY DEF Still, Fresh, Flowing, Accepted

\* So does the invariant of a row of it.
LEMMA RowStill ==
  ASSUME TypeOK, TypeOK', numbered <= numbered', NEW r \in RecvRow, NEW s, FlowsIn(r), RowGoes(r, s),
         Used(s) => Still(r.t_id)
  PROVE  FlowsIn(s)'
<1>1. numbered \in Nat /\ numbered' \in Nat /\ r.t_id \in Nat
  BY DEF TypeOK, RecvRow, Transfer_ID
<1>2. CASE ~Used(s)
  BY <1>1, <1>2 DEF FlowsIn, RowGoes, Used, Waiting
<1>3. CASE Used(s)
  <2>1. Still(r.t_id) /\ Used(r) /\ s.t_id = r.t_id
    BY <1>3 DEF RowGoes, Used, Waiting
  <2>2. Many(inbox, "REQUEST", s.t_id)' = 0 /\ s.t_id <= numbered'
    BY <1>1, <2>1 DEF FlowsIn, Still
  <2>3. Waiting(s) => Waiting(r) /\ s.bytes = r.bytes
    BY DEF RowGoes, Waiting, Used
  <2>4. s.state = "ACTIVE" => s = r
    BY DEF RowGoes, Used
  <2>5. /\ Fresh(r.t_id) => Fresh(r.t_id)'
        /\ \A n : Flowing(r.t_id, n) => Flowing(r.t_id, n)'
    BY <2>1, StillFlows
  <2> QED BY <2>1, <2>2, <2>3, <2>4, <2>5 DEF FlowsIn
<1> QED BY <1>2, <1>3

\* Rows that do not begin stay apart.
LEMMA ApartStays ==
  ASSUME Apart, \A i \in Rows : Used(recv'[i]) => Used(recv[i]) /\ recv'[i].t_id = recv[i].t_id
  PROVE  Apart'
  BY DEF Apart, Used

\* Steps in which nothing is sent but new requests, and no row begins.
LEMMA CalmFlow ==
  ASSUME TypeOK, TypeOK', FlowInv, numbered <= numbered',
         \A i \in Rows : RowGoes(recv[i], recv'[i]),
         \A t \in Transfer_ID : t <= numbered => Still(t),
         \A t \in Transfer_ID : numbered < t /\ Many(inbox, "REQUEST", t)' # 0 =>
            Many(inbox, "REQUEST", t)' = 1 /\ Fresh(t)'
  PROVE  FlowInv'
<1>1. numbered \in Nat /\ \A i \in Rows : recv[i] \in RecvRow /\ recv[i].t_id \in Transfer_ID
  BY DEF TypeOK, RecvRow, Transfer_ID
<1>2. ASSUME NEW t \in Transfer_ID, Many(inbox, "REQUEST", t)' # 0
      PROVE  Many(inbox, "REQUEST", t)' = 1 /\ Fresh(t)'
  <2>1. CASE numbered < t
    BY <1>2, <2>1
  <2>2. CASE t <= numbered
    <3>1. Many(inbox, "REQUEST", t)' = Many(inbox, "REQUEST", t) /\ Still(t)
      BY <2>2 DEF Still
    <3> QED BY <1>2, <3>1, StillFlows DEF FlowInv, AskedOnce
  <2> QED BY <1>1, <2>1, <2>2 DEF Transfer_ID
<1>3. Apart'
  BY ApartStays DEF FlowInv, RowGoes, Used, Waiting
<1>4. ASSUME NEW i \in Rows, NEW s, s = recv'[i] PROVE FlowsIn(s)'
  <2>1. PICK r : r = recv[i]
    OBVIOUS
  <2>2. r \in RecvRow /\ FlowsIn(r) /\ RowGoes(r, s) /\ r.t_id \in Transfer_ID /\ r.t_id <= numbered
    BY <1>1, <1>4, <2>1 DEF FlowInv, FlowsIn
  <2> QED BY <2>2, RowStill
<1> QED BY <1>2, <1>3, <1>4 DEF FlowInv, AskedOnce

Flows == {"REQUEST", "DATA", "COMPLETE"}

\* A transfer without a number yet has no packet and no row.
LEMMA BeyondNone ==
  ASSUME TypeOK, AnswersInv, NEW t \in Transfer_ID, numbered < t
  PROVE  (\A type : Many(inbox, type, t) = 0) /\ MyRow(t) = {}
<1>1. inbox \in Seq(Packet) /\ numbered \in Nat /\ t \in Nat
  BY DEF TypeOK, Transfer_ID
<1>2. \A k \in DOMAIN inbox : inbox[k].t_id # t
  BY <1>1 DEF AnswersInv, Truthful
<1>3. \A type : At(inbox, type, t) = {}
  BY <1>2 DEF At
<1>4. \A w \in transfer_clients : w.transfer_id # t
  BY <1>1 DEF AnswersInv, KnownRows
<1> QED BY <1>1, <1>3, <1>4, AtFinite DEF MyRow

\* A step after which the same packets wait.
LEMMA QuietFlow ==
  ASSUME TypeOK, TypeOK', FlowInv, AnswersInv, numbered <= numbered',
         \A i \in Rows : RowGoes(recv[i], recv'[i]),
         \A type \in Flows, t \in Transfer_ID : Many(inbox, type, t)' = Many(inbox, type, t),
         \A t \in Transfer_ID : t <= numbered => sent'[t] = sent[t] /\ MyRow(t)' \subseteq MyRow(t)
  PROVE  FlowInv'
<1>1. \A t \in Transfer_ID : t <= numbered => Still(t)
  BY DEF Still, Flows
<1>2. \A t \in Transfer_ID : numbered < t => Many(inbox, "REQUEST", t)' = 0
  BY BeyondNone DEF Flows
<1> QED BY <1>1, <1>2, CalmFlow

\* The same packets.
LEMMA SameMany ==
  ASSUME inbox' = inbox
  PROVE  \A type \in Flows, t \in Transfer_ID : Many(inbox, type, t)' = Many(inbox, type, t)
  OBVIOUS

\* A packet more that is no request, data or end.
LEMMA OtherMany ==
  ASSUME TypeOK, NEW p \in Packet, p.type \notin Flows, inbox' = Append(inbox, p)
  PROVE  \A type \in Flows, t \in Transfer_ID : Many(inbox, type, t)' = Many(inbox, type, t)
<1> SUFFICES ASSUME NEW type \in Flows, NEW t \in Transfer_ID
             PROVE  Many(inbox, type, t)' = Many(inbox, type, t)
  OBVIOUS
<1>1. inbox \in Seq(Packet) /\ Hit(p, type, t) = 0
  BY DEF TypeOK, Hit
<1>2. Many(Append(inbox, p), type, t) = Many(inbox, type, t) + 0 /\ Many(inbox, type, t) \in Nat
  BY <1>1, ManyMore, AtFinite
<1> QED BY <1>2

\* Rows of the table that go are rows of this client that go.
LEMMA FewerRows ==
  ASSUME transfer_clients' \subseteq transfer_clients
  PROVE  \A t : MyRow(t)' \subseteq MyRow(t)
  BY DEF MyRow

\* When this client has ended nothing is in use and nothing waits.
LEMMA EndFlow == ASSUME TypeOK', ClientEnds PROVE FlowInv'
<1>1. inbox' \in Seq(Packet) /\ \A type, t : At(inbox', type, t) = {}
  BY DEF ClientEnds, At
<1>2. \A type, t : Many(inbox', type, t) = 0
  BY <1>1, AtFinite
<1>3. \A i \in Rows : recv'[i].state = "EMPTY" /\ recv'[i].t_id = 0
  BY DEF ClientEnds, NewRecv
<1>4. numbered' \in Nat
  BY DEF TypeOK, Transfer_ID
<1>5. ASSUME NEW i \in Rows, NEW s, s = recv'[i] PROVE FlowsIn(s)'
  BY <1>3, <1>4, <1>5 DEF FlowsIn, Used, Waiting
<1> QED BY <1>2, <1>3, <1>5 DEF FlowInv, AskedOnce, Apart, Used

\* process_cmds: an answer or a cancel waits for do_work.
LEMMA ProcessFlow ==
  ASSUME TypeOK, TypeOK', FlowInv, AnswersInv, process_cmds PROVE FlowInv'
<1> DEFINE cmd == Head(cmd_queue)
<1>1. UNCHANGED <<inbox, db, peers>>
  BY DEF process_cmds
<1>2. cmd_host_request(cmd) \/ cmd_recv_request_reply(cmd) \/ cmd_cancel(cmd)
  BY DEF process_cmds
<1>3. DOMAIN recv = Rows /\ \A j \in Rows : recv[j] \in RecvRow
  BY DEF TypeOK
<1>4. \A S \in SUBSET Rows : S # {} => First(S) \in S
  BY FirstIn
<1> HIDE DEF cmd
<1> DEFINE Goal == \A i \in Rows : RowGoes(recv[i], recv'[i])
<1>5. UNCHANGED recv => Goal
  BY <1>5 DEF RowGoes
<1>6. ASSUME cmd_recv_request_reply(cmd), ~UNCHANGED recv PROVE Goal
  <2> DEFINE asking == {i \in Rows : recv[i].state = "GET_RESPONSE" /\ recv[i].t_id = cmd.t_id}
             j == First(asking)
  <2>1. asking # {}
        /\ recv' = [recv EXCEPT ![j].state = IF cmd.reply THEN "ACCEPT" ELSE "DENY"]
    BY <1>6 DEF cmd_recv_request_reply
  <2>2. j \in asking
    BY <1>4, <2>1
  <2> HIDE DEF j
  <2> QED BY <1>3, <2>1, <2>2 DEF RowGoes, Waiting, RecvRow
<1>7. ASSUME cmd_cancel(cmd), ~UNCHANGED recv PROVE Goal
  <2> DEFINE r == Cancellable(recv, cmd.t_id)
             j == First(r)
  <2>1. r # {} /\ recv' = [recv EXCEPT ![j].state = "CANCEL"]
    BY <1>7 DEF cmd_cancel
  <2>2. j \in Rows /\ Used(recv[j])
    BY <1>4, <2>1 DEF Cancellable, Used
  <2> HIDE DEF j
  <2> QED BY <1>3, <2>1, <2>2 DEF RowGoes, RecvRow
<1>8. Goal
  BY <1>2, <1>5, <1>6, <1>7 DEF cmd_host_request, arrays, RowGoes
<1>9. numbered <= numbered'
  BY <1>1 DEF TypeOK, Transfer_ID, peers
<1> QED BY <1>1, <1>8, <1>9, SameMany, FewerRows, QuietFlow DEF db, peers

\* send_request: a new number.
LEMMA RequestFlow ==
  ASSUME FreshNumbers, TypeOK, TypeOK', FlowInv, AnswersInv, numbered <= numbered',
         NEW i \in Rows, send_request(i)
  PROVE  FlowInv'
<1> DEFINE l == host[i].local_id
           to == host[i].to
           P(type, t) == [type |-> type, t_id |-> t, local_id |-> l, to |-> to]
<1>1. l \in Nat /\ to \in SUBSET Others /\ packet_transfer(l, to) /\ UNCHANGED recv
  BY DEF TypeOK, HostRow, send_request
<1>2. \A type \in {"VALID", "INVALID"}, t \in Transfer_ID :
         P(type, t) \in Packet /\ P(type, t).type \notin Flows
  BY <1>1 DEF Packet, Flows
<1>3. 0 \in Transfer_ID
  BY ManagerAssumption DEF Transfer_ID
<1>4. \A k \in Rows : RowGoes(recv[k], recv'[k])
  BY <1>1 DEF RowGoes
<1> HIDE DEF l, to
<1>5. CASE inbox' = Append(inbox, P("INVALID", 0)) /\ UNCHANGED <<db, unanswered, sent, numbered>>
  <2>1. \A type \in Flows, t \in Transfer_ID : Many(inbox, type, t)' = Many(inbox, type, t)
    <3> HIDE DEF P
    <3> QED BY <1>2, <1>3, <1>5, OtherMany
  <2> QED BY <1>4, <1>5, <2>1, FewerRows, QuietFlow DEF db
<1>6. ASSUME NEW t \in Transfer_ID, NewNumber(t), db_create(t, Me, to),
             inbox' = Append(inbox, P("VALID", t))
      PROVE  FlowInv'
  <2>1. \A type \in Flows, u \in Transfer_ID : Many(inbox, type, u)' = Many(inbox, type, u)
    <3> HIDE DEF P
    <3> QED BY <1>2, <1>6, OtherMany
  <2>2. t = numbered + 1 /\ numbered \in Nat
    BY <1>6 DEF NewNumber, TypeOK, Transfer_ID
  <2>3. ASSUME NEW u \in Transfer_ID, u <= numbered
        PROVE  sent'[u] = sent[u] /\ MyRow(u)' \subseteq MyRow(u)
    <3>1. u # t
      BY <2>2, <2>3 DEF Transfer_ID
    <3> QED BY <1>6, <3>1 DEF db_create, MyRow, TypeOK
  <2> QED BY <1>4, <2>1, <2>3, QuietFlow
<1> QED BY <1>1, <1>5, <1>6 DEF packet_transfer

\* send_recv_request_reply: the row is ACTIVE when the answer is in the table.
LEMMA ReplyFlow ==
  ASSUME TypeOK, TypeOK', FlowInv, AnswersInv, numbered <= numbered',
         NEW i \in Rows, recv[i].state \in {"ACCEPT", "DENY"}, send_recv_request_reply(i)
  PROVE  FlowInv'
<1>0. PICK t0, v : /\ t0 = recv[i].t_id
                   /\ v = IF recv[i].state = "ACCEPT"
                          THEN [recv[i] EXCEPT !.state = "ACTIVE"] ELSE zero_recv(recv[i])
  OBVIOUS
<1>1. recv' = [recv EXCEPT ![i] = v] /\ UNCHANGED <<inbox, sent, numbered>>
  BY <1>0 DEF send_recv_request_reply, peers
<1>2. /\ recv[i] \in RecvRow /\ t0 \in Transfer_ID /\ DOMAIN recv = Rows
      /\ \A j \in Rows : recv[j] \in RecvRow
  BY <1>0 DEF TypeOK, RecvRow
<1>3. FlowsIn(recv[i]) /\ Used(recv[i]) /\ Waiting(recv[i])
  BY DEF FlowInv, Used, Waiting
<1>4. ASSUME NEW t, t # t0 PROVE Still(t)
  <2>1. \A w \in transfer_clients' : w \in transfer_clients \/ w.transfer_id = t0
    <3>1. ASSUME NEW u \in transfer_clients, NEW a \in {0, 1}
          PROVE  [u EXCEPT !.accepted = a].transfer_id = u.transfer_id
      <4>1. u \in ClientTable
        BY DEF TypeOK, ClientTable
      <4> QED BY <4>1 DEF ClientTable
    <3>2. PICK a \in {0, 1} : db_client_accept(t0, Me, a)
      BY <1>0 DEF send_recv_request_reply
    <3> QED BY <3>1, <3>2 DEF db_client_accept
  <2> QED BY <1>1, <1>4, <2>1 DEF Still, MyRow
<1>5. recv'[i] = v /\ \A j \in Rows \ {i} : recv'[j] = recv[j]
  BY <1>1, <1>2
<1>6. (v.state = "ACTIVE" /\ v.t_id = t0 /\ v.bytes = recv[i].bytes) \/ (~Used(v) /\ v.t_id = 0)
  BY <1>0, <1>2 DEF RecvRow, zero_recv, Used
<1>7. FlowsIn(v)'
  <2>1. CASE ~Used(v) /\ v.t_id = 0
    BY <2>1 DEF FlowsIn, Used, Waiting, TypeOK, Transfer_ID
  <2>2. CASE v.state = "ACTIVE" /\ v.t_id = t0 /\ v.bytes = recv[i].bytes
    <3>1. Fresh(t0) /\ recv[i].bytes = 0 /\ Many(inbox, "REQUEST", t0) = 0 /\ t0 <= numbered
      BY <1>0, <1>3 DEF FlowsIn
    <3>2. Many(inbox', "REQUEST", t0) = 0 /\ Flowing(t0, 0)'
      BY <1>1, <3>1 DEF Fresh, Flowing
    <3> QED BY <1>1, <2>2, <3>1, <3>2 DEF FlowsIn, Waiting, Used
  <2> QED BY <1>6, <2>1, <2>2
<1>8. Apart'
  BY <1>0, <1>3, <1>5, <1>6, ApartStays DEF FlowInv
<1>9. ASSUME NEW j \in Rows, NEW s, s = recv'[j] PROVE FlowsIn(s)'
  <2>1. CASE j = i
    BY <1>5, <1>7, <1>9, <2>1
  <2>2. CASE j # i
    <3>1. s = recv[j] /\ FlowsIn(s) /\ s \in RecvRow /\ RowGoes(s, s)
      BY <1>2, <1>5, <1>9, <2>2 DEF FlowInv, RowGoes
    <3>2. Used(s) => s.t_id # t0
      BY <1>0, <1>3, <2>2, <3>1 DEF FlowInv, Apart
    <3> QED BY <1>4, <3>1, <3>2, RowStill
  <2> QED BY <2>1, <2>2
<1>10. AskedOnce'
  <2> SUFFICES ASSUME NEW t \in Transfer_ID, Many(inbox, "REQUEST", t)' # 0
               PROVE  Many(inbox, "REQUEST", t)' = 1 /\ Fresh(t)'
    BY DEF AskedOnce
  <2>1. Many(inbox, "REQUEST", t) = 1 /\ Fresh(t)
    BY <1>1 DEF FlowInv, AskedOnce
  <2>2. t # t0
    BY <1>0, <1>3, <2>1 DEF FlowsIn
  <2> QED BY <1>1, <1>4, <2>1, <2>2, StillFlows
<1> QED BY <1>8, <1>9, <1>10 DEF FlowInv

\* do_work.
LEMMA WorkFlow ==
  ASSUME FreshNumbers, TypeOK, TypeOK', FlowInv, AnswersInv, numbered <= numbered', do_work
  PROVE  FlowInv'
<1>0. \A t : packet_cancel(t) => inbox' = inbox /\ transfer_clients' \subseteq transfer_clients
  BY DEF packet_cancel, db_cleanup_transfer, db_client_delete
<1>1. CASE HostWork # {}
  <2> DEFINE i == First(HostWork)
  <2>1. i \in Rows
    BY <1>1, FirstIn DEF HostWork
  <2>2. send_data(i) \/ send_cancel_host(i) \/ send_request(i)
    BY <1>1 DEF do_work
  <2> HIDE DEF i
  <2>3. CASE send_request(i)
    BY <2>1, <2>3, RequestFlow
  <2>4. CASE send_data(i) \/ send_cancel_host(i)
    <3>1. inbox' = inbox /\ transfer_clients' \subseteq transfer_clients /\ UNCHANGED <<recv, peers>>
      BY <1>0, <2>4 DEF send_data, send_cancel_host, db, db_cleanup_transfer
    <3>2. \A k \in Rows : RowGoes(recv[k], recv'[k])
      BY <3>1 DEF RowGoes
    <3> QED BY <3>1, <3>2, SameMany, FewerRows, QuietFlow DEF peers
  <2> QED BY <2>2, <2>3, <2>4
<1>2. CASE HostWork = {} /\ RecvWork # {}
  <2> DEFINE i == First(RecvWork)
  <2>1. i \in Rows /\ recv[i].state \in {"CANCEL", "ACCEPT", "DENY"}
    BY <1>2, FirstIn DEF RecvWork
  <2>2. send_cancel_recv(i) \/ (recv[i].state # "CANCEL" /\ send_recv_request_reply(i))
    BY <1>2 DEF do_work
  <2> HIDE DEF i
  <2>3. CASE send_cancel_recv(i)
    <3>1. inbox' = inbox /\ transfer_clients' \subseteq transfer_clients /\ UNCHANGED peers
          /\ recv' = [recv EXCEPT ![i] = zero_recv(recv[i])]
      BY <1>0, <2>3 DEF send_cancel_recv
    <3>2. ~Used(zero_recv(recv[i])) /\ zero_recv(recv[i]).t_id = 0
      BY <2>1 DEF TypeOK, RecvRow, zero_recv, Used
    <3>3. \A k \in Rows : RowGoes(recv[k], recv'[k])
      BY <2>1, <3>1, <3>2 DEF RowGoes, TypeOK
    <3> QED BY <3>1, <3>3, SameMany, FewerRows, QuietFlow DEF peers
  <2> QED BY <2>1, <2>2, <2>3, ReplyFlow
<1>3. CASE HostWork = {} /\ RecvWork = {}
  <2>1. UNCHANGED <<arrays, inbox, db, peers>>
    BY <1>3 DEF do_work
  <2>2. \A k \in Rows : RowGoes(recv[k], recv'[k])
    BY <2>1 DEF RowGoes, arrays
  <2> QED BY <2>1, <2>2, SameMany, FewerRows, QuietFlow DEF db, peers
<1> QED BY <1>1, <1>2, <1>3

\* A step about one transfer.
LEMMA OneFlow ==
  ASSUME TypeOK, TypeOK', FlowInv, numbered <= numbered', NEW t0, Apart',
         \A t \in Transfer_ID : t # t0 => Still(t),
         Many(inbox, "REQUEST", t0)' = 0,
         \A i \in Rows : \A s : s = recv'[i] =>
            (s = recv[i] /\ (Used(s) => s.t_id # t0)) \/ FlowsIn(s)'
  PROVE  FlowInv'
<1>1. AskedOnce'
  <2> SUFFICES ASSUME NEW t \in Transfer_ID, Many(inbox, "REQUEST", t)' # 0
               PROVE  Many(inbox, "REQUEST", t)' = 1 /\ Fresh(t)'
    BY DEF AskedOnce
  <2>1. Still(t)
    OBVIOUS
  <2>2. Many(inbox, "REQUEST", t) # 0
    BY <2>1 DEF Still
  <2> QED BY <2>1, <2>2, StillFlows DEF FlowInv, AskedOnce, Still
<1>2. ASSUME NEW i \in Rows, NEW s, s = recv'[i] PROVE FlowsIn(s)'
  <2> SUFFICES ASSUME s = recv[i], Used(s) => s.t_id # t0 PROVE FlowsIn(s)'
    BY <1>2
  <2>1. s \in RecvRow /\ FlowsIn(s) /\ RowGoes(s, s) /\ s.t_id \in Transfer_ID
    BY DEF TypeOK, FlowInv, RowGoes, RecvRow
  <2> QED BY <2>1, RowStill
<1> QED BY <1>1, <1>2 DEF FlowInv

\* packet_data and packet_complete of the host: one packet more.
LEMMA SentFlow ==
  ASSUME TypeOK, TypeOK', FlowInv, NEW t0 \in Transfer_ID, peer_data(t0) \/ peer_complete(t0)
  PROVE  FlowInv'
<1>1. PICK type \in {"DATA", "COMPLETE"} :
         /\ inbox' = Append(inbox, [type |-> type, t_id |-> t0])
         /\ (type = "DATA" /\ peer_data(t0)) \/ (type = "COMPLETE" /\ peer_complete(t0))
  BY DEF peer_data, peer_complete
<1>2. PICK p : p = [type |-> type, t_id |-> t0]
  OBVIOUS
<1>3. inbox \in Seq(Packet) /\ p \in Packet /\ inbox' = Append(inbox, p)
      /\ p.type = type /\ p.t_id = t0
  BY <1>1, <1>2 DEF TypeOK, Packet
<1>4. \A y, t : /\ Many(inbox', y, t) = Many(inbox, y, t) + Hit(p, y, t)
                /\ Many(inbox, y, t) \in Nat
  BY <1>3, ManyMore, AtFinite
<1>5. /\ Accepted(t0) /\ UNCHANGED <<recv, numbered>> /\ transfer_clients' \subseteq transfer_clients
      /\ numbered <= numbered' /\ DOMAIN sent = Transfer_ID
      /\ \A t \in Transfer_ID : sent[t] \in Nat
  <2>1. Accepted(t0) /\ UNCHANGED <<recv, numbered>>
    BY <1>1 DEF peer_data, peer_complete, local, arrays, peers
  <2>2. transfer_clients' \subseteq transfer_clients
    BY <1>1 DEF peer_data, peer_complete, db, db_cleanup_transfer
  <2>3. numbered \in Nat /\ DOMAIN sent = Transfer_ID /\ \A t \in Transfer_ID : sent[t] \in Nat
    BY DEF TypeOK, Transfer_ID
  <2> QED BY <2>1, <2>2, <2>3
<1>6. \A t \in Transfer_ID : t # t0 => sent'[t] = sent[t]
  BY <1>1, <1>5 DEF peer_data, peer_complete, peers
<1>7. ASSUME NEW t \in Transfer_ID, t # t0 PROVE Still(t)
  BY <1>3, <1>4, <1>5, <1>6, <1>7, FewerRows DEF Still, Hit
<1>8. ~Fresh(t0)
  BY <1>5 DEF Fresh, Accepted
<1>9. Many(inbox, "REQUEST", t0)' = 0
  BY <1>1, <1>3, <1>4, <1>8 DEF FlowInv, AskedOnce, Hit
<1>10. Apart'
  BY <1>5, ApartStays DEF FlowInv
<1>11. ASSUME NEW i \in Rows, NEW s, s = recv'[i], Used(s), s.t_id = t0 PROVE FlowsIn(s)'
  <2>1. s = recv[i] /\ FlowsIn(s) /\ s \in RecvRow /\ s.bytes \in Nat
    BY <1>5, <1>11, ManagerAssumption DEF FlowInv, TypeOK, RecvRow
  <2>2. ~Waiting(s)
    BY <1>8, <1>11, <2>1 DEF FlowsIn
  <2>3. s.state = "ACTIVE" => s.bytes + Many(inbox', "DATA", t0) = sent'[t0]
    <3> SUFFICES ASSUME s.state = "ACTIVE" PROVE s.bytes + Many(inbox', "DATA", t0) = sent'[t0]
      OBVIOUS
    <3>1. s.bytes + Many(inbox, "DATA", t0) = sent[t0]
      BY <1>5, <1>11, <2>1 DEF FlowsIn, Flowing
    <3>2. sent'[t0] = sent[t0] + Hit(p, "DATA", t0)
      BY <1>1, <1>3, <1>5 DEF peer_data, peer_complete, peers, Hit
    <3>3. Hit(p, "DATA", t0) \in Nat
      BY DEF Hit
    <3> QED BY <1>4, <1>5, <2>1, <3>1, <3>2, <3>3
  <2> QED BY <1>5, <1>9, <1>11, <2>1, <2>2, <2>3 DEF FlowsIn, Flowing
<1>12. \A i \in Rows : \A s : s = recv'[i] =>
          (s = recv[i] /\ (Used(s) => s.t_id # t0)) \/ FlowsIn(s)'
  BY <1>5, <1>11
<1> QED BY <1>5, <1>7, <1>9, <1>10, <1>12, OneFlow

\* What the others do.
LEMMA PeersFlow ==
  ASSUME FreshNumbers, TypeOK, TypeOK', FlowInv, AnswersInv, numbered <= numbered', Peers \/ Hosts
  PROVE  FlowInv'
<1>0. inbox \in Seq(Packet) /\ Me \in Clients /\ Me \notin Others
      /\ transfers \subseteq TransferTable /\ transfer_clients \subseteq ClientTable
  BY ManagerAssumption DEF TypeOK, Clients, TransferTable, ClientTable
<1>1. UNCHANGED recv
  BY DEF Peers, Hosts, peer_request, close_client, peer_reply, peer_cancel_host,
         peer_cancel_recv, peer_data, peer_complete, local, arrays
<1>2. \A i \in Rows : RowGoes(recv[i], recv'[i])
  BY <1>1 DEF RowGoes
<1>3. ASSUME NEW p \in Others, peer_request(p) PROVE FlowInv'
  <2>1. PICK t \in Transfer_ID :
          /\ NewNumber(t) /\ db_create(t, p, {Me})
          /\ inbox' = Append(inbox, [type |-> "REQUEST", t_id |-> t, from |-> p])
    BY <1>3 DEF peer_request
  <2>2. PICK q : q = [type |-> "REQUEST", t_id |-> t, from |-> p]
    OBVIOUS
  <2>3. q \in Packet /\ q.type = "REQUEST" /\ q.t_id = t /\ inbox' = Append(inbox, q)
    BY <2>1, <2>2 DEF Packet, Clients
  <2>4. t = numbered + 1 /\ numbered \in Nat /\ numbered < t
    BY <2>1 DEF NewNumber, TypeOK, Transfer_ID
  <2>5. \A y, u : /\ Many(inbox', y, u) = Many(inbox, y, u) + Hit(q, y, u)
                  /\ Many(inbox, y, u) \in Nat
    BY <1>0, <2>3, ManyMore, AtFinite
  <2>6. DOMAIN sent = Transfer_ID /\ sent' = [sent EXCEPT ![t] = 0]
        /\ \A w \in transfer_clients' : w \in transfer_clients \/ (w.transfer_id = t /\ w.accepted = -1)
    BY <2>1 DEF db_create, TypeOK
  <2>7. ASSUME NEW u \in Transfer_ID, u # t PROVE Still(u)
    BY <2>3, <2>5, <2>6, <2>7 DEF Still, Hit, MyRow
  <2>8. (\A type : Many(inbox, type, t) = 0) /\ MyRow(t) = {}
    BY <2>4, BeyondNone
  <2>9. Many(inbox, "REQUEST", t)' = 1 /\ Fresh(t)'
    BY <2>3, <2>5, <2>6, <2>8 DEF Fresh, Hit, MyRow
  <2>10. \A u \in Transfer_ID : u <= numbered => Still(u)
    BY <2>4, <2>7
  <2>11. ASSUME NEW u \in Transfer_ID, numbered < u, Many(inbox, "REQUEST", u)' # 0
         PROVE  Many(inbox, "REQUEST", u)' = 1 /\ Fresh(u)'
    <3>1. CASE u = t
      BY <2>9, <3>1
    <3>2. CASE u # t
      <4>1. Many(inbox, "REQUEST", u) = 0
        BY <2>11, BeyondNone
      <4> QED BY <2>7, <2>11, <3>2, <4>1 DEF Still
    <3> QED BY <3>1, <3>2
  <2> QED BY <1>2, <2>10, <2>11, CalmFlow
<1>4. ASSUME NEW p \in Others, NEW t \in Transfer_ID, NEW accept \in BOOLEAN,
             peer_reply(t, p, accept)
      PROVE  FlowInv'
  <2>1. \A u : MyRow(u)' \subseteq MyRow(u)
    <3>1. ASSUME NEW w \in transfer_clients', w.client_id = Me PROVE w \in transfer_clients
      <4>1. PICK v \in transfer_clients, a \in {0, 1} :
              w = IF v.transfer_id = t /\ v.client_id = p THEN [v EXCEPT !.accepted = a] ELSE v
        BY <1>4 DEF peer_reply, db_client_accept
      <4>2. v \in ClientTable
        BY <1>0
      <4> QED BY <1>0, <3>1, <4>1, <4>2 DEF ClientTable
    <3> QED BY <3>1 DEF MyRow
  <2>2. \A type \in Flows, u \in Transfer_ID : Many(inbox, type, u)' = Many(inbox, type, u)
    <3> DEFINE q == [type |-> "REPLY", t_id |-> t, from |-> p, accept |-> accept]
    <3>1. q \in Packet /\ q.type \notin Flows
      BY DEF Packet, Clients, Flows
    <3>2. inbox' = inbox \/ inbox' = Append(inbox, q)
      BY <1>4 DEF peer_reply
    <3> HIDE DEF q
    <3> QED BY <3>1, <3>2, SameMany, OtherMany
  <2> QED BY <1>2, <1>4, <2>1, <2>2, QuietFlow DEF peer_reply
<1>5. ASSUME NEW p \in Others, NEW t \in Transfer_ID,
             peer_cancel_host(t, p) \/ peer_cancel_recv(t, p)
      PROVE  FlowInv'
  <2>1. transfer_clients' \subseteq transfer_clients /\ sent' = sent
    BY <1>5 DEF peer_cancel_host, peer_cancel_recv, db_cleanup_transfer, db_client_delete, peers
  <2>2. Cancelled(t, p) \in Packet /\ Cancelled(t, p).type \notin Flows
    BY DEF Cancelled, Packet, Clients, Flows
  <2>3. inbox' = inbox \/ inbox' = Append(inbox, Cancelled(t, p))
    BY <1>5 DEF peer_cancel_host, peer_cancel_recv
  <2>4. \A type \in Flows, u \in Transfer_ID : Many(inbox, type, u)' = Many(inbox, type, u)
    BY <2>2, <2>3, SameMany, OtherMany
  <2> QED BY <1>2, <2>1, <2>4, FewerRows, QuietFlow
<1>6. ASSUME NEW p \in Others, close_client(p) PROVE FlowInv'
  <2> DEFINE received == {w.transfer_id : w \in {v \in transfer_clients : v.client_id = p}}
             News(q) == [k \in DOMAIN q |-> Cancelled(q[k], p)]
  <2>1. transfer_clients' \subseteq transfer_clients /\ sent' = sent
    BY <1>6 DEF close_client
  <2>2. ToldOfCancel(Created(p)) \subseteq Transfer_ID /\ received \subseteq Transfer_ID
    BY <1>0 DEF ToldOfCancel, Created, TransferTable, ClientTable
  <2>3. /\ ToldOfCancel(Created(p)) \subseteq Transfer_ID \ {0}
        /\ received \subseteq Transfer_ID \ {0}
    <3>1. 0 \notin ToldOfCancel(Created(p)) /\ 0 \notin received
      BY DEF ToldOfCancel, Created, AnswersInv, KnownRows
    <3> QED BY <2>2, <3>1
  <2>4. PICK a \in Ordered(ToldOfCancel(Created(p))), b \in Ordered(received) :
          inbox' = inbox \o News(a) \o News(b)
    BY <1>6 DEF close_client
  <2>5. News(a) \in Seq(Packet) /\ News(b) \in Seq(Packet)
    BY <2>3, CancelSeq
  <2>6. /\ \A k \in DOMAIN News(a) : News(a)[k].type = "CANCEL"
        /\ \A k \in DOMAIN News(b) : News(b)[k].type = "CANCEL"
    BY DEF Cancelled
  <2> HIDE DEF News, received
  <2>7. \A type \in Flows, u \in Transfer_ID : Many(inbox, type, u)' = Many(inbox, type, u)
    <3> SUFFICES ASSUME NEW type \in Flows, NEW u \in Transfer_ID
                 PROVE  Many(inbox', type, u) = Many(inbox, type, u)
      OBVIOUS
    <3>1. type # "CANCEL"
      BY DEF Flows
    <3>2. PICK x, y : x = News(a) /\ y = News(b)
      OBVIOUS
    <3>3. inbox \o x \in Seq(Packet) /\ Many(inbox \o x, type, u) = Many(inbox, type, u)
      BY <1>0, <2>5, <2>6, <3>1, <3>2, ManyOthers
    <3>4. PICK z : z = inbox \o x
      OBVIOUS
    <3>5. Many(z \o y, type, u) = Many(z, type, u)
      <4>1. z \in Seq(Packet) /\ y \in Seq(Packet) /\ \A k \in DOMAIN y : y[k].type # type
        BY <2>5, <2>6, <3>1, <3>2, <3>3, <3>4
      <4> QED BY ONLY <4>1, ManyOthers
    <3> QED BY <2>4, <3>2, <3>3, <3>4, <3>5
  <2> QED BY <1>2, <2>1, <2>7, FewerRows, QuietFlow
<1> QED BY <1>3, <1>4, <1>5, <1>6, SentFlow DEF Peers, Hosts

\* What this client reads.
LEMMA AnalizeFlow ==
  ASSUME TypeOK, TypeOK', FlowInv, AnswersInv, analize, ~ClientEnds
  PROVE  FlowInv'
<1>1. /\ inbox \in Seq(Packet) /\ inbox # << >> /\ inbox' = Tail(inbox)
      /\ inbox[1] = Head(inbox) /\ UNCHANGED <<db, peers>>
  <2>1. inbox # << >> /\ inbox' = Tail(inbox) /\ UNCHANGED <<db, peers>>
    BY DEF analize
  <2>2. inbox \in Seq(Packet)
    BY DEF TypeOK
  <2> QED BY <2>1, <2>2
<1>2. PICK p : p = inbox[1]
  OBVIOUS
<1>3. /\ p \in Packet /\ p.t_id \in Transfer_ID /\ p.t_id <= numbered
      /\ \/ p.type \in {"VALID", "INVALID", "REPLY"} /\ UNCHANGED recv
         \/ p.type = "CANCEL" /\ recv_cancel(p)
         \/ p.type = "DATA" /\ recv_data(p)
         \/ p.type = "COMPLETE" /\ recv_complete(p)
         \/ p.type = "REQUEST" /\ free_recv # {} /\ create_recv_request(p)
  <2>1. 1 \in DOMAIN inbox
    BY <1>1
  <2>2. p \in Packet /\ p.t_id <= numbered
    BY <1>1, <1>2, <2>1 DEF AnswersInv, Truthful
  <2>3. p.t_id \in Transfer_ID
    BY <2>2 DEF Packet
  <2>4. \/ p.type \in {"VALID", "INVALID"} /\ host_request_valid(p)
        \/ p.type = "REPLY" /\ host_request_reply(p)
        \/ p.type = "CANCEL" /\ recv_cancel(p)
        \/ p.type = "DATA" /\ recv_data(p)
        \/ p.type = "COMPLETE" /\ recv_complete(p)
        \/ p.type = "REQUEST" /\ free_recv # {} /\ create_recv_request(p)
    BY <1>1, <1>2 DEF analize
  <2> QED BY <2>2, <2>3, <2>4 DEF host_request_valid, host_request_reply
<1>4. \A y, t : /\ Many(inbox, y, t) = Many(inbox', y, t) + Hit(p, y, t)
                /\ Many(inbox, y, t) \in Nat /\ Many(inbox', y, t) \in Nat
  <2>1. Tail(inbox) \in Seq(Packet)
    BY <1>1
  <2> QED BY <1>1, <1>2, <2>1, ManyLess, AtFinite
<1>5. /\ numbered' = numbered /\ numbered \in Nat /\ sent' = sent
      /\ transfer_clients' = transfer_clients /\ numbered <= numbered'
      /\ DOMAIN recv = Rows /\ \A j \in Rows : recv[j] \in RecvRow
      /\ \A t \in Transfer_ID : sent[t] \in 0 .. Chunks
  <2>1. numbered' = numbered /\ sent' = sent /\ transfer_clients' = transfer_clients
    BY <1>1 DEF db, peers
  <2>2. /\ numbered \in Nat /\ DOMAIN recv = Rows /\ \A j \in Rows : recv[j] \in RecvRow
    BY DEF TypeOK, Transfer_ID
  <2>3. \A t \in Transfer_ID : sent[t] \in 0 .. Chunks
    BY DEF TypeOK
  <2> QED BY <2>1, <2>2, <2>3
<1>6. PICK t0 : t0 = p.t_id
  OBVIOUS
<1>7. \A S \in SUBSET Rows : S # {} => First(S) \in S
  BY FirstIn
<1>8. CASE p.type \notin Flows
  <2>1. \A type \in Flows, t \in Transfer_ID : Many(inbox, type, t)' = Many(inbox, type, t)
    BY <1>4, <1>8 DEF Hit
  <2>2. ASSUME p.type = "CANCEL", recv_cancel(p), ~UNCHANGED recv
        PROVE  \A i \in Rows : RowGoes(recv[i], recv'[i])
    <3> DEFINE r == Cancellable(recv, p.t_id)
               j == First(r)
    <3>1. r # {} /\ recv' = [recv EXCEPT ![j] = zero_recv(recv[j])]
      BY <2>2 DEF recv_cancel
    <3>2. j \in Rows
      BY <1>7, <3>1 DEF Cancellable
    <3> HIDE DEF j
    <3>3. ~Used(zero_recv(recv[j])) /\ zero_recv(recv[j]).t_id = 0
      BY <1>5, <3>2 DEF RecvRow, zero_recv, Used
    <3> QED BY <1>5, <3>1, <3>2, <3>3 DEF RowGoes
  <2>3. \A i \in Rows : RowGoes(recv[i], recv'[i])
    BY <1>3, <1>8, <2>2 DEF Flows, RowGoes
  <2>4. \A t \in Transfer_ID : t <= numbered => sent'[t] = sent[t] /\ MyRow(t)' \subseteq MyRow(t)
    BY <1>5, FewerRows
  <2> QED BY <1>5, <2>1, <2>3, <2>4, QuietFlow
<1>9. CASE p.type \in Flows
  <2>1. ASSUME NEW t \in Transfer_ID, t # t0 PROVE Still(t)
    BY <1>4, <1>5, <1>6, <2>1, FewerRows DEF Still, Hit
  <2>2. t0 \in Transfer_ID /\ Many(inbox, p.type, t0) = Many(inbox', p.type, t0) + 1
        /\ Many(inbox, p.type, t0) # 0 /\ t0 \in Nat
    <3>1. t0 \in Transfer_ID /\ t0 \in Nat
      BY <1>3, <1>6 DEF Transfer_ID
    <3>2. Hit(p, p.type, t0) = 1
      BY <1>6 DEF Hit
    <3> QED BY <1>4, <3>1, <3>2
  <2>3. CASE p.type \in {"DATA", "COMPLETE"}
    <3>1. ~Fresh(t0)
      BY <2>2, <2>3 DEF Fresh
    <3>2. Many(inbox, "REQUEST", t0)' = 0
      <4>1. Many(inbox, "REQUEST", t0) = 0
        BY <2>2, <3>1 DEF FlowInv, AskedOnce
      <4>2. Hit(p, "REQUEST", t0) = 0
        BY <2>3 DEF Hit
      <4> QED BY <1>4, <4>1, <4>2
    <3>3. ASSUME NEW s, NEW i \in Rows, s = recv[i], s.state = "ACTIVE" => s.t_id # t0
          PROVE  (Used(s) => s.t_id # t0) \/ FlowsIn(s)'
      <4> SUFFICES ASSUME Used(s), s.t_id = t0 PROVE FlowsIn(s)'
        OBVIOUS
      <4>1. FlowsIn(s) /\ ~Waiting(s)
        BY <3>1, <3>3 DEF FlowInv, FlowsIn
      <4> QED BY <1>5, <3>2, <3>3, <4>1 DEF FlowsIn
    <3>4. PICK j : j = First(Receiving(t0))
      OBVIOUS
    <3>5. /\ Receiving(t0) # {} => j \in Rows /\ recv[j].state = "ACTIVE" /\ recv[j].t_id = t0
          /\ \A i \in Rows : recv[i].state = "ACTIVE" /\ recv[i].t_id = t0 =>
                Receiving(t0) # {} /\ i = j
      <4>1. /\ Receiving(t0) # {} => j \in Rows /\ recv[j].state = "ACTIVE" /\ recv[j].t_id = t0
            /\ \A i \in Rows : recv[i].state = "ACTIVE" /\ recv[i].t_id = t0 => Receiving(t0) # {}
        BY <1>7, <3>4 DEF Receiving
      <4> QED BY <4>1 DEF FlowInv, Apart, Used
    <3>6. PICK v : v = IF p.type = "DATA"
                       THEN [recv[j] EXCEPT !.bytes = IF @ < Chunks THEN @ + 1 ELSE @]
                       ELSE zero_recv([recv[j] EXCEPT !.open = FALSE])
      OBVIOUS
    <3>7. recv' = IF Receiving(t0) = {} THEN recv ELSE [recv EXCEPT ![j] = v]
      <4>1. CASE p.type = "DATA"
        BY <1>3, <1>6, <3>4, <3>6, <4>1 DEF recv_data, Flows
      <4>2. CASE p.type = "COMPLETE"
        BY <1>3, <1>6, <3>4, <3>6, <4>2 DEF recv_complete, Flows
      <4> QED BY <2>3, <4>1, <4>2
    <3>8. ASSUME Receiving(t0) # {}
          PROVE  FlowsIn(v)' /\ (Used(v) => v.t_id = t0)
      <4>1. j \in Rows /\ recv[j] \in RecvRow /\ recv[j].state = "ACTIVE" /\ recv[j].t_id = t0
            /\ FlowsIn(recv[j])
        BY <1>5, <3>5, <3>8 DEF FlowInv
      <4>2. CASE p.type = "COMPLETE"
        <5>1. ~Used(v) /\ v.t_id = 0 /\ ~Waiting(v) /\ v.state # "ACTIVE"
          BY <3>6, <4>1, <4>2 DEF RecvRow, zero_recv, Used, Waiting
        <5> QED BY <1>5, <5>1 DEF FlowsIn
      <4>3. CASE p.type = "DATA"
        <5>1. PICK n : n = recv[j].bytes
          OBVIOUS
        <5>2. /\ v.state = "ACTIVE" /\ v.t_id = t0 /\ n \in Nat
              /\ v.bytes = IF n < Chunks THEN n + 1 ELSE n
          BY <3>6, <4>1, <4>3, <5>1, ManagerAssumption DEF RecvRow
        <5>3. t0 <= numbered /\ Flowing(t0, n)
          BY <4>1, <5>1 DEF FlowsIn
        <5>4. Hit(p, "COMPLETE", t0) = 0
          BY <4>3 DEF Hit
        <5>5. ASSUME Accepted(t0)' \/ Many(inbox', "COMPLETE", t0) # 0
              PROVE  v.bytes + Many(inbox', "DATA", t0) = sent'[t0]
          <6>1. Accepted(t0) \/ Many(inbox, "COMPLETE", t0) # 0
            BY <1>4, <1>5, <5>4, <5>5 DEF Accepted, MyRow
          <6>2. n + Many(inbox, "DATA", t0) = sent[t0]
            BY <5>3, <6>1 DEF Flowing
          <6>3. Many(inbox, "DATA", t0) = Many(inbox', "DATA", t0) + 1
            BY <2>2, <4>3
          <6>4. sent[t0] \in 0 .. Chunks /\ Many(inbox', "DATA", t0) \in Nat /\ sent'[t0] = sent[t0]
            BY <1>4, <1>5, <2>2
          <6> QED BY <5>2, <6>2, <6>3, <6>4, ManagerAssumption
        <5>6. Flowing(t0, v.bytes)'
          <6>1. PICK b : b = v.bytes
            OBVIOUS
          <6> QED BY <5>5, <6>1 DEF Flowing
        <5> QED BY <1>5, <3>2, <5>2, <5>3, <5>6 DEF FlowsIn, Waiting
      <4> QED BY <2>3, <4>2, <4>3
    <3>9. \A i \in Rows : \/ recv'[i] = recv[i] /\ (recv[i].state = "ACTIVE" => recv[i].t_id # t0)
                          \/ i = j /\ recv'[i] = v /\ Receiving(t0) # {}
      BY <1>5, <3>5, <3>7
    <3>10. Apart'
      BY <3>5, <3>8, <3>9, ApartStays DEF FlowInv, Used
    <3>11. \A i \in Rows : \A s : s = recv'[i] =>
              (s = recv[i] /\ (Used(s) => s.t_id # t0)) \/ FlowsIn(s)'
      BY <3>3, <3>8, <3>9
    <3> QED BY <1>5, <2>1, <3>2, <3>10, <3>11, OneFlow
  <2>4. CASE p.type = "REQUEST"
    <3>1. Many(inbox, "REQUEST", t0) = 1 /\ Fresh(t0) /\ Many(inbox', "REQUEST", t0) = 0
      BY <1>4, <2>2, <2>4 DEF FlowInv, AskedOnce
    <3>2. Fresh(t0)'
      <4>1. Hit(p, "DATA", t0) = 0 /\ Hit(p, "COMPLETE", t0) = 0
        BY <2>4 DEF Hit
      <4> QED BY <1>4, <1>5, <3>1, <4>1 DEF Fresh, MyRow
    <3>3. PICK j, v : /\ j = First(free_recv)
                      /\ v = [state |-> "GET_RESPONSE", t_id |-> t0, bytes |-> 0, open |-> TRUE]
      OBVIOUS
    <3>4. free_recv # {} /\ recv' = [recv EXCEPT ![j] = v]
      BY <1>3, <1>6, <2>4, <3>3 DEF create_recv_request
    <3>5. j \in Rows /\ ~Used(recv[j])
      BY <1>7, <3>3, <3>4 DEF free_recv, Used
    <3>6. recv'[j] = v /\ \A i \in Rows \ {j} : recv'[i] = recv[i]
      BY <1>5, <3>4, <3>5
    <3>7. v.state = "GET_RESPONSE" /\ v.t_id = t0 /\ v.bytes = 0
      BY <3>3
    <3>8. FlowsIn(v)'
      BY <1>3, <1>5, <1>6, <3>1, <3>2, <3>7 DEF FlowsIn, Waiting
    <3>9. \A i \in Rows : Used(recv[i]) => recv[i].t_id # t0
      BY <3>1 DEF FlowInv, FlowsIn
    <3>10. Apart'
      BY <3>5, <3>6, <3>7, <3>9 DEF FlowInv, Apart, Used
    <3>11. \A i \in Rows : \A s : s = recv'[i] =>
              (s = recv[i] /\ (Used(s) => s.t_id # t0)) \/ FlowsIn(s)'
      BY <3>6, <3>8, <3>9
    <3> QED BY <1>5, <2>1, <3>1, <3>10, <3>11, OneFlow
  <2> QED BY <1>9, <2>3, <2>4 DEF Flows
<1> QED BY <1>8, <1>9

\* The invariant is inductive.
LEMMA FlowStep ==
  ASSUME FreshNumbers, TypeOK, TypeOK', AnswersInv, FlowInv, [Next]_vars PROVE FlowInv'
<1>1. numbered <= numbered'
  BY AnswerSteps DEF AnswersInv, TableStep
<1>2. CASE ClientEnds
  BY <1>2, EndFlow
<1>3. CASE UNCHANGED <<recv, inbox, db, peers>>
  <2>1. \A i \in Rows : RowGoes(recv[i], recv'[i])
    BY <1>3 DEF RowGoes
  <2> QED BY <1>1, <1>3, <2>1, SameMany, FewerRows, QuietFlow DEF db, peers
<1>4. GUI \/ wait_work \/ next_round \/ UNCHANGED vars => ClientEnds \/ UNCHANGED <<recv, inbox, db, peers>>
  BY DEF GUI, render, click, transfer, wait_work, next_round, vars, arrays
<1> QED BY <1>1, <1>2, <1>3, <1>4, ProcessFlow, WorkFlow, AnalizeFlow, PeersFlow DEF Next, Network

\* transfer_manager.cpp: recv_data finds the row of every packet of data the
\* server forwards.  The row is ACTIVE before the answer is in the server's table,
\* the first packet comes after, and there is no other row with that number: what
\* is neither written nor waiting to be read has not been sent, for files, queues
\* and arrays of any size.
THEOREM DataIsWritten == FreshNumbers => (Spec => []NoDataDropped)
<1> SUFFICES ASSUME FreshNumbers PROVE Spec => []NoDataDropped
  OBVIOUS
<1>1. Spec => [](TypeOK /\ AnswersInv)
  BY AnswersAlways
<1>2. TypeOK /\ TypeOK' /\ AnswersInv /\ FlowInv /\ [Next]_vars => FlowInv'
  BY FlowStep
<1>3. TypeOK /\ FlowInv => NoDataDropped
  <2> SUFFICES ASSUME TypeOK, FlowInv, NEW i \in Rows, recv[i].state = "ACTIVE",
                      NEW t, t = recv[i].t_id,
                      Accepted(t) \/ Queued("COMPLETE", t) # {}
               PROVE  recv[i].bytes + Cardinality(Queued("DATA", t)) = sent[t]
    BY DEF NoDataDropped
  <2>1. \A type : Queued(type, t) = At(inbox, type, t)
    BY DEF Queued, At
  <2>2. inbox \in Seq(Packet) /\ Flowing(t, recv[i].bytes)
    BY DEF TypeOK, FlowInv, FlowsIn
  <2> QED BY <2>1, <2>2, AtFinite DEF Flowing, Many
<1> QED BY <1>1, <1>2, <1>3, FlowInit, PTL DEF Spec

-----------------------------------------------------------------------------
(* A client that only receives, from one host at a time.                   *)

Receiver == MaxHost = 0 /\ OneAtATime /\ FreshNumbers

NoHosting ==
    /\ client_transfer_ids > 0 /\ Created(Me) = {}
    /\ \A i \in Rows : host[i].state = "EMPTY"
    /\ \A k \in DOMAIN cmd_queue : cmd_queue[k].type # "REQUEST"

\* The server has one transfer at most, and rows of no other.
OneTransfer ==
    /\ \A v, w \in transfers : v = w
    /\ \A w \in transfer_clients : \E v \in transfers : v.transfer_id = w.transfer_id

\* The row in use is the only one, and while packets are read what the user has
\* decided is sent.
OneInUse == \A i, j \in Rows : Used(recv[i]) /\ Used(recv[j]) => i = j
Decided  == {"ACCEPT", "DENY", "CANCEL"}
Turns    == \A i \in Rows : /\ recv[i].state \in {"EMPTY", "GET_RESPONSE", "ACTIVE"} \cup Decided
                            /\ phase = "read" => recv[i].state \notin Decided
NotDenied == \A i \in Rows : Used(recv[i]) => \A w \in MyRow(recv[i].t_id) : w.accepted # 0

\* The packet at j ends transfer t.
Ends(j, t) == j \in DOMAIN inbox /\ inbox[j].type \in {"CANCEL", "COMPLETE"} /\ inbox[j].t_id = t
Request(k) == k \in DOMAIN inbox /\ inbox[k].type = "REQUEST"

\* The transfer of a row is the server's, or its end is on its way, before any
\* other request.
HeldAt(t) ==
    /\ MyRow(t) # {} \/ \E j \in DOMAIN inbox : Ends(j, t)
    /\ \A k \in DOMAIN inbox : Request(k) => \E j \in DOMAIN inbox : j < k /\ Ends(j, t)
RowsHeld == \A i \in Rows : Used(recv[i]) => HeldAt(recv[i].t_id)

\* So is the transfer of a request.
AskHeld(k) ==
    /\ MyRow(inbox[k].t_id) # {} \/ \E j \in DOMAIN inbox : k < j /\ Ends(j, inbox[k].t_id)
    /\ \A l \in DOMAIN inbox : k < l /\ Request(l) =>
          \E j \in DOMAIN inbox : k < j /\ j < l /\ Ends(j, inbox[k].t_id)
RequestsHeld == \A k \in DOMAIN inbox : Request(k) => AskHeld(k)

Held    == OneInUse /\ Turns /\ NotDenied /\ RowsHeld /\ RequestsHeld
HeldInv == NoHosting /\ OneTransfer /\ Held

\* No row, no packet and no transfer, at first.
LEMMA HeldInit == Init => HeldInv
<1> SUFFICES ASSUME Init PROVE HeldInv
  OBVIOUS
<1>1. \A i \in Rows : host[i].state = "EMPTY" /\ recv[i].state = "EMPTY"
  BY DEF Init, NewHost, NewRecv
<1> QED BY <1>1 DEF Init, HeldInv, Held, NoHosting, OneTransfer, OneInUse, Turns, NotDenied,
                    RowsHeld, RequestsHeld, Created, Used, Decided

\* Packets come, none of them a request; a transfer the server gives up is
\* announced.
More == /\ \A k \in DOMAIN inbox : k \in DOMAIN inbox' /\ inbox'[k] = inbox[k]
        /\ \A k \in DOMAIN inbox' \ DOMAIN inbox : /\ inbox'[k].type # "REQUEST"
                                                  /\ \A l \in DOMAIN inbox : l < k
GivenUp(t) == MyRow(t) # {} /\ MyRow(t)' = {}

\* Requests that wait keep their transfer or its end.
LEMMA MoreHeld ==
  ASSUME RequestsHeld, More,
         \A k \in DOMAIN inbox : Request(k) /\ GivenUp(inbox[k].t_id) =>
            \E j \in DOMAIN inbox' \ DOMAIN inbox : Ends(j, inbox[k].t_id)'
  PROVE  RequestsHeld'
<1> SUFFICES ASSUME NEW k \in DOMAIN inbox', Request(k)', NEW t, t = inbox'[k].t_id
             PROVE  /\ MyRow(t)' # {} \/ \E j \in DOMAIN inbox' : k < j /\ Ends(j, t)'
                    /\ \A l \in DOMAIN inbox' : k < l /\ Request(l)' =>
                          \E j \in DOMAIN inbox' : k < j /\ j < l /\ Ends(j, t)'
  BY DEF RequestsHeld, AskHeld
<1>1. k \in DOMAIN inbox /\ Request(k) /\ inbox[k].t_id = t
  BY DEF More, Request
<1>2. AskHeld(k)
  BY <1>1 DEF RequestsHeld
<1>3. \A j : Ends(j, t) => Ends(j, t)' /\ j \in DOMAIN inbox'
  BY DEF More, Ends
<1>4. ASSUME NEW l \in DOMAIN inbox', k < l, Request(l)'
      PROVE  \E j \in DOMAIN inbox' : k < j /\ j < l /\ Ends(j, t)'
  <2>1. l \in DOMAIN inbox /\ Request(l)
    BY <1>4 DEF More, Request
  <2> QED BY <1>1, <1>2, <1>3, <1>4, <2>1 DEF AskHeld
<1>5. MyRow(t)' # {} \/ \E j \in DOMAIN inbox' : k < j /\ Ends(j, t)'
  <2>1. CASE \E j \in DOMAIN inbox : k < j /\ Ends(j, t)
    BY <1>3, <2>1
  <2>2. CASE MyRow(t) # {}
    <3>1. CASE GivenUp(t)
      <4>1. PICK j \in DOMAIN inbox' \ DOMAIN inbox : Ends(j, t)'
        BY <1>1, <3>1
      <4> QED BY <1>1, <4>1 DEF More
    <3> QED BY <2>2, <3>1 DEF GivenUp
  <2> QED BY <1>1, <1>2, <2>1, <2>2 DEF AskHeld
<1> QED BY <1>4, <1>5

\* So does the transfer of a row.
LEMMA MoreAt ==
  ASSUME More, NEW t, HeldAt(t),
         GivenUp(t) => \E j \in DOMAIN inbox' \ DOMAIN inbox : Ends(j, t)'
  PROVE  HeldAt(t)'
<1>1. \A j : Ends(j, t) => Ends(j, t)' /\ j \in DOMAIN inbox'
  BY DEF More, Ends
<1>2. \A k \in DOMAIN inbox' : Request(k)' => k \in DOMAIN inbox /\ Request(k)
  BY DEF More, Request
<1>3. MyRow(t)' # {} \/ \E j \in DOMAIN inbox' : Ends(j, t)'
  BY <1>1 DEF HeldAt, GivenUp
<1> QED BY <1>1, <1>2, <1>3 DEF HeldAt

\* The packet in front is read.
LEMMA LessAt ==
  ASSUME Inbox, inbox # << >>, inbox' = Tail(inbox), transfer_clients' = transfer_clients,
         NEW t, HeldAt(t), ~Ends(1, t)
  PROVE  HeldAt(t)'
<1>1. /\ \A k \in DOMAIN inbox' : k + 1 \in DOMAIN inbox /\ inbox'[k] = inbox[k + 1] /\ k \in Int
      /\ \A k \in DOMAIN inbox : k \in Int /\ (k # 1 => k - 1 \in DOMAIN inbox' /\ inbox'[k - 1] = inbox[k])
  BY DEF Inbox
<1>2. \A j \in DOMAIN inbox : Ends(j, t) => j - 1 \in DOMAIN inbox' /\ Ends(j - 1, t)'
  BY <1>1 DEF Ends
<1>3. \A k \in DOMAIN inbox' : Request(k)' => Request(k + 1)
  BY <1>1 DEF Request
<1>4. MyRow(t)' # {} \/ \E j \in DOMAIN inbox' : Ends(j, t)'
  BY <1>2 DEF HeldAt, MyRow
<1>5. ASSUME NEW k \in DOMAIN inbox', Request(k)' PROVE \E j \in DOMAIN inbox' : j < k /\ Ends(j, t)'
  <2>1. PICK j \in DOMAIN inbox : j < k + 1 /\ Ends(j, t)
    BY <1>1, <1>3, <1>5 DEF HeldAt
  <2> QED BY <1>1, <1>2, <2>1
<1> QED BY <1>4, <1>5 DEF HeldAt

\* So do the requests behind it.
LEMMA LessHeld ==
  ASSUME Inbox, inbox # << >>, inbox' = Tail(inbox), transfer_clients' = transfer_clients, RequestsHeld
  PROVE  RequestsHeld'
<1>1. /\ \A k \in DOMAIN inbox' : k + 1 \in DOMAIN inbox /\ inbox'[k] = inbox[k + 1] /\ k \in Int /\ k >= 1
      /\ \A k \in DOMAIN inbox : k \in Int /\ (k # 1 => k - 1 \in DOMAIN inbox' /\ inbox'[k - 1] = inbox[k])
  BY DEF Inbox
<1> SUFFICES ASSUME NEW k \in DOMAIN inbox', Request(k)', NEW t, t = inbox'[k].t_id
             PROVE  /\ MyRow(t)' # {} \/ \E j \in DOMAIN inbox' : k < j /\ Ends(j, t)'
                    /\ \A l \in DOMAIN inbox' : k < l /\ Request(l)' =>
                          \E j \in DOMAIN inbox' : k < j /\ j < l /\ Ends(j, t)'
  BY DEF RequestsHeld, AskHeld
<1>2. AskHeld(k + 1) /\ inbox[k + 1].t_id = t
  BY <1>1 DEF RequestsHeld, Request
<1>3. \A j \in DOMAIN inbox : j # 1 /\ Ends(j, t) => j - 1 \in DOMAIN inbox' /\ Ends(j - 1, t)'
  BY <1>1 DEF Ends
<1>4. MyRow(t)' # {} \/ \E j \in DOMAIN inbox' : k < j /\ Ends(j, t)'
  <2>1. ASSUME NEW j \in DOMAIN inbox, k + 1 < j, Ends(j, t)
        PROVE  \E m \in DOMAIN inbox' : k < m /\ Ends(m, t)'
    BY <1>1, <1>3, <2>1
  <2> QED BY <1>2, <2>1 DEF AskHeld, MyRow
<1>5. ASSUME NEW l \in DOMAIN inbox', k < l, Request(l)'
      PROVE  \E j \in DOMAIN inbox' : k < j /\ j < l /\ Ends(j, t)'
  <2>1. l + 1 \in DOMAIN inbox /\ k + 1 < l + 1 /\ Request(l + 1)
    BY <1>1, <1>5 DEF Request
  <2>2. PICK j \in DOMAIN inbox : k + 1 < j /\ j < l + 1 /\ Ends(j, t)
    BY <1>2, <2>1 DEF AskHeld
  <2> QED BY <1>1, <1>3, <2>2
<1> QED BY <1>4, <1>5

\* An answer changes no transfer's being this client's.
LEMMA AcceptKeeps ==
  ASSUME DbTypes, NEW t, NEW p, NEW a, db_client_accept(t, p, a)
  PROVE  /\ \A u : MyRow(u) # {} => MyRow(u)' # {}
         /\ \A w \in transfer_clients' : \E v \in transfer_clients : w.transfer_id = v.transfer_id
<1>1. ASSUME NEW v \in transfer_clients, NEW w,
             w = IF v.transfer_id = t /\ v.client_id = p THEN [v EXCEPT !.accepted = a] ELSE v
      PROVE  w.transfer_id = v.transfer_id /\ w.client_id = v.client_id
  <2>1. v \in ClientTable
    BY DEF DbTypes
  <2> QED BY <1>1, <2>1 DEF ClientTable
<1>2. \A v \in transfer_clients : \E w \in transfer_clients' :
         w.transfer_id = v.transfer_id /\ w.client_id = v.client_id
  BY <1>1 DEF db_client_accept
<1>3. \A w \in transfer_clients' : \E v \in transfer_clients : w.transfer_id = v.transfer_id
  BY <1>1 DEF db_client_accept
<1> QED BY <1>2, <1>3 DEF MyRow

\* The answer of another is not this client's.
LEMMA OthersAccept ==
  ASSUME DbTypes, NEW t, NEW p \in Others, NEW a, db_client_accept(t, p, a)
  PROVE  \A u : MyRow(u)' \subseteq MyRow(u)
<1>1. ASSUME NEW w \in transfer_clients', w.client_id = Me PROVE w \in transfer_clients
  <2>1. PICK v \in transfer_clients :
          w = IF v.transfer_id = t /\ v.client_id = p THEN [v EXCEPT !.accepted = a] ELSE v
    BY DEF db_client_accept
  <2>2. v \in ClientTable
    BY DEF DbTypes
  <2> QED BY <1>1, <2>1, <2>2, ManagerAssumption DEF ClientTable
<1> QED BY <1>1 DEF MyRow

\* Who only receives never hosts.
LEMMA NeverHosts ==
  ASSUME MaxHost = 0, TypeOK, NoHosting, [Next]_vars PROVE NoHosting'
<1>0. /\ HostWork = {} /\ \A t : Cancellable(host, t) = {}
      /\ Me \notin Others /\ transfers \subseteq TransferTable
      /\ cmd_queue \in Seq(Cmd) /\ client_transfer_ids \in Nat /\ DOMAIN host = Rows
  BY ManagerAssumption DEF NoHosting, HostWork, Cancellable, TypeOK, TransferTable
<1>1. CASE ClientEnds
  <2>1. \A i \in Rows : host'[i].state = "EMPTY"
    BY <1>1 DEF ClientEnds, NewHost
  <2> QED BY <1>1, <2>1 DEF ClientEnds, NoHosting, Created
<1>2. CASE UNCHANGED <<client_transfer_ids, transfers, host, cmd_queue>>
  BY <1>2 DEF NoHosting, Created
<1>3. CASE GUI
  <2>1. ASSUME NEW array, NEW i, NEW button, click(array, i, button), ~ClientEnds
        PROVE  NoHosting'
    <3>1. PICK c : push(c) /\ c.type # "REQUEST"
      <4> DEFINE t == IF array = "recv" THEN recv[i].t_id ELSE host[i].t_id
                 c == IF button = "Cancel"
                      THEN [type |-> "CANCEL", t_id |-> t]
                      ELSE [type |-> "REPLY", t_id |-> t, reply |-> button = "Accept"]
      <4>1. push(c)
        BY <2>1 DEF click
      <4>2. c.type # "REQUEST"
        OBVIOUS
      <4> HIDE DEF c
      <4> QED BY <4>1, <4>2
    <3>2. \A k \in DOMAIN cmd_queue' : cmd_queue'[k].type # "REQUEST"
      BY <1>0, <3>1 DEF push, NoHosting
    <3> QED BY <2>1, <3>2 DEF click, NoHosting, Created, arrays, db
  <2>2. ~(client_transfer_ids <= MaxHost)
    BY <1>0 DEF NoHosting
  <2> QED BY <1>1, <1>2, <1>3, <2>1, <2>2 DEF GUI, render, arrays, db
<1>4. CASE process_cmds
  <2> DEFINE cmd == Head(cmd_queue)
  <2>1. cmd.type # "REQUEST" /\ \A k \in DOMAIN cmd_queue' : cmd_queue'[k].type # "REQUEST"
    BY <1>0, <1>4 DEF process_cmds, NoHosting
  <2>2. cmd_recv_request_reply(cmd) \/ cmd_cancel(cmd)
    BY <1>4, <2>1 DEF process_cmds
  <2> HIDE DEF cmd
  <2>3. UNCHANGED <<host, client_transfer_ids>>
    BY <1>0, <2>2 DEF cmd_recv_request_reply, cmd_cancel
  <2> QED BY <1>4, <2>1, <2>3 DEF process_cmds, NoHosting, Created, db
<1>5. CASE do_work
  <2>1. \/ \E i : send_cancel_recv(i) \/ send_recv_request_reply(i)
        \/ UNCHANGED <<arrays, inbox, db, peers>>
    BY <1>0, <1>5 DEF do_work
  <2>2. UNCHANGED <<host, transfers>>
    BY <2>1 DEF send_cancel_recv, send_recv_request_reply, packet_cancel, NoHosting, arrays, db
  <2> QED BY <1>2, <1>5, <2>2 DEF do_work
<1>6. CASE analize /\ ~ClientEnds
  <2>1. \A p : host_request_valid(p) => UNCHANGED host
    BY DEF host_request_valid, NoHosting
  <2>2. \A p : host_request_reply(p) => UNCHANGED host
    BY DEF host_request_reply, NoHosting
  <2>3. \A p : recv_cancel(p) => UNCHANGED host
    BY <1>0 DEF recv_cancel
  <2>4. UNCHANGED host
    BY <1>6, <2>1, <2>2, <2>3 DEF analize, recv_data, recv_complete, create_recv_request
  <2> QED BY <1>2, <1>6, <2>4 DEF analize, db
<1>7. CASE Peers \/ Hosts
  <2>1. UNCHANGED <<client_transfer_ids, host, cmd_queue>>
    BY <1>7 DEF Peers, Hosts, peer_request, close_client, peer_reply, peer_cancel_host,
         peer_cancel_recv, peer_data, peer_complete, local, arrays
  <2>2. ASSUME NEW p \in Others, peer_request(p) PROVE Created(Me)' = {}
    <3>1. PICK t : transfers' = transfers \cup {[transfer_id |-> t, creator_id |-> p]}
      BY <2>2 DEF peer_request, db_create
    <3> QED BY <1>0, <2>2, <3>1 DEF Created, NoHosting
  <2>3. transfers' \subseteq transfers => Created(Me)' = {}
    BY DEF Created, NoHosting
  <2>4. Created(Me)' = {}
    BY <1>7, <2>2, <2>3 DEF Peers, Hosts, close_client, peer_reply, peer_cancel_host,
         peer_cancel_recv, peer_data, peer_complete, db_cleanup_transfer, db
  <2> QED BY <2>1, <2>4 DEF NoHosting
<1>8. CASE wait_work \/ next_round \/ UNCHANGED vars
  BY <1>2, <1>8 DEF wait_work, next_round, vars, arrays, db
<1> QED BY <1>1, <1>3, <1>4, <1>5, <1>6, <1>7, <1>8 DEF Next, Network

\* The server has one transfer, and rows of no other.
LEMMA OneAtTheServer ==
  ASSUME OneAtATime, TypeOK, NoHosting, OneTransfer, MaxHost = 0, [Next]_vars PROVE OneTransfer'
<1>0. HostWork = {} /\ client_transfer_ids \in Nat /\ DbTypes
  BY DEF NoHosting, HostWork, TypeOK, DbTypes, TransferTable, ClientTable
<1>1. CASE /\ transfers' = transfers
           /\ \A w \in transfer_clients' : \E v \in transfer_clients : w.transfer_id = v.transfer_id
  BY <1>1 DEF OneTransfer
<1>2. CASE UNCHANGED <<transfers, transfer_clients>>
  BY <1>2 DEF OneTransfer
<1>3. CASE ClientEnds
  BY <1>1, <1>3 DEF ClientEnds, NoHosting
<1>4. GUI \/ process_cmds \/ analize \/ wait_work \/ next_round \/ UNCHANGED vars
        => ClientEnds \/ UNCHANGED <<transfers, transfer_clients>>
  BY DEF GUI, render, click, transfer, process_cmds, analize, wait_work, next_round, vars, db
<1>5. CASE do_work
  <2>1. \/ \E i : send_cancel_recv(i) \/ send_recv_request_reply(i)
        \/ UNCHANGED <<arrays, inbox, db, peers>>
    BY <1>0, <1>5 DEF do_work
  <2>2. ASSUME NEW i, send_cancel_recv(i)
        PROVE  UNCHANGED transfers /\ transfer_clients' \subseteq transfer_clients
    BY <2>2 DEF send_cancel_recv, packet_cancel, db_client_delete, NoHosting
  <2>3. ASSUME NEW i, send_recv_request_reply(i)
        PROVE  /\ UNCHANGED transfers
               /\ \A w \in transfer_clients' : \E v \in transfer_clients : w.transfer_id = v.transfer_id
    BY <1>0, <2>3, AcceptKeeps DEF send_recv_request_reply
  <2> QED BY <1>1, <1>2, <2>1, <2>2, <2>3 DEF db
<1>6. CASE Peers \/ Hosts
  <2>1. ASSUME NEW p \in Others, peer_request(p) PROVE OneTransfer'
    <3>1. PICK t \in Transfer_ID : db_create(t, p, {Me})
      BY <2>1 DEF peer_request
    <3>2. transfers = {} /\ transfer_clients = {}
      BY <2>1 DEF peer_request, OneTransfer
    <3> QED BY <3>1, <3>2 DEF db_create, OneTransfer
  <2>2. ASSUME NEW T, db_cleanup_transfer(T) PROVE OneTransfer'
    BY <2>2 DEF db_cleanup_transfer, OneTransfer
  <2>3. ASSUME NEW p, close_client(p) PROVE OneTransfer'
    <3>1. transfers' \subseteq transfers /\ transfer_clients' \subseteq transfer_clients
      BY <2>3 DEF close_client
    <3>2. ASSUME NEW w \in transfer_clients' PROVE \E v \in transfers' : v.transfer_id = w.transfer_id
      <4>1. PICK v \in transfers : v.transfer_id = w.transfer_id
        BY <3>1 DEF OneTransfer
      <4>2. v.creator_id # p
        BY <2>3, <4>1 DEF close_client, Created
      <4> QED BY <2>3, <4>1, <4>2 DEF close_client
    <3> QED BY <3>1, <3>2 DEF OneTransfer
  <2>4. ASSUME NEW p, NEW t, NEW a, peer_reply(t, p, a) PROVE OneTransfer'
    <3>1. PICK b : db_client_accept(t, p, b)
      BY <2>4 DEF peer_reply
    <3> QED BY <1>0, <1>1, <2>4, <3>1, AcceptKeeps DEF peer_reply
  <2>5. ASSUME NEW p, NEW t, peer_cancel_recv(t, p) PROVE OneTransfer'
    BY <1>1, <2>5 DEF peer_cancel_recv, db_client_delete
  <2>6. ASSUME NEW t, peer_data(t) PROVE OneTransfer'
    BY <1>2, <2>6 DEF peer_data, db
  <2> QED BY <1>6, <2>1, <2>2, <2>3, <2>4, <2>5, <2>6 DEF Peers, Hosts, peer_cancel_host, peer_complete
<1> QED BY <1>2, <1>3, <1>4, <1>5, <1>6 DEF Next, Network

-----------------------------------------------------------------------------
(* The steps of the receiver.                                              *)

\* No row begins.
NoRowBegins == \A i \in Rows : Used(recv'[i]) => Used(recv[i]) /\ recv'[i].t_id = recv[i].t_id

\* A step that sends nothing and leaves the server's rows.
LEMMA QuietHeld ==
  ASSUME Held, NoRowBegins, Turns', UNCHANGED <<inbox, transfer_clients>> PROVE Held'
<1>1. OneInUse'
  BY DEF Held, OneInUse, NoRowBegins
<1>2. \A t : MyRow(t)' = MyRow(t) /\ HeldAt(t)' = HeldAt(t)
  BY DEF MyRow, HeldAt, Ends, Request
<1>3. NotDenied' /\ RowsHeld'
  BY <1>2 DEF Held, NotDenied, RowsHeld, NoRowBegins
<1>4. RequestsHeld'
  BY DEF Held, RequestsHeld, AskHeld, MyRow, Ends, Request
<1> QED BY <1>1, <1>3, <1>4 DEF Held

\* When this client has ended nothing is in use.
LEMMA EndHeld == ASSUME ClientEnds PROVE Held'
<1>1. \A i \in Rows : recv'[i].state = "EMPTY"
  BY DEF ClientEnds, NewRecv
<1> QED BY <1>1 DEF ClientEnds, Held, OneInUse, Turns, NotDenied, RowsHeld, RequestsHeld, Used,
                    Decided, Request

\* No row is in use after the step.
LEMMA NoneUsed ==
  ASSUME \A i \in Rows : recv'[i].state = "EMPTY", RequestsHeld' PROVE Held'
  BY DEF Held, OneInUse, Turns, NotDenied, RowsHeld, Used, Decided

\* process_cmds: what the user has decided is marked before packets are read.
LEMMA ProcessHeld ==
  ASSUME TypeOK, NoHosting, Held, process_cmds PROVE Held'
<1> DEFINE cmd == Head(cmd_queue)
<1>1. UNCHANGED <<inbox, transfer_clients>> /\ phase' = "work"
  BY DEF process_cmds, db
<1>2. cmd_host_request(cmd) \/ cmd_recv_request_reply(cmd) \/ cmd_cancel(cmd)
  BY DEF process_cmds
<1>3. DOMAIN recv = Rows /\ \A j \in Rows : recv[j] \in RecvRow
  BY DEF TypeOK
<1>4. \A S \in SUBSET Rows : S # {} => First(S) \in S
  BY FirstIn
<1> HIDE DEF cmd
<1>5. CASE UNCHANGED recv
  <2>1. Turns' /\ NoRowBegins
    BY <1>1, <1>5 DEF Held, Turns, NoRowBegins, process_cmds
  <2> QED BY <1>1, <2>1, QuietHeld
<1>6. CASE \E j \in Rows, st \in Decided : Used(recv[j]) /\ recv' = [recv EXCEPT ![j].state = st]
  <2>1. PICK j \in Rows, st \in Decided : Used(recv[j]) /\ recv' = [recv EXCEPT ![j].state = st]
    BY <1>6
  <2>2. recv'[j].state = st /\ recv'[j].t_id = recv[j].t_id /\ \A i \in Rows \ {j} : recv'[i] = recv[i]
    BY <1>3, <2>1 DEF RecvRow
  <2>3. Turns' /\ NoRowBegins
    BY <1>1, <2>1, <2>2 DEF Held, Turns, NoRowBegins
  <2> QED BY <1>1, <2>3, QuietHeld
<1>7. ASSUME cmd_recv_request_reply(cmd), ~UNCHANGED recv
      PROVE  \E j \in Rows, st \in Decided : Used(recv[j]) /\ recv' = [recv EXCEPT ![j].state = st]
  <2> DEFINE asking == {i \in Rows : recv[i].state = "GET_RESPONSE" /\ recv[i].t_id = cmd.t_id}
             j == First(asking)
             st == IF cmd.reply THEN "ACCEPT" ELSE "DENY"
  <2>1. asking # {} /\ recv' = [recv EXCEPT ![j].state = st]
    BY <1>7 DEF cmd_recv_request_reply
  <2>2. j \in asking /\ st \in Decided
    BY <1>4, <2>1 DEF Decided
  <2> HIDE DEF j, st
  <2> QED BY <2>1, <2>2 DEF Used
<1>8. ASSUME cmd_cancel(cmd), ~UNCHANGED recv
      PROVE  \E j \in Rows, st \in Decided : Used(recv[j]) /\ recv' = [recv EXCEPT ![j].state = st]
  <2> DEFINE r == Cancellable(recv, cmd.t_id)
             j == First(r)
  <2>1. r # {} /\ recv' = [recv EXCEPT ![j].state = "CANCEL"]
    BY <1>8 DEF cmd_cancel
  <2>2. j \in Rows /\ Used(recv[j]) /\ "CANCEL" \in Decided
    BY <1>4, <2>1 DEF Cancellable, Used, Decided
  <2> HIDE DEF j
  <2> QED BY <2>1, <2>2
<1> QED BY <1>2, <1>5, <1>6, <1>7, <1>8 DEF cmd_host_request, arrays

\* The only row in use has its answer or cancel sent.
LEMMA WorkHeld ==
  ASSUME TypeOK, FlowInv, HeldInv, do_work PROVE Held'
<1>0. HostWork = {} /\ DbTypes /\ phase' = "read"
      /\ DOMAIN recv = Rows /\ \A j \in Rows : recv[j] \in RecvRow
  BY DEF HeldInv, NoHosting, HostWork, TypeOK, DbTypes, TransferTable, ClientTable, do_work
<1>1. CASE RecvWork = {}
  <2>1. UNCHANGED <<arrays, inbox, db, peers>>
    BY <1>0, <1>1 DEF do_work
  <2>2. Turns' /\ NoRowBegins
    BY <1>1, <2>1 DEF HeldInv, Held, Turns, RecvWork, Decided, NoRowBegins, arrays
  <2> QED BY <2>1, <2>2, QuietHeld DEF HeldInv, db
<1>2. CASE RecvWork # {}
  <2>1. PICK i : i = First(RecvWork)
    OBVIOUS
  <2>2. i \in Rows /\ Used(recv[i]) /\ recv[i].state \in Decided
    BY <1>2, <2>1, FirstIn DEF RecvWork, Used, Decided
  <2>3. \/ recv[i].state = "CANCEL" /\ send_cancel_recv(i)
        \/ recv[i].state # "CANCEL" /\ send_recv_request_reply(i)
    BY <1>0, <1>2, <2>1 DEF do_work
  <2>4. \A j \in Rows : j # i => recv[j].state = "EMPTY"
    BY <2>2 DEF HeldInv, Held, OneInUse, Used
  <2>5. inbox' = inbox /\ More
    BY <2>3 DEF send_cancel_recv, send_recv_request_reply, packet_cancel, More
  <2>6. PICK t : t = recv[i].t_id
    OBVIOUS
  <2>7. \A k \in DOMAIN inbox : Request(k) => inbox[k].t_id # t
    <3>1. Many(inbox, "REQUEST", t) = 0 /\ inbox \in Seq(Packet)
      BY <2>2, <2>6 DEF FlowInv, FlowsIn, TypeOK
    <3>2. At(inbox, "REQUEST", t) = {}
      BY <3>1, AtFinite
    <3> QED BY <3>2 DEF At, Request
  <2>8. CASE send_cancel_recv(i)
    <3>1. recv'[i].state = "EMPTY" /\ \A j \in Rows : recv'[j].state = "EMPTY"
      BY <1>0, <2>2, <2>4, <2>8 DEF send_cancel_recv, zero_recv, RecvRow
    <3>2. ASSUME NEW u, GivenUp(u) PROVE u = t
      <4>1. transfer_clients' # transfer_clients
        BY <3>2 DEF GivenUp, MyRow
      <4>2. MyRow(t) # {} /\ MyRow(u) # {}
        BY <2>6, <2>8, <3>2, <4>1 DEF send_cancel_recv, packet_cancel, GivenUp, HeldInv, NoHosting
      <4> QED BY <4>2 DEF MyRow, HeldInv, OneTransfer
    <3>3. RequestsHeld'
      BY <2>5, <2>7, <3>2, MoreHeld DEF HeldInv, Held
    <3> QED BY <3>1, <3>3, NoneUsed
  <2>9. CASE recv[i].state # "CANCEL" /\ send_recv_request_reply(i)
    <3>1. PICK a : db_client_accept(t, Me, a) /\ a = IF recv[i].state = "ACCEPT" THEN 1 ELSE 0
      BY <2>6, <2>9 DEF send_recv_request_reply
    <3>2. \A u : MyRow(u) # {} => MyRow(u)' # {}
      BY <1>0, <3>1, AcceptKeeps
    <3>3. \A u : ~GivenUp(u)
      BY <3>2 DEF GivenUp
    <3>4. RequestsHeld' /\ HeldAt(t)'
      <4>1. HeldAt(t)
        BY <2>2, <2>6 DEF HeldInv, Held, RowsHeld
      <4>2. HeldAt(t)'
        BY <2>5, <3>3, <4>1, MoreAt
      <4> QED BY <2>5, <3>3, <4>2, MoreHeld DEF HeldInv, Held
    <3>5. CASE recv[i].state = "ACCEPT"
      <4>1. /\ recv'[i].state = "ACTIVE" /\ recv'[i].t_id = t
            /\ \A j \in Rows : j # i => recv'[j].state = "EMPTY"
        BY <1>0, <2>2, <2>4, <2>6, <2>9, <3>5 DEF send_recv_request_reply, RecvRow
      <4>2. \A w \in MyRow(t)' : w.accepted # 0
        <5>1. ASSUME NEW w \in transfer_clients', w.transfer_id = t, w.client_id = Me
              PROVE  w.accepted # 0
          <6>1. PICK v \in transfer_clients :
                  w = IF v.transfer_id = t /\ v.client_id = Me THEN [v EXCEPT !.accepted = 1] ELSE v
            BY <3>1, <3>5 DEF db_client_accept
          <6>2. v \in ClientTable
            BY <1>0 DEF DbTypes
          <6> QED BY <5>1, <6>1, <6>2 DEF ClientTable
        <5> QED BY <5>1 DEF MyRow
      <4> QED BY <3>4, <4>1, <4>2 DEF Held, OneInUse, Turns, NotDenied, RowsHeld, Used, Decided
    <3>6. CASE recv[i].state # "ACCEPT"
      <4>1. recv'[i].state = "EMPTY" /\ \A j \in Rows : recv'[j].state = "EMPTY"
        BY <1>0, <2>2, <2>4, <2>9, <3>6 DEF send_recv_request_reply, RecvRow, zero_recv
      <4> QED BY <3>4, <4>1, NoneUsed
    <3> QED BY <3>5, <3>6
  <2> QED BY <2>3, <2>8, <2>9
<1> QED BY <1>1, <1>2

\* What the others do: a transfer they give up is announced.
LEMMA MoreRows ==
  ASSUME Held, UNCHANGED <<recv, phase>>, More,
         \A t : \A w \in MyRow(t)' : w \in MyRow(t),
         \A t : (\E i \in Rows : Used(recv[i]) /\ recv[i].t_id = t)
                \/ (\E k \in DOMAIN inbox : Request(k) /\ inbox[k].t_id = t)
                => (GivenUp(t) => \E j \in DOMAIN inbox' \ DOMAIN inbox : Ends(j, t)')
  PROVE  Held'
<1>1. RequestsHeld'
  <2>1. ASSUME NEW k \in DOMAIN inbox, Request(k), GivenUp(inbox[k].t_id)
        PROVE  \E j \in DOMAIN inbox' \ DOMAIN inbox : Ends(j, inbox[k].t_id)'
    <3>1. PICK t : t = inbox[k].t_id /\ t = inbox'[k].t_id
      BY DEF More
    <3>2. \E j \in DOMAIN inbox' \ DOMAIN inbox : Ends(j, t)'
      BY <2>1, <3>1
    <3> QED BY <3>1, <3>2
  <2> QED BY <2>1, MoreHeld DEF Held
<1>2. ASSUME NEW i \in Rows, Used(recv[i]), NEW t, t = recv[i].t_id PROVE HeldAt(t)'
  <2>1. HeldAt(t) /\ (GivenUp(t) => \E j \in DOMAIN inbox' \ DOMAIN inbox : Ends(j, t)')
    BY <1>2 DEF Held, RowsHeld
  <2> QED BY <2>1, MoreAt
<1>3. RowsHeld' /\ NotDenied' /\ OneInUse' /\ Turns'
  BY <1>2 DEF Held, RowsHeld, NotDenied, OneInUse, Turns
<1> QED BY <1>1, <1>3 DEF Held

\* A step that sends this client a packet.
LEMMA OneMore ==
  ASSUME TypeOK, NEW p, p.type # "REQUEST", inbox' = Append(inbox, p)
  PROVE  /\ More /\ Len(inbox) + 1 \in DOMAIN inbox' \ DOMAIN inbox
         /\ inbox'[Len(inbox) + 1] = p
<1>1. inbox \in Seq(Packet)
  BY DEF TypeOK
<1> QED BY <1>1 DEF More

\* CANCEL is sent for every transfer of a row in use, or of a request.
LEMMA Told ==
  ASSUME TypeOK, FlowInv, Held, NEW t, MyRow(t) # {},
         \/ \E i \in Rows : Used(recv[i]) /\ recv[i].t_id = t
         \/ \E k \in DOMAIN inbox : Request(k) /\ inbox[k].t_id = t
  PROVE  \E w \in MyRow(t) : w.accepted # 0
<1>1. CASE \E i \in Rows : Used(recv[i]) /\ recv[i].t_id = t
  BY <1>1 DEF Held, NotDenied
<1>2. CASE \E k \in DOMAIN inbox : Request(k) /\ inbox[k].t_id = t
  <2>1. At(inbox, "REQUEST", t) # {} /\ inbox \in Seq(Packet) /\ t \in Transfer_ID
    BY <1>2 DEF At, Request, TypeOK, Packet
  <2>2. Many(inbox, "REQUEST", t) # 0
    BY <2>1, AtFinite
  <2>3. \A w \in MyRow(t) : w.accepted = -1
    BY <2>1, <2>2 DEF FlowInv, AskedOnce, Fresh
  <2> QED BY <2>3
<1> QED BY <1>1, <1>2

\* The steps of the other clients.
LEMMA PeersHeld ==
  ASSUME FreshNumbers, OneAtATime, TypeOK, AnswersInv, FlowInv, HeldInv, Peers \/ Hosts
  PROVE  Held'
<1>0. /\ UNCHANGED <<recv, phase>> /\ DbTypes /\ inbox \in Seq(Packet)
      /\ numbered \in Nat /\ \A i \in Rows : recv[i].t_id \in Nat /\ recv[i].t_id <= numbered
  <2>1. UNCHANGED <<recv, phase>>
    BY DEF Peers, Hosts, peer_request, close_client, peer_reply, peer_cancel_host,
           peer_cancel_recv, peer_data, peer_complete, local, arrays
  <2>2. DbTypes /\ inbox \in Seq(Packet)
    BY DEF TypeOK, DbTypes, TransferTable, ClientTable
  <2>3. numbered \in Nat /\ \A i \in Rows : recv[i].t_id \in Nat
    BY DEF TypeOK, Transfer_ID, RecvRow
  <2> QED BY <2>1, <2>2, <2>3 DEF FlowInv, FlowsIn
<1>2. ASSUME NEW p \in Others, peer_request(p) PROVE Held'
  <2>1. PICK t \in Transfer_ID :
          /\ NewNumber(t) /\ db_create(t, p, {Me})
          /\ inbox' = Append(inbox, [type |-> "REQUEST", t_id |-> t, from |-> p])
    BY <1>2 DEF peer_request
  <2>2. PICK n : n = Len(inbox) + 1
    OBVIOUS
  <2>3. /\ DOMAIN inbox' = DOMAIN inbox \cup {n} /\ \A k \in DOMAIN inbox : k < n
        /\ \A k \in DOMAIN inbox : inbox'[k] = inbox[k]
        /\ inbox'[n].type = "REQUEST" /\ inbox'[n].t_id = t
    BY <1>0, <2>1, <2>2
  <2>4. t = numbered + 1 /\ \A i \in Rows : recv[i].t_id # t
    BY <1>0, <2>1 DEF NewNumber
  <2>5. transfers = {} /\ transfer_clients = {} /\ \A u : MyRow(u) = {}
    BY <1>2 DEF peer_request, HeldInv, OneTransfer, MyRow
  <2>6. MyRow(t)' # {} /\ \A u : u # t => MyRow(u)' = {}
    <3>1. transfer_clients' = [transfer_id : {t}, client_id : {Me}, accepted : {-1}]
      BY <2>1, <2>5 DEF db_create
    <3>2. [transfer_id |-> t, client_id |-> Me, accepted |-> -1] \in transfer_clients'
      BY <3>1
    <3>3. \A w \in transfer_clients' : w.transfer_id = t
      BY <3>1
    <3> QED BY <3>2, <3>3 DEF MyRow
  <2>7. \A j, u : Ends(j, u) => Ends(j, u)' /\ j \in DOMAIN inbox'
    BY <2>3 DEF Ends
  <2>8. \A k \in DOMAIN inbox' : Request(k)' => k = n \/ (k \in DOMAIN inbox /\ Request(k))
    BY <2>3 DEF Request
  <2>9. ASSUME NEW i \in Rows, Used(recv[i]), NEW u, u = recv[i].t_id PROVE HeldAt(u)'
    <3>1. HeldAt(u)
      BY <2>9 DEF HeldInv, Held, RowsHeld
    <3>2. PICK j \in DOMAIN inbox : Ends(j, u)
      BY <2>5, <3>1 DEF HeldAt
    <3> QED BY <2>3, <2>7, <2>8, <3>1, <3>2 DEF HeldAt
  <2>10. ASSUME NEW k \in DOMAIN inbox', Request(k)', NEW u, u = inbox'[k].t_id
         PROVE  /\ MyRow(u)' # {} \/ \E j \in DOMAIN inbox' : k < j /\ Ends(j, u)'
                /\ \A l \in DOMAIN inbox' : k < l /\ Request(l)' =>
                      \E j \in DOMAIN inbox' : k < j /\ j < l /\ Ends(j, u)'
    <3>1. CASE k = n
      <4>1. \A l \in DOMAIN inbox' : ~(n < l)
        <5>1. inbox' \in Seq(Packet) \/ n \in Int
          BY <1>0, <2>2
        <5> QED BY <1>0, <2>2, <2>3
      <4> QED BY <2>3, <2>6, <2>10, <3>1, <4>1
    <3>2. CASE k \in DOMAIN inbox
      <4>1. AskHeld(k) /\ u = inbox[k].t_id
        BY <2>3, <2>10, <3>2 DEF HeldInv, Held, RequestsHeld, Request
      <4>2. PICK j \in DOMAIN inbox : k < j /\ Ends(j, u)
        BY <2>5, <4>1 DEF AskHeld
      <4>3. ASSUME NEW l \in DOMAIN inbox', k < l, Request(l)'
            PROVE  \E m \in DOMAIN inbox' : k < m /\ m < l /\ Ends(m, u)'
        <5>1. CASE l = n
          BY <2>3, <2>7, <4>2, <5>1
        <5>2. CASE l \in DOMAIN inbox /\ Request(l)
          <6>1. PICK m \in DOMAIN inbox : k < m /\ m < l /\ Ends(m, u)
            BY <4>1, <4>3, <5>2 DEF AskHeld
          <6> QED BY <2>7, <6>1
        <5> QED BY <2>8, <4>3, <5>1, <5>2
      <4> QED BY <2>7, <4>2, <4>3
    <3> QED BY <2>3, <2>10, <3>1, <3>2
  <2>11. RequestsHeld'
    BY <2>10 DEF RequestsHeld, AskHeld
  <2>12. NotDenied' /\ RowsHeld' /\ OneInUse' /\ Turns'
    BY <1>0, <2>4, <2>6, <2>9 DEF HeldInv, Held, NotDenied, RowsHeld, OneInUse, Turns
  <2> QED BY <2>11, <2>12 DEF Held
<1>3. ASSUME NEW p \in Others, NEW t \in Transfer_ID, NEW accept \in BOOLEAN,
             peer_reply(t, p, accept)
      PROVE  Held'
  <2>1. PICK a : db_client_accept(t, p, a)
    BY <1>3 DEF peer_reply
  <2>2. (\A u : MyRow(u)' \subseteq MyRow(u)) /\ \A u : ~GivenUp(u)
    <3>1. \A u : MyRow(u) # {} => MyRow(u)' # {}
      BY <1>0, <2>1, AcceptKeeps
    <3>2. \A u : MyRow(u)' \subseteq MyRow(u)
      BY <1>0, <2>1, OthersAccept
    <3> QED BY <3>1, <3>2 DEF GivenUp
  <2>3. More
    <3> DEFINE q == [type |-> "REPLY", t_id |-> t, from |-> p, accept |-> accept]
    <3>1. q.type # "REQUEST" /\ (inbox' = inbox \/ inbox' = Append(inbox, q))
      BY <1>3 DEF peer_reply
    <3> HIDE DEF q
    <3> QED BY <3>1, OneMore DEF More
  <2> QED BY <1>0, <2>2, <2>3, MoreRows DEF HeldInv
<1>4. ASSUME NEW p \in Others, NEW t, peer_cancel_recv(t, p) PROVE Held'
  <2>1. \A u : MyRow(u)' = MyRow(u)
    BY <1>4, ManagerAssumption DEF peer_cancel_recv, db_client_delete, MyRow
  <2>2. More
    BY <1>4, OneMore DEF peer_cancel_recv, Cancelled
  <2> QED BY <1>0, <2>1, <2>2, MoreRows DEF HeldInv, GivenUp
<1>5. ASSUME NEW p, NEW t, peer_cancel_host(t, p) PROVE Held'
  <2>1. (\A u : MyRow(u)' \subseteq MyRow(u)) /\ \A u : GivenUp(u) => u = t
    BY <1>5 DEF peer_cancel_host, db_cleanup_transfer, MyRow, GivenUp
  <2>2. ToldOfCancel({t}) # {} <=> \E w \in MyRow(t) : w.accepted # 0
    BY DEF ToldOfCancel
  <2>3. CASE ToldOfCancel({t}) # {}
    <3>1. inbox' = Append(inbox, Cancelled(t, p)) /\ Cancelled(t, p).type = "CANCEL"
          /\ Cancelled(t, p).t_id = t
      BY <1>5, <2>3 DEF peer_cancel_host, Cancelled
    <3>2. More /\ \E j \in DOMAIN inbox' \ DOMAIN inbox : Ends(j, t)'
      BY <3>1, OneMore DEF Ends
    <3> QED BY <1>0, <2>1, <3>2, MoreRows DEF HeldInv
  <2>4. CASE ToldOfCancel({t}) = {}
    <3>1. inbox' = inbox /\ More
      BY <1>5, <2>4 DEF peer_cancel_host, More
    <3>2. ASSUME NEW u, GivenUp(u),
                 \/ \E i \in Rows : Used(recv[i]) /\ recv[i].t_id = u
                 \/ \E k \in DOMAIN inbox : Request(k) /\ inbox[k].t_id = u
          PROVE  FALSE
      BY <2>1, <2>2, <2>4, <3>2, Told DEF HeldInv, GivenUp
    <3> QED BY <1>0, <2>1, <3>1, <3>2, MoreRows DEF HeldInv
  <2> QED BY <2>3, <2>4
<1>6. ASSUME NEW t, peer_complete(t) PROVE Held'
  <2>1. (\A u : MyRow(u)' \subseteq MyRow(u)) /\ \A u : GivenUp(u) => u = t
    BY <1>6 DEF peer_complete, db_cleanup_transfer, MyRow, GivenUp
  <2>2. inbox' = Append(inbox, [type |-> "COMPLETE", t_id |-> t])
    BY <1>6 DEF peer_complete
  <2>3. More /\ \E j \in DOMAIN inbox' \ DOMAIN inbox : Ends(j, t)'
    BY <2>2, OneMore DEF Ends
  <2> QED BY <1>0, <2>1, <2>3, MoreRows DEF HeldInv
<1>7. ASSUME NEW t, peer_data(t) PROVE Held'
  <2>1. \A u : MyRow(u)' = MyRow(u)
    BY <1>7 DEF peer_data, MyRow, db
  <2>2. More
    BY <1>7, OneMore DEF peer_data
  <2> QED BY <1>0, <2>1, <2>2, MoreRows DEF HeldInv, GivenUp
<1>8. ASSUME NEW p \in Others, close_client(p) PROVE Held'
  <2> DEFINE received == {w.transfer_id : w \in {v \in transfer_clients : v.client_id = p}}
             News(q) == [k \in DOMAIN q |-> Cancelled(q[k], p)]
  <2>1. PICK a \in Ordered(ToldOfCancel(Created(p))), b \in Ordered(received) :
          inbox' = inbox \o News(a) \o News(b)
    BY <1>8 DEF close_client
  <2>2. /\ \A u : MyRow(u)' \subseteq MyRow(u)
        /\ \A u : GivenUp(u) => u \in Created(p)
    BY <1>8, ManagerAssumption DEF close_client, MyRow, GivenUp
  <2>3. News(a) \in Seq(Packet) /\ News(b) \in Seq(Packet)
    <3>1. /\ ToldOfCancel(Created(p)) \subseteq Transfer_ID \ {0}
          /\ received \subseteq Transfer_ID \ {0}
      <4>1. ToldOfCancel(Created(p)) \subseteq Transfer_ID /\ received \subseteq Transfer_ID
        BY <1>0 DEF ToldOfCancel, Created, DbTypes, TransferTable, ClientTable
      <4>2. 0 \notin ToldOfCancel(Created(p)) /\ 0 \notin received
        BY DEF ToldOfCancel, Created, AnswersInv, KnownRows
      <4> QED BY <4>1, <4>2
    <3> QED BY <3>1, CancelSeq
  <2>4. /\ \A k \in DOMAIN News(a) : News(a)[k].type = "CANCEL" /\ News(a)[k].t_id = a[k]
        /\ \A k \in DOMAIN News(b) : News(b)[k].type = "CANCEL"
        /\ DOMAIN News(a) = DOMAIN a
    BY DEF Cancelled
  <2>5. PICK x, y : x = News(a) /\ y = News(b)
    OBVIOUS
  <2>6. /\ x \in Seq(Packet) /\ y \in Seq(Packet) /\ inbox' = inbox \o x \o y
        /\ \A k \in DOMAIN x : x[k].type = "CANCEL" /\ x[k].t_id = a[k]
        /\ \A k \in DOMAIN y : y[k].type = "CANCEL"
        /\ DOMAIN x = DOMAIN a
    BY <2>1, <2>3, <2>4, <2>5
  <2> HIDE DEF News, received
  <2>7. /\ \A k \in DOMAIN inbox : k \in DOMAIN inbox' /\ inbox'[k] = inbox[k]
        /\ \A k \in DOMAIN inbox' \ DOMAIN inbox :
              \/ k - Len(inbox) \in DOMAIN x /\ inbox'[k] = x[k - Len(inbox)]
              \/ k - Len(inbox) - Len(x) \in DOMAIN y /\ inbox'[k] = y[k - Len(inbox) - Len(x)]
        /\ \A k \in DOMAIN inbox' \ DOMAIN inbox : \A l \in DOMAIN inbox : l < k
        /\ \A k \in DOMAIN x : /\ Len(inbox) + k \in DOMAIN inbox' \ DOMAIN inbox
                               /\ inbox'[Len(inbox) + k] = x[k]
    BY <1>0, <2>6
  <2>8. More
    BY <2>6, <2>7 DEF More
  <2>9. ASSUME NEW u, GivenUp(u),
               \/ \E i \in Rows : Used(recv[i]) /\ recv[i].t_id = u
               \/ \E k \in DOMAIN inbox : Request(k) /\ inbox[k].t_id = u
        PROVE  \E j \in DOMAIN inbox' \ DOMAIN inbox : Ends(j, u)'
    <3>1. \E w \in MyRow(u) : w.accepted # 0
      BY <2>9, Told DEF HeldInv, GivenUp
    <3>2. u \in ToldOfCancel(Created(p))
      BY <2>2, <2>9, <3>1 DEF ToldOfCancel
    <3>3. PICK k \in DOMAIN a : a[k] = u
      BY <3>2 DEF Ordered
    <3>4. PICK j : j = Len(inbox) + k
      OBVIOUS
    <3>5. j \in DOMAIN inbox' \ DOMAIN inbox /\ inbox'[j].type = "CANCEL" /\ inbox'[j].t_id = u
      BY <2>6, <2>7, <3>3, <3>4
    <3> QED BY <3>5 DEF Ends
  <2> QED BY <1>0, <2>2, <2>8, <2>9, MoreRows DEF HeldInv
<1> QED BY <1>2, <1>3, <1>4, <1>5, <1>6, <1>7, <1>8 DEF Peers, Hosts

\* What this client reads: the only packets that end the transfer of the row in
\* use find it, and a request finds none in use.
LEMMA AnalizeHeld ==
  ASSUME TypeOK, AnswersInv, FlowInv, HeldInv, analize, ~ClientEnds PROVE Held'
<1>1. /\ inbox \in Seq(Packet) /\ inbox # << >> /\ inbox' = Tail(inbox) /\ Inbox
      /\ phase = "read" /\ phase' = "read" /\ transfer_clients' = transfer_clients
      /\ 1 \in DOMAIN inbox
  <2>1. inbox # << >> /\ inbox' = Tail(inbox) /\ transfer_clients' = transfer_clients
        /\ phase = "read" /\ phase' = "read"
    BY DEF analize, db
  <2> QED BY <2>1 DEF TypeOK, Inbox
<1>2. PICK p : p = inbox[1]
  OBVIOUS
<1>3. /\ p \in Packet
      /\ \/ p.type \in {"VALID", "INVALID", "REPLY"} /\ UNCHANGED recv
         \/ p.type = "CANCEL" /\ recv_cancel(p)
         \/ p.type = "DATA" /\ recv_data(p)
         \/ p.type = "COMPLETE" /\ recv_complete(p)
         \/ p.type = "REQUEST" /\ free_recv # {} /\ create_recv_request(p)
  <2>1. p \in Packet /\ p = Head(inbox)
    BY <1>1, <1>2
  <2>2. \/ p.type \in {"VALID", "INVALID"} /\ host_request_valid(p)
        \/ p.type = "REPLY" /\ host_request_reply(p)
        \/ p.type = "CANCEL" /\ recv_cancel(p)
        \/ p.type = "DATA" /\ recv_data(p)
        \/ p.type = "COMPLETE" /\ recv_complete(p)
        \/ p.type = "REQUEST" /\ free_recv # {} /\ create_recv_request(p)
    BY <2>1 DEF analize
  <2> QED BY <2>1, <2>2 DEF host_request_valid, host_request_reply
<1>4. RequestsHeld'
  BY <1>1, LessHeld DEF HeldInv, Held
<1>5. DOMAIN recv = Rows /\ \A j \in Rows : recv[j] \in RecvRow
  BY DEF TypeOK
<1>6. \A S \in SUBSET Rows : S # {} => First(S) \in S
  BY FirstIn
<1>7. \A t : MyRow(t)' = MyRow(t)
  BY <1>1 DEF MyRow
<1>8. ASSUME \A i \in Rows : Used(recv'[i]) =>
                Used(recv[i]) /\ recv'[i].t_id = recv[i].t_id /\ recv'[i].state = recv[i].state
                /\ ~Ends(1, recv[i].t_id)
      PROVE  Held'
  <2>1. OneInUse' /\ NotDenied'
    BY <1>7, <1>8 DEF HeldInv, Held, OneInUse, NotDenied
  <2>2. Turns'
    BY <1>1, <1>8 DEF HeldInv, Held, Turns, Used, Decided
  <2>3. ASSUME NEW i \in Rows, Used(recv'[i]), NEW t, t = recv'[i].t_id PROVE HeldAt(t)'
    <3>1. HeldAt(t) /\ ~Ends(1, t)
      BY <1>8, <2>3 DEF HeldInv, Held, RowsHeld
    <3> QED BY <1>1, <3>1, LessAt
  <2>4. RowsHeld'
    BY <2>3 DEF RowsHeld
  <2> QED BY <1>4, <2>1, <2>2, <2>4 DEF Held
<1>9. CASE p.type \in {"VALID", "INVALID", "REPLY"} /\ UNCHANGED recv
  <2>1. \A t : ~Ends(1, t)
    BY <1>2, <1>9 DEF Ends
  <2> QED BY <1>8, <1>9, <2>1
<1>10. CASE p.type = "DATA" /\ recv_data(p)
  <2>1. \A t : ~Ends(1, t)
    BY <1>2, <1>10 DEF Ends
  <2>2. \A i \in Rows : recv'[i].t_id = recv[i].t_id /\ recv'[i].state = recv[i].state
    BY <1>5, <1>10 DEF recv_data, RecvRow
  <2> QED BY <1>8, <2>1, <2>2 DEF Used
<1>11. CASE \/ p.type = "CANCEL" /\ recv_cancel(p)
            \/ p.type = "COMPLETE" /\ recv_complete(p)
  <2>1. PICK t0 : t0 = p.t_id
    OBVIOUS
  <2>2. PICK r : r = IF p.type = "CANCEL" THEN Cancellable(recv, t0) ELSE Receiving(t0)
    OBVIOUS
  <2>3. PICK j : j = First(r)
    OBVIOUS
  <2>4. r # {} => j \in Rows /\ Used(recv[j]) /\ recv[j].t_id = t0 /\ recv'[j].state = "EMPTY"
                  /\ \A i \in Rows : i # j => recv'[i] = recv[i]
    <3>1. SUFFICES ASSUME r # {}
                   PROVE  j \in Rows /\ Used(recv[j]) /\ recv[j].t_id = t0 /\ recv'[j].state = "EMPTY"
                          /\ \A i \in Rows : i # j => recv'[i] = recv[i]
      OBVIOUS
    <3>2. j \in r
      BY <1>6, <2>2, <2>3, <3>1 DEF Cancellable, Receiving
    <3>3. j \in Rows /\ Used(recv[j]) /\ recv[j].t_id = t0
      BY <2>2, <3>2 DEF Cancellable, Receiving, Used
    <3>4. PICK v : recv' = [recv EXCEPT ![j] = v] /\ v.state = "EMPTY"
      <4>1. CASE p.type = "CANCEL"
        <5>1. recv' = [recv EXCEPT ![j] = zero_recv(recv[j])]
          BY <1>11, <2>1, <2>2, <2>3, <3>1, <4>1 DEF recv_cancel
        <5>2. zero_recv(recv[j]).state = "EMPTY"
          BY <1>5, <3>3 DEF zero_recv, RecvRow
        <5> QED BY <5>1, <5>2
      <4>2. CASE p.type = "COMPLETE"
        <5>1. recv' = [recv EXCEPT ![j] = zero_recv([recv[j] EXCEPT !.open = FALSE])]
          BY <1>11, <2>1, <2>2, <2>3, <3>1, <4>2 DEF recv_complete
        <5>2. zero_recv([recv[j] EXCEPT !.open = FALSE]).state = "EMPTY"
          BY <1>5, <3>3 DEF zero_recv, RecvRow
        <5> QED BY <5>1, <5>2
      <4> QED BY <1>11, <4>1, <4>2
    <3> QED BY <1>5, <3>3, <3>4
  <2>5. r = {} => UNCHANGED recv
    BY <1>11, <2>1, <2>2 DEF recv_cancel, recv_complete
  <2>6. ASSUME NEW i \in Rows, Used(recv[i]), recv[i].t_id = t0 PROVE i \in r
    <3>1. recv[i].state \in {"GET_RESPONSE", "ACTIVE"}
      BY <1>1, <2>6 DEF HeldInv, Held, Turns, Used
    <3>2. ASSUME p.type = "COMPLETE", recv[i].state = "GET_RESPONSE" PROVE FALSE
      <4>1. Many(inbox, "COMPLETE", t0) = 0
        BY <2>6, <3>2 DEF FlowInv, FlowsIn, Waiting, Fresh
      <4>2. At(inbox, "COMPLETE", t0) = {}
        BY <1>1, <4>1, AtFinite
      <4> QED BY <1>1, <1>2, <2>1, <3>2, <4>2 DEF At
    <3> QED BY <1>11, <2>2, <2>6, <3>1, <3>2 DEF Cancellable, Receiving
  <2>7. ASSUME NEW i \in Rows, Used(recv'[i])
        PROVE  recv'[i] = recv[i] /\ recv[i].t_id # t0
    <3>1. recv'[i] = recv[i]
      BY <2>4, <2>5, <2>7 DEF Used
    <3>2. ASSUME recv[i].t_id = t0 PROVE FALSE
      <4>1. i \in r /\ Used(recv[i])
        BY <2>6, <2>7, <3>1, <3>2
      <4>2. i = j
        BY <2>4, <3>2, <4>1 DEF FlowInv, Apart
      <4> QED BY <2>4, <2>7, <4>1, <4>2 DEF Used
    <3> QED BY <3>1, <3>2
  <2>8. \A t : Ends(1, t) => t = t0
    BY <1>2, <2>1 DEF Ends
  <2> QED BY <1>8, <2>7, <2>8
<1>12. CASE p.type = "REQUEST" /\ free_recv # {} /\ create_recv_request(p)
  <2>1. PICK t0 : t0 = p.t_id
    OBVIOUS
  <2>2. Request(1) /\ inbox[1].t_id = t0 /\ \A k \in DOMAIN inbox : ~(k < 1) /\ k \in Int
    BY <1>1, <1>2, <1>12, <2>1 DEF Request
  <2>3. AskHeld(1)
    BY <1>1, <2>2 DEF HeldInv, Held, RequestsHeld
  <2>4. \A i \in Rows : ~Used(recv[i])
    BY <1>1, <2>2 DEF HeldInv, Held, RowsHeld, HeldAt
  <2>5. PICK j, v : j = First(free_recv) /\ recv' = [recv EXCEPT ![j] = v]
                    /\ v.state = "GET_RESPONSE" /\ v.t_id = t0
    <3> DEFINE v == [state |-> "GET_RESPONSE", t_id |-> t0, bytes |-> 0, open |-> TRUE]
    <3>1. recv' = [recv EXCEPT ![First(free_recv)] = v]
      BY <1>12, <2>1 DEF create_recv_request
    <3>2. v.state = "GET_RESPONSE" /\ v.t_id = t0
      OBVIOUS
    <3> HIDE DEF v
    <3> QED BY <3>1, <3>2
  <2>6. j \in Rows
    BY <1>6, <1>12, <2>5 DEF free_recv
  <2>7. recv'[j].state = "GET_RESPONSE" /\ recv'[j].t_id = t0
        /\ \A i \in Rows : i # j => ~Used(recv'[i])
    BY <1>5, <2>4, <2>5, <2>6
  <2>8. OneInUse' /\ Turns'
    BY <2>6, <2>7 DEF OneInUse, Turns, Used, Decided
  <2>9. \A w \in MyRow(t0) : w.accepted # 0
    <3>1. At(inbox, "REQUEST", t0) # {} /\ t0 \in Transfer_ID
      BY <1>1, <1>2, <1>3, <1>12, <2>1 DEF At, Packet
    <3>2. Many(inbox, "REQUEST", t0) # 0
      BY <1>1, <3>1, AtFinite
    <3> QED BY <3>1, <3>2 DEF FlowInv, AskedOnce, Fresh
  <2>10. NotDenied'
    BY <1>7, <2>7, <2>9 DEF NotDenied
  <2>11. HeldAt(t0)'
    <3>1. /\ \A k \in DOMAIN inbox' : k + 1 \in DOMAIN inbox /\ inbox'[k] = inbox[k + 1]
                                      /\ k \in Int /\ k >= 1
          /\ \A k \in DOMAIN inbox : k \in Int /\ (k # 1 => k - 1 \in DOMAIN inbox' /\ inbox'[k - 1] = inbox[k])
      BY <1>1
    <3>2. \A j1 \in DOMAIN inbox : 1 < j1 /\ Ends(j1, t0) => j1 - 1 \in DOMAIN inbox' /\ Ends(j1 - 1, t0)'
      BY <3>1 DEF Ends
    <3>3. MyRow(t0)' # {} \/ \E m \in DOMAIN inbox' : Ends(m, t0)'
      BY <1>7, <2>2, <2>3, <3>2 DEF AskHeld
    <3>4. ASSUME NEW k \in DOMAIN inbox', Request(k)'
          PROVE  \E m \in DOMAIN inbox' : m < k /\ Ends(m, t0)'
      <4>1. k + 1 \in DOMAIN inbox /\ 1 < k + 1 /\ Request(k + 1)
        BY <3>1, <3>4 DEF Request
      <4>2. PICK m \in DOMAIN inbox : 1 < m /\ m < k + 1 /\ Ends(m, t0)
        BY <2>2, <2>3, <4>1 DEF AskHeld
      <4> QED BY <3>1, <3>2, <4>2
    <3> QED BY <3>3, <3>4 DEF HeldAt
  <2>12. RowsHeld'
    BY <2>7, <2>11 DEF RowsHeld
  <2> QED BY <1>4, <2>8, <2>10, <2>12 DEF Held
<1> QED BY <1>3, <1>9, <1>10, <1>11, <1>12

\* The invariant is inductive.
LEMMA HeldStep ==
  ASSUME Receiver, TypeOK, AnswersInv, FlowInv, HeldInv, [Next]_vars PROVE HeldInv'
<1>1. NoHosting' /\ OneTransfer'
  BY NeverHosts, OneAtTheServer DEF Receiver, HeldInv
<1>2. CASE ClientEnds
  BY <1>1, <1>2, EndHeld DEF HeldInv
<1>3. CASE UNCHANGED <<recv, inbox, db>> /\ (phase' = phase \/ phase' = "work")
  <2>1. NoRowBegins /\ Turns'
    BY <1>3 DEF NoRowBegins, HeldInv, Held, Turns
  <2> QED BY <1>1, <1>3, <2>1, QuietHeld DEF HeldInv, db
<1>4. GUI \/ next_round \/ UNCHANGED vars =>
         ClientEnds \/ (UNCHANGED <<recv, inbox, db>> /\ (phase' = phase \/ phase' = "work"))
  BY DEF GUI, render, click, transfer, next_round, vars, arrays
<1>5. ~wait_work
  BY DEF wait_work, HeldInv, NoHosting, HostWork
<1>6. process_cmds \/ do_work \/ (analize /\ ~ClientEnds) \/ Peers \/ Hosts => Held'
  BY ProcessHeld, WorkHeld, AnalizeHeld, PeersHeld DEF HeldInv, Receiver
<1> QED BY <1>1, <1>2, <1>3, <1>4, <1>5, <1>6 DEF Next, Network, HeldInv

\* transfer_manager.cpp: a client that only receives, one transfer at a time, has
\* no row that waits for ever.  Its row is the only one in use, of a transfer the
\* server has it down for or whose CANCEL or COMPLETE comes before any other
\* request, and recv_cancel and recv_complete find the row: when packets are read
\* what the user has decided is sent, so that its state is one they look for.
THEOREM ReceiversAgree == Receiver => (Spec => []RecvAgrees)
<1> SUFFICES ASSUME Receiver PROVE Spec => []RecvAgrees
  OBVIOUS
<1>1. Spec => [](TypeOK /\ AnswersInv)
  BY AnswersAlways DEF Receiver
<1>2. TypeOK /\ TypeOK' /\ AnswersInv /\ FlowInv /\ [Next]_vars => FlowInv'
  BY FlowStep DEF Receiver
<1>3. TypeOK /\ AnswersInv /\ FlowInv /\ HeldInv /\ [Next]_vars => HeldInv'
  BY HeldStep
<1>4. HeldInv => RecvAgrees
  <2> SUFFICES ASSUME HeldInv, NEW i \in Rows, Used(recv[i]), NEW t, t = recv[i].t_id
               PROVE  MyRow(t) # {} \/ Queued("CANCEL", t) \cup Queued("COMPLETE", t) # {}
    BY DEF RecvAgrees, Used
  <2> QED BY DEF HeldInv, Held, RowsHeld, HeldAt, Ends, Queued
<1> QED BY <1>1, <1>2, <1>3, <1>4, FlowInit, HeldInit, PTL DEF Spec
=============================================================================
