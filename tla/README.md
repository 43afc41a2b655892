# Quickshare in TLA+

Quickshare moves files between the computers of a session through a relay
server. The server (`qs_server/`, C) is one thread around `epoll_wait` with an
SQLite database; the client (`src/`, `include/`, C++) is a GUI thread and a
network thread. This directory holds a specification of the parts whose
correctness depends on the order of events, TLC configurations that check them
on small instances, and proofs for instances of every size.

## 1. The system

| Part | State | Operations | Talks to |
|---|---|---|---|
| packet ring `queue.c` | `items`, `head`, `tail`, `count` | `queue_init`, `queue_reset`, `enqueue`, `dequeue`, `queue_peek` | one per client of the server; a full ring makes `enqueue` return NULL, which the callers assert away |
| client table `client.c` | 32 slots: `id`, `fd`, `state`, `session_id`, buffers, ring | `client_init`, `client_find`, `client_find_by_id`, `client_close` | every handler |
| sessions and transfers `database.c`, `db_init.sql` | tables Sessions, Transfers, TransferClients | one prepared statement per call, transactions around two handlers and disconnects | survives the process |
| packet handlers `net_packet.c` | none of its own | INTRO, REQUEST, REPLY, DATA, CANCEL, COMPLETE | reads the table and the database, queues packets for other clients |
| disconnects `net_close.c` | none | `close_client` | cancels transfers, tells the session |
| input `net_read.c` | `read_buf`, `decrypt_buf` | handshake, frame reassembly | calls the packet handlers |
| output `net_write.c`, `secure.c` | `encrypted_buf` | `write_data`, `write_bytes`, `encrypt` | takes packets off the ring |
| event loop `network.c` | epoll set | `check_for_write`, `server_loop`, `accept_client` | calls all of the above |
| client: transfers `transfer_manager.cpp` | 6 host and 6 receive transfers with a state each | commands of the GUI, packets of the server, `do_work` | network thread calls it; commands come through the lock-free queue |
| client: network `network.cpp` | connection state, `rbuf`, `wbuf` | connect, handshake, poll loop | server; GUI sets and reads `state` |
| client: command queue `LockFreeQueueCpp11.h` | ring of nodes with atomic indices | `push`, `peek`, `pop` | GUI thread to network thread |
| client: user list, backlog `users.cpp`, `transfer_manager.hpp` | a vector, a dirty flag, a mutex | add, remove, copy | network thread writes, GUI copies |
| client: files `file_manager.cpp` | an open file, counters | read and write in packets | transfers |
| GUI `context.cpp`, `main_menu.cpp`, `login_menu.cpp` | what is drawn | user input | gives commands |
| memory pool `mem.c` | a bump pointer | `alloc` | start of both programs |

What makes it hard:

* Packets wait. The server acts at once, a client acts when its queue has been
  written and read. Requests, answers, cancels and disconnects cross.
* Identity is borrowed. A client's id is the second it connected in, a
  transfer's number is a rowid SQLite may give again, a slot is used again.
* Everything has a limit that is an assertion: the ring of 16, the
  `encrypted_buf` of two packets, the six receive transfers.
* The database outlives the process, the connections do not.
* One socket's output is driven by level-triggered events asked for once per
  round, through a buffer that holds less than two full records.

What makes each part correct: the ring is a FIFO and its pointers stay good as
long as they are used; every user list is the session; the database agrees with
the table of clients; host, database and recipients agree on who takes part;
whoever waits for a transfer is told when it ends; nothing crosses from one
session to another; every queued packet is written, and no byte is lost.

## 2. Modules

| Module | Models |
|---|---|
| `BoundedFifo` | what a packet queue promises |
| `RingQueue` | `queue.c`; shown to implement `BoundedFifo` |
| `MCRingQueue` | RingQueue for TLC, and the fact about the mask `& (len - 1)` |
| `RingQueueProofs` | theorems about RingQueue |
| `QsServer` | the server: client table, database, packet handlers, disconnects, stop and start, and the part of the clients that decides what they send |
| `MCQsServer` | QsServer for TLC |
| `QsServerProofs` | theorems about QsServer: types, tables, user lists |
| `QsTransferProofs` | theorems about the transfers of QsServer |
| `ServerWrite` | one connection's output: event loop, `write_data`, `encrypted_buf`, the kernel's buffer |
| `CommandQueue` | the lock-free queue between the client's threads, access by access; shown to implement `BoundedFifo` |
| `MCCommandQueue` | CommandQueue for TLC, the rounding of the capacity and the mask |
| `CommandQueueProofs` | theorems about CommandQueue |
| `FileStream` | a file's bytes from disk to disk: `File_Manager`, packets, frames, the write buffer, the relay |
| `MCFileStream` | FileStream for TLC |
| `FileStreamProofs` | theorems about FileStream |
| `NetClient` | the client's two threads around login, connection state and user list |
| `NetClientProofs` | theorems about NetClient |
| `ServerWriteProofs` | theorems about ServerWrite |
| `TransferManager` | one client: its transfers, the GUI's commands, the packets it reads and sends, and what the server and the other clients do about them |
| `MCTransferManager` | TransferManager for TLC |
| `TransferManagerProofs` | theorems about TransferManager |

### RingQueue

`enqueue` returns the address of a slot, which its caller fills before it
touches the queue again; the two are one action. `dequeue` returns the address
of a slot it gives back at the same time, and `write_data` reads it afterwards.
The variable `lent` remembers what was in the slot, and `LentSlotIntact` says
until when it can be read. `Succ` stands for the mask; `MCRingQueue` checks that
the two are the same for every power of two up to the 16 slots of `client.c:40`.

### QsServer

A handler runs to its end before the next event, so a handler is an action and
its body, with every call that changes state, one formula. `msg_queue` is the
abstract queue of `BoundedFifo`: an `enqueue` that returns NULL is an assertion
that fails, and the handler becomes `ProcessEnds` (what the handler has written
to the database outside a transaction stays, what it has written inside one is
rolled back when the file is next opened). A handler that puts several packets
on the queues is described by `out`, the sequence for each slot; their order
between queues cannot be observed.

Packets from a client to the server are taken when the client sends them. This
loses no behaviour: the server's packets to that client are delivered at any
later time, so an answer to what the client had seen before it read the rest of
its queue is the client acting earlier. What a client knows, and so which
packets it sends, is `user_list`, `hosting`, `asked` and `joined`, updated when
`write_data` hands it a packet. INVALID makes a client send a CANCEL for
transfer 0, which changes nothing.

`ids` of packets are sets; names, file names and sizes are left out. The key of
a session stands for its rowid. `seconds` are counted only when somebody
connects: `DistinctSeconds` says whether two accepts may fall into one.
`PromptAnswers` says whether a client sends the user's answer before it reads
the next packet; if not, `recv_cancel` skips a transfer in state ACCEPT
(`transfer_manager.hpp:35-42`) and the client keeps it for ever.

### ServerWrite

One slot of the table, whose packets are the sizes of their TLS records, and
the loop of `write_data` step by step, because the kernel's buffer drains
meanwhile. `hang_up` and `accept_client` are the events of the same batch that
close and reuse the slot. A failed `SSL_write` closes the connection and the
loop goes on, as in `net_write.c:122-130`.

### TransferManager

The client from the inside, where `QsServer` sees it from the outside. `host`
and `recv` are the arrays of `Active_Transfer`, with its states, number,
`accept_list`, the packets left or written, and whether the file is open.
`cmd_queue` is the queue between the threads, as a sequence; its atomics are in
module `CommandQueue`.

The GUI thread is two steps for a button, because it is two reads of a row it
does not own: `render` tests the state and draws, `click` reads the number and
pushes the command (`main_menu.cpp:329`). Between them the network thread may
empty the row or use it again. A full queue ends the client for a request or a
cancel and drops an answer, as the callers of `push` do.

The network thread alternates, in `phase`, between `check_write` (`process_cmds`
until the queue is empty, then `do_work`) and reading (`analize`, once per
packet). `do_work` sends at most one packet, chosen as
`host_transfer_work` and `recv_transfer_work` choose it: the first host row that
has something to send, and only if there is none the first receive row.
`wait_work` is the turn in which the first active host row is still inside its
millisecond.

Handlers look for the first row in some state with some number, or `local_id`,
and do nothing if there is none; `First` is the loop's order. `zero_host` and
`zero_recv` leave the file manager as it is, so `open` and `left` survive them.
A REQUEST that finds no free row or no file to write ends the client, because
its result is asserted (`network.cpp:390`); the server then does what
`close_client` does (`ClientEnds`).

The other end is the tables of `QsServer`, restricted to the transfers this
client hosts or receives, and one action per packet a peer may send about them.
A packet to the server is handled when it is made; what the server sends waits
in `inbox` for any time. The server stays up, and so does the session.

Three constants state what the environment is assumed to do, because the code
does not keep its properties without: `SteadyScreen` (nothing changes between
drawing and click), `OneAtATime` (no request while there is a transfer), and
`FreshNumbers` (SQLite gives no number twice).

### CommandQueue

Each action is one access to a shared word of `LockFreeQueueCpp11.h`: `push` is
`Load`, `Check` or `Refuse`, `Claim` or `Retry`, `Fill`, `Publish`; `peek` is
`Peek` and `Copy`, `pop` is `Pop` and `Release`. The copying of an item is not
atomic: it takes from the step before it to its own, which is what `NoTornItem`
is about. The class takes any number of producers and so does the module; the
client has one. `compare_exchange_weak` may fail for no reason. Positions are
`size_t` in the code and naturals here (the capacity divides 2^64).
`claimed` is a history: the items in the order of their positions. The queue it
implements is `Waiting`, what is claimed and not popped; a claimed item whose
producer has not come to `Publish` counts as in the queue, and the consumer
waits for it.

Accesses take effect in the order of the program, as on x86. The loads of
`peek` are relaxed, so a processor that reorders loads promises less.
`MCCommandQueue` checks, for TLC only, that the constructor rounds a capacity
up to a power of two and that the mask of such a capacity is the remainder.

### FileStream

What `TransferManager` counts as packets is here a file's bytes, told apart by
file and place. `SendData` is `read_from_file`: it fills the buffer when it is
empty and cuts a packet from it; `SendEnd` is the `fread` that returns nothing,
or the user's cancel. `wbuf` and `unsent` are the write buffer of `handle()`,
in the loop's two halves `check` and `poll`. A packet is `Hdr` bytes and a body
whose size the header gives; `Asked` is what `SSL_read` is asked for, and it
returns any part of it. The reassembly is the same in `net_read.c:53-81` and
`network.cpp:331-373`, apart from when the loop stops, so both are the operators
`Asked`, `Extend` and `Whole`, and a turn of each loop is an action.

How a transfer is agreed on is the business of the two other modules; here it
is the step `Agree`. `Reconnect` breaks the host's connection between any two
bytes, with the server's half-read frame, and gives its slot to the next
connection, which starts with empty buffers (`client.c:66`); what the server's
`close_client` sends is the CANCEL of the transfers. `ServerNotice` puts packets
with an empty body between the others.

`missed` is a history. A packet in `wbuf` is taken for unsent by `wbuf.len`
only, which stays 0, so if `poll` does not report the socket writable
(`network.cpp:471`, `:317-322`) the next turn converts another packet over it,
or leaves it without asking for EVENT_WRITE. `FileExact` and `TransferEnds` are
stated for runs in which this has not happened; without that restriction both
fail. Nothing in the repository says otherwise, so this is a restriction and not
a failing run.

### NetClient

The GUI thread's steps are the accesses it makes to what it shares: in `Enter`
it reads the state, then it starts the thread or pushes the login, then it sets
the state (`network.cpp:228-246`); `net_check` is a frame of the login menu;
`copy` and `copied` are the two ends of `User_List::copy` under `try_lock`. The
network thread is `server_loop` with the states of `init_conn`, the reading of
an answer or of a user's coming and going, and `clean`. `state` is one word that
both set. The user list is the number of changes it has taken.

Three histories and a predicate say what the code does not promise.
`overwritten`: the GUI thread has set OPENED or CONNECTED over an error or an
answer the network thread had just set; the user then sees "Connecting" until
the window is closed. `Stranded`: a handshake has failed, and `tcp_connect` is
tried on the connected socket for ever (`connect` says EISCONN). `second`:
`session()` looks at nothing but the state (`network.cpp:228-246`), which
`clean()` sets back to UNINITIALIZED while the network thread goes on
(`network.cpp:213`); Enter then queues another login and starts a second network
thread (`new_thread`; `thread_manager.hpp:26` admits eight). There are two ways
to it, and the run reaches both. `SSL_new` fails (`noSsl`), and the thread starts
again. Or `poll` reports an error, the GUI thread, which is about to set
CONNECTED, hides NET_ERROR from the test at `network.cpp:512`, and the thread
cleans up and starts again instead of ending. `OneLogin` says that nothing else
leads there.

From then on two threads work on one `ssl`, `conn`, `rbuf` and `wbuf` without a
lock, which is undefined. The model goes on with the GUI thread and the first of
the two, without the second one's steps. So nothing is said of logins, of the
main menu, of what is shown or of the closing of the window once there is a
second thread: `OneLogin`, `EnteredIsMember`, `ListIsShown`, `ConnectingEnds` and
`CloseEnds` except it. `CleanIsCurrent` needs no exception in the model, where
the second thread takes no step.

## 3. Runs

| Run | Configuration | Shows |
|---|---|---|
| `ring` | `MCRingQueue.cfg` | indices, filled slots, lent slot, refinement of `BoundedFifo`; 4 slots, 3 packets |
| `transfer` | `QsTransfer.cfg` | user lists are the session, nothing crosses sessions, agreement on a transfer and its end; 3 slots, 3 connections, 2 keys, 1 request |
| `client_receives` | `TmReceive.cfg` | a receive row never waits for nothing, no data is dropped, files are open while used; 1 row, 2 requests of a peer, 2 packets a file, 4 clicks |
| `client_hosts` | `TmHost.cfg` | the server has no transfer its host has forgotten, no file before all answers; 2 rows, 2 recipients, 2 requests, 3 clicks |
| `client_progress` | `TmProgress.cfg` | answers, cancels and requests are sent; 1 row of each array, 3 clicks |
| `tables` | `QsTables.cfg` | the database; 2 slots, 3 connections, 2 requests, restarts |
| `write` | `ServerWrite.cfg` | output: no byte lost, no use of a freed connection, everything written |
| `command_queue` | `CommandQueue.cfg` | no torn item, peek and pop agree, refinement of `BoundedFifo`, push is refused only when it must be, every push is popped; 2 producers, 2 nodes, 5 pushes |
| `file_stream` | `FileStream.cfg` | frames are found where they were written, the file arrives whole or is known not to; files of 4 bytes and of 1, buffer 3, packet 2, header 2, socket 5, queue 2 |
| `net_client` | `NetClient.cfg` | one login at a time and what it takes for a second network thread; until there is one, who sees the main menu is a member, and "Connecting" and the closing of the window end; no change of the user list is lost; 3 logins, 2 changes |
| `consent` | `QsConsent.cfg` | `DataOnlyAfterConsent` fails: number given again |
| `overflow` | `ServerWriteOverflow.cfg` | `RecordFits` fails: encrypting after EAGAIN |

Bounds. Three clients are the least with a host, a recipient that answers and
another that does not, or two of one session and one of another; with a slot
that is left and taken again the third is also the one that comes after a client
of a different session. Queues of three packets overflow within these runs, so
the assertions fail in them and the process ends and starts in every passing run
of the server. `MaxTime` counts connections, `MaxRequests` requests,
`MaxTransfer` the largest number. The session keys are symmetric.
In `write` the sizes are such that the
socket takes part of a record and three records fit in `encrypted_buf`; the
queue of two fills.

In `command_queue` five pushes go twice through the queue of two nodes and begin
a third round, and a producer can sleep through a round before its
compare-exchange. In `file_stream` the first file is a full buffer and one byte
more, cut into packets of two bytes of which two come from the first buffer: the
buffer is refilled, ends inside a packet, and the end of the file is found with
an empty buffer. The second file is one byte and follows a first that was
completed, cancelled or cut off. A connection holds one packet and a byte of the
next, so headers and bodies arrive in pieces and together. The queue of two
overflows (`serverUp`). In `net_client` three logins are two refusals and an
acceptance, or a connection lost and tried again, or two at once because of a
second network thread; the second change of the list
comes while the first is being copied.

In the runs of `TransferManager` `MaxCommands` counts clicks, `MaxHost` and `MaxRecv`
the requests of this client and of the others, `Chunks` the packets of a file.
One row is enough to be used again, two rows and two recipients to have one
transfer behind another and an answer missing; four clicks are an answer and a
cancel for each of two transfers. A queue of two commands fills, so the end of
the client is reached, and so is the seventh request (here the second) that
finds no row. The other clients are symmetric in `client_hosts`. Deadlock is not
checked in these runs: a client that has ended does nothing more.

The properties of run `transfer` hold for one transfer after the other. With a
second request they fail, because SQLite gives the number of the first again
while packets about it are still queued; the run `consent` shows what follows,
and in the same way a recipient's late CANCEL for a transfer that has ended ends
one of its own with that number, because `cancel_as_creator` is tried first.
What holds all the same is in run `tables`.

Properties of `QsServer` hold under `DistinctSeconds` and `PromptAnswers` (the
user's answer is sent before the next packet is read) unless the run says
otherwise. Without the first `RosterAccurate` fails: `client.c:59` gives
`time(NULL)` as id, and `send_session_users` takes a user with the newcomer's id
for the newcomer itself. Without the second,
`NoOrphanReceiver` fails: a CANCEL that is read between the user's answer and
its sending meets a row in state ACCEPT, which `can_cancel` does not admit
(`transfer_manager.hpp:35-42`), and the row stays for ever. `TransferManager`
shows when that happens: `RecvAgrees` holds for a client that hosts nothing,
because nothing goes before its answers, and fails when it hosts at the same
time. `HostKnows` fails without `SteadyScreen`: a click on a row that has just
been emptied reads the number 0, cancels a request that still waits for VALID,
and the server, told to cancel 0, keeps the transfer. `NoDataDropped` fails
without `FreshNumbers`, which the two other runs do without. No comment,
assertion or test says otherwise of any of these, so they are assumptions and
not runs. Two more of this kind: `packet_cancel` deletes a recipient by client
only (`database.c:34`), which takes it out of all its transfers; and
`packet_data` queues as fast as the host sends, so that a slow recipient's queue
fills and `assert(packet)` ends the server (`TransferEnds` excepts `~serverUp`).

Two modules assume that the client's socket takes every packet. In
`TransferManager` what `do_work` puts into `wbuf` is sent, and in `NetClient` so
is an intro (`SendIntro`). The code can lose a packet there: what is in `wbuf`
counts as unsent only while `wbuf.len` is not 0 (`network.cpp:471`), so a packet
that found the socket full is overwritten by the next one. `FileStream` models
that (`missed`), and its `FileExact` and `TransferEnds` except it; what
`TransferManager` and `NetClient` show, they show of clients that lose none.
Without the assumption `HostKnows`, `DecisionIsSent` and `ConnectingEnds` would
fail.

The type invariants are checked in the modules with proofs that rest on them
(`ServerWriteProofs` and `NetClientProofs` have their own, `Counted` and
`WireTypes`).

### What the failing runs show

* `consent`: A hosts a transfer, cancels it, hosts another, which gets the same
  number. B's answer to the first accepts the second, and data comes before B
  has seen the request.
* `overflow`: each EPOLLOUT whose write ends in EAGAIN still encrypts one more
  packet.

## 4. Fairness

`ServerWrite`: `WF(Server)`, the thread of the server runs on, and
`WF(peer_reads)`, the peer goes on reading. Both are needed and neither is asked
of the environment's other actions: nobody has to hang up and no packet has to
be queued.

`TransferManager` (`FairSpec`): `WF(process_cmds)` and `WF(next_round)`, the
network thread's loop runs on (`handle` polls with a timeout). `SF(do_work)`
because the thread comes back to it again and again and the millisecond of
`wait_work`, which is enabled in the same states, passes. Neither the user, nor
the peers, nor the reading of packets has to happen.

`CommandQueue` (`FairSpec`): each thread goes on with the call it is in,
`WF(Push(p))` and `WF(Consumer)`, and nobody has to begin a push. `SF(Claim(p))`
because a weak compare-exchange may fail for no reason but not always.

`FileStream` (`FairSpec`): the loops of the host, the server and the recipient
go on (`WF` of each), and `SF(SendData \/ SendEnd("COMPLETE"))`, because the
millisecond of WAIT_WORK, enabled in the same states, passes. No connection has
to break and no user has to cancel. That reading goes on at the server even
when the host's queue is full is the event loop's, see `ServerWrite`.

`NetClient` (`FairSpec`): both threads go on, the server answers intros, and
memory for an SSL object is found at last (`SF(SslNew)`). `TlsConnect` or
`TlsFails` happens at last: `select` in `tls_connect` has no timeout and does
not look at `active`, so that a peer which says nothing in the handshake would
hold up the closing of the window; fairness of the thread assumes it does not.

`QsServer` is a safety specification; clients need not do anything.

## 5. Proofs

`RingQueueProofs`, for every ring length and every set of packets. The inductive
invariant is the conjunction of the four invariants: that a filled slot is not
overwritten needs `IndicesAgree`, and so does `LentSlotIntact`. The refinement
follows from the invariant and the fact that `Contents` is a sequence of `count`
items; each operation is shown to be the operation of `BoundedFifo`.
Assumption: the length is positive.

`QsServerProofs`, for every size of table, queues and recipients, every set of
keys and every bound. `Typing` has one lemma per handler; each splits into the
end of the process, which resets everything, and the sending of packets, where
the sequences are shown to be sequences of packets (a lemma for every shape of
`out`; that `SetToSeq` gives a sequence needs that a client's transfers are
finitely many). `NoOrphanRows` rests on the lemma
`HandlerTables`: whatever the handler, either it removes transfers together
with their participants, or it adds one transfer above all numbers in use.
`RostersAgree` needs `DistinctSeconds`, because a client's id is the second of
its accept (`client.c:59`) and without it `RosterAccurate` is false. The
inductive invariant `SessionInv` says that ids grow also across restarts
(`Identities`), that who has joined nothing shows nobody and is told of nobody
(`Outsiders`), that nobody is told of itself (`NotItself`), that nobody shows a
client that is still to join (`Newcomers`), and, for every client and every id,
that what is shown and the arrivals and departures still queued add up to the
session (`Roster`). Assumption: `ServerAssumption` (the sizes are numbers, no key
is session 0).

`QsTransferProofs` goes on from there, with the same assumption and hypothesis.
`TablesInv` adds that a client is asked only about transfers of this process
(`AskedNow`), that creators are clients of now or before (`CreatorsKnown`), and
that creator and participants of such a transfer are online in one session
(`TransfersOnline`). `TablesFollowClients` is its first consequence, and so is
`ReplyAssertionHolds`: the assertion of `net_packet.c:342`, that the creator of an
answered transfer is connected, cannot fail.

The theorems about what host, server and recipients hold of a transfer need one
more hypothesis, on the steps: `[][NumbersFree]_vars` says that a transfer is
given only a number that no connected client still uses. The table has no
AUTOINCREMENT, so SQLite may do otherwise, and then these properties are false
(run `consent` shows how). `TalkInv` says that numbers are unique (`Numbers`), that
who has joined nothing takes part in nothing (`Strangers`), that what a client
hosts, or is about to be told it hosts, is its own (`Hosts`) and nobody receives
its own transfer (`NotOwn`), that the host knows every row of its transfer
(`Covers`), and that an answer the host has heard, or will, is in the table
(`Heard`). From it follow `HostsOwnTransfers` and `EndsAreAnnounced`; with
`Invited`, that who is asked is in the creator's session, `SessionsAreApart`.

`HostsAgree` and `NobodyWaitsInVain` need also `[][OneEach]_vars`: a client is a
recipient of one transfer at a time, because `db_client_delete` goes by client
only (`database.c:34`) and a cancel takes it out of all. `AnswerInv` then says
that a client has one row (`OneRow`) and is asked once (`Once`), that who is to
answer has its row (`Unanswered`), and that the host counts on nobody whose
cancel it will not read (`Right`). `NobodyWaitsInVain` adds `Guests` and the
hypothesis `PromptAnswers`. The two hypotheses on steps hold of every step of run
`transfer`, whose one request they therefore do not restrict; the theorems are
about any number of requests.

`TransferManagerProofs`, for every number of rows, clients, packets and clicks.
`Typing` and `OpenFiles` hold whatever the three assumptions about the
environment. `Typing` has one lemma per action. Where a handler uses the row
`First` picks, a set that is not empty has a least row because < is well founded
on the naturals (`FirstIn`). `OpenFiles` is inductive on top of `Typing`:
`OpenRows` says of every value a handler gives a row that its file is open if it
came from a row in use, and each handler's step shows that the row it found was
in use.

* `HostsKnow` under `SteadyScreen`. Its invariant `KnowInv` says that a row that waits
  for VALID has number 0 (`RowNumbers`), that no cancel, packet or transfer has it
  (`CmdNumbers`, `InboxNumbers`, `TableNumbers`), that `local_id` finds the row that
  asked (`LocalIds`), and that a transfer of the table is hosted by a row or
  announced to one.
* `AnswersBeforeData` under `FreshNumbers`. `AnswersInv`: whom the server waits for
  is a recipient of the row whose answer the row lacks, an active row lacks none
  (`AnswersIn`), and packets on their way are true of the table (`Truthful`): VALID
  names everybody who is waited for, an answer and a cancel are about somebody who
  no longer is. The lemma `HostRows` lists what any step can do to a host row.
* `DataIsWritten` under `FreshNumbers`. `FlowInv` counts the packets of a transfer in
  the inbox (`Many`): before the client has accepted, none (`Fresh`); after, what is
  written and what waits is what was sent (`Flowing`); a transfer is asked for once
  (`AskedOnce`) and has one row (`Apart`), so that `First` finds it.
* `ReceiversAgree` for a `Receiver`, which is what `TmReceive.cfg` says: a client that
  hosts nothing, one transfer at a time, no number twice. `RecvAgrees` is not
  inductive; `HeldInv` is. It says that the row in use is the only one
  (`OneInUse`), that when packets are read no decision of the user waits to be
  sent (`Turns`, which is why `recv_cancel` always finds the row), that the row's
  transfer is in the table or its end is in the inbox, and in front of any later
  request (`RowsHeld`), and the same of the transfer of every request that still
  waits (`RequestsHeld`).

Assumption: `ManagerAssumption` (the sizes are numbers, `Me` is not one of
`Others`).

`FileStreamProofs`, for every list of files, every size of buffers, packets,
headers and sockets, every queue and any number of broken connections. What is
on the way is seen as one line of packets: the recipient's bytes, its queue at the
server, the server's bytes, `wbuf`; every step lengthens the line, shortens it or
moves a border in it. `HostInv` is the types, what `File_Manager` holds
(`BufferInv`), the two halves of the loop (`LoopInv`), and that each stream is a
begun frame followed by whole ones (`Streams`), from which `FramesAreFound`.
`OrderInv` says that the packets of a transfer are in the line in the order of its
file (`Ordered`) after everything that is written (`Written`): `BytesInOrder`.
`ExactInv` says that nothing is missing in front of a packet that the recipient
will still get (`Full`, `Closed`, `Known`): `FileArrives`, which like `FileExact`
excepts runs in which the write buffer has missed a packet. Assumption:
`SizesAssumption` (the sizes are numbers, no file, buffer, body or header is
empty).

`CommandQueueProofs`, for every capacity, every number of producers and every
bound. Remainders come first: two positions with one node are a multiple of the
capacity apart, and consecutive positions have different nodes. The inductive
invariant `IInv` says that the window of claimed positions is no wider than the
capacity, that a node's `tail` is its position of this round or the next
(`TailsInRound`), that a node's `head` names only a position that was claimed
(`HeadsClaimed`) and then the node holds that item (`HeadsHold`), that producers
between claim and publication have positions of their own (`OwnPositions`), that
one that has checked and not claimed has an old position or a free node
(`Asking`), and what the consumer knows at each step of its own (`Taking`). None
of it is visible in the properties: that no item is torn follows because
positions differ by less than the capacity. The refinement maps `Claim` to `Put`
and the successful `Pop` to `Get`. Assumption: `CapacityAssumption`, positive;
nothing needs a power of two.

`ServerWriteProofs`, for every size of packets, buffers and queue. The invariant
joins `NoByteLost` with the types of its numbers (`Counted`) and `LoopOpen`:
after a failed encrypt the loop of `write_data` comes back with a closed
connection only if something is left in the buffer, and then `write_bytes` fails
and the loop is left. Assumption: `WriteAssumption`, the sizes are numbers and
no record is empty.

`NetClientProofs`, for every number of logins and changes. `NoChangeLost` has an
invariant of the lock, the flag and the two lists. `LoginsTakeTurns` and
`MenuForMembers` share `LoginInv`: until there is a second network thread
(`OneThreadInv`) Enter is accepted only in states that imply that no login is
under way (`MayEnter`), and an OK on its way or a state SESSION_SUCCESS implies
membership or a thread that will not come back to it. `LoginsTakeTurns` needs
also `SecondInv`, which says how a second thread comes about: the thread leaves
`handle` or `init_conn` for `clean()` only after an `SSL_new` that failed or a
NET_ERROR that was set over, or because the window is closed and Enter no longer
taken; so a state UNINITIALIZED in front of a live thread has one of these
causes. Nothing is assumed of the two bounds.

Every invariant and action property that a passing run checks is stated by a
theorem, and so are both refinements. Only model-checked are the liveness
properties, which are out of the prover's reach: `DecisionIsSent`,
`EverythingIsWritten`, `PushedIsPopped`, `TransferEnds`, `ListIsShown`,
`ConnectingEnds`, `CloseEnds`. So is what a recursive definition computes for
every input (the mask and the rounding of the capacity in `MCRingQueue` and
`MCCommandQueue`), which would need induction over data.

## 6. Not modelled

* Failures of SQLite: every statement succeeds. COMMIT's result is ignored in the
  code (`net_packet.c:489`), so a failure would leave a transaction open.
* File descriptors, refused connections and the batch of events that refers to
  descriptors (`network.c:205`, `:284`).
* The backlog: `push_backlog` appends without the mutex under which the GUI
  thread copies (`transfer_manager.hpp:198`); a model of a data race in a vector
  would be any outcome.
* What a second network thread does once it has been started (see NetClient), and
  the reordering of relaxed loads (see CommandQueue).
* The GUI beyond its commands: drawing, selection of users and files.
* The memory pool; names, paths, logging; `try_clean` (`database.c:114` is not
  called). `database.cpp`, `term_client/` and the tests are not built into either
  program. `qs_db` in the repository is an old database file.
* `FileStream` has one recipient and `NetClient` any server; their composition
  with `QsServer` is not written.

## 7. Plan

Done: `RingQueue`, `QsServer`, `ServerWrite`, `TransferManager`, `CommandQueue`,
`FileStream`, `NetClient`, and theorems about the safety properties of all of them.
Next, in this order:

1. `AcceptClose`: descriptors, slots and batches of events, with the refused
   connection.
2. `DbTransactions`: BEGIN, COMMIT and ROLLBACK that may fail.
3. `Quickshare`: several `TransferManager` and the server together; the
   variables `hosting`, `asked` and `joined` of `QsServer` refined by them.
4. A check of the memory pool's sizes.
5. Theorems under weaker hypotheses: which of the properties of several transfers
   survive a client in two at a time, and `RecvAgrees` for a client that hosts
   too but answers promptly.

A composed module's run takes the place of the component's where it answers the
same question about more of the code.
