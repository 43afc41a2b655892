----------------------------- MODULE NetClient ------------------------------
(***************************************************************************)
(* The client's two threads around a login: the GUI thread (login_menu.cpp,*)
(* context.cpp, Network::session, Thread_Manager) and the network thread   *)
(* (network.cpp), which share the connection state, the queue of logins    *)
(* and the user list.  The shared state is one atomic word that both       *)
(* threads read and set, each set being a step of its own.                 *)
(*                                                                         *)
(* The queue of logins is a sequence: module CommandQueue is its detail.   *)
(* The user list is the number of changes it has taken.  The server's      *)
(* answers are any it could give; QsServer has its side.                   *)
(*                                                                         *)
(* session() can start a second network thread beside the first.  The two  *)
(* would use one SSL object and the same buffers without a lock, which is  *)
(* undefined: the module records the start (second), lets the GUI thread   *)
(* and the first network thread go on, and its properties of logins and    *)
(* threads say nothing of what follows.                                    *)
(***************************************************************************)
EXTENDS Naturals, Sequences, FiniteSets

CONSTANTS
    MaxLogin,   \* bound: times the user presses Enter
    MaxChange   \* bound: changes of the user list

ASSUME BoundsAssumption == MaxLogin \in Nat /\ MaxChange \in Nat

VARIABLES
    state,      \* Network::state
    queue,      \* msg_queue: the logins, by number
    gpc,        \* the GUI thread: "frame", in session() or copy(), or closing
    screen,     \* app_state: LOGIN or MAIN_MENU
    shown,      \* what the login menu says
    logins,     \* how many logins have been pushed
    npc,        \* the network thread: "none", or where in server_loop it is
    active,     \* its Slot.active
    sock,       \* its socket: "closed", "fresh" or "connected"
    toServer,   \* intros on their way
    toClient,   \* the server's packets on theirs
    member,     \* the server has this connection in a session
    answered,   \* the last login whose answer has been read
    users, usersDirty, lock,    \* User_List
    userList,   \* Main_Menu::user_list, the GUI's copy
    changes,    \* changes of the list the server has sent
    overwritten,    \* history: the GUI thread has set the state over an answer
    noSsl,          \* history: an SSL_new has failed
    second          \* history: a second network thread has been started

guiVars == <<gpc, screen, shown, logins, userList>>
netVars == <<npc, active, sock, answered, users>>
wireVars == <<toServer, toClient, member, changes>>
history == <<overwritten, noSsl, second>>
vars == <<state, queue, guiVars, netVars, wireVars, usersDirty, lock, history>>

Init ==
    /\ state = "UNINITIALIZED" /\ queue = << >>
    /\ gpc = "frame" /\ screen = "LOGIN" /\ shown = "blank" /\ logins = 0
    /\ npc = "none" /\ active = FALSE /\ sock = "closed"
    /\ toServer = << >> /\ toClient = << >> /\ member = FALSE
    /\ answered = 0 /\ changes = 0
    /\ users = 0 /\ usersDirty = FALSE /\ lock = "free" /\ userList = 0
    /\ overwritten = FALSE /\ noSsl = FALSE /\ second = FALSE
-----------------------------------------------------------------------------
(* The GUI thread                                                          *)

\* Thread_Manager::new_thread(&Network::server_loop): the network thread, or,
\* when there is one already, another beside it.  (The limit of 8 threads, which
\* start() asserts, is not modelled.)
new_thread ==
    \/ npc = "none" /\ npc' = "init" /\ active' = TRUE /\ UNCHANGED second
    \/ npc # "none" /\ second' = TRUE /\ UNCHANGED <<npc, active>>

\* Slip: Enter is taken also while a login waits for its answer.
EnterWhileConnected ==
    /\ gpc = "frame" /\ screen = "LOGIN" /\ logins < MaxLogin
    /\ \/ state = "UNINITIALIZED" /\ gpc' = "opened" /\ new_thread
       \/ /\ state \in {"SESSION_ERROR", "CONNECTED"}
          /\ gpc' = "push" /\ UNCHANGED <<npc, active, second>>
    /\ UNCHANGED <<state, queue, screen, shown, logins, userList, sock, answered,
                   users, wireVars, usersDirty, lock, overwritten, noSsl>>

\* button() and session(): the state is read once, and nothing else is looked
\* at.  It is UNINITIALIZED at first, and again after clean() while the network
\* thread goes on: after SSL_new has failed, or when SetConnected has hidden a
\* NET_ERROR from Left.  Enter then starts a second thread on the same
\* connection and buffers.
Enter ==
    /\ gpc = "frame" /\ screen = "LOGIN" /\ logins < MaxLogin
    /\ \/ state = "UNINITIALIZED" /\ gpc' = "opened" /\ new_thread
       \/ /\ state = "SESSION_ERROR" /\ gpc' = "push"
          /\ UNCHANGED <<npc, active, second>>
    /\ UNCHANGED <<state, queue, screen, shown, logins, userList, sock, answered,
                   users, wireVars, usersDirty, lock, overwritten, noSsl>>

\* The state holds something the user should be told of this login.
Verdict ==
    \/ state \in {"INIT_ERROR", "NET_ERROR", "SESSION_SUCCESS"}
    \/ state = "SESSION_ERROR" /\ answered = logins

GuiSets(s) ==
    /\ state' = s
    /\ overwritten' = (overwritten \/ Verdict)
    /\ UNCHANGED <<noSsl, second>>

\* start(), after the thread is created.
SetOpened ==
    /\ gpc = "opened" /\ gpc' = "push"
    /\ GuiSets("OPENED")
    /\ UNCHANGED <<queue, screen, shown, logins, userList, netVars, wireVars,
                   usersDirty, lock>>

PushLogin ==
    /\ gpc = "push" /\ gpc' = "set"
    /\ logins' = logins + 1
    /\ queue' = Append(queue, logins')
    /\ UNCHANGED <<state, screen, shown, userList, netVars, wireVars, usersDirty,
                   lock, history>>

SetConnected ==
    /\ gpc = "set" /\ gpc' = "frame"
    /\ GuiSets("CONNECTED")
    /\ UNCHANGED <<queue, screen, shown, logins, userList, netVars, wireVars,
                   usersDirty, lock>>

Message ==
    CASE state \in {"INIT_ERROR", "NET_ERROR"} -> "Network failed"
      [] state = "SESSION_ERROR" -> "NOT valid"
      [] state \in {"CONNECTED", "OPENED"} -> "Connecting"
      [] OTHER -> shown

\* Slip: a connection is taken for a session.
NetCheckConnected ==
    /\ gpc = "frame" /\ screen = "LOGIN"
    /\ shown' = Message
    /\ screen' = IF state \in {"CONNECTED", "SESSION_SUCCESS"} THEN "MAIN_MENU" ELSE screen
    /\ UNCHANGED <<state, queue, gpc, logins, userList, netVars, wireVars,
                   usersDirty, lock, history>>

\* Every frame of the login menu.
net_check ==
    /\ gpc = "frame" /\ screen = "LOGIN"
    /\ shown' = Message
    /\ screen' = IF state = "SESSION_SUCCESS" THEN "MAIN_MENU" ELSE screen
    /\ UNCHANGED <<state, queue, gpc, logins, userList, netVars, wireVars,
                   usersDirty, lock, history>>

\* User_List::copy, every frame of the main menu: try_lock, and the copy.
copy ==
    /\ gpc = "frame" /\ screen = "MAIN_MENU" /\ usersDirty /\ lock = "free"
    /\ lock' = "gui" /\ gpc' = "copied"
    /\ userList' = users
    /\ UNCHANGED <<state, queue, screen, shown, logins, netVars, wireVars,
                   usersDirty, history>>

copied ==
    /\ gpc = "copied" /\ gpc' = "frame"
    /\ usersDirty' = FALSE /\ lock' = "free"
    /\ UNCHANGED <<state, queue, screen, shown, logins, userList, netVars,
                   wireVars, history>>

\* The window is closed between two frames: close_all() ...
CloseWindow ==
    /\ gpc = "frame" /\ gpc' = "join"
    /\ active' = FALSE
    /\ UNCHANGED <<state, queue, screen, shown, logins, userList, npc, sock,
                   answered, users, wireVars, usersDirty, lock, history>>

\* ... joins the thread (and then a second one, whose steps are not modelled).
Join ==
    /\ gpc = "join" /\ npc \in {"none", "ended"}
    /\ gpc' = "over"
    /\ UNCHANGED <<state, queue, screen, shown, logins, userList, netVars,
                   wireVars, usersDirty, lock, history>>

GuiGoesOn ==
    SetOpened \/ PushLogin \/ SetConnected \/ net_check \/ copy \/ copied \/ Join
-----------------------------------------------------------------------------
(* The network thread                                                      *)

\* What a step of server_loop that sets nothing else leaves alone.
NetGoes(from, to) ==
    /\ npc = from /\ npc' = to
    /\ UNCHANGED <<guiVars, active, usersDirty, lock, history>>

Sets(s) == state' = s

\* init(): a socket, or the end of the thread.
init ==
    /\ active
    /\ \/ NetGoes("init", "ssl") /\ sock' = "fresh" /\ UNCHANGED state
       \/ NetGoes("init", "ended") /\ Sets("INIT_ERROR") /\ UNCHANGED sock
    /\ UNCHANGED <<queue, answered, users, wireVars>>

\* init_conn(), INIT.
SslNew ==
    /\ active /\ NetGoes("ssl", "tcp")
    /\ UNCHANGED <<state, queue, sock, answered, users, wireVars>>

SslNewFails ==
    /\ active /\ npc = "ssl" /\ npc' = "left" /\ Sets("INIT_ERROR")
    /\ noSsl' = TRUE
    /\ UNCHANGED <<queue, guiVars, active, sock, answered, users, wireVars,
                   usersDirty, lock, overwritten, second>>

\* TCP_CONNECT: tried until it succeeds.  connect() on a connected socket fails
\* with EISCONN, which tcp_connect takes for a failure like any other.
TcpConnect ==
    /\ active /\ sock = "fresh"
    /\ NetGoes("tcp", "tls")
    /\ sock' = "connected"
    /\ UNCHANGED <<state, queue, answered, users, wireVars>>

\* TLS_CONNECT: select without a timeout, and no look at active.
TlsConnect ==
    /\ NetGoes("tls", "handle") /\ Sets("CONNECTED")
    /\ UNCHANGED <<queue, sock, answered, users, wireVars>>

\* ERROR: a new SSL object on the same socket.
TlsFails ==
    /\ NetGoes("tls", "ssl")
    /\ UNCHANGED <<state, queue, sock, answered, users, wireVars>>

\* convert_msg and write_data: the oldest login becomes an intro, and the socket
\* takes it (FileStream has the packet that is lost in wbuf).
SendIntro ==
    /\ active /\ queue # << >> /\ NetGoes("handle", "handle")
    /\ toServer' = Append(toServer, Head(queue))
    /\ queue' = Tail(queue)
    /\ UNCHANGED <<state, sock, answered, users, toClient, member, changes>>

\* Slip: a refusal sets nothing.
ReadAnswerOk ==
    /\ active /\ toClient # << >> /\ Head(toClient) # "USERS"
    /\ NetGoes("handle", "handle")
    /\ Sets(IF Head(toClient) = "OK" THEN "SESSION_SUCCESS" ELSE state)
    /\ answered' = answered + 1
    /\ toClient' = Tail(toClient)
    /\ UNCHANGED <<queue, sock, users, toServer, member, changes>>

\* read_data and server_response.
ReadAnswer ==
    /\ active /\ toClient # << >> /\ Head(toClient) # "USERS"
    /\ NetGoes("handle", "handle")
    /\ Sets(IF Head(toClient) = "OK" THEN "SESSION_SUCCESS" ELSE "SESSION_ERROR")
    /\ answered' = answered + 1
    /\ toClient' = Tail(toClient)
    /\ UNCHANGED <<queue, sock, users, toServer, member, changes>>

\* Slip: the list is changed without the lock.
ReadUsersUnlocked ==
    /\ active /\ toClient # << >> /\ Head(toClient) = "USERS"
    /\ npc = "handle" /\ npc' = "users"
    /\ users' = users + 1
    /\ toClient' = Tail(toClient)
    /\ UNCHANGED <<state, queue, guiVars, active, sock, answered, toServer, member,
                   changes, usersDirty, lock, history>>

\* update_users: add_users and remove_user change the list under the lock ...
ReadUsers ==
    /\ active /\ toClient # << >> /\ Head(toClient) = "USERS"
    /\ npc = "handle" /\ npc' = "users"
    /\ lock = "free" /\ lock' = "net"
    /\ users' = users + 1
    /\ toClient' = Tail(toClient)
    /\ UNCHANGED <<state, queue, guiVars, active, sock, answered, toServer, member,
                   changes, usersDirty, history>>

\* Slip: the flag is forgotten.
UsersDoneQuietly ==
    /\ npc = "users" /\ npc' = "handle"
    /\ lock' = "free"
    /\ UNCHANGED <<state, queue, guiVars, active, sock, answered, users, wireVars,
                   usersDirty, history>>

\* ... and say so before they release it.
UsersDone ==
    /\ npc = "users" /\ npc' = "handle"
    /\ usersDirty' = TRUE /\ lock' = "free"
    /\ UNCHANGED <<state, queue, guiVars, active, sock, answered, users, wireVars,
                   history>>

\* handle(): poll fails or reports an error.
NetError ==
    /\ active /\ NetGoes("handle", "left") /\ Sets("NET_ERROR")
    /\ UNCHANGED <<queue, sock, answered, users, wireVars>>

\* read_data asserts that the server does not go away.
ServerGone ==
    /\ npc = "handle" /\ npc' = "ended" /\ gpc' = "over"
    /\ UNCHANGED <<state, queue, screen, shown, logins, userList, active, sock,
                   answered, users, wireVars, usersDirty, lock, history>>

\* Slip: handle() does not look at active.
LoopEndsBeforeHandle ==
    /\ ~active
    /\ \/ \E p \in {"ssl", "tcp"} : NetGoes(p, "left")
       \/ NetGoes("init", "ended")
    /\ UNCHANGED <<state, queue, sock, answered, users, wireVars>>

\* The loops are left, once active is false, at their conditions.
LoopEnds ==
    /\ ~active
    /\ \/ \E p \in {"ssl", "tcp", "handle"} : NetGoes(p, "left")
       \/ NetGoes("init", "ended")
    /\ UNCHANGED <<state, queue, sock, answered, users, wireVars>>

\* server_loop(): back from handle or init_conn, the thread ends or cleans up
\* and starts again.
Left ==
    /\ NetGoes("left", IF state = "NET_ERROR" THEN "ended" ELSE "clean")
    /\ UNCHANGED <<state, queue, sock, answered, users, wireVars>>

\* clean(): the connection is closed, and what was on it is gone.
clean ==
    /\ NetGoes("clean", "init") /\ Sets("UNINITIALIZED")
    /\ sock' = "closed" /\ member' = FALSE
    /\ toServer' = << >> /\ toClient' = << >>
    /\ UNCHANGED <<queue, answered, users, changes>>

NetGoesOn ==
    \/ init \/ TcpConnect \/ TlsConnect \/ TlsFails \/ SendIntro \/ ReadAnswer
    \/ ReadUsers \/ UsersDone \/ LoopEnds \/ Left \/ clean
-----------------------------------------------------------------------------
(* The server (QsServer!packet_intro and its notices)                      *)

Answer ==
    /\ toServer # << >>
    /\ toServer' = Tail(toServer)
    /\ \/ ~member /\ member' = TRUE /\ toClient' = Append(toClient, "OK")
       \/ UNCHANGED member /\ toClient' = Append(toClient, "DENY")
    /\ UNCHANGED <<state, queue, guiVars, netVars, changes, usersDirty, lock,
                   history>>

UserComesOrGoes ==
    /\ member /\ changes < MaxChange
    /\ changes' = changes + 1
    /\ toClient' = Append(toClient, "USERS")
    /\ UNCHANGED <<state, queue, guiVars, netVars, toServer, member, usersDirty,
                   lock, history>>
-----------------------------------------------------------------------------
Next ==
    /\ gpc # "over"
    /\ \/ Enter \/ CloseWindow \/ GuiGoesOn
       \/ NetGoesOn \/ SslNew \/ SslNewFails \/ NetError \/ ServerGone
       \/ Answer \/ UserComesOrGoes

Spec == Init /\ [][Next]_vars

\* Both threads go on; the server is up and answers; a handshake ends, well or
\* not; memory for an SSL object is found at last.
FairSpec ==
    /\ Spec
    /\ WF_vars(gpc # "over" /\ GuiGoesOn) /\ WF_vars(gpc # "over" /\ NetGoesOn)
    /\ SF_vars(gpc # "over" /\ SslNew)
    /\ WF_vars(gpc # "over" /\ Answer)
-----------------------------------------------------------------------------
(* Properties                                                              *)

\* Logins that have no answer yet: entered, queued, or on their way as an intro.
Asked == Len(queue) + Len(toServer) + (IF gpc \in {"opened", "push"} THEN 1 ELSE 0)

\* Answers that have not been read.
Answers == {i \in DOMAIN toClient : toClient[i] # "USERS"}

\* However Enter is pressed and the two threads interleave, a login is sent only
\* after the one before it has been answered.  session() asserts that the queue
\* takes it, and the server takes a second intro for abnormal (net_packet.c:79).
\* It is otherwise only where Enter has started a second network thread, which
\* queues a login beside one that may still be queued; and no such thread is
\* started but after an SSL_new that has failed, or an error the GUI thread has
\* set the state over.
OneLogin ==
    /\ second \/ Asked + Cardinality(Answers) <= 1
    /\ second => noSsl \/ overwritten

\* The main menu is entered by clients the server has in a session, and no
\* answer is left that could take them out of it; but for a client with a second
\* network thread, whose other login may still be queued or unanswered.
EnteredIsMember ==
    ~second /\ screen = "MAIN_MENU" /\ npc = "handle" => member /\ Asked = 0 /\ Answers = {}

\* When the flag says there is nothing new, the GUI's list is the list: no change
\* of the network thread is lost between the copy and the reset of the flag.
CleanIsCurrent ==
    ~usersDirty /\ lock = "free" => userList = users

\* Every change of the list comes to the screen, or the client ends (or has got a
\* second network thread).
ListIsShown ==
    users # userList /\ screen = "MAIN_MENU"
        ~> userList = users \/ second \/ gpc \in {"join", "over"}

\* A socket that a failed handshake has left connected.
Stranded == sock = "connected" /\ npc \in {"ssl", "tcp"}

\* "Connecting" does not stay on the screen for ever, unless the GUI thread has
\* set the state over the answer (network.cpp:228-246) or started a second
\* network thread, or a failed handshake has left the client with a socket that
\* cannot be connected again.
ConnectingEnds ==
    screen = "LOGIN" /\ shown = "Connecting"
        ~> \/ screen # "LOGIN" \/ shown # "Connecting"
           \/ overwritten \/ second \/ Stranded \/ gpc \in {"join", "over"}

\* When the window is closed the network thread ends, wherever it is; where there
\* is a second one, nothing is said.
CloseEnds == gpc = "join" ~> gpc = "over" \/ second
=============================================================================
