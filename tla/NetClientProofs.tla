-------------------------- MODULE NetClientProofs ---------------------------
(***************************************************************************)
(* The client's two threads around a login, for any number of logins and   *)
(* changes of the user list: when Enter can start a second network thread  *)
(* and that it does not otherwise queue a second login, that the main menu *)
(* is only for members of a session while there is one such thread, and    *)
(* that no change of the list is lost to the screen.                       *)
(***************************************************************************)
EXTENDS NetClient, FiniteSetTheorems, TLAPS

\* The flag and the lock of the user list: whoever is between its two steps
\* holds the lock, and the GUI thread has copied what is there.
ListInv ==
    /\ gpc = "copied" => lock = "gui" /\ userList = users
    /\ npc = "users" => lock = "net"
    /\ ~usersDirty /\ lock = "free" => userList = users

LEMMA ListInit == Init => ListInv
  BY DEF Init, ListInv

LEMMA ListNext == ListInv /\ [Next]_vars => ListInv'
<1> SUFFICES ASSUME ListInv, [Next]_vars PROVE ListInv'  OBVIOUS
<1> USE DEF ListInv, guiVars, netVars, wireVars
<1>1. CASE Enter  BY <1>1 DEF Enter, new_thread
<1>2. CASE CloseWindow  BY <1>2 DEF CloseWindow
<1>3. CASE SetOpened \/ PushLogin \/ SetConnected \/ net_check \/ Join
  BY <1>3 DEF SetOpened, PushLogin, SetConnected, net_check, Join, GuiSets
<1>4. CASE copy \/ copied  BY <1>4 DEF copy, copied
<1>5. CASE init \/ SslNew \/ SslNewFails \/ TcpConnect \/ TlsConnect \/ TlsFails
  BY <1>5 DEF init, SslNew, SslNewFails, TcpConnect, TlsConnect, TlsFails, NetGoes, Sets
<1>6. CASE SendIntro \/ ReadAnswer \/ NetError \/ LoopEnds \/ Left \/ clean
  BY <1>6 DEF SendIntro, ReadAnswer, NetError, LoopEnds, Left, clean, NetGoes, Sets
<1>7. CASE ReadUsers \/ UsersDone \/ ServerGone
  BY <1>7 DEF ReadUsers, UsersDone, ServerGone
<1>8. CASE Answer \/ UserComesOrGoes  BY <1>8 DEF Answer, UserComesOrGoes
<1>9. CASE UNCHANGED vars  BY <1>9 DEF vars
<1>10. QED
  BY <1>1, <1>2, <1>3, <1>4, <1>5, <1>6, <1>7, <1>8, <1>9
  DEF Next, GuiGoesOn, NetGoesOn

\* User_List: the reset of dirty after the copy, and its setting after a change,
\* are under the lock; so when it is clear, the GUI has the list as it is.
THEOREM NoChangeLost == Spec => []CleanIsCurrent
<1>1. ListInv => CleanIsCurrent  BY DEF ListInv, CleanIsCurrent
<1>2. QED  BY <1>1, ListInit, ListNext, PTL DEF Spec

-----------------------------------------------------------------------------
(* When Enter starts a second network thread                               *)

\* What has to happen before: an SSL_new that fails, or an error that the GUI
\* thread has set the state over.
Cause == noSsl \/ overwritten

\* The thread comes back from clean() to a GUI thread that takes Enter only
\* through an error, or when the window is closed.
SecondInv ==
    /\ second => Cause
    /\ ~active => npc = "none" \/ gpc \in {"join", "over"}
    /\ npc = "left" => Cause \/ ~active \/ state = "NET_ERROR"
    /\ npc = "clean" => Cause \/ ~active
    /\ state = "UNINITIALIZED" /\ npc # "none" /\ gpc \notin {"opened", "over"} =>
          Cause \/ ~active

LEMMA SecondInit == Init => SecondInv
  BY DEF Init, SecondInv

LEMMA SecondNext == SecondInv /\ [Next]_vars => SecondInv'
<1> SUFFICES ASSUME SecondInv, [Next]_vars PROVE SecondInv'  OBVIOUS
<1> USE DEF SecondInv, Cause, guiVars, netVars, wireVars, history
<1>1. CASE Enter  BY <1>1 DEF Enter, new_thread
<1>2. CASE CloseWindow  BY <1>2 DEF CloseWindow
<1>3. CASE SetOpened \/ SetConnected
  <2>1. /\ UNCHANGED <<npc, active, noSsl, second>> /\ gpc \notin {"join", "over"}
        /\ state' # "UNINITIALIZED"
    BY <1>3 DEF SetOpened, SetConnected, GuiSets
  <2>2. overwritten' = (overwritten \/ Verdict)
    BY <1>3 DEF SetOpened, SetConnected, GuiSets
  <2>3. overwritten \/ state = "NET_ERROR" => overwritten'
    BY <2>2, Zenon DEF Verdict
  <2>4. QED  BY <2>1, <2>3
<1>4. CASE PushLogin \/ net_check \/ copy \/ copied \/ Join
  BY <1>4 DEF PushLogin, net_check, copy, copied, Join
<1>5. CASE init \/ SslNew \/ SslNewFails \/ TcpConnect \/ TlsConnect \/ TlsFails
  BY <1>5 DEF init, SslNew, SslNewFails, TcpConnect, TlsConnect, TlsFails, NetGoes, Sets
<1>6. CASE SendIntro \/ ReadAnswer \/ NetError \/ LoopEnds \/ Left \/ clean
  BY <1>6 DEF SendIntro, ReadAnswer, NetError, LoopEnds, Left, clean, NetGoes, Sets
<1>7. CASE ReadUsers \/ UsersDone \/ ServerGone
  BY <1>7 DEF ReadUsers, UsersDone, ServerGone
<1>8. CASE Answer \/ UserComesOrGoes  BY <1>8 DEF Answer, UserComesOrGoes
<1>9. CASE UNCHANGED vars  BY <1>9 DEF vars
<1>10. QED
  BY <1>1, <1>2, <1>3, <1>4, <1>5, <1>6, <1>7, <1>8, <1>9
  DEF Next, GuiGoesOn, NetGoesOn

-----------------------------------------------------------------------------
(* One login at a time                                                     *)

WireTypes ==
    /\ queue \in Seq(Nat) /\ toServer \in Seq(Nat) /\ logins \in Nat
    /\ toClient \in Seq({"OK", "DENY", "USERS"})

NoAnswer == \A i \in DOMAIN toClient : toClient[i] = "USERS"

\* Nothing has been asked that is not answered.
Idle == Asked = 0 /\ NoAnswer

AtMostOne ==
    /\ Asked <= 1
    /\ Asked = 1 => NoAnswer
    /\ \A i, j \in DOMAIN toClient :
          toClient[i] # "USERS" /\ toClient[j] # "USERS" => i = j

\* Enter does not start a second thread only when nothing is asked.
MayEnter ==
    /\ npc = "none" => Idle /\ state # "SESSION_ERROR"
    /\ state = "SESSION_ERROR" /\ gpc \in {"frame", "copied"} => Idle

\* An OK that has been sent, and one that has been read, is from a server that
\* has this connection in a session.
OkIsMember == (\E i \in DOMAIN toClient : toClient[i] = "OK") => member
SuccessIsMember ==
    state = "SESSION_SUCCESS" =>
        /\ Idle
        /\ npc \in {"handle", "users", "left", "clean", "ended"}
        /\ npc \in {"handle", "users"} => member
        /\ npc \in {"left", "clean"} => ~active

\* From the main menu the network thread can only go on or end.
InMainMenu ==
    screen = "MAIN_MENU" =>
        /\ Idle /\ gpc \notin {"opened", "push", "set"}
        /\ npc \in {"handle", "users", "left", "clean", "init", "ended"}
        /\ npc \in {"handle", "users"} => member
        /\ npc = "left" => ~active \/ state = "NET_ERROR"
        /\ npc \in {"clean", "init"} => ~active

OneThreadInv == AtMostOne /\ MayEnter /\ OkIsMember /\ SuccessIsMember /\ InMainMenu

\* What is known of the logins holds until there is a second network thread.
LoginInv == WireTypes /\ (~second => OneThreadInv)

LEMMA LoginInit == Init => LoginInv
<1> SUFFICES ASSUME Init PROVE LoginInv  OBVIOUS
<1> USE DEF Init
<1>1. WireTypes  BY DEF WireTypes
<1>2. Asked = 0  BY DEF Asked
<1>3. DOMAIN toClient = {}  OBVIOUS
<1>4. Idle /\ AtMostOne  BY <1>2, <1>3 DEF Idle, NoAnswer, AtMostOne
<1>5. MayEnter /\ OkIsMember /\ SuccessIsMember /\ InMainMenu
  BY <1>3, <1>4 DEF MayEnter, OkIsMember, SuccessIsMember, InMainMenu
<1>6. QED  BY <1>1, <1>4, <1>5 DEF LoginInv, OneThreadInv

LEMMA WireNext == WireTypes /\ [Next]_vars => WireTypes'
<1> SUFFICES ASSUME WireTypes, [Next]_vars PROVE WireTypes'  OBVIOUS
<1> USE DEF WireTypes, guiVars, netVars, wireVars
<1>1. CASE UNCHANGED <<queue, logins, toServer, toClient>>  BY <1>1
<1>2. CASE PushLogin  BY <1>2 DEF PushLogin
<1>3. CASE SendIntro
  <2>1. /\ toServer' = Append(toServer, Head(queue)) /\ queue' = Tail(queue)
        /\ queue # << >> /\ UNCHANGED <<logins, toClient>>
    BY <1>3 DEF SendIntro, NetGoes
  <2>2. QED  BY <2>1
<1>4. CASE ReadAnswer \/ ReadUsers
  <2>1. toClient # << >> /\ toClient' = Tail(toClient) /\ UNCHANGED <<queue, logins, toServer>>
    BY <1>4 DEF ReadAnswer, ReadUsers, NetGoes
  <2>2. QED  BY <2>1
<1>5. CASE clean  BY <1>5 DEF clean, NetGoes
<1>6. CASE Answer
  <2>1. \E m \in {"OK", "DENY"} : toClient' = Append(toClient, m)  BY <1>6 DEF Answer
  <2>2. toServer # << >> /\ toServer' = Tail(toServer) /\ UNCHANGED <<queue, logins>>
    BY <1>6 DEF Answer
  <2>3. QED  BY <2>1, <2>2
<1>7. CASE UserComesOrGoes  BY <1>7 DEF UserComesOrGoes
<1>8. QED
  <2>1. CASE Enter \/ CloseWindow \/ SetOpened \/ SetConnected
    BY <1>1, <2>1 DEF Enter, CloseWindow, SetOpened, SetConnected, GuiSets
  <2>2. CASE net_check \/ copy \/ copied \/ Join
    BY <1>1, <2>2 DEF net_check, copy, copied, Join
  <2>3. CASE init \/ SslNew \/ SslNewFails \/ TcpConnect \/ TlsConnect \/ TlsFails
    BY <1>1, <2>3 DEF init, SslNew, SslNewFails, TcpConnect, TlsConnect, TlsFails, NetGoes
  <2>4. CASE UsersDone \/ NetError \/ ServerGone \/ LoopEnds \/ Left
    BY <1>1, <2>4 DEF UsersDone, NetError, ServerGone, LoopEnds, Left, NetGoes
  <2>5. CASE UNCHANGED vars  BY <1>1, <2>5 DEF vars
  <2>6. QED
    BY <1>2, <1>3, <1>4, <1>5, <1>6, <1>7, <2>1, <2>2, <2>3, <2>4, <2>5
    DEF Next, GuiGoesOn, NetGoesOn

\* second is never taken back.
LEMMA SecondStays == [Next]_vars /\ ~second' => ~second
<1> SUFFICES ASSUME [Next]_vars, second PROVE second'  OBVIOUS
<1> USE DEF history
<1>1. CASE Enter  BY <1>1 DEF Enter, new_thread
<1>2. CASE CloseWindow \/ PushLogin \/ net_check \/ copy \/ copied \/ Join
  BY <1>2 DEF CloseWindow, PushLogin, net_check, copy, copied, Join
<1>3. CASE SetOpened \/ SetConnected
  BY <1>3 DEF SetOpened, SetConnected, GuiSets
<1>4. CASE NetGoesOn \/ SslNew \/ SslNewFails \/ NetError \/ ServerGone
  BY <1>4 DEF NetGoesOn, init, SslNew, SslNewFails, TcpConnect, TlsConnect, TlsFails,
              SendIntro, ReadAnswer, ReadUsers, UsersDone, NetError, ServerGone,
              LoopEnds, Left, clean, NetGoes
<1>5. CASE Answer \/ UserComesOrGoes  BY <1>5 DEF Answer, UserComesOrGoes
<1>6. CASE UNCHANGED vars  BY <1>6 DEF vars
<1>7. QED  BY <1>1, <1>2, <1>3, <1>4, <1>5, <1>6 DEF Next, GuiGoesOn

LEMMA LoginNext == LoginInv /\ [Next]_vars => LoginInv'
<1> SUFFICES ASSUME WireTypes, WireTypes', ~second', OneThreadInv, [Next]_vars
             PROVE  OneThreadInv'
  BY WireNext, SecondStays DEF LoginInv
<1> USE DEF WireTypes, OneThreadInv, AtMostOne, MayEnter, OkIsMember, SuccessIsMember,
        InMainMenu, Idle, NoAnswer, Asked, guiVars, netVars, wireVars
<1>1. CASE Enter
  <2>1. npc = "none" \/ state = "SESSION_ERROR"  BY <1>1 DEF Enter, new_thread
  <2>2. Asked = 0 /\ NoAnswer  BY <1>1, <2>1 DEF Enter
  <2>3. NoAnswer'  BY <1>1, <2>2 DEF Enter
  <2>4. Asked' = 1  BY <1>1, <2>2 DEF Enter
  <2>5. AtMostOne'  BY <2>3, <2>4
  <2>6. MayEnter'  BY <1>1, <2>1 DEF Enter, new_thread
  <2>7. OkIsMember' /\ SuccessIsMember' /\ InMainMenu'  BY <1>1 DEF Enter
  <2>8. QED  BY <2>5, <2>6, <2>7
<1>2. CASE CloseWindow  BY <1>2 DEF CloseWindow
<1>3. CASE SetOpened \/ SetConnected
  BY <1>3 DEF SetOpened, SetConnected, GuiSets
<1>4. CASE PushLogin  BY <1>4 DEF PushLogin
<1>5. CASE net_check  BY <1>5 DEF net_check
<1>6. CASE copy \/ copied \/ Join
  <2>1. CASE copy  BY <2>1 DEF copy
  <2>2. CASE copied  BY <2>2 DEF copied
  <2>3. CASE Join  BY <2>3 DEF Join
  <2>4. QED  BY <1>6, <2>1, <2>2, <2>3
<1>7. CASE init \/ SslNew \/ SslNewFails \/ TcpConnect \/ TlsConnect \/ TlsFails
  BY <1>7 DEF init, SslNew, SslNewFails, TcpConnect, TlsConnect, TlsFails, NetGoes, Sets
<1>8. CASE SendIntro  BY <1>8 DEF SendIntro, NetGoes
<1>9. CASE ReadAnswer  BY <1>9 DEF ReadAnswer, NetGoes, Sets
<1>10. CASE NetError \/ LoopEnds \/ Left
  BY <1>10 DEF NetError, LoopEnds, Left, NetGoes, Sets
<1>11. CASE clean  BY <1>11 DEF clean, NetGoes, Sets
<1>12. CASE ReadUsers
  <2>1. /\ toClient' \in Seq({"OK", "DENY", "USERS"}) /\ DOMAIN toClient = 1 .. Len(toClient)
        /\ DOMAIN toClient' = 1 .. Len(toClient) - 1
        /\ \A i \in 1 .. Len(toClient) - 1 : toClient'[i] = toClient[i + 1]
    BY <1>12 DEF ReadUsers
  <2>2. UNCHANGED <<state, queue, toServer, member, guiVars, active>> /\ npc = "handle"
    BY <1>12 DEF ReadUsers
  <2>3. AtMostOne' /\ OkIsMember' /\ (NoAnswer => NoAnswer')
    <3>1. Asked' = Asked /\ AtMostOne /\ OkIsMember  BY <2>2
    <3> HIDE DEF OneThreadInv, WireTypes, AtMostOne, MayEnter, OkIsMember, SuccessIsMember,
                 InMainMenu, Idle, NoAnswer, Asked
    <3>2. NoAnswer => NoAnswer'  BY <2>1 DEF NoAnswer
    <3>3. \A i, j \in DOMAIN toClient' :
             toClient'[i] # "USERS" /\ toClient'[j] # "USERS" => i = j
      <4>1. SUFFICES ASSUME NEW i \in DOMAIN toClient', NEW j \in DOMAIN toClient',
                            toClient'[i] # "USERS", toClient'[j] # "USERS"
                     PROVE  i = j
        OBVIOUS
      <4>2. /\ i + 1 \in DOMAIN toClient /\ toClient[i + 1] # "USERS"
            /\ j + 1 \in DOMAIN toClient /\ toClient[j + 1] # "USERS"
            /\ i \in Int /\ j \in Int
        BY <2>1, <4>1
      <4>3. i + 1 = j + 1  BY <4>2, <3>1 DEF AtMostOne
      <4>4. QED  BY <4>2, <4>3
    <3>4. AtMostOne'  BY <3>1, <3>2, <3>3 DEF AtMostOne
    <3>5. OkIsMember'  BY <2>1, <2>2, <3>1 DEF OkIsMember
    <3>6. QED  BY <3>2, <3>4, <3>5
  <2>4. npc' = "users"  BY <1>12 DEF ReadUsers
  <2>5. QED  BY <2>1, <2>2, <2>3, <2>4
<1>13. CASE UsersDone \/ ServerGone  BY <1>13 DEF UsersDone, ServerGone
<1>14. CASE Answer
  <2>1. PICK m \in {"OK", "DENY"} :
            toClient' = Append(toClient, m) /\ (m = "OK" => member')
    BY <1>14 DEF Answer
  <2>2. /\ toServer # << >> /\ toServer' = Tail(toServer) /\ (member => member')
        /\ UNCHANGED <<state, queue, guiVars, netVars>>
    BY <1>14 DEF Answer
  <2>3. /\ toServer' \in Seq(Nat) /\ Len(toServer') = Len(toServer) - 1
        /\ Len(toServer) >= 1 /\ Len(queue) >= 0
    BY <2>2
  <2>4. /\ toClient' \in Seq({"OK", "DENY", "USERS"})
        /\ DOMAIN toClient' = 1 .. Len(toClient) + 1 /\ DOMAIN toClient = 1 .. Len(toClient)
        /\ \A i \in 1 .. Len(toClient) : toClient'[i] = toClient[i]
        /\ toClient'[Len(toClient) + 1] = m
    BY <2>1
  <2>5. Asked = 1 /\ Asked' = 0 /\ NoAnswer
    <3>1. Asked >= 1 /\ Asked \in Nat  BY <2>2, <2>3
    <3>2. Asked' = Asked - 1  BY <2>2, <2>3
    <3>3. QED  BY <3>1, <3>2
  <2>6. AtMostOne'  BY <2>2, <2>3, <2>4, <2>5
  <2>7. MayEnter' /\ SuccessIsMember' /\ InMainMenu'  BY <2>2, <2>5
  <2>8. OkIsMember'
    <3>1. OkIsMember  OBVIOUS
    <3> HIDE DEF OneThreadInv, WireTypes, AtMostOne, MayEnter, OkIsMember,
                 SuccessIsMember, InMainMenu, Idle, NoAnswer, Asked
    <3>2. SUFFICES ASSUME NEW i \in DOMAIN toClient', toClient'[i] = "OK" PROVE member'
      BY DEF OkIsMember
    <3>3. CASE i \in 1 .. Len(toClient)  BY <2>2, <2>4, <3>1, <3>2, <3>3 DEF OkIsMember
    <3>4. CASE i = Len(toClient) + 1  BY <2>1, <2>4, <3>2, <3>4
    <3>5. QED  BY <2>4, <3>2, <3>3, <3>4
  <2>9. QED  BY <2>6, <2>7, <2>8
<1>15. CASE UserComesOrGoes
  <2>1. /\ toClient' \in Seq({"OK", "DENY", "USERS"}) /\ DOMAIN toClient = 1 .. Len(toClient)
        /\ DOMAIN toClient' = 1 .. Len(toClient) + 1
        /\ \A i \in 1 .. Len(toClient) : toClient'[i] = toClient[i]
        /\ toClient'[Len(toClient) + 1] = "USERS"
    BY <1>15 DEF UserComesOrGoes
  <2>2. UNCHANGED <<state, queue, toServer, member, guiVars, netVars>>
    BY <1>15 DEF UserComesOrGoes
  <2>3. AtMostOne' /\ OkIsMember' /\ (NoAnswer => NoAnswer')
    <3>1. Asked' = Asked /\ AtMostOne /\ OkIsMember  BY <2>2
    <3> HIDE DEF OneThreadInv, WireTypes, AtMostOne, MayEnter, OkIsMember, SuccessIsMember,
                 InMainMenu, Idle, NoAnswer, Asked
    <3>2. NoAnswer => NoAnswer'  BY <2>1 DEF NoAnswer
    <3>3. \A i, j \in DOMAIN toClient' :
             toClient'[i] # "USERS" /\ toClient'[j] # "USERS" => i = j
      BY <2>1, <3>1 DEF AtMostOne
    <3>4. AtMostOne'  BY <3>1, <3>2, <3>3 DEF AtMostOne
    <3>5. OkIsMember'  BY <2>1, <2>2, <3>1 DEF OkIsMember
    <3>6. QED  BY <3>2, <3>4, <3>5
  <2>4. QED  BY <2>1, <2>2, <2>3
<1>16. CASE UNCHANGED vars  BY <1>16 DEF vars
<1>17. QED
  BY <1>1, <1>2, <1>3, <1>4, <1>5, <1>6, <1>7, <1>8, <1>9, <1>10, <1>11, <1>12,
     <1>13, <1>14, <1>15, <1>16
  DEF Next, GuiGoesOn, NetGoesOn

\* Network::session: however Enter is pressed and the two threads interleave, a
\* login is sent only after the one before it has been answered; or Enter has
\* started a second network thread, after an SSL_new that failed or an error that
\* the GUI thread had set the state over.
THEOREM LoginsTakeTurns == Spec => []OneLogin
<1>1. LoginInv /\ ~second => Asked + Cardinality(Answers) <= 1
  <2> SUFFICES ASSUME LoginInv, ~second PROVE Asked + Cardinality(Answers) <= 1  OBVIOUS
  <2>1. WireTypes /\ AtMostOne  BY DEF LoginInv, OneThreadInv
  <2>2. Asked \in 0 .. 1
    <3>1. Len(queue) \in Nat /\ Len(toServer) \in Nat  BY <2>1 DEF WireTypes
    <3>2. QED  BY <2>1, <3>1 DEF AtMostOne, Asked
  <2>3. CASE Answers = {}  BY <2>2, <2>3, FS_EmptySet
  <2>4. CASE Answers # {}
    <3>1. PICK i \in Answers : TRUE  BY <2>4
    <3>2. Answers = {i}  BY <2>1, <3>1 DEF AtMostOne, Answers
    <3>3. Asked = 0  BY <2>1, <2>2, <3>1 DEF AtMostOne, NoAnswer, Answers
    <3>4. Cardinality(Answers) = 1  BY <3>2, FS_Singleton
    <3>5. QED  BY <3>3, <3>4
  <2>5. QED  BY <2>3, <2>4
<1>2. LoginInv /\ SecondInv => OneLogin  BY <1>1 DEF SecondInv, Cause, OneLogin
<1>3. QED  BY <1>2, LoginInit, LoginNext, SecondInit, SecondNext, PTL DEF Spec

\* Login_Menu::net_check: until there is a second network thread, the main menu
\* is shown to members of a session only, and no answer can come that would take
\* the client out of it.
THEOREM MenuForMembers == Spec => []EnteredIsMember
<1>1. LoginInv => EnteredIsMember
  BY DEF LoginInv, OneThreadInv, InMainMenu, Idle, NoAnswer, Answers, EnteredIsMember
<1>2. QED  BY <1>1, LoginInit, LoginNext, PTL DEF Spec
=============================================================================
