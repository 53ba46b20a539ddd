--------------------------- MODULE SessionProofs ---------------------------
(***************************************************************************)
(* Proofs about Session, for any number of connections and descriptors.    *)
(***************************************************************************)
EXTENDS Session, TLAPS

-----------------------------------------------------------------------------
(* Type correctness, and the lock-out invariant *)

\* Before main creates a thread for mconn there is none.
Fresh ==
  /\ mpc # "m_accept" => mconn \in Conns
  /\ mpc \in {"m_admit", "m_setflag", "m_spawn", "m_hbtest"}
       => pc[mconn] = "none" /\ peer[mconn] # "idle"
  /\ \A c \in Conns : peer[c] = "idle" => pc[c] = "none"

\* A heartbeat socket exists only once a heartbeat thread was created, so
\* Clean never cancels a thread that was never created.
HbKnown ==
  (HB_Sock # NoFd \/ \E c \in Conns : pc[c] = "h_start")
    => HeartBeartThread \in Conns

Inv == TypeOK /\ Fresh /\ HbKnown

USE ConnAssumption, FdAssumption

LEMMA InitInv == Init => Inv
<1> SUFFICES ASSUME Init PROVE Inv
  OBVIOUS
<1>1. TypeOK
  BY DEF Init, TypeOK, MainPC, Ended
<1>2. Fresh /\ HbKnown
  BY DEF Init, Fresh, HbKnown
<1> QED
  BY <1>1, <1>2 DEF Inv

\* Every step of main, of a client and of a thread preserves Inv.
LEMMA MainInv == Inv /\ MainStep => Inv'
<1> SUFFICES ASSUME Inv, MainStep PROVE Inv'
  OBVIOUS
<1> USE DEF Inv, TypeOK, Fresh, HbKnown, MainPC, AckPC, HbPC, CleanPC, Ended,
            env, main, fdVars, flags, threads, locals
<1>1. CASE MainAdmit
  BY <1>1 DEF MainAdmit
<1>2. CASE MainSetFlag
  BY <1>2 DEF MainSetFlag
<1>3. CASE MainSpawn
  BY <1>3 DEF MainSpawn
<1>4. CASE MainBusy
  BY <1>4 DEF MainBusy
<1>5. CASE MainHbSpawn
  BY <1>5 DEF MainHbSpawn
<1>6. CASE MainForgets
  BY <1>6 DEF MainForgets
<1>7. CASE MainHbFlag
  BY <1>7 DEF MainHbFlag
<1> QED
  BY <1>1, <1>2, <1>3, <1>4, <1>5, <1>6, <1>7 DEF MainStep

LEMMA ArrivalInv ==
  ASSUME NEW c \in Conns, Inv,
         ClientLeaves(c) \/ MainAccept(c) \/ MainAcceptFails(c)
  PROVE  Inv'
<1> USE DEF Inv, TypeOK, Fresh, HbKnown, MainPC, AckPC, HbPC, CleanPC, Ended,
            env, main, fdVars, flags, threads, locals
<1>1. CASE ClientLeaves(c)
  BY <1>1 DEF ClientLeaves
<1>2. CASE MainAccept(c)
  BY <1>2 DEF MainAccept, FreeFds
<1>3. CASE MainAcceptFails(c)
  BY <1>3 DEF MainAcceptFails
<1> QED
  BY <1>1, <1>2, <1>3

LEMMA AckInv ==
  ASSUME NEW c \in Conns, Inv, AckStep(c)
  PROVE  Inv'
<1> USE DEF Inv, TypeOK, Fresh, HbKnown, MainPC, AckPC, HbPC, CleanPC, Ended,
            env, main, fdVars, flags, threads, locals
<1>1. CASE AckCall(c)
  BY <1>1 DEF AckCall, At
<1>2. CASE AckReceives(c)
  BY <1>2 DEF AckReceives, Jump
<1>3. CASE AckIgnores(c)
  BY <1>3 DEF AckIgnores, Jump, Forget
<1>4. CASE AckLogout(c)
  BY <1>4 DEF AckLogout, Jump, Forget
<1>5. CASE AckRecvFails(c)
  BY <1>5 DEF AckRecvFails, Jump, Forget, Close
<1>6. CASE AckDrop(c)
  BY <1>6 DEF AckDrop, Jump
<1>7. CASE AckReplySent(c)
  BY <1>7 DEF AckReplySent, Forget, Replying
<1>8. CASE AckReplyFails(c)
  BY <1>8 DEF AckReplyFails, Forget, Replying
<1>9. CASE AckReplyTimesOut(c)
  BY <1>9 DEF AckReplyTimesOut, Forget, Close, Replying
<1>10. CASE AckLoggedIn(c)
  BY <1>10 DEF AckLoggedIn, Jump
<1>11. CASE AckExit(c)
  BY <1>11 DEF AckExit, Jump
<1> QED
  BY <1>1, <1>2, <1>3, <1>4, <1>5, <1>6, <1>7, <1>8, <1>9, <1>10, <1>11 DEF AckStep

LEMMA HbInv ==
  ASSUME NEW c \in Conns, Inv, HbStep(c)
  PROVE  Inv'
<1> USE DEF Inv, TypeOK, Fresh, HbKnown, MainPC, AckPC, HbPC, CleanPC, Ended,
            env, main, fdVars, flags, threads, locals
<1>1. CASE HbStart(c)
  BY <1>1 DEF HbStart, Jump
<1>2. CASE HbLoop(c)
  BY <1>2 DEF HbLoop, Jump
<1>3. CASE HbBeat(c)
  BY <1>3 DEF HbBeat, Jump
<1>4. CASE HbAnswered(c)
  BY <1>4 DEF HbAnswered, Jump, Release
<1>5. CASE HbFails(c)
  BY <1>5 DEF HbFails, Jump, Release
<1>6. CASE HbTimesOut(c)
  BY <1>6 DEF HbTimesOut, Jump, Release, Close
<1>7. CASE HbExit(c)
  BY <1>7 DEF HbExit, Jump
<1>8. CASE HbDies(c)
  BY <1>8 DEF HbDies, Release
<1> QED
  BY <1>1, <1>2, <1>3, <1>4, <1>5, <1>6, <1>7, <1>8 DEF HbStep

LEMMA CleanInv ==
  ASSUME NEW c \in Conns, Inv, CleanStep(c)
  PROVE  Inv'
<1> USE DEF Inv, TypeOK, Fresh, HbKnown, MainPC, AckPC, HbPC, CleanPC, Ended,
            env, main, fdVars, flags, threads, locals
<1>1. CASE CleanEnter(c)
  BY <1>1 DEF CleanEnter, Jump
<1>2. CASE CleanClose(c)
  BY <1>2 DEF CleanClose, Jump, Close
<1>3. CASE CleanReset(c)
  BY <1>3 DEF CleanReset, Jump
<1>4. CASE CleanCancel(c)
  BY <1>4 DEF CleanCancel, Jump
<1>5. CASE CleanHbClose(c)
  BY <1>5 DEF CleanHbClose, Jump, Close
<1>6. CASE CleanHbReset(c)
  BY <1>6 DEF CleanHbReset, Jump
<1>7. CASE CleanFd(c)
  BY <1>7 DEF CleanFd, Jump
<1>8. CASE CleanFlag(c)
  BY <1>8 DEF CleanFlag, Jump
<1>9. CASE CleanHbFlag(c)
  BY <1>9 DEF CleanHbFlag, Jump
<1> QED
  BY <1>1, <1>2, <1>3, <1>4, <1>5, <1>6, <1>7, <1>8, <1>9 DEF CleanStep

LEMMA StepInv == Inv /\ [Next]_vars => Inv'
<1> SUFFICES ASSUME Inv, [Next]_vars PROVE Inv'
  OBVIOUS
<1>1. CASE UNCHANGED vars
  BY <1>1 DEF vars, env, main, fdVars, flags, threads, Inv, TypeOK, Fresh,
              HbKnown
<1>2. CASE MainStep
  BY <1>2, MainInv
<1>3. CASE \E c \in Conns : ClientLeaves(c) \/ MainAccept(c) \/ MainAcceptFails(c)
  BY <1>3, ArrivalInv
<1>4. CASE \E c \in Conns : ThreadStep(c)
  BY <1>4, AckInv, HbInv, CleanInv DEF ThreadStep
<1> QED
  BY <1>1, <1>2, <1>3, <1>4 DEF Next

\* Program counters, descriptors and thread handles stay in their ranges in
\* every run of the server; in particular pthread_cancel (Server.c:158) is
\* only ever given the handle of a thread that was created.
THEOREM TypeCorrect == Spec => []TypeOK
<1>1. Inv /\ [Next]_vars => Inv'
  BY StepInv
<1>2. Inv => TypeOK
  BY DEF Inv
<1> QED
  BY InitInv, <1>1, <1>2, PTL DEF Spec

-----------------------------------------------------------------------------
(* The lock-out invariant is inductive relative to Inv *)

LEMMA AckLock ==
  ASSUME NEW c \in Conns, Inv, NeverLockedOut, AckStep(c)
  PROVE  NeverLockedOut'
<1> USE DEF Inv, TypeOK, NeverLockedOut, Responsible, fdVars, flags, main,
            threads, locals, Ended, AckPC
<1>1. CASE AckCall(c)
  BY <1>1 DEF AckCall
<1>2. CASE AckReceives(c)
  BY <1>2 DEF AckReceives, Jump
<1>3. CASE AckIgnores(c)
  BY <1>3 DEF AckIgnores, Jump
<1>4. CASE AckLogout(c)
  BY <1>4 DEF AckLogout, Jump
<1>5. CASE AckRecvFails(c)
  BY <1>5 DEF AckRecvFails, Jump
<1>6. CASE AckDrop(c)
  BY <1>6 DEF AckDrop, Jump
<1>7. CASE AckReplySent(c)
  BY <1>7 DEF AckReplySent, Replying
<1>8. CASE AckReplyFails(c)
  BY <1>8 DEF AckReplyFails, Replying
<1>9. CASE AckReplyTimesOut(c)
  BY <1>9 DEF AckReplyTimesOut, Replying
<1>10. CASE AckLoggedIn(c)
  BY <1>10 DEF AckLoggedIn, Jump
<1>11. CASE AckExit(c)
  BY <1>11 DEF AckExit, Jump
<1> QED
  BY <1>1, <1>2, <1>3, <1>4, <1>5, <1>6, <1>7, <1>8, <1>9, <1>10, <1>11 DEF AckStep

LEMMA HbLock ==
  ASSUME NEW c \in Conns, Inv, NeverLockedOut, HbStep(c)
  PROVE  NeverLockedOut'
<1> USE DEF Inv, TypeOK, NeverLockedOut, Responsible, fdVars, flags, main,
            threads, locals, Ended, AckPC
<1>1. CASE HbStart(c)
  BY <1>1 DEF HbStart, Jump
<1>2. CASE HbLoop(c)
  BY <1>2 DEF HbLoop, Jump
<1>3. CASE HbBeat(c)
  BY <1>3 DEF HbBeat, Jump
<1>4. CASE HbAnswered(c)
  BY <1>4 DEF HbAnswered, Jump
<1>5. CASE HbFails(c)
  BY <1>5 DEF HbFails, Jump
<1>6. CASE HbTimesOut(c)
  BY <1>6 DEF HbTimesOut, Jump
<1>7. CASE HbExit(c)
  BY <1>7 DEF HbExit, Jump
<1>8. CASE HbDies(c)
  BY <1>8 DEF HbDies
<1> QED
  BY <1>1, <1>2, <1>3, <1>4, <1>5, <1>6, <1>7, <1>8 DEF HbStep

LEMMA CleanLock ==
  ASSUME NEW c \in Conns, Inv, NeverLockedOut, CleanStep(c)
  PROVE  NeverLockedOut'
<1> USE DEF Inv, TypeOK, NeverLockedOut, Responsible, fdVars, flags, main,
            threads, locals, Ended, AckPC
<1>1. CASE CleanEnter(c)
  BY <1>1 DEF CleanEnter, Jump
<1>2. CASE CleanClose(c)
  BY <1>2 DEF CleanClose, Jump
<1>3. CASE CleanReset(c)
  BY <1>3 DEF CleanReset, Jump
<1>4. CASE CleanCancel(c)
  BY <1>4 DEF CleanCancel, Jump
<1>5. CASE CleanHbClose(c)
  BY <1>5 DEF CleanHbClose, Jump
<1>6. CASE CleanHbReset(c)
  BY <1>6 DEF CleanHbReset, Jump
<1>7. CASE CleanFd(c)
  BY <1>7 DEF CleanFd, Jump
<1>8. CASE CleanFlag(c)
  BY <1>8 DEF CleanFlag, Jump
<1>9. CASE CleanHbFlag(c)
  BY <1>9 DEF CleanHbFlag, Jump
<1> QED
  BY <1>1, <1>2, <1>3, <1>4, <1>5, <1>6, <1>7, <1>8, <1>9 DEF CleanStep

\* The server is never locked against new clients: whatever the clients do
\* and however the threads interleave, while Connect_Flag is set there is a
\* communication thread (or one about to be created) that will reset it.
THEOREM NeverLocked == Spec => []NeverLockedOut
<1>1. Init => NeverLockedOut
  BY DEF Init, NeverLockedOut
<1>2. Inv /\ NeverLockedOut /\ [Next]_vars => NeverLockedOut'
  <2> SUFFICES ASSUME Inv, NeverLockedOut, [Next]_vars PROVE NeverLockedOut'
    OBVIOUS
  <2> USE DEF Inv, TypeOK, Fresh, NeverLockedOut, Responsible, fdVars, flags, main,
              threads
  <2>1. CASE UNCHANGED vars
    BY <2>1 DEF vars
  <2>2. CASE MainStep
    <3>1. CASE MainAdmit
      BY <3>1 DEF MainAdmit
    <3>2. CASE MainSetFlag
      BY <3>2 DEF MainSetFlag
    <3>3. CASE MainSpawn
      BY <3>3 DEF MainSpawn
    <3>4. CASE MainBusy
      BY <3>4 DEF MainBusy
    <3>5. CASE MainHbSpawn
      BY <3>5 DEF MainHbSpawn
    <3>6. CASE MainForgets
      BY <3>6 DEF MainForgets
    <3>7. CASE MainHbFlag
      BY <3>7 DEF MainHbFlag
    <3> QED
      BY <2>2, <3>1, <3>2, <3>3, <3>4, <3>5, <3>6, <3>7 DEF MainStep
  <2>3. ASSUME NEW c \in Conns,
               ClientLeaves(c) \/ MainAccept(c) \/ MainAcceptFails(c)
        PROVE  NeverLockedOut'
    BY <2>3 DEF ClientLeaves, MainAccept, MainAcceptFails
  <2>4. CASE \E c \in Conns : ThreadStep(c)
    BY <2>4, AckLock, HbLock, CleanLock DEF ThreadStep
  <2> QED
    BY <2>1, <2>2, <2>3, <2>4 DEF Next
<1>3. Inv /\ [Next]_vars => Inv'
  BY StepInv
<1> QED
  BY InitInv, <1>1, <1>2, <1>3, PTL DEF Spec

-----------------------------------------------------------------------------
(***************************************************************************)
(* Clients that come one after the other and do not send logout: the       *)
(* sessions do not overlap, although a session's thread still runs its     *)
(* last step, the reset of HeartBeartFlag, while the next client is        *)
(* admitted.                                                               *)
(***************************************************************************)
Turns == ~Companion /\ "logout" \notin Requests

\* No heartbeat thread ever starts, and Clean is only run by a thread's end.
NoHeartbeat ==
  /\ HB_Sock = NoFd /\ mpc \notin {"m_hbtest", "m_hbflag"}
  /\ \A c \in Conns : /\ role[c] # "hb" /\ back[c] = "done"
                      /\ pc[c] \notin HbPC
                      /\ role[c] = "ack" <=> pc[c] # "none"

\* A thread that holds the place keeps Connect_Flag set and main waiting.
HeldAlone ==
  /\ Connect_Flag => mpc \in {"m_accept", "m_spawn"}
  /\ mpc = "m_spawn" => Connect_Flag
  /\ \A c \in Holding : Connect_Flag /\ mpc = "m_accept"
  /\ \A c, d \in Holding : c = d

\* The login ends when the thread that holds the place enters Clean.
LoginHeld == Login_Flag => \E c \in Conns : pc[c] \in AckPC \cup {"c_enter"}

\* connect_fd refers to the holder's connection until it is closed.
OwnConnection ==
  /\ mpc = "m_admit" => At(New_Sockfd) = mconn
  /\ mpc \in {"m_setflag", "m_spawn"} => At(connect_fd) = mconn
  /\ \A c \in Holding : At(connect_fd) \in {c, NoConn}
  /\ \A c \in Conns : /\ on[c] \in {c, NoConn}
                      /\ pc[c] \in Replying => on[c] = c

TurnState == NoHeartbeat /\ HeldAlone /\ LoginHeld /\ OwnConnection
TurnInv == Inv /\ TurnState

LEMMA InitTurn == Init => TurnInv
<1>1. Init => TurnState
  BY DEF Init, TurnState, NoHeartbeat, HeldAlone, LoginHeld, OwnConnection, Holding, Ended,
         Replying, HbPC, At
<1> QED
  BY <1>1, InitInv DEF TurnInv

LEMMA MainTurn == Turns /\ TurnInv /\ MainStep => TurnState'
<1> SUFFICES ASSUME Turns, TurnInv, MainStep PROVE TurnState'
  OBVIOUS
<1> USE DEF TurnInv, TurnState, Inv, TypeOK, Fresh, NoHeartbeat, HeldAlone, LoginHeld,
            OwnConnection, Holding, At, Turns, Replying, Ended, AckPC, HbPC, CleanPC,
            env, main, fdVars, flags, threads, locals
<1>1. CASE MainAdmit
  BY <1>1 DEF MainAdmit
<1>2. CASE MainSetFlag
  BY <1>2 DEF MainSetFlag
<1>3. CASE MainSpawn
  <2>1. mconn \in Conns /\ Holding = {}
    BY <1>3 DEF MainSpawn
  <2>2. \A c \in Conns : pc'[c] = IF c = mconn THEN "a_loop" ELSE pc[c]
    BY <1>3 DEF MainSpawn
  <2>3. Holding' = {mconn}
    BY <2>1, <2>2
  <2>4. NoHeartbeat'
    BY <1>3, <2>1, <2>2 DEF MainSpawn
  <2>5. HeldAlone'
    <3>1. Connect_Flag' /\ mpc' = "m_accept"
      BY <1>3 DEF MainSpawn
    <3> HIDE DEF Holding
    <3> QED
      BY <3>1, <2>3
  <2>6. LoginHeld'
    BY <2>1, <2>2
  <2>7. OwnConnection'
    <3>1. At(connect_fd) = mconn /\ on' = on /\ At(connect_fd)' = At(connect_fd)
          /\ mpc' = "m_accept"
      BY <1>3 DEF MainSpawn
    <3>2. \A c \in Conns : pc'[c] \in Replying => on'[c] = c
      BY <1>3, <2>2 DEF MainSpawn
    <3> HIDE DEF Holding, At, Replying
    <3> QED
      BY <3>1, <3>2, <2>3
  <2> QED
    BY <2>4, <2>5, <2>6, <2>7
<1>4. CASE MainBusy
  BY <1>4 DEF MainBusy
<1>5. CASE MainHbSpawn
  BY <1>5 DEF MainHbSpawn
<1>6. CASE MainForgets
  BY <1>6 DEF MainForgets
<1>7. CASE MainHbFlag
  BY <1>7 DEF MainHbFlag
<1> QED
  BY <1>1, <1>2, <1>3, <1>4, <1>5, <1>6, <1>7 DEF MainStep

LEMMA AckTurn ==
  ASSUME NEW c \in Conns, Turns, TurnInv, AckStep(c)
  PROVE  TurnState'
<1> USE DEF TurnInv, TurnState, Inv, TypeOK, Fresh, NoHeartbeat, HeldAlone, LoginHeld,
            OwnConnection, Holding, At, Turns, Replying, Ended, AckPC, HbPC, CleanPC,
            env, main, fdVars, flags, threads, locals
<1>1. CASE AckCall(c)
  BY <1>1 DEF AckCall
<1>2. CASE AckReceives(c)
  BY <1>2 DEF AckReceives, Jump
<1>3. CASE AckIgnores(c)
  BY <1>3 DEF AckIgnores, Jump, Forget
<1>4. CASE AckLogout(c)
  BY <1>4 DEF AckLogout, Jump, Forget
<1>5. CASE AckRecvFails(c)
  BY <1>5 DEF AckRecvFails, Jump, Forget, Close
<1>6. CASE AckDrop(c)
  BY <1>6 DEF AckDrop, Jump
<1>7. CASE AckReplySent(c)
  BY <1>7 DEF AckReplySent, Forget
<1>8. CASE AckReplyFails(c)
  BY <1>8 DEF AckReplyFails, Forget
<1>9. CASE AckReplyTimesOut(c)
  BY <1>9 DEF AckReplyTimesOut, Forget, Close
<1>10. CASE AckLoggedIn(c)
  BY <1>10 DEF AckLoggedIn, Jump
<1>11. CASE AckExit(c)
  BY <1>11 DEF AckExit, Jump
<1> QED
  BY <1>1, <1>2, <1>3, <1>4, <1>5, <1>6, <1>7, <1>8, <1>9, <1>10, <1>11 DEF AckStep

LEMMA CleanTurn ==
  ASSUME NEW c \in Conns, Turns, TurnInv, CleanStep(c)
  PROVE  TurnState'
<1> USE DEF TurnInv, TurnState, Inv, TypeOK, Fresh, NoHeartbeat, HeldAlone, LoginHeld,
            OwnConnection, Holding, At, Turns, Replying, Ended, AckPC, HbPC, CleanPC,
            env, main, fdVars, flags, threads, locals
<1>1. CASE CleanEnter(c)
  BY <1>1 DEF CleanEnter, Jump
<1>2. CASE CleanClose(c)
  BY <1>2 DEF CleanClose, Jump, Close
<1>3. CASE CleanReset(c)
  BY <1>3 DEF CleanReset, Jump
<1>4. CASE CleanCancel(c)
  BY <1>4 DEF CleanCancel, Jump
<1>5. CASE CleanHbClose(c)
  BY <1>5 DEF CleanHbClose, Jump, Close
<1>6. CASE CleanHbReset(c)
  BY <1>6 DEF CleanHbReset, Jump
<1>7. CASE CleanFd(c)
  BY <1>7 DEF CleanFd, Jump
<1>8. CASE CleanFlag(c)
  BY <1>8 DEF CleanFlag, Jump
<1>9. CASE CleanHbFlag(c)
  BY <1>9 DEF CleanHbFlag, Jump
<1> QED
  BY <1>1, <1>2, <1>3, <1>4, <1>5, <1>6, <1>7, <1>8, <1>9 DEF CleanStep

LEMMA StepTurn == Turns /\ TurnInv /\ [Next]_vars => TurnInv'
<1> SUFFICES ASSUME Turns, TurnInv, [Next]_vars PROVE TurnState'
  BY StepInv DEF TurnInv
<1> USE DEF TurnInv, TurnState, Inv, TypeOK, Fresh, NoHeartbeat, HeldAlone,
            LoginHeld, OwnConnection, Holding, At, Turns, Replying, Ended, AckPC,
            HbPC, CleanPC, env, main, fdVars, flags, threads, locals
<1>1. CASE UNCHANGED vars
  BY <1>1 DEF vars
<1>2. CASE MainStep
  BY <1>2, MainTurn
<1>3. ASSUME NEW c \in Conns, ClientLeaves(c)
      PROVE  TurnState'
  BY <1>3 DEF ClientLeaves
<1>4. ASSUME NEW c \in Conns, MainAccept(c)
      PROVE  TurnState'
  BY <1>4 DEF MainAccept, FreeFds
<1>5. ASSUME NEW c \in Conns, MainAcceptFails(c)
      PROVE  TurnState'
  BY <1>5 DEF MainAcceptFails
<1>6. ASSUME NEW c \in Conns, HbStep(c)
      PROVE  TurnState'
  BY <1>6 DEF HbStep, HbStart, HbLoop, HbBeat, HbAnswered, HbFails, HbTimesOut,
              HbExit, HbDies, Jump
<1>7. ASSUME NEW c \in Conns, AckStep(c) \/ CleanStep(c)
      PROVE  TurnState'
  BY <1>7, AckTurn, CleanTurn
<1> QED
  BY <1>1, <1>2, <1>3, <1>4, <1>5, <1>6, <1>7 DEF Next, ThreadStep

LEMMA TurnsHold == ASSUME Turns PROVE Spec => []TurnInv
<1>1. TurnInv /\ [Next]_vars => TurnInv'
  BY StepTurn
<1> QED
  BY InitTurn, <1>1, PTL DEF Spec

\* When clients come one after the other and do not log out, requests are
\* served by one communication thread at a time.
THEOREM OneServerInTurns == ASSUME Turns PROVE Spec => []OneServer
<1>1. TurnInv => OneServer
  BY DEF TurnInv, TurnState, HeldAlone, OneServer, Holding, Serving, Ended, AckPC
<1> QED
  BY <1>1, TurnsHold, PTL

\* An answer is then only ever sent on the connection its request came from:
\* connect_fd is not reset, and its number not reused, under the thread.
THEOREM AnswerToAskerInTurns == ASSUME Turns PROVE Spec => []AnswerToAsker
<1>1. TurnInv => AnswerToAsker
  BY DEF TurnInv, TurnState, OwnConnection, AnswerToAsker, Holding, Replying, Ended
<1> QED
  BY <1>1, TurnsHold, PTL

\* And a client is only admitted to a session in which nobody is logged in.
THEOREM StartsLoggedOutInTurns == ASSUME Turns PROVE Spec => []StartsLoggedOut
<1>1. TurnInv => StartsLoggedOut
  BY DEF TurnInv, TurnState, HeldAlone, LoginHeld, StartsLoggedOut, Holding,
         Ended, AckPC
<1> QED
  BY <1>1, TurnsHold, PTL

\* The client whose requests are served is then the one that Connect_Flag
\* stands for: the flag is not reset under it (outside Turns it is, see the run
\* session_connected).
THEOREM ServedIsConnectedInTurns == ASSUME Turns PROVE Spec => []ServedIsConnected
<1>1. TurnInv => ServedIsConnected
  BY DEF TurnInv, TurnState, HeldAlone, ServedIsConnected, Holding, Ended
<1> QED
  BY <1>1, TurnsHold, PTL

-----------------------------------------------------------------------------
(* The refinement of ClientSlot *)

LEMMA HolderIsClient ==
  ASSUME TurnInv, NEW c \in Holding PROVE Client = c /\ Holding = {c}
<1>1. mpc = "m_accept" /\ Holding = {c}
  BY DEF TurnInv, TurnState, HeldAlone
<1> QED
  BY <1>1 DEF Client

LEMMA NoHolder ==
  ASSUME Holding = {}, mpc \notin {"m_setflag", "m_spawn"} PROVE Client = NoConn
BY DEF Client

\* A step of a thread that neither starts nor ends a session.
LEMMA SameHolding ==
  ASSUME Holding' = Holding, mpc' = mpc, mconn' = mconn, role' = role
  PROVE  Client' = Client /\ Past' = Past
BY DEF Client, Past

LEMMA InitSlot == Init => Slot!SlotInit
<1> SUFFICES ASSUME Init PROVE Slot!SlotInit
  OBVIOUS
<1>1. Holding = {} /\ Past = {}
  BY DEF Init, Holding, Past, Ended
<1> QED
  BY <1>1, NoHolder DEF Init, Slot!SlotInit

LEMMA MainSlot ==
  ASSUME Turns, TurnInv, MainStep
  PROVE  [Slot!SlotNext]_<<Client, Past, Login_Flag>>
<1> USE DEF TurnInv, TurnState, Inv, Fresh, NoHeartbeat, HeldAlone, LoginHeld
<1>1. CASE MainAdmit
  <2>1. mconn \in Conns /\ pc[mconn] = "none" /\ Holding = {} /\ ~Login_Flag
    BY <1>1 DEF MainAdmit, Holding, Ended, AckPC
  <2>2. Client = NoConn /\ Client' = mconn
    BY <1>1, <2>1, NoHolder DEF MainAdmit, Client
  <2>3. mconn \notin Past /\ Past' = Past
    BY <1>1, <2>1 DEF MainAdmit, Past, Holding, threads
  <2>4. Slot!Admit(mconn)
    BY <1>1, <2>1, <2>2, <2>3 DEF MainAdmit, Slot!Admit, flags
  <2> QED
    BY <2>1, <2>4 DEF Slot!SlotNext
<1>2. CASE MainSetFlag
  BY <1>2 DEF MainSetFlag, Client, Past, Holding, threads
<1>3. CASE MainSpawn
  <2>1. mconn \in Conns /\ Holding = {} /\ pc \in [Conns -> AckPC \cup HbPC \cup CleanPC \cup Ended]
        /\ role \in [Conns -> {"none", "ack", "hb"}]
    BY <1>3 DEF MainSpawn, TypeOK
  <2>2. Holding' = {mconn}
    BY <1>3, <2>1 DEF MainSpawn, Holding, Ended
  <2>3. Client = mconn /\ Client' = mconn
    BY <1>3, <2>2 DEF MainSpawn, Client
  <2>4. Past' = Past
    BY <1>3, <2>1, <2>2 DEF MainSpawn, Past
  <2> QED
    BY <1>3, <2>3, <2>4 DEF MainSpawn, flags
<1>4. CASE MainBusy \/ MainHbSpawn \/ MainForgets \/ MainHbFlag
  BY <1>4 DEF MainBusy, MainHbSpawn, MainForgets, MainHbFlag
<1> QED
  BY <1>1, <1>2, <1>3, <1>4 DEF MainStep

\* A thread that holds the place and goes on holding it.
LEMMA StillHolding ==
  ASSUME TypeOK, NEW c \in Holding, NEW p,
         p \notin Ended \cup {"c_hbflag"}, pc' = [pc EXCEPT ![c] = p]
  PROVE  Holding' = Holding
BY DEF Holding, TypeOK

LEMMA ThreadSlot ==
  ASSUME Turns, TurnInv, NEW c \in Conns, AckStep(c) \/ CleanStep(c)
  PROVE  [Slot!SlotNext]_<<Client, Past, Login_Flag>>
<1> USE DEF TurnInv, TurnState, Inv
<1>1. mpc' = mpc /\ mconn' = mconn /\ role' = role
  BY DEF AckStep, AckCall, AckReceives, AckIgnores, AckLogout, AckRecvFails,
         AckDrop, AckReplySent, AckReplyFails, AckReplyTimesOut, AckLoggedIn,
         AckExit, CleanStep, CleanEnter, CleanClose, CleanReset, CleanCancel,
         CleanHbClose, CleanHbReset, CleanFd, CleanFlag, CleanHbFlag, main, locals
<1>2. CASE AckLoggedIn(c)
  <2>1. c \in Holding /\ Holding' = Holding
    BY <1>2, StillHolding DEF AckLoggedIn, Jump, Holding, Ended
  <2>2. Client = c /\ Client' = Client /\ Past' = Past
    BY <1>1, <2>1, HolderIsClient, SameHolding
  <2>3. Slot!Login
    BY <1>2, <2>2, ConnAssumption DEF AckLoggedIn, Slot!Login
  <2> QED
    BY <2>3 DEF Slot!SlotNext
<1>3. CASE CleanEnter(c)
  <2>1. c \in Holding /\ Holding' = Holding
    BY <1>3, StillHolding DEF CleanEnter, Jump, Holding, Ended
  <2>2. Client = c /\ Client' = Client /\ Past' = Past
    BY <1>1, <2>1, HolderIsClient, SameHolding
  <2>3. Slot!EndLogin
    BY <1>3, <2>2, ConnAssumption DEF CleanEnter, Slot!EndLogin
  <2> QED
    BY <2>3 DEF Slot!SlotNext
<1>4. CASE CleanFlag(c)
  <2>1. c \in Holding /\ pc' = [pc EXCEPT ![c] = "c_hbflag"]
    BY <1>4 DEF CleanFlag, Jump, Holding, Ended
  <2>2. Client = c /\ Holding = {c}
    BY <2>1, HolderIsClient
  <2>3. Holding' = {} /\ mpc = "m_accept"
    BY <2>1, <2>2 DEF Holding, TypeOK, HeldAlone
  <2>4. Client' = NoConn
    BY <1>1, <2>3 DEF Client
  <2>5. Past' = Past \cup {c}
    <3>1. role[c] = "ack"
      BY <2>1 DEF NoHeartbeat, Holding, Ended
    <3> QED
      BY <1>1, <2>2, <2>3, <3>1 DEF Past
  <2>6. ~Login_Flag /\ Login_Flag' = Login_Flag
    BY <1>4, <2>2 DEF CleanFlag, Jump, LoginHeld, Holding, AckPC, Ended
  <2>7. Slot!Leave
    BY <2>2, <2>4, <2>5, <2>6, ConnAssumption DEF Slot!Leave
  <2> QED
    BY <2>7 DEF Slot!SlotNext
<1>5. ASSUME NEW p, pc' = [pc EXCEPT ![c] = p], Login_Flag' = Login_Flag,
             \/ pc[c] \notin Ended \cup {"c_hbflag"}
                /\ p \notin Ended \cup {"c_hbflag"}
             \/ pc[c] = "c_hbflag" /\ p \in Ended
      PROVE  UNCHANGED <<Client, Past, Login_Flag>>
  <2>1. Holding' = Holding
    BY <1>5, StillHolding DEF Holding, TypeOK
  <2> QED
    BY <1>1, <1>5, <2>1, SameHolding
<1> USE DEF Jump, flags, Ended
<1>6. CASE AckCall(c)
  BY <1>5, <1>6 DEF AckCall
<1>7. CASE AckReceives(c)
  BY <1>5, <1>7 DEF AckReceives
<1>8. CASE AckIgnores(c) \/ AckLogout(c)
  BY <1>5, <1>8 DEF AckIgnores, AckLogout, Turns
<1>9. CASE AckRecvFails(c) \/ AckDrop(c)
  BY <1>5, <1>9 DEF AckRecvFails, AckDrop
<1>10. CASE AckReplySent(c)
  BY <1>5, <1>10 DEF AckReplySent, Replying
<1>11. CASE AckReplyFails(c) \/ AckReplyTimesOut(c)
  BY <1>5, <1>11 DEF AckReplyFails, AckReplyTimesOut, Replying
<1>12. CASE AckExit(c)
  <2>1. c \in Holding
    BY <1>12 DEF AckExit, Holding
  <2> QED
    BY <1>5, <1>12, <2>1 DEF AckExit, HeldAlone
<1>13. CASE CleanClose(c) \/ CleanReset(c) \/ CleanCancel(c)
  BY <1>5, <1>13 DEF CleanClose, CleanReset, CleanCancel
<1>14. CASE CleanHbClose(c) \/ CleanHbReset(c) \/ CleanFd(c)
  BY <1>5, <1>14 DEF CleanHbClose, CleanHbReset, CleanFd
<1>15. CASE CleanHbFlag(c)
  BY <1>5, <1>15 DEF CleanHbFlag, NoHeartbeat
<1> QED
  BY <1>2, <1>3, <1>4, <1>6, <1>7, <1>8, <1>9, <1>10, <1>11, <1>12, <1>13,
     <1>14, <1>15 DEF AckStep, CleanStep

LEMMA StepSlot ==
  ASSUME Turns, TurnInv, [Next]_vars
  PROVE  [Slot!SlotNext]_<<Client, Past, Login_Flag>>
<1> USE DEF TurnInv, TurnState, Inv, main, flags, threads, locals
<1>1. CASE UNCHANGED vars
  BY <1>1 DEF vars, Client, Past, Holding
<1>2. CASE MainStep
  BY <1>2, MainSlot
<1>3. ASSUME NEW c \in Conns, ClientLeaves(c)
      PROVE  UNCHANGED <<Client, Past, Login_Flag>>
  BY <1>3 DEF ClientLeaves, Client, Past, Holding
<1>4. ASSUME NEW c \in Conns, MainAccept(c)
      PROVE  UNCHANGED <<Client, Past, Login_Flag>>
  <2>1. Holding' = Holding /\ role' = role /\ Login_Flag' = Login_Flag
    BY <1>4 DEF MainAccept, Holding
  <2>2. mpc = "m_accept" /\ mpc' = "m_admit"
    BY <1>4 DEF MainAccept
  <2>3. Holding = {}
    BY <1>4 DEF MainAccept, Turns, HeldAlone
  <2> QED
    BY <2>1, <2>2, <2>3 DEF Client, Past
<1>5. ASSUME NEW c \in Conns, MainAcceptFails(c)
      PROVE  UNCHANGED <<Client, Past, Login_Flag>>
  <2>1. Holding = {} /\ Login_Flag = FALSE /\ mpc = "m_accept"
    BY <1>5 DEF MainAcceptFails, Turns, HeldAlone, LoginHeld, Holding, AckPC, Ended,
                TypeOK
  <2>2. Holding' = {}
    BY <1>5 DEF MainAcceptFails, Holding, Ended
  <2>3. mpc' = "m_accept" /\ role' = role /\ Login_Flag' = FALSE
    BY <1>5 DEF MainAcceptFails
  <2>4. Client = NoConn /\ Client' = NoConn
    BY <2>1, <2>2, <2>3 DEF Client
  <2>5. Past' = Past
    BY <2>1, <2>2, <2>3 DEF Past
  <2> QED
    BY <2>1, <2>3, <2>4, <2>5
<1>6. ASSUME NEW c \in Conns, HbStep(c)
      PROVE  FALSE
  BY <1>6 DEF NoHeartbeat, HbPC, HbStep, HbStart, HbLoop, HbBeat, HbAnswered,
              HbFails, HbTimesOut, HbExit, HbDies, Jump
<1> QED
  BY <1>1, <1>2, <1>3, <1>4, <1>5, <1>6, ThreadSlot DEF Next, ThreadStep

\* Clients that come one after the other, and do not log out, find one place
\* for one client: every step of the server's threads is a step of ClientSlot
\* or leaves the place alone.
THEOREM OnePlaceInTurns == ASSUME Turns PROVE Spec => OnePlace
<1>1. TurnInv /\ [Next]_vars => [Slot!SlotNext]_<<Client, Past, Login_Flag>>
  BY StepSlot
<1> QED
  BY <1>1, InitSlot, TurnsHold, PTL DEF Spec, OnePlace, Slot!SlotSpec, Slot!slotVars

-----------------------------------------------------------------------------
(* The end of the threads, as far as it can be said without fairness: what *)
(* holds a thread up, and how much it has left once the clients are gone.  *)

\* pthread_cancel is called for heartbeat threads only.
HbHandle ==
  /\ HeartBeartThread \in Conns => role[HeartBeartThread] = "hb"
  /\ \A c \in cancelled : role[c] = "hb"

\* A connection has a routine once it has a thread.
NoRole == \A c \in Conns : pc[c] = "none" => role[c] = "none"

\* A connection that something refers to has been made.
MadeBefore ==
  /\ \A f \in FDs : fdTable[f] # NoConn => peer[fdTable[f]] # "idle"
  /\ \A c \in Conns : on[c] # NoConn => peer[on[c]] # "idle"

EndInv == HbHandle /\ NoRole /\ MadeBefore

LEMMA InitEnd == Init => EndInv
BY DEF Init, EndInv, HbHandle, NoRole, MadeBefore

LEMMA MainEnd == Inv /\ EndInv /\ MainStep => EndInv'
<1> SUFFICES ASSUME Inv, EndInv, MainStep PROVE EndInv'
  OBVIOUS
<1> USE DEF Inv, TypeOK, Fresh, EndInv, HbHandle, NoRole, MadeBefore, MainPC, env, main, fdVars,
            flags, threads
<1>1. CASE MainAdmit \/ MainSetFlag \/ MainBusy \/ MainForgets \/ MainHbFlag
  BY <1>1 DEF MainAdmit, MainSetFlag, MainBusy, MainForgets, MainHbFlag
<1>2. CASE MainSpawn
  BY <1>2 DEF MainSpawn
<1>3. CASE MainHbSpawn
  BY <1>3 DEF MainHbSpawn
<1> QED
  BY <1>1, <1>2, <1>3 DEF MainStep

LEMMA ArrivalEnd ==
  ASSUME NEW c \in Conns, Inv, EndInv, ClientLeaves(c) \/ MainAccept(c) \/ MainAcceptFails(c)
  PROVE  EndInv'
<1> USE DEF Inv, TypeOK, EndInv, HbHandle, NoRole, MadeBefore, env, main, fdVars, flags, threads
<1>1. CASE ClientLeaves(c)
  BY <1>1 DEF ClientLeaves
<1>2. CASE MainAccept(c)
  BY <1>2 DEF MainAccept, FreeFds
<1>3. CASE MainAcceptFails(c)
  BY <1>3 DEF MainAcceptFails
<1> QED
  BY <1>1, <1>2, <1>3

LEMMA ThreadEnd ==
  ASSUME NEW c \in Conns, Inv, EndInv, ThreadStep(c)
  PROVE  EndInv'
<1> USE DEF Inv, TypeOK, EndInv, HbHandle, NoRole, MadeBefore, At, AckPC, HbPC, CleanPC, Ended,
            env, main, fdVars, flags, threads, locals
<1>1. CASE AckStep(c)
  <2>1. CASE AckCall(c)
    BY <1>1, <2>1 DEF AckCall
  <2>2. CASE AckReceives(c) \/ AckIgnores(c) \/ AckLogout(c)
    BY <2>2 DEF AckReceives, AckIgnores, AckLogout, Jump, Forget
  <2>3. CASE AckRecvFails(c) \/ AckDrop(c)
    BY <2>3 DEF AckRecvFails, AckDrop, Jump, Forget, Close
  <2>4. CASE AckReplySent(c) \/ AckReplyFails(c) \/ AckReplyTimesOut(c)
    BY <2>4 DEF AckReplySent, AckReplyFails, AckReplyTimesOut, Replying, Forget, Close
  <2>5. CASE AckLoggedIn(c) \/ AckExit(c)
    BY <2>5 DEF AckLoggedIn, AckExit, Jump
  <2> QED
    BY <1>1, <2>1, <2>2, <2>3, <2>4, <2>5 DEF AckStep
<1>2. CASE HbStep(c)
  <2>1. CASE HbStart(c) \/ HbLoop(c) \/ HbBeat(c) \/ HbExit(c)
    BY <2>1 DEF HbStart, HbLoop, HbBeat, HbExit, Jump
  <2>2. CASE HbAnswered(c) \/ HbFails(c) \/ HbTimesOut(c) \/ HbDies(c)
    BY <2>2 DEF HbAnswered, HbFails, HbTimesOut, HbDies, Jump, Release, Close
  <2> QED
    BY <1>2, <2>1, <2>2 DEF HbStep
<1>3. CASE CleanStep(c)
  <2>1. CASE CleanEnter(c) \/ CleanClose(c) \/ CleanReset(c)
    BY <2>1 DEF CleanEnter, CleanClose, CleanReset, Jump, Close
  <2>2. CASE CleanCancel(c)
    BY <2>2 DEF CleanCancel, Jump, HbKnown
  <2>3. CASE CleanHbClose(c) \/ CleanHbReset(c) \/ CleanFd(c) \/ CleanFlag(c)
    BY <2>3 DEF CleanHbClose, CleanHbReset, CleanFd, CleanFlag, Jump, Close
  <2>4. CASE CleanHbFlag(c)
    BY <2>4 DEF CleanHbFlag, Jump
  <2> QED
    BY <1>3, <2>1, <2>2, <2>3, <2>4 DEF CleanStep
<1> QED
  BY <1>1, <1>2, <1>3 DEF ThreadStep

LEMMA EndsKnown == Spec => [](Inv /\ EndInv)
<1>1. EndInv /\ Inv /\ [Next]_vars => EndInv'
  <2> SUFFICES ASSUME EndInv, Inv, [Next]_vars PROVE EndInv'
    OBVIOUS
  <2>1. CASE UNCHANGED vars
    BY <2>1 DEF vars, env, main, fdVars, flags, threads, EndInv, HbHandle, NoRole, MadeBefore
  <2> QED
    BY <2>1, MainEnd, ArrivalEnd, ThreadEnd DEF Next
<1>2. Inv /\ [Next]_vars => Inv'
  BY StepInv
<1> QED
  BY <1>1, <1>2, InitInv, InitEnd, PTL DEF Spec

\* What the calls of a thread that has not ended need, to return: a recv() ends
\* with a request or with the connection, and only a heartbeat thread can be at a
\* close() it does not return from, where it ends.
NotStuck ==
  \A c \in Conns : pc[c] \notin Ended =>
    /\ pc[c] = "a_recv" /\ on[c] # NoConn => peer[on[c]] \in {"up", "gone"}
    /\ c \in cancelled => role[c] = "hb"

\* No thread waits for what cannot come: a communication thread is never the one
\* that Clean cancels, however the two kinds of threads run Clean through each
\* other and main replaces HeartBeartThread, so its Clean is never cut off; and
\* what it receives from is a connection that was made.
THEOREM ThreadsNotStuck == Spec => []NotStuck
<1>1. Inv /\ EndInv => NotStuck
  <2> SUFFICES ASSUME Inv, EndInv, NEW c \in Conns
               PROVE  /\ pc[c] = "a_recv" /\ on[c] # NoConn => peer[on[c]] \in {"up", "gone"}
                      /\ c \in cancelled => role[c] = "hb"
    BY DEF NotStuck
  <2>1. on[c] # NoConn => on[c] \in Conns
    BY DEF Inv, TypeOK
  <2>2. on[c] # NoConn => peer[on[c]] \in {"up", "gone"}
    BY <2>1 DEF Inv, TypeOK, EndInv, MadeBefore
  <2> QED
    BY <2>2 DEF EndInv, HbHandle
<1> QED
  BY <1>1, EndsKnown, PTL

\* What main has left until it waits for a client.
MainLeft ==
  CASE mpc = "m_admit" -> 3
    [] mpc \in {"m_setflag", "m_hbtest"} -> 2
    [] mpc \in {"m_spawn", "m_hbflag"} -> 1
    [] OTHER -> 0

\* What a thread has left.  The loop of Ack_Data is left once connect_fd is -1.
AckLeft(c) ==
  CASE pc[c] \in Replying -> 16
    [] pc[c] = "a_login"  -> 15
    [] pc[c] = "a_loop"   -> IF connect_fd = NoFd THEN 11 ELSE 14
    [] pc[c] = "a_recv"   -> 13
    [] pc[c] = "a_drop"   -> 12
    [] OTHER              -> 10

Beating == {"h_loop", "h_delay", "h_beat"}
HbLeft(c) ==
  CASE pc[c] = "h_start"  -> 26
    [] pc[c] \in Beating  -> 25
    [] OTHER              -> 24

CleanLeft(c) ==
  CASE pc[c] = "c_enter"   -> 9
    [] pc[c] = "c_close"   -> 8
    [] pc[c] = "c_reset"   -> 7
    [] pc[c] = "c_cancel"  -> 6
    [] pc[c] = "c_hbclose" -> 5
    [] pc[c] = "c_hbreset" -> 4
    [] pc[c] = "c_fd"      -> 3
    [] pc[c] = "c_flag"    -> 2
    [] OTHER               -> 1

\* After logout Ack_Data goes on behind Clean.
Left(c) ==
  CASE pc[c] \in AckPC   -> AckLeft(c)
    [] pc[c] \in HbPC    -> HbLeft(c)
    [] pc[c] \in CleanPC -> CleanLeft(c) + (IF back[c] = "a_loop" THEN 14 ELSE 0)
    [] OTHER             -> 0

WindsUp ==
  \/ MainLeft' < MainLeft
  \/ /\ MainLeft' = MainLeft
     /\ \A c \in Conns : /\ Left(c)' <= Left(c)
                         /\ pc'[c] # pc[c] => \/ Left(c)' < Left(c)
                                              \/ pc'[c] \in Beating

\* The others' steps: connect_fd may become -1, which main alone changes back.
LEMMA LeftKept ==
  ASSUME Inv, NEW d \in Conns, pc'[d] = pc[d], back'[d] = back[d],
         connect_fd' = connect_fd \/ connect_fd' = NoFd
  PROVE  Left(d)' <= Left(d)
BY DEF Left, AckLeft, HbLeft, CleanLeft, AckPC, HbPC, CleanPC, Replying

LEMMA AckLeaves ==
  ASSUME NEW c \in Conns, Inv, AckStep(c), AllGone
  PROVE  Left(c)' < Left(c) /\ pc'[c] # pc[c]
<1> USE DEF Inv, TypeOK, AllGone, Left, AckLeft, CleanLeft, AckPC, HbPC, CleanPC, Ended, Replying,
            env, main, fdVars, flags, threads, locals, Jump
<1>1. CASE AckCall(c)
  BY <1>1 DEF AckCall
<1>2. CASE AckReceives(c) \/ AckIgnores(c) \/ AckLogout(c)
  BY <1>2 DEF AckReceives, AckIgnores, AckLogout
<1>3. CASE AckRecvFails(c)
  BY <1>3 DEF AckRecvFails
<1>4. CASE AckDrop(c)
  BY <1>4 DEF AckDrop
<1>5. CASE AckReplySent(c)
  BY <1>5 DEF AckReplySent
<1>6. CASE AckReplyFails(c)
  BY <1>6 DEF AckReplyFails
<1>7. CASE AckReplyTimesOut(c)
  BY <1>7 DEF AckReplyTimesOut
<1>8. CASE AckLoggedIn(c)
  BY <1>8 DEF AckLoggedIn
<1>9. CASE AckExit(c)
  BY <1>9 DEF AckExit
<1> QED
  BY <1>1, <1>2, <1>3, <1>4, <1>5, <1>6, <1>7, <1>8, <1>9 DEF AckStep

LEMMA HbLeaves ==
  ASSUME NEW c \in Conns, Inv, HbStep(c)
  PROVE  /\ Left(c)' < Left(c) \/ (Left(c)' = Left(c) /\ pc'[c] \in Beating)
         /\ pc'[c] # pc[c]
<1> USE DEF Inv, TypeOK, Left, HbLeft, CleanLeft, AckPC, HbPC, CleanPC, Ended, Beating,
            env, main, fdVars, flags, threads, locals, Jump
<1>1. CASE HbStart(c) \/ HbLoop(c) \/ HbBeat(c)
  BY <1>1 DEF HbStart, HbLoop, HbBeat
<1>2. CASE HbAnswered(c) \/ HbFails(c) \/ HbTimesOut(c)
  BY <1>2 DEF HbAnswered, HbFails, HbTimesOut
<1>3. CASE HbExit(c)
  BY <1>3 DEF HbExit
<1>4. CASE HbDies(c)
  BY <1>4 DEF HbDies
<1> QED
  BY <1>1, <1>2, <1>3, <1>4 DEF HbStep

LEMMA CleanLeaves ==
  ASSUME NEW c \in Conns, Inv, CleanStep(c)
  PROVE  Left(c)' < Left(c) /\ pc'[c] # pc[c]
<1> USE DEF Inv, TypeOK, Left, AckLeft, CleanLeft, AckPC, HbPC, CleanPC, Ended, Replying,
            env, main, fdVars, flags, threads, locals, Jump
<1>1. CASE CleanEnter(c) \/ CleanClose(c) \/ CleanReset(c)
  BY <1>1 DEF CleanEnter, CleanClose, CleanReset
<1>2. CASE CleanCancel(c) \/ CleanHbClose(c) \/ CleanHbReset(c)
  BY <1>2 DEF CleanCancel, CleanHbClose, CleanHbReset
<1>3. CASE CleanFd(c) \/ CleanFlag(c)
  BY <1>3 DEF CleanFd, CleanFlag
<1>4. CASE CleanHbFlag(c)
  BY <1>4 DEF CleanHbFlag
<1> QED
  BY <1>1, <1>2, <1>3, <1>4 DEF CleanStep

\* A thread's step concerns it alone, but for connect_fd.
LEMMA OwnStep ==
  ASSUME NEW c \in Conns, Inv, ThreadStep(c)
  PROVE  /\ \A d \in Conns \ {c} : pc'[d] = pc[d] /\ back'[d] = back[d]
         /\ connect_fd' = connect_fd \/ connect_fd' = NoFd
         /\ UNCHANGED <<mpc, peer>>
<1> USE DEF Inv, TypeOK, env, main, fdVars, flags, threads, locals, Jump
<1>1. CASE AckStep(c)
  BY <1>1 DEF AckStep, AckCall, AckReceives, AckIgnores, AckLogout, AckRecvFails, AckDrop,
     AckReplySent, AckReplyFails, AckReplyTimesOut, AckLoggedIn, AckExit
<1>2. CASE HbStep(c)
  BY <1>2 DEF HbStep, HbStart, HbLoop, HbBeat, HbAnswered, HbFails, HbTimesOut, HbExit, HbDies
<1>3. CASE CleanStep(c)
  BY <1>3 DEF CleanStep, CleanEnter, CleanClose, CleanReset, CleanCancel, CleanHbClose,
     CleanHbReset, CleanFd, CleanFlag, CleanHbFlag
<1> QED
  BY <1>1, <1>2, <1>3 DEF ThreadStep

LEMMA ThreadWindsUp ==
  ASSUME NEW c \in Conns, Inv, ThreadStep(c), AllGone
  PROVE  WindsUp
<1>1. /\ Left(c)' < Left(c) \/ (Left(c)' = Left(c) /\ pc'[c] \in Beating)
      /\ pc'[c] # pc[c]
  BY AckLeaves, HbLeaves, CleanLeaves DEF ThreadStep
<1>2. Left(c) \in Nat
  BY DEF Left, AckLeft, HbLeft, CleanLeft
<1>3. Left(c)' \in Nat
  BY DEF Left, AckLeft, HbLeft, CleanLeft
<1>4. \A d \in Conns \ {c} : Left(d)' <= Left(d) /\ pc'[d] = pc[d]
  BY OwnStep, LeftKept
<1>5. MainLeft' = MainLeft
  BY OwnStep DEF MainLeft
<1> QED
  BY <1>1, <1>2, <1>3, <1>4, <1>5 DEF WindsUp

LEMMA StepWindsUp == Inv /\ AllGone /\ AllGone' /\ [Next]_vars => WindsUp
<1> SUFFICES ASSUME Inv, AllGone, AllGone', [Next]_vars PROVE WindsUp
  OBVIOUS
<1>0. ASSUME UNCHANGED <<pc, back, connect_fd, mpc>> PROVE WindsUp
  <2>1. \A d \in Conns : Left(d)' <= Left(d) /\ pc'[d] = pc[d]
    BY <1>0, LeftKept
  <2>2. MainLeft' = MainLeft
    BY <1>0 DEF MainLeft
  <2> QED
    BY <2>1, <2>2 DEF WindsUp
<1>1. CASE UNCHANGED vars
  BY <1>0, <1>1 DEF vars, threads, main, fdVars
<1>2. CASE MainStep
  <2>1. MainLeft' < MainLeft
    BY <1>2 DEF MainStep, MainAdmit, MainSetFlag, MainSpawn, MainBusy, MainHbSpawn, MainForgets,
       MainHbFlag, MainLeft
  <2> QED
    BY <2>1 DEF WindsUp
<1>3. ASSUME NEW c \in Conns, ClientLeaves(c) PROVE WindsUp
  BY <1>3 DEF ClientLeaves, AllGone
<1>4. ASSUME NEW c \in Conns, MainAccept(c) PROVE WindsUp
  <2>1. peer'[c] = "up"
    BY <1>4 DEF MainAccept, Inv, TypeOK
  <2> QED
    BY <2>1 DEF AllGone
<1>5. ASSUME NEW c \in Conns, MainAcceptFails(c) PROVE WindsUp
  <2>1. \A d \in Conns : pc'[d] \in {"none", "done"} /\ (pc'[d] # pc[d] => pc[d] \notin Ended)
    BY <1>5 DEF MainAcceptFails, Inv, TypeOK, Ended
  <2>2. \A d \in Conns : Left(d)' = 0
    BY <2>1 DEF Left, AckPC, HbPC, CleanPC
  <2>3. \A d \in Conns : Left(d) \in Nat /\ (pc[d] \notin Ended => Left(d) > 0)
    BY DEF Left, AckLeft, HbLeft, CleanLeft, AckPC, HbPC, CleanPC, Ended, Inv, TypeOK
  <2>4. MainLeft' = MainLeft
    BY <1>5 DEF MainAcceptFails, MainLeft
  <2> QED
    BY <2>1, <2>2, <2>3, <2>4 DEF WindsUp
<1>6. ASSUME NEW c \in Conns, ThreadStep(c) PROVE WindsUp
  BY <1>6, ThreadWindsUp
<1> QED
  BY <1>1, <1>2, <1>3, <1>4, <1>5, <1>6 DEF Next

\* While all clients are gone, main comes nearer to waiting for the next one, and
\* once it waits every thread that moves comes nearer to its end and sets no other
\* back: neither a logout's return to Ack_Data nor Clean in two threads is a loop.
\* Only a heartbeat thread that takes the end of the stream for an answer beats on
\* (HeartBeartAck); it is what FairSpec has to exclude.
THEOREM SessionsWindUp ==
  Spec => [][AllGone /\ AllGone' => WindsUp]_vars
<1>1. Inv /\ [Next]_vars => [AllGone /\ AllGone' => WindsUp]_vars
  BY StepWindsUp
<1> QED
  BY <1>1, EndsKnown, PTL DEF Spec
=============================================================================
