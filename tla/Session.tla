------------------------------ MODULE Session ------------------------------
(***************************************************************************)
(* The life of a client's session in the control server (Server/Server.c): *)
(* the accept loop of the main thread, the communication thread it starts  *)
(* for a control connection (Ack_Data), the heartbeat thread it starts for *)
(* the client's second connection (HB_Ack), and Clean(), which either of   *)
(* them runs to end the session.                                           *)
(*                                                                         *)
(* The threads share the process's globals without a lock, so a step is    *)
(* one access to a shared variable or one system call.  A thread is named  *)
(* by the connection whose acceptance created it; a file descriptor is a   *)
(* number the kernel reuses, always the lowest one that is free.           *)
(***************************************************************************)
EXTENDS Naturals

CONSTANTS
  Conns,        \* the connections clients ever open to port 6000
  NoConn,       \* "no connection": what a closed descriptor refers to
  FDs,          \* the descriptors the process may use for them
  NoFd,         \* a descriptor variable that is <= 0
  Requests,     \* the requests clients send: "login", "logout", "query"
  Companion     \* whether a connection may arrive while a client is served

ASSUME ConnAssumption == NoConn \notin Conns
ASSUME FdAssumption == FDs \subseteq Nat /\ NoFd \notin FDs
ASSUME RequestAssumption == Requests \subseteq {"login", "logout", "query"}
ASSUME CompanionAssumption == Companion \in BOOLEAN

VARIABLES
  peer,         \* the client's end of a connection
  fdTable,      \* the connection a descriptor refers to
  mpc, mconn,   \* where main is, and the connection it accepted last
  New_Sockfd, connect_fd, HB_Sock, HeartBeartThread,
  Connect_Flag, HeartBeartFlag, Login_Flag,
  pc,           \* where a thread is
  role,         \* which routine it runs
  back,         \* where it continues after Clean
  on,           \* Ack: the connection it waits on or answers to
  sock,         \* HB: the argument of HeartBeartAck
  cancelled     \* the threads pthread_cancel was called for

env     == <<peer, fdTable>>
main    == <<mpc, mconn, New_Sockfd>>
fdVars  == <<connect_fd, HB_Sock>>
flags   == <<Connect_Flag, HeartBeartFlag, Login_Flag>>
threads == <<pc, role, back, on, sock, cancelled, HeartBeartThread>>
locals  == <<role, back, on, sock, cancelled, HeartBeartThread>>
vars    == <<env, main, fdVars, flags, threads>>

MainPC == {"m_accept", "m_admit", "m_setflag", "m_spawn", "m_hbtest",
           "m_hbflag"}
AckPC == {"a_loop", "a_recv", "a_drop", "a_reply", "a_replylogin",
          "a_login", "a_exit"}
HbPC == {"h_start", "h_loop", "h_delay", "h_beat", "h_exit"}
CleanPC == {"c_enter", "c_close", "c_reset", "c_cancel", "c_hbclose",
            "c_hbreset", "c_fd", "c_flag", "c_hbflag"}
Ended == {"none", "done"}

TypeOK ==
  /\ peer \in [Conns -> {"idle", "up", "gone"}]
  /\ fdTable \in [FDs -> Conns \cup {NoConn}]
  /\ mpc \in MainPC
  /\ mconn \in Conns \cup {NoConn}
  /\ New_Sockfd \in FDs \cup {NoFd}
  /\ connect_fd \in FDs \cup {NoFd}
  /\ HB_Sock \in FDs \cup {NoFd}
  /\ HeartBeartThread \in Conns \cup {NoConn}
  /\ Connect_Flag \in BOOLEAN
  /\ HeartBeartFlag \in BOOLEAN
  /\ Login_Flag \in BOOLEAN
  /\ pc \in [Conns -> AckPC \cup HbPC \cup CleanPC \cup Ended]
  /\ role \in [Conns -> {"none", "ack", "hb"}]
  /\ back \in [Conns -> {"a_loop", "done"}]
  /\ on \in [Conns -> Conns \cup {NoConn}]
  /\ sock \in [Conns -> FDs \cup {NoFd}]
  /\ cancelled \subseteq Conns

(***************************************************************************)
(* The process as it starts: every descriptor global is 0, which the code  *)
(* treats like -1, and every flag is false.                                *)
(***************************************************************************)
Init ==
  /\ peer = [c \in Conns |-> "idle"]
  /\ fdTable = [f \in FDs |-> NoConn]
  /\ mpc = "m_accept" /\ mconn = NoConn
  /\ New_Sockfd = NoFd /\ connect_fd = NoFd /\ HB_Sock = NoFd
  /\ HeartBeartThread = NoConn
  /\ Connect_Flag = FALSE /\ HeartBeartFlag = FALSE /\ Login_Flag = FALSE
  /\ pc = [c \in Conns |-> "none"]
  /\ role = [c \in Conns |-> "none"]
  /\ back = [c \in Conns |-> "done"]
  /\ on = [c \in Conns |-> NoConn]
  /\ sock = [c \in Conns |-> NoFd]
  /\ cancelled = {}

-----------------------------------------------------------------------------
(* Descriptors *)

FreeFds == {f \in FDs : fdTable[f] = NoConn}

\* The connection a descriptor variable refers to: none when the variable is
\* <= 0, and none when the number it holds has been closed (EBADF).
At(f) == IF f \in FDs THEN fdTable[f] ELSE NoConn

\* close(f), which does nothing for -1 and for a number already closed.
Close(f) == fdTable' = [g \in FDs |-> IF g = f THEN NoConn ELSE fdTable[g]]

Jump(c, from, to) == pc[c] = from /\ pc' = [pc EXCEPT ![c] = to]

\* The thread is done with the connection it received from.
Forget(c) == on' = [on EXCEPT ![c] = NoConn]

-----------------------------------------------------------------------------
(* The clients *)

\* A client closes its end or disappears (SO_KEEPALIVE, set in TCP_Option,
\* turns a client that vanished into a failing recv).
ClientLeaves(c) ==
  /\ peer[c] = "up"
  /\ peer' = [peer EXCEPT ![c] = "gone"]
  /\ UNCHANGED <<fdTable, main, fdVars, flags, threads>>

-----------------------------------------------------------------------------
(* main: Create_Server's accept loop *)

MainAccept(c) ==
  /\ mpc = "m_accept" /\ peer[c] = "idle"
  /\ Companion \/ ~Connect_Flag
  /\ \E f \in FreeFds :
       /\ \A g \in FreeFds : f <= g
       /\ New_Sockfd' = f
       /\ fdTable' = [fdTable EXCEPT ![f] = c]
  /\ peer' = [peer EXCEPT ![c] = "up"]
  /\ mconn' = c /\ mpc' = "m_admit"
  /\ UNCHANGED <<fdVars, flags, threads>>

\* accept() fails for want of a descriptor: Create_Server and then main
\* return, the process ends with all its threads, and daemon.sh starts it
\* afresh.  The connection that could not be accepted is refused.
MainAcceptFails(c) ==
  /\ mpc = "m_accept" /\ peer[c] = "idle" /\ FreeFds = {}
  /\ Companion \/ ~Connect_Flag
  /\ peer' = [d \in Conns |-> IF d = c THEN "gone" ELSE peer[d]]
  /\ fdTable' = [f \in FDs |-> NoConn]
  /\ mpc' = "m_accept" /\ mconn' = NoConn
  /\ New_Sockfd' = NoFd /\ connect_fd' = NoFd /\ HB_Sock' = NoFd
  /\ HeartBeartThread' = NoConn
  /\ Connect_Flag' = FALSE /\ HeartBeartFlag' = FALSE /\ Login_Flag' = FALSE
  /\ pc' = [d \in Conns |-> IF pc[d] = "none" THEN "none" ELSE "done"]
  /\ cancelled' = {}
  /\ on' = [d \in Conns |-> NoConn] /\ sock' = [d \in Conns |-> NoFd]
  /\ back' = [d \in Conns |-> "done"]
  /\ UNCHANGED role

\* No client is served: this connection becomes the control connection.
MainAdmit ==
  /\ mpc = "m_admit" /\ ~Connect_Flag
  /\ connect_fd' = New_Sockfd
  /\ mpc' = "m_setflag"
  /\ UNCHANGED <<env, mconn, New_Sockfd, HB_Sock, flags, threads>>

MainSetFlag ==
  /\ mpc = "m_setflag"
  /\ Connect_Flag' = TRUE
  /\ mpc' = "m_spawn"
  /\ UNCHANGED <<env, mconn, New_Sockfd, fdVars, HeartBeartFlag, Login_Flag,
                 threads>>

MainSpawn ==
  /\ mpc = "m_spawn"
  /\ pc' = [pc EXCEPT ![mconn] = "a_loop"]
  /\ role' = [role EXCEPT ![mconn] = "ack"]
  /\ mpc' = "m_accept" /\ mconn' = NoConn
  /\ UNCHANGED <<env, New_Sockfd, fdVars, flags, back, on, sock,
                 cancelled, HeartBeartThread>>

\* A client is served: this connection may become its heartbeat connection.
MainBusy ==
  /\ mpc = "m_admit" /\ Connect_Flag
  /\ mpc' = "m_hbtest"
  /\ UNCHANGED <<env, mconn, New_Sockfd, fdVars, flags, threads>>

MainHbSpawn ==
  /\ mpc = "m_hbtest" /\ ~HeartBeartFlag /\ Connect_Flag
  /\ HeartBeartThread' = mconn
  /\ pc' = [pc EXCEPT ![mconn] = "h_start"]
  /\ role' = [role EXCEPT ![mconn] = "hb"]
  /\ mpc' = "m_hbflag"
  /\ UNCHANGED <<env, mconn, New_Sockfd, fdVars, flags, back, on, sock,
                 cancelled>>

\* When a heartbeat thread exists already, or the client has just left, the
\* accepted descriptor is neither used nor closed.
MainForgets ==
  /\ mpc = "m_hbtest" /\ (HeartBeartFlag \/ ~Connect_Flag)
  /\ mpc' = "m_accept" /\ mconn' = NoConn
  /\ UNCHANGED <<env, New_Sockfd, fdVars, flags, threads>>

MainHbFlag ==
  /\ mpc = "m_hbflag"
  /\ HeartBeartFlag' = TRUE
  /\ mpc' = "m_accept" /\ mconn' = NoConn
  /\ UNCHANGED <<env, New_Sockfd, fdVars, Connect_Flag, Login_Flag, threads>>

MainStep == \/ MainAdmit \/ MainSetFlag \/ MainSpawn
            \/ MainBusy \/ MainHbSpawn \/ MainForgets \/ MainHbFlag

-----------------------------------------------------------------------------
(* Ack_Data and ExchangeMessage: the communication thread *)

\* The loop test, and the recv() on whatever connect_fd refers to.
AckCall(c) ==
  /\ pc[c] = "a_loop"
  /\ pc' = [pc EXCEPT ![c] = IF connect_fd = NoFd THEN "a_exit" ELSE "a_recv"]
  /\ on' = [on EXCEPT ![c] = At(connect_fd)]
  /\ UNCHANGED <<env, main, fdVars, flags, role, back, sock, cancelled,
                 HeartBeartThread>>

\* recv() returns a request.
AckReceives(c) ==
  /\ pc[c] = "a_recv"
  /\ on[c] # NoConn /\ peer[on[c]] = "up"
  /\ \E r \in Requests \ {"logout"} :
       Jump(c, "a_recv", IF r = "login" THEN "a_replylogin" ELSE "a_reply")
  /\ UNCHANGED <<env, main, fdVars, flags, locals>>

\* A message that is malformed or of no known type is ignored.
AckIgnores(c) ==
  /\ pc[c] = "a_recv"
  /\ on[c] # NoConn /\ peer[on[c]] = "up"
  /\ Jump(c, "a_recv", "a_loop") /\ Forget(c)
  /\ UNCHANGED <<env, main, fdVars, flags, role, back, sock, cancelled,
                 HeartBeartThread>>

\* logout_req, which returns 0: the thread goes back to its loop.
AckLogout(c) ==
  /\ pc[c] = "a_recv"
  /\ on[c] # NoConn /\ peer[on[c]] = "up" /\ "logout" \in Requests
  /\ Jump(c, "a_recv", IF Connect_Flag THEN "c_enter" ELSE "a_loop")
  /\ back' = [back EXCEPT ![c] = "a_loop"]
  /\ Forget(c)
  /\ UNCHANGED <<env, main, fdVars, flags, role, sock, cancelled,
                 HeartBeartThread>>

\* recv() returns 0 or -1: close whatever connect_fd holds now.
AckRecvFails(c) ==
  /\ pc[c] = "a_recv"
  /\ on[c] # NoConn => peer[on[c]] = "gone"
  /\ Jump(c, "a_recv", "a_drop") /\ Forget(c)
  /\ Close(connect_fd)
  /\ UNCHANGED <<peer, main, fdVars, flags, role, back, sock, cancelled,
                 HeartBeartThread>>

\* Slip: connect_fd is closed and not reset (the line after close() missing).
AckDropForgotten(c) ==
  /\ Jump(c, "a_drop", "a_loop")
  /\ UNCHANGED <<env, main, fdVars, flags, locals>>

AckDrop(c) ==
  /\ Jump(c, "a_drop", "a_loop")
  /\ connect_fd' = NoFd
  /\ UNCHANGED <<env, main, HB_Sock, flags, locals>>

Replying == {"a_reply", "a_replylogin"}

\* SendMessage puts the answer on connect_fd.  Only login_req does something
\* after it.
AckReplySent(c) ==
  /\ pc[c] \in Replying /\ At(connect_fd) # NoConn
  /\ pc' = [pc EXCEPT ![c] = IF @ = "a_reply" THEN "a_loop" ELSE "a_login"]
  /\ Forget(c)
  /\ UNCHANGED <<env, main, fdVars, flags, role, back, sock, cancelled,
                 HeartBeartThread>>

\* SendMessage returns -1 with the connection left as it is: there is none,
\* or the client is gone, or its receive buffer took only a part.
AckReplyFails(c) ==
  /\ pc[c] \in Replying
  /\ pc' = [pc EXCEPT ![c] = "a_loop"]
  /\ Forget(c)
  /\ UNCHANGED <<env, main, fdVars, flags, role, back, sock, cancelled,
                 HeartBeartThread>>

\* The client did not read for 10 seconds: SendMessage closes the connection.
AckReplyTimesOut(c) ==
  /\ pc[c] \in Replying /\ At(connect_fd) # NoConn
  /\ pc' = [pc EXCEPT ![c] = "a_drop"]
  /\ Forget(c)
  /\ Close(connect_fd)
  /\ UNCHANGED <<peer, main, fdVars, flags, role, back, sock, cancelled,
                 HeartBeartThread>>

AckLoggedIn(c) ==
  /\ Jump(c, "a_login", "a_loop")
  /\ Login_Flag' = TRUE
  /\ UNCHANGED <<env, main, fdVars, Connect_Flag, HeartBeartFlag, locals>>

\* Slip: the thread ends without Clean, leaving it to the heartbeat thread.
AckExitUncleaned(c) ==
  /\ Jump(c, "a_exit", "done")
  /\ back' = [back EXCEPT ![c] = "done"]
  /\ UNCHANGED <<env, main, fdVars, flags, role, on, sock, cancelled,
                 HeartBeartThread>>

AckExit(c) ==
  /\ Jump(c, "a_exit", IF Connect_Flag THEN "c_enter" ELSE "done")
  /\ back' = [back EXCEPT ![c] = "done"]
  /\ UNCHANGED <<env, main, fdVars, flags, role, on, sock, cancelled,
                 HeartBeartThread>>

AckStep(c) == \/ AckCall(c) \/ AckReceives(c) \/ AckIgnores(c)
              \/ AckLogout(c)
              \/ AckRecvFails(c) \/ AckDrop(c) \/ AckReplySent(c)
              \/ AckReplyFails(c) \/ AckReplyTimesOut(c) \/ AckLoggedIn(c)
              \/ AckExit(c)

-----------------------------------------------------------------------------
(* HB_Ack and HeartBeartAck: the heartbeat thread *)

\* The thread reads the socket through a pointer to main's New_Sockfd.
HbStart(c) ==
  /\ Jump(c, "h_start", "h_loop")
  /\ HB_Sock' = New_Sockfd
  /\ UNCHANGED <<env, main, connect_fd, flags, locals>>

HbLoop(c) ==
  /\ Jump(c, "h_loop", IF HB_Sock = NoFd THEN "h_exit" ELSE "h_delay")
  /\ UNCHANGED <<env, main, fdVars, flags, locals>>

\* Delay(3,0) is over: HeartBeartAck is called with HB_Sock as it is now.
HbBeat(c) ==
  /\ c \notin cancelled
  /\ Jump(c, "h_delay", "h_beat")
  /\ sock' = [sock EXCEPT ![c] = HB_Sock]
  /\ UNCHANGED <<env, main, fdVars, flags, role, back, on, cancelled,
                 HeartBeartThread>>

\* The thread is done with the descriptor it passed to HeartBeartAck.
Release(c) == sock' = [sock EXCEPT ![c] = NoFd]

\* The beat was sent and the socket became readable: an answer, or the end
\* of the stream, which recv() reports as 0 and the code takes for an answer.
HbAnswered(c) ==
  /\ c \notin cancelled
  /\ At(sock[c]) # NoConn
  /\ Jump(c, "h_beat", "h_loop") /\ Release(c)
  /\ UNCHANGED <<env, main, fdVars, flags, role, back, on, cancelled,
                 HeartBeartThread>>

HbFails(c) ==
  /\ c \notin cancelled
  /\ At(sock[c]) # NoConn => peer[At(sock[c])] = "gone"
  /\ Jump(c, "h_beat", "h_exit") /\ Release(c)
  /\ UNCHANGED <<env, main, fdVars, flags, role, back, on, cancelled,
                 HeartBeartThread>>

\* No answer within 3 seconds: the descriptor number passed in is closed.
HbTimesOut(c) ==
  /\ c \notin cancelled
  /\ At(sock[c]) # NoConn
  /\ Jump(c, "h_beat", "h_exit") /\ Release(c)
  /\ Close(sock[c])
  /\ UNCHANGED <<peer, main, fdVars, flags, role, back, on, cancelled,
                 HeartBeartThread>>

HbExit(c) ==
  /\ Jump(c, "h_exit", IF Connect_Flag THEN "c_enter" ELSE "done")
  /\ UNCHANGED <<env, main, fdVars, flags, locals>>

\* A cancelled thread ends at its next cancellation point: Delay, the calls
\* of HeartBeartAck, Clean's close(), and (if the C library makes it one)
\* the printf at HB_Ack's start and end and at the start of Clean.
HbDies(c) ==
  /\ c \in cancelled /\ role[c] = "hb"
  /\ pc[c] \in {"h_start", "h_delay", "h_beat", "h_exit", "c_enter",
                "c_close", "c_hbclose"}
  /\ pc' = [pc EXCEPT ![c] = "done"]
  /\ Release(c)
  /\ UNCHANGED <<env, main, fdVars, flags, role, back, on, cancelled,
                 HeartBeartThread>>

HbStep(c) == \/ HbStart(c) \/ HbLoop(c) \/ HbBeat(c) \/ HbAnswered(c)
             \/ HbFails(c) \/ HbTimesOut(c) \/ HbExit(c) \/ HbDies(c)

-----------------------------------------------------------------------------
(* Clean(true), by either kind of thread; the stream's share of it is in   *)
(* module TsStream                                                         *)

\* Slip: Clean leaves Login_Flag to the next login.
CleanEnterLoggedIn(c) ==
  /\ Jump(c, "c_enter", "c_close")
  /\ UNCHANGED <<env, main, fdVars, flags, locals>>

\* Slip: Clean resets the flags first and closes the connection afterwards.
CleanEnterFlagsFirst(c) ==
  /\ Jump(c, "c_enter", "c_close")
  /\ Login_Flag' = FALSE /\ Connect_Flag' = FALSE
  /\ UNCHANGED <<env, main, fdVars, HeartBeartFlag, locals>>

CleanEnter(c) ==
  /\ Jump(c, "c_enter", "c_close")
  /\ Login_Flag' = FALSE
  /\ UNCHANGED <<env, main, fdVars, Connect_Flag, HeartBeartFlag, locals>>

\* close() is a cancellation point.
CleanClose(c) ==
  /\ connect_fd # NoFd => c \notin cancelled
  /\ Jump(c, "c_close", IF connect_fd = NoFd THEN "c_cancel" ELSE "c_reset")
  /\ Close(connect_fd)
  /\ UNCHANGED <<peer, main, fdVars, flags, locals>>

CleanReset(c) ==
  /\ Jump(c, "c_reset", "c_cancel")
  /\ connect_fd' = NoFd
  /\ UNCHANGED <<env, main, HB_Sock, flags, locals>>

\* Slip: the heartbeat thread is cancelled whether or not there is one.
CleanCancelUntested(c) ==
  /\ Jump(c, "c_cancel", IF HB_Sock = NoFd THEN "c_fd" ELSE "c_hbclose")
  /\ cancelled' = cancelled \cup {HeartBeartThread}
  /\ UNCHANGED <<env, main, fdVars, flags, role, back, on, sock,
                 HeartBeartThread>>

\* A heartbeat thread that runs Clean cancels itself here.
CleanCancel(c) ==
  /\ Jump(c, "c_cancel", IF HB_Sock = NoFd THEN "c_fd" ELSE "c_hbclose")
  /\ cancelled' = IF HB_Sock = NoFd THEN cancelled
                  ELSE cancelled \cup {HeartBeartThread}
  /\ UNCHANGED <<env, main, fdVars, flags, role, back, on, sock,
                 HeartBeartThread>>

CleanHbClose(c) ==
  /\ c \notin cancelled
  /\ Jump(c, "c_hbclose", "c_hbreset")
  /\ Close(HB_Sock)
  /\ UNCHANGED <<peer, main, fdVars, flags, locals>>

CleanHbReset(c) ==
  /\ Jump(c, "c_hbreset", "c_fd")
  /\ HB_Sock' = NoFd
  /\ UNCHANGED <<env, main, connect_fd, flags, locals>>

CleanFd(c) ==
  /\ Jump(c, "c_fd", "c_flag")
  /\ connect_fd' = NoFd
  /\ UNCHANGED <<env, main, HB_Sock, flags, locals>>

CleanFlag(c) ==
  /\ Jump(c, "c_flag", "c_hbflag")
  /\ Connect_Flag' = FALSE
  /\ UNCHANGED <<env, main, fdVars, HeartBeartFlag, Login_Flag, locals>>

\* The last reset, and the return to logout_req or to the thread's end.
CleanHbFlag(c) ==
  /\ Jump(c, "c_hbflag", back[c])
  /\ back' = [back EXCEPT ![c] = "done"]
  /\ HeartBeartFlag' = FALSE
  /\ UNCHANGED <<env, main, fdVars, Connect_Flag, Login_Flag, role, on, sock,
                 cancelled, HeartBeartThread>>

CleanStep(c) == \/ CleanEnter(c) \/ CleanClose(c) \/ CleanReset(c)
                \/ CleanCancel(c) \/ CleanHbClose(c) \/ CleanHbReset(c)
                \/ CleanFd(c) \/ CleanFlag(c) \/ CleanHbFlag(c)

-----------------------------------------------------------------------------
ThreadStep(c) == AckStep(c) \/ HbStep(c) \/ CleanStep(c)

Next == \/ MainStep
        \/ \E c \in Conns : \/ ClientLeaves(c)
                            \/ MainAccept(c) \/ MainAcceptFails(c)
                            \/ ThreadStep(c)

Spec == Init /\ [][Next]_vars

(***************************************************************************)
(* The scheduler runs every thread that can run, and no call of theirs     *)
(* blocks for ever once the clients are gone.                              *)
(***************************************************************************)
FairSpec == /\ Spec
            /\ WF_vars(MainStep)
            /\ \A c \in Conns : WF_vars(ThreadStep(c)) /\ SF_vars(HbFails(c))

-----------------------------------------------------------------------------
(* Properties *)

\* The communication threads that will still run Clean, or look at
\* Connect_Flag before they end.
Responsible(c) ==
  role[c] = "ack" /\ pc[c] \notin {"none", "done", "c_hbflag"}

\* While Connect_Flag turns new clients away (Server.c:980) there is a
\* communication thread, or main is about to create one, that will reset it:
\* whatever the interleaving of logout, disconnection, heartbeat failure and
\* self-cancellation, the box is never locked against new clients.
NeverLockedOut ==
  Connect_Flag => mpc = "m_spawn" \/ \E c \in Conns : Responsible(c)

\* Once every client has gone, the server finishes with all of their threads
\* and takes a new client.
AllGone == \A c \in Conns : peer[c] # "up"
AllEnded == ~Connect_Flag /\ \A c \in Conns : pc[c] \in Ended
ClientsForgotten == <>[]AllGone => <>[]AllEnded

\* The threads that read and answer requests.
Serving == {c \in Conns : pc[c] \in AckPC \ {"a_exit"}}

\* Only one communication thread serves requests at a time.
OneServer == \A c, d \in Serving : c = d

\* An answer goes out on the connection its request came from, or not at all:
\* the global connect_fd still refers to it when SendMessage uses it.
AnswerToAsker ==
  \A c \in Conns : pc[c] \in Replying => At(connect_fd) \in {on[c], NoConn}

\* A client is admitted to a session in which nobody is logged in yet.
StartsLoggedOut == mpc \in {"m_setflag", "m_spawn"} => ~Login_Flag

\* A client whose requests are served counts as connected: Connect_Flag
\* (Server.h:52) is set while main waits for the next connection.
ServedIsConnected ==
  mpc = "m_accept" =>
    \A c \in Conns : /\ pc[c] = "a_recv" /\ on[c] # NoConn
                     /\ peer[on[c]] = "up" /\ At(connect_fd) = on[c]
                     => Connect_Flag

\* The threads of sessions that still hold the one place for a client.
Holding == {c \in Conns : pc[c] \notin Ended \cup {"c_hbflag"}}

\* The connection that has the place: from MainAdmit until Clean resets
\* Connect_Flag.
Client == IF mpc \in {"m_setflag", "m_spawn"} THEN mconn
          ELSE IF Holding = {} THEN NoConn
          ELSE CHOOSE c \in Holding : TRUE
Past == {c \in Conns : role[c] = "ack"} \ Holding

\* To clients that come one after the other and do not send logout, the
\* server is one place for one client (module ClientSlot): whatever the
\* threads do, the place changes hands as main's acceptance and the end of
\* Clean say, and a login never outlives its client.
Slot == INSTANCE ClientSlot WITH client <- Client, past <- Past,
                                 loggedIn <- Login_Flag
OnePlace == Slot!SlotSpec
=============================================================================
