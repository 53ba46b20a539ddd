--------------------------- MODULE TsStreamProofs ---------------------------
(***************************************************************************)
(* What TsStream keeps for any number of transfers, event threads, blocks  *)
(* and rounds, whatever clients request and whichever transfers fail: the  *)
(* type invariant, the stream's port, and the sockets behind TCP_Flag.  A  *)
(* process that exits starts in an initial state, so that the lemmas are   *)
(* about the steps of one that runs.                                       *)
(***************************************************************************)
EXTENDS TsStream, TLAPS

USE DEF request, stopped, stream, libusb, device, handlers, Usb, Others

---------------------------------------------------------------------------
(* The type invariant: the flags, and the other variables.                 *)

LEMMA FlagsKept == FlagsOK /\ [Run]_vars => FlagsOK'
<1> SUFFICES ASSUME FlagsOK, [Run]_vars PROVE FlagsOK'
  OBVIOUS
<1> USE DEF FlagsOK
<1>1. CASE CbStep
  BY <1>1 DEF CbStep, CbAborted, CbResubmit, CbRefused, CbBranch, CbLoop, CbSent,
     CbLoopEnds, CbSendFails, CbWrite, CbFull, CbStop, StopFlags, CbCancel, CbParseOk,
     CbClose, CbFlags
<1>2. ASSUME NEW e \in EventThreads, EventStep(e) PROVE FlagsOK'
  BY <1>2 DEF EventStep, EventMoves, EventOpen, EventLoop, EventNothing, EventReap, Reap
<1>3. CASE Serve
  <2>1. CASE Flags \/ Cancel \/ Ask \/ AskReap \/ Start \/ SpawnNot \/ Alloc \/ InitCapture
    BY <2>1 DEF Flags, StopFlags, Cancel, Ask, AskReap, Reap, Start, SpawnNot, Alloc, InitCapture
  <2>2. CASE Bind \/ AnswerSent \/ AnswerFails \/ Accept \/ SocketFails \/ TcpFlag \/ Spawn
    BY <2>2 DEF Bind, AnswerSent, AnswerFails, Accept, SocketFails, TcpFlag, Spawn, Socket
  <2>3. CASE SetFlag
    BY <2>3 DEF SetFlag
  <2>4. CASE ClearStop \/ Off \/ Disable \/ On \/ Queried \/ Control \/ Filtered
    BY <2>4 DEF ClearStop, Off, Disable, On, Queried, Control, Filtered, Got
  <2>5. ASSUME NEW locks \in BOOLEAN, Lock(locks) PROVE FlagsOK'
    BY <2>5 DEF Lock
  <2>6. CASE Wait \/ GiveUp \/ Parse \/ ProgramFiltered \/ Test
    BY <2>6 DEF Wait, GiveUp, Parse, ProgramFiltered, Test, Got
  <2>7. CASE Close \/ Reset
    BY <2>7 DEF Close, Reset
  <2> QED
    BY <1>3, <2>1, <2>2, <2>3, <2>4, <2>5, <2>6, <2>7 DEF Serve
<1>4. CASE Begin
  BY <1>4, ProgramAssumption DEF Begin, Begins, Tune, Refused, Filter, StartTsSend,
     StopStream, Query, End
<1>5. ASSUME NEW t \in Transfers, Answered(t) PROVE FlagsOK'
  BY <1>5 DEF Answered
<1>6. CASE UNCHANGED vars
  BY <1>6 DEF vars
<1> QED
  BY <1>1, <1>2, <1>3, <1>4, <1>5, <1>6 DEF Run

LEMMA CancelKept ==
  ASSUME RangesOK, CancelTransfer
  PROVE  /\ urbs' \in [Transfers -> {"none", "flying", "done", "failed", "cancelled"}]
         /\ completed' \in Seq(Transfers \cup {Register})
<1>1. CASE img_transfer # NoTransfer /\ urbs[img_transfer] # "none"
  <2>1. img_transfer \in Transfers
    BY <1>1 DEF RangesOK
  <2>2. completed' \in {completed, Append(completed, img_transfer)}
    BY <1>1 DEF CancelTransfer
  <2>3. completed' \in Seq(Transfers \cup {Register})
    BY <2>1, <2>2 DEF RangesOK
  <2> QED
    BY <1>1, <2>1, <2>3 DEF RangesOK, CancelTransfer
<1>2. CASE ~(img_transfer # NoTransfer /\ urbs[img_transfer] # "none")
  BY <1>2 DEF RangesOK, CancelTransfer
<1> QED
  BY <1>1, <1>2

LEMMA RangesKept == RangesOK /\ [Run]_vars => RangesOK'
<1> SUFFICES ASSUME RangesOK, [Run]_vars PROVE RangesOK'
  OBVIOUS
<1> USE BoundAssumption DEF RangesOK, NoCallback, Accesses, Register
<1>1. ASSUME NEW th \in EventThreads \cup {"ack"}, Reap(th) PROVE RangesOK'
  BY <1>1, TransferAssumption DEF Reap
<1>2. CASE CbStep
  <2> USE DEF Callback, Return, StopFlags, Submittable, Submit
  <2>1. CASE CbAborted \/ CbResubmit \/ CbRefused
    BY <2>1 DEF CbAborted, CbResubmit, CbRefused
  <2>2. CASE CbBranch \/ CbLoop \/ CbSent \/ CbLoopEnds \/ CbSendFails
    BY <2>2 DEF CbBranch, CbLoop, CbSent, CbLoopEnds, CbSendFails
  <2>3. CASE CbWrite \/ CbFull \/ CbParseOk
    BY <2>3 DEF CbWrite, CbFull, CbParseOk
  <2>4. CASE CbStop
    BY <2>4 DEF CbStop
  <2>5. CASE CbCancel
    BY <2>5, CancelKept DEF CbCancel
  <2>6. CASE CbClose \/ CbFlags
    BY <2>6 DEF CbClose, CbFlags
  <2> QED
    BY <1>2, <2>1, <2>2, <2>3, <2>4, <2>5, <2>6 DEF CbStep
<1>3. ASSUME NEW e \in EventThreads, EventStep(e) PROVE RangesOK'
  <2>1. CASE EventReap(e)
    BY <1>1, <2>1 DEF EventReap
  <2> QED
    BY <1>3, <2>1 DEF EventStep, EventMoves, EventOpen, EventLoop, EventNothing
<1>4. CASE Serve
  <2> USE DEF Goes, Got
  <2>1. CASE Flags \/ Cancel
    <3>1. CASE Flags
      BY <3>1 DEF Flags, StopFlags
    <3>2. CASE Cancel
      BY <3>2, CancelKept DEF Cancel, AfterStop
    <3> QED
      BY <2>1, <3>1, <3>2
  <2>2. CASE Ask
    BY <2>2 DEF Ask
  <2>3. CASE AskReap
    BY <1>1, <2>3 DEF AskReap
  <2>4. CASE Start \/ Spawn \/ SpawnNot
    BY <2>4 DEF Start, Spawn, SpawnNot
  <2>5. CASE Bind \/ AnswerSent \/ AnswerFails \/ Accept \/ SocketFails \/ TcpFlag
    BY <2>5 DEF Bind, AnswerSent, AnswerFails, Accept, SocketFails, TcpFlag, Socket
  <2>6. CASE Alloc \/ InitCapture
    BY <2>6 DEF Alloc, InitCapture, Submittable, Submit, Unused
  <2>7. CASE SetFlag
    BY <2>7 DEF SetFlag
  <2>8. CASE ClearStop \/ Off \/ Disable \/ On \/ Queried \/ Control \/ Filtered
    BY <2>8 DEF ClearStop, Off, Disable, On, Queried, Control, Filtered
  <2>9. ASSUME NEW locks \in BOOLEAN, Lock(locks) PROVE RangesOK'
    BY <2>9 DEF Lock
  <2>10. CASE Wait \/ GiveUp \/ Parse \/ ProgramFiltered \/ Test
    BY <2>10 DEF Wait, GiveUp, Parse, ProgramFiltered, Test
  <2>11. CASE Close \/ Reset
    BY <2>11 DEF Close, Reset
  <2> QED
    BY <1>4, <2>1, <2>2, <2>3, <2>4, <2>5, <2>6, <2>7, <2>8, <2>9, <2>10, <2>11 DEF Serve
<1>5. CASE Begin
  BY <1>5, ProgramAssumption DEF Begin, Begins, Tune, Refused, Filter, StartTsSend,
     StopStream, Query, End
<1>6. ASSUME NEW t \in Transfers, Answered(t) PROVE RangesOK'
  BY <1>6 DEF Answered
<1>7. CASE UNCHANGED vars
  BY <1>7 DEF vars
<1> QED
  BY <1>2, <1>3, <1>4, <1>5, <1>6, <1>7 DEF Run

LEMMA InitRanges == Init => RangesOK
BY BoundAssumption DEF Init, RangesOK, NoCallback

\* A process that has exited starts anew.
LEMMA ExitRestarts == Exit => Init'
BY DEF Exit, Init

LEMMA RunOrExit == [Next]_vars => [Run]_vars \/ Init'
BY ExitRestarts DEF Next

\* The variables stay in their ranges with any number of threads and
\* transfers, callbacks of cancelled transfers included.
THEOREM TypeCorrect == Spec => []TypeOK
<1>1. Init => TypeOK
  BY InitRanges DEF Init, FlagsOK, TypeOK
<1>2. TypeOK /\ [Run]_vars => TypeOK'
  BY FlagsKept, RangesKept DEF TypeOK
<1>3. Init' => TypeOK'
  BY <1>1, PTL
<1>4. TypeOK /\ [Next]_vars => TypeOK'
  BY <1>2, <1>3, RunOrExit
<1> QED
  BY <1>1, <1>4, PTL DEF Spec

---------------------------------------------------------------------------
(* Where the communication thread is.                                      *)

Connecting == {"bind", "answer", "accept", "tcpflag"}
Starting == Connecting \cup {"start", "spawn", "alloc", "submit", "flag"}

\* Which request is being served at a place.
Coupled ==
  /\ ctl = "idle" => job = "none"
  /\ ctl = "query" => job = "query"
  /\ ctl \in {"flags", "cancel"} => job \in {"tune", "filter", "stop", "end", "abandon"}
  /\ ctl = "clear" => job = "stop"
  /\ ctl = "off" => job \in {"tune", "stop"}
  /\ ctl \in {"lock", "disable", "wait", "parse", "test"} => job = "tune"
  /\ ctl = "on" => job \in {"tune", "abandon"}
  /\ ctl \in {"control", "filter"} => job \in {"tune", "filter"}
  /\ ctl \in Starting => job \in {"tune", "program", "filter", "start"}
  /\ ctl = "close" => job \in {"stop", "end"}
  /\ ctl = "reset" => job = "end"

LEMMA CoupledKept == RangesOK /\ Coupled /\ [Run]_vars => Coupled'
<1> SUFFICES ASSUME RangesOK, Coupled, [Run]_vars PROVE Coupled'
  OBVIOUS
<1> USE DEF Coupled, Starting, Connecting
<1>1. CASE UNCHANGED <<ctl, job>>
  BY <1>1
<1>2. CASE Serve
  <2> USE DEF Goes
  <2>1. CASE Flags \/ Start \/ Spawn \/ SpawnNot \/ Alloc \/ InitCapture
    BY <2>1 DEF Flags, Start, Spawn, SpawnNot, Alloc, InitCapture
  <2>2. CASE Cancel
    BY <2>2 DEF Cancel, AfterStop
  <2>3. CASE Ask \/ AskReap
    BY <1>1, <2>3 DEF Ask, AskReap, Reap
  <2>4. CASE Bind \/ AnswerSent \/ AnswerFails \/ Accept \/ SocketFails \/ TcpFlag
    BY <2>4 DEF Bind, AnswerSent, AnswerFails, Accept, SocketFails, TcpFlag, Socket
  <2>5. CASE SetFlag
    BY <2>5 DEF SetFlag
  <2>6. CASE ClearStop \/ Off \/ Disable \/ On \/ Queried \/ Control \/ Filtered
    BY <2>6 DEF ClearStop, Off, Disable, On, Queried, Control, Filtered
  <2>7. ASSUME NEW locks \in BOOLEAN, Lock(locks) PROVE Coupled'
    BY <2>7 DEF Lock
  <2>8. CASE Wait \/ GiveUp \/ Parse \/ ProgramFiltered \/ Test
    BY <2>8 DEF Wait, GiveUp, Parse, ProgramFiltered, Test
  <2>9. CASE Close \/ Reset
    BY <2>9 DEF Close, Reset
  <2> QED
    BY <1>2, <2>1, <2>2, <2>3, <2>4, <2>5, <2>6, <2>7, <2>8, <2>9 DEF Serve
<1>3. CASE Begin
  BY <1>3 DEF Begin, Begins, Tune, Refused, Filter, StartTsSend, StopStream, Query, End
<1>4. CASE CbStep
  BY <1>1, <1>4 DEF CbStep, CbAborted, CbResubmit, CbRefused, CbBranch, CbLoop, CbSent,
     CbLoopEnds, CbSendFails, CbWrite, CbFull, CbStop, CbCancel, CbParseOk, CbClose, CbFlags
<1>5. ASSUME NEW e \in EventThreads, EventStep(e) PROVE Coupled'
  BY <1>1, <1>5 DEF EventStep, EventMoves, EventOpen, EventLoop, EventNothing, EventReap, Reap
<1>6. ASSUME NEW t \in Transfers, Answered(t) PROVE Coupled'
  BY <1>1, <1>6 DEF Answered
<1>7. CASE UNCHANGED vars
  BY <1>1, <1>7 DEF vars
<1> QED
  BY <1>2, <1>3, <1>4, <1>5, <1>6, <1>7 DEF Run

---------------------------------------------------------------------------
(* Register accesses.                                                      *)

\* One access is under way at a time, only where one is made, and its
\* completion is in the queue once.
AskedOnce ==
  /\ access # "none" => ctl \in Accesses
  /\ \A m \in 1..Len(completed) : completed[m] = Register => access = "asked"
  /\ \A m, n \in 1..Len(completed) :
       completed[m] = Register /\ completed[n] = Register => m = n

\* A transfer that completes is no register access.
LEMMA AppendAsked ==
  ASSUME RangesOK, AskedOnce, NEW t \in Transfers, completed' = Append(completed, t),
         UNCHANGED access, access # "none" => UNCHANGED ctl
  PROVE  AskedOnce'
BY TransferAssumption DEF RangesOK, AskedOnce, Register

LEMMA ReapAsked ==
  ASSUME RangesOK, AskedOnce, NEW th, Reap(th)
  PROVE  AskedOnce'
<1>1. completed \in Seq(Transfers \cup {Register}) /\ completed # <<>>
  BY DEF RangesOK, Reap
<1>2. /\ Len(completed') = Len(completed) - 1
      /\ \A m \in 1..Len(completed') : completed'[m] = completed[m + 1]
  BY <1>1 DEF Reap
<1>3. Head(completed) = completed[1] /\ Len(completed) \in Nat \ {0}
  BY <1>1
<1>4. CASE Head(completed) = Register
  <2>1. \A m \in 1..Len(completed') : completed'[m] # Register
    BY <1>2, <1>3, <1>4 DEF AskedOnce
  <2>2. ctl \in Accesses /\ ctl' = ctl
    BY <1>3, <1>4 DEF AskedOnce, Reap
  <2> QED
    BY <2>1, <2>2 DEF AskedOnce
<1>5. CASE Head(completed) # Register
  <2>1. UNCHANGED <<access, ctl>>
    BY <1>5 DEF Reap
  <2> QED
    BY <1>2, <1>3, <2>1 DEF AskedOnce
<1> QED
  BY <1>4, <1>5

LEMMA CancelAsked ==
  ASSUME RangesOK, AskedOnce, CancelTransfer, UNCHANGED access, access # "none" => UNCHANGED ctl
  PROVE  AskedOnce'
<1>1. CASE completed' = completed
  BY <1>1 DEF AskedOnce
<1>2. CASE completed' # completed
  <2>1. img_transfer \in Transfers /\ completed' = Append(completed, img_transfer)
    BY <1>2 DEF CancelTransfer, RangesOK
  <2> QED
    BY <2>1, AppendAsked
<1> QED
  BY <1>1, <1>2

LEMMA AskedKept == RangesOK /\ AskedOnce /\ [Run]_vars => AskedOnce'
<1> SUFFICES ASSUME RangesOK, AskedOnce, [Run]_vars PROVE AskedOnce'
  OBVIOUS
<1>1. CASE UNCHANGED <<completed, access>> /\ (access # "none" => UNCHANGED ctl)
  BY <1>1 DEF AskedOnce
<1>2. CASE Serve
  <2>0. access # "none" => ctl \in Accesses
    BY DEF AskedOnce
  <2> USE DEF Goes, Accesses
  <2>1. CASE Flags \/ Start \/ Spawn \/ SpawnNot \/ Alloc \/ InitCapture
    BY <1>1, <2>0, <2>1 DEF Flags, Start, Spawn, SpawnNot, Alloc, InitCapture
  <2>2. CASE Cancel
    BY <2>0, <2>2, CancelAsked DEF Cancel
  <2>3. CASE Ask
    <3>1. /\ access = "none" /\ access' = "asked" /\ ctl \in Accesses /\ ctl' = ctl
          /\ completed' = Append(completed, Register)
      BY <2>3 DEF Ask
    <3>2. \A m \in 1..Len(completed) : completed[m] # Register
      BY <3>1 DEF AskedOnce
    <3> QED
      BY <3>1, <3>2 DEF AskedOnce, RangesOK
  <2>4. CASE AskReap
    BY <2>4, ReapAsked DEF AskReap
  <2>5. CASE Bind \/ AnswerSent \/ AnswerFails \/ Accept \/ SocketFails \/ TcpFlag
    BY <1>1, <2>0, <2>5 DEF Bind, AnswerSent, AnswerFails, Accept, SocketFails, TcpFlag, Socket
  <2>6. CASE SetFlag
    BY <1>1, <2>0, <2>6 DEF SetFlag
  <2>7. CASE Off \/ Disable \/ On \/ Queried \/ Control \/ Filtered \/ ProgramFiltered
    <3>1. access = "done" /\ access' = "none" /\ completed' = completed
      BY <2>7 DEF Off, Disable, On, Queried, Control, Filtered, ProgramFiltered, Got
    <3> QED
      BY <3>1 DEF AskedOnce
  <2>8. ASSUME NEW locks \in BOOLEAN, Lock(locks) PROVE AskedOnce'
    BY <1>1, <2>0, <2>8 DEF Lock
  <2>9. CASE ClearStop \/ Wait \/ GiveUp \/ Parse \/ Test
    BY <1>1, <2>0, <2>9 DEF ClearStop, Wait, GiveUp, Parse, Test
  <2>10. CASE Close \/ Reset
    BY <1>1, <2>0, <2>10 DEF Close, Reset
  <2> QED
    BY <1>2, <2>1, <2>2, <2>3, <2>4, <2>5, <2>6, <2>7, <2>8, <2>9, <2>10 DEF Serve
<1>3. CASE Begin
  <2>1. access = "none"
    BY <1>3 DEF AskedOnce, Accesses, Begin, Begins, Tune, Refused, Filter, StartTsSend,
       StopStream, Query, End
  <2> QED
    BY <1>1, <1>3, <2>1 DEF Begin, Begins, Tune, Refused, Filter, StartTsSend, StopStream,
       Query, End
<1>4. CASE CbStep
  <2>1. CASE CbCancel
    BY <2>1, CancelAsked DEF CbCancel
  <2> QED
    BY <1>1, <1>4, <2>1 DEF CbStep, CbAborted, CbResubmit, CbRefused, CbBranch, CbLoop,
       CbSent, CbLoopEnds, CbSendFails, CbWrite, CbFull, CbStop, CbParseOk, CbClose, CbFlags
<1>5. ASSUME NEW e \in EventThreads, EventStep(e) PROVE AskedOnce'
  <2>1. CASE EventReap(e)
    BY <2>1, ReapAsked DEF EventReap
  <2> QED
    BY <1>1, <1>5, <2>1 DEF EventStep, EventMoves, EventOpen, EventLoop, EventNothing
<1>6. ASSUME NEW t \in Transfers, Answered(t) PROVE AskedOnce'
  BY <1>6, AppendAsked DEF Answered
<1>7. CASE UNCHANGED vars
  BY <1>1, <1>7 DEF vars
<1> QED
  BY <1>2, <1>3, <1>4, <1>5, <1>6, <1>7 DEF Run

---------------------------------------------------------------------------
(* The flags that the requests leave to each other.                        *)

\* A filter that is set belongs to a stream that PTHREAD_FLAG tells the next
\* request of, so that a tune finds it reset.
FilterFlagKnown ==
  /\ PID_FILTER_FLAG => \/ PTHREAD_FLAG \/ ctl \in {"flags", "test"} \/ job = "program"
                        \/ job = "stop" /\ ctl = "off"
  /\ job = "tune" /\ ctl \in {"cancel", "off", "lock", "disable", "on", "start"}
       => ~PTHREAD_FLAG
  /\ job = "tune" /\ ctl \in Connecting => ~programNumber
  /\ job = "end" /\ ctl \in {"cancel", "close", "reset"} => ~PID_FILTER_FLAG

LEMMA FilterFlagKept == RangesOK /\ Coupled /\ FilterFlagKnown /\ [Run]_vars => FilterFlagKnown'
<1> SUFFICES ASSUME RangesOK, Coupled, FilterFlagKnown, [Run]_vars PROVE FilterFlagKnown'
  OBVIOUS
<1> USE DEF Coupled, FilterFlagKnown, Starting, Connecting
<1>1. CASE Serve
  <2> USE DEF Goes
  <2>1. CASE Flags \/ Cancel
    BY <2>1 DEF Flags, StopFlags, Cancel, AfterStop
  <2>2. CASE Ask \/ AskReap
    BY <2>2 DEF Ask, AskReap, Reap
  <2>3. CASE Start \/ Spawn \/ SpawnNot \/ Alloc \/ InitCapture
    BY <2>3 DEF Start, StartNeedsSocket, Spawn, SpawnNot, Alloc, InitCapture
  <2>4. CASE Bind \/ AnswerSent \/ AnswerFails \/ Accept \/ SocketFails \/ TcpFlag
    BY <2>4 DEF Bind, AnswerSent, AnswerFails, Accept, SocketFails, TcpFlag, Socket
  <2>5. CASE SetFlag
    BY <2>5 DEF SetFlag
  <2>6. CASE ClearStop \/ Off \/ Disable \/ On \/ Queried \/ Control \/ Filtered
    BY <2>6 DEF ClearStop, Off, Disable, On, Queried, Control, Filtered, Got
  <2>7. ASSUME NEW locks \in BOOLEAN, Lock(locks) PROVE FilterFlagKnown'
    BY <2>7 DEF Lock
  <2>8. CASE Wait \/ GiveUp \/ Parse \/ ProgramFiltered \/ Test
    BY <2>8 DEF Wait, GiveUp, Parse, ProgramFiltered, Test, Got
  <2>9. CASE Close \/ Reset
    BY <2>9 DEF Close, Reset
  <2> QED
    BY <1>1, <2>1, <2>2, <2>3, <2>4, <2>5, <2>6, <2>7, <2>8, <2>9 DEF Serve
<1>2. CASE Begin
  BY <1>2 DEF Begin, Begins, Tune, Refused, Filter, StartTsSend, StopStream, Query, End
<1>3. CASE CbStep
  BY <1>3 DEF CbStep, CbAborted, CbResubmit, CbRefused, CbBranch, CbLoop, CbSent, CbLoopEnds,
     CbSendFails, CbWrite, CbFull, CbStop, StopFlags, CbCancel, CbParseOk, CbClose, CbFlags
<1>4. ASSUME NEW e \in EventThreads, EventStep(e) PROVE FilterFlagKnown'
  BY <1>4 DEF EventStep, EventMoves, EventOpen, EventLoop, EventNothing, EventReap, Reap
<1>5. ASSUME NEW t \in Transfers, Answered(t) PROVE FilterFlagKnown'
  BY <1>5 DEF Answered
<1>6. CASE UNCHANGED vars
  BY <1>6 DEF vars
<1> QED
  BY <1>1, <1>2, <1>3, <1>4, <1>5, <1>6 DEF Run

---------------------------------------------------------------------------
(* The sockets of the stream.                                              *)

\* Once its callback is about to send, a transfer's end may close them.
Sending == cb.at \in {"loop", "send", "clear", "clearcancel", "close", "flags"}

\* A callback that sends on although TCP_Flag has been reset is at its end
\* before a stream can be started: a register access comes first, which is
\* reaped when the callback has returned.
Stale ==
  /\ Sending /\ ~TCP_Flag =>
       /\ access # "done"
       /\ \/ ctl = "off"
          \/ /\ ~Lock_Freq_Flag /\ ~PTHREAD_FLAG
             /\ \/ ctl \in {"idle", "query", "reset"}
                \/ ctl = "close" /\ job = "end"
  /\ ctl = "reset" => ~Lock_Freq_Flag

\* Sockets are open without TCP_Flag only while they are being connected or
\* closed, or because of an answer that could not be sent, which leaves the
\* listener alone.
LeftOpen ==
  /\ unanswered => TCP_FD /\ ~Tcp_Sock /\ ctl \notin {"answer", "accept", "tcpflag"}
  /\ ~TCP_Flag /\ (TCP_FD \/ Tcp_Sock) =>
    \/ ctl \in {"answer", "accept", "tcpflag"} \/ unanswered
    \/ job = "stop" /\ ctl \in {"off", "flags", "cancel", "close"}

Sockets ==
  /\ ctl = "reset" \/ cb.at = "flags" => ~TCP_FD
  /\ ctl \in {"bind", "answer", "reset"} \/ cb.at = "flags" => ~Tcp_Sock
  /\ ctl \in Connecting \/ (job = "stop" /\ ctl # "clear") => ~TCP_Flag
  /\ ctl \in Connecting \ {"bind"} => TCP_FD
  /\ ctl = "tcpflag" => Tcp_Sock /\ AcceptFlag
  /\ TCP_Flag => (TCP_FD /\ Tcp_Sock /\ AcceptFlag) \/ cb.at = "flags" \/ ctl = "reset"

SInv == RangesOK /\ Coupled /\ AskedOnce /\ FilterFlagKnown
          /\ Stale /\ LeftOpen /\ Sockets

LEMMA StaleKept == SInv /\ [Run]_vars => Stale'
<1> SUFFICES ASSUME SInv, [Run]_vars PROVE Stale'
  OBVIOUS
<1> USE DEF SInv, RangesOK, Coupled, FilterFlagKnown, Stale, LeftOpen, Sockets, Sending, Starting, Connecting,
            NoCallback, Callback, Return
<1>0. ctl \notin Accesses => access = "none"
  BY DEF AskedOnce, RangesOK
<1>1. CASE Serve
  <2> USE DEF Goes
  <2>1. CASE Flags \/ Cancel
    BY <2>1 DEF Flags, StopFlags, Cancel, AfterStop
  <2>2. CASE Ask \/ AskReap
    BY <2>2 DEF Ask, AskReap, Reap
  <2>3. CASE Start \/ Spawn \/ SpawnNot \/ Alloc \/ InitCapture
    BY <2>3 DEF Start, StartNeedsSocket, Spawn, SpawnNot, Alloc, InitCapture
  <2>4. CASE Bind \/ AnswerSent \/ AnswerFails \/ Accept \/ SocketFails \/ TcpFlag
    BY <2>4 DEF Bind, AnswerSent, AnswerFails, Accept, SocketFails, TcpFlag, Socket
  <2>5. CASE SetFlag
    BY <2>5 DEF SetFlag
  <2>6. CASE ClearStop \/ Off \/ Disable \/ On \/ Queried \/ Control \/ Filtered
    BY <1>0, <2>6 DEF Accesses, ClearStop, Off, Disable, On, Queried, Control, Filtered, Got
  <2>7. ASSUME NEW locks \in BOOLEAN, Lock(locks) PROVE Stale'
    BY <2>7 DEF Lock
  <2>8. CASE Wait \/ GiveUp \/ Parse \/ ProgramFiltered \/ Test
    BY <2>8 DEF Wait, GiveUp, Parse, ProgramFiltered, Test, Got
  <2>9. CASE Close \/ Reset
    <3>1. CASE Close
      <4>1. job = "end" => ~Lock_Freq_Flag'
        BY <3>1 DEF Close
      <4>2. UNCHANGED <<TCP_Flag, PTHREAD_FLAG, cb, access>>
        BY <3>1 DEF Close
      <4>3. ctl = "close" /\ ctl' = IF job = "end" THEN "reset" ELSE "idle"
        BY <3>1 DEF Close
      <4> QED
        BY <4>1, <4>2, <4>3
    <3>2. CASE Reset
      BY <1>0, <3>2 DEF Accesses, Reset
    <3> QED
      BY <2>9, <3>1, <3>2
  <2> QED
    BY <1>1, <2>1, <2>2, <2>3, <2>4, <2>5, <2>6, <2>7, <2>8, <2>9 DEF Serve
<1>2. CASE Begin
  BY <1>2 DEF Begin, Begins, Tune, Refused, Filter, StartTsSend, StopStream, Query, End
<1>3. CASE CbStep
  BY <1>3 DEF CbStep, CbAborted, CbResubmit, CbRefused, CbBranch, CbLoop, CbSent, CbLoopEnds,
     CbSendFails, CbWrite, CbFull, CbStop, StopFlags, CbCancel, CbParseOk, CbClose, CbFlags
<1>4. ASSUME NEW e \in EventThreads, EventStep(e) PROVE Stale'
  BY <1>4 DEF EventStep, EventMoves, EventOpen, EventLoop, EventNothing, EventReap, Reap
<1>5. ASSUME NEW t \in Transfers, Answered(t) PROVE Stale'
  BY <1>5 DEF Answered
<1>6. CASE UNCHANGED vars
  BY <1>6 DEF vars
<1> QED
  BY <1>1, <1>2, <1>3, <1>4, <1>5, <1>6 DEF Run

LEMMA LeftOpenKept == SInv /\ [Run]_vars => LeftOpen'
<1> SUFFICES ASSUME SInv, [Run]_vars PROVE LeftOpen'
  OBVIOUS
<1> USE DEF SInv, RangesOK, Coupled, FilterFlagKnown, Stale, LeftOpen, Sockets, Sending, Starting, Connecting,
            NoCallback, Callback, Return
<1>1. CASE Serve
  <2> USE DEF Goes
  <2>1. CASE Flags \/ Cancel
    BY <2>1 DEF Flags, StopFlags, Cancel, AfterStop
  <2>2. CASE Ask \/ AskReap
    BY <2>2 DEF Ask, AskReap, Reap
  <2>3. CASE Start \/ Spawn \/ SpawnNot \/ Alloc \/ InitCapture
    BY <2>3 DEF Start, StartNeedsSocket, Spawn, SpawnNot, Alloc, InitCapture
  <2>4. CASE Bind \/ AnswerSent \/ AnswerFails \/ Accept \/ SocketFails \/ TcpFlag
    BY <2>4 DEF Bind, AnswerSent, AnswerFails, Accept, SocketFails, TcpFlag, Socket
  <2>5. CASE SetFlag
    BY <2>5 DEF SetFlag
  <2>6. CASE ClearStop \/ Off \/ Disable \/ On \/ Queried \/ Control \/ Filtered
    BY <2>6 DEF ClearStop, Off, Disable, On, Queried, Control, Filtered, Got
  <2>7. ASSUME NEW locks \in BOOLEAN, Lock(locks) PROVE LeftOpen'
    BY <2>7 DEF Lock
  <2>8. CASE Wait \/ GiveUp \/ Parse \/ ProgramFiltered \/ Test
    BY <2>8 DEF Wait, GiveUp, Parse, ProgramFiltered, Test, Got
  <2>9. CASE Close \/ Reset
    BY <2>9 DEF Close, Reset
  <2> QED
    BY <1>1, <2>1, <2>2, <2>3, <2>4, <2>5, <2>6, <2>7, <2>8, <2>9 DEF Serve
<1>2. CASE Begin
  BY <1>2 DEF Begin, Begins, Tune, Refused, Filter, StartTsSend, StopStream, Query, End
<1>3. CASE CbStep
  BY <1>3 DEF CbStep, CbAborted, CbResubmit, CbRefused, CbBranch, CbLoop, CbSent, CbLoopEnds,
     CbSendFails, CbWrite, CbFull, CbStop, StopFlags, CbCancel, CbParseOk, CbClose, CbFlags
<1>4. ASSUME NEW e \in EventThreads, EventStep(e) PROVE LeftOpen'
  BY <1>4 DEF EventStep, EventMoves, EventOpen, EventLoop, EventNothing, EventReap, Reap
<1>5. ASSUME NEW t \in Transfers, Answered(t) PROVE LeftOpen'
  BY <1>5 DEF Answered
<1>6. CASE UNCHANGED vars
  BY <1>6 DEF vars
<1> QED
  BY <1>1, <1>2, <1>3, <1>4, <1>5, <1>6 DEF Run

LEMMA SocketsKept == SInv /\ [Run]_vars => Sockets'
<1> SUFFICES ASSUME SInv, [Run]_vars PROVE Sockets'
  OBVIOUS
<1> USE DEF SInv, RangesOK, Coupled, FilterFlagKnown, Stale, LeftOpen, Sockets, Sending, Starting, Connecting,
            NoCallback, Callback, Return
<1>1. CASE Serve
  <2> USE DEF Goes
  <2>1. CASE Flags \/ Cancel
    BY <2>1 DEF Flags, StopFlags, Cancel, AfterStop
  <2>2. CASE Ask \/ AskReap
    BY <2>2 DEF Ask, AskReap, Reap
  <2>3. CASE Start \/ Spawn \/ SpawnNot \/ Alloc \/ InitCapture
    BY <2>3 DEF Start, StartNeedsSocket, Spawn, SpawnNot, Alloc, InitCapture
  <2>4. CASE Bind \/ AnswerSent \/ AnswerFails \/ Accept \/ SocketFails \/ TcpFlag
    BY <2>4 DEF Bind, AnswerSent, AnswerFails, Accept, SocketFails, TcpFlag, Socket
  <2>5. CASE SetFlag
    BY <2>5 DEF SetFlag
  <2>6. CASE ClearStop \/ Off \/ Disable \/ On \/ Queried \/ Control \/ Filtered
    BY <2>6 DEF ClearStop, Off, Disable, On, Queried, Control, Filtered, Got
  <2>7. ASSUME NEW locks \in BOOLEAN, Lock(locks) PROVE Sockets'
    BY <2>7 DEF Lock
  <2>8. CASE Wait \/ GiveUp \/ Parse \/ ProgramFiltered \/ Test
    BY <2>8 DEF Wait, GiveUp, Parse, ProgramFiltered, Test, Got
  <2>9. CASE Close \/ Reset
    BY <2>9 DEF Close, Reset
  <2> QED
    BY <1>1, <2>1, <2>2, <2>3, <2>4, <2>5, <2>6, <2>7, <2>8, <2>9 DEF Serve
<1>2. CASE Begin
  BY <1>2 DEF Begin, Begins, Tune, Refused, Filter, StartTsSend, StopStream, Query, End
<1>3. CASE CbStep
  BY <1>3 DEF CbStep, CbAborted, CbResubmit, CbRefused, CbBranch, CbLoop, CbSent, CbLoopEnds,
     CbSendFails, CbWrite, CbFull, CbStop, StopFlags, CbCancel, CbParseOk, CbClose, CbFlags
<1>4. ASSUME NEW e \in EventThreads, EventStep(e) PROVE Sockets'
  BY <1>4 DEF EventStep, EventMoves, EventOpen, EventLoop, EventNothing, EventReap, Reap
<1>5. ASSUME NEW t \in Transfers, Answered(t) PROVE Sockets'
  BY <1>5 DEF Answered
<1>6. CASE UNCHANGED vars
  BY <1>6 DEF vars
<1> QED
  BY <1>1, <1>2, <1>3, <1>4, <1>5, <1>6 DEF Run

LEMMA InitSInv == Init => SInv
<1>1. Init => RangesOK
  BY InitRanges
<1>2. Init => AskedOnce
  <2> SUFFICES ASSUME Init PROVE AskedOnce
    OBVIOUS
  <2>1. access = "none" /\ completed = <<>>
    BY DEF Init
  <2>2. Len(completed) = 0
    BY <2>1
  <2> QED
    BY <2>1, <2>2 DEF AskedOnce
<1>3. Init => Coupled /\ FilterFlagKnown
  BY DEF Init, Coupled, FilterFlagKnown, Starting, Connecting
<1>4. Init => Stale /\ LeftOpen /\ Sockets
  BY DEF Init, NoCallback, Stale, Sending, LeftOpen, Sockets, Connecting
<1> QED
  BY <1>1, <1>2, <1>3, <1>4 DEF SInv

LEMMA InitSInvNext == Init' => SInv'
BY InitSInv, PTL

\* The inductive invariant behind the theorems on sockets.
THEOREM SocketsKnown == Spec => []SInv
<1>1. SInv /\ [Run]_vars => SInv'
  BY RangesKept, CoupledKept, AskedKept, FilterFlagKept, StaleKept, LeftOpenKept,
     SocketsKept DEF SInv
<1>2. SInv /\ [Next]_vars => SInv'
  BY <1>1, RunOrExit, InitSInvNext
<1> QED
  BY <1>2, InitSInv, PTL DEF Spec

\* Whatever clients request, whichever callbacks and event threads are late
\* and whoever fails to connect: a listener that is still open when the next
\* is to be bound is one whose answer could not be sent (Create_Sock_Tcp after
\* SendMessage), and no connection is open then.
THEOREM OnlyAnswersLeave == Spec => []LeftByAnswer
<1>1. SInv => LeftByAnswer
  BY DEF SInv, LeftOpen, Sockets, LeftByAnswer, Connecting
<1> QED
  BY <1>1, SocketsKnown, PTL

\* So where every answer is sent the port is free whenever it is bound, and
\* the server never exits there.
THEOREM PortFreeIfAnswered ==
  Spec /\ [][~AnswerFails]_vars => [](PortFree /\ ~unanswered) /\ [][~Exit]_vars
<1>1. Init => ~unanswered
  BY DEF Init
<1>2. ~unanswered /\ [Next]_vars /\ [~AnswerFails]_vars => ~unanswered'
  <2> SUFFICES ASSUME ~unanswered, Next, ~AnswerFails PROVE ~unanswered'
    BY DEF vars
  <2>1. CASE Serve
    BY <2>1 DEF Serve, Flags, Cancel, Ask, AskReap, Reap, Start, Bind, AnswerSent, Accept,
       SocketFails, TcpFlag, Socket, Spawn, SpawnNot, Alloc, InitCapture, SetFlag, ClearStop,
       Off, Lock, Disable, On, Queried, Control, Filtered, Wait, GiveUp, Parse,
       ProgramFiltered, Test, Close, Reset, Got
  <2>2. CASE Begin
    BY <2>2 DEF Begin, Begins, Tune, Refused, Filter, StartTsSend, StopStream, Query, End
  <2>3. CASE CbStep
    BY <2>3 DEF CbStep, CbAborted, CbResubmit, CbRefused, CbBranch, CbLoop, CbSent, CbLoopEnds,
       CbSendFails, CbWrite, CbFull, CbStop, CbCancel, CbParseOk, CbClose, CbFlags
  <2>4. ASSUME NEW e \in EventThreads, EventStep(e) PROVE ~unanswered'
    BY <2>4 DEF EventStep, EventMoves, EventOpen, EventLoop, EventNothing, EventReap, Reap
  <2>5. ASSUME NEW t \in Transfers, Answered(t) PROVE ~unanswered'
    BY <2>5 DEF Answered
  <2>6. CASE Exit
    BY <2>6 DEF Exit
  <2> QED
    BY <2>1, <2>2, <2>3, <2>4, <2>5, <2>6 DEF Next, Run
<1>3. LeftByAnswer /\ ~unanswered => PortFree /\ [~Exit]_vars
  BY DEF LeftByAnswer, PortFree, Exit
<1> QED
  BY <1>1, <1>2, <1>3, OnlyAnswersLeave, PTL DEF Spec

\* While TCP_Flag is set and nobody is closing it, the callback has a
\* connection to send on.
THEOREM FlagAlwaysHasSocket == Spec => []FlagHasSocket
<1>1. SInv => FlagHasSocket
  BY DEF SInv, Sockets, FlagHasSocket, Quiet, NoCallback
<1> QED
  BY <1>1, SocketsKnown, PTL

---------------------------------------------------------------------------
(* The endpoint, for clients that tune, stop and query only.               *)

TuneOnly == {"filter", "start"} \cap Requests = {}

\* A stream is started after the access that releases the endpoint, and
\* PTHREAD_FLAG reset before the one that halts it.
EndpointOn ==
  /\ job \notin {"filter", "start"}
  /\ \/ PTHREAD_FLAG \/ ctl \in Starting \cup {"wait", "parse", "control", "filter", "test"}
     \/ ctl = "on" /\ access # "none"
     => streaming
  /\ ctl = "off" => ~PTHREAD_FLAG

LEMMA ReapFindsAsked ==
  ASSUME RangesOK, AskedOnce, NEW th, Reap(th)
  PROVE  access' # "none" => access # "none"
<1>1. completed \in Seq(Transfers \cup {Register}) /\ completed # <<>>
  BY DEF RangesOK, Reap
<1>2. Head(completed) = completed[1] /\ 1 \in 1..Len(completed)
  BY <1>1
<1>3. Head(completed) = Register => access = "asked"
  BY <1>2 DEF AskedOnce
<1> QED
  BY <1>3 DEF Reap

LEMMA EndpointKept ==
  ASSUME TuneOnly, SInv, EndpointOn, [Run]_vars
  PROVE  EndpointOn'
<1> USE DEF SInv, Coupled, EndpointOn, FilterFlagKnown, Starting, Connecting
<1>0. ASSUME NEW th, Reap(th) PROVE EndpointOn'
  BY <1>0, ReapFindsAsked DEF Reap
<1>1. CASE Serve
  <2> USE DEF Goes
  <2>1. CASE Flags \/ Cancel
    BY <2>1 DEF Flags, StopFlags, Cancel, AfterStop
  <2>2. CASE Ask \/ AskReap
    <3>1. CASE Ask
      <4>1. ctl = "on" \/ (ctl # "off" /\ streaming) => streaming'
        BY <3>1, Zenon DEF Ask
      <4>2. UNCHANGED <<ctl, job, PTHREAD_FLAG>> /\ ctl \in Accesses
        BY <3>1 DEF Ask
      <4> QED
        BY <4>1, <4>2 DEF Accesses
    <3> QED
      BY <1>0, <2>2, <3>1 DEF AskReap
  <2>3. CASE Start \/ Spawn \/ SpawnNot \/ Alloc \/ InitCapture
    BY <2>3 DEF Start, StartNeedsSocket, Spawn, SpawnNot, Alloc, InitCapture
  <2>4. CASE Bind \/ AnswerSent \/ AnswerFails \/ Accept \/ SocketFails \/ TcpFlag
    BY <2>4 DEF Bind, AnswerSent, AnswerFails, Accept, SocketFails, TcpFlag, Socket
  <2>5. CASE SetFlag
    BY <2>5 DEF SetFlag
  <2>6. CASE ClearStop \/ Off \/ Disable \/ On \/ Queried \/ Control \/ Filtered
    BY <2>6 DEF ClearStop, Off, Disable, On, Queried, Control, Filtered, Got
  <2>7. ASSUME NEW locks \in BOOLEAN, Lock(locks) PROVE EndpointOn'
    BY <2>7 DEF Lock
  <2>8. CASE Wait \/ GiveUp \/ Parse \/ ProgramFiltered \/ Test
    BY <2>8 DEF Wait, GiveUp, Parse, ProgramFiltered, Test, Got
  <2>9. CASE Close \/ Reset
    BY <2>9 DEF Close, Reset
  <2> QED
    BY <1>1, <2>1, <2>2, <2>3, <2>4, <2>5, <2>6, <2>7, <2>8, <2>9 DEF Serve
<1>2. CASE Begin
  BY <1>2 DEF TuneOnly, Begin, Begins, Tune, Refused, Filter, StartTsSend, StopStream, Query, End
<1>3. CASE CbStep
  BY <1>3 DEF CbStep, CbAborted, CbResubmit, CbRefused, CbBranch, CbLoop, CbSent, CbLoopEnds,
     CbSendFails, CbWrite, CbFull, CbStop, StopFlags, CbCancel, CbParseOk, CbClose, CbFlags
<1>4. ASSUME NEW e \in EventThreads, EventStep(e) PROVE EndpointOn'
  BY <1>0, <1>4 DEF EventStep, EventMoves, EventOpen, EventLoop, EventNothing, EventReap
<1>5. ASSUME NEW t \in Transfers, Answered(t) PROVE EndpointOn'
  BY <1>5 DEF Answered
<1>6. CASE UNCHANGED vars
  BY <1>6 DEF vars
<1> QED
  BY <1>1, <1>2, <1>3, <1>4, <1>5, <1>6 DEF Run

\* In sessions without filter and start requests a stream that is on comes
\* from an endpoint that is on, also when transfers fail.
THEOREM EndpointStaysOn == ASSUME TuneOnly PROVE Spec => []EndpointIsOn
<1>1. Init => EndpointOn
  BY DEF Init, EndpointOn, Starting, Connecting
<1>2. Init' => EndpointOn'
  BY <1>1, PTL
<1>3. SInv /\ EndpointOn /\ [Next]_vars => EndpointOn'
  BY <1>2, EndpointKept, RunOrExit
<1>4. EndpointOn => EndpointIsOn
  BY DEF EndpointOn, EndpointIsOn
<1> QED
  BY <1>1, <1>3, <1>4, SocketsKnown, PTL DEF Spec

---------------------------------------------------------------------------
(* The queue of completions.                                               *)

Places == 1..Len(completed)

\* What is in the queue once are the transfers that have come to an end and
\* whose callbacks have not been entered, and the register access.
Queued ==
  /\ \A t \in Transfers : urbs[t] \in {"done", "failed", "cancelled"}
       <=> \E m \in Places : completed[m] = t
  /\ \A m, n \in Places : completed[m] = completed[n] => m = n

\* A transfer in flight comes to its end.
LEMMA AppendQueued ==
  ASSUME RangesOK, Queued, NEW t \in Transfers, urbs[t] = "flying",
         completed' = Append(completed, t),
         NEW s \in {"done", "failed", "cancelled"}, urbs' = [urbs EXCEPT ![t] = s]
  PROVE  Queued'
<1>1. \A m \in Places : completed[m] # t
  BY DEF Queued
<1>2. /\ Len(completed') = Len(completed) + 1
      /\ \A m \in Places : completed'[m] = completed[m]
      /\ completed'[Len(completed) + 1] = t
      /\ Len(completed) \in Nat
  BY DEF RangesOK, Places
<1>3. \A u \in Transfers \ {t} : urbs'[u] = urbs[u]
  BY DEF RangesOK
<1>4. urbs'[t] = s
  BY DEF RangesOK
<1> QED
  BY <1>1, <1>2, <1>3, <1>4 DEF Queued, Places

LEMMA ReapQueued ==
  ASSUME RangesOK, Queued, NEW th, Reap(th)
  PROVE  Queued'
<1>1. completed \in Seq(Transfers \cup {Register}) /\ completed # <<>>
  BY DEF RangesOK, Reap
<1>2. /\ Len(completed') = Len(completed) - 1
      /\ \A m \in Places' : completed'[m] = completed[m + 1]
      /\ Head(completed) = completed[1] /\ Len(completed) \in Nat \ {0}
  BY <1>1 DEF Reap, Places
<1>3. \A m \in Places : m = 1 \/ (m - 1 \in Places' /\ completed'[m - 1] = completed[m])
  BY <1>2 DEF Places
<1>4. \A m \in Places' : m + 1 \in Places
  BY <1>2 DEF Places
<1>5. \A m \in Places' : completed'[m] # Head(completed)
  BY <1>2, <1>4 DEF Queued, Places
<1>6. CASE Head(completed) = Register
  <2>1. urbs' = urbs /\ \A t \in Transfers : t # Register
    BY <1>6, TransferAssumption DEF Reap, Register
  <2>2. \A t \in Transfers : (\E m \in Places : completed[m] = t)
                              <=> \E m \in Places' : completed'[m] = t
    BY <1>2, <1>3, <1>4, <1>6, <2>1
  <2>3. \A m, n \in Places' : completed'[m] = completed'[n] => m = n
    BY <1>2, <1>4 DEF Queued, Places
  <2> QED
    BY <2>1, <2>2, <2>3 DEF Queued
<1>7. CASE Head(completed) # Register
  <2>1. urbs' = [urbs EXCEPT ![Head(completed)] = "none"] /\ Head(completed) \in Transfers
    BY <1>1, <1>7 DEF Reap
  <2>2. \A t \in Transfers : urbs'[t] = IF t = Head(completed) THEN "none" ELSE urbs[t]
    BY <2>1 DEF RangesOK
  <2> QED
    BY <1>2, <1>3, <1>4, <1>5, <2>1, <2>2 DEF Queued, Places
<1> QED
  BY <1>6, <1>7

LEMMA CancelQueued ==
  ASSUME RangesOK, Queued, CancelTransfer
  PROVE  Queued'
<1>1. CASE img_transfer # NoTransfer /\ urbs[img_transfer] = "flying"
  <2>1. img_transfer \in Transfers
    BY <1>1 DEF RangesOK
  <2>2. completed' = Append(completed, img_transfer)
        /\ urbs' = [urbs EXCEPT ![img_transfer] = "cancelled"]
    BY <1>1 DEF CancelTransfer
  <2> QED
    BY <1>1, <2>1, <2>2, AppendQueued
<1>2. CASE img_transfer # NoTransfer /\ urbs[img_transfer] \notin {"none", "flying"}
  <2>1. img_transfer \in Transfers /\ urbs[img_transfer] \in {"done", "failed", "cancelled"}
    BY <1>2 DEF RangesOK
  <2>2. completed' = completed /\ urbs' = [urbs EXCEPT ![img_transfer] = "cancelled"]
    BY <1>2 DEF CancelTransfer
  <2> QED
    BY <2>1, <2>2 DEF RangesOK, Queued, Places
<1>3. CASE img_transfer = NoTransfer \/ urbs[img_transfer] = "none"
  BY <1>3 DEF CancelTransfer, Queued, Places
<1> QED
  BY <1>1, <1>2, <1>3

\* A transfer that is submitted was given back before.
LEMMA SubmitQueued ==
  ASSUME RangesOK, Queued, Submittable, Submit, UNCHANGED completed
  PROVE  Queued'
<1>1. img_transfer \in Transfers /\ urbs[img_transfer] = "none"
  BY DEF RangesOK, Submittable
<1> QED
  BY <1>1 DEF Submit, RangesOK, Queued, Places

LEMMA QueuedKept == RangesOK /\ AskedOnce /\ Queued /\ [Run]_vars => Queued'
<1> SUFFICES ASSUME RangesOK, AskedOnce, Queued, [Run]_vars PROVE Queued'
  OBVIOUS
<1>1. CASE UNCHANGED libusb
  BY <1>1 DEF Queued, Places
<1>2. CASE Serve
  <2>1. CASE Cancel
    BY <2>1, CancelQueued DEF Cancel
  <2>2. CASE Ask
    <3>1. completed' = Append(completed, Register) /\ urbs' = urbs /\ access = "none"
      BY <2>2 DEF Ask
    <3>2. \A m \in Places : completed[m] # Register
      BY <3>1 DEF AskedOnce, Places
    <3>3. /\ Len(completed') = Len(completed) + 1
          /\ \A m \in Places : completed'[m] = completed[m]
          /\ completed'[Len(completed) + 1] = Register
          /\ Len(completed) \in Nat
      BY <3>1 DEF RangesOK, Places
    <3>4. \A t \in Transfers : t # Register
      BY TransferAssumption DEF Register
    <3> QED
      BY <3>1, <3>2, <3>3, <3>4 DEF Queued, Places
  <2>3. CASE AskReap
    BY <2>3, ReapQueued DEF AskReap
  <2>4. CASE InitCapture
    BY <1>1, <2>4, SubmitQueued DEF InitCapture
  <2>5. CASE Flags \/ Start \/ Spawn \/ SpawnNot \/ Alloc \/ SetFlag
    BY <1>1, <2>5 DEF Flags, Start, Spawn, SpawnNot, Alloc, SetFlag
  <2>6. CASE Bind \/ AnswerSent \/ AnswerFails \/ Accept \/ SocketFails \/ TcpFlag
    BY <1>1, <2>6 DEF Bind, AnswerSent, AnswerFails, Accept, SocketFails, TcpFlag, Socket
  <2>7. CASE ClearStop \/ Off \/ Disable \/ On \/ Queried \/ Control \/ Filtered \/ ProgramFiltered
    BY <1>1, <2>7 DEF ClearStop, Off, Disable, On, Queried, Control, Filtered, ProgramFiltered, Got
  <2>8. ASSUME NEW locks \in BOOLEAN, Lock(locks) PROVE Queued'
    BY <1>1, <2>8 DEF Lock
  <2>9. CASE Wait \/ GiveUp \/ Parse \/ Test \/ Close \/ Reset
    BY <1>1, <2>9 DEF Wait, GiveUp, Parse, Test, Close, Reset
  <2> QED
    BY <1>2, <2>1, <2>2, <2>3, <2>4, <2>5, <2>6, <2>7, <2>8, <2>9 DEF Serve
<1>3. CASE Begin
  BY <1>1, <1>3 DEF Begin, Begins, Tune, Refused, Filter, StartTsSend, StopStream, Query, End
<1>4. CASE CbStep
  <2>1. CASE CbResubmit
    BY <2>1, SubmitQueued DEF CbResubmit
  <2>2. CASE CbCancel
    BY <2>2, CancelQueued DEF CbCancel
  <2> QED
    BY <1>1, <1>4, <2>1, <2>2 DEF CbStep, CbAborted, CbRefused, CbBranch, CbLoop, CbSent,
       CbLoopEnds, CbSendFails, CbWrite, CbFull, CbStop, CbParseOk, CbClose, CbFlags
<1>5. ASSUME NEW e \in EventThreads, EventStep(e) PROVE Queued'
  BY <1>1, <1>5, ReapQueued DEF EventStep, EventMoves, EventOpen, EventLoop, EventNothing, EventReap
<1>6. ASSUME NEW t \in Transfers, Answered(t) PROVE Queued'
  BY <1>6, AppendQueued DEF Answered
<1>7. CASE UNCHANGED vars
  BY <1>1, <1>7 DEF vars
<1> QED
  BY <1>2, <1>3, <1>4, <1>5, <1>6, <1>7 DEF Run

---------------------------------------------------------------------------
(* The transfer that feeds a stream, for clients that tune without a       *)
(* program, stop and query, and a device that refuses a transfer only      *)
(* while its endpoint is halted.                                           *)

PlainTunes == TuneOnly /\ Programs \subseteq {FALSE} /\ ~Faulty

\* No program is waited for.
NoProgram ==
  /\ ~programNumber /\ job # "program"
  /\ ctl \notin {"wait", "parse", "control", "filter", "test"}

\* bTsThread is reset before what the stream lives on is taken from it, and
\* a stream that is on is one PTHREAD_FLAG tells of.
Stopped ==
  /\ \/ ctl \in {"cancel", "close", "reset", "lock", "disable", "on", "start", "spawn"} \cup Connecting
     \/ job = "tune" /\ ctl = "off"
     \/ cb.at \in {"clearcancel", "fullcancel", "close", "flags", "parseok"}
     => ~bTsThread
  /\ bTsThread => \/ PTHREAD_FLAG \/ ctl \in {"alloc", "submit", "flag"}
                  \/ job = "stop" /\ ctl \in {"off", "flags"}

Ready == Connecting \cup {"start", "spawn", "alloc", "submit"}
AllGivenBack == completed = <<>> /\ cb = NoCallback /\ \A t \in Transfers : urbs[t] = "none"

\* The access that halts the endpoint is reaped after every transfer that
\* had come with data, and the one that releases it after those that the
\* halt refused: before a stream starts, no transfer of an earlier one is
\* in flight, in the queue or in its callback.
Drained ==
  /\ ctl \in {"lock", "disable", "on"} \/ (ctl = "off" /\ access = "done")
       => cb.at \in {"none", "aborted"} /\ \A t \in Transfers : urbs[t] # "done"
  /\ ctl = "off" =>
       \A m, n \in Places : completed[n] = Register /\ completed[m] # Register
         /\ urbs[completed[m]] = "done" => m < n
  /\ (ctl = "off" /\ access # "none") \/ ctl \in {"lock", "disable"} \/ (ctl = "on" /\ access = "none")
       => ~streaming
  /\ ctl = "on" /\ access # "none" =>
       /\ \A t \in Transfers : urbs[t] # "flying"
       /\ \A m, n \in Places : completed[n] = Register => m <= n
  /\ (ctl = "on" /\ access = "done") \/ ctl \in Ready => AllGivenBack
  /\ ctl = "submit" => img_transfer # NoTransfer

\* A stream that is on has its transfer in flight, in the queue with its
\* data, or in the callback that is about to submit it again; and it has
\* the only one, so that no aborted transfer resets the pointer.
Feeding ==
  /\ bTsThread => \E e \in EventThreads : event[e] # "none"
  /\ bTsThread /\ streaming /\ ctl \notin {"alloc", "submit"} =>
       /\ img_transfer # NoTransfer
       /\ \/ urbs[img_transfer] \in {"flying", "done"}
          \/ urbs[img_transfer] = "none" /\ cb.at = "resubmit"
       /\ cb.at # "aborted"
       /\ \A t \in Transfers \ {img_transfer} : urbs[t] = "none"

FInv == SInv /\ Queued /\ EndpointOn /\ NoProgram /\ Stopped /\ Drained /\ Feeding

LEMMA NoProgramKept ==
  ASSUME PlainTunes, FInv, [Run]_vars
  PROVE  NoProgram'
<1> USE DEF PlainTunes, TuneOnly, FInv, SInv, RangesOK, Coupled, EndpointOn, NoProgram, Starting, Connecting
<1>1. CASE Serve
  <2> USE DEF Goes
  <2>1. CASE Flags \/ Cancel
    BY <2>1 DEF Flags, Cancel, AfterStop
  <2>2. CASE Ask \/ AskReap
    BY <2>2 DEF Ask, AskReap, Reap
  <2>3. CASE Start \/ Spawn \/ SpawnNot \/ Alloc \/ InitCapture
    BY <2>3 DEF Start, StartNeedsSocket, Spawn, SpawnNot, Alloc, InitCapture
  <2>4. CASE Bind \/ AnswerSent \/ AnswerFails \/ Accept \/ SocketFails \/ TcpFlag
    BY <2>4 DEF Bind, AnswerSent, AnswerFails, Accept, SocketFails, TcpFlag, Socket
  <2>5. CASE SetFlag
    BY <2>5 DEF SetFlag
  <2>6. CASE ClearStop \/ Off \/ Disable \/ On \/ Queried \/ Control \/ Filtered
    BY <2>6 DEF ClearStop, Off, Disable, On, Queried, Control, Filtered, Got
  <2>7. ASSUME NEW locks \in BOOLEAN, Lock(locks) PROVE NoProgram'
    BY <2>7 DEF Lock
  <2>8. CASE Wait \/ GiveUp \/ Parse \/ ProgramFiltered \/ Test
    BY <2>8 DEF Wait, GiveUp, Parse, ProgramFiltered, Test, Got
  <2>9. CASE Close \/ Reset
    BY <2>9 DEF Close, Reset
  <2> QED
    BY <1>1, <2>1, <2>2, <2>3, <2>4, <2>5, <2>6, <2>7, <2>8, <2>9 DEF Serve
<1>2. CASE Begin
  <2>1. ASSUME NEW program \in Programs, Tune(program) PROVE NoProgram'
    BY <2>1 DEF Tune, Begins
  <2>2. CASE Refused \/ Filter
    BY <2>2 DEF Refused, Filter, Begins
  <2>3. CASE StartTsSend \/ StopStream
    BY <2>3 DEF StartTsSend, StopStream, Begins
  <2>4. CASE Query \/ End
    BY <2>4 DEF Query, End, Begins
  <2> QED
    BY <1>2, <2>1, <2>2, <2>3, <2>4 DEF Begin
<1>3. CASE CbStep
  BY <1>3 DEF CbStep, CbAborted, CbResubmit, CbRefused, CbBranch, CbLoop, CbSent, CbLoopEnds,
     CbSendFails, CbWrite, CbFull, CbStop, CbCancel, CbParseOk, CbClose, CbFlags
<1>4. ASSUME NEW e \in EventThreads, EventStep(e) PROVE NoProgram'
  BY <1>4 DEF EventStep, EventMoves, EventOpen, EventLoop, EventNothing, EventReap, Reap
<1>5. ASSUME NEW t \in Transfers, Answered(t) PROVE NoProgram'
  BY <1>5 DEF Answered
<1>6. CASE UNCHANGED vars
  BY <1>6 DEF vars
<1> QED
  BY <1>1, <1>2, <1>3, <1>4, <1>5, <1>6 DEF Run

LEMMA StoppedKept ==
  ASSUME PlainTunes, FInv, [Run]_vars
  PROVE  Stopped'
<1> USE DEF PlainTunes, TuneOnly, FInv, SInv, RangesOK, Coupled, EndpointOn, NoProgram, Stopped, Starting, Connecting,
            NoCallback, Callback, Return
<1>0. ctl = "spawn" => cb.at = "none"
  BY DEF Drained, Ready, AllGivenBack
<1>1. CASE Serve
  <2> USE DEF Goes
  <2>1. CASE Flags \/ Cancel
    BY <2>1 DEF Flags, StopFlags, Cancel, AfterStop
  <2>2. CASE Ask \/ AskReap
    BY <2>2 DEF Ask, AskReap, Reap
  <2>3. CASE Start \/ Spawn \/ SpawnNot \/ Alloc \/ InitCapture
    BY <1>0, <2>3 DEF Start, StartNeedsSocket, Spawn, SpawnNot, Alloc, InitCapture
  <2>4. CASE Bind \/ AnswerSent \/ AnswerFails \/ Accept \/ SocketFails \/ TcpFlag
    BY <2>4 DEF Bind, AnswerSent, AnswerFails, Accept, SocketFails, TcpFlag, Socket
  <2>5. CASE SetFlag
    BY <2>5 DEF SetFlag
  <2>6. CASE ClearStop \/ Off \/ Disable \/ On \/ Queried \/ Control \/ Filtered
    BY <2>6 DEF ClearStop, Off, Disable, On, Queried, Control, Filtered, Got
  <2>7. ASSUME NEW locks \in BOOLEAN, Lock(locks) PROVE Stopped'
    BY <2>7 DEF Lock
  <2>8. CASE Wait \/ GiveUp \/ Parse \/ ProgramFiltered \/ Test
    BY <2>8 DEF Wait, GiveUp, Parse, ProgramFiltered, Test, Got
  <2>9. CASE Close \/ Reset
    BY <2>9 DEF Close, Reset
  <2> QED
    BY <1>1, <2>1, <2>2, <2>3, <2>4, <2>5, <2>6, <2>7, <2>8, <2>9 DEF Serve
<1>2. CASE Begin
  <2> USE DEF Begins
  <2>1. ASSUME NEW program \in Programs, Tune(program) PROVE Stopped'
    BY <2>1 DEF Tune
  <2>2. CASE Refused \/ Filter \/ StartTsSend
    BY <2>2 DEF Refused, Filter, StartTsSend
  <2>3. CASE StopStream
    BY <2>3 DEF StopStream
  <2>4. CASE Query \/ End
    BY <2>4 DEF Query, End
  <2> QED
    BY <1>2, <2>1, <2>2, <2>3, <2>4 DEF Begin
<1>3. CASE CbStep
  BY <1>3 DEF CbStep, CbAborted, CbResubmit, CbRefused, CbBranch, CbLoop, CbSent, CbLoopEnds,
     CbSendFails, CbWrite, CbFull, CbStop, StopFlags, CbCancel, CbParseOk, CbClose, CbFlags
<1>4. ASSUME NEW e \in EventThreads, EventStep(e) PROVE Stopped'
  BY <1>4 DEF EventStep, EventMoves, EventOpen, EventLoop, EventNothing, EventReap, Reap
<1>5. ASSUME NEW t \in Transfers, Answered(t) PROVE Stopped'
  BY <1>5 DEF Answered
<1>6. CASE UNCHANGED vars
  BY <1>6 DEF vars
<1> QED
  BY <1>1, <1>2, <1>3, <1>4, <1>5, <1>6 DEF Run

LEMMA ReapDrained ==
  ASSUME FInv, NEW th, Reap(th)
  PROVE  Drained'
<1>1. completed \in Seq(Transfers \cup {Register}) /\ completed # <<>>
  BY DEF FInv, SInv, RangesOK, Reap
<1>2. /\ Len(completed') = Len(completed) - 1
      /\ \A m \in Places' : completed'[m] = completed[m + 1] /\ m + 1 \in Places
      /\ Head(completed) = completed[1] /\ Len(completed) \in Nat \ {0}
      /\ 1 \in Places
  BY <1>1 DEF Reap, Places
<1>3. UNCHANGED <<ctl, streaming, img_transfer>> /\ cb = NoCallback
  BY DEF Reap
<1>4. Head(completed) = Register => access = "asked"
  BY <1>2 DEF FInv, SInv, AskedOnce, Places
<1>5. ctl \notin Ready
  BY <1>1 DEF FInv, Drained, AllGivenBack
<1>6. CASE Head(completed) = Register
  <2>1. access' = "done" /\ UNCHANGED <<urbs, cb>>
    BY <1>6 DEF Reap
  <2>2. \A m \in Places' : completed'[m] # Register
    BY <1>2, <1>6 DEF FInv, Queued, Places
  <2>3. ASSUME ctl = "off", NEW t \in Transfers PROVE urbs[t] # "done"
    <3> SUFFICES ASSUME urbs[t] = "done" PROVE FALSE
      OBVIOUS
    <3>1. PICK m \in Places : completed[m] = t
      BY DEF FInv, Queued
    <3>2. t # Register
      BY TransferAssumption DEF Register
    <3>3. m < 1
      BY <1>2, <1>6, <2>3, <3>1, <3>2 DEF FInv, Drained
    <3> QED
      BY <3>3 DEF Places
  <2>4. ASSUME ctl = "on" PROVE AllGivenBack'
    <3>1. \A m \in Places : m <= 1
      BY <1>2, <1>4, <1>6, <2>4 DEF FInv, Drained
    <3>2. Len(completed) = 1
      BY <1>2, <3>1 DEF Places
    <3>3. completed' = <<>>
      <4>1. completed' = Tail(completed)
        BY DEF Reap
      <4> QED
        BY <1>1, <3>2, <4>1
    <3>4. ASSUME NEW t \in Transfers PROVE urbs[t] = "none"
      <4>1. urbs[t] # "flying"
        BY <1>4, <1>6, <2>4 DEF FInv, Drained
      <4>2. \A m \in Places : completed[m] # t
        BY <1>2, <1>6, <3>1, TransferAssumption DEF Register, Places
      <4> QED
        BY <4>1, <4>2 DEF FInv, SInv, RangesOK, Queued
    <3> QED
      BY <1>3, <2>1, <3>3, <3>4 DEF AllGivenBack
  <2> QED
    BY <1>3, <1>4, <1>5, <1>6, <2>1, <2>2, <2>3, <2>4 DEF FInv, Drained, NoCallback, Ready, Connecting
<1>7. CASE Head(completed) # Register
  <2> DEFINE t == Head(completed)
  <2>1. /\ access' = access /\ t \in Transfers
        /\ urbs' = [urbs EXCEPT ![t] = "none"]
        /\ cb'.at = IF urbs[t] = "done" THEN "resubmit" ELSE "aborted"
    BY <1>1, <1>7 DEF Reap
  <2>2. \A u \in Transfers : urbs'[u] = IF u = t THEN "none" ELSE urbs[u]
    BY <2>1 DEF FInv, SInv, RangesOK
  <2>3. ~(ctl = "on" /\ access = "done")
    BY <1>1 DEF FInv, Drained, AllGivenBack
  <2>4. \A m \in Places' : completed'[m] # Register =>
          completed[m + 1] \in Transfers /\ urbs'[completed'[m]] \in {"none", urbs[completed[m + 1]]}
    BY <1>1, <1>2, <2>2 DEF Places
  <2>5. ASSUME ctl = "off" PROVE
          \A m, n \in Places' : completed'[n] = Register /\ completed'[m] # Register
             /\ urbs'[completed'[m]] = "done" => m < n
    <3> SUFFICES ASSUME NEW m \in Places', NEW n \in Places', completed'[n] = Register,
                        completed'[m] # Register, urbs'[completed'[m]] = "done"
                 PROVE  m < n
      OBVIOUS
    <3>1. completed[n + 1] = Register /\ completed[m + 1] # Register /\ urbs[completed[m + 1]] = "done"
      BY <1>2, <2>4
    <3>2. m + 1 < n + 1
      BY <1>2, <2>5, <3>1 DEF FInv, Drained
    <3> QED
      BY <3>2, <1>2 DEF Places
  <2>6. ASSUME ctl = "on", access # "none"
        PROVE  \A m, n \in Places' : completed'[n] = Register => m <= n
    <3> SUFFICES ASSUME NEW m \in Places', NEW n \in Places', completed'[n] = Register
                 PROVE  m <= n
      OBVIOUS
    <3>1. m + 1 <= n + 1
      BY <1>2, <2>6 DEF FInv, Drained
    <3> QED
      BY <3>1, <1>2 DEF Places
  <2>7. \A u \in Transfers : urbs[u] # "done" => urbs'[u] # "done"
    BY <2>2
  <2>8. \A u \in Transfers : urbs[u] # "flying" => urbs'[u] # "flying"
    BY <2>2
  <2> QED
    BY <1>3, <1>5, <2>1, <2>3, <2>5, <2>6, <2>7, <2>8 DEF FInv, Drained, Ready, Connecting
<1> QED
  BY <1>6, <1>7

\* What a cancellation changes: one transfer's URBs, and the end of the queue.
LEMMA CancelEffect ==
  ASSUME RangesOK, CancelTransfer
  PROVE  /\ \A m \in Places : m \in Places' /\ completed'[m] = completed[m]
         /\ \A m \in Places' :
              m \in Places \/ (completed'[m] \in Transfers /\ urbs'[completed'[m]] = "cancelled")
         /\ \A t \in Transfers : urbs'[t] \in {"cancelled", urbs[t]}
<1> USE DEF RangesOK
<1>1. CASE img_transfer # NoTransfer /\ urbs[img_transfer] # "none"
  <2>1. img_transfer \in Transfers
    BY <1>1
  <2>2. urbs' = [urbs EXCEPT ![img_transfer] = "cancelled"]
    BY <1>1 DEF CancelTransfer
  <2>3. completed' \in {completed, Append(completed, img_transfer)}
    BY <1>1 DEF CancelTransfer
  <2>4. \A t \in Transfers : urbs'[t] \in {"cancelled", urbs[t]}
    BY <2>1, <2>2
  <2>5. CASE completed' = completed
    BY <2>4, <2>5 DEF Places
  <2>6. CASE completed' = Append(completed, img_transfer)
    <3>1. Len(completed) \in Nat /\ Len(completed') = Len(completed) + 1
      BY <2>1, <2>6
    <3>2. \A m \in Places : completed'[m] = completed[m]
      BY <2>1, <2>6 DEF Places
    <3>3. completed'[Len(completed) + 1] = img_transfer
      BY <2>1, <2>6
    <3> QED
      BY <2>1, <2>2, <2>4, <3>1, <3>2, <3>3 DEF Places
  <2> QED
    BY <2>3, <2>5, <2>6
<1>2. CASE ~(img_transfer # NoTransfer /\ urbs[img_transfer] # "none")
  <2>1. completed' = completed /\ urbs' = urbs
    BY <1>2 DEF CancelTransfer, libusb
  <2> QED
    BY <2>1 DEF Places
<1> QED
  BY <1>1, <1>2

LEMMA DrainedKept ==
  ASSUME PlainTunes, FInv, [Run]_vars
  PROVE  Drained'
<1>1. CASE UNCHANGED <<ctl, access, streaming, img_transfer, urbs, completed, cb>>
  BY <1>1 DEF FInv, Drained, Places, AllGivenBack, Ready, Connecting
<1>2. access \in {"none", "asked", "done"} /\ (access # "none" => ctl \in Accesses)
  BY DEF FInv, SInv, RangesOK, AskedOnce
<1> USE DEF Ready, Connecting
<1>3. CASE Serve
  <2> USE DEF Goes
  <2>1. CASE Flags \/ Cancel
    <3>1. CASE Flags
      BY <3>1 DEF Flags, Drained
    <3>2. CASE Cancel
      <4>1. /\ ctl = "cancel" /\ ctl' \in {"off", "close", "idle"} /\ CancelTransfer
            /\ UNCHANGED <<access, img_transfer>>
        BY <3>2 DEF Cancel, AfterStop, FInv, EndpointOn
      <4>2. access = "none" /\ \A m \in Places : completed[m] # Register
        BY <1>2, <4>1 DEF FInv, SInv, AskedOnce, Accesses, Places
      <4>3. \A m \in Places' : completed'[m] # Register
        BY <4>1, <4>2, CancelEffect, TransferAssumption DEF FInv, SInv, Register
      <4> QED
        BY <4>1, <4>2, <4>3 DEF Drained
    <3> QED
      BY <2>1, <3>1, <3>2
  <2>2. CASE Ask
    <3>1. /\ ctl \in Accesses /\ access = "none" /\ access' = "asked"
          /\ streaming \/ \A t \in Transfers : urbs[t] # "flying"
          /\ completed' = Append(completed, Register)
          /\ UNCHANGED <<ctl, img_transfer, urbs, cb>>
      BY <2>2 DEF Ask
    <3>2. ctl \in {"off", "disable"} => ~streaming'
      BY <2>2, <3>1 DEF Ask, FInv, Drained
    <3>3. /\ Len(completed) \in Nat /\ Len(completed') = Len(completed) + 1
          /\ \A m \in Places : completed'[m] = completed[m]
          /\ \A m \in Places : completed[m] # Register
      BY <3>1 DEF FInv, SInv, RangesOK, AskedOnce, Places
    <3>4. \A m, n \in Places' : completed'[n] = Register => m <= n /\ (completed'[m] # Register => m < n)
      <4>1. \A n \in Places' : n = Len(completed) + 1 \/ n \in Places
        BY <3>3 DEF Places
      <4>2. \A n \in Places' : completed'[n] = Register => n = Len(completed) + 1
        BY <3>3, <4>1
      <4> QED
        BY <3>3, <4>2 DEF Places
    <3> QED
      BY <3>1, <3>2, <3>4 DEF FInv, Drained, Accesses
  <2>3. CASE AskReap
    BY <2>3, ReapDrained DEF AskReap
  <2>4. CASE Start \/ SpawnNot \/ Alloc
    BY <2>4, TransferAssumption DEF Start, SpawnNot, Alloc, Unused, FInv, Drained, AllGivenBack
  <2>5. CASE Spawn
    BY <2>5 DEF Spawn, FInv, Drained, AllGivenBack
  <2>6. CASE InitCapture
    BY <2>6 DEF InitCapture, FInv, Drained
  <2>7. CASE Bind \/ AnswerSent \/ AnswerFails \/ Accept \/ SocketFails \/ TcpFlag
    BY <2>7 DEF Bind, AnswerSent, AnswerFails, Accept, SocketFails, TcpFlag, Socket, FInv, Drained, AllGivenBack
  <2>8. CASE SetFlag
    BY <2>8 DEF SetFlag, FInv, Drained
  <2>9. CASE ClearStop
    BY <1>2, <2>9 DEF ClearStop, FInv, Drained, Places, SInv, AskedOnce, Accesses
  <2>10. CASE Off \/ Disable \/ On \/ Queried
    BY <2>10 DEF Off, Disable, On, Queried, Got, FInv, Drained, AllGivenBack
  <2>11. ASSUME NEW locks \in BOOLEAN, Lock(locks) PROVE Drained'
    BY <2>11 DEF Lock, FInv, Drained, SInv, AskedOnce, Accesses
  <2>12. CASE Control \/ Filtered \/ Wait \/ GiveUp \/ Parse \/ ProgramFiltered \/ Test
    BY <2>12 DEF Control, Filtered, Wait, GiveUp, Parse, ProgramFiltered, Test, FInv, NoProgram
  <2>13. CASE Close \/ Reset
    BY <2>13 DEF Close, Reset, FInv, Drained
  <2> QED
    BY <1>3, <2>1, <2>2, <2>3, <2>4, <2>5, <2>6, <2>7, <2>8, <2>9, <2>10, <2>11, <2>12, <2>13
       DEF Serve
<1>4. CASE Begin
  <2>1. access = "none" /\ \A m \in Places : completed[m] # Register
    BY <1>2, <1>4 DEF FInv, SInv, AskedOnce, Places, Accesses, Begin, Begins, Tune, Refused, Filter,
       StartTsSend, StopStream, Query, End
  <2> QED
    BY <1>4, <2>1 DEF Begin, Begins, Tune, Refused, Filter, StartTsSend, StopStream, Query, End,
       PlainTunes, TuneOnly, FInv, Drained, Places
<1>5. CASE CbStep
  <2>1. ctl \notin Ready /\ ~(ctl = "on" /\ access = "done")
    BY <1>5 DEF FInv, Drained, AllGivenBack, NoCallback, CbStep, CbAborted, CbResubmit, CbRefused,
       CbBranch, CbLoop, CbSent, CbLoopEnds, CbSendFails, CbWrite, CbFull, CbStop, CbCancel,
       CbParseOk, CbClose, CbFlags, Callback, Return
  <2>2. CASE CbAborted
    BY <2>1, <2>2 DEF CbAborted, Return, NoCallback, FInv, Drained, Places
  <2>3. CASE CbResubmit
    <3>1. /\ cb.at = "resubmit" /\ UNCHANGED <<ctl, access, streaming, img_transfer, completed>>
          /\ img_transfer \in Transfers /\ urbs' = [urbs EXCEPT ![img_transfer] = "flying"]
      BY <2>3 DEF CbResubmit, Callback, Submittable, Submit, FInv, SInv, RangesOK
    <3>2. \A t \in Transfers : urbs'[t] \in {"flying", urbs[t]}
      BY <3>1 DEF FInv, SInv, RangesOK
    <3>3. \A m \in Places : completed[m] # Register => completed[m] \in Transfers
      BY DEF FInv, SInv, RangesOK, Places
    <3> QED
      BY <2>1, <3>1, <3>2, <3>3 DEF FInv, Drained, Places
  <2>4. CASE CbCancel
    <3>1. /\ cb.at \in {"clearcancel", "fullcancel"} /\ UNCHANGED <<ctl, access, streaming, img_transfer>>
          /\ CancelTransfer
      BY <2>4 DEF CbCancel, Callback
    <3>2. /\ \A m \in Places : m \in Places' /\ completed'[m] = completed[m]
          /\ \A m \in Places' : m \in Places \/ (completed'[m] \in Transfers /\ urbs'[completed'[m]] = "cancelled")
          /\ \A t \in Transfers : urbs'[t] \in {"cancelled", urbs[t]}
      BY <3>1, CancelEffect DEF FInv, SInv
    <3>3. \A m \in Places : completed[m] # Register => completed[m] \in Transfers
      BY DEF FInv, SInv, RangesOK, Places
    <3>4. Register \notin Transfers
      BY TransferAssumption DEF Register
    <3> QED
      BY <2>1, <3>1, <3>2, <3>3, <3>4 DEF FInv, Drained
  <2>5. CASE CbRefused \/ CbLoopEnds \/ CbWrite \/ CbParseOk \/ CbFlags
    BY <2>1, <2>5 DEF CbRefused, CbLoopEnds, CbWrite, CbParseOk, CbFlags, Return, NoCallback, FInv,
       Drained, Places
  <2>6. CASE CbBranch \/ CbLoop \/ CbSent \/ CbSendFails \/ CbFull \/ CbStop \/ CbClose
    <3>1. cb.at \notin {"none", "aborted"} /\ UNCHANGED <<ctl, access, streaming, img_transfer, urbs, completed>>
      BY <2>6 DEF CbBranch, CbLoop, CbSent, CbSendFails, CbFull, CbStop, CbClose, Callback
    <3> QED
      BY <2>1, <3>1 DEF FInv, Drained, Places
  <2> QED
    BY <1>5, <2>2, <2>3, <2>4, <2>5, <2>6 DEF CbStep
<1>6. ASSUME NEW e \in EventThreads, EventStep(e) PROVE Drained'
  BY <1>1, <1>6, ReapDrained DEF EventStep, EventMoves, EventOpen, EventLoop, EventNothing, EventReap
<1>7. ASSUME NEW t \in Transfers, Answered(t) PROVE Drained'
  <2>1. /\ urbs[t] = "flying" /\ completed' = Append(completed, t)
        /\ UNCHANGED <<ctl, access, streaming, img_transfer, cb>>
        /\ \/ streaming /\ urbs' = [urbs EXCEPT ![t] = "done"]
           \/ ~streaming /\ urbs' = [urbs EXCEPT ![t] = "failed"]
    BY <1>7 DEF Answered, PlainTunes
  <2>2. ctl \notin Ready /\ ~(ctl = "on" /\ access # "none")
    BY <2>1 DEF FInv, Drained, AllGivenBack
  <2>3. /\ \A m \in Places : completed'[m] = completed[m]
        /\ \A m \in Places' : m \in Places \/ completed'[m] = t
        /\ \A u \in Transfers \ {t} : urbs'[u] = urbs[u]
        /\ streaming \/ urbs'[t] = "failed"
    BY <2>1 DEF FInv, SInv, RangesOK, Places
  <2>4. \A m \in Places : completed[m] # Register => completed[m] \in Transfers \ {t}
    BY <2>1 DEF FInv, SInv, RangesOK, Places, Queued
  <2>5. ctl = "off" => (streaming => access = "none")
    BY DEF FInv, Drained
  <2>6. access = "none" => \A m \in Places : completed[m] # Register
    BY DEF FInv, SInv, AskedOnce, Places
  <2>7. t # Register
    BY TransferAssumption DEF Register
  <2>8. ASSUME ctl = "off", NEW m \in Places', NEW n \in Places', completed'[n] = Register,
               completed'[m] # Register, urbs'[completed'[m]] = "done"
        PROVE  m < n
    <3>1. n \in Places /\ completed[n] = Register
      BY <2>3, <2>7, <2>8
    <3>2. m \in Places
      BY <2>3, <2>5, <2>6, <2>8, <3>1
    <3>3. completed[m] # Register /\ urbs[completed[m]] = "done"
      BY <2>3, <2>4, <2>8, <3>2
    <3> QED
      BY <2>8, <3>1, <3>2, <3>3 DEF FInv, Drained
  <2>9. ~streaming => \A u \in Transfers : urbs[u] # "done" => urbs'[u] # "done"
    BY <2>3
  <2> QED
    BY <1>2, <2>1, <2>2, <2>5, <2>8, <2>9 DEF FInv, Drained
<1>8. CASE UNCHANGED vars
  BY <1>1, <1>8 DEF vars
<1> QED
  BY <1>3, <1>4, <1>5, <1>6, <1>7, <1>8 DEF Run

\* Of a running stream only its own transfer can be given back, with data.
LEMMA ReapFeeding ==
  ASSUME FInv, NEW th \in EventThreads \cup {"ack"}, Reap(th)
  PROVE  Feeding'
<1> USE DEF FInv, SInv, RangesOK
<1>1. UNCHANGED <<ctl, bTsThread, streaming, img_transfer>> /\ cb = NoCallback /\ completed # <<>>
  BY DEF Reap, stopped, request
<1>2. \A e \in EventThreads : event'[e] \in {event[e], "loop"}
  BY DEF Reap
<1>3. CASE Head(completed) = Register
  BY <1>1, <1>2, <1>3 DEF Reap, Feeding
<1>4. CASE Head(completed) # Register
  <2> DEFINE t == Head(completed)
  <2>1. /\ t \in Transfers /\ urbs[t] \in {"done", "failed", "cancelled"}
        /\ urbs' = [urbs EXCEPT ![t] = "none"]
        /\ cb'.at = IF urbs[t] = "done" THEN "resubmit" ELSE "aborted"
    <3>1. t \in Transfers /\ 1 \in Places /\ t = completed[1]
      BY <1>1, <1>4 DEF Places
    <3> QED
      BY <1>4, <3>1 DEF Reap, Queued
  <2>2. ctl \notin {"alloc", "submit"}
    BY <1>1 DEF Drained, Ready, AllGivenBack
  <2>3. bTsThread /\ streaming => t = img_transfer /\ urbs[t] = "done"
    BY <2>1, <2>2 DEF Feeding
  <2> QED
    BY <1>1, <1>2, <2>1, <2>2, <2>3 DEF Feeding
<1> QED
  BY <1>3, <1>4

LEMMA FeedingKept ==
  ASSUME PlainTunes, FInv, [Run]_vars
  PROVE  Feeding'
<1> USE DEF FInv, SInv, RangesOK, Stopped
<1>1. CASE UNCHANGED <<ctl, bTsThread, streaming, img_transfer, urbs, event, cb>>
  BY <1>1 DEF Feeding
<1>2. CASE Serve
  <2> USE DEF Goes
  <2>1. CASE Flags \/ Cancel
    BY <2>1 DEF Flags, StopFlags, Cancel, Feeding
  <2>2. CASE Ask
    BY <2>2 DEF Ask, Feeding, Accesses
  <2>3. CASE AskReap
    BY <2>3, ReapFeeding DEF AskReap
  <2>4. CASE Start \/ Bind \/ AnswerSent \/ AnswerFails \/ Accept \/ SocketFails \/ TcpFlag \/ SpawnNot
    BY <2>4 DEF Start, Bind, AnswerSent, AnswerFails, Accept, SocketFails, TcpFlag, Socket, SpawnNot,
       Feeding, Connecting
  <2>5. CASE Spawn
    <3>1. PICK e \in EventThreads : event' = [event EXCEPT ![e] = "created"]
      BY <2>5 DEF Spawn
    <3> QED
      BY <2>5, <3>1 DEF Spawn, Feeding
  <2>6. CASE Alloc
    BY <2>6 DEF Alloc, Feeding
  <2>7. CASE InitCapture
    <3>1. AllGivenBack /\ img_transfer \in Transfers
      BY <2>7 DEF InitCapture, Drained, Ready
    <3>2. urbs' = [urbs EXCEPT ![img_transfer] = "flying"]
      BY <2>7, <3>1, TransferAssumption DEF InitCapture, Submittable, Submit, AllGivenBack
    <3> QED
      BY <2>7, <3>1, <3>2, TransferAssumption DEF InitCapture, Feeding, AllGivenBack, NoCallback
  <2>8. CASE SetFlag \/ ClearStop \/ Off \/ Disable \/ On \/ Queried
    BY <2>8 DEF SetFlag, ClearStop, Off, Disable, On, Queried, Got, Feeding
  <2>9. ASSUME NEW locks \in BOOLEAN, Lock(locks) PROVE Feeding'
    BY <2>9 DEF Lock, Feeding
  <2>10. CASE Control \/ Filtered \/ Wait \/ GiveUp \/ Parse \/ ProgramFiltered \/ Test
    BY <2>10 DEF Control, Filtered, Wait, GiveUp, Parse, ProgramFiltered, Test, NoProgram
  <2>11. CASE Close \/ Reset
    BY <2>11 DEF Close, Reset, Feeding
  <2> QED
    BY <1>2, <2>1, <2>2, <2>3, <2>4, <2>5, <2>6, <2>7, <2>8, <2>9, <2>10, <2>11 DEF Serve
<1>3. CASE Begin
  BY <1>3 DEF Begin, Begins, Tune, Refused, Filter, StartTsSend, StopStream, Query, End, Feeding
<1>4. CASE CbStep
  <2>1. ctl \notin {"alloc", "submit"}
    BY <1>4 DEF Drained, Ready, AllGivenBack, NoCallback, CbStep, CbAborted, CbResubmit, CbRefused,
       CbBranch, CbLoop, CbSent, CbLoopEnds, CbSendFails, CbWrite, CbFull, CbStop, CbCancel,
       CbParseOk, CbClose, CbFlags, Callback, Return
  <2>2. UNCHANGED <<ctl, streaming>>
    BY <1>4 DEF CbStep, CbAborted, CbResubmit, CbRefused, CbBranch, CbLoop, CbSent, CbLoopEnds,
       CbSendFails, CbWrite, CbFull, CbStop, CbCancel, CbParseOk, CbClose, CbFlags
  <2>3. \A e \in EventThreads : event[e] # "none" => event'[e] # "none"
    BY <1>4 DEF CbStep, CbAborted, CbResubmit, CbRefused, CbBranch, CbLoop, CbSent, CbLoopEnds,
       CbSendFails, CbWrite, CbFull, CbStop, CbCancel, CbParseOk, CbClose, CbFlags, Return
  <2>4. CASE CbAborted
    BY <2>1, <2>2, <2>3, <2>4 DEF CbAborted, Return, Feeding
  <2>5. CASE CbResubmit
    <3>1. img_transfer \in Transfers /\ urbs' = [urbs EXCEPT ![img_transfer] = "flying"]
      BY <2>5 DEF CbResubmit, Submittable, Submit
    <3> QED
      BY <2>1, <2>2, <2>3, <2>5, <3>1 DEF CbResubmit, Callback, Feeding
  <2>6. CASE CbRefused
    BY <2>1, <2>2, <2>3, <2>6 DEF CbRefused, Submittable, Return, NoCallback, Feeding
  <2>7. CASE CbStop
    BY <2>7 DEF CbStop, StopFlags, Feeding
  <2>8. CASE CbCancel
    BY <2>8 DEF CbCancel, Callback, Feeding
  <2>9. CASE CbBranch \/ CbLoop \/ CbSent \/ CbSendFails \/ CbFull \/ CbClose
    <3>1. /\ cb.at # "resubmit" /\ cb'.at \notin {"resubmit", "aborted"} /\ (bTsThread' => bTsThread)
          /\ UNCHANGED <<img_transfer, urbs>>
      BY <2>9 DEF CbBranch, CbLoop, CbSent, CbSendFails, CbFull, CbClose, Callback
    <3> QED
      BY <2>1, <2>2, <2>3, <3>1 DEF Feeding
  <2>10. CASE CbLoopEnds \/ CbWrite \/ CbParseOk \/ CbFlags
    <3>1. /\ cb.at # "resubmit" /\ cb' = NoCallback
          /\ UNCHANGED <<bTsThread, img_transfer, urbs>>
      BY <2>10 DEF CbLoopEnds, CbWrite, CbParseOk, CbFlags, Return
    <3> QED
      BY <2>1, <2>2, <2>3, <3>1 DEF Feeding, NoCallback
  <2> QED
    BY <1>4, <2>4, <2>5, <2>6, <2>7, <2>8, <2>9, <2>10 DEF CbStep
<1>5. ASSUME NEW e \in EventThreads, EventStep(e) PROVE Feeding'
  <2>1. CASE EventReap(e)
    BY <2>1, ReapFeeding DEF EventReap
  <2>2. CASE EventOpen(e) \/ EventLoop(e) \/ EventNothing(e)
    <3>1. /\ UNCHANGED <<ctl, bTsThread, streaming, img_transfer, urbs, cb>>
          /\ \A d \in EventThreads : event[d] # "none" /\ bTsThread => event'[d] # "none"
      BY <2>2 DEF EventOpen, EventLoop, EventNothing, EventMoves
    <3> QED
      BY <3>1 DEF Feeding
  <2> QED
    BY <1>5, <2>1, <2>2 DEF EventStep
<1>6. ASSUME NEW t \in Transfers, Answered(t) PROVE Feeding'
  <2>1. /\ urbs[t] = "flying"
        /\ UNCHANGED <<ctl, bTsThread, streaming, img_transfer, event, cb>>
        /\ streaming => urbs' = [urbs EXCEPT ![t] = "done"]
    BY <1>6 DEF Answered, PlainTunes
  <2> QED
    BY <2>1 DEF Feeding
<1>7. CASE UNCHANGED vars
  BY <1>1, <1>7 DEF vars, request, stopped, libusb, device, handlers
<1> QED
  BY <1>2, <1>3, <1>4, <1>5, <1>6, <1>7 DEF Run

\* A stream that is on is fed, however many transfers, threads and blocks
\* there are, and whichever callbacks and threads of earlier streams come
\* late, as long as clients tune without a program, stop and query: the
\* accesses that halt and release the endpoint drain libusb's queue first.
THEOREM StreamStaysFed == ASSUME PlainTunes PROVE Spec => []StreamIsFed
<1>1. Init => Queued /\ EndpointOn /\ NoProgram /\ Stopped /\ Drained /\ Feeding
  <2> SUFFICES ASSUME Init PROVE Queued /\ EndpointOn /\ NoProgram /\ Stopped /\ Drained /\ Feeding
    OBVIOUS
  <2>1. Queued
    BY DEF Init, Queued, Places
  <2> QED
    BY <2>1 DEF Init, EndpointOn, NoProgram, Stopped, Drained, Feeding, Starting, Connecting, Ready,
       NoCallback, Accesses
<1>2. SInv /\ SInv' /\ Queued /\ EndpointOn /\ NoProgram /\ Stopped /\ Drained /\ Feeding /\ [Run]_vars
        => (Queued /\ EndpointOn /\ NoProgram /\ Stopped /\ Drained /\ Feeding)'
  BY QueuedKept, EndpointKept, NoProgramKept, StoppedKept, DrainedKept, FeedingKept DEF FInv, SInv, PlainTunes
<1>3. Init' => (Queued /\ EndpointOn /\ NoProgram /\ Stopped /\ Drained /\ Feeding)'
  BY <1>1, PTL
<1>4. SInv /\ SInv' /\ Queued /\ EndpointOn /\ NoProgram /\ Stopped /\ Drained /\ Feeding /\ [Next]_vars
        => (Queued /\ EndpointOn /\ NoProgram /\ Stopped /\ Drained /\ Feeding)'
  BY <1>2, <1>3, RunOrExit
<1>5. Feeding => StreamIsFed
  BY DEF Feeding, StreamIsFed, Quiet, NoCallback
<1> QED
  BY <1>1, <1>4, <1>5, SocketsKnown, PTL DEF Spec
=============================================================================
