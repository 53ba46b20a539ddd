-------------------------- MODULE TsStreamProgress --------------------------
(***************************************************************************)
(* Why a request of TsStream comes to its end, as far as it can be said    *)
(* without fairness: how much it has left, which each step of the          *)
(* communication thread reduces and no other thread increases, and who can *)
(* take a step when the communication thread cannot.                       *)
(***************************************************************************)
EXTENDS TsStreamProofs

USE DEF request, stopped, stream, libusb, device, handlers, Usb, Others

---------------------------------------------------------------------------
(* What is left of a request.                                              *)

\* StartTsThread and setting PTHREAD_FLAG after it.
StartLeft ==
  CASE ctl = "flag"    -> 1
    [] ctl = "submit"  -> 2
    [] ctl = "alloc"   -> 3
    [] ctl = "spawn"   -> 4
    [] ctl = "tcpflag" -> 5
    [] ctl = "accept"  -> 6
    [] ctl = "answer"  -> 7
    [] ctl = "bind"    -> 8
    [] OTHER           -> 9

\* A stream that is stopped only, or the bridge put on again only.
AbandonLeft == IF ctl = "flags" THEN 2 ELSE 1

StopLeft ==
  CASE ctl = "close"  -> 1
    [] ctl = "cancel" -> 2
    [] ctl = "flags"  -> 3
    [] ctl = "off"    -> 4
    [] OTHER          -> 5

EndLeft ==
  CASE ctl = "reset"  -> 1
    [] ctl = "close"  -> 2
    [] ctl = "cancel" -> 3
    [] OTHER          -> 4

\* A filtered program's start may be abandoned at its end.
FilterLeft ==
  CASE ctl \in Starting -> 2 + StartLeft
    [] ctl = "filter"   -> 12
    [] ctl = "control"  -> 13
    [] ctl = "cancel"   -> 14
    [] OTHER            -> 15

\* A round of filterTsStreamAndSend, with the rounds after it.
RoundLeft ==
  LET rounds == 12 + 5 * (Tries - tries)
  IN CASE ctl = "wait"    -> rounds
       [] ctl = "test"    -> rounds + 1
       [] ctl = "filter"  -> rounds + 2
       [] ctl = "control" -> rounds + 3
       [] OTHER           -> rounds + 4

TuneLeft ==
  CASE ctl \in {"wait", "test", "filter", "control", "parse"} -> RoundLeft
    [] ctl \in Starting -> 12 + 5 * Tries + StartLeft
    [] ctl = "on"       -> 22 + 5 * Tries
    [] ctl = "disable"  -> 23 + 5 * Tries
    [] ctl = "lock"     -> 24 + 5 * Tries
    [] ctl = "off"      -> 25 + 5 * Tries
    [] ctl = "cancel"   -> 26 + 5 * Tries
    [] OTHER            -> 27 + 5 * Tries

PlacesLeft ==
  CASE job = "none" -> 0
    [] job \in {"abandon", "query"} -> AbandonLeft
    [] job = "stop" -> StopLeft
    [] job = "end"  -> EndLeft
    [] job = "tune" -> TuneLeft
    [] OTHER        -> FilterLeft

\* A register access is three steps: it is asked for, reaped and made use of.
AccessLeft ==
  CASE access = "none"  -> 2
    [] access = "asked" -> 1
    [] OTHER            -> 0

StepsLeft == 3 * PlacesLeft + AccessLeft

\* How many completions are reaped until that of the register access is.
Ahead ==
  IF access = "asked" THEN CHOOSE m \in 1..Len(completed) : completed[m] = Register
                      ELSE 0

LEMMA LeftInNat ==
  ASSUME RangesOK
  PROVE  /\ PlacesLeft \in 0..(27 + 5 * Tries)
         /\ AccessLeft \in 0..2
         /\ StepsLeft \in 0..(83 + 15 * Tries)
<1> DEFINE bound == 27 + 5 * Tries
<1>0. Tries \in Nat /\ tries \in Nat /\ tries <= Tries
  BY BoundAssumption DEF RangesOK
<1>1. StartLeft \in 1..9
  BY DEF StartLeft
<1>2. RoundLeft \in 0..(16 + 5 * Tries)
  BY <1>0 DEF RoundLeft
<1>3. TuneLeft \in 0..bound
  BY <1>0, <1>1, <1>2 DEF TuneLeft
<1>4. AbandonLeft \in 0..bound /\ StopLeft \in 0..bound /\ EndLeft \in 0..bound
  BY <1>0 DEF AbandonLeft, StopLeft, EndLeft
<1>5. FilterLeft \in 0..bound /\ 0 \in 0..bound
  BY <1>0, <1>1 DEF FilterLeft
<1>6. PlacesLeft \in 0..bound
  <2> HIDE DEF bound
  <2> QED
    BY <1>3, <1>4, <1>5 DEF PlacesLeft
<1>7. AccessLeft \in 0..2
  BY DEF AccessLeft
<1> QED
  BY <1>0, <1>6, <1>7 DEF StepsLeft

Counted == PlacesLeft \in Nat /\ AccessLeft \in 0..2

LEMMA AlwaysCounted == RangesOK => Counted
<1>1. Tries \in Nat
  BY BoundAssumption
<1> QED
  BY <1>1, LeftInNat DEF Counted

LEMMA CountedNext == RangesOK' => Counted'
BY AlwaysCounted, PTL

LEMMA FewerSteps ==
  ASSUME NEW p \in Nat, NEW q \in Nat, NEW a \in 0..2, NEW b \in 0..2,
         q < p \/ (q = p /\ b < a)
  PROVE  3 * q + b < 3 * p + a
OBVIOUS

\* A step that leaves a place.
LEMMA PlaceLeft ==
  ASSUME RangesOK, RangesOK', PlacesLeft' < PlacesLeft
  PROVE  StepsLeft' < StepsLeft
<1>1. PlacesLeft \in Nat /\ AccessLeft \in 0..2
  BY AlwaysCounted DEF Counted
<1>2. PlacesLeft' \in Nat /\ AccessLeft' \in 0..2
  BY CountedNext DEF Counted
<1>3. StepsLeft' = 3 * PlacesLeft' + AccessLeft'
  BY DEF StepsLeft
<1> QED
  BY <1>1, <1>2, <1>3, FewerSteps DEF StepsLeft

LEMMA ServeLeavesPlace ==
  ASSUME RangesOK, RangesOK', Coupled, Coupled', Serve, ~Ask, ~AskReap
  PROVE  PlacesLeft' < PlacesLeft
<1>0. Tries \in Nat /\ tries \in Nat /\ tries <= Tries
  BY BoundAssumption DEF RangesOK
<1> USE DEF Goes, Coupled, Starting, Connecting, PlacesLeft
<1>1. CASE Flags \/ Cancel
  BY <1>0, <1>1 DEF Flags, Cancel, AfterStop, AbandonLeft, StopLeft, EndLeft, FilterLeft, TuneLeft
<1>2. CASE Start \/ Spawn \/ SpawnNot \/ Alloc \/ InitCapture
  BY <1>0, <1>2 DEF Start, Spawn, SpawnNot, Alloc, InitCapture, FilterLeft, TuneLeft, StartLeft
<1>3. CASE Bind \/ AnswerSent \/ AnswerFails \/ Accept \/ SocketFails \/ TcpFlag
  BY <1>0, <1>3 DEF Bind, AnswerSent, AnswerFails, Accept, SocketFails, TcpFlag, Socket,
     FilterLeft, TuneLeft, StartLeft
<1>4. CASE SetFlag
  BY <1>0, <1>4 DEF SetFlag, AbandonLeft, FilterLeft, TuneLeft, RoundLeft, StartLeft
<1>5. CASE ClearStop \/ Off \/ Disable \/ On \/ Queried
  BY <1>0, <1>5 DEF ClearStop, Off, Disable, On, Queried, AbandonLeft, StopLeft, TuneLeft, StartLeft
<1>6. CASE Control \/ Filtered \/ ProgramFiltered
  BY <1>0, <1>6 DEF Control, Filtered, ProgramFiltered, Got, FilterLeft, TuneLeft, RoundLeft, StartLeft
<1>7. ASSUME NEW locks \in BOOLEAN, Lock(locks) PROVE PlacesLeft' < PlacesLeft
  BY <1>0, <1>7 DEF Lock, TuneLeft
<1>8. CASE Wait \/ GiveUp \/ Parse \/ Test
  BY <1>0, <1>8 DEF Wait, GiveUp, Parse, Test, AbandonLeft, TuneLeft, RoundLeft, FilterLeft, StartLeft
<1>9. CASE Close \/ Reset
  BY <1>0, <1>9 DEF Close, Reset, StopLeft, EndLeft
<1> QED
  BY <1>1, <1>2, <1>3, <1>4, <1>5, <1>6, <1>7, <1>8, <1>9 DEF Serve

---------------------------------------------------------------------------
(* The place of the register access in the queue of completions.           *)

AskedWaits == access = "asked" => \E m \in 1..Len(completed) : completed[m] = Register

\* With AskedOnce, the completion that is waited for is the only one.
LEMMA AheadIs ==
  ASSUME AskedOnce, access = "asked", NEW m \in 1..Len(completed), completed[m] = Register
  PROVE  Ahead = m
<1>1. \A n \in 1..Len(completed) : completed[n] = Register => n = m
  BY DEF AskedOnce
<1> QED
  BY <1>1 DEF Ahead

LEMMA AheadNow == AskedOnce /\ access = "asked" =>
                    \A m \in 1..Len(completed) : completed[m] = Register => Ahead = m
BY AheadIs

LEMMA AheadNext == (AskedOnce /\ access = "asked" =>
                     \A m \in 1..Len(completed) : completed[m] = Register => Ahead = m)'
BY AheadNow, PTL

\* A completion that joins the queue does so behind the access's.
LEMMA JoinsBehind ==
  ASSUME RangesOK, AskedOnce, AskedOnce', AskedWaits, UNCHANGED access,
         completed' = completed \/ \E t \in Transfers : completed' = Append(completed, t)
  PROVE  AskedWaits' /\ Ahead' = Ahead
<1>1. CASE access = "asked"
  <2>1. PICK m \in 1..Len(completed) : completed[m] = Register
    BY <1>1 DEF AskedWaits
  <2>2. m \in 1..Len(completed') /\ completed'[m] = Register
    BY <2>1 DEF RangesOK
  <2>3. Ahead = m /\ Ahead' = m
    BY <1>1, <2>1, <2>2, AheadNow, AheadNext
  <2> QED
    BY <2>2, <2>3 DEF AskedWaits
<1>2. CASE access # "asked"
  BY <1>2 DEF AskedWaits, Ahead
<1> QED
  BY <1>1, <1>2

LEMMA CancelJoins ==
  ASSUME RangesOK, CancelTransfer
  PROVE  completed' = completed \/ \E t \in Transfers : completed' = Append(completed, t)
BY DEF CancelTransfer, RangesOK

\* Whoever reaps brings the access nearer, or reaps it.
LEMMA ReapsNearer ==
  ASSUME RangesOK, AskedOnce, AskedOnce', AskedWaits, NEW th, Reap(th), access = "asked"
  PROVE  /\ AskedWaits'
         /\ access' = "done" \/ (access' = "asked" /\ Ahead' < Ahead)
<1>1. completed \in Seq(Transfers \cup {Register}) /\ completed # <<>>
  BY DEF RangesOK, Reap
<1>2. /\ Len(completed') = Len(completed) - 1
      /\ \A m \in 1..Len(completed') : completed'[m] = completed[m + 1]
  BY <1>1 DEF Reap
<1>3. Head(completed) = completed[1] /\ Len(completed) \in Nat \ {0}
  BY <1>1
<1>4. CASE Head(completed) = Register
  BY <1>4 DEF Reap, AskedWaits
<1>5. CASE Head(completed) # Register
  <2>1. access' = "asked"
    BY <1>5 DEF Reap
  <2>2. PICK m \in 1..Len(completed) : completed[m] = Register
    BY DEF AskedWaits
  <2>3. m # 1
    BY <1>3, <1>5, <2>2
  <2>4. m - 1 \in 1..Len(completed') /\ completed'[m - 1] = Register
    BY <1>2, <1>3, <2>2, <2>3
  <2>5. Ahead = m /\ Ahead' = m - 1
    BY <2>1, <2>2, <2>4, AheadNow, AheadNext
  <2> QED
    BY <2>1, <2>4, <2>5 DEF AskedWaits
<1> QED
  BY <1>4, <1>5

\* Without an access there is nothing of one to reap.
LEMMA ReapsOther ==
  ASSUME RangesOK, AskedOnce, NEW th, Reap(th), access # "asked"
  PROVE  UNCHANGED access
<1>1. completed \in Seq(Transfers \cup {Register}) /\ completed # <<>>
  BY DEF RangesOK, Reap
<1>2. Head(completed) = completed[1] /\ 1 \in 1..Len(completed)
  BY <1>1
<1>3. Head(completed) # Register
  BY <1>2 DEF AskedOnce
<1> QED
  BY <1>3 DEF Reap

---------------------------------------------------------------------------
(* Every step of a request.                                                *)

\* A step of the communication thread leaves less, or brings the completion it
\* waits for nearer; a step of another thread does not take that away.
Advances ==
  \/ StepsLeft' < StepsLeft
  \/ /\ StepsLeft' = StepsLeft
     /\ Ahead' <= Ahead
     /\ Serve => Ahead' < Ahead

AInv == SInv /\ AskedWaits

LEMMA ServesAccess ==
  ASSUME RangesOK, AskedOnce, Serve, ~Ask, ~AskReap
  PROVE  access' = "none"
<1>0. access # "none" => ctl \in Accesses
  BY DEF AskedOnce
<1> USE DEF Goes, Accesses
<1>1. CASE Flags \/ Cancel \/ Start \/ Spawn \/ SpawnNot \/ Alloc \/ InitCapture
  BY <1>0, <1>1 DEF Flags, Cancel, Start, Spawn, SpawnNot, Alloc, InitCapture
<1>2. CASE Bind \/ AnswerSent \/ AnswerFails \/ Accept \/ SocketFails \/ TcpFlag
  BY <1>0, <1>2 DEF Bind, AnswerSent, AnswerFails, Accept, SocketFails, TcpFlag, Socket
<1>3. CASE Off \/ Disable \/ On \/ Queried \/ Control \/ Filtered \/ ProgramFiltered
  BY <1>3 DEF Off, Disable, On, Queried, Control, Filtered, ProgramFiltered, Got
<1>4. ASSUME NEW locks \in BOOLEAN, Lock(locks) PROVE access' = "none"
  BY <1>0, <1>4 DEF Lock
<1>5. CASE SetFlag \/ ClearStop \/ Wait \/ GiveUp \/ Parse \/ Test \/ Close \/ Reset
  BY <1>0, <1>5 DEF SetFlag, ClearStop, Wait, GiveUp, Parse, Test, Close, Reset
<1> QED
  BY <1>1, <1>2, <1>3, <1>4, <1>5 DEF Serve

LEMMA SamePlace ==
  ASSUME UNCHANGED <<ctl, job, tries>>
  PROVE  PlacesLeft' = PlacesLeft
BY DEF PlacesLeft, StartLeft, AbandonLeft, StopLeft, EndLeft, FilterLeft, RoundLeft, TuneLeft

LEMMA SameSteps ==
  ASSUME UNCHANGED <<ctl, job, tries, access>>
  PROVE  StepsLeft' = StepsLeft
BY SamePlace DEF StepsLeft, AccessLeft

\* Asking and reaping leave the place, and one part of the access less.
LEMMA LessAccess ==
  ASSUME RangesOK, UNCHANGED <<ctl, job, tries>>,
         (access = "none" /\ access' = "asked") \/ (access = "asked" /\ access' = "done")
  PROVE  StepsLeft' < StepsLeft
<1>1. PlacesLeft' = PlacesLeft /\ PlacesLeft \in Nat
  BY SamePlace, AlwaysCounted DEF Counted
<1>2. AccessLeft \in 0..2 /\ AccessLeft' \in 0..2 /\ AccessLeft' < AccessLeft
  BY DEF AccessLeft
<1>3. StepsLeft' = 3 * PlacesLeft' + AccessLeft'
  BY DEF StepsLeft
<1> QED
  BY <1>1, <1>2, <1>3, FewerSteps DEF StepsLeft

LEMMA AheadInNat ==
  ASSUME RangesOK, AskedOnce, AskedWaits
  PROVE  Ahead \in Nat
<1>1. CASE access = "asked"
  BY <1>1, AheadNow DEF AskedWaits
<1>2. CASE access # "asked"
  BY <1>2 DEF Ahead
<1> QED
  BY <1>1, <1>2

LEMMA ServeAdvances ==
  ASSUME SInv, SInv', AskedWaits, Serve
  PROVE  AskedWaits' /\ Advances
<1> USE DEF SInv
<1>1. CASE Ask
  <2>1. /\ UNCHANGED <<ctl, job, tries>> /\ access = "none" /\ access' = "asked"
        /\ completed' = Append(completed, Register)
    BY <1>1 DEF Ask
  <2>2. Len(completed) + 1 \in 1..Len(completed') /\ completed'[Len(completed) + 1] = Register
    BY <2>1 DEF RangesOK
  <2> QED
    BY <2>1, <2>2, LessAccess DEF AskedWaits, Advances
<1>2. CASE AskReap
  <2>1. UNCHANGED <<ctl, job, tries>> /\ access = "asked" /\ Reap("ack")
    BY <1>2 DEF AskReap, Reap
  <2>2. AskedWaits' /\ (access' = "done" \/ (access' = "asked" /\ Ahead' < Ahead))
    BY <2>1, ReapsNearer
  <2>3. CASE access' = "done"
    BY <2>1, <2>2, <2>3, LessAccess DEF Advances
  <2>4. CASE access' = "asked" /\ Ahead' < Ahead
    <3>1. StepsLeft' = StepsLeft
      BY <2>1, <2>4, SameSteps
    <3>2. Ahead \in Nat /\ Ahead' \in Nat
      BY <2>1, <2>2, <2>4, AheadNow, AheadNext DEF AskedWaits
    <3> QED
      BY <2>2, <2>4, <3>1, <3>2 DEF Advances
  <2> QED
    BY <2>2, <2>3, <2>4
<1>3. CASE ~Ask /\ ~AskReap
  <2>1. PlacesLeft' < PlacesLeft
    BY <1>3, ServeLeavesPlace
  <2>2. access' = "none"
    BY <1>3, ServesAccess
  <2> QED
    BY <2>1, <2>2, PlaceLeft DEF Advances, AskedWaits
<1> QED
  BY <1>1, <1>2, <1>3

LEMMA OthersAdvance ==
  ASSUME SInv, SInv', AskedWaits, [Run]_vars, ~Serve
  PROVE  AskedWaits' /\ (ctl # "idle" => Advances)
<1> USE DEF SInv
<1>0. Ahead \in Nat
  BY AheadInNat
<1>1. ASSUME UNCHANGED <<ctl, job, tries, access>>,
             completed' = completed \/ \E t \in Transfers : completed' = Append(completed, t)
      PROVE  AskedWaits' /\ Advances
  <2>1. AskedWaits' /\ Ahead' = Ahead
    BY <1>1, JoinsBehind
  <2>2. StepsLeft' = StepsLeft
    BY <1>1, SameSteps
  <2> QED
    BY <1>0, <2>1, <2>2 DEF Advances
<1>2. CASE Begin
  <2>1. ctl = "idle" /\ UNCHANGED access
    BY <1>2 DEF Begin, Begins, Tune, Refused, Filter, StartTsSend, StopStream, Query, End
  <2>2. access = "none"
    BY <2>1 DEF AskedOnce, Accesses
  <2> QED
    BY <2>1, <2>2 DEF AskedWaits
<1>3. CASE CbStep
  <2>1. CASE CbCancel
    BY <1>1, <2>1, CancelJoins DEF CbCancel
  <2>2. CASE ~CbCancel
    BY <1>1, <1>3, <2>2 DEF CbStep, CbAborted, CbResubmit, CbRefused, CbBranch, CbLoop, CbSent,
       CbLoopEnds, CbSendFails, CbWrite, CbFull, CbStop, CbParseOk, CbClose, CbFlags
  <2> QED
    BY <2>1, <2>2
<1>4. ASSUME NEW e \in EventThreads, EventStep(e) PROVE AskedWaits' /\ Advances
  <2>1. CASE EventReap(e)
    <3>1. UNCHANGED <<ctl, job, tries>> /\ Reap(e)
      BY <2>1 DEF EventReap, Reap
    <3>2. CASE access = "asked"
      <4>1. AskedWaits' /\ (access' = "done" \/ (access' = "asked" /\ Ahead' < Ahead))
        BY <3>1, <3>2, ReapsNearer
      <4>2. CASE access' = "done"
        BY <3>1, <3>2, <4>1, <4>2, LessAccess DEF Advances
      <4>3. CASE access' = "asked" /\ Ahead' < Ahead
        <5>1. StepsLeft' = StepsLeft
          BY <3>1, <3>2, <4>3, SameSteps
        <5>2. Ahead' \in Nat
          BY <4>1, <4>3, AheadNext DEF AskedWaits
        <5> QED
          BY <1>0, <4>1, <4>3, <5>1, <5>2 DEF Advances
      <4> QED
        BY <4>1, <4>2, <4>3
    <3>3. CASE access # "asked"
      <4>1. UNCHANGED access
        BY <3>1, <3>3, ReapsOther
      <4>2. Ahead = 0 /\ Ahead' = 0 /\ AskedWaits'
        BY <3>3, <4>1 DEF Ahead, AskedWaits
      <4>3. StepsLeft' = StepsLeft
        BY <3>1, <4>1, SameSteps
      <4> QED
        BY <4>2, <4>3 DEF Advances
    <3> QED
      BY <3>2, <3>3
  <2> QED
    BY <1>1, <1>4, <2>1 DEF EventStep, EventMoves, EventOpen, EventLoop, EventNothing
<1>5. ASSUME NEW t \in Transfers, Answered(t) PROVE AskedWaits' /\ Advances
  BY <1>1, <1>5 DEF Answered
<1>6. CASE UNCHANGED vars
  BY <1>1, <1>6 DEF vars
<1> QED
  BY <1>2, <1>3, <1>4, <1>5, <1>6 DEF Run

\* A process that exits gives up the request it serves.
LEMMA ExitAdvances ==
  ASSUME SInv, SInv', Exit
  PROVE  AskedWaits' /\ Advances
<1>1. access' = "none" /\ job' = "none" /\ ctl = "bind" /\ Tries \in Nat
  BY BoundAssumption DEF Exit
<1>2. PlacesLeft' < PlacesLeft
  BY <1>1 DEF SInv, Coupled, Starting, Connecting, PlacesLeft, FilterLeft, TuneLeft, StartLeft
<1> QED
  BY <1>1, <1>2, PlaceLeft DEF SInv, AskedWaits, Advances

\* A request makes at most 83 + 15 * Tries steps of its own, besides the
\* completions it reaps while it waits for those of its register accesses: each
\* step leaves fewer, and no client, callback or event thread sets it back.  So
\* the rounds for a capture, the abandoned tune and the accesses that reap other
\* transfers make no loop (StartTsThread, StopTsThread, filterTsStreamAndSend and
\* their callers).
THEOREM RequestsAdvance ==
  Spec => /\ []AInv
          /\ [](StepsLeft \in 0..(83 + 15 * Tries) /\ Ahead \in Nat)
          /\ [][ctl # "idle" => Advances]_vars
<1>1. Init => AskedWaits
  BY DEF Init, AskedWaits
<1>2. AskedWaits /\ SInv /\ SInv' /\ [Next]_vars => AskedWaits' /\ [ctl # "idle" => Advances]_vars
  BY ServeAdvances, OthersAdvance, ExitAdvances DEF Next
<1>3. AskedWaits /\ SInv => StepsLeft \in 0..(83 + 15 * Tries) /\ Ahead \in Nat
  BY LeftInNat, AheadInNat DEF SInv
<1> QED
  BY <1>1, <1>2, <1>3, SocketsKnown, PTL DEF Spec, AInv

---------------------------------------------------------------------------
(* Who can take a step.                                                    *)

\* The guard of Serve \/ Exit.  (At every other place one of their actions has
\* none: Exit is what there is where Bind cannot be.)
CanServe ==
  /\ ctl \in Accesses =>
       \/ access = "none" /\ (streaming \/ \A t \in Transfers : urbs[t] # "flying")
       \/ access = "asked" /\ cb = NoCallback /\ completed # <<>>
       \/ access = "done"
  /\ ctl = "spawn" => bTsThread \/ \E e \in EventThreads : event[e] = "none"
  /\ ctl = "alloc" => Unused # {}

\* A callback that is under way is at one of its places, and each has a step that
\* nothing holds up: its sending loop may end, and libusb gives all it asks for.
CallbackUnderWay == cb.at # "none"

\* What the halted endpoint refuses.
Refusable == ~streaming /\ \E t \in Transfers : urbs[t] = "flying"

\* The bounds of the model.
BoundReached ==
  \/ ctl = "spawn" /\ ~bTsThread /\ \A e \in EventThreads : event[e] # "none"
  \/ ctl = "alloc" /\ Unused = {}

HandsOn == ctl # "idle" => CanServe \/ CallbackUnderWay \/ Refusable \/ BoundReached

LEMMA ServeGuard == Serve \/ Exit => CanServe
<1> SUFFICES ASSUME Serve \/ Exit PROVE CanServe
  OBVIOUS
<1> USE DEF CanServe, Goes, Accesses
<1>1. CASE Flags \/ Cancel \/ Start
  BY <1>1 DEF Flags, Cancel, Start
<1>2. CASE Ask \/ AskReap
  BY <1>2 DEF Ask, AskReap, Reap
<1>3. CASE Spawn \/ SpawnNot \/ Alloc \/ InitCapture
  BY <1>3 DEF Spawn, SpawnNot, Alloc, InitCapture
<1>4. CASE Bind \/ AnswerSent \/ AnswerFails \/ Accept \/ SocketFails \/ TcpFlag
  BY <1>4 DEF Bind, AnswerSent, AnswerFails, Accept, SocketFails, TcpFlag, Socket
<1>5. CASE Off \/ Disable \/ On \/ Queried \/ Control \/ Filtered \/ ProgramFiltered
  BY <1>5 DEF Off, Disable, On, Queried, Control, Filtered, ProgramFiltered, Got
<1>6. ASSUME NEW locks \in BOOLEAN, Lock(locks) PROVE CanServe
  BY <1>6 DEF Lock
<1>7. CASE SetFlag \/ ClearStop \/ Wait \/ GiveUp \/ Parse \/ Test \/ Close \/ Reset
  BY <1>7 DEF SetFlag, ClearStop, Wait, GiveUp, Parse, Test, Close, Reset
<1>8. CASE Exit
  BY <1>8 DEF Exit
<1> QED
  BY <1>1, <1>2, <1>3, <1>4, <1>5, <1>6, <1>7, <1>8 DEF Serve

\* Nothing but callbacks hold libusb's lock.
CbNamed == cb # NoCallback => cb.at # "none"

LEMMA CbNamedKept == RangesOK /\ CbNamed /\ [Run]_vars => CbNamed'
<1> SUFFICES ASSUME RangesOK, CbNamed, [Run]_vars PROVE CbNamed'
  OBVIOUS
<1>0. ASSUME NEW th, Reap(th) PROVE CbNamed'
  BY <1>0 DEF Reap, CbNamed
<1>1. CASE UNCHANGED cb
  BY <1>1 DEF CbNamed
<1>2. CASE Serve
  <2>1. CASE AskReap
    BY <1>0, <2>1 DEF AskReap
  <2>2. CASE ~AskReap
    <3>1. UNCHANGED cb
      BY <1>2, <2>2 DEF Serve, Flags, Cancel, Ask, Start, Bind, AnswerSent, AnswerFails, Accept,
         SocketFails, TcpFlag, Socket, Spawn, SpawnNot, Alloc, InitCapture, SetFlag, ClearStop,
         Off, Lock, Disable, On, Queried, Control, Filtered, Wait, GiveUp, Parse,
         ProgramFiltered, Test, Close, Reset, Got
    <3> QED
      BY <1>1, <3>1
  <2> QED
    BY <2>1, <2>2
<1>3. CASE Begin
  BY <1>1, <1>3 DEF Begin, Begins, Tune, Refused, Filter, StartTsSend, StopStream, Query, End
<1>4. CASE CbStep
  BY <1>4 DEF CbNamed, RangesOK, Callback, Return, CbStep, CbAborted, CbResubmit, CbRefused,
     CbBranch, CbLoop, CbSent, CbLoopEnds, CbSendFails, CbWrite, CbFull, CbStop, CbCancel,
     CbParseOk, CbClose, CbFlags
<1>5. ASSUME NEW e \in EventThreads, EventStep(e) PROVE CbNamed'
  BY <1>0, <1>1, <1>5 DEF EventStep, EventMoves, EventOpen, EventLoop, EventNothing, EventReap
<1>6. ASSUME NEW t \in Transfers, Answered(t) PROVE CbNamed'
  BY <1>1, <1>6 DEF Answered
<1>7. CASE UNCHANGED vars
  BY <1>1, <1>7 DEF vars
<1> QED
  BY <1>2, <1>3, <1>4, <1>5, <1>6, <1>7 DEF Run

\* A request is never held up by nobody: where its thread cannot go on it waits
\* for a callback that can, or for transfers the halted endpoint refuses.  In
\* particular the completion of a register access is in the queue until it is
\* reaped, whoever reaps, so the thread that waits for it (libusb's synchronous
\* transfers, under open_devs_lock) has something to reap; no one waits in turn for
\* the thread that waits for him.
THEOREM RequestsHandedOn == Spec => []HandsOn
<1>1. Init => CbNamed
  BY DEF Init, CbNamed
<1>2. SInv /\ CbNamed /\ [Next]_vars => CbNamed'
  BY CbNamedKept DEF SInv, Next, Exit, CbNamed
<1>3. AInv /\ CbNamed => HandsOn
  <2> SUFFICES ASSUME AInv, CbNamed, ctl # "idle", ~CanServe
               PROVE  CallbackUnderWay \/ Refusable \/ BoundReached
    BY DEF HandsOn
  <2>1. CASE ctl \in Accesses /\ access = "none"
    BY <2>1 DEF CanServe, Refusable, Accesses
  <2>2. CASE ctl \in Accesses /\ access = "asked"
    <3>1. completed # <<>>
      BY <2>2 DEF AInv, AskedWaits
    <3> QED
      BY <2>2, <3>1 DEF CanServe, CallbackUnderWay, CbNamed, Accesses
  <2>3. CASE ctl \in {"spawn", "alloc"}
    BY <2>3 DEF CanServe, BoundReached, Accesses
  <2>4. access \in {"none", "asked", "done"}
    BY DEF AInv, SInv, RangesOK
  <2> QED
    BY <2>1, <2>2, <2>3, <2>4 DEF CanServe
<1> QED
  BY <1>1, <1>2, <1>3, SocketsKnown, RequestsAdvance, PTL DEF Spec
=============================================================================
