---------------------------- MODULE DriverProofs ----------------------------
(***************************************************************************)
(* What DriverMachine keeps for any programs, boards, registers followed   *)
(* and number of accesses that fail: the type invariant, and that a driver *)
(* whose text brackets its freezes never leaves the registers frozen.      *)
(***************************************************************************)
EXTENDS DriverMachine, TLAPS

\* A function that runs is one of the board's, at an instruction of its
\* program or at its end.
Placed == call # NoCall => /\ call \in CallsOf[board]
                           /\ pc \in DOMAIN Prog[call] \cup {0}
TInv == TypeOK /\ Placed

---------------------------------------------------------------------------
(* Where an instruction leads.                                             *)

\* An instruction leads to one of the places that Leads names, a return to
\* the end; the function running stays the same.
LEMMA ExecuteLeads ==
  ASSUME NEW i, i = Prog[call][pc], Execute(i)
  PROVE  /\ UNCHANGED <<board, call, arg>>
         /\ IF i.op = "return" THEN pc' = 0 ELSE pc' \in Leads(Prog[call], pc)
<1> USE DEF Leads, Branching, Failing, Accesses, Within, Here, Quiet,
            Step, Goto, Raise, NoFault, Fault
<1>1. CASE SelectBank(i) \/ WriteRegister(i) \/ Read(i) \/ Probe(i)
  BY <1>1 DEF SelectBank, WriteRegister, Read, Probe
<1>2. CASE FreezeReg(i) \/ UnFreezeReg(i)
  BY <1>2 DEF FreezeReg, UnFreezeReg
<1>3. CASE ResetDevice(i) \/ SaveRegister(i) \/ LoadMemory(i) \/ ClearMemory(i)
  BY <1>3 DEF ResetDevice, SaveRegister, LoadMemory, ClearMemory
<1>4. CASE AssignField(i) \/ Require(i) \/ CheckData(i) \/ ReturnError(i)
  BY <1>4 DEF AssignField, Require, CheckData, ReturnError
<1>5. CASE JumpAway(i) \/ Branch(i) \/ Choose(i)
  BY <1>5 DEF JumpAway, Branch, Choose
<1>6. CASE Catch(i) \/ Unless(i) \/ Forget(i) \/ PutAside(i) \/ ComeBack(i) \/ Rethrow(i)
  BY <1>6 DEF Catch, Unless, Forget, PutAside, ComeBack, Rethrow
<1>7. CASE Wait(i) \/ TimeOut(i) \/ ClearFlag(i) \/ TestFlag(i) \/ BeginSample(i)
  BY <1>7 DEF Wait, TimeOut, ClearFlag, TestFlag, BeginSample
<1>8. CASE Return(i)
  BY <1>8 DEF Return
<1> QED
  BY <1>1, <1>2, <1>3, <1>4, <1>5, <1>6, <1>7, <1>8 DEF Execute

\* Every place led to is in the program.
LEMMA LeadsInside ==
  ASSUME NEW b \in Boards, NEW f \in CallsOf[b], NEW n \in DOMAIN Prog[f],
         Prog[f][n].op # "return"
  PROVE  Leads(Prog[f], n) \subseteq DOMAIN Prog[f]
BY ProgramAssumption DEF Leads

LEMMA ExecutePlaced ==
  ASSUME TInv, call # NoCall, pc # 0, Execute(Prog[call][pc])
  PROVE  Placed'
<1>1. call \in CallsOf[board] /\ pc \in DOMAIN Prog[call] /\ board \in Boards
  BY DEF TInv, TypeOK, Placed
<1>2. UNCHANGED <<board, call, arg>>
  BY ExecuteLeads
<1>3. CASE Prog[call][pc].op = "return"
  <2>1. pc' = 0
    BY <1>3, ExecuteLeads
  <2> QED
    BY <1>1, <1>2, <2>1 DEF Placed
<1>4. CASE Prog[call][pc].op # "return"
  <2>1. pc' \in Leads(Prog[call], pc)
    BY <1>4, ExecuteLeads
  <2>2. pc' \in DOMAIN Prog[call]
    BY <1>1, <1>4, <2>1, LeadsInside
  <2> QED
    BY <1>1, <1>2, <2>2 DEF Placed
<1> QED
  BY <1>3, <1>4

---------------------------------------------------------------------------
(* The type invariant.                                                     *)

\* What no instruction changes, and what only a few change.
LEMMA ExecuteTypes ==
  ASSUME TInv, call # NoCall, pc # 0, NEW i, i = Prog[call][pc], Execute(i)
  PROVE  TypeOK'
<1>1. /\ board \in Boards /\ call \in CallsOf[board] /\ pc \in DOMAIN Prog[call]
      /\ UNCHANGED <<board, call, arg>>
  BY ExecuteLeads DEF TInv, TypeOK, Placed
<1>2. /\ i.err \in Results
      /\ i.op = "select" => i.bank \in Int
  BY <1>1, ProgramAssumption
<1>3. MaxFaults[board] \in Nat /\ MaxWait \in Nat
  BY <1>1, BoundAssumption
<1>4. Tracked' = Tracked
  BY <1>1 DEF Tracked
<1>5. {"OK", "I2C"} \subseteq Results
  BY DEF Results
<1> USE <1>1, <1>2, <1>3, <1>4, <1>5
    DEF TInv, TypeOK, chip, Within, Quiet, Here, Step, Goto, Raise, NoFault, Fault, MayFault
<1>6. CASE SelectBank(i)
  BY <1>6 DEF SelectBank, Selecting
<1>7. CASE WriteRegister(i)
  <2>1. DOMAIN Written(i) = Tracked
    BY DEF Written
  <2> QED
    BY <1>7, <2>1 DEF WriteRegister
<1>8. CASE Read(i) \/ Probe(i)
  BY <1>8 DEF Read, Probe, Taken
<1>9. CASE FreezeReg(i) \/ UnFreezeReg(i)
  BY <1>9 DEF FreezeReg, UnFreezeReg
<1>10. CASE ResetDevice(i)
  <2>1. DOMAIN Cleared(i) = Tracked
    BY DEF Cleared
  <2>2. Unfrozen(i) \in {"thawed", "frozen", "stuck"}
    BY DEF Unfrozen
  <2> QED
    BY <1>10, <2>1, <2>2 DEF ResetDevice
<1>11. CASE SaveRegister(i)
  <2>1. DOMAIN Written(i) = Tracked
    BY DEF Written
  <2>2. DOMAIN Saved(i) \subseteq Tracked
    BY DEF Saved
  <2> QED
    BY <1>11, <2>1, <2>2 DEF SaveRegister
<1>12. CASE LoadMemory(i)
  <2>1. \A K : DOMAIN Loaded(K) = Tracked
    BY DEF Loaded
  <2>2. \A k \in DOMAIN memory : [selected EXCEPT ![k[1]] = k[2]] \in [Devices -> Int]
    BY RegisterAssumption DEF Tracked
  <2> QED
    BY <1>12, <2>1, <2>2 DEF LoadMemory
<1>13. CASE ClearMemory(i)
  BY <1>13 DEF ClearMemory
<1>14. CASE AssignField(i)
  BY <1>14 DEF AssignField
<1>15. CASE Require(i) \/ CheckData(i) \/ ReturnError(i)
  BY <1>15 DEF Require, CheckData, ReturnError
<1>16. CASE JumpAway(i) \/ Branch(i) \/ Choose(i) \/ Unless(i)
  BY <1>16 DEF JumpAway, Branch, Choose, Unless
<1>17. CASE Catch(i) \/ Forget(i) \/ PutAside(i) \/ ComeBack(i) \/ Rethrow(i)
  BY <1>17 DEF Catch, Forget, PutAside, ComeBack, Rethrow
<1>18. CASE Wait(i) \/ TimeOut(i)
  BY <1>18 DEF Wait, TimeOut
<1>19. CASE ClearFlag(i) \/ TestFlag(i) \/ BeginSample(i)
  BY <1>19 DEF ClearFlag, TestFlag, BeginSample
<1>20. CASE Return(i)
  BY <1>20 DEF Return
<1> QED
  BY <1>6, <1>7, <1>8, <1>9, <1>10, <1>11, <1>12, <1>13, <1>14, <1>15, <1>16, <1>17,
     <1>18, <1>19, <1>20 DEF Execute

LEMMA InitTypes == Init => TInv
<1> SUFFICES ASSUME Init PROVE TInv
  OBVIOUS
<1>1. DOMAIN memory = {}
  <2>1. memory = <<>>
    BY DEF Init
  <2> QED
    BY <2>1
<1>2. selected \in [Devices -> Int]
  <2>1. selected = [d \in Devices |-> 0]
    BY DEF Init
  <2> QED
    BY <2>1
<1>3. faults \in 0..MaxFaults[board] /\ waited \in 0..MaxWait
  <2>1. board \in Boards /\ faults = 0 /\ waited = 0
    BY DEF Init
  <2> QED
    BY <2>1, BoundAssumption
<1>4. DOMAIN drv = DOMAIN FieldsOf[board] /\ DOMAIN regs = Tracked /\ Placed
  BY DEF Init, Tracked, Placed
<1> QED
  BY <1>1, <1>2, <1>3, <1>4 DEF Init, TInv, TypeOK, Results

LEMMA NextTypes == TInv /\ [Next]_vars => TInv'
<1> SUFFICES ASSUME TInv, [Next]_vars PROVE TInv'
  OBVIOUS
<1> USE DEF TInv
<1>1. ASSUME Idle, NEW f \in CallsOf[board], NEW a, Call(f, a) PROVE TInv'
  <2>1. f # NoCall /\ 1 \in DOMAIN Prog[f]
    BY <1>1, ProgramAssumption DEF TypeOK
  <2> QED
    BY <1>1, <2>1 DEF Call, TypeOK, Placed, Tracked, chip
<1>2. CASE Run
  <2>1. PICK i \in Due : Execute(i)
    BY <1>2 DEF Run
  <2>2. call # NoCall /\ pc # 0 /\ i = Prog[call][pc]
    BY <2>1 DEF Due
  <2> QED
    BY <2>1, <2>2, ExecuteTypes, ExecutePlaced
<1>3. CASE Resume
  BY <1>3 DEF Resume, Returned, TypeOK, Placed, Tracked, chip, Results
<1>4. CASE Cancel
  BY <1>4 DEF Cancel, TypeOK, Placed, Tracked, chip
<1>5. CASE UNCHANGED vars
  BY <1>5 DEF vars, TypeOK, Placed, Tracked, chip
<1> QED
  BY <1>1, <1>2, <1>3, <1>4, <1>5 DEF Next

\* Every instruction finds the driver's and the chip's state as it expects
\* it, and leads to another one of the same function.
THEOREM TypesKept == Spec => []TInv
BY InitTypes, NextTypes, PTL DEF Spec

\* The machine's variables have their types, with any programs: the driver's
\* fields and the registers followed stay the same, only registers followed
\* are saved, and no more accesses fail than may.
THEOREM TypeCorrect == Spec => []TypeOK
<1>1. TInv => TypeOK
  BY DEF TInv
<1> QED
  BY <1>1, TypesKept, PTL

---------------------------------------------------------------------------
(* Frozen registers.                                                       *)

\* On a board whose programs are bracketed the registers are frozen only
\* while a function is at a place between a freeze and its thaw.
Held == BracketedBoard(board) /\ frozen = "frozen"
          => call # NoCall /\ pc # 0 /\ pc \in HeldIn(Prog[call])

\* Only a freeze that succeeds freezes, and it goes on to the next
\* instruction; a thaw leaves nothing frozen.
LEMMA ExecuteFreezes ==
  ASSUME NEW i, Execute(i), frozen' = "frozen",
         i.op \in {"freeze", "thaw"} => i.dev = NoDevice
  PROVE  \/ i.op # "thaw" /\ frozen = "frozen"
         \/ i.op = "freeze" /\ pc' = pc + 1
<1> USE DEF Within, Here, Quiet, chip, Step, NoFault, Fault, Reaching
<1>1. CASE SelectBank(i) \/ WriteRegister(i) \/ Read(i) \/ Probe(i)
  BY <1>1 DEF SelectBank, WriteRegister, Read, Probe
<1>2. CASE FreezeReg(i) \/ UnFreezeReg(i)
  BY <1>2 DEF FreezeReg, UnFreezeReg
<1>3. CASE ResetDevice(i) \/ SaveRegister(i) \/ LoadMemory(i) \/ ClearMemory(i)
  BY <1>3 DEF ResetDevice, Unfrozen, SaveRegister, LoadMemory, ClearMemory
<1>4. CASE AssignField(i) \/ Require(i) \/ CheckData(i) \/ ReturnError(i)
  BY <1>4 DEF AssignField, Require, CheckData, ReturnError
<1>5. CASE JumpAway(i) \/ Branch(i) \/ Choose(i)
  BY <1>5 DEF JumpAway, Branch, Choose
<1>6. CASE Catch(i) \/ Unless(i) \/ Forget(i) \/ PutAside(i) \/ ComeBack(i) \/ Rethrow(i)
  BY <1>6 DEF Catch, Unless, Forget, PutAside, ComeBack, Rethrow
<1>7. CASE Wait(i) \/ TimeOut(i) \/ ClearFlag(i) \/ TestFlag(i) \/ BeginSample(i)
  BY <1>7 DEF Wait, TimeOut, ClearFlag, TestFlag, BeginSample
<1>8. CASE Return(i)
  BY <1>8 DEF Return
<1> QED
  BY <1>1, <1>2, <1>3, <1>4, <1>5, <1>6, <1>7, <1>8 DEF Execute

\* From a freeze a program comes to a thaw before its end, whichever
\* accesses fail on the way.
LEMMA ExecuteHolds ==
  ASSUME TInv, Held, call # NoCall, pc # 0, Execute(Prog[call][pc])
  PROVE  Held'
<1> DEFINE i == Prog[call][pc]
           H == HeldIn(Prog[call])
<1>1. /\ board \in Boards /\ call \in CallsOf[board] /\ pc \in DOMAIN Prog[call]
      /\ UNCHANGED <<board, call, arg>>
      /\ IF i.op = "return" THEN pc' = 0 ELSE pc' \in Leads(Prog[call], pc)
  BY ExecuteLeads DEF TInv, TypeOK, Placed
<1> SUFFICES ASSUME BracketedBoard(board), frozen' = "frozen"
             PROVE  pc' # 0 /\ pc' \in H
  BY <1>1 DEF Held, BracketedBoard
<1>2. /\ i.op \in {"freeze", "thaw"} => i.dev = NoDevice
      /\ i.op = "freeze" => pc + 1 \in H
      /\ i.op = "return" => pc \notin H
      /\ pc \in H /\ i.op # "thaw" => Leads(Prog[call], pc) \subseteq H
  BY <1>1 DEF BracketedBoard, Bracketed
<1>3. \/ i.op # "thaw" /\ frozen = "frozen"
      \/ i.op = "freeze" /\ pc' = pc + 1
  BY <1>2, ExecuteFreezes
<1>4. i.op # "return"
  BY <1>2, <1>3 DEF Held
<1>5. pc' # 0
  <2>1. pc' \in DOMAIN Prog[call]
    BY <1>1, <1>4, LeadsInside
  <2>2. 0 \notin DOMAIN Prog[call]
    BY <1>1, ProgramAssumption
  <2> QED
    BY <2>1, <2>2
<1>6. pc' \in H
  BY <1>1, <1>2, <1>3, <1>4 DEF Held
<1> QED
  BY <1>5, <1>6

LEMMA NextHolds == TInv /\ Held /\ [Next]_vars => Held'
<1> SUFFICES ASSUME TInv, Held, [Next]_vars PROVE Held'
  OBVIOUS
<1>1. ASSUME Idle, NEW f \in CallsOf[board], NEW a, Call(f, a) PROVE Held'
  BY <1>1 DEF Call, Idle, Held, BracketedBoard, chip
<1>2. CASE Run
  <2>1. PICK i \in Due : Execute(i)
    BY <1>2 DEF Run
  <2>2. call # NoCall /\ pc # 0 /\ i = Prog[call][pc]
    BY <2>1 DEF Due
  <2> QED
    BY <2>1, <2>2, ExecuteHolds
<1>3. CASE Resume
  BY <1>3 DEF Resume, Returned, Held, BracketedBoard, chip
<1>4. CASE Cancel
  BY <1>4 DEF Cancel, Held, BracketedBoard, chip
<1>5. CASE UNCHANGED vars
  BY <1>5 DEF vars, Held, BracketedBoard, chip
<1> QED
  BY <1>1, <1>2, <1>3, <1>4, <1>5 DEF Next

\* A driver every function of which comes from a freeze to a thaw, on each
\* way through its text, never leaves the registers frozen between calls:
\* whatever it is called with, however many accesses fail, and whenever it is
\* cancelled.  The run checks that condition (ReceiverTexts!FreezeText) for
\* the CXD2837's driver.
THEOREM BracketsThaw == Spec => [](BracketedBoard(board) => Thawed)
<1>1. Init => Held
  BY DEF Init, Held
<1>2. Held => (BracketedBoard(board) => Thawed)
  BY DEF Held, Thawed, Idle
<1> QED
  BY <1>1, <1>2, TypesKept, NextHolds, PTL DEF Spec
=============================================================================
