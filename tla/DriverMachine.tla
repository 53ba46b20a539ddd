--------------------------- MODULE DriverMachine ---------------------------
(***************************************************************************)
(* Runs the programs of DriverOps: a driver whose functions are called one *)
(* after the other, on a bus on which every access may fail, and a second  *)
(* thread that may cancel what is running.                                 *)
(*                                                                         *)
(* A device has a bank register that says which registers the next access  *)
(* reaches, or an address register, or none; a demodulator has a register  *)
(* by which all others keep what they show.  "T" and "X" are the           *)
(* demodulator and the system part of a CXD2837, "D" is an ATBM888x, and   *)
(* "A" a CXD2872 tuner.                                                    *)
(***************************************************************************)
EXTENDS DriverOps

CONSTANTS
  Prog,         \* the program of each function that can be called
  Args,         \* the arguments of those that are called with any
  Boards,       \* what may be on the board
  CallsOf,      \* for each board the functions called
  FieldsOf,     \* the driver's fields as they are before any call
  MaxFaults,    \* how many accesses may fail
  AtPower,      \* the registers followed, <<device, bank, register>>, and
                \* what they hold at first and after the chip's reset
  MaxWait,      \* how many times a wait looks before its time is over
  Cancels       \* the boards on which another thread cancels

NoCall == "none"
NoArg == ""
NoDevice == ""
Devices == {"T", "X", "A", "D"}
Results == {"OK", "I2C", "ARG", "SW_STATE", "HW_STATE", "NOSUPPORT", "RANGE",
            "TIMEOUT", "UNLOCK", "CANCEL", "OVERFLOW", "OTHER"}

\* Every instruction leads to another one of its program, but the last.
ASSUME ProgramAssumption ==
  /\ \A b \in Boards : CallsOf[b] \subseteq DOMAIN Prog
  /\ \A f \in DOMAIN Prog :
       /\ f # NoCall /\ 1 \in DOMAIN Prog[f] /\ 0 \notin DOMAIN Prog[f]
       /\ \A n \in DOMAIN Prog[f] :
            LET i == Prog[f][n] IN
            /\ i.err \in Results
            /\ i.op = "select" => i.bank \in Int
            /\ i.op # "return" => {n + 1, n + i.to, n + i.fail} \subseteq DOMAIN Prog[f]
ASSUME BoundAssumption ==
  (\A b \in Boards : MaxFaults[b] \in Nat) /\ MaxWait \in Nat
ASSUME RegisterAssumption ==
  \A b \in Boards : \A k \in DOMAIN AtPower[b] : k[2] \in Int

VARIABLES
  board,        \* what is on the board
  call, arg, pc,\* the function running, its argument, its next instruction, 0 at its end
  err, put,     \* its error so far, and the one put aside
  drv,          \* the driver's fields
  selected, regs,   \* the devices: the bank each has selected, the registers followed
  frozen,       \* "thawed", "frozen", or "stuck": frozen by an access that failed
  memory,       \* configMemory: the registers saved, and what was saved
  reads,        \* what the running measurement has read so far
  waited,       \* how often the running wait has looked
  cancel,       \* the cancellation flag, and when it was set: "no", "now", "before"
  faults        \* how many accesses have failed

chip == <<selected, regs, frozen>>
vars == <<board, call, arg, pc, err, put, drv, selected, regs, frozen, memory, reads, waited,
          cancel, faults>>

Tracked == DOMAIN AtPower[board]

\* The instruction that is next, if a function runs.
Due == IF call = NoCall \/ pc = 0 THEN {} ELSE {Prog[call][pc]}

TypeOK ==
  /\ board \in Boards
  /\ err \in Results /\ put \in Results
  /\ DOMAIN drv = DOMAIN FieldsOf[board]
  /\ selected \in [Devices -> Int]
  /\ DOMAIN regs = Tracked
  /\ frozen \in {"thawed", "frozen", "stuck"}
  /\ DOMAIN memory \subseteq Tracked
  /\ reads \in {"none", "live", "frozen", "mixed"}
  /\ waited \in 0..MaxWait /\ faults \in 0..MaxFaults[board]
  /\ cancel \in {"no", "now", "before"}

Init ==
  /\ call = NoCall /\ arg = NoArg /\ pc = 0
  /\ err = "OK" /\ put = "OK"
  /\ board \in Boards /\ drv = FieldsOf[board]
  /\ selected = [d \in Devices |-> 0]
  /\ regs = AtPower[board]
  /\ frozen = "thawed"
  /\ memory = <<>>
  /\ reads = "none" /\ waited = 0 /\ cancel = "no" /\ faults = 0

---------------------------------------------------------------------------
(* Calls.                                                                  *)

Idle == call = NoCall
Call(f, a) ==
  /\ Idle
  /\ call' = f /\ arg' = a /\ pc' = 1
  /\ cancel' = IF cancel = "now" THEN "before" ELSE cancel
  /\ UNCHANGED <<board, err, put, drv, chip, memory, reads, waited, faults>>

Returned == call # NoCall /\ pc = 0
Return(i) ==
  /\ i.op = "return" /\ pc' = 0
  /\ reads' = "none" /\ waited' = 0
  /\ UNCHANGED <<board, call, arg, err, put, drv, chip, memory, cancel, faults>>

\* The caller goes on.
Resume ==
  /\ Returned
  /\ call' = NoCall /\ arg' = NoArg /\ err' = "OK"
  /\ UNCHANGED <<board, pc, put, drv, chip, memory, reads, waited, cancel, faults>>

\* The next instruction, one further on, and the handler of a failure.
Step == pc' = pc + 1 /\ UNCHANGED err
Goto(n) == pc' = pc + n
Raise(i, e) ==
  /\ err' = e
  /\ pc' = pc + i.fail
MayFault == faults < MaxFaults[board]
Fault(i, e) == MayFault /\ faults' = faults + 1 /\ Raise(i, e)
NoFault == Step /\ UNCHANGED faults
Within == UNCHANGED <<board, call, arg>>

---------------------------------------------------------------------------
(* Accesses of the bus.  One that fails may have been carried out.         *)

Selecting(i) == [selected EXCEPT ![i.dev] = i.bank]
SelectBank(i) ==
  /\ i.op = "select"
  /\ \/ NoFault /\ selected' = Selecting(i)
     \/ Fault(i, "I2C") /\ selected' \in {selected, Selecting(i)}
  /\ Within /\ UNCHANGED <<put, drv, regs, frozen, memory, reads, waited, cancel>>

\* The register an access reaches is the one of the bank selected.
Reached(i) == <<i.dev, IF i.bank = AllBanks THEN AllBanks ELSE selected[i.dev], i.reg>>
Written(i) == IF Reached(i) \in Tracked THEN [regs EXCEPT ![Reached(i)] = i.val] ELSE regs
WriteRegister(i) ==
  /\ i.op = "write"
  /\ \/ NoFault /\ regs' = Written(i)
     \/ Fault(i, "I2C") /\ regs' \in {regs, Written(i)}
  /\ Within /\ UNCHANGED <<put, drv, selected, frozen, memory, reads, waited, cancel>>

\* A read before the registers are frozen, or after, is not of the moment
\* of those that are read while they are.
Taken == IF frozen = "thawed" THEN "live" ELSE "frozen"
Read(i) ==
  /\ i.op = "read"
  /\ \/ NoFault
     \/ Fault(i, "I2C")
  /\ reads' = IF reads \in {"none", Taken} THEN Taken ELSE IF i.astray THEN reads ELSE "mixed"
  /\ Within /\ UNCHANGED <<put, drv, chip, memory, waited, cancel>>

Probe(i) ==
  /\ i.op = "probe"
  /\ NoFault \/ Fault(i, "I2C")
  /\ Within /\ UNCHANGED <<put, drv, chip, memory, reads, waited, cancel>>

\* The Sony chip's is in all banks; else it is reached as any register is.
Reaching(i) == i.dev = NoDevice \/ selected[i.dev] = i.bank
FreezeReg(i) ==
  /\ i.op = "freeze"
  /\ \/ NoFault /\ frozen' = IF Reaching(i) THEN "frozen" ELSE frozen
     \/ /\ Fault(i, "I2C")
        /\ frozen' \in {frozen, "stuck"}
  /\ Within /\ UNCHANGED <<put, drv, selected, regs, memory, reads, waited, cancel>>

UnFreezeReg(i) ==
  /\ i.op = "thaw"
  /\ \/ faults' = faults /\ frozen' = IF Reaching(i) THEN "thawed" ELSE frozen
     \/ MayFault /\ faults' = faults + 1 /\ frozen' = "stuck"
  /\ Step
  /\ Within /\ UNCHANGED <<put, drv, selected, regs, memory, reads, waited, cancel>>

---------------------------------------------------------------------------
(* Resets and the configuration memory.                                    *)

\* A reset, hard or soft, of the registers of one device or of both.
Cleared(i) == [k \in Tracked |-> IF k[1] \in i.val THEN AtPower[board][k] ELSE regs[k]]
Unfrozen(i) == IF {"T", "D"} \cap i.val # {} THEN "thawed" ELSE frozen
ResetDevice(i) ==
  /\ i.op = "reset"
  /\ \/ NoFault /\ regs' = Cleared(i) /\ frozen' = Unfrozen(i)
     \/ Fault(i, "I2C") /\ regs' = Cleared(i) /\ frozen' = Unfrozen(i)
     \/ Fault(i, "I2C") /\ UNCHANGED <<regs, frozen>>
  /\ Within /\ UNCHANGED <<put, drv, selected, memory, reads, waited, cancel>>

\* Slip: the bank of a setting is not remembered with it.
SavedUnbanked(i) ==
  LET k == <<i.dev, 0, i.reg>>
  IN  [n \in DOMAIN memory \cup {k} |-> IF n = k THEN i.val ELSE memory[n]]
\* setConfigMemory comes after the write that it remembers.
Saved(i) == [k \in DOMAIN memory \cup ({Reached(i)} \cap Tracked) |->
            IF k = Reached(i) THEN i.val ELSE memory[k]]
SaveRegister(i) ==
  /\ i.op = "save"
  /\ \/ NoFault /\ regs' = Written(i) /\ memory' = Saved(i)
     \/ Fault(i, "I2C") /\ regs' \in {regs, Written(i)} /\ memory' = memory
  /\ Within /\ UNCHANGED <<put, drv, selected, frozen, reads, waited, cancel>>

\* loadConfigMemory writes the entries one after the other.
Loaded(K) == [k \in Tracked |-> IF k \in K THEN memory[k] ELSE regs[k]]
LoadMemory(i) ==
  /\ i.op = "load"
  /\ \/ NoFault /\ regs' = Loaded(DOMAIN memory)
     \/ Fault(i, "I2C") /\ \E K \in SUBSET DOMAIN memory : regs' = Loaded(K)
  /\ selected' \in {selected} \cup {[selected EXCEPT ![k[1]] = k[2]] : k \in DOMAIN memory}
  /\ Within /\ UNCHANGED <<put, drv, frozen, memory, reads, waited, cancel>>

ClearMemory(i) ==
  /\ i.op = "clear" /\ memory' = <<>> /\ Step
  /\ Within /\ UNCHANGED <<put, drv, chip, reads, waited, cancel, faults>>

---------------------------------------------------------------------------
(* The driver's fields and decisions.                                      *)

Quiet == Within /\ UNCHANGED <<chip, memory, reads, faults, cancel>>
Here == Quiet /\ UNCHANGED <<put, drv, waited>>

AssignField(i) ==
  /\ i.op = "assign" \/ i.op = "assignArg"
  /\ drv' = [drv EXCEPT ![i.reg] = IF i.op = "assign" THEN i.val ELSE arg]
  /\ Step /\ Quiet /\ UNCHANGED <<put, waited>>

\* A decision is about a field, or about the argument of the call.
Decided(i) == (IF i.reg = "arg" THEN arg ELSE drv[i.reg]) \in i.val

Require(i) ==
  /\ i.op = "need"
  /\ IF Decided(i) THEN Step ELSE Raise(i, i.err)
  /\ Here

CheckData(i) ==
  /\ i.op = "check"
  /\ Step \/ Raise(i, i.err)
  /\ Here

ReturnError(i) == i.op = "raise" /\ Raise(i, i.err) /\ Here

\* OnError's handler is for errors only.
Unless(i) ==
  /\ i.op = "unless"
  /\ IF err = "OK" THEN Goto(i.to) ELSE pc' = pc + 1
  /\ UNCHANGED err /\ Here

JumpAway(i) == i.op = "jump" /\ Goto(i.to) /\ UNCHANGED err /\ Here

Branch(i) ==
  /\ i.op = "branch"
  /\ IF Decided(i) THEN pc' = pc + 1 ELSE Goto(i.to)
  /\ UNCHANGED err /\ Here

Choose(i) ==
  /\ i.op = "choose"
  /\ pc' = pc + 1 \/ Goto(i.to)
  /\ UNCHANGED err /\ Here

---------------------------------------------------------------------------
(* Handlers of errors.                                                     *)

Catch(i) ==
  /\ i.op = "catch"
  /\ \/ err = "OK" /\ Goto(i.to) /\ UNCHANGED err
     \/ err # "OK" /\ err \in i.val /\ err' = "OK" /\ pc' = pc + 1
     \/ err # "OK" /\ err \notin i.val /\ Raise(i, err)
  /\ Here

Forget(i) == i.op = "forget" /\ err' = "OK" /\ pc' = pc + 1 /\ Here

PutAside(i) == i.op = "aside" /\ put' = err /\ err' = "OK" /\ pc' = pc + 1
            /\ Quiet /\ UNCHANGED <<drv, waited>>

ComeBack(i) ==
  /\ i.op = "again"
  /\ put' = "OK"
  /\ IF put = "OK" THEN Step ELSE Raise(i, put)
  /\ Quiet /\ UNCHANGED <<drv, waited>>

Rethrow(i) == i.op = "rethrow" /\ (IF err = "OK" THEN Step ELSE Raise(i, err)) /\ Here

---------------------------------------------------------------------------
(* Waiting, cancelling and measuring.                                      *)

Wait(i) ==
  /\ i.op = "watch" \/ i.op = "tick"
  /\ waited' = IF i.op = "watch" THEN 0 ELSE IF waited < MaxWait THEN waited + 1 ELSE waited
  /\ Step /\ Quiet /\ UNCHANGED <<put, drv>>

\* A wait may end before MaxWait looks: a look may take any time.
TimeOut(i) ==
  /\ i.op = "timeout"
  /\ \/ waited < MaxWait /\ Step
     \/ Raise(i, i.err)
  /\ Here

ClearFlag(i) ==
  /\ i.op = "clearCancel" /\ cancel' = "no"
  /\ Step /\ Within /\ UNCHANGED <<put, drv, chip, memory, reads, waited, faults>>

TestFlag(i) ==
  /\ i.op = "testCancel"
  /\ IF cancel # "no" THEN Raise(i, i.err) ELSE Step
  /\ Here

BeginSample(i) ==
  /\ i.op = "sample" /\ reads' = "none"
  /\ Step /\ Within /\ UNCHANGED <<put, drv, chip, memory, waited, cancel, faults>>

\* sony_integ_Cancel, called by another thread while a function runs.
Cancel ==
  /\ board \in Cancels /\ call # NoCall /\ cancel # "now" /\ cancel' = "now"
  /\ UNCHANGED <<board, call, arg, pc, err, put, drv, chip, memory, reads, waited, faults>>

---------------------------------------------------------------------------
Execute(i) ==
  \/ SelectBank(i) \/ WriteRegister(i) \/ Read(i) \/ Probe(i)
  \/ FreezeReg(i) \/ UnFreezeReg(i)
  \/ ResetDevice(i) \/ SaveRegister(i) \/ LoadMemory(i) \/ ClearMemory(i)
  \/ AssignField(i) \/ Require(i) \/ CheckData(i) \/ ReturnError(i)
  \/ JumpAway(i) \/ Branch(i) \/ Choose(i)
  \/ Catch(i) \/ Unless(i) \/ Forget(i) \/ PutAside(i) \/ ComeBack(i) \/ Rethrow(i)
  \/ Wait(i) \/ TimeOut(i) \/ ClearFlag(i) \/ TestFlag(i) \/ BeginSample(i)
  \/ Return(i)
Run == \E i \in Due : Execute(i)

ArgsOf(f) == IF f \in DOMAIN Args THEN Args[f] ELSE {NoArg}
Next ==
  \/ Idle /\ \E f \in CallsOf[board] : \E a \in ArgsOf(f) : Call(f, a)
  \/ Run
  \/ Resume
  \/ Cancel

Spec == Init /\ [][Next]_vars

---------------------------------------------------------------------------
(* What holds of any driver of this kind.                                  *)

Accesses == {"read", "probe", "write", "save", "reset"}

\* Every access reaches the register that is meant: the bank selected is the
\* one that the comment above the access names, on every way there, errors,
\* loops and the calls between included.  (But for two places marked astray,
\* sony_demod.c:1473 and sony_demod_dvbc2.c:1340; and the ATBM888x's driver does
\* not look at whether its address was set: there, as long as nothing fails.)
InNamedBank ==
  \A i \in Due :
    i.op \in Accesses /\ ~i.astray /\ i.bank # AllBanks /\ (faults = 0 \/ i.dev # "D")
      => selected[i.dev] = i.bank

\* No function leaves the registers frozen, so that what is read later is
\* what is received then; an access that fails is the only excuse.
Thawed == Idle => frozen # "frozen"

\* A measurement that freezes the registers takes all it reads from there:
\* none of it is read before or after.
SameSnapshot == faults = 0 => reads # "mixed"

\* A function is cancelled by a request that came while it was running, not
\* by one that was meant for a call before it.
NoStaleCancel == Returned /\ faults = 0 /\ err = "CANCEL" => cancel = "now"

---------------------------------------------------------------------------
(* Thawed, as a condition on the text of the programs.                     *)

\* Where an instruction may lead.
Branching == {"jump", "branch", "choose", "unless", "catch"}
Failing == Accesses \cup {"select", "freeze", "load", "need", "check", "raise", "catch",
                         "again", "rethrow", "timeout", "testCancel"}
Leads(P, n) ==
  (IF P[n].op \in {"jump", "raise", "return"} THEN {} ELSE {n + 1})
    \cup (IF P[n].op \in Branching THEN {n + P[n].to} ELSE {})
    \cup (IF P[n].op \in Failing THEN {n + P[n].fail} ELSE {})

\* The places of a program at which the registers are frozen: from a freeze
\* to the next thaw in the text, whatever jumps lie between.
HeldIn(P) ==
  UNION {{k \in (n + 1)..Len(P) : \A j \in (n + 1)..(k - 1) : P[j].op # "thaw"} :
           n \in {m \in DOMAIN P : P[m].op = "freeze"}}

\* Whichever way a program takes from a freeze, it comes to a thaw before
\* its end.
Bracketed(P) ==
  LET H == HeldIn(P)
  IN  /\ 1 \notin H
      /\ \A n \in DOMAIN P :
           /\ P[n].op \in {"freeze", "thaw"} => P[n].dev = NoDevice
           /\ P[n].op = "freeze" => n + 1 \in H
           /\ P[n].op = "return" => n \notin H
           /\ n \in H /\ P[n].op # "thaw" => Leads(P, n) \subseteq H
BracketedBoard(b) == \A f \in CallsOf[b] : Bracketed(Prog[f])
=============================================================================
