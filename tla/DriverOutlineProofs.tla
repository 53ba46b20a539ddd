------------------------ MODULE DriverOutlineProofs ------------------------
(***************************************************************************)
(* Functions with sound outlines keep to them: at each place of a function *)
(* one of the alternatives that its outline gives there holds, whatever    *)
(* accesses have failed, and between calls one of those of the start.      *)
(***************************************************************************)
EXTENDS DriverOutline, DriverProofs

---------------------------------------------------------------------------
(* Facts.                                                                  *)

LEMMA ValueOf ==
  /\ \A d : Value(OfBank(d)) = selected[d]
  /\ \A k : Value(OfRegister(k)) = regs[k]
  /\ \A x : Value(OfField(x)) = drv[x]
  /\ Value(OfErr) = err /\ Value(OfPut) = put /\ Value(OfArg) = arg
  /\ Value(OfFaults) = IF faults = 0 THEN "none" ELSE "some"
  /\ Value(OfFrozen) = frozen /\ Value(OfReads) = reads
  /\ Value(OfKept) = Whether(\A k \in DOMAIN memory : regs[k] = memory[k])
  /\ Value(OfFresh) = Whether(cancel # "before") /\ Value(OfRequest) = Whether(cancel = "now")
BY DEF Value, Values, Own, OfBank, OfRegister, OfField, OfErr, OfPut, OfArg, OfFaults,
   OfFrozen, OfReads, OfKept, OfFresh, OfRequest

LEMMA ValueNext ==
  /\ \A d : Value(OfBank(d))' = selected'[d]
  /\ \A k : Value(OfRegister(k))' = regs'[k]
  /\ \A x : Value(OfField(x))' = drv'[x]
  /\ Value(OfErr)' = err' /\ Value(OfPut)' = put' /\ Value(OfArg)' = arg'
  /\ Value(OfFaults)' = IF faults' = 0 THEN "none" ELSE "some"
  /\ Value(OfFrozen)' = frozen' /\ Value(OfReads)' = reads'
  /\ Value(OfKept)' = Whether(\A k \in DOMAIN memory' : regs'[k] = memory'[k])
  /\ Value(OfFresh)' = Whether(cancel' # "before") /\ Value(OfRequest)' = Whether(cancel' = "now")
BY DEF Value, Values, Own, OfBank, OfRegister, OfField, OfErr, OfPut, OfArg, OfFaults,
   OfFrozen, OfReads, OfKept, OfFresh, OfRequest, Whether

\* What does not change.
LEMMA SameValue ==
  ASSUME NEW s, IsSubject(board, s),
         s[1] = "bank" => selected'[s[2]] = selected[s[2]],
         s[1] = "register" => regs'[s[2]] = regs[s[2]],
         s[1] = "field" => drv'[s[2]] = drv[s[2]],
         s = OfErr => err' = err, s = OfPut => put' = put, s = OfArg => arg' = arg,
         s = OfFaults => faults' = faults,
         s = OfFrozen => frozen' = frozen, s = OfReads => reads' = reads,
         s = OfKept => Value(OfKept)' = Value(OfKept),
         s \in {OfFresh, OfRequest} => cancel' = cancel
  PROVE  Value(s)' = Value(s)
<1>1. CASE s[1] = "bank"
  BY <1>1 DEF Value, Values
<1>2. CASE s[1] = "register"
  BY <1>2 DEF Value, Values
<1>3. CASE s[1] = "field"
  BY <1>3 DEF Value, Values
<1>4. CASE s[1] = "own"
  <2>1. s \in {OfErr, OfPut, OfArg, OfFaults, OfFrozen, OfReads, OfKept, OfFresh, OfRequest}
    BY <1>4 DEF IsSubject, Names, OfErr, OfPut, OfArg, OfFaults, OfFrozen, OfReads, OfKept,
       OfFresh, OfRequest
  <2> QED
    BY <2>1, ValueOf, ValueNext
<1> QED
  BY <1>1, <1>2, <1>3, <1>4 DEF IsSubject

LEMMA SameKept ==
  ASSUME UNCHANGED <<memory, regs>>
  PROVE  Value(OfKept)' = Value(OfKept)
BY ValueOf, ValueNext

\* What is told of a subject is its value.
LEMMA ToldTrue ==
  ASSUME NEW F, Holds(F), Closed(board, F), NEW s, NEW v \in Told(F, s)
  PROVE  Value(s) = v
BY DEF Holds, Closed, Told

\* A fact that is added is of a subject that has the value.
LEMMA WithTrue ==
  ASSUME NEW F, NEW s, NEW v,
         \A p \in F : p[1] # s /\ IsSubject(board, p[1])' => Value(p[1])' = p[2],
         IsSubject(board, s)' => Value(s)' = v
  PROVE  Holds(With(F, s, v))'
<1>1. \A p \in With(F, s, v) : (p \in F /\ p[1] # s) \/ p = <<s, v>>
  BY DEF With, Without
<1> QED
  BY <1>1 DEF Holds

---------------------------------------------------------------------------
(* Accesses.                                                               *)

\* An instruction goes one of the ways from F, to facts that hold there.
Follows(i, F) == \E flow \in Flow(board, pc, i, F) : flow[1] = pc' /\ Holds(flow[2])'

\* Facts hold after an access but for what its failure says of itself.
After(G) ==
  \A p \in G : /\ IsSubject(board, p[1])
               /\ p[1] = OfErr => err' = err
               /\ p[1] \in Fleeting \cup {OfFaults} => faults' = faults
               => Value(p[1])' = p[2]

LEMMA AfterSame ==
  ASSUME NEW F, Holds(F), UNCHANGED <<selected, regs, drv, put, arg, cancel>>,
         faults' = faults => UNCHANGED <<frozen, reads, memory>>
  PROVE  After(F)
BY SameValue, SameKept DEF After, Holds, Fleeting

LEMMA AccessFollows ==
  ASSUME TInv, NEW i, NEW F, NEW G, board' = board,
         \/ NoFault /\ After(G)
         \/ Fault(i, "I2C") /\ After(F \cap G),
         <<pc + 1, G>> \in Flow(board, pc, i, F),
         <<pc + i.fail, With(Faulted(F \cap G), OfErr, "I2C")>> \in Flow(board, pc, i, F)
  PROVE  Follows(i, F)
<1>1. CASE NoFault /\ After(G)
  <2>1. pc' = pc + 1 /\ Holds(G)'
    BY <1>1 DEF NoFault, Step, After, Holds
  <2> QED
    BY <2>1 DEF Follows
<1>2. CASE Fault(i, "I2C") /\ After(F \cap G)
  <2>1. pc' = pc + i.fail /\ err' = "I2C" /\ faults' # 0
    <3>1. faults \in Nat
      BY BoundAssumption DEF TInv, TypeOK
    <3>2. faults' = faults + 1 /\ Raise(i, "I2C")
      BY <1>2 DEF Fault
    <3> QED
      BY <3>1, <3>2 DEF Raise
  <2>2. \A p \in F \cap G : p[1] \notin {OfErr, OfFaults} \cup Fleeting /\ IsSubject(board, p[1])
          => Value(p[1])' = p[2]
    BY <1>2 DEF After
  <2>3. \A p \in Faulted(F \cap G) : p[1] # OfErr /\ IsSubject(board, p[1])' => Value(p[1])' = p[2]
    <3>1. \A p \in Faulted(F \cap G) :
             \/ p \in F \cap G /\ p[1] \notin Fleeting \cup {OfFaults}
             \/ p = <<OfFaults, "some">>
      BY DEF Faulted, With, Without
    <3>2. Value(OfFaults)' = "some"
      BY <2>1, ValueNext
    <3> SUFFICES ASSUME NEW p \in Faulted(F \cap G), p[1] # OfErr, IsSubject(board, p[1])'
                 PROVE  Value(p[1])' = p[2]
      OBVIOUS
    <3>3. CASE p \in F \cap G /\ p[1] \notin Fleeting \cup {OfFaults}
      BY <2>2, <3>3
    <3>4. CASE p = <<OfFaults, "some">>
      BY <3>2, <3>4
    <3> QED
      BY <3>1, <3>3, <3>4
  <2>4. Holds(With(Faulted(F \cap G), OfErr, "I2C"))'
    BY <2>1, <2>3, WithTrue, ValueNext
  <2> QED
    BY <2>1, <2>4 DEF Follows
<1> QED
  BY <1>1, <1>2

\* Selecting a bank.
LEMMA SelectFollows ==
  ASSUME TInv, NEW i, SelectBank(i), NEW F, Holds(F)
  PROVE  Follows(i, F)
<1> DEFINE G == With(F, OfBank(i.dev), i.bank)
<1>1. UNCHANGED <<board, arg, put, drv, regs, frozen, memory, reads, cancel>>
  BY DEF SelectBank, Within
<1>2. ASSUME selected' = Selecting(i) PROVE After(G)
  <2>1. \A p \in G : (p \in F /\ p[1] # OfBank(i.dev)) \/ p = <<OfBank(i.dev), i.bank>>
    BY DEF With, Without
  <2>2. ASSUME NEW p \in F, p[1] # OfBank(i.dev), IsSubject(board, p[1]),
               p[1] = OfErr => err' = err, p[1] = OfFaults => faults' = faults
        PROVE  Value(p[1])' = p[2]
    <3>1. p[1][1] = "bank" => selected'[p[1][2]] = selected[p[1][2]]
      BY <1>2, <2>2 DEF Selecting, TInv, TypeOK, IsSubject, Names, OfBank
    <3> QED
      BY <1>1, <2>2, <3>1, SameValue, SameKept DEF Holds
  <2>3. IsSubject(board, OfBank(i.dev)) => Value(OfBank(i.dev))' = i.bank
    BY <1>2, ValueNext DEF Selecting, TInv, TypeOK, IsSubject, Names, OfBank
  <2> QED
    BY <2>1, <2>2, <2>3 DEF After
<1>3. \/ NoFault /\ After(G)
      \/ Fault(i, "I2C") /\ After(F \cap G)
  <2>1. selected' = selected => After(F)
    BY <1>1, AfterSame
  <2>2. After(F) \/ After(G) => After(F \cap G)
    BY DEF After
  <2> QED
    BY <1>2, <2>1, <2>2 DEF SelectBank
<1>4. /\ <<pc + 1, G>> \in Flow(board, pc, i, F)
      /\ <<pc + i.fail, With(Faulted(F \cap G), OfErr, "I2C")>> \in Flow(board, pc, i, F)
  BY DEF SelectBank, Flow, Provided
<1> QED
  BY <1>1, <1>3, <1>4, AccessFollows

\* Writing a register.
LEMMA BankKnown ==
  ASSUME NEW i, NEW F, Holds(F), Closed(board, F), NEW n \in BanksOf(i, F)
  PROVE  Reached(i) = <<i.dev, n, i.reg>>
<1>1. i.bank # AllBanks => n = selected[i.dev]
  BY ToldTrue, ValueOf DEF BanksOf
<1>2. i.bank = AllBanks => n = AllBanks
  BY DEF BanksOf
<1> QED
  BY <1>1, <1>2 DEF Reached

\* A write that is saved, or not to a register that may be, leaves the
\* registers as the memory says.
LEMMA WriteKeeps ==
  ASSUME TInv, DOMAIN memory \subseteq Savable[board], NEW i, regs' = Written(i),
         \/ i.op = "write" /\ memory' = memory /\ ~MayLose(board, i)
         \/ memory' = Saved(i),
         \A k \in DOMAIN memory : regs[k] = memory[k]
  PROVE  \A k \in DOMAIN memory' : regs'[k] = memory'[k]
<1>1. DOMAIN memory \subseteq Tracked /\ DOMAIN regs = Tracked
  BY DEF TInv, TypeOK
<1>2. CASE i.op = "write" /\ memory' = memory /\ ~MayLose(board, i)
  <2>1. Reached(i)[1] = i.dev /\ Reached(i)[3] = i.reg
    BY DEF Reached
  <2>2. \A k \in DOMAIN memory : k # Reached(i)
    BY <1>2, <2>1 DEF MayLose
  <2> QED
    BY <1>1, <1>2, <2>2 DEF Written
<1>3. CASE memory' = Saved(i)
  <2>1. DOMAIN memory' = DOMAIN memory \cup ({Reached(i)} \cap Tracked)
    BY <1>3 DEF Saved
  <2>2. \A k \in DOMAIN memory' : memory'[k] = IF k = Reached(i) THEN i.val ELSE memory[k]
    BY <1>3 DEF Saved
  <2> QED
    BY <1>1, <2>1, <2>2 DEF Written
<1> QED
  BY <1>2, <1>3

LEMMA WriteAfter ==
  ASSUME TInv, NEW i, NEW F, Holds(F), Closed(board, F), regs' = Written(i),
         DOMAIN memory \subseteq Savable[board],
         faults' = faults => \/ i.op = "write" /\ memory' = memory
                            \/ memory' = Saved(i),
         UNCHANGED <<board, selected, drv, put, arg, frozen, reads, cancel>>
  PROVE  After(AfterWrite(board, i, F))
<1>1. \A p \in AfterWrite(board, i, F) :
        \/ /\ p \in F /\ (p[1][1] = "register" => ~MayReach(i, F, p[1][2]))
           /\ p[1] = OfKept => ~MayLose(board, i)
        \/ \E n \in BanksOf(i, F) : p = <<OfRegister(<<i.dev, n, i.reg>>), i.val>>
  BY DEF AfterWrite
<1>2. ASSUME NEW p \in F, p[1][1] = "register" => ~MayReach(i, F, p[1][2]),
             p[1] = OfKept => ~MayLose(board, i), IsSubject(board, p[1]),
             p[1] = OfErr => err' = err, p[1] \in Fleeting \cup {OfFaults} => faults' = faults
      PROVE  Value(p[1])' = p[2]
  <2>1. ASSUME p[1][1] = "register" PROVE regs'[p[1][2]] = regs[p[1][2]]
    <3>1. p[1][2] \in Tracked
      BY <1>2, <2>1 DEF IsSubject, Names, Tracked
    <3>2. Reached(i) # p[1][2]
      <4> SUFFICES ASSUME Reached(i) = p[1][2] PROVE MayReach(i, F, p[1][2])
        BY <1>2, <2>1
      <4>1. p[1][2][1] = i.dev /\ p[1][2][3] = i.reg
        BY DEF Reached
      <4>2. \A n \in BanksOf(i, F) : n = p[1][2][2]
        BY BankKnown
      <4> QED
        BY <4>1, <4>2 DEF MayReach
    <3> QED
      BY <3>1, <3>2 DEF Written, TInv, TypeOK
  <2>2. p[1] = OfKept => Value(OfKept)' = Value(OfKept)
    <3> SUFFICES ASSUME p[1] = OfKept PROVE Value(OfKept)' = Value(OfKept)
      OBVIOUS
    <3>1. Whether(\A k \in DOMAIN memory : regs[k] = memory[k]) = "yes"
      BY <1>2, ValueOf DEF Holds, Closed
    <3>2. \A k \in DOMAIN memory : regs[k] = memory[k]
      BY <3>1 DEF Whether
    <3>3. \A k \in DOMAIN memory' : regs'[k] = memory'[k]
      BY <1>2, <3>2, WriteKeeps DEF Fleeting
    <3> QED
      BY <3>2, <3>3, ValueOf, ValueNext DEF Whether
  <2> QED
    BY <1>2, <2>1, <2>2, SameValue DEF Holds
<1>3. ASSUME NEW n \in BanksOf(i, F), IsSubject(board, OfRegister(<<i.dev, n, i.reg>>))
      PROVE  Value(OfRegister(<<i.dev, n, i.reg>>))' = i.val
  <2>1. Reached(i) = <<i.dev, n, i.reg>>
    BY BankKnown
  <2>2. Reached(i) \in Tracked
    BY <1>3, <2>1 DEF IsSubject, Names, Tracked, OfRegister
  <2>3. regs'[Reached(i)] = i.val
    BY <2>2 DEF Written, TInv, TypeOK
  <2> QED
    BY <2>1, <2>3, ValueNext
<1> SUFFICES ASSUME NEW p \in AfterWrite(board, i, F), IsSubject(board, p[1]),
                    p[1] = OfErr => err' = err,
                    p[1] \in Fleeting \cup {OfFaults} => faults' = faults
             PROVE  Value(p[1])' = p[2]
  BY DEF After
<1>4. CASE \E n \in BanksOf(i, F) : p = <<OfRegister(<<i.dev, n, i.reg>>), i.val>>
  BY <1>3, <1>4
<1> QED
  BY <1>1, <1>2, <1>4

LEMMA WriteFollows ==
  ASSUME TInv, DOMAIN memory \subseteq Savable[board], NEW i, WriteRegister(i) \/ SaveRegister(i),
         NEW F, Holds(F), Closed(board, F)
  PROVE  Follows(i, F)
<1> DEFINE G == AfterWrite(board, i, F)
<1>1. UNCHANGED <<board, arg, put, drv, selected, frozen, reads, cancel>>
  BY DEF WriteRegister, SaveRegister, Within
<1>2. \/ i.op = "write" /\ memory' = memory
      \/ NoFault /\ memory' = Saved(i)
      \/ Fault(i, "I2C") /\ memory' = memory
  BY DEF WriteRegister, SaveRegister
<1>3. Fault(i, "I2C") => faults' # faults
  BY BoundAssumption DEF Fault, TInv, TypeOK
<1>4. regs' = Written(i) => After(G)
  BY <1>1, <1>2, <1>3, WriteAfter
<1>5. regs' = regs /\ memory' = memory => After(F)
  BY <1>1, AfterSame
<1>6. After(F) \/ After(G) => After(F \cap G)
  BY DEF After
<1>7. \/ NoFault /\ After(G)
      \/ Fault(i, "I2C") /\ After(F \cap G)
  BY <1>4, <1>5, <1>6 DEF WriteRegister, SaveRegister
<1>8. /\ <<pc + 1, G>> \in Flow(board, pc, i, F)
      /\ <<pc + i.fail, With(Faulted(F \cap G), OfErr, "I2C")>> \in Flow(board, pc, i, F)
  <2>1. CASE i.op = "write"
    BY <2>1 DEF Flow, Provided
  <2>2. CASE i.op = "save"
    BY <2>2 DEF Flow, Provided
  <2> QED
    BY <2>1, <2>2 DEF WriteRegister, SaveRegister
<1> QED
  BY <1>1, <1>7, <1>8, AccessFollows

\* What a read adds to what has been read.
LEMMA ReadFollows ==
  ASSUME TInv, NEW i, Read(i), NEW F, Holds(F), Closed(board, F)
  PROVE  Follows(i, F)
<1> DEFINE G == AfterRead(i, F)
<1>1. UNCHANGED <<board, arg, put, drv, selected, regs, frozen, memory, cancel>>
  BY DEF Read, Within, chip
<1>2. After(G)
  <2> SUFFICES ASSUME NEW p \in G, IsSubject(board, p[1]),
                      p[1] = OfErr => err' = err,
                      p[1] \in Fleeting \cup {OfFaults} => faults' = faults
               PROVE  Value(p[1])' = p[2]
    BY DEF After
  <2>1. CASE p \in F /\ p[1] # OfReads
    BY <1>1, <2>1, SameValue, SameKept DEF Holds, Fleeting
  <2>2. CASE p \notin F \/ p[1] = OfReads
    <3>1. PICK r \in Told(F, OfReads), v \in Told(F, OfFrozen) :
            p = <<OfReads, LET taken == IF v = "thawed" THEN "live" ELSE "frozen"
                           IN  IF r \in {"none", taken} THEN taken
                               ELSE IF i.astray THEN r ELSE "mixed">>
      BY <2>2 DEF AfterRead, Without
    <3>2. r = reads /\ v = frozen
      BY ToldTrue, ValueOf
    <3>3. Value(OfReads)' = reads'
      BY ValueNext
    <3> QED
      BY <3>1, <3>2, <3>3 DEF Read, Taken
  <2> QED
    BY <2>1, <2>2
<1>3. \/ NoFault /\ After(G)
      \/ Fault(i, "I2C") /\ After(F \cap G)
  BY <1>2 DEF Read, After
<1>4. /\ <<pc + 1, G>> \in Flow(board, pc, i, F)
      /\ <<pc + i.fail, With(Faulted(F \cap G), OfErr, "I2C")>> \in Flow(board, pc, i, F)
  BY DEF Read, Flow, Provided
<1> QED
  BY <1>1, <1>3, <1>4, AccessFollows

LEMMA ProbeFollows ==
  ASSUME TInv, NEW i, Probe(i), NEW F, Holds(F)
  PROVE  Follows(i, F)
<1>1. UNCHANGED <<board, arg, put, drv, selected, regs, frozen, memory, reads, cancel>>
  BY DEF Probe, Within, chip
<1>2. After(F) /\ After(F \cap F)
  BY <1>1, AfterSame DEF After
<1>3. \/ NoFault /\ After(F)
      \/ Fault(i, "I2C") /\ After(F \cap F)
  BY <1>2 DEF Probe
<1>4. /\ <<pc + 1, F>> \in Flow(board, pc, i, F)
      /\ <<pc + i.fail, With(Faulted(F \cap F), OfErr, "I2C")>> \in Flow(board, pc, i, F)
  BY DEF Probe, Flow, Provided
<1> QED
  BY <1>1, <1>3, <1>4, AccessFollows

\* Freezing the registers, and unfreezing them.
LEMMA FreezeAfter ==
  ASSUME NEW i, NEW F, Holds(F), Closed(board, F), NEW to,
         faults' = faults => frozen' = IF Reaching(i) THEN to ELSE frozen,
         UNCHANGED <<board, arg, put, drv, selected, regs, memory, reads, cancel>>
  PROVE  After(AfterFreeze(i, F, to))
<1> SUFFICES ASSUME NEW p \in AfterFreeze(i, F, to), IsSubject(board, p[1]),
                    p[1] = OfErr => err' = err,
                    p[1] \in Fleeting \cup {OfFaults} => faults' = faults
             PROVE  Value(p[1])' = p[2]
  BY DEF After
<1>1. \/ p \in F /\ p[1] # OfFrozen
      \/ p = <<OfFrozen, to>> /\ Reaches(i, F)
  BY DEF AfterFreeze, With, Without
<1>2. CASE p \in F /\ p[1] # OfFrozen
  BY <1>2, SameValue, SameKept DEF Holds, Fleeting
<1>3. CASE p = <<OfFrozen, to>> /\ Reaches(i, F)
  <2>1. Reaching(i)
    BY <1>3, ToldTrue, ValueOf DEF Reaches, Reaching
  <2>2. frozen' = to
    BY <1>3, <2>1 DEF Fleeting
  <2> QED
    BY <1>3, <2>2, ValueNext
<1> QED
  BY <1>1, <1>2, <1>3

LEMMA FreezeFollows ==
  ASSUME TInv, NEW i, FreezeReg(i), NEW F, Holds(F), Closed(board, F)
  PROVE  Follows(i, F)
<1> DEFINE G == AfterFreeze(i, F, "frozen")
<1>1. UNCHANGED <<board, arg, put, drv, selected, regs, memory, reads, cancel>>
  BY DEF FreezeReg, Within
<1>2. faults' = faults => frozen' = IF Reaching(i) THEN "frozen" ELSE frozen
  BY BoundAssumption DEF FreezeReg, Fault, TInv, TypeOK
<1>3. After(G)
  BY <1>1, <1>2, FreezeAfter
<1>4. \/ NoFault /\ After(G)
      \/ Fault(i, "I2C") /\ After(F \cap G)
  BY <1>3 DEF FreezeReg, After
<1>5. /\ <<pc + 1, G>> \in Flow(board, pc, i, F)
      /\ <<pc + i.fail, With(Faulted(F \cap G), OfErr, "I2C")>> \in Flow(board, pc, i, F)
  BY DEF FreezeReg, Flow, Provided
<1> QED
  BY <1>1, <1>4, <1>5, AccessFollows

LEMMA ThawFollows ==
  ASSUME TInv, NEW i, UnFreezeReg(i), NEW F, Holds(F), Closed(board, F)
  PROVE  Follows(i, F)
<1> DEFINE G == AfterFreeze(i, F, "thawed")
<1>1. /\ i.op = "thaw" /\ pc' = pc + 1
      /\ UNCHANGED <<board, arg, put, err, drv, selected, regs, memory, reads, cancel>>
  BY DEF UnFreezeReg, Step, Within
<1>2. CASE faults' = faults
  <2>1. After(G)
    <3>1. frozen' = IF Reaching(i) THEN "thawed" ELSE frozen
      BY <1>2, BoundAssumption DEF UnFreezeReg, TInv, TypeOK
    <3> QED
      BY <1>1, <3>1, FreezeAfter
  <2>2. Holds(G)'
    BY <1>1, <1>2, <2>1 DEF After, Holds
  <2>3. <<pc', G>> \in Flow(board, pc, i, F)
    BY <1>1 DEF Flow, Provided
  <2> QED
    BY <2>2, <2>3 DEF Follows
<1>3. CASE faults' = faults + 1
  <2>1. Value(OfFaults)' = "some"
    BY <1>3, ValueNext, BoundAssumption DEF TInv, TypeOK
  <2> DEFINE H == {p \in F : p[1] \notin Fleeting}
  <2>2. \A p \in H : p[1] # OfFaults /\ IsSubject(board, p[1])' => Value(p[1])' = p[2]
    BY <1>1, SameValue DEF Holds, Fleeting
  <2>3. Holds(Faulted(F))'
    BY <2>1, <2>2, WithTrue, <1>1 DEF Faulted
  <2>4. <<pc', Faulted(F)>> \in Flow(board, pc, i, F)
    BY <1>1 DEF Flow, Provided
  <2> QED
    BY <2>3, <2>4 DEF Follows
<1> QED
  BY <1>2, <1>3 DEF UnFreezeReg

\* A reset.
LEMMA ResetAfter ==
  ASSUME TInv, DOMAIN memory \subseteq Savable[board], NEW i, NEW F, Holds(F), Closed(board, F),
         regs' = Cleared(i), frozen' = Unfrozen(i),
         UNCHANGED <<board, arg, put, drv, selected, memory, reads, cancel>>
  PROVE  After(AfterReset(board, i, F))
<1> DEFINE G == AfterReset(board, i, F)
<1>1. \A p \in G :
        \/ /\ p \in F /\ (p[1][1] = "register" => p[1][2][1] \notin i.val)
           /\ p[1] = OfKept => \A k \in Savable[board] : k[1] \notin i.val
           /\ p[1] = OfFrozen => ~Unfreezes(i)
        \/ \E k \in DOMAIN AtPower[board] :
             k[1] \in i.val /\ p = <<OfRegister(k), AtPower[board][k]>>
        \/ p = <<OfFrozen, "thawed">> /\ Unfreezes(i)
  BY DEF AfterReset
<1>2. ASSUME NEW p \in F, p[1][1] = "register" => p[1][2][1] \notin i.val,
             p[1] = OfKept => \A k \in Savable[board] : k[1] \notin i.val,
             p[1] = OfFrozen => ~Unfreezes(i), IsSubject(board, p[1]),
             p[1] = OfErr => err' = err, p[1] \in Fleeting \cup {OfFaults} => faults' = faults
      PROVE  Value(p[1])' = p[2]
  <2>1. p[1][1] = "register" => regs'[p[1][2]] = regs[p[1][2]]
    BY <1>2 DEF Cleared, IsSubject, Names, Tracked
  <2>2. p[1] = OfFrozen => frozen' = frozen
    BY <1>2 DEF Unfrozen, Unfreezes
  <2>3. p[1] = OfKept => Value(OfKept)' = Value(OfKept)
    <3> SUFFICES ASSUME p[1] = OfKept PROVE Value(OfKept)' = Value(OfKept)
      OBVIOUS
    <3>1. \A k \in DOMAIN memory : k \in Tracked /\ k[1] \notin i.val
      BY <1>2 DEF TInv, TypeOK
    <3>2. \A k \in DOMAIN memory : regs'[k] = regs[k]
      BY <3>1 DEF Cleared
    <3> QED
      BY <3>2, ValueOf, ValueNext
  <2> QED
    BY <1>2, <2>1, <2>2, <2>3, SameValue DEF Holds
<1>3. \A k \in DOMAIN AtPower[board] :
        k[1] \in i.val => Value(OfRegister(k))' = AtPower[board][k]
  BY ValueNext DEF Cleared, Tracked
<1>4. Unfreezes(i) => Value(OfFrozen)' = "thawed"
  BY ValueNext DEF Unfrozen, Unfreezes
<1> SUFFICES ASSUME NEW p \in G, IsSubject(board, p[1]), p[1] = OfErr => err' = err,
                    p[1] \in Fleeting \cup {OfFaults} => faults' = faults
             PROVE  Value(p[1])' = p[2]
  BY DEF After
<1>5. CASE \E k \in DOMAIN AtPower[board] :
             k[1] \in i.val /\ p = <<OfRegister(k), AtPower[board][k]>>
  BY <1>3, <1>5
<1>6. CASE p = <<OfFrozen, "thawed">> /\ Unfreezes(i)
  BY <1>4, <1>6
<1> QED
  BY <1>1, <1>2, <1>5, <1>6

LEMMA ResetFollows ==
  ASSUME TInv, DOMAIN memory \subseteq Savable[board], NEW i, ResetDevice(i),
         NEW F, Holds(F), Closed(board, F)
  PROVE  Follows(i, F)
<1> DEFINE G == AfterReset(board, i, F)
<1>1. UNCHANGED <<board, arg, put, drv, selected, memory, reads, cancel>>
  BY DEF ResetDevice, Within
<1>2. regs' = Cleared(i) /\ frozen' = Unfrozen(i) => After(G)
  BY <1>1, ResetAfter
<1>3. regs' = regs /\ frozen' = frozen => After(F)
  BY <1>1, AfterSame
<1>4. After(F) \/ After(G) => After(F \cap G)
  BY DEF After
<1>5. \/ NoFault /\ After(G)
      \/ Fault(i, "I2C") /\ After(F \cap G)
  BY <1>2, <1>3, <1>4 DEF ResetDevice
<1>6. /\ <<pc + 1, G>> \in Flow(board, pc, i, F)
      /\ <<pc + i.fail, With(Faulted(F \cap G), OfErr, "I2C")>> \in Flow(board, pc, i, F)
  BY DEF ResetDevice, Flow, Provided
<1> QED
  BY <1>1, <1>5, <1>6, AccessFollows

\* Loading the configuration memory, of registers that may have been saved.
LEMMA LoadFollows ==
  ASSUME TInv, NEW i, LoadMemory(i), DOMAIN memory \subseteq Savable[board], NEW F, Holds(F)
  PROVE  Follows(i, F)
<1> DEFINE G == AfterLoad(board, F)
<1>1. UNCHANGED <<board, arg, put, drv, frozen, memory, reads, cancel>>
  BY DEF LoadMemory, Within
<1>2. PICK K \in SUBSET DOMAIN memory : regs' = Loaded(K) /\ (faults' = faults => K = DOMAIN memory)
  BY BoundAssumption DEF LoadMemory, Fault, TInv, TypeOK
<1>3. After(G)
  <2> SUFFICES ASSUME NEW p \in G, IsSubject(board, p[1]),
                      p[1] = OfErr => err' = err,
                      p[1] \in Fleeting \cup {OfFaults} => faults' = faults
               PROVE  Value(p[1])' = p[2]
    BY DEF After
  <2>1. \/ p = <<OfKept, "yes">>
        \/ /\ p \in F /\ p[1] # OfKept
           /\ \A k \in Savable[board] : p[1] # OfBank(k[1]) /\ p[1] # OfRegister(k)
    BY DEF AfterLoad, With, Without
  <2>2. CASE p = <<OfKept, "yes">>
    <3>1. K = DOMAIN memory /\ DOMAIN memory \subseteq Tracked
      BY <1>2, <2>2 DEF Fleeting, TInv, TypeOK
    <3>2. \A k \in DOMAIN memory : regs'[k] = memory[k]
      BY <1>2, <3>1 DEF Loaded
    <3>3. Value(OfKept)' = "yes"
      BY <1>1, <3>2, ValueNext DEF Whether
    <3> QED
      BY <2>2, <3>3
  <2>3. CASE /\ p \in F /\ p[1] # OfKept
             /\ \A k \in Savable[board] : p[1] # OfBank(k[1]) /\ p[1] # OfRegister(k)
    <3>1. ASSUME p[1][1] = "register" PROVE regs'[p[1][2]] = regs[p[1][2]]
      <4>1. p[1] = OfRegister(p[1][2]) /\ p[1][2] \in Tracked
        BY <3>1 DEF IsSubject, Names, Tracked, OfRegister
      <4>2. p[1][2] \notin K
        BY <2>3, <4>1
      <4> QED
        BY <1>2, <4>1, <4>2 DEF Loaded
    <3>2. ASSUME p[1][1] = "bank" PROVE selected'[p[1][2]] = selected[p[1][2]]
      <4>1. p[1] = OfBank(p[1][2]) /\ p[1][2] \in Devices
        BY <3>2 DEF IsSubject, Names, OfBank
      <4>2. \A k \in DOMAIN memory : k[1] # p[1][2]
        BY <2>3, <4>1
      <4> QED
        BY <4>1, <4>2 DEF LoadMemory, TInv, TypeOK
    <3> QED
      BY <1>1, <2>3, <3>1, <3>2, SameValue DEF Holds
  <2> QED
    BY <2>1, <2>2, <2>3
<1>4. After(F \cap G)
  BY <1>3 DEF After
<1>5. NoFault \/ Fault(i, "I2C")
  BY DEF LoadMemory
<1>6. /\ <<pc + 1, G>> \in Flow(board, pc, i, F)
      /\ <<pc + i.fail, With(Faulted(F \cap G), OfErr, "I2C")>> \in Flow(board, pc, i, F)
  BY DEF LoadMemory, Flow, Provided
<1> QED
  BY <1>1, <1>3, <1>4, <1>5, <1>6, AccessFollows

---------------------------------------------------------------------------
(* Fields, decisions and errors.                                           *)

Elsewhere == UNCHANGED <<board, arg, chip, memory, reads, cancel, faults>>

LEMMA NothingChanges ==
  ASSUME NEW F, Holds(F), Elsewhere, UNCHANGED <<drv, put, err>>
  PROVE  Holds(F)'
BY SameValue, SameKept DEF Holds, Elsewhere, chip

LEMMA ErrChanges ==
  ASSUME NEW F, Holds(F), Elsewhere, UNCHANGED <<drv, put>>, NEW e, err' = e
  PROVE  Holds(With(F, OfErr, e))'
<1>1. \A p \in F : p[1] # OfErr /\ IsSubject(board, p[1])' => Value(p[1])' = p[2]
  BY SameValue, SameKept DEF Holds, Elsewhere, chip
<1> QED
  BY <1>1, WithTrue, ValueNext

\* What a decision, or a handler of errors, is about.
LEMMA DecidedKnown ==
  ASSUME NEW i, NEW F, Holds(F), Closed(board, F)
  PROVE  IF Decided(i) THEN Told(F, About(i)) \subseteq i.val ELSE Told(F, About(i)) \cap i.val = {}
<1>1. \A v \in Told(F, About(i)) : v = IF i.reg = "arg" THEN arg ELSE drv[i.reg]
  BY ToldTrue, ValueOf DEF About
<1> QED
  BY <1>1 DEF Decided

LEMMA ErrorsKnown ==
  ASSUME NEW F, Holds(F), Closed(board, F)
  PROVE  Told(F, OfErr) \subseteq {err} /\ Told(F, OfPut) \subseteq {put}
BY ToldTrue, ValueOf

\* Instructions after which the same is known.
LEMMA QuietFollows ==
  ASSUME NEW i, Wait(i) \/ JumpAway(i) \/ Choose(i), NEW F, Holds(F)
  PROVE  Follows(i, F)
<1>1. Holds(F)'
  <2>1. Elsewhere /\ UNCHANGED <<drv, put, err>>
    BY DEF Wait, JumpAway, Choose, Elsewhere, Within, Quiet, Here, Step
  <2> QED
    BY <2>1, NothingChanges
<1>2. <<pc', F>> \in Flow(board, pc, i, F)
  BY DEF Wait, JumpAway, Choose, Step, Goto, Flow, Provided
<1> QED
  BY <1>1, <1>2 DEF Follows

\* An empty memory says nothing that the registers do not hold.
LEMMA ClearFollows ==
  ASSUME NEW i, ClearMemory(i), NEW F, Holds(F)
  PROVE  Follows(i, F)
<1>1. /\ pc' = pc + 1 /\ memory' = <<>>
      /\ UNCHANGED <<board, arg, put, err, drv, selected, regs, frozen, reads, cancel, faults>>
  BY DEF ClearMemory, Within, Step, chip
<1>2. Value(OfKept)' = "yes"
  <2>1. DOMAIN memory' = {}
    BY <1>1
  <2> QED
    BY <2>1, ValueNext DEF Whether
<1>3. \A p \in F : p[1] # OfKept /\ IsSubject(board, p[1])' => Value(p[1])' = p[2]
  BY <1>1, SameValue DEF Holds
<1>4. Holds(With(F, OfKept, "yes"))'
  BY <1>2, <1>3, WithTrue
<1>5. <<pc', With(F, OfKept, "yes")>> \in Flow(board, pc, i, F)
  BY <1>1 DEF ClearMemory, Flow, Provided
<1> QED
  BY <1>4, <1>5 DEF Follows

\* A measurement that begins, or ends with its function, has read nothing.
LEMMA SampleFollows ==
  ASSUME NEW i, BeginSample(i) \/ Return(i), NEW F, Holds(F)
  PROVE  Follows(i, F)
<1>1. /\ reads' = "none" /\ pc' = IF i.op = "sample" THEN pc + 1 ELSE 0
      /\ UNCHANGED <<board, arg, put, err, drv, selected, regs, frozen, memory, cancel, faults>>
  BY DEF BeginSample, Return, Within, Step, chip
<1>2. \A p \in F : p[1] # OfReads /\ IsSubject(board, p[1])' => Value(p[1])' = p[2]
  BY <1>1, SameValue, SameKept DEF Holds
<1>3. Holds(With(F, OfReads, "none"))'
  BY <1>1, <1>2, WithTrue, ValueNext
<1>4. <<pc', With(F, OfReads, "none")>> \in Flow(board, pc, i, F)
  BY <1>1 DEF BeginSample, Return, Flow, Provided
<1> QED
  BY <1>3, <1>4 DEF Follows

\* The other thread's flag, cleared or found.
LEMMA ClearFlagFollows ==
  ASSUME NEW i, ClearFlag(i), NEW F, Holds(F)
  PROVE  Follows(i, F)
<1> DEFINE G == With(Without(F, OfRequest), OfFresh, "yes")
<1>1. /\ pc' = pc + 1 /\ cancel' = "no"
      /\ UNCHANGED <<board, arg, put, err, drv, selected, regs, frozen, memory, reads, faults>>
  BY DEF ClearFlag, Within, Step, chip
<1>2. \A p \in Without(F, OfRequest) :
        p[1] # OfFresh /\ IsSubject(board, p[1])' => Value(p[1])' = p[2]
  BY <1>1, SameValue, SameKept DEF Holds, Without
<1>3. Value(OfFresh)' = "yes"
  BY <1>1, ValueNext DEF Whether
<1>4. Holds(G)'
  BY <1>2, <1>3, WithTrue
<1>5. <<pc', G>> \in Flow(board, pc, i, F)
  BY <1>1 DEF ClearFlag, Flow, Provided
<1> QED
  BY <1>4, <1>5 DEF Follows

LEMMA TestFlagFollows ==
  ASSUME TInv, NEW i, TestFlag(i), NEW F, Holds(F), Closed(board, F)
  PROVE  Follows(i, F)
<1>1. i.op = "testCancel" /\ Elsewhere /\ UNCHANGED <<drv, put>>
  BY DEF TestFlag, Elsewhere, Here, Quiet, Within
<1>2. CASE cancel = "no"
  <2>1. pc' = pc + 1 /\ err' = err
    BY <1>2 DEF TestFlag, Step
  <2>2. <<pc', F>> \in Flow(board, pc, i, F)
    BY <1>1, <2>1 DEF Flow, Provided
  <2> QED
    BY <1>1, <2>1, <2>2, NothingChanges DEF Follows
<1>3. CASE cancel # "no"
  <2>1. pc' = pc + i.fail /\ err' = i.err
    BY <1>3 DEF TestFlag, Raise
  <2>2. Holds(Found(F))
    <3>1. CASE Told(F, OfFresh) = {}
      BY <3>1 DEF Found
    <3>2. CASE Told(F, OfFresh) # {}
      <4>1. Value(OfFresh) = "yes"
        BY <3>2, ToldTrue DEF Told, Closed
      <4>2. cancel = "now"
        BY <1>3, <4>1, ValueOf DEF Whether, TInv, TypeOK
      <4>3. Value(OfRequest) = "yes"
        BY <4>2, ValueOf DEF Whether
      <4>4. \A p \in With(F, OfRequest, "yes") : p \in F \/ p = <<OfRequest, "yes">>
        BY DEF With, Without
      <4> QED
        BY <3>2, <4>3, <4>4 DEF Found, Holds
    <3> QED
      BY <3>1, <3>2
  <2>3. Holds(With(Found(F), OfErr, i.err))'
    BY <1>1, <2>1, <2>2, ErrChanges
  <2>4. <<pc', With(Found(F), OfErr, i.err)>> \in Flow(board, pc, i, F)
    BY <1>1, <2>1 DEF Flow, Provided
  <2> QED
    BY <2>3, <2>4 DEF Follows
<1> QED
  BY <1>2, <1>3

LEMMA AssignFollows ==
  ASSUME TInv, NEW i, AssignField(i), NEW F, Holds(F), Closed(board, F)
  PROVE  Follows(i, F)
<1> DEFINE value == IF i.op = "assign" THEN i.val ELSE arg
<1>1. /\ pc' = pc + 1 /\ Elsewhere /\ UNCHANGED <<put, err>>
      /\ drv' = [drv EXCEPT ![i.reg] = value]
  BY DEF AssignField, Step, Quiet, Within, Elsewhere, chip
<1>2. \A p \in F : p[1] # OfField(i.reg) /\ IsSubject(board, p[1])' => Value(p[1])' = p[2]
  <2> SUFFICES ASSUME NEW p \in F, p[1] # OfField(i.reg), IsSubject(board, p[1])
               PROVE  Value(p[1])' = p[2]
    BY <1>1 DEF Elsewhere
  <2>1. p[1][1] = "field" => drv'[p[1][2]] = drv[p[1][2]]
    BY <1>1 DEF IsSubject, Names, TInv, TypeOK, OfField
  <2> QED
    BY <1>1, <2>1, SameValue, SameKept DEF Holds, Elsewhere, chip
<1>3. IsSubject(board, OfField(i.reg))' => Value(OfField(i.reg))' = value
  BY <1>1, ValueNext DEF IsSubject, Names, TInv, TypeOK, OfField, Elsewhere
<1>4. CASE i.op = "assign"
  <2>1. Holds(With(F, OfField(i.reg), i.val))'
    BY <1>2, <1>3, <1>4, <1>1, WithTrue DEF Elsewhere
  <2>2. <<pc', With(F, OfField(i.reg), i.val)>> \in Flow(board, pc, i, F)
    BY <1>1, <1>4 DEF Flow, Provided
  <2> QED
    BY <2>1, <2>2 DEF Follows
<1>5. CASE i.op = "assignArg"
  <2>1. \A p \in Copied(F, OfArg, OfField(i.reg)) :
          \/ p \in F /\ p[1] # OfField(i.reg)
          \/ \E v \in Told(F, OfArg) : p = <<OfField(i.reg), v>>
    BY DEF Copied, Without
  <2>2. \A v \in Told(F, OfArg) : v = value
    BY <1>5, ToldTrue, ValueOf
  <2>3. Holds(Copied(F, OfArg, OfField(i.reg)))'
    BY <1>2, <1>3, <2>1, <2>2 DEF Holds
  <2>4. <<pc', Copied(F, OfArg, OfField(i.reg))>> \in Flow(board, pc, i, F)
    BY <1>1, <1>5 DEF Flow, Provided
  <2> QED
    BY <2>3, <2>4 DEF Follows
<1> QED
  BY <1>4, <1>5 DEF AssignField

LEMMA DecisionFollows ==
  ASSUME NEW i, Require(i) \/ Branch(i), NEW F, Holds(F), Closed(board, F)
  PROVE  Follows(i, F)
<1>1. Elsewhere /\ UNCHANGED <<drv, put>>
  BY DEF Require, Branch, Elsewhere, Here, Quiet, Within, chip
<1>2. CASE Decided(i)
  <2>1. pc' = pc + 1 /\ err' = err
    BY <1>2 DEF Require, Branch, Step
  <2>2. <<pc', F>> \in Flow(board, pc, i, F)
    BY <1>2, <2>1, DecidedKnown DEF Require, Branch, Flow, Provided
  <2> QED
    BY <1>1, <2>1, <2>2, NothingChanges DEF Follows
<1>3. CASE ~Decided(i) /\ Require(i)
  <2>1. pc' = pc + i.fail /\ err' = i.err
    BY <1>3 DEF Require, Raise
  <2>2. <<pc', With(F, OfErr, i.err)>> \in Flow(board, pc, i, F)
    BY <1>3, <2>1, DecidedKnown DEF Require, Flow, Provided
  <2> QED
    BY <1>1, <2>1, <2>2, ErrChanges DEF Follows
<1>4. CASE ~Decided(i) /\ Branch(i)
  <2>1. pc' = pc + i.to /\ err' = err
    BY <1>4 DEF Branch, Goto
  <2>2. <<pc', F>> \in Flow(board, pc, i, F)
    BY <1>4, <2>1, DecidedKnown DEF Branch, Flow, Provided
  <2> QED
    BY <1>1, <2>1, <2>2, NothingChanges DEF Follows
<1> QED
  BY <1>2, <1>3, <1>4

LEMMA RaiseFollows ==
  ASSUME NEW i, CheckData(i) \/ TimeOut(i) \/ ReturnError(i), NEW F, Holds(F)
  PROVE  Follows(i, F)
<1>1. Elsewhere /\ UNCHANGED <<drv, put>>
  BY DEF CheckData, TimeOut, ReturnError, Elsewhere, Here, Quiet, Within, chip
<1>2. CASE Raise(i, i.err)
  <2>1. pc' = pc + i.fail /\ err' = i.err
    BY <1>2 DEF Raise
  <2>2. <<pc', With(F, OfErr, i.err)>> \in Flow(board, pc, i, F)
    BY <2>1 DEF CheckData, TimeOut, ReturnError, Flow, Provided
  <2> QED
    BY <1>1, <2>1, <2>2, ErrChanges DEF Follows
<1>3. CASE Step /\ i.op # "raise"
  <2>1. pc' = pc + 1 /\ err' = err
    BY <1>3 DEF Step
  <2>2. <<pc', F>> \in Flow(board, pc, i, F)
    BY <1>3, <2>1 DEF CheckData, TimeOut, ReturnError, Flow, Provided
  <2> QED
    BY <1>1, <2>1, <2>2, NothingChanges DEF Follows
<1> QED
  BY <1>2, <1>3 DEF CheckData, TimeOut, ReturnError

LEMMA HandlerFollows ==
  ASSUME NEW i, Unless(i) \/ Catch(i) \/ Forget(i) \/ Rethrow(i),
         NEW F, Holds(F), Closed(board, F)
  PROVE  Follows(i, F)
<1>1. Elsewhere /\ UNCHANGED <<drv, put>>
  BY DEF Unless, Catch, Forget, Rethrow, Elsewhere, Here, Quiet, Within, chip
<1>2. Told(F, OfErr) \subseteq {err}
  BY ErrorsKnown
<1>3. CASE err' = err /\ <<pc', F>> \in Flow(board, pc, i, F)
  BY <1>1, <1>3, NothingChanges DEF Follows
<1>4. CASE err' = "OK" /\ <<pc', With(F, OfErr, "OK")>> \in Flow(board, pc, i, F)
  BY <1>1, <1>4, ErrChanges DEF Follows
<1>5. CASE Unless(i)
  <2>1. err' = err /\ pc' = IF err = "OK" THEN pc + i.to ELSE pc + 1
    BY <1>5 DEF Unless, Goto
  <2>2. <<pc', F>> \in Flow(board, pc, i, F)
    BY <1>2, <1>5, <2>1 DEF Unless, Flow, Provided
  <2> QED
    BY <1>3, <2>1, <2>2
<1>6. CASE Catch(i)
  <2>1. i.op = "catch"
    BY <1>6 DEF Catch
  <2>2. CASE err = "OK" /\ pc' = pc + i.to /\ err' = err
    <3>1. <<pc', F>> \in Flow(board, pc, i, F)
      BY <1>2, <2>1, <2>2 DEF Flow, Provided
    <3> QED
      BY <1>3, <2>2, <3>1
  <2>3. CASE err # "OK" /\ err \in i.val /\ err' = "OK" /\ pc' = pc + 1
    <3>1. <<pc', With(F, OfErr, "OK")>> \in Flow(board, pc, i, F)
      BY <1>2, <2>1, <2>3 DEF Flow, Provided
    <3> QED
      BY <1>4, <2>3, <3>1
  <2>4. CASE err # "OK" /\ err \notin i.val /\ err' = err /\ pc' = pc + i.fail
    <3>1. <<pc', F>> \in Flow(board, pc, i, F)
      BY <1>2, <2>1, <2>4 DEF Flow, Provided
    <3> QED
      BY <1>3, <2>4, <3>1
  <2> QED
    BY <1>6, <2>2, <2>3, <2>4 DEF Catch, Goto, Raise
<1>7. CASE Forget(i)
  BY <1>4, <1>7 DEF Forget, Flow, Provided
<1>8. CASE Rethrow(i)
  <2>1. err' = err /\ pc' = IF err = "OK" THEN pc + 1 ELSE pc + i.fail
    BY <1>8 DEF Rethrow, Step, Raise
  <2>2. <<pc', F>> \in Flow(board, pc, i, F)
    BY <1>2, <1>8, <2>1 DEF Rethrow, Flow, Provided
  <2> QED
    BY <1>3, <2>1, <2>2
<1> QED
  BY <1>5, <1>6, <1>7, <1>8

\* An error put aside, and back again.
LEMMA AsideFollows ==
  ASSUME NEW i, PutAside(i), NEW F, Holds(F), Closed(board, F)
  PROVE  Follows(i, F)
<1> DEFINE G == With(Copied(F, OfErr, OfPut), OfErr, "OK")
<1>1. pc' = pc + 1 /\ put' = err /\ err' = "OK" /\ Elsewhere /\ drv' = drv
  BY DEF PutAside, Elsewhere, Quiet, Within, chip
<1>2. Holds(G)'
  <2>1. \A p \in F : p[1] \notin {OfErr, OfPut} /\ IsSubject(board, p[1])' => Value(p[1])' = p[2]
    BY <1>1, SameValue, SameKept DEF Holds, Elsewhere, chip
  <2>2. \A v \in Told(F, OfErr) : Value(OfPut)' = v
    BY <1>1, ErrorsKnown, ValueNext
  <2>3. \A p \in Copied(F, OfErr, OfPut) :
          p[1] # OfErr /\ IsSubject(board, p[1])' => Value(p[1])' = p[2]
    BY <2>1, <2>2 DEF Copied, Without
  <2> QED
    BY <1>1, <2>3, WithTrue, ValueNext
<1>3. <<pc', G>> \in Flow(board, pc, i, F)
  BY <1>1 DEF PutAside, Flow, Provided
<1> QED
  BY <1>2, <1>3 DEF Follows

LEMMA BackFollows ==
  ASSUME NEW i, ComeBack(i), NEW F, Holds(F), Closed(board, F)
  PROVE  Follows(i, F)
<1>1. put' = "OK" /\ Elsewhere /\ drv' = drv
  BY DEF ComeBack, Elsewhere, Quiet, Within, chip
<1>2. Told(F, OfPut) \subseteq {put} /\ Value(OfPut)' = "OK"
  BY <1>1, ErrorsKnown, ValueNext
<1>3. CASE put = "OK"
  <2>1. pc' = pc + 1 /\ err' = err
    BY <1>3 DEF ComeBack, Step
  <2>2. \A p \in F : p[1] # OfPut /\ IsSubject(board, p[1])' => Value(p[1])' = p[2]
    BY <1>1, <2>1, SameValue, SameKept DEF Holds, Elsewhere, chip
  <2>3. Holds(With(F, OfPut, "OK"))'
    BY <1>2, <2>2, WithTrue
  <2>4. <<pc', With(F, OfPut, "OK")>> \in Flow(board, pc, i, F)
    BY <1>2, <1>3, <2>1 DEF ComeBack, Flow, Provided
  <2> QED
    BY <2>3, <2>4 DEF Follows
<1>4. CASE put # "OK"
  <2> DEFINE G == With(Copied(F, OfPut, OfErr), OfPut, "OK")
  <2>1. pc' = pc + i.fail /\ err' = put
    BY <1>4 DEF ComeBack, Raise
  <2>2. \A p \in F : p[1] \notin {OfErr, OfPut} /\ IsSubject(board, p[1])' => Value(p[1])' = p[2]
    BY <1>1, <2>1, SameValue, SameKept DEF Holds, Elsewhere, chip
  <2>3. \A v \in Told(F, OfPut) : Value(OfErr)' = v
    BY <1>2, <2>1, ValueNext
  <2>4. \A p \in Copied(F, OfPut, OfErr) :
          p[1] # OfPut /\ IsSubject(board, p[1])' => Value(p[1])' = p[2]
    BY <2>2, <2>3 DEF Copied, Without
  <2>5. Holds(G)'
    BY <1>2, <2>4, WithTrue
  <2>6. <<pc', G>> \in Flow(board, pc, i, F)
    BY <1>2, <1>4, <2>1 DEF ComeBack, Flow, Provided
  <2> QED
    BY <2>5, <2>6 DEF Follows
<1> QED
  BY <1>3, <1>4

\* Every instruction follows one of the ways from what is known before it.
LEMMA ExecuteFollows ==
  ASSUME TInv, DOMAIN memory \subseteq Savable[board], NEW i, Execute(i),
         NEW F, Holds(F), Closed(board, F)
  PROVE  Follows(i, F)
<1>1. CASE SelectBank(i) \/ WriteRegister(i) \/ SaveRegister(i) \/ Read(i) \/ Probe(i)
  BY <1>1, SelectFollows, WriteFollows, ReadFollows, ProbeFollows
<1>2. CASE FreezeReg(i) \/ UnFreezeReg(i) \/ ResetDevice(i) \/ LoadMemory(i) \/ ClearMemory(i)
  BY <1>2, FreezeFollows, ThawFollows, ResetFollows, LoadFollows, ClearFollows
<1>3. CASE AssignField(i) \/ Require(i) \/ Branch(i) \/ CheckData(i) \/ TimeOut(i) \/ ReturnError(i)
  BY <1>3, AssignFollows, DecisionFollows, RaiseFollows
<1>4. CASE Wait(i) \/ JumpAway(i) \/ Choose(i) \/ BeginSample(i) \/ Return(i)
             \/ ClearFlag(i) \/ TestFlag(i)
  BY <1>4, QuietFollows, SampleFollows, ClearFlagFollows, TestFlagFollows
<1>5. CASE Unless(i) \/ Catch(i) \/ Forget(i) \/ Rethrow(i) \/ PutAside(i) \/ ComeBack(i)
  BY <1>5, HandlerFollows, AsideFollows, BackFollows
<1> QED
  BY <1>1, <1>2, <1>3, <1>4, <1>5 DEF Execute

\* Only registers that some function saves are in the configuration memory.
LEMMA ExecuteSaves ==
  ASSUME TInv, call # NoCall, pc # 0, DOMAIN memory \subseteq Savable[board],
         SavesSavable(board, Prog[call]), NEW i, i = Prog[call][pc], Execute(i)
  PROVE  DOMAIN memory' \subseteq Savable[board]
<1> USE DEF Within, Quiet, Here
<1>1. CASE SaveRegister(i)
  <2>1. DOMAIN Saved(i) = DOMAIN memory \cup ({Reached(i)} \cap Tracked)
    BY DEF Saved
  <2>2. call \in CallsOf[board] /\ pc \in DOMAIN Prog[call] /\ i.op = "save"
    BY <1>1 DEF SaveRegister, TInv, Placed
  <2>3. Reached(i)[1] = i.dev /\ Reached(i)[3] = i.reg
    BY DEF Reached
  <2>4. Reached(i) \in Tracked => Reached(i) \in Savable[board]
    BY <2>2, <2>3 DEF SavesSavable, Tracked
  <2>5. memory' = Saved(i) \/ memory' = memory
    BY <1>1 DEF SaveRegister
  <2> QED
    BY <2>1, <2>4, <2>5
<1>2. CASE ClearMemory(i)
  BY <1>2 DEF ClearMemory
<1>3. CASE SelectBank(i) \/ WriteRegister(i) \/ Read(i) \/ Probe(i) \/ FreezeReg(i) \/ UnFreezeReg(i)
  BY <1>3 DEF SelectBank, WriteRegister, Read, Probe, FreezeReg, UnFreezeReg
<1>4. CASE ResetDevice(i) \/ LoadMemory(i) \/ AssignField(i) \/ Require(i) \/ CheckData(i) \/ ReturnError(i)
  BY <1>4 DEF ResetDevice, LoadMemory, AssignField, Require, CheckData, ReturnError
<1>5. CASE JumpAway(i) \/ Branch(i) \/ Choose(i) \/ Catch(i) \/ Unless(i) \/ Forget(i)
  BY <1>5 DEF JumpAway, Branch, Choose, Catch, Unless, Forget
<1>6. CASE PutAside(i) \/ ComeBack(i) \/ Rethrow(i) \/ Wait(i) \/ TimeOut(i)
  BY <1>6 DEF PutAside, ComeBack, Rethrow, Wait, TimeOut
<1>7. CASE ClearFlag(i) \/ TestFlag(i) \/ BeginSample(i) \/ Return(i)
  BY <1>7 DEF ClearFlag, TestFlag, BeginSample, Return
<1> QED
  BY <1>1, <1>2, <1>3, <1>4, <1>5, <1>6, <1>7 DEF Execute

---------------------------------------------------------------------------
(* Outlines are kept to.                                                   *)

\* What outlines K of a board's functions say of its state.
KeepsTo(b, K, start) ==
  board = b =>
    /\ DOMAIN memory \subseteq Savable[b]
    /\ Idle => \E F \in start : Holds(F)
    /\ call # NoCall => \E F \in K[call][pc] : Holds(F)

LEMMA InitKeeps ==
  ASSUME NEW b, NEW K, NEW start, Init, Covers(start, AtFirst(b))
  PROVE  KeepsTo(b, K, start)
<1>0. DOMAIN memory = {} /\ call = NoCall
  <2>1. memory = <<>> /\ call = NoCall
    BY DEF Init
  <2> QED
    BY <2>1
<1> SUFFICES ASSUME board = b PROVE \E F \in start : Holds(F)
  BY <1>0 DEF KeepsTo
<1>1. \A p \in AtFirst(b) : IsSubject(b, p[1]) => Value(p[1]) = p[2]
  <2> SUFFICES ASSUME NEW p \in AtFirst(b), IsSubject(b, p[1]) PROVE Value(p[1]) = p[2]
    OBVIOUS
  <2>1. CASE \E d \in Devices : p = <<OfBank(d), 0>>
    BY <2>1, ValueOf DEF Init
  <2>2. CASE \E k \in DOMAIN AtPower[b] : p = <<OfRegister(k), AtPower[b][k]>>
    BY <2>2, ValueOf DEF Init
  <2>3. CASE \E x \in DOMAIN FieldsOf[b] : p = <<OfField(x), FieldsOf[b][x]>>
    BY <2>3, ValueOf DEF Init
  <2>4. CASE p \in {<<OfErr, "OK">>, <<OfPut, "OK">>, <<OfArg, NoArg>>, <<OfFaults, "none">>}
    BY <2>4, ValueOf DEF Init
  <2>5. CASE p \in {<<OfFrozen, "thawed">>, <<OfReads, "none">>}
    BY <2>5, ValueOf DEF Init
  <2>6. CASE p = <<OfKept, "yes">>
    BY <1>0, <2>6, ValueOf DEF Whether
  <2> QED
    BY <2>1, <2>2, <2>3, <2>4, <2>5, <2>6 DEF AtFirst
<1> QED
  BY <1>1 DEF Covers, Holds

LEMMA RunKeeps ==
  ASSUME NEW b \in Boards, NEW K, NEW start,
         \A f \in CallsOf[b] : Sound(b, f, Prog[f], K[f], start),
         TInv, KeepsTo(b, K, start), Run, board = b
  PROVE  KeepsTo(b, K, start)'
<1>1. PICK i : i = Prog[call][pc] /\ Execute(i) /\ call # NoCall /\ pc # 0
  BY DEF Run, Due
<1>2. call \in CallsOf[b] /\ pc \in DOMAIN Prog[call]
  BY <1>1 DEF TInv, Placed
<1>3. PICK F \in K[call][pc] : Holds(F)
  BY <1>1 DEF KeepsTo
<1>4. /\ Closed(b, F)
      /\ \A flow \in Flow(b, pc, i, F) : Covers(K[call][flow[1]], flow[2])
  BY <1>1, <1>2, <1>3 DEF Sound, Followed
<1>5. UNCHANGED <<board, call>>
  BY <1>1, ExecuteLeads
<1>6. DOMAIN memory' \subseteq Savable[b]
  BY <1>1, <1>2, ExecuteSaves DEF KeepsTo, Sound
<1>7. PICK flow \in Flow(b, pc, i, F) : flow[1] = pc' /\ Holds(flow[2])'
  BY <1>1, <1>3, <1>4, ExecuteFollows DEF Follows, KeepsTo
<1>8. PICK G \in K[call][pc'] : G \subseteq flow[2]
  BY <1>4, <1>7 DEF Covers
<1>9. Holds(G)'
  BY <1>7, <1>8 DEF Holds
<1> QED
  BY <1>1, <1>5, <1>6, <1>8, <1>9 DEF KeepsTo, Idle

LEMMA NextKeeps ==
  ASSUME NEW b \in Boards, NEW K, NEW start,
         \A f \in CallsOf[b] : Sound(b, f, Prog[f], K[f], start),
         TInv, KeepsTo(b, K, start), [Next]_vars
  PROVE  KeepsTo(b, K, start)'
<1>1. board' = board
  BY ExecuteLeads DEF Next, Call, Run, Due, Resume, Cancel, vars
<1> SUFFICES ASSUME board = b PROVE KeepsTo(b, K, start)'
  BY <1>1 DEF KeepsTo
<1>2. ASSUME NEW f \in CallsOf[b], NEW a \in ArgsOf(f), Call(f, a) PROVE KeepsTo(b, K, start)'
  <2>1. PICK F \in start : Holds(F)
    BY <1>2 DEF Call, KeepsTo
  <2>2. PICK G \in K[f][1] : G \subseteq Called(F, a)
    BY DEF Sound, Covers
  <2>3. Holds(Called(F, a))'
    <3>1. \A p \in F : p[1] \notin {OfArg, OfFresh, OfRequest} /\ IsSubject(board, p[1])' => Value(p[1])' = p[2]
      BY <1>1, <1>2, <2>1, SameValue, SameKept DEF Call, Holds, chip
    <3>2. Value(OfArg)' = a
      BY <1>2, ValueNext DEF Call
    <3>3. \A p \in Called(F, a) :
             \/ p \in F /\ p[1] \notin {OfArg, OfFresh, OfRequest}
             \/ p = <<OfArg, a>>
      BY DEF Called, With, Without
    <3> QED
      BY <3>1, <3>2, <3>3 DEF Holds
  <2>4. Holds(G)'
    BY <2>2, <2>3 DEF Holds
  <2>5. f # NoCall
    BY ProgramAssumption
  <2>6. call' = f /\ pc' = 1 /\ memory' = memory
    BY <1>2 DEF Call
  <2> QED
    BY <2>2, <2>4, <2>5, <2>6 DEF KeepsTo, Idle
<1>3. CASE Run
  BY <1>3, RunKeeps
<1>4. CASE Resume
  <2>1. PICK F \in K[call][0] : Holds(F)
    BY <1>4 DEF Resume, Returned, KeepsTo
  <2>2. call \in CallsOf[b]
    BY <1>4 DEF Resume, Returned, TInv, Placed
  <2>3. PICK G \in start : G \subseteq Resumed(F)
    BY <2>1, <2>2 DEF Sound, Covers
  <2>4. Holds(Resumed(F))'
    <3> DEFINE H == With(F, OfErr, "OK")
    <3>1. \A p \in F : p[1] \notin {OfErr, OfArg} /\ IsSubject(board, p[1])' => Value(p[1])' = p[2]
      BY <1>1, <1>4, <2>1, SameValue, SameKept DEF Resume, Holds, chip
    <3>2. Value(OfErr)' = "OK" /\ Value(OfArg)' = NoArg
      BY <1>4, ValueNext DEF Resume
    <3>3. \A p \in H : (p \in F /\ p[1] # OfErr) \/ p = <<OfErr, "OK">>
      BY DEF With, Without
    <3>4. \A p \in H : p[1] # OfArg /\ IsSubject(board, p[1])' => Value(p[1])' = p[2]
      BY <3>1, <3>2, <3>3
    <3> QED
      BY <3>2, <3>4, WithTrue DEF Resumed
  <2>5. Holds(G)'
    BY <2>3, <2>4 DEF Holds
  <2> QED
    BY <1>4, <2>5 DEF Resume, KeepsTo, Idle
<1>5. CASE Cancel
  <2>1. UNCHANGED <<call, pc, err, put, arg, drv, selected, regs, frozen, memory, reads, faults>>
    BY <1>5 DEF Cancel, chip
  <2>2. call # NoCall /\ cancel' = "now"
    BY <1>5 DEF Cancel
  <2>3. PICK F \in K[call][pc] : Holds(F)
    BY <2>2 DEF KeepsTo
  <2>4. Closed(b, F)
    <3>1. call \in CallsOf[b] /\ pc \in DOMAIN Prog[call] \cup {0}
      BY <2>2 DEF TInv, Placed
    <3> QED
      BY <3>1 DEF Sound, Followed
  <2>5. Holds(F)'
    <3> SUFFICES ASSUME NEW p \in F, IsSubject(board, p[1])' PROVE Value(p[1])' = p[2]
      BY DEF Holds
    <3>1. CASE p[1] \in {OfFresh, OfRequest}
      <4>1. p[2] = "yes"
        BY <2>4, <3>1 DEF Closed
      <4> QED
        BY <2>2, <3>1, <4>1, ValueNext DEF Whether
    <3>2. CASE p[1] \notin {OfFresh, OfRequest}
      BY <1>1, <2>1, <2>3, <3>2, SameValue, SameKept DEF Holds
    <3> QED
      BY <3>1, <3>2
  <2> QED
    BY <2>1, <2>2, <2>3, <2>5 DEF KeepsTo, Idle
<1>6. CASE UNCHANGED vars
  <2>1. UNCHANGED <<board, call, pc, err, put, arg, drv, selected, regs, frozen, memory, reads,
                    cancel, faults>>
    BY <1>6 DEF vars, chip
  <2>2. \A F : Holds(F) => Holds(F)'
    BY <2>1, SameValue, SameKept DEF Holds
  <2> QED
    BY <2>1, <2>2 DEF KeepsTo, Idle
<1> QED
  BY <1>2, <1>3, <1>4, <1>5, <1>6 DEF Next


---------------------------------------------------------------------------
(* What follows from that of a program's runs.                             *)

OutlinesOf(b, w) == [f \in CallsOf[b] |-> OutlineOf(b, f, Prog[f], w)]
Kept(B, w) == TInv /\ \A b \in B : KeepsTo(b, OutlinesOf(b, w), w.start)

LEMMA InitKept ==
  ASSUME NEW B, B \subseteq Boards, NEW w, \A b \in B : Outlined(b, w)
  PROVE  Init => Kept(B, w)
BY InitTypes, InitKeeps DEF Outlined, Begins, Kept

LEMMA NextKept ==
  ASSUME NEW B, B \subseteq Boards, NEW w, \A b \in B : Outlined(b, w)
  PROVE  Kept(B, w) /\ [Next]_vars => Kept(B, w)'
<1> SUFFICES ASSUME Kept(B, w), [Next]_vars PROVE Kept(B, w)'
  OBVIOUS
<1>1. ASSUME NEW b \in B PROVE KeepsTo(b, OutlinesOf(b, w), w.start)'
  <2>1. \A f \in CallsOf[b] : Sound(b, f, Prog[f], OutlinesOf(b, w)[f], w.start)
    BY DEF Outlined, OutlinesOf
  <2> QED
    BY <2>1, NextKeeps DEF Kept
<1> QED
  BY <1>1, NextTypes DEF Kept

\* Where the functions called on a board have sound outlines, one of the
\* alternatives of its outline holds at each place of each, and between calls
\* one of those of the start.
THEOREM OutlinesKept ==
  ASSUME NEW CONSTANT B, B \subseteq Boards, NEW CONSTANT w, \A b \in B : Outlined(b, w)
  PROVE  Spec => []Kept(B, w)
BY InitKept, NextKept, PTL DEF Spec

LEMMA KeptIdle ==
  ASSUME NEW B, NEW w, Kept(B, w), board \in B, Idle
  PROVE  \E F \in w.start : Holds(F)
BY DEF Kept, KeepsTo

LEMMA KeptAt ==
  ASSUME NEW B, NEW w, Kept(B, w), board \in B, call # NoCall
  PROVE  /\ call \in CallsOf[board] /\ pc \in DOMAIN Prog[call] \cup {0}
         /\ \E F \in OutlineOf(board, call, Prog[call], w)[pc] : Holds(F)
<1>1. call \in CallsOf[board] /\ pc \in DOMAIN Prog[call] \cup {0}
  BY DEF Kept, TInv, Placed
<1>2. OutlinesOf(board, w)[call] = OutlineOf(board, call, Prog[call], w)
  BY <1>1 DEF OutlinesOf
<1> QED
  BY <1>1, <1>2 DEF Kept, KeepsTo

\* What facts say that hold.
LEMMA FactsTrue ==
  ASSUME NEW F, Holds(F)
  PROVE  /\ \A d \in Devices : \A v : <<OfBank(d), v>> \in F => selected[d] = v
         /\ \A k \in Tracked : \A v : <<OfRegister(k), v>> \in F => regs[k] = v
         /\ \A x \in DOMAIN FieldsOf[board] : \A v : <<OfField(x), v>> \in F => drv[x] = v
         /\ \A v : <<OfErr, v>> \in F => err = v
         /\ <<OfFaults, "some">> \in F => faults # 0
         /\ <<OfFaults, "none">> \in F => faults = 0
         /\ \A v : <<OfReads, v>> \in F => reads = v
         /\ <<OfKept, "yes">> \in F => \A k \in DOMAIN memory : regs[k] = memory[k]
         /\ <<OfRequest, "yes">> \in F => cancel = "now"
<1> USE DEF Holds, IsSubject, Names, Tracked
<1>1. \A d \in Devices : \A v : <<OfBank(d), v>> \in F => selected[d] = v
  BY ValueOf DEF OfBank
<1>2. \A k \in Tracked : \A v : <<OfRegister(k), v>> \in F => regs[k] = v
  BY ValueOf DEF OfRegister
<1>3. \A x \in DOMAIN FieldsOf[board] : \A v : <<OfField(x), v>> \in F => drv[x] = v
  BY ValueOf DEF OfField
<1>4. \A v : <<OfErr, v>> \in F => err = v
  BY ValueOf DEF OfErr
<1>5. \A v : <<OfFaults, v>> \in F => v = IF faults = 0 THEN "none" ELSE "some"
  BY ValueOf DEF OfFaults
<1>6. \A v : <<OfReads, v>> \in F => reads = v
  BY ValueOf DEF OfReads
<1>7. \A v : <<OfKept, v>> \in F => v = Whether(\A k \in DOMAIN memory : regs[k] = memory[k])
  BY ValueOf DEF OfKept
<1>8. \A v : <<OfRequest, v>> \in F => v = Whether(cancel = "now")
  BY ValueOf DEF OfRequest
<1> QED
  BY <1>1, <1>2, <1>3, <1>4, <1>5, <1>6, <1>7, <1>8 DEF Whether

\* A register changes only when an instruction is carried out that touches it.
LEMMA OnlyTouched ==
  ASSUME NEW B, NEW w, Kept(B, w), board \in B, [Next]_vars,
         NEW k \in Tracked, regs'[k] # regs[k]
  PROVE  /\ call # NoCall /\ pc \in DOMAIN Prog[call] /\ call \in CallsOf[board]
         /\ Execute(Prog[call][pc]) /\ Touches(board, Prog[call][pc], k)
<1>1. DOMAIN memory \subseteq Savable[board] /\ TypeOK
  BY DEF Kept, KeepsTo, TInv
<1>2. PICK i \in Due : Execute(i)
  BY DEF Next, Call, Resume, Cancel, Run, vars, chip
<1>3. i = Prog[call][pc] /\ call # NoCall /\ pc \in DOMAIN Prog[call] /\ call \in CallsOf[board]
  BY <1>2 DEF Due, Kept, TInv, Placed
<1> USE DEF Touches
<1>4. regs' # regs
  OBVIOUS
<1>5. CASE WriteRegister(i) \/ SaveRegister(i)
  <2>1. regs' = Written(i) /\ i.op \in {"write", "save"}
    BY <1>4, <1>5 DEF WriteRegister, SaveRegister
  <2>2. k = Reached(i)
    BY <2>1, <1>1 DEF Written, TypeOK
  <2> QED
    BY <1>2, <1>3, <2>1, <2>2 DEF Reached
<1>6. CASE ResetDevice(i)
  <2>1. regs' = Cleared(i) /\ i.op = "reset"
    BY <1>4, <1>6 DEF ResetDevice
  <2> QED
    BY <1>2, <1>3, <2>1 DEF Cleared
<1>7. CASE LoadMemory(i)
  <2>1. i.op = "load" /\ \E M : M \subseteq DOMAIN memory /\ regs' = Loaded(M)
    BY <1>7 DEF LoadMemory
  <2> QED
    BY <1>1, <1>2, <1>3, <2>1 DEF Loaded
<1>8. CASE SelectBank(i) \/ Read(i) \/ Probe(i) \/ FreezeReg(i) \/ UnFreezeReg(i) \/ ClearMemory(i)
  BY <1>4, <1>8 DEF SelectBank, Read, Probe, FreezeReg, UnFreezeReg, ClearMemory, Within, chip
<1>9. CASE AssignField(i) \/ Require(i) \/ CheckData(i) \/ ReturnError(i) \/ JumpAway(i) \/ Branch(i)
             \/ Choose(i) \/ Catch(i) \/ Unless(i) \/ Forget(i)
  BY <1>4, <1>9 DEF AssignField, Require, CheckData, ReturnError, JumpAway, Branch, Choose, Catch,
     Unless, Forget, Here, Quiet, chip
<1>10. CASE PutAside(i) \/ ComeBack(i) \/ Rethrow(i) \/ Wait(i) \/ TimeOut(i) \/ ClearFlag(i)
              \/ TestFlag(i) \/ BeginSample(i) \/ Return(i)
  BY <1>4, <1>10 DEF PutAside, ComeBack, Rethrow, Wait, TimeOut, ClearFlag, TestFlag, BeginSample,
     Return, Here, Quiet, chip
<1> QED
  BY <1>2, <1>5, <1>6, <1>7, <1>8, <1>9, <1>10 DEF Execute

\* A reset is carried out as one.
LEMMA ExecutesReset ==
  ASSUME NEW i, Execute(i), i.op = "reset"
  PROVE  ResetDevice(i)
BY DEF Execute, SelectBank, WriteRegister, Read, Probe, FreezeReg, UnFreezeReg, SaveRegister,
   LoadMemory, ClearMemory, AssignField, Require, CheckData, ReturnError, JumpAway, Branch, Choose,
   Catch, Unless, Forget, PutAside, ComeBack, Rethrow, Wait, TimeOut, ClearFlag, TestFlag,
   BeginSample, Return
=============================================================================
