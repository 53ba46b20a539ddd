--------------------------- MODULE ReceiverProofs ---------------------------
(***************************************************************************)
(* What the texts of the receivers' functions show holds of all their      *)
(* runs, however many accesses fail, however long a function waits, and    *)
(* whenever it is cancelled.                                               *)
(***************************************************************************)
EXTENDS ReceiverTexts, DriverOutlineProofs

---------------------------------------------------------------------------
(* Banks.                                                                  *)

LEMMA BankKnownHere ==
  ASSUME \A b \in Boards : BankText(b, CallsOf[b], Prog), Kept(Boards, BankWatch)
  PROVE  InNamedBank
<1> SUFFICES ASSUME NEW i \in Due, Named(i), faults = 0 \/ i.dev # "D"
             PROVE  selected[i.dev] = i.bank
  BY DEF InNamedBank, Named
<1>1. i = Prog[call][pc] /\ call # NoCall /\ pc # 0 /\ board \in Boards
  BY DEF Due, Kept, TInv, TypeOK
<1>2. /\ call \in CallsOf[board] /\ pc \in DOMAIN Prog[call]
      /\ \E F \in OutlineOf(board, call, Prog[call], BankWatch)[pc] : Holds(F)
  BY <1>1, KeptAt
<1>3. PICK F \in OutlineOf(board, call, Prog[call], BankWatch)[pc] : Holds(F)
  BY <1>2
<1>4. i.dev \in Devices /\ (<<OfBank(i.dev), i.bank>> \in F \/ (i.dev = "D" /\ Failed \subseteq F))
  BY <1>1, <1>2, <1>3 DEF BankText, BankOutline
<1>5. CASE <<OfBank(i.dev), i.bank>> \in F
  BY <1>3, <1>4, <1>5, FactsTrue
<1>6. CASE i.dev = "D" /\ <<OfFaults, "some">> \in F
  BY <1>3, <1>6, FactsTrue
<1> QED
  BY <1>4, <1>5, <1>6 DEF Failed

\* Every access reaches the register that is meant, in programs that name the
\* bank known to be selected wherever they read or write.
THEOREM BanksNamed ==
  ASSUME \A b \in Boards : BankText(b, CallsOf[b], Prog)
  PROVE  Spec => []InNamedBank
<1>1. \A b \in Boards : Outlined(b, BankWatch)
  BY DEF BankText, BankOutline, Outlined
<1>2. Init => Kept(Boards, BankWatch)
  BY <1>1, InitKept
<1>3. Kept(Boards, BankWatch) /\ [Next]_vars => Kept(Boards, BankWatch)'
  BY <1>1, NextKept
<1>4. Kept(Boards, BankWatch) => InNamedBank
  BY BankKnownHere
<1> QED
  BY <1>2, <1>3, <1>4, PTL DEF Spec

LEMMA SampledTogether ==
  ASSUME \A b \in Boards : SnapText(b, CallsOf[b], Prog),
         \A b \in Boards : Kept({b}, SnapWatch(b)), board \in Boards
  PROVE  SameSnapshot
<1> SUFFICES ASSUME faults = 0 PROVE reads # "mixed"
  BY DEF SameSnapshot
<1> DEFINE w == SnapWatch(board)
<1>1. Kept({board}, w) /\ board \in {board}
  OBVIOUS
<1>2. CASE Idle
  <2>1. PICK F \in w.start : Holds(F)
    BY <1>1, <1>2, KeptIdle
  <2>2. <<OfFaults, "some">> \notin F
    BY <2>1, FactsTrue
  <2>3. <<OfReads, "none">> \in F
    BY <2>1, <2>2 DEF SnapWatch, Failed
  <2> QED
    BY <2>1, <2>3, FactsTrue
<1>3. CASE ~Idle
  <2>1. call \in CallsOf[board] /\ pc \in DOMAIN Prog[call] \cup {0}
    BY <1>1, <1>3, KeptAt DEF Idle
  <2>2. PICK F \in OutlineOf(board, call, Prog[call], w)[pc] : Holds(F)
    BY <1>1, <1>3, KeptAt DEF Idle
  <2>3. <<OfFaults, "some">> \notin F
    BY <2>2, FactsTrue
  <2>4. \E r \in {"none", "live", "frozen"} : <<OfReads, r>> \in F
    BY <2>1, <2>2, <2>3 DEF SnapText, SnapOutline, Failed
  <2> QED
    BY <2>2, <2>4, FactsTrue
<1> QED
  BY <1>2, <1>3

\* A measurement that freezes the registers takes all of what it reads while
\* they are frozen, in programs that do so at each of their places.
THEOREM SnapshotsTaken ==
  ASSUME \A b \in Boards : SnapText(b, CallsOf[b], Prog)
  PROVE  Spec => []SameSnapshot
<1> DEFINE Inv == TInv /\ \A b \in Boards : Kept({b}, SnapWatch(b))
<1>1. \A b \in Boards : \A c \in {b} : Outlined(c, SnapWatch(b))
  BY DEF SnapText, SnapOutline, Outlined
<1>2. Init => Inv
  <2> SUFFICES ASSUME Init, NEW b \in Boards PROVE Kept({b}, SnapWatch(b))
    BY InitTypes
  <2> QED
    BY <1>1, InitKept
<1>3. Inv /\ [Next]_vars => Inv'
  <2> SUFFICES ASSUME Inv, [Next]_vars, NEW b \in Boards PROVE Kept({b}, SnapWatch(b))'
    BY NextTypes
  <2>1. {b} \subseteq Boards /\ \A c \in {b} : Outlined(c, SnapWatch(b))
    BY <1>1
  <2>2. Kept({b}, SnapWatch(b)) /\ [Next]_vars => Kept({b}, SnapWatch(b))'
    BY <2>1, NextKept
  <2> QED
    BY <2>2
<1>4. Inv => SameSnapshot
  BY SampledTogether DEF TInv, TypeOK
<1> QED
  BY <1>2, <1>3, <1>4, PTL DEF Spec

---------------------------------------------------------------------------
(* The CXD2837.                                                            *)

WithRepeater == {b \in Boards : Repeater \in DOMAIN AtPower[b]}

LEMMA RepeaterOpenNever ==
  ASSUME \A b \in Boards : Repeater \in DOMAIN AtPower[b] => RepeaterText(b, CallsOf[b], Prog),
         Kept(WithRepeater, RepeaterWatch)
  PROVE  RepeaterClosed
<1> SUFFICES ASSUME Repeater \in Tracked,
                    \/ Idle /\ faults = 0
                    \/ Returned /\ call \in Disconnecting /\ err = "OK"
             PROVE  regs[Repeater] = 0
  BY DEF RepeaterClosed, Disconnecting
<1>1. board \in WithRepeater
  BY DEF Kept, TInv, TypeOK, WithRepeater, Tracked
<1>2. CASE Idle /\ faults = 0
  <2>1. PICK F \in RepeaterWatch.start : Holds(F)
    BY <1>1, <1>2, KeptIdle
  <2>2. <<OfFaults, "some">> \notin F
    BY <1>2, <2>1, FactsTrue
  <2>3. <<OfRegister(Repeater), 0>> \in F
    BY <2>1, <2>2 DEF RepeaterWatch, Calm
  <2> QED
    BY <2>1, <2>3, FactsTrue
<1>3. CASE Returned /\ call \in Disconnecting /\ err = "OK"
  <2>1. call \in CallsOf[board] /\ call # NoCall /\ pc = 0
    BY <1>1, <1>3, KeptAt DEF Returned
  <2>2. PICK F \in OutlineOf(board, call, Prog[call], RepeaterWatch)[0] : Holds(F)
    BY <1>1, <2>1, KeptAt
  <2>3. Told(F, OfErr) \subseteq {"OK"}
    <3>1. IsSubject(board, OfErr)
      BY DEF IsSubject, Names, OfErr
    <3>2. \A p \in F : p[1] = OfErr => p[2] = "OK"
      BY <1>3, <2>2, <3>1, ValueOf DEF Holds
    <3> QED
      BY <3>2 DEF Told
  <2>4. <<OfRegister(Repeater), 0>> \in F
    BY <1>1, <1>3, <2>1, <2>2, <2>3 DEF RepeaterText, RepeaterOutline, WithRepeater
  <2> QED
    BY <2>2, <2>4, FactsTrue
<1> QED
  BY <1>2, <1>3

\* The tuner's bus is connected only while a function uses it, in programs
\* that leave the repeater closed on each of their ways.
THEOREM RepeaterStaysClosed ==
  ASSUME \A b \in Boards : Repeater \in DOMAIN AtPower[b] => RepeaterText(b, CallsOf[b], Prog)
  PROVE  Spec => []RepeaterClosed
<1>1. WithRepeater \subseteq Boards /\ \A b \in WithRepeater : Outlined(b, RepeaterWatch)
  BY DEF WithRepeater, RepeaterText, RepeaterOutline, Outlined
<1>2. Init => Kept(WithRepeater, RepeaterWatch)
  BY <1>1, InitKept
<1>3. Kept(WithRepeater, RepeaterWatch) /\ [Next]_vars => Kept(WithRepeater, RepeaterWatch)'
  BY <1>1, NextKept
<1>4. Kept(WithRepeater, RepeaterWatch) => RepeaterClosed
  BY RepeaterOpenNever
<1> QED
  BY <1>2, <1>3, <1>4, PTL DEF Spec

LEMMA ScanOffIdle ==
  ASSUME \A b \in Boards : ScanText(b, CallsOf[b], Prog), Kept(Boards, ScanWatch)
  PROVE  ScanModeOff
<1> SUFFICES ASSUME Idle, faults = 0 PROVE drv.scan = "off"
  BY DEF ScanModeOff
<1>1. board \in Boards /\ "scan" \in DOMAIN FieldsOf[board]
  BY DEF Kept, TInv, TypeOK, ScanText
<1>2. PICK F \in ScanWatch.start : Holds(F)
  BY <1>1, KeptIdle
<1>3. <<OfFaults, "some">> \notin F
  BY <1>2, FactsTrue
<1>4. <<OfField("scan"), "off">> \in F
  BY <1>2, <1>3 DEF ScanWatch, Failed, Calm
<1> QED
  BY <1>1, <1>2, <1>4, FactsTrue

\* No scan leaves scan mode on, in programs that leave it off on each of
\* their ways.
THEOREM ScanStaysOff ==
  ASSUME \A b \in Boards : ScanText(b, CallsOf[b], Prog)
  PROVE  Spec => []ScanModeOff
<1>1. \A b \in Boards : Outlined(b, ScanWatch)
  BY DEF ScanText, ScanOutline, Outlined
<1>2. Init => Kept(Boards, ScanWatch)
  BY <1>1, InitKept
<1>3. Kept(Boards, ScanWatch) /\ [Next]_vars => Kept(Boards, ScanWatch)'
  BY <1>1, NextKept
<1>4. Kept(Boards, ScanWatch) => ScanModeOff
  BY ScanOffIdle
<1> QED
  BY <1>2, <1>3, <1>4, PTL DEF Spec

LEMMA CancelledNow ==
  ASSUME \A b \in Boards : ScanText(b, CallsOf[b], Prog), Kept(Boards, ScanWatch)
  PROVE  NoStaleCancel
<1> SUFFICES ASSUME Returned, faults = 0, err = "CANCEL" PROVE cancel = "now"
  BY DEF NoStaleCancel
<1>1. board \in Boards
  BY DEF Kept, TInv, TypeOK
<1>2. call # NoCall /\ pc = 0 /\ call \in CallsOf[board]
  BY <1>1, KeptAt DEF Returned
<1>3. PICK F \in OutlineOf(board, call, Prog[call], ScanWatch)[0] : Holds(F)
  BY <1>1, <1>2, KeptAt
<1>4. /\ <<OfFaults, "some">> \notin F
      /\ \A e \in Results \ {"CANCEL"} : <<OfErr, e>> \notin F
  BY <1>3, FactsTrue
<1>5. <<OfRequest, "yes">> \in F
  BY <1>1, <1>2, <1>3, <1>4 DEF ScanText, ScanOutline, Failed
<1> QED
  BY <1>3, <1>5, FactsTrue

\* A function is cancelled by a request of its own time, in programs that
\* forget those of before wherever they look for one.
THEOREM CancelledInTime ==
  ASSUME \A b \in Boards : ScanText(b, CallsOf[b], Prog)
  PROVE  Spec => []NoStaleCancel
<1>1. \A b \in Boards : Outlined(b, ScanWatch)
  BY DEF ScanText, ScanOutline, Outlined
<1>2. Init => Kept(Boards, ScanWatch)
  BY <1>1, InitKept
<1>3. Kept(Boards, ScanWatch) /\ [Next]_vars => Kept(Boards, ScanWatch)'
  BY <1>1, NextKept
<1>4. Kept(Boards, ScanWatch) => NoStaleCancel
  BY CancelledNow
<1> QED
  BY <1>2, <1>3, <1>4, PTL DEF Spec

WithMemory == {b \in Boards : Savable[b] # {}}

LEMMA MemoryKept ==
  ASSUME \A b \in Boards : Savable[b] # {} => KeepText(b, CallsOf[b], Prog),
         Kept(Boards, ScanWatch), Kept(WithMemory, KeepWatch)
  PROVE  ConfigKept
<1> SUFFICES ASSUME Idle, faults = 0, drv.state \in Awake, NEW k \in DOMAIN memory
             PROVE  regs[k] = memory[k]
  BY DEF ConfigKept
<1>1. board \in WithMemory
  BY DEF Kept, KeepsTo, TInv, TypeOK, WithMemory
<1>2. PICK F \in KeepWatch.start : Holds(F)
  BY <1>1, KeptIdle
<1>3. "state" \in DOMAIN FieldsOf[board]
  BY <1>1 DEF KeepText, WithMemory
<1>4. <<OfFaults, "some">> \notin F
  BY <1>2, FactsTrue
<1>5. \A s \in States \ Awake : <<OfField("state"), s>> \notin F
  BY <1>2, <1>3, FactsTrue
<1>6. <<OfKept, "yes">> \in F
  BY <1>2, <1>4, <1>5 DEF KeepWatch, InPowerState, Failed
<1> QED
  BY <1>2, <1>6, FactsTrue

\* What was configured is in the registers whenever the device is on, in
\* programs that restore it wherever they have reset it.
THEOREM ConfigStaysKept ==
  ASSUME \A b \in Boards : ScanText(b, CallsOf[b], Prog),
         \A b \in Boards : Savable[b] # {} => KeepText(b, CallsOf[b], Prog)
  PROVE  Spec => []ConfigKept
<1> DEFINE Inv == Kept(Boards, ScanWatch) /\ Kept(WithMemory, KeepWatch)
<1>1. \A b \in Boards : Outlined(b, ScanWatch)
  BY DEF ScanText, ScanOutline, Outlined
<1>2. WithMemory \subseteq Boards /\ \A b \in WithMemory : Outlined(b, KeepWatch)
  BY DEF WithMemory, KeepText, Outlined
<1>3. Init => Inv
  BY <1>1, <1>2, InitKept
<1>4. Inv /\ [Next]_vars => Inv'
  <2>1. Kept(Boards, ScanWatch) /\ [Next]_vars => Kept(Boards, ScanWatch)'
    BY <1>1, NextKept
  <2>2. Kept(WithMemory, KeepWatch) /\ [Next]_vars => Kept(WithMemory, KeepWatch)'
    BY <1>2, NextKept
  <2> QED
    BY <2>1, <2>2
<1>5. Inv => ConfigKept
  BY MemoryKept
<1> QED
  BY <1>3, <1>4, <1>5, PTL DEF Spec

WithMode == {b \in Boards : Mode \in DOMAIN AtPower[b]}

LEMMA AlikeIdle ==
  ASSUME \A b \in Boards : Mode \in DOMAIN AtPower[b] => AlikeText(b, CallsOf[b], Prog),
         Kept(WithMode, AlikeWatch)
  PROVE  TunedAlike
<1> SUFFICES ASSUME Idle, Mode \in Tracked, faults = 0, drv.state = "ACTIVE_T_C",
                    NEW p \in TunedFor(drv.system, drv.bw)
             PROVE  regs[p[1]] = p[2]
  BY DEF TunedAlike
<1>1. board \in WithMode
  BY DEF Kept, TInv, TypeOK, WithMode, Tracked
<1>2. PICK F \in AlikeWatch.start : Holds(F)
  BY <1>1, KeptIdle
<1>3. /\ {"state", "system", "bw"} \subseteq DOMAIN FieldsOf[board]
      /\ \A s \in Systems : \A v \in Bands[s] : \A q \in TunedFor(s, v) : q[1] \in Tracked
  BY <1>1 DEF AlikeText, WithMode, Tracked
<1>4. <<OfFaults, "some">> \notin F
  BY <1>2, FactsTrue
<1>5. \A s \in States \ {"ACTIVE_T_C"} : <<OfField("state"), s>> \notin F
  BY <1>2, <1>3, FactsTrue
<1>6. \E s \in Systems : \E v \in Bands[s] : SetFor(s, v) \subseteq F
  <2>1. \/ F = Failed
        \/ \E s \in States \ {"ACTIVE_T_C"} : F = InPowerState(s) \cup NotSet
        \/ F \in UNION {Active(s) : s \in Systems}
    BY <1>2, Zenon DEF AlikeWatch
  <2>2. \E s \in Systems : F \in Active(s)
    BY <2>1, <1>4, <1>5 DEF Failed, InPowerState
  <2> QED
    BY <2>2 DEF Active
<1>7. PICK s \in Systems : \E v \in Bands[s] : SetFor(s, v) \subseteq F
  BY <1>6
<1>8. PICK v \in Bands[s] : SetFor(s, v) \subseteq F
  BY <1>7
<1>9. drv.system = s /\ drv.bw = v
  BY <1>2, <1>3, <1>8, FactsTrue DEF SetFor
<1>10. <<OfRegister(p[1]), p[2]>> \in F /\ p[1] \in Tracked
  BY <1>3, <1>8, <1>9 DEF SetFor
<1> QED
  BY <1>2, <1>10, FactsTrue

\* After any tune the device is set for its system and bandwidth alone, in
\* programs that leave it so from every system and bandwidth.
THEOREM TunesAlike ==
  ASSUME \A b \in Boards : Mode \in DOMAIN AtPower[b] => AlikeText(b, CallsOf[b], Prog)
  PROVE  Spec => []TunedAlike
<1>1. WithMode \subseteq Boards /\ \A b \in WithMode : Outlined(b, AlikeWatch)
  BY DEF WithMode, AlikeText, Outlined
<1>2. Init => Kept(WithMode, AlikeWatch)
  BY <1>1, InitKept
<1>3. Kept(WithMode, AlikeWatch) /\ [Next]_vars => Kept(WithMode, AlikeWatch)'
  BY <1>1, NextKept
<1>4. Kept(WithMode, AlikeWatch) => TunedAlike
  BY AlikeIdle
<1> QED
  BY <1>2, <1>3, <1>4, PTL DEF Spec

WithOutput == {b \in Boards : {Output, Filter} \cap DOMAIN AtPower[b] # {}}

LEMMA SilentAsleep ==
  ASSUME \A b \in Boards : {Output, Filter} \cap DOMAIN AtPower[b] # {} => SleepText(b, CallsOf[b], Prog),
         Kept(WithOutput, SleepWatch)
  PROVE  AsleepIsSilent
<1> SUFFICES ASSUME Idle, Output \in Tracked, drv.state \in Sleeping \cup {"SHUTDOWN"}
             PROVE  /\ regs[Output] = 1
                    /\ faults = 0 => regs[Converter] = 1 /\ regs[Clock] = 0
  BY DEF AsleepIsSilent
<1>1. /\ board \in WithOutput /\ {Output, Converter, Clock} \subseteq Tracked
      /\ "state" \in DOMAIN FieldsOf[board]
  <2>1. board \in WithOutput
    BY DEF Kept, TInv, TypeOK, WithOutput, Tracked
  <2>2. SleepText(board, CallsOf[board], Prog)
    BY <2>1 DEF WithOutput
  <2> QED
    BY <2>1, <2>2 DEF SleepText, Tracked
<1>2. PICK F \in SleepWatch.start : Holds(F)
  BY <1>1, KeptIdle
<1> DEFINE In(s) == <<OfField("state"), s>>
           Off == <<OfRegister(Output), 1>>
           Stopped == {<<OfRegister(Converter), 1>>, <<OfRegister(Clock), 0>>}
<1>3. \/ \E s \in States \ (Sleeping \cup {"SHUTDOWN"}) : In(s) \in F
      \/ Off \in F /\ Stopped \subseteq F
      \/ Off \in F /\ <<OfFaults, "some">> \in F
  BY <1>2 DEF SleepWatch, Calm
<1>4. \A s : In(s) \in F => drv.state = s
  BY <1>1, <1>2, FactsTrue
<1>5. Off \in F => regs[Output] = 1
  BY <1>1, <1>2, FactsTrue
<1>6. Stopped \subseteq F => regs[Converter] = 1 /\ regs[Clock] = 0
  BY <1>1, <1>2, FactsTrue
<1>7. <<OfFaults, "some">> \in F => faults # 0
  BY <1>2, FactsTrue
<1> QED
  BY <1>3, <1>4, <1>5, <1>6, <1>7

\* Nothing is sent while the driver says that the device sleeps, in programs
\* that leave the output off in each state of sleep.
THEOREM AsleepStaysSilent ==
  ASSUME \A b \in Boards : {Output, Filter} \cap DOMAIN AtPower[b] # {} => SleepText(b, CallsOf[b], Prog)
  PROVE  Spec => []AsleepIsSilent
<1>1. WithOutput \subseteq Boards /\ \A b \in WithOutput : Outlined(b, SleepWatch)
  BY DEF WithOutput, SleepText, SleepOutline, Outlined
<1>2. Init => Kept(WithOutput, SleepWatch)
  BY <1>1, InitKept
<1>3. Kept(WithOutput, SleepWatch) /\ [Next]_vars => Kept(WithOutput, SleepWatch)'
  BY <1>1, NextKept
<1>4. Kept(WithOutput, SleepWatch) => AsleepIsSilent
  BY SilentAsleep
<1> QED
  BY <1>2, <1>3, <1>4, PTL DEF Spec

LEMMA FilterSilent ==
  ASSUME \A b \in Boards : {Output, Filter} \cap DOMAIN AtPower[b] # {} => SleepText(b, CallsOf[b], Prog),
         Kept(WithOutput, SleepWatch), [Next]_vars, Filter \in Tracked, regs'[Filter] # regs[Filter]
  PROVE  1 \in {regs[Output], regs'[Output]}
<1>1. board \in WithOutput
  BY DEF Kept, TInv, TypeOK, WithOutput, Tracked
<1>2. SleepText(board, CallsOf[board], Prog)
  BY <1>1 DEF WithOutput
<1>3. Output \in Tracked /\ AtPower[board][Output] = 1
  BY <1>2 DEF SleepText, Tracked
<1> DEFINE i == Prog[call][pc]
<1>4. /\ call # NoCall /\ pc \in DOMAIN Prog[call] /\ call \in CallsOf[board]
      /\ Execute(i) /\ Touches(board, i, Filter)
  BY <1>1, OnlyTouched
<1>5. CASE i.op = "reset"
  <2>1. ResetDevice(i)
    BY <1>4, <1>5, ExecutesReset
  <2>2. regs' = Cleared(i)
    BY <2>1 DEF ResetDevice
  <2>3. "T" \in i.val
    BY <1>4, <1>5 DEF Touches, Filter
  <2>4. regs'[Output] = AtPower[board][Output]
    BY <1>3, <2>2, <2>3 DEF Cleared, Output
  <2> QED
    BY <1>3, <2>4
<1>6. CASE i.op # "reset"
  <2>1. PICK F \in OutlineOf(board, call, Prog[call], SleepWatch)[pc] : Holds(F)
    BY <1>1, <1>4, KeptAt
  <2>2. <<OfRegister(Output), 1>> \in F
    BY <1>2, <1>4, <1>6, <2>1 DEF SleepText, SleepOutline
  <2> QED
    BY <1>3, <2>1, <2>2, FactsTrue
<1> QED
  BY <1>5, <1>6

\* The bandwidth is changed only while no stream is sent, in programs that
\* write it only where the output is known to be off.
THEOREM FilterSetSilently ==
  ASSUME \A b \in Boards : {Output, Filter} \cap DOMAIN AtPower[b] # {} => SleepText(b, CallsOf[b], Prog)
  PROVE  Spec => SilentRetune
<1>1. WithOutput \subseteq Boards /\ \A b \in WithOutput : Outlined(b, SleepWatch)
  BY DEF WithOutput, SleepText, SleepOutline, Outlined
<1>2. Init => Kept(WithOutput, SleepWatch)
  BY <1>1, InitKept
<1>3. Kept(WithOutput, SleepWatch) /\ [Next]_vars => Kept(WithOutput, SleepWatch)'
  BY <1>1, NextKept
<1>4. Kept(WithOutput, SleepWatch) /\ [Next]_vars =>
        [(Filter \in Tracked) /\ regs'[Filter] # regs[Filter] => 1 \in {regs[Output], regs'[Output]}]_vars
  BY FilterSilent
<1> QED
  BY <1>2, <1>3, <1>4, PTL DEF Spec, SilentRetune

---------------------------------------------------------------------------
(* The ATBM888x and its tuner.                                             *)

WithTuner == {b \in Boards : HasTuner(b)}

LEMMA TunerQuiet ==
  ASSUME \A b \in Boards : HasTuner(b) => LiveText(b, CallsOf[b], Prog), Kept(WithTuner, LiveWatch)
  PROVE  QuietWhenIdle
<1> SUFFICES ASSUME Idle, Bypass \in Tracked, faults = 0
             PROVE  /\ regs[Bypass] = 0
                    /\ drv.ascot3 \in {"SLEEP", "ACTIVE"} => regs[TunerCpu] # \hC4
  BY DEF QuietWhenIdle
<1>1. /\ board \in WithTuner /\ TunerCpu \in Tracked
      /\ "ascot3" \in DOMAIN FieldsOf[board]
  <2>1. board \in WithTuner
    BY DEF Kept, TInv, TypeOK, WithTuner, HasTuner, Tracked
  <2>2. LiveText(board, CallsOf[board], Prog)
    BY <2>1 DEF WithTuner
  <2> QED
    BY <2>1, <2>2 DEF LiveText, Tracked
<1>2. PICK F \in LiveWatch.start : Holds(F)
  BY <1>1, KeptIdle
<1>3. <<OfFaults, "some">> \notin F
  BY <1>2, FactsTrue
<1>4. /\ <<OfRegister(Bypass), 0>> \in F
      /\ \/ \E s \in {"absent", "UNKNOWN"} : <<OfField("ascot3"), s>> \in F
         \/ <<OfRegister(TunerCpu), \hC0>> \in F
  BY <1>2, <1>3 DEF LiveWatch, Calm, Failed
<1>5. regs[Bypass] = 0
  BY <1>2, <1>4, FactsTrue
<1>6. \A s : <<OfField("ascot3"), s>> \in F => drv.ascot3 = s
  BY <1>1, <1>2, FactsTrue
<1>7. <<OfRegister(TunerCpu), \hC0>> \in F => regs[TunerCpu] = \hC0
  BY <1>1, <1>2, FactsTrue
<1> QED
  BY <1>4, <1>5, <1>6, <1>7

\* When no function runs the tuner is off the bus and its processor in
\* standby, in programs that leave both so on each of their ways.
THEOREM TunerStaysQuiet ==
  ASSUME \A b \in Boards : HasTuner(b) => LiveText(b, CallsOf[b], Prog)
  PROVE  Spec => []QuietWhenIdle
<1>1. WithTuner \subseteq Boards /\ \A b \in WithTuner : Outlined(b, LiveWatch)
  BY DEF WithTuner, LiveText, LiveOutline, Outlined
<1>2. Init => Kept(WithTuner, LiveWatch)
  BY <1>1, InitKept
<1>3. Kept(WithTuner, LiveWatch) /\ [Next]_vars => Kept(WithTuner, LiveWatch)'
  BY <1>1, NextKept
<1>4. Kept(WithTuner, LiveWatch) => QuietWhenIdle
  BY TunerQuiet
<1> QED
  BY <1>2, <1>3, <1>4, PTL DEF Spec

LEMMA BypassFirst ==
  ASSUME \A b \in Boards : HasTuner(b) => LiveText(b, CallsOf[b], Prog),
         Kept(WithTuner, LiveWatch), [Next]_vars,
         NEW k \in Tracked, k[1] = "A", regs'[k] # regs[k], faults = 0
  PROVE  regs[Bypass] = 1
<1>1. board \in WithTuner
  BY DEF Kept, TInv, TypeOK, WithTuner, HasTuner, Tracked
<1>2. LiveText(board, CallsOf[board], Prog)
  BY <1>1 DEF WithTuner
<1> DEFINE i == Prog[call][pc]
<1>3. /\ call # NoCall /\ pc \in DOMAIN Prog[call] /\ call \in CallsOf[board]
      /\ Touches(board, i, k)
  BY <1>1, OnlyTouched
<1>4. OnTuner(board, i)
  BY <1>3 DEF OnTuner, Tracked
<1>5. PICK F \in OutlineOf(board, call, Prog[call], LiveWatch)[pc] : Holds(F)
  BY <1>1, <1>3, KeptAt
<1>6. <<OfRegister(Bypass), 1>> \in F \/ <<OfFaults, "some">> \in F
  BY <1>2, <1>3, <1>4, <1>5 DEF LiveText, LiveOutline, Failed
<1>7. Bypass \in Tracked
  BY <1>2 DEF LiveText, Tracked
<1> QED
  BY <1>5, <1>6, <1>7, FactsTrue

\* The tuner's registers are written only while the demodulator passes the
\* bus on to it, in programs that write them only where it is known to.
THEOREM TunerReachedByBypass ==
  ASSUME \A b \in Boards : HasTuner(b) => LiveText(b, CallsOf[b], Prog)
  PROVE  Spec => TunerThroughBypass
<1>1. WithTuner \subseteq Boards /\ \A b \in WithTuner : Outlined(b, LiveWatch)
  BY DEF WithTuner, LiveText, LiveOutline, Outlined
<1>2. Init => Kept(WithTuner, LiveWatch)
  BY <1>1, InitKept
<1>3. Kept(WithTuner, LiveWatch) /\ [Next]_vars => Kept(WithTuner, LiveWatch)'
  BY <1>1, NextKept
<1>4. Kept(WithTuner, LiveWatch) /\ [Next]_vars =>
        [\A k \in Tracked : k[1] = "A" /\ regs'[k] # regs[k] /\ faults = 0 => regs[Bypass] = 1]_vars
  BY BypassFirst
<1> QED
  BY <1>2, <1>3, <1>4, PTL DEF Spec, TunerThroughBypass

WithDtmb == {b \in Boards : Dsp \in DOMAIN AtPower[b]}

LEMMA DtmbSetByLock ==
  ASSUME \A b \in Boards : Locks \cap CallsOf[b] # {} => Dsp \in DOMAIN AtPower[b],
         \A b \in Boards : Dsp \in DOMAIN AtPower[b] => DtmbText(b, CallsOf[b], Prog),
         Kept(WithDtmb, DtmbWatch)
  PROVE  LockedForDtmb
<1> SUFFICES ASSUME Returned, faults = 0, call \in Locks
             PROVE  /\ regs[Dsp] = 0
                    /\ \A k \in DOMAIN DtmbSetting : regs[k] = DtmbSetting[k]
                    /\ drv.fitted = "40" => \A k \in DOMAIN DtmbOf40 : regs[k] = DtmbOf40[k]
  BY DEF LockedForDtmb, Locks
<1>1. board \in WithDtmb /\ call # NoCall /\ pc = 0
  BY DEF Kept, TInv, TypeOK, Placed, WithDtmb, Returned
<1>2. DtmbText(board, CallsOf[board], Prog)
  BY <1>1 DEF WithDtmb
<1>3. /\ {Dsp} \cup DOMAIN DtmbSetting \cup DOMAIN DtmbOf40 \subseteq Tracked
      /\ "fitted" \in DOMAIN FieldsOf[board]
  BY <1>1, <1>2 DEF DtmbText, WithDtmb, Tracked
<1>4. call \in CallsOf[board] /\ \E F \in OutlineOf(board, call, Prog[call], DtmbWatch)[0] : Holds(F)
  BY <1>1, KeptAt
<1>5. PICK F \in OutlineOf(board, call, Prog[call], DtmbWatch)[0] : Holds(F)
  BY <1>4
<1>6. <<OfFaults, "some">> \notin F
  BY <1>5, FactsTrue
<1>7. \/ DtmbNeeds("40") \subseteq F
      \/ DtmbNeeds("30") \subseteq F /\ <<OfField("fitted"), "30">> \in F
  BY <1>2, <1>4, <1>5, <1>6 DEF DtmbText, DtmbOutline, Failed
<1>8. /\ <<OfRegister(Dsp), 0>> \in F
      /\ \A k \in DOMAIN DtmbSetting : <<OfRegister(k), DtmbSetting[k]>> \in F
  BY <1>7 DEF DtmbNeeds
<1>9. \/ \A k \in DOMAIN DtmbOf40 : <<OfRegister(k), DtmbOf40[k]>> \in F
      \/ <<OfField("fitted"), "30">> \in F
  BY <1>7 DEF DtmbNeeds
<1>10. <<OfField("fitted"), "30">> \in F => drv.fitted = "30"
  BY <1>3, <1>5, FactsTrue
<1> QED
  BY <1>3, <1>5, <1>8, <1>9, <1>10, FactsTrue

\* A lock leaves the demodulator set for DTMB with its processor running, in
\* programs that set all of it on each way to an end.
THEOREM LockSetsDtmb ==
  ASSUME \A b \in Boards : Locks \cap CallsOf[b] # {} => Dsp \in DOMAIN AtPower[b],
         \A b \in Boards : Dsp \in DOMAIN AtPower[b] => DtmbText(b, CallsOf[b], Prog)
  PROVE  Spec => []LockedForDtmb
<1>1. WithDtmb \subseteq Boards /\ \A b \in WithDtmb : Outlined(b, DtmbWatch)
  BY DEF WithDtmb, DtmbText, DtmbOutline, Outlined
<1>2. Init => Kept(WithDtmb, DtmbWatch)
  BY <1>1, InitKept
<1>3. Kept(WithDtmb, DtmbWatch) /\ [Next]_vars => Kept(WithDtmb, DtmbWatch)'
  BY <1>1, NextKept
<1>4. Kept(WithDtmb, DtmbWatch) => LockedForDtmb
  BY DtmbSetByLock
<1> QED
  BY <1>2, <1>3, <1>4, PTL DEF Spec

WithFrequency == {b \in Boards : TunedTo \in DOMAIN AtPower[b]}

LEMMA FrequencySilent ==
  ASSUME \A b \in Boards : TunedTo \in DOMAIN AtPower[b] => TunerText(b, CallsOf[b], Prog),
         Kept(WithFrequency, TunerWatch), [Next]_vars,
         TunedTo \in Tracked, regs'[TunedTo] # regs[TunedTo], call # "tuner_Shift"
  PROVE  regs[TunerOut] = 2
<1>1. board \in WithFrequency
  BY DEF Kept, TInv, TypeOK, WithFrequency, Tracked
<1>2. TunerText(board, CallsOf[board], Prog)
  BY <1>1 DEF WithFrequency
<1> DEFINE i == Prog[call][pc]
<1>3. /\ call # NoCall /\ pc \in DOMAIN Prog[call] /\ call \in CallsOf[board]
      /\ Touches(board, i, TunedTo)
  BY <1>1, OnlyTouched
<1>4. PICK F \in OutlineOf(board, call, Prog[call], TunerWatch)[pc] : Holds(F)
  BY <1>1, <1>3, KeptAt
<1>5. <<OfRegister(TunerOut), 2>> \in F /\ TunerOut \in Tracked
  BY <1>2, <1>3, <1>4 DEF TunerText, TunerOutline, Tracked
<1> QED
  BY <1>4, <1>5, FactsTrue

\* The tuner's output is off while a tune changes the frequency, in programs
\* that write it only where the output is known to be off.
THEOREM TunedSilently ==
  ASSUME \A b \in Boards : TunedTo \in DOMAIN AtPower[b] => TunerText(b, CallsOf[b], Prog)
  PROVE  Spec => SilentWhileTuned
<1>1. WithFrequency \subseteq Boards /\ \A b \in WithFrequency : Outlined(b, TunerWatch)
  BY DEF WithFrequency, TunerText, TunerOutline, Outlined
<1>2. Init => Kept(WithFrequency, TunerWatch)
  BY <1>1, InitKept
<1>3. Kept(WithFrequency, TunerWatch) /\ [Next]_vars => Kept(WithFrequency, TunerWatch)'
  BY <1>1, NextKept
<1>4. Kept(WithFrequency, TunerWatch) /\ [Next]_vars =>
        [(TunedTo \in Tracked) /\ regs'[TunedTo] # regs[TunedTo] /\ call # "tuner_Shift"
           => regs[TunerOut] = 2]_vars
  BY FrequencySilent
<1> QED
  BY <1>2, <1>3, <1>4, PTL DEF Spec, SilentWhileTuned

---------------------------------------------------------------------------
(* All of it, from each function alone.                                    *)

\* What TextsShow has TLC look at: each function where it is the first that is
\* called.
EachShows ==
  \A b \in Boards : CallsOf[b] # {} /\ \A f \in CallsOf[b] : Texts(b, {f}, Prog)

LEMMA TogetherShown ==
  ASSUME EachShows, NEW b \in Boards
  PROVE  Texts(b, CallsOf[b], Prog)
<1>1. PICK f : f \in CallsOf[b]
  BY DEF EachShows
<1>2. \A g \in CallsOf[b] : Texts(b, {g}, Prog)
  BY Zenon DEF EachShows
<1> DEFINE Calls == CallsOf[b]
<1>3. FreezeText(Calls, Prog) /\ BankText(b, Calls, Prog) /\ SnapText(b, Calls, Prog)
  BY <1>1, <1>2 DEF Texts, FreezeText, BankText, SnapText
<1>4. ScanText(b, Calls, Prog)
  BY <1>1, <1>2 DEF Texts, ScanText
<1>5. Repeater \in DOMAIN AtPower[b] => RepeaterText(b, Calls, Prog)
  BY <1>1, <1>2 DEF Texts, RepeaterText
<1>6. {Output, Filter} \cap DOMAIN AtPower[b] # {} => SleepText(b, Calls, Prog)
  BY <1>1, <1>2 DEF Texts, SleepText
<1>7. Savable[b] # {} => KeepText(b, Calls, Prog)
  BY <1>1, <1>2 DEF Texts, KeepText
<1>8. Mode \in DOMAIN AtPower[b] => AlikeText(b, Calls, Prog)
  BY <1>1, <1>2 DEF Texts, AlikeText
<1>9. HasTuner(b) => LiveText(b, Calls, Prog)
  BY <1>1, <1>2 DEF Texts, LiveText
<1>10. Locks \cap Calls # {} => Dsp \in DOMAIN AtPower[b]
  BY <1>2 DEF Texts
<1>11. Dsp \in DOMAIN AtPower[b] => DtmbText(b, Calls, Prog)
  BY <1>1, <1>2 DEF Texts, DtmbText
<1>12. TunedTo \in DOMAIN AtPower[b] => TunerText(b, Calls, Prog)
  BY <1>1, <1>2 DEF Texts, TunerText
<1> QED
  BY <1>3, <1>4, <1>5, <1>6, <1>7, <1>8, <1>9, <1>10, <1>11, <1>12 DEF Texts

\* The conditions that the run finds each function to meet are enough for all the
\* properties of both receivers, whatever is called after whatever, however
\* many accesses fail and however long it waits.
THEOREM ReceiversKept ==
  ASSUME EachShows
  PROVE  Spec => /\ []((\A f \in CallsOf[board] : ~Latches(Prog[f])) => Thawed)
                 /\ []InNamedBank /\ []SameSnapshot
                 /\ []RepeaterClosed /\ []ScanModeOff /\ []NoStaleCancel
                 /\ []ConfigKept /\ []TunedAlike /\ []AsleepIsSilent /\ SilentRetune
                 /\ []QuietWhenIdle /\ TunerThroughBypass /\ []LockedForDtmb /\ SilentWhileTuned
<1>1. \A b \in Boards : Texts(b, CallsOf[b], Prog)
  BY TogetherShown
<1>2. Spec => []InNamedBank /\ []SameSnapshot
  BY <1>1, BanksNamed, SnapshotsTaken DEF Texts
<1>3. Spec => []RepeaterClosed /\ []ScanModeOff /\ []NoStaleCancel /\ []ConfigKept
  BY <1>1, RepeaterStaysClosed, ScanStaysOff, CancelledInTime, ConfigStaysKept DEF Texts
<1>4. Spec => []TunedAlike /\ []AsleepIsSilent /\ SilentRetune
  BY <1>1, TunesAlike, AsleepStaysSilent, FilterSetSilently DEF Texts
<1>5. Spec => []QuietWhenIdle /\ TunerThroughBypass /\ []LockedForDtmb /\ SilentWhileTuned
  BY <1>1, TunerStaysQuiet, TunerReachedByBypass, LockSetsDtmb, TunedSilently DEF Texts
<1>6. TInv /\ (BracketedBoard(board) => Thawed)
        => ((\A f \in CallsOf[board] : ~Latches(Prog[f])) => Thawed)
  BY <1>1 DEF Texts, FreezeText, BracketedBoard, TInv, TypeOK
<1> QED
  BY <1>2, <1>3, <1>4, <1>5, <1>6, BracketsThaw, TypesKept, PTL
=============================================================================
