---------------------------- MODULE ReceiverTexts ----------------------------
(***************************************************************************)
(* What the texts of the receivers' functions show by themselves, each as  *)
(* a condition on the outlines of the functions called on a board, whose   *)
(* programs are progs.                                                     *)
(* ReceiverProofs proves of each which property of all runs follows.       *)
(***************************************************************************)
EXTENDS SonyReceiver, AtbmReceiver, DriverOutline

\* Facts of a state without an error, in which accesses have failed or not.
Calm(failed) == {<<OfErr, "OK">>, <<OfPut, "OK">>, <<OfFaults, failed>>}
Failed == {<<OfFaults, "some">>}

---------------------------------------------------------------------------
(* All functions: what they freeze, and the banks of InNamedBank.          *)

\* Every function of a Sony chip releases the registers that it froze before
\* each of its returns.
Latches(P) == \E n \in DOMAIN P : P[n].op \in {"freeze", "thaw"} /\ P[n].dev # NoDevice
FreezeText(called, progs) == \A f \in called : Latches(progs[f]) \/ Bracketed(progs[f])

BankWatch ==
  [watch |-> {OfFaults} \cup {OfBank(d) : d \in {"T", "X", "D"}},
   after |-> {OfFaults} \cup {OfBank(d) : d \in {"T", "X"}},
   split |-> {OfFaults}, start |-> {{}}]
Named(i) == i.op \in Accesses /\ ~i.astray /\ i.bank # AllBanks

\* Wherever a function reads or writes, the bank it names is the one known
\* to be selected.
BankOutline(b, f, P, K) ==
  /\ Sound(b, f, P, K, BankWatch.start)
  /\ \A n \in DOMAIN P : Named(P[n]) =>
       /\ P[n].dev \in Devices
       /\ \A F \in K[n] :
            <<OfBank(P[n].dev), P[n].bank>> \in F \/ (P[n].dev = "D" /\ Failed \subseteq F)
BankText(b, called, progs) ==
  /\ Begins(b, BankWatch)
  /\ \A f \in called : BankOutline(b, f, progs[f], OutlineOf(b, f, progs[f], BankWatch))

\* The fields that say how far a scan is, where there are any.
Staged(b) == {"scanSeq", "scanTune"} \cap DOMAIN FieldsOf[b]
SnapWatch(b) ==
  LET Said == {OfFrozen, OfReads, OfErr, OfPut, OfFaults} \cup {OfField(x) : x \in Staged(b)}
  IN  [watch |-> Said \cup {OfBank("D")}, after |-> {OfFaults}, split |-> Said,
       start |-> {Failed, Calm("none") \cup {<<OfFrozen, "thawed">>, <<OfReads, "none">>}
                            \cup {<<OfField(x), FieldsOf[b][x]>> : x \in Staged(b)}}]

\* At no place has a measurement read some before and some after a freeze.
SnapOutline(b, f, P, K) ==
  /\ Sound(b, f, P, K, SnapWatch(b).start)
  /\ \A n \in DOMAIN P \cup {0} : \A F \in K[n] :
       Failed \subseteq F \/ \E r \in {"none", "live", "frozen"} : <<OfReads, r>> \in F
SnapText(b, called, progs) ==
  /\ Begins(b, SnapWatch(b))
  /\ \A f \in called : SnapOutline(b, f, progs[f], OutlineOf(b, f, progs[f], SnapWatch(b)))

---------------------------------------------------------------------------
(* The CXD2837.                                                            *)

RepeaterWatch ==
  LET Said == {OfRegister(Repeater), OfErr, OfPut, OfFaults}
  IN  [watch |-> Said, after |-> Said, split |-> Said,
       start |-> {Calm("none") \cup {<<OfRegister(Repeater), 0>>}, Calm("some")}]
Disconnecting == {"SleepT_C", "Shutdown", "GetPower"}

\* Every function leaves the repeater closed unless an access has failed, and
\* those of Disconnecting unless they return an error.
RepeaterOutline(b, f, P, K) ==
  /\ Sound(b, f, P, K, RepeaterWatch.start)
  /\ f \in Disconnecting =>
       \A F \in K[0] : Told(F, OfErr) \subseteq {"OK"} => <<OfRegister(Repeater), 0>> \in F
RepeaterText(b, called, progs) ==
  /\ Begins(b, RepeaterWatch)
  /\ \A f \in called :
       RepeaterOutline(b, f, progs[f], OutlineOf(b, f, progs[f], RepeaterWatch))

States == Sleeping \cup {"UNKNOWN", "SHUTDOWN", "INVALID", "ACTIVE_T_C", "ACTIVE_S"}
ScanWatch ==
  LET Said == {OfField("scan"), OfField("state"), OfErr, OfPut, OfFaults, OfFresh, OfRequest}
  IN  [watch |-> Said, after |-> {OfFaults}, split |-> Said,
       start |-> {Failed} \cup
         {Calm("none") \cup {<<OfField("scan"), "off">>, <<OfField("state"), s>>} : s \in States}]

\* Every function leaves scan mode off unless an access has failed, and says
\* that it was cancelled only if it was during this call.
ScanOutline(b, f, P, K) ==
  /\ Sound(b, f, P, K, ScanWatch.start)
  /\ \A F \in K[0] :
       \/ Failed \subseteq F \/ <<OfRequest, "yes">> \in F
       \/ \E e \in Results \ {"CANCEL"} : <<OfErr, e>> \in F
ScanText(b, called, progs) ==
  /\ Begins(b, ScanWatch) /\ "scan" \in DOMAIN FieldsOf[b]
  /\ \A f \in called : ScanOutline(b, f, progs[f], OutlineOf(b, f, progs[f], ScanWatch))

SleepWatch ==
  LET Kept == {OfRegister(Output), OfField("state"), OfErr, OfPut, OfFaults, OfBank("T")}
      Said == Kept \cup {OfRegister(Converter), OfRegister(Clock), OfField("bw"), OfArg, OfBank("X")}
      Off == {<<OfRegister(Output), 1>>}
      Stopped == {<<OfRegister(Converter), 1>>, <<OfRegister(Clock), 0>>}
      Asleep == Sleeping \cup {"SHUTDOWN"}
      In(s) == {<<OfField("state"), s>>}
  IN  [watch |-> Said, after |-> Kept,
       split |-> (Kept \ {OfBank("T")}) \cup {OfField("bw"), OfArg},
       start |-> {Calm(c) \cup In(s) : c \in {"none", "some"}, s \in States \ Asleep}
                   \cup {Calm("none") \cup In(s) \cup Off \cup Stopped : s \in Asleep}
                   \cup {Calm("some") \cup In(s) \cup Off : s \in Asleep}]

\* Every function leaves the output off in a state of sleep; and the filter is
\* written only while the output is off.
SleepOutline(b, f, P, K) ==
  /\ Sound(b, f, P, K, SleepWatch.start)
  /\ \A n \in DOMAIN P :
       Touches(b, P[n], Filter) /\ P[n].op # "reset" =>
         \A F \in K[n] : <<OfRegister(Output), 1>> \in F
SleepText(b, called, progs) ==
  /\ Begins(b, SleepWatch)
  /\ {Output, Converter, Clock} \subseteq DOMAIN AtPower[b] /\ AtPower[b][Output] = 1
  /\ "state" \in DOMAIN FieldsOf[b]
  /\ \A f \in called : SleepOutline(b, f, progs[f], OutlineOf(b, f, progs[f], SleepWatch))

InPowerState(s) == Calm("none") \cup {<<OfField("state"), s>>}
KeepWatch ==
  LET Said == {OfKept, OfField("state"), OfErr, OfPut, OfFaults}
  IN  [watch |-> Said, after |-> {OfFaults}, split |-> Said,
       start |-> {Failed} \cup {InPowerState(s) : s \in States \ Awake}
                         \cup {InPowerState(s) \cup {<<OfKept, "yes">>} : s \in Awake}]

\* Every function leaves the registers as the memory says, or the device off.
KeepText(b, called, progs) ==
  /\ Begins(b, KeepWatch) /\ "state" \in DOMAIN FieldsOf[b]
  /\ \A f \in called : Sound(b, f, progs[f], OutlineOf(b, f, progs[f], KeepWatch), KeepWatch.start)

Bands == [DVBT |-> DvbtBands, DVBT2 |-> Dvbt2Bands, DVBC |-> {"8"}, DVBC2 |-> {"6", "8"}]
SetFor(s, w) ==
  {<<OfField("system"), s>>, <<OfField("bw"), w>>}
    \cup {<<OfRegister(p[1]), p[2]>> : p \in TunedFor(s, w)}
Active(s) == {InPowerState("ACTIVE_T_C") \cup SetFor(s, w) : w \in Bands[s]}
NotSet == {<<OfRegister(OfT2), \h40>>, <<OfRegister(OfC2), 0>>}
TuneRegisters == {Mode, Sampling, Gain, Filter, OfT2, OfC2} \cup {Timing[s] : s \in Systems}
AlikeWatch ==
  LET Said == {OfField(x) : x \in {"state", "system", "bw"}} \cup {OfArg, OfErr, OfPut, OfFaults}
      Set == {OfRegister(k) : k \in TuneRegisters}
  IN  [watch |-> Said \cup Set \cup {OfBank("T"), OfBank("X")}, after |-> {OfFaults}, split |-> Said,
       start |-> {Failed} \cup {InPowerState(s) \cup NotSet : s \in States \ {"ACTIVE_T_C"}}
                         \cup UNION {Active(s) : s \in Systems}]

\* Every function leaves the device set for its system and bandwidth, or not
\* active and without what only DVB-T2 and DVB-C2 set.
AlikeText(b, called, progs) ==
  /\ Begins(b, AlikeWatch) /\ {"state", "system", "bw"} \subseteq DOMAIN FieldsOf[b]
  /\ \A s \in Systems : \A w \in Bands[s] : \A p \in TunedFor(s, w) : p[1] \in DOMAIN AtPower[b]
  /\ \A f \in called : Sound(b, f, progs[f], OutlineOf(b, f, progs[f], AlikeWatch), AlikeWatch.start)

---------------------------------------------------------------------------
(* The ATBM888x and its tuner.                                             *)

LiveWatch ==
  LET Said == {OfRegister(Bypass), OfField("ascot3"), OfField("chip"), OfErr, OfPut, OfFaults}
      Off == Calm("none") \cup {<<OfRegister(Bypass), 0>>}
      Tuner(s) == {<<OfField("ascot3"), s>>}
  IN  [watch |-> Said \cup {OfRegister(TunerCpu), OfBank("D")}, after |-> {OfFaults}, split |-> Said,
       start |-> {Failed} \cup {Off \cup Tuner(s) : s \in {"absent", "UNKNOWN"}}
                   \cup {Off \cup Tuner(s) \cup {<<OfField("chip"), c>>, <<OfRegister(TunerCpu), \hC0>>} :
                           s \in {"SLEEP", "ACTIVE"}, c \in Chips}]
HasTuner(b) == Bypass \in DOMAIN AtPower[b] \/ \E k \in DOMAIN AtPower[b] : k[1] = "A"
OnTuner(b, i) == \E k \in DOMAIN AtPower[b] : k[1] = "A" /\ Touches(b, i, k)

\* Unless an access has failed, every function takes the tuner off the bus
\* and leaves its processor in standby; and the tuner is written only while
\* it is on the bus.
LiveOutline(b, f, P, K) ==
  /\ Sound(b, f, P, K, LiveWatch.start)
  /\ \A n \in DOMAIN P :
       OnTuner(b, P[n]) => \A F \in K[n] : <<OfRegister(Bypass), 1>> \in F \/ Failed \subseteq F
LiveText(b, called, progs) ==
  /\ Begins(b, LiveWatch)
  /\ {Bypass, TunerCpu} \subseteq DOMAIN AtPower[b] /\ "ascot3" \in DOMAIN FieldsOf[b]
  /\ \A f \in called : LiveOutline(b, f, progs[f], OutlineOf(b, f, progs[f], LiveWatch))

DtmbNeeds(model) ==
  {<<OfRegister(Dsp), 0>>} \cup {<<OfRegister(k), DtmbSetting[k]>> : k \in DOMAIN DtmbSetting}
    \cup IF model = "30" THEN {} ELSE {<<OfRegister(k), DtmbOf40[k]>> : k \in DOMAIN DtmbOf40}
DtmbWatch ==
  LET Said == {OfField("id"), OfField("fitted"), OfErr, OfFaults}
  IN  [watch |-> Said \cup {OfBank("D")} \cup {p[1] : p \in DtmbNeeds("40")},
       after |-> {OfFaults}, split |-> Said,
       start |-> {Failed} \cup {{<<OfField("fitted"), m>>, <<OfErr, "OK">>, <<OfFaults, "none">>} :
                                  m \in {"40", "30"}}]
Locks == {"Tuner_Lock_474", "Tuner_Lock_666"}

\* A lock leaves the registers of DTMB set, unless an access has failed.
DtmbOutline(b, f, P, K) ==
  /\ Sound(b, f, P, K, DtmbWatch.start)
  /\ f \in Locks => \A F \in K[0] :
       \/ Failed \subseteq F
       \/ DtmbNeeds("40") \subseteq F
       \/ DtmbNeeds("30") \cup {<<OfField("fitted"), "30">>} \subseteq F
DtmbText(b, called, progs) ==
  /\ Begins(b, DtmbWatch) /\ "fitted" \in DOMAIN FieldsOf[b]
  /\ DOMAIN DtmbSetting \cup DOMAIN DtmbOf40 \subseteq DOMAIN AtPower[b]
  /\ \A f \in called : DtmbOutline(b, f, progs[f], OutlineOf(b, f, progs[f], DtmbWatch))

TunerWatch ==
  LET Said == {OfRegister(TunerOut)}
  IN  [watch |-> Said, after |-> Said, split |-> {}, start |-> {{}}]

\* The frequency is written only while the tuner's output is off, but by a
\* shift.
TunerOutline(b, f, P, K) ==
  /\ Sound(b, f, P, K, TunerWatch.start)
  /\ f # "tuner_Shift" =>
       \A n \in DOMAIN P : Touches(b, P[n], TunedTo) => \A F \in K[n] : <<OfRegister(TunerOut), 2>> \in F
TunerText(b, called, progs) ==
  /\ Begins(b, TunerWatch) /\ TunerOut \in DOMAIN AtPower[b]
  /\ \A f \in called : TunerOutline(b, f, progs[f], OutlineOf(b, f, progs[f], TunerWatch))

---------------------------------------------------------------------------
(* Which board's text has to show what.                                    *)

Texts(b, called, progs) ==
  /\ FreezeText(called, progs) /\ BankText(b, called, progs) /\ SnapText(b, called, progs)
  /\ ScanText(b, called, progs)
  /\ Repeater \in DOMAIN AtPower[b] => RepeaterText(b, called, progs)
  /\ {Output, Filter} \cap DOMAIN AtPower[b] # {} => SleepText(b, called, progs)
  /\ Savable[b] # {} => KeepText(b, called, progs)
  /\ Mode \in DOMAIN AtPower[b] => AlikeText(b, called, progs)
  /\ HasTuner(b) => LiveText(b, called, progs)
  /\ Locks \cap called # {} => Dsp \in DOMAIN AtPower[b]
  /\ Dsp \in DOMAIN AtPower[b] => DtmbText(b, called, progs)
  /\ TunedTo \in DOMAIN AtPower[b] => TunerText(b, called, progs)

\* Whichever way a function may take, failures that no run of the model is
\* long enough for included, it releases what it froze, names the bank that
\* is selected, measures at one moment, and leaves the repeater, the output,
\* what was configured and tuned, the tuner's bus and the registers of DTMB as
\* the functions called after it count on.  (The text
\* is looked at once, where the function is the first that is called.)
TextsShow ==
  (/\ call # NoCall /\ pc = 1 /\ faults = 0 /\ cancel = "no"
   /\ drv = FieldsOf[board] /\ regs = AtPower[board] /\ memory = <<>>
   /\ selected = [d \in Devices |-> 0])
  => Texts(board, {call}, Prog)
=============================================================================
