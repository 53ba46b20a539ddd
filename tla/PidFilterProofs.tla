-------------------------- MODULE PidFilterProofs --------------------------
(***************************************************************************)
(* Proofs about PidFilter, for any number of slots and groups, any lists   *)
(* and any number of attempts, and with writes that fail.                  *)
(***************************************************************************)
EXTENDS PidFilter, SequenceTheorems, TLAPS

USE SlotAssumption, PidAssumption, ListAssumption, AttemptAssumption
    DEF Slots, Groups, Pids

-----------------------------------------------------------------------------
(* The functions as sequences of writes *)

LEMMA DisableLen == Len(Disable) = LastGroup + 4
  BY DEF Disable

LEMMA ControlLen == Len(Control) = LastGroup + 2
  BY DEF Control

LEMMA ListLen ==
  ASSUME NEW l \in Lists
  PROVE  Len(l) \in Nat /\ Len(SetPidList(l)) = 2 * Len(l)
  BY DEF SetPidList

\* Every write is to a register that exists, of a value that it can hold.
Writable(w) ==
  \/ w.register = "mode" /\ w.value \in {"pass", "reject"}
  \/ /\ w.register = "enabled" /\ w.index \in Groups
     /\ w.value \in SUBSET Slots
  \/ w.register \in {"high", "low"} /\ w.index \in Slots /\ w.value \in Bytes

LEMMA DisableWritable == \A k \in 1..Len(Disable) : Writable(Disable[k])
<1> SUFFICES ASSUME NEW k \in 1..(LastGroup + 4) PROVE Writable(Disable[k])
  BY DisableLen
<1>1. NullPid.high \in Bytes /\ NullPid.low \in Bytes
  OBVIOUS
<1>2. CASE k \in 1..4
  BY <1>1, <1>2 DEF Disable, Writable, Register
<1>3. CASE k > 4
  BY <1>3 DEF Disable, Writable, Register
<1> QED
  BY <1>2, <1>3

LEMMA ControlWritable == \A k \in 1..Len(Control) : Writable(Control[k])
<1> SUFFICES ASSUME NEW k \in 1..(LastGroup + 2) PROVE Writable(Control[k])
  BY ControlLen
<1>1. Bits(k - 2) \in SUBSET Slots
  BY DEF Bits
<1> QED
  BY <1>1 DEF Control, Writable, Register

LEMMA ListWritable ==
  ASSUME NEW l \in Lists, NEW k \in 1..Len(SetPidList(l))
  PROVE  Writable(SetPidList(l)[k])
<1>1. k \in 1..(2 * Len(l)) /\ Len(l) \in 1..(LastSlot + 1)
  BY ListLen
<1>2. SlotOf(k) \in Slots /\ SlotOf(k) + 1 \in 1..Len(l)
  BY <1>1 DEF SlotOf
<1>3. l[SlotOf(k) + 1] \in Pids
  BY <1>2, ElementOfSeq
<1> QED
  BY <1>1, <1>2, <1>3 DEF SetPidList, Writable, Register

Functions == {<<>>, Disable, Control} \cup {SetPidList(l) : l \in Lists}

LEMMA FunctionLen == \A f \in Functions : Len(f) \in Nat
<1>1. Len(<<>>) = 0
  OBVIOUS
<1> QED
  BY <1>1, DisableLen, ControlLen, ListLen DEF Functions

LEMMA FunctionWritable ==
  ASSUME NEW f \in Functions, NEW k \in 1..Len(f)
  PROVE  Writable(f[k])
<1>1. CASE f = <<>>
  BY <1>1
<1> QED
  BY <1>1, DisableWritable, ControlWritable, ListWritable DEF Functions

-----------------------------------------------------------------------------
(* Type correctness *)

FilterType ==
  /\ mode \in {"pass", "reject"}
  /\ enabled \in [Groups -> SUBSET Slots]
  /\ high \in [Slots -> Bytes] /\ low \in [Slots -> Bytes]

LEMMA SetKeepsType ==
  ASSUME FilterType, NEW w, Writable(w), Set(w)
  PROVE  FilterType'
<1> USE DEF FilterType, Writable, Set
<1>1. mode' \in {"pass", "reject"}
  OBVIOUS
<1>2. enabled' \in [Groups -> SUBSET Slots]
  OBVIOUS
<1>3. high' \in [Slots -> Bytes] /\ low' \in [Slots -> Bytes]
  OBVIOUS
<1> QED
  BY <1>1, <1>2, <1>3

\* What else TypeOK says, with the functions named.
ServerType ==
  /\ streaming \in BOOLEAN /\ obeyed \in BOOLEAN
  /\ ctl \in {"idle", "off", "disable", "on", "start", "wait", "control",
              "list"}
  /\ job \in {"none", "tune", "program", "filter"}
  /\ writes \in Functions
  /\ at \in 1..(Len(writes) + 1)
  /\ attempts \in 0..Attempts /\ failed \in BOOLEAN
  /\ wanted \in Lists \cup {<<>>} /\ list \in Lists \cup {<<>>}
  /\ Lock_Freq_Flag \in BOOLEAN /\ PTHREAD_FLAG \in BOOLEAN
  /\ bTsThread \in BOOLEAN /\ capture \in BOOLEAN

\* A list is written only when there is one.
ListKnown == ctl \in {"control", "list"} => list \in Lists

LEMMA TypeParts == TypeOK <=> FilterType /\ ServerType
  BY Zenon DEF TypeOK, FilterType, ServerType, Functions

LEMMA InitType == Init => FilterType /\ ServerType /\ ListKnown
<1> SUFFICES ASSUME Init PROVE FilterType /\ ServerType /\ ListKnown
  OBVIOUS
<1>1. NullPid.high \in Bytes /\ NullPid.low \in Bytes
  OBVIOUS
<1>2. FilterType
  <2> PICK bits \in {{}, Slots}, byte \in ResetBytes :
        /\ enabled = [g \in Groups |-> IF g = 0 THEN {0} ELSE bits \cap Bits(g)]
        /\ high = [s \in Slots |-> IF s = 0 THEN NullPid.high ELSE byte]
        /\ low = [s \in Slots |-> IF s = 0 THEN NullPid.low ELSE byte]
    BY DEF Init
  <2>1. enabled \in [Groups -> SUBSET Slots]
    BY DEF Bits
  <2>2. high \in [Slots -> Bytes] /\ low \in [Slots -> Bytes]
    BY <1>1
  <2> QED
    BY <2>1, <2>2 DEF Init, FilterType
<1>3. writes \in Functions /\ at \in 1..(Len(writes) + 1)
  <2>1. Len(<<>>) = 0 /\ 1 \in 1..(0 + 1)
    OBVIOUS
  <2> QED
    BY <2>1, Zenon DEF Init, Functions
<1>4. attempts \in 0..Attempts
  BY DEF Init
<1> QED
  BY <1>2, <1>3, <1>4, Zenon DEF Init, ServerType, ListKnown

LEMMA CallType ==
  ASSUME NEW f \in Functions, Call(f)
  PROVE  writes' \in Functions /\ at' \in 1..(Len(writes') + 1)
         /\ failed' \in BOOLEAN
<1>1. writes' = f /\ at' = 1 /\ failed' = FALSE
  BY DEF Call
<1>2. Len(f) \in Nat
  BY FunctionLen
<1>3. 1 \in 1..(Len(f) + 1)
  BY <1>2
<1> QED
  BY <1>1, <1>3, Zenon

LEMMA NextFilterType ==
  ASSUME FilterType, ServerType, [Next]_vars
  PROVE  FilterType'
<1>1. ASSUME at <= Len(writes), Set(writes[at]) PROVE FilterType'
  <2>1. Len(writes) \in Nat /\ at \in 1..Len(writes)
    BY <1>1, FunctionLen DEF ServerType
  <2>2. Writable(writes[at])
    BY <2>1, FunctionWritable DEF ServerType
  <2> QED
    BY <1>1, <2>2, SetKeepsType
<1>2. Broken => FilterType'
  BY <1>1 DEF Broken, FilterType, filter
<1>3. Returns => FilterType'
  BY <1>2 DEF Returns, FilterType, filter
<1>4. Write => FilterType'
  BY <1>1 DEF Write
<1>5. UNCHANGED filter => FilterType'
  BY DEF FilterType, filter
<1> QED
  BY <1>2, <1>3, <1>4, <1>5
     DEF Next, vars, DisableAgain, DisableFails, Disabled, On, GiveUp,
         Controlled, Listed, FilterNothing, Refused, StartTsSend,
         StopStream, Clean, Tune, Off, Start, CallbackStops, ProgramFound,
         Filter

\* A function that is called, goes on or ends keeps its place within its
\* writes.
LEMMA NextCallType ==
  ASSUME ServerType, ListKnown, [Next]_vars
  PROVE  writes' \in Functions /\ at' \in 1..(Len(writes') + 1)
         /\ failed' \in BOOLEAN /\ attempts' \in 0..Attempts
<1> DEFINE Typed == writes' \in Functions /\ at' \in 1..(Len(writes') + 1)
                    /\ failed' \in BOOLEAN
<1>1. writes \in Functions /\ at \in 1..(Len(writes) + 1) /\ failed \in BOOLEAN
      /\ attempts \in 0..Attempts
  BY DEF ServerType
<1>2. Disable \in Functions /\ Control \in Functions
  BY DEF Functions
<1>3. UNCHANGED <<writes, at>> /\ failed' \in BOOLEAN => Typed
  BY <1>1, Zenon
<1>4. Call(Disable) \/ Call(Control) => Typed
  BY <1>2, CallType
<1>5. UNCHANGED calls => Typed /\ attempts' \in 0..Attempts
  BY <1>1, <1>3 DEF calls
<1>6. Returns => failed' \in BOOLEAN
  BY <1>1 DEF Returns
<1>7. CASE Write
  <2>1. Len(writes) \in Nat
    BY <1>1, FunctionLen
  <2>2. at + 1 \in 1..(Len(writes) + 1)
    BY <1>1, <1>7, <2>1 DEF Write
  <2> QED
    BY <1>1, <1>7, <2>2, Zenon DEF Write
<1>8. CASE Controlled
  <2>1. list \in Lists
    BY <1>8 DEF Controlled, Goes, ListKnown
  <2>2. SetPidList(list) \in Functions
    BY <2>1 DEF Functions
  <2>3. 1 \in 1..(Len(SetPidList(list)) + 1)
    BY <2>2, FunctionLen
  <2> QED
    BY <1>1, <1>6, <1>8, <2>2, <2>3, Zenon DEF Controlled
<1>9. CASE DisableAgain
  <2>1. attempts' \in 0..Attempts
    BY <1>1, <1>9 DEF DisableAgain
  <2> QED
    BY <1>4, <1>9, <2>1 DEF DisableAgain
<1>10. CASE FilterNothing \/ \E b \in BOOLEAN : Off(b)
  <2>1. attempts' = 1 => attempts' \in 0..Attempts
    OBVIOUS
  <2> QED
    BY <1>1, <1>4, <1>5, <1>10, <2>1 DEF FilterNothing, Off, calls
<1>11. CASE \E l \in Lists : ProgramFound(l) \/ Filter(l)
  BY <1>1, <1>4, <1>11 DEF ProgramFound, Filter, Filters
<1>12. CASE Listed
  BY <1>1, <1>3, <1>6, <1>12 DEF Listed
<1>13. CASE DisableFails
  BY <1>1, <1>3, <1>13 DEF DisableFails
<1>14. CASE \/ Disabled \/ On \/ GiveUp \/ Refused \/ StartTsSend
            \/ StopStream \/ Clean \/ UNCHANGED vars
            \/ \E b \in BOOLEAN : Tune(b) \/ Start(b) \/ CallbackStops(b)
  BY <1>5, <1>14 DEF Disabled, On, GiveUp, Refused, StartTsSend,
     StopStream, Clean, vars, Tune, Start, CallbackStops
<1> QED
  BY <1>7, <1>8, <1>9, <1>10, <1>11, <1>12, <1>13, <1>14 DEF Next

LEMMA NextServerType ==
  ASSUME ServerType, ListKnown, [Next]_vars
  PROVE  ServerType' /\ ListKnown'
<1>1. UNCHANGED list \/ \E l \in Lists : list' = l
  BY DEF Next, vars, calls, stream, request, DisableAgain, DisableFails,
     Disabled, On, GiveUp, Controlled, Listed, FilterNothing, Refused,
     StartTsSend, StopStream, Clean, Tune, Off, Start, CallbackStops,
     ProgramFound, Filter, Filters, Write
<1>2. UNCHANGED wanted \/ wanted' = <<>> \/ \E l \in Lists : wanted' = l
  BY DEF Next, vars, calls, stream, request, DisableAgain, DisableFails,
     Disabled, On, GiveUp, Controlled, Listed, FilterNothing, Refused,
     StartTsSend, StopStream, Clean, Tune, Off, Start, CallbackStops,
     ProgramFound, Filter, Filters, Write
<1>3. wanted' \in Lists \cup {<<>>} /\ list' \in Lists \cup {<<>>}
  BY <1>1, <1>2, Zenon DEF ServerType
<1>4. /\ ctl' \in {"idle", "off", "disable", "on", "start", "wait", "control",
                   "list"}
      /\ job' \in {"none", "tune", "program", "filter"}
      /\ (ctl' \in {"control", "list"}
            => \/ ctl \in {"control", "list"} /\ UNCHANGED list
               \/ \E l \in Lists : list' = l)
  BY DEF ServerType, Next, vars, calls, stream, request, DisableAgain,
     DisableFails, Disabled, On, GiveUp, Controlled, Listed, FilterNothing,
     Refused, StartTsSend, StopStream, Clean, Tune, Off, Start,
     CallbackStops, ProgramFound, Filter, Filters, Write, Goes
<1>5. /\ streaming' \in BOOLEAN /\ obeyed' \in BOOLEAN
      /\ Lock_Freq_Flag' \in BOOLEAN
  BY DEF ServerType, Next, vars, calls, stream, request, device, DisableAgain,
     DisableFails, Disabled, On, GiveUp, Controlled, Listed, FilterNothing,
     Refused, StartTsSend, StopStream, Clean, Tune, Off, Start,
     CallbackStops, ProgramFound, Filter, Filters, Write, StreamingCtrl
<1>6. /\ PTHREAD_FLAG' \in BOOLEAN /\ bTsThread' \in BOOLEAN
      /\ capture' \in BOOLEAN
  BY DEF ServerType, Next, vars, calls, stream, request, device, DisableAgain,
     DisableFails, Disabled, On, GiveUp, Controlled, Listed, FilterNothing,
     Refused, StartTsSend, StopStream, Clean, Tune, Off, Start,
     CallbackStops, ProgramFound, Filter, Filters, Write, StopTsThread
<1>7. ServerType'
  BY <1>3, <1>4, <1>5, <1>6, NextCallType, Zenon DEF ServerType
<1>8. ListKnown'
  BY <1>4 DEF ListKnown
<1> QED
  BY <1>7, <1>8

\* The registers and what the server remembers stay in their ranges, whatever
\* write of the bridge fails: in particular disable_pid_filter is not tried
\* more than Attempts times.
THEOREM TypeCorrect == Spec => []TypeOK
<1> DEFINE I == FilterType /\ ServerType /\ ListKnown
<1>1. Init => I
  BY InitType
<1>2. I /\ [Next]_vars => I'
  BY NextFilterType, NextServerType
<1>3. I => TypeOK
  BY TypeParts
<1> QED
  BY <1>1, <1>2, <1>3, PTL DEF Spec

-----------------------------------------------------------------------------
(* The filter under a stream *)

\* While a function writes there is no stream, or its endpoint is halted (or
\* has disobeyed).  A capture is only there when its stream has ended.
Quiet ==
  /\ bTsThread => PTHREAD_FLAG
  /\ capture => ~bTsThread
  /\ ctl \in {"control", "list"} => ~bTsThread
  /\ ctl = "disable" => IF job = "filter" THEN ~bTsThread
                                          ELSE ~streaming \/ ~obeyed

LEMMA Halted == StreamingCtrl(FALSE) => ~streaming' \/ ~obeyed'
  BY DEF StreamingCtrl

LEMMA NextQuiet ==
  ASSUME ServerType, Quiet, [Next]_vars
  PROVE  Quiet'
<1> USE DEF Quiet, Goes
<1>1. CASE Write \/ DisableAgain
  BY <1>1 DEF Write, DisableAgain, InFunction, device, stream, request
<1>2. CASE DisableFails \/ Disabled
  BY <1>2 DEF DisableFails, Disabled, device, stream
<1>3. CASE On
  <2>1. ctl' \in {"idle", "start"} /\ UNCHANGED stream
    BY <1>3 DEF On
  <2> QED
    BY <2>1 DEF stream
<1>4. CASE GiveUp
  BY <1>4 DEF GiveUp, StopTsThread
<1>5. CASE Controlled \/ Listed
  BY <1>5 DEF Controlled, Listed, device, stream
<1>6. CASE FilterNothing \/ Refused
  BY <1>6 DEF FilterNothing, Refused, StopTsThread, device, stream,
     request
<1>7. CASE StartTsSend
  BY <1>7 DEF StartTsSend, stream
<1>8. CASE StopStream
  <2>1. ctl' = "idle" /\ StopTsThread
    BY <1>8 DEF StopStream, request
  <2> QED
    BY <2>1 DEF StopTsThread
<1>9. CASE Clean \/ UNCHANGED vars
  BY <1>9 DEF Clean, StopTsThread, vars, device, stream, request
<1>10. ASSUME NEW b \in BOOLEAN, Tune(b) \/ CallbackStops(b) PROVE Quiet'
  BY <1>10 DEF Tune, CallbackStops, device, stream, request
<1>11. ASSUME NEW b \in BOOLEAN, Off(b) PROVE Quiet'
  BY <1>11, Halted DEF Off, stream
<1>12. ASSUME NEW b \in BOOLEAN, Start(b) PROVE Quiet'
  BY <1>12 DEF Start, ServerType
<1>13. CASE \E l \in Lists : ProgramFound(l) \/ Filter(l)
  BY <1>13 DEF ProgramFound, Filter, StopTsThread, device, stream
<1> QED
  BY <1>1, <1>2, <1>3, <1>4, <1>5, <1>6, <1>7, <1>8, <1>9, <1>10, <1>11,
     <1>12, <1>13 DEF Next

\* For any registers, lists and failures the filter is never changed under a
\* stream that delivers, unless the bridge has not obeyed a command to halt:
\* the requests stop the stream or halt its endpoint before they write.
THEOREM FilterIsSteady == Spec => FilterSteady
<1> DEFINE I == FilterType /\ ServerType /\ ListKnown /\ Quiet
<1>1. Init => I
  BY InitType DEF Init, Quiet
<1>2. I /\ [Next]_vars => I'
  BY NextFilterType, NextServerType, NextQuiet
<1>3. I /\ [Next]_vars
        => [streaming /\ obeyed /\ bTsThread => UNCHANGED filter]_vars
  <2> SUFFICES ASSUME I, Next, streaming, obeyed, bTsThread
               PROVE  UNCHANGED filter
    OBVIOUS
  <2>1. ~Write /\ ~DisableAgain /\ ~DisableFails /\ ~Controlled /\ ~Listed
    BY DEF Quiet, ServerType, Write, InFunction, DisableAgain, DisableFails,
       Controlled, Listed, Goes
  <2> QED
    BY <2>1 DEF Next, Disabled, On, GiveUp, FilterNothing, Refused,
       StartTsSend, StopStream, Clean, Tune, Off, Start, CallbackStops,
       ProgramFound, Filter
<1> QED
  BY <1>1, <1>2, <1>3, PTL DEF Spec, FilterSteady

-----------------------------------------------------------------------------
(* What passes *)

\* What the registers hold when each function has written all it writes.
HoldsDisable ==
  /\ mode = "reject" /\ enabled[0] = {0}
  /\ high[0] = NullPid.high /\ low[0] = NullPid.low
  /\ \A g \in Groups : g > 0 => enabled[g] = {}

HoldsControl == mode = "pass" /\ \A g \in Groups : enabled[g] = Bits(g)

HoldsPids(l) ==
  \A i \in 1..Len(l) : high[i - 1] = l[i].high /\ low[i - 1] = l[i].low

Holds(l) == IF l = <<>> THEN HoldsDisable ELSE HoldsControl /\ HoldsPids(l)

\* What they hold before write number "at".
DisableSoFar ==
  /\ at > 1 => mode = "reject"
  /\ at > 2 => enabled[0] = {0}
  /\ at > 3 => high[0] = NullPid.high
  /\ at > 4 => low[0] = NullPid.low
  /\ \A g \in Groups : g > 0 /\ at > g + 4 => enabled[g] = {}

ControlSoFar ==
  /\ at > 1 => mode = "pass"
  /\ \A g \in Groups : at > g + 2 => enabled[g] = Bits(g)

ListSoFar ==
  \A i \in 1..Len(list) : /\ at > 2 * i - 1 => high[i - 1] = list[i].high
                          /\ at > 2 * i => low[i - 1] = list[i].low

Resting == {"idle", "off", "on", "start", "wait"}

\* The registers hold what was asked for, or the function that sees to it is
\* on its way, or it has failed, or the client must tune first.
Carried ==
  /\ ctl = "disable" => writes = Disable /\ ~failed /\ wanted = <<>>
                        /\ DisableSoFar
  /\ ctl = "control" => writes = Control /\ ~failed /\ wanted = list
                        /\ ControlSoFar
  /\ ctl = "list" => writes = SetPidList(list) /\ wanted = list
                     /\ (~failed => HoldsControl /\ ListSoFar)
  /\ ctl \in Resting /\ ~failed /\ (Lock_Freq_Flag \/ bTsThread)
       => Holds(wanted)
  /\ ctl \notin {"idle", "off"} => Lock_Freq_Flag

\* What is asked for passes, once the registers hold it.
LEMMA ListPasses ==
  ASSUME FilterType, NEW l \in Lists, HoldsControl, HoldsPids(l),
         NEW i \in 1..Len(l)
  PROVE  l[i] \in Passing
<1>1. l[i] \in Pids
  BY ElementOfSeq
<1>2. i - 1 \in Slots
  OBVIOUS
<1>3. i - 1 \in enabled[GroupOf[i - 1]]
  BY <1>2 DEF HoldsControl, Bits
<1>4. l[i] = [high |-> high[i - 1], low |-> low[i - 1]]
  BY <1>1 DEF HoldsPids
<1> QED
  BY <1>2, <1>3, <1>4 DEF Passing, SetPids, HoldsControl

LEMMA AllPass ==
  ASSUME FilterType, HoldsDisable
  PROVE  Passing = Unfiltered
<1>1. \A t \in Slots : t \in enabled[GroupOf[t]] <=> t = 0
  BY DEF HoldsDisable
<1>2. NullPid = [high |-> high[0], low |-> low[0]]
  BY DEF HoldsDisable
<1>3. SetPids = {NullPid}
  BY <1>1, <1>2 DEF SetPids
<1> QED
  BY <1>3 DEF Passing, Unfiltered, HoldsDisable

\* One write of each function.
LEMMA DisableWrites ==
  ASSUME FilterType, DisableSoFar, at \in 1..(LastGroup + 4),
         Set(Disable[at]), at' = at + 1
  PROVE  DisableSoFar'
<1>1. CASE at = 1
  BY <1>1 DEF Set, Disable, Register, DisableSoFar, FilterType
<1>2. CASE at = 2
  BY <1>2 DEF Set, Disable, Register, DisableSoFar, FilterType
<1>3. CASE at = 3
  BY <1>3 DEF Set, Disable, Register, DisableSoFar, FilterType
<1>4. CASE at = 4
  BY <1>4 DEF Set, Disable, Register, DisableSoFar, FilterType
<1>5. CASE at > 4
  <2>1. Disable[at] = Register("enabled", at - 4, {})
    BY <1>5 DEF Disable
  <2>2. enabled' = [enabled EXCEPT ![at - 4] = {}]
        /\ UNCHANGED <<mode, high, low>>
    BY <2>1 DEF Set, Register
  <2> QED
    BY <1>5, <2>2 DEF DisableSoFar, FilterType
<1> QED
  BY <1>1, <1>2, <1>3, <1>4, <1>5

LEMMA ControlWrites ==
  ASSUME FilterType, ControlSoFar, at \in 1..(LastGroup + 2),
         Set(Control[at]), at' = at + 1
  PROVE  ControlSoFar'
<1>1. CASE at = 1
  BY <1>1 DEF Set, Control, Register, ControlSoFar, FilterType
<1>2. CASE at > 1
  <2>1. Control[at] = Register("enabled", at - 2, Bits(at - 2))
    BY <1>2 DEF Control
  <2>2. enabled' = [enabled EXCEPT ![at - 2] = Bits(at - 2)]
        /\ UNCHANGED <<mode, high, low>>
    BY <2>1 DEF Set, Register
  <2>3. at - 2 \in Groups
    BY <1>2
  <2> QED
    BY <1>2, <2>2, <2>3 DEF ControlSoFar, FilterType, Bits
<1> QED
  BY <1>1, <1>2

LEMMA ListWrites ==
  ASSUME FilterType, list \in Lists, HoldsControl, ListSoFar,
         at \in 1..(2 * Len(list)), Set(SetPidList(list)[at]), at' = at + 1,
         UNCHANGED list
  PROVE  HoldsControl' /\ ListSoFar'
<1>1. Len(list) \in 1..(LastSlot + 1)
  OBVIOUS
<1>2. PICK s \in Slots : (at = 2 * s + 1 \/ at = 2 * s + 2) /\ SlotOf(at) = s
                        /\ s + 1 \in 1..Len(list)
  BY <1>1 DEF SlotOf
<1>3. CASE at = 2 * s + 1
  <2>1. SetPidList(list)[at] = Register("high", s, list[s + 1].high)
    BY <1>1, <1>2, <1>3 DEF SetPidList
  <2>2. high' = [high EXCEPT ![s] = list[s + 1].high]
        /\ UNCHANGED <<mode, enabled, low>>
    BY <2>1 DEF Set, Register
  <2>3. HoldsControl'
    BY <2>2 DEF HoldsControl, Bits
  <2> QED
    BY <1>1, <1>2, <1>3, <2>2, <2>3 DEF ListSoFar, FilterType
<1>4. CASE at = 2 * s + 2
  <2>1. SetPidList(list)[at] = Register("low", s, list[s + 1].low)
    BY <1>1, <1>2, <1>4 DEF SetPidList
  <2>2. low' = [low EXCEPT ![s] = list[s + 1].low]
        /\ UNCHANGED <<mode, enabled, high>>
    BY <2>1 DEF Set, Register
  <2>3. HoldsControl'
    BY <2>2 DEF HoldsControl, Bits
  <2>4. ASSUME NEW i \in 1..Len(list)
        PROVE  /\ at' > 2 * i - 1 => high'[i - 1] = list[i].high
               /\ at' > 2 * i => low'[i - 1] = list[i].low
    <3>1. at' > 2 * i - 1 => at > 2 * i - 1
      BY <1>1, <1>2, <1>4
    <3>2. at' > 2 * i /\ i # s + 1 => at > 2 * i
      BY <1>1, <1>2, <1>4
    <3>3. i - 1 \in Slots /\ (i - 1 = s <=> i = s + 1)
      BY <1>1, <1>2
    <3>4. low'[i - 1] = IF i = s + 1 THEN list[i].low ELSE low[i - 1]
      BY <2>2, <3>3 DEF FilterType
    <3> QED
      BY <2>2, <3>1, <3>2, <3>4 DEF ListSoFar
  <2> QED
    BY <2>3, <2>4 DEF ListSoFar
<1> QED
  BY <1>2, <1>3, <1>4

LEMMA CarriedWrite ==
  ASSUME FilterType, ServerType, ListKnown, Carried, Write
  PROVE  Carried'
<1>1. /\ at <= Len(writes) /\ at' = at + 1 /\ Set(writes[at])
      /\ UNCHANGED <<ctl, job, writes, failed, wanted, list, Lock_Freq_Flag>>
      /\ ctl \in {"disable", "control", "list"}
  BY DEF Write, InFunction, request
<1>2. at \in 1..Len(writes)
  BY <1>1, FunctionLen DEF ServerType
<1>3. CASE ctl = "disable"
  <2>1. DisableSoFar'
    BY <1>1, <1>2, <1>3, DisableLen, DisableWrites DEF Carried
  <2> QED
    BY <1>1, <1>3, <2>1 DEF Carried, Resting
<1>4. CASE ctl = "control"
  <2>1. ControlSoFar'
    BY <1>1, <1>2, <1>4, ControlLen, ControlWrites DEF Carried
  <2> QED
    BY <1>1, <1>4, <2>1 DEF Carried, Resting
<1>5. CASE ctl = "list"
  <2>1. list \in Lists
    BY <1>5 DEF ListKnown
  <2>2. ~failed' => HoldsControl' /\ ListSoFar'
    BY <1>1, <1>2, <1>5, <2>1, ListLen, ListWrites DEF Carried
  <2> QED
    BY <1>1, <1>5, <2>2 DEF Carried, Resting
<1> QED
  BY <1>1, <1>3, <1>4, <1>5

\* A step that leaves the registers alone leaves what they hold alone.
LEMMA HoldsStays == UNCHANGED <<filter, wanted>> => (Holds(wanted) <=> Holds(wanted)')
  BY DEF Holds, HoldsDisable, HoldsControl, HoldsPids, filter

LEMMA DisableReturns ==
  ASSUME FilterType, ServerType, Carried, Disabled
  PROVE  Holds(wanted)'
<1>1. at = LastGroup + 5 /\ DisableSoFar /\ wanted = <<>>
  BY DisableLen DEF Carried, Disabled, Done, Goes
<1>2. HoldsDisable
  BY <1>1 DEF DisableSoFar, HoldsDisable
<1> QED
  BY <1>1, <1>2, HoldsStays DEF Holds, Disabled

LEMMA ControlReturns ==
  ASSUME ServerType, Carried, Controlled, ~failed'
  PROVE  HoldsControl'
<1>1. Done /\ UNCHANGED filter /\ ctl = "control"
  BY DEF Controlled, Returns, Goes
<1>2. at = LastGroup + 3 /\ ControlSoFar
  BY <1>1, ControlLen DEF Carried, Done
<1>3. HoldsControl
  BY <1>2 DEF ControlSoFar, HoldsControl
<1> QED
  BY <1>1, <1>3 DEF HoldsControl, filter

LEMMA ListReturns ==
  ASSUME ServerType, ListKnown, Carried, Listed, ~failed'
  PROVE  Holds(wanted)'
<1>1. Done /\ UNCHANGED <<filter, failed, wanted>> /\ ctl = "list"
  BY DEF Listed, Returns
<1>2. list \in Lists /\ wanted = list /\ HoldsControl /\ ListSoFar
      /\ writes = SetPidList(list)
  BY <1>1 DEF ListKnown, Carried
<1>3. at = 2 * Len(list) + 1 /\ Len(list) \in Nat
  BY <1>1, <1>2, ListLen DEF Done
<1>4. list # <<>>
  <2>1. Len(<<>>) = 0 /\ Len(list) >= 1
    BY <1>2
  <2> QED
    BY <2>1
<1>5. HoldsPids(wanted)
  <2> SUFFICES ASSUME NEW i \in 1..Len(list)
               PROVE  high[i - 1] = list[i].high /\ low[i - 1] = list[i].low
    BY <1>2 DEF HoldsPids
  <2>1. at > 2 * i - 1 /\ at > 2 * i
    BY <1>3
  <2> QED
    BY <1>2, <2>1 DEF ListSoFar
<1> QED
  BY <1>1, <1>2, <1>4, <1>5, HoldsStays DEF Holds

LEMMA NextCarried ==
  ASSUME FilterType, ServerType, ListKnown, Quiet, Carried, [Next]_vars
  PROVE  Carried'
<1> USE DEF Goes, Resting
<1>1. CASE Write
  BY <1>1, CarriedWrite
<1>2. Call(Disable) => DisableSoFar' /\ writes' = Disable /\ ~failed'
  BY DEF Call, DisableSoFar, Slots, Groups
<1>3. Call(Control) => ControlSoFar' /\ writes' = Control /\ ~failed'
  BY DEF Call, ControlSoFar
<1>4. CASE DisableAgain
  <2>1. ctl = "disable" /\ Call(Disable) /\ UNCHANGED <<ctl, wanted, Lock_Freq_Flag>>
    BY <1>4 DEF DisableAgain, request
  <2> QED
    BY <1>2, <2>1 DEF Carried
<1>5. CASE DisableFails
  BY <1>5 DEF DisableFails, Carried
<1>6. CASE Disabled
  <2>1. Holds(wanted)'
    BY <1>6, DisableReturns
  <2>2. ctl = "disable" /\ ctl' \in {"on", "start"} /\ UNCHANGED Lock_Freq_Flag
    BY <1>6 DEF Disabled
  <2> QED
    BY <2>1, <2>2 DEF Carried
<1>7. CASE Controlled
  <2>1. ~failed' => HoldsControl'
    BY <1>7, ControlReturns
  <2>2. /\ ctl = "control" /\ ctl' = "list" /\ writes' = SetPidList(list)
        /\ at' = 1 /\ UNCHANGED <<list, wanted, Lock_Freq_Flag>>
    BY <1>7 DEF Controlled
  <2>3. ListSoFar'
    <3> SUFFICES ASSUME NEW i \in 1..Len(list)
                 PROVE  ~(1 > 2 * i - 1) /\ ~(1 > 2 * i)
      BY <2>2 DEF ListSoFar
    <3>1. Len(list) \in Nat
      BY <2>2, ListLen DEF ListKnown
    <3> QED
      BY <3>1
  <2> QED
    BY <2>1, <2>2, <2>3 DEF Carried
<1>8. CASE Listed
  <2>1. ~failed' => Holds(wanted)'
    BY <1>8, ListReturns
  <2>2. ctl = "list" /\ ctl' \in {"start", "idle", "wait"} /\ UNCHANGED Lock_Freq_Flag
    BY <1>8 DEF Listed
  <2> QED
    BY <2>1, <2>2 DEF Carried
<1>9. CASE FilterNothing
  BY <1>2, <1>9 DEF FilterNothing, Carried
<1>10. ASSUME NEW l \in Lists, ProgramFound(l) \/ Filter(l) PROVE Carried'
  <2>1. /\ ctl' = "control" /\ Call(Control) /\ wanted' = list'
        /\ UNCHANGED Lock_Freq_Flag /\ Lock_Freq_Flag
    BY <1>10 DEF ProgramFound, Filter, Filters, Carried
  <2> QED
    BY <1>3, <2>1 DEF Carried
<1>11. ASSUME UNCHANGED <<filter, failed, wanted, Lock_Freq_Flag>>,
              ctl \in Resting, ctl' \in Resting,
              bTsThread' => bTsThread \/ Lock_Freq_Flag,
              ctl' \in {"idle", "off"} \/ Lock_Freq_Flag
       PROVE  Carried'
  BY <1>11, HoldsStays DEF Carried
<1>12. CASE On \/ GiveUp \/ Refused \/ StartTsSend \/ StopStream
  <2>1. ctl \in {"on", "wait", "idle"} /\ ctl' \in {"idle", "start"}
    BY <1>12 DEF On, GiveUp, Refused, StartTsSend, StopStream, request
  <2>2. UNCHANGED <<filter, failed, wanted, Lock_Freq_Flag>>
    BY <1>12 DEF On, GiveUp, Refused, StartTsSend, StopStream, request,
       calls
  <2>3. bTsThread' => bTsThread
    BY <1>12 DEF On, GiveUp, Refused, StartTsSend, StopStream,
       StopTsThread, stream
  <2>4. ctl' = "start" => Lock_Freq_Flag
    BY <1>12 DEF On, GiveUp, Refused, StartTsSend, StopStream, Carried,
       request
  <2> QED
    BY <1>11, <2>1, <2>2, <2>3, <2>4
<1>13. CASE Clean
  <2>1. ctl = "idle" /\ ctl' = "idle" /\ Lock_Freq_Flag' = FALSE
        /\ bTsThread' = FALSE
    BY <1>13 DEF Clean, Quiet, StopTsThread, stream, ServerType
  <2> QED
    BY <2>1 DEF Carried
<1>14. ASSUME NEW b \in BOOLEAN, Tune(b) \/ Start(b) PROVE Carried'
  <2>1. ctl \in {"idle", "start"} /\ ctl' \in {"off", "wait", "idle"}
    BY <1>14 DEF Tune, Start
  <2>2. UNCHANGED <<filter, failed, wanted, Lock_Freq_Flag>>
    BY <1>14 DEF Tune, Start, calls
  <2>3. bTsThread' => bTsThread \/ Lock_Freq_Flag
    BY <1>14 DEF Tune, Start, stream, Carried
  <2>4. ctl' = "wait" => Lock_Freq_Flag
    BY <1>14 DEF Tune, Start, Carried
  <2> QED
    BY <1>11, <2>1, <2>2, <2>3, <2>4
<1>15. CASE Off(TRUE)
  BY <1>2, <1>15 DEF Off, Carried
<1>16. CASE Off(FALSE)
  <2>1. /\ ctl = "off" /\ ctl' = "idle" /\ Lock_Freq_Flag' = FALSE
        /\ UNCHANGED <<filter, failed, wanted, bTsThread>>
    BY <1>16 DEF Off, calls, stream
  <2> QED
    BY <2>1, HoldsStays DEF Carried
<1>17. ASSUME NEW b \in BOOLEAN, CallbackStops(b) PROVE Carried'
  <2>1. bTsThread' = FALSE /\ UNCHANGED <<filter, device, calls, request>>
    BY <1>17 DEF CallbackStops
  <2>2. UNCHANGED <<ctl, writes, at, failed, wanted, list, Lock_Freq_Flag>>
        /\ UNCHANGED <<mode, enabled, high, low>>
    BY <2>1 DEF calls, request, filter
  <2>3. /\ DisableSoFar' <=> DisableSoFar
        /\ ControlSoFar' <=> ControlSoFar
        /\ ListSoFar' <=> ListSoFar
        /\ HoldsControl' <=> HoldsControl
    BY <2>2 DEF DisableSoFar, ControlSoFar, ListSoFar, HoldsControl
  <2> QED
    BY <2>1, <2>2, <2>3, HoldsStays DEF Carried
<1>18. CASE UNCHANGED vars
  BY <1>18 DEF vars, filter, device, calls, stream, request, Carried,
     DisableSoFar, ControlSoFar, ListSoFar, Holds, HoldsDisable,
     HoldsControl, HoldsPids
<1> QED
  BY <1>1, <1>4, <1>5, <1>6, <1>7, <1>8, <1>9, <1>10, <1>12, <1>13, <1>14,
     <1>15, <1>16, <1>17, <1>18 DEF Next

LEMMA FilterInvariant ==
  Spec => [](FilterType /\ ServerType /\ ListKnown /\ Quiet /\ Carried)
<1> DEFINE I == FilterType /\ ServerType /\ ListKnown /\ Quiet /\ Carried
<1>1. Init => I
  BY InitType DEF Init, Quiet, Carried, Resting
<1>2. I /\ [Next]_vars => I'
  BY NextFilterType, NextServerType, NextQuiet, NextCarried
<1> QED
  BY <1>1, <1>2, PTL DEF Spec

LEMMA SettledHolds == Carried /\ Settled => Holds(wanted)
  BY DEF Carried, Settled, Resting

\* For any lists that fit the slots, whatever the requests of one client after
\* the other and whatever writes failed before: once a function has written
\* all it writes, what was asked for passes while the stream is on.
THEOREM AskedAlwaysPass == Spec => []AskedPass
<1>1. ASSUME FilterType, ServerType, Carried PROVE AskedPass
  <2> SUFFICES ASSUME Settled, NEW i \in DOMAIN wanted
               PROVE  wanted[i] \in Passing
    BY DEF AskedPass
  <2>1. wanted # <<>>
    OBVIOUS
  <2>2. wanted \in Lists
    BY <1>1, <2>1 DEF ServerType
  <2>3. wanted \in Seq(Pids)
    BY <2>2
  <2>4. i \in 1..Len(wanted)
    BY <2>3, LenProperties
  <2> QED
    BY <1>1, <2>1, <2>2, <2>4, SettledHolds, ListPasses DEF Holds
<1> QED
  BY <1>1, FilterInvariant, PTL

\* A client that has asked for no filter, after whoever had one, gets all but
\* the null packets: a new client must tune, and tuning sets all registers.
THEOREM UnfilteredAlwaysPass == Spec => []UnfilteredPass
<1>1. ASSUME FilterType, Carried PROVE UnfilteredPass
  BY <1>1, SettledHolds, AllPass DEF UnfilteredPass, Holds
<1> QED
  BY <1>1, FilterInvariant, PTL
=============================================================================
