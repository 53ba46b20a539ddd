----------------------------- MODULE PidFilter -----------------------------
(***************************************************************************)
(* The bridge's PID filter: the registers that hold it, the functions that *)
(* write them one after the other (rtl2832u_fe.c), and the requests that   *)
(* call these functions (Server.c, usb_fun.c), over a bus on which a write *)
(* may fail.                                                               *)
(*                                                                         *)
(* The filter has slots for PIDs, each of two bytes, and registers with a  *)
(* bit for each slot of a group, by which the slot counts or not.  The     *)
(* mode says whether the PIDs of the slots are the ones that pass or the   *)
(* ones that do not.                                                       *)
(*                                                                         *)
(* TsStream has the stream in detail.  Here the callback may end it at any *)
(* time, and StopTsThread is one step.                                     *)
(***************************************************************************)
EXTENDS Integers, Sequences

CONSTANTS
  LastSlot,     \* 31 in the hardware
  GroupOf,      \* the group of each slot: eight in each of 0x22 to 0x25
  LastGroup,
  Bytes, NullPid,
  ResetBytes,   \* what the bytes of a slot may be after a reset
  Lists,        \* the lists of PIDs that clients and programs ask for
  Attempts,     \* tune_req's attempts of disable_pid_filter (5)
  Faulty        \* whether a register access may fail

Slots == 0..LastSlot
Groups == 0..LastGroup
Pids == [high : Bytes, low : Bytes]

ASSUME SlotAssumption ==
  /\ LastSlot \in Nat /\ LastGroup \in Nat
  /\ GroupOf \in [Slots -> Groups] /\ GroupOf[0] = 0
ASSUME PidAssumption == NullPid \in Pids /\ ResetBytes \subseteq Bytes
\* Get_Pid_List stops at 32 commas: 33 PIDs are left out.
ASSUME ListAssumption ==
  \A l \in Lists : l \in Seq(Pids) /\ Len(l) \in 1..(LastSlot + 1)
ASSUME AttemptAssumption == Attempts \in Nat \ {0} /\ Faulty \in BOOLEAN

VARIABLES
  mode,         \* register 0x21
  enabled,      \* 0x22 to 0x25: the slots of each group whose bit is set
  high, low,    \* 0x26 to 0x65: the bytes of each slot
  streaming,    \* whether the bridge's endpoint delivers data
  obeyed,       \* whether the last rtl2832u_streaming_ctrl(0) was carried out
  ctl,          \* where the communication thread is
  job,          \* the request it serves
  writes, at,   \* the writes of the function it is in, and the next of them
  attempts,     \* of disable_pid_filter
  failed,       \* whether one of the last function's writes has failed
  wanted,       \* the list last asked for, or <<>> for no filter
  list,         \* Pid_List
  Lock_Freq_Flag, PTHREAD_FLAG, bTsThread,
  capture       \* parseOkFlag is set, and /tmp/parse.ts is that capture

filter  == <<mode, enabled, high, low>>
device  == <<streaming, obeyed>>
calls   == <<writes, at, attempts, failed>>
stream  == <<PTHREAD_FLAG, bTsThread, capture>>
request == <<ctl, job, wanted, list, Lock_Freq_Flag>>
vars    == <<filter, device, calls, stream, request>>

Unfiltered == Pids \ {NullPid}

-----------------------------------------------------------------------------
(* The registers                                                           *)

Register(r, k, v) == [register |-> r, index |-> k, value |-> v]

Bits(g) == {s \in Slots : GroupOf[s] = g}

SetPids == {[high |-> high[s], low |-> low[s]] :
              s \in {t \in Slots : t \in enabled[GroupOf[t]]}}

Passing == IF mode = "pass" THEN SetPids ELSE Pids \ SetPids

\* disable_pid_filter: reject nothing but the null packets.
Disable ==
  [k \in 1..(LastGroup + 4) |->
     CASE k = 1 -> Register("mode", 0, "reject")
       [] k = 2 -> Register("enabled", 0, {0})
       [] k = 3 -> Register("high", 0, NullPid.high)
       [] k = 4 -> Register("low", 0, NullPid.low)
       [] k > 4 -> Register("enabled", k - 4, {})]

\* rtl2832_pid_filter_ctr(0): the slots are the PIDs that pass, all of them.
Control ==
  [k \in 1..(LastGroup + 2) |->
     IF k = 1 THEN Register("mode", 0, "pass")
              ELSE Register("enabled", k - 2, Bits(k - 2))]

\* rtl2832_pid_filter: the high and the low byte of one PID after the other.
SlotOf(k) == (k - 1) \div 2

\* (Slip.)  Every PID is written to the first slot.
SetFirstOnly(l) ==
  [k \in 1..(2 * Len(l)) |->
     IF k % 2 = 1 THEN Register("high", 0, l[SlotOf(k) + 1].high)
                  ELSE Register("low", 0, l[SlotOf(k) + 1].low)]

SetPidList(l) ==
  [k \in 1..(2 * Len(l)) |->
     IF k % 2 = 1 THEN Register("high", SlotOf(k), l[SlotOf(k) + 1].high)
                  ELSE Register("low", SlotOf(k), l[SlotOf(k) + 1].low)]

Set(w) ==
  /\ mode' = IF w.register = "mode" THEN w.value ELSE mode
  /\ enabled' = IF w.register = "enabled"
                  THEN [enabled EXCEPT ![w.index] = w.value] ELSE enabled
  /\ high' = IF w.register = "high"
               THEN [high EXCEPT ![w.index] = w.value] ELSE high
  /\ low' = IF w.register = "low"
              THEN [low EXCEPT ![w.index] = w.value] ELSE low
-----------------------------------------------------------------------------
(* The types, and the start                                                *)

\* The registers and what the server remembers stay in their ranges, and
\* disable_pid_filter is tried so many times and no more.
TypeOK ==
  /\ mode \in {"pass", "reject"}
  /\ enabled \in [Groups -> SUBSET Slots]
  /\ high \in [Slots -> Bytes] /\ low \in [Slots -> Bytes]
  /\ streaming \in BOOLEAN /\ obeyed \in BOOLEAN
  /\ ctl \in {"idle", "off", "disable", "on", "start", "wait", "control",
              "list"}
  /\ job \in {"none", "tune", "program", "filter"}
  /\ writes \in {<<>>, Disable, Control} \cup {SetPidList(l) : l \in Lists}
  /\ at \in 1..(Len(writes) + 1)
  /\ attempts \in 0..Attempts /\ failed \in BOOLEAN
  /\ wanted \in Lists \cup {<<>>} /\ list \in Lists \cup {<<>>}
  /\ Lock_Freq_Flag \in BOOLEAN /\ PTHREAD_FLAG \in BOOLEAN
  /\ bTsThread \in BOOLEAN /\ capture \in BOOLEAN

\* SetTsExt has set the mode, the first slot and its bit; the other registers
\* are as the reset has left them.
Init ==
  /\ mode = "pass"
  /\ \E bits \in {{}, Slots}, byte \in ResetBytes :
       /\ enabled = [g \in Groups |->
                       IF g = 0 THEN {0} ELSE bits \cap Bits(g)]
       /\ high = [s \in Slots |-> IF s = 0 THEN NullPid.high ELSE byte]
       /\ low = [s \in Slots |-> IF s = 0 THEN NullPid.low ELSE byte]
  /\ streaming = FALSE /\ obeyed = TRUE
  /\ ctl = "idle" /\ job = "none" /\ writes = <<>> /\ at = 1
  /\ attempts = 0 /\ failed = FALSE
  /\ wanted = <<>> /\ list = <<>>
  /\ Lock_Freq_Flag = FALSE /\ PTHREAD_FLAG = FALSE /\ bTsThread = FALSE
  /\ capture = FALSE

-----------------------------------------------------------------------------
(* Calls                                                                   *)

Goes(from, to) == ctl = from /\ ctl' = to

Call(function) == writes' = function /\ at' = 1 /\ failed' = FALSE

StopTsThread == PTHREAD_FLAG' = FALSE /\ bTsThread' = FALSE /\ capture' = FALSE

\* rtl2832u_streaming_ctrl, whose result nobody looks at.
StreamingCtrl(on) ==
  /\ obeyed' \in {TRUE, ~Faulty}
  /\ streaming' = IF obeyed' THEN on ELSE streaming

InFunction == ctl \in {"disable", "control", "list"}

Write ==
  /\ InFunction /\ at <= Len(writes)
  /\ Set(writes[at]) /\ at' = at + 1
  /\ UNCHANGED <<device, writes, attempts, failed, stream, request>>

\* write_demod_register gives up, whether or not the bridge has written.
Broken == Faulty /\ at <= Len(writes) /\ (Set(writes[at]) \/ UNCHANGED filter)

Done == at = Len(writes) + 1

Returns == \/ Done /\ UNCHANGED <<filter, failed>>
           \/ Broken /\ failed' = TRUE

-----------------------------------------------------------------------------
(* tune_req                                                                *)

Tune(program) ==
  /\ Goes("idle", "off")
  /\ job' = IF program THEN "program" ELSE "tune"
  /\ IF PTHREAD_FLAG THEN StopTsThread ELSE UNCHANGED stream
  /\ UNCHANGED <<filter, device, calls, wanted, list, Lock_Freq_Flag>>

Off(locks) ==
  /\ Goes("off", IF locks THEN "disable" ELSE "idle")
  /\ StreamingCtrl(FALSE)
  /\ Lock_Freq_Flag' = locks
  /\ IF locks THEN Call(Disable) /\ attempts' = 1 /\ wanted' = <<>>
              ELSE UNCHANGED <<calls, wanted>>
  /\ UNCHANGED <<filter, stream, job, list>>

\* (Slip.)  The attempts are not counted.
DisableAgainForever ==
  /\ ctl = "disable" /\ Broken
  /\ job # "filter" /\ attempts' = attempts + 1
  /\ Call(Disable)
  /\ UNCHANGED <<device, stream, request>>

DisableAgain ==
  /\ ctl = "disable" /\ Broken
  /\ job # "filter" /\ attempts < Attempts /\ attempts' = attempts + 1
  /\ Call(Disable)
  /\ UNCHANGED <<device, stream, request>>

DisableFails ==
  /\ Goes("disable", IF job = "filter" THEN "start" ELSE "on") /\ Broken
  /\ job = "filter" \/ attempts = Attempts
  /\ failed' = TRUE
  /\ UNCHANGED <<device, writes, at, attempts, stream, job, wanted, list,
                 Lock_Freq_Flag>>

Disabled ==
  /\ Goes("disable", IF job = "filter" THEN "start" ELSE "on") /\ Done
  /\ UNCHANGED <<filter, device, calls, stream, job, wanted, list,
                 Lock_Freq_Flag>>

On ==
  /\ Goes("on", IF failed THEN "idle" ELSE "start")
  /\ StreamingCtrl(TRUE)
  /\ UNCHANGED <<filter, calls, stream, job, wanted, list, Lock_Freq_Flag>>

\* StartTsThread, and PTHREAD_FLAG whatever has come of it.  The event thread
\* empties the capture's file.
Start(starts) ==
  /\ Goes("start", IF job = "program" THEN "wait" ELSE "idle")
  /\ PTHREAD_FLAG' = TRUE
  /\ bTsThread' = (bTsThread \/ starts)
  /\ capture' = (capture /\ bTsThread' = bTsThread)
  /\ UNCHANGED <<filter, device, calls, job, wanted, list, Lock_Freq_Flag>>

-----------------------------------------------------------------------------
(* filterTsStreamAndSend, after a tune request for a program               *)

\* Get_Pid_List, of the program's PIDs or of the client's, and the filter.
Filters(l) ==
  /\ list' = l /\ wanted' = l
  /\ Call(Control)

\* setProgramAndPidFilter finds the program in the capture.
ProgramFound(l) ==
  /\ Goes("wait", "control") /\ capture
  /\ Filters(l)
  /\ UNCHANGED <<filter, device, attempts, stream, job, Lock_Freq_Flag>>

\* No capture after the last round, or none in which the program is found.
GiveUp ==
  /\ Goes("wait", "idle")
  /\ StopTsThread
  /\ UNCHANGED <<filter, device, calls, job, wanted, list, Lock_Freq_Flag>>

\* Neither function's result is looked at: the list is written after a mode
\* that could not be set.
Controlled ==
  /\ Goes("control", "list") /\ Returns
  /\ writes' = SetPidList(list) /\ at' = 1
  /\ UNCHANGED <<device, attempts, stream, job, wanted, list,
                 Lock_Freq_Flag>>

\* The stream is started, or not: the answer cannot be sent, or the callback
\* has just reset PID_FILTER_FLAG and the rounds go on.
Listed ==
  /\ ctl = "list" /\ Returns
  /\ \/ ctl' = "start" /\ job' = "filter"
     \/ job = "filter" /\ ctl' = "idle" /\ UNCHANGED job
     \/ job = "program" /\ ctl' = "wait" /\ UNCHANGED job
  /\ UNCHANGED <<device, writes, at, attempts, stream, wanted, list,
                 Lock_Freq_Flag>>

-----------------------------------------------------------------------------
(* The other requests                                                      *)

\* (Slip.)  The stream goes on while the filter is written.
FilterRunning(l) ==
  /\ Goes("idle", "control") /\ job' = "filter" /\ Lock_Freq_Flag
  /\ UNCHANGED stream
  /\ Filters(l)
  /\ UNCHANGED <<filter, device, attempts, Lock_Freq_Flag>>

Filter(l) ==
  /\ Goes("idle", "control") /\ job' = "filter" /\ Lock_Freq_Flag
  /\ IF PTHREAD_FLAG THEN StopTsThread ELSE UNCHANGED stream
  /\ Filters(l)
  /\ UNCHANGED <<filter, device, attempts, Lock_Freq_Flag>>

\* pid_filter_req with an empty list.
FilterNothing ==
  /\ Goes("idle", "disable") /\ job' = "filter" /\ Lock_Freq_Flag
  /\ IF PTHREAD_FLAG THEN StopTsThread ELSE UNCHANGED stream
  /\ Call(Disable) /\ attempts' = 1 /\ wanted' = <<>>
  /\ UNCHANGED <<filter, device, list, Lock_Freq_Flag>>

\* tune_req without its parameters, or (of a locked receiver) pid_filter_req
\* without a list: the stream is stopped all the same.
Refused ==
  /\ ctl = "idle" /\ PTHREAD_FLAG /\ StopTsThread
  /\ UNCHANGED <<filter, device, calls, request>>

StartTsSend ==
  /\ Goes("idle", "start") /\ job' = "filter"
  /\ Lock_Freq_Flag /\ ~PTHREAD_FLAG
  /\ UNCHANGED <<filter, device, calls, stream, wanted, list, Lock_Freq_Flag>>

StopStream ==
  /\ ctl = "idle" /\ PTHREAD_FLAG
  /\ StreamingCtrl(FALSE) /\ StopTsThread
  /\ UNCHANGED <<filter, calls, request>>

\* (Slip.)  The next client finds the receiver tuned.
CleanStaysTuned ==
  /\ ctl = "idle"
  /\ IF PTHREAD_FLAG THEN StopTsThread ELSE UNCHANGED stream
  /\ wanted' = <<>>
  /\ UNCHANGED <<filter, device, calls, ctl, job, list, Lock_Freq_Flag>>

\* The client's session ends: the next one has not asked for a filter.
Clean ==
  /\ ctl = "idle"
  /\ IF PTHREAD_FLAG THEN StopTsThread ELSE UNCHANGED stream
  /\ Lock_Freq_Flag' = FALSE
  /\ wanted' = <<>>
  /\ UNCHANGED <<filter, device, calls, ctl, job, list>>

\* cb_img, of a transfer that may be an earlier stream's: a send has failed,
\* or the capture is whole.
CallbackStops(whole) ==
  /\ PTHREAD_FLAG' = FALSE /\ bTsThread' = FALSE /\ capture' = whole
  /\ UNCHANGED <<filter, device, calls, request>>

-----------------------------------------------------------------------------
Next ==
  \/ Write \/ DisableAgain \/ DisableFails \/ Disabled \/ On \/ GiveUp
  \/ Controlled \/ Listed \/ FilterNothing \/ Refused
  \/ StartTsSend \/ StopStream \/ Clean
  \/ (\E b \in BOOLEAN : Tune(b) \/ Off(b) \/ Start(b) \/ CallbackStops(b))
  \/ (\E l \in Lists : ProgramFound(l) \/ Filter(l))

Spec == Init /\ [][Next]_vars

-----------------------------------------------------------------------------
\* A stream is on, and no write of the last function has failed.
Settled == ctl = "idle" /\ bTsThread /\ ~failed

\* What the client or its program has asked for passes the filter, whatever
\* was set, by this client or another, and whatever failed before.
AskedPass == Settled => \A i \in DOMAIN wanted : wanted[i] \in Passing

\* A client that asks for no filter gets everything but the null packets
\* that fill the stream up.
UnfilteredPass == Settled /\ wanted = <<>> => Passing = Unfiltered

\* The filter is not changed under a stream: unless the bridge has not
\* carried out a command to halt, no register changes while it delivers.
FilterSteady ==
  [][streaming /\ obeyed /\ bTsThread => UNCHANGED filter]_vars
=============================================================================
