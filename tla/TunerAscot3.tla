----------------------------- MODULE TunerAscot3 -----------------------------
(***************************************************************************)
(* The CXD2872 tuner of the board: sony_ascot3.c, and sony_cxd2872.c that  *)
(* calls it.  The tuner has a processor of its own, which is switched on   *)
(* before most registers are written and put to standby after; its         *)
(* registers have no banks.                                                *)
(*                                                                         *)
(* As built: a 16 MHz crystal and no flag but IFAGCSEL_ALL2, so that the   *)
(* oscillator is never switched off.                                       *)
(***************************************************************************)
EXTENDS DriverOps

A(accesses) == On("A", AllBanks, accesses)
Chips == {"2871", "2872", "2875"}
CpuOn == A(<<W(\h87, \hC4)>>)
CpuStandby == A(<<W(\h88, 0), W(\h87, \hC0)>>)

IfOut == \h74 + 256           \* the selection of the IF output: 2 is none
Frequency == \h70
Power == \h5E

\* Registers one after the other, a transfer for each.
OneByOne(first, final) == A([n \in 1..(final - first + 1) |-> W(first + n - 1, 1)])

---------------------------------------------------------------------------
(* sony_ascot3.c.                                                          *)

\* Nothing is accessed; with the flags as built it cannot fail.
ascot3_Create == Assign("ascot3", "UNKNOWN") \o Assign("kHz", 0) \o Assign("chip", "UNKNOWN")

X_fin ==
  Need("chip", Chips, "NOSUPPORT")
  \o A(<<W(\h67, 1), W(IfOut, 2), W(Power, \h15)>>) \o CpuStandby

\* The chip tells which it is in its memory, read through 17h and 19h.
X_pon ==
  A(<<W(\h99, 1)>>) \o OneByOne(\h81, \h86) \o CpuOn \o OneByOne(\h88, \h94)
  \o A(<<W(\h9B, 0), C(\h1A)>>) \o Check("HW_STATE")
  \o Assign("chip", "UNKNOWN")
  \o A(<<W(\h17, 1), C(\h19)>>) \o Maybe(Assign("chip", "2875"))
  \o When("chip", {"UNKNOWN"},
          A(<<W(\h17, 1), C(\h19)>>) \o Either(Assign("chip", "2871"), Assign("chip", "2872")))
  \o A(<<W(\h17, 1), C(\h19), W(\h95, 1)>>)
  \o X_fin \o A(<<W(\h80, 1)>>)

ascot3_Initialize ==
  A(<<C(\h7F)>>) \o Check("NOSUPPORT") \o X_pon
  \o Assign("ascot3", "SLEEP") \o Assign("kHz", 0)

\* Slip: the output stays on.
X_tuneLoud(kHz, vcoCal) ==
  CpuOn \o A(<<W(\h91, 1), W(\h9C, 1), W(Power, \hEE)>>)
  \o OneByOne(\h68, \h6F) \o A(<<W(Frequency, kHz)>>) \o OneByOne(\h71, \h73)
  \o A(<<W(IfOut, 1)>>) \o OneByOne(\h75, \h78)
\* The output is off while the frequency changes, unless the oscillator
\* needs no new calibration.
X_tune(kHz, vcoCal) ==
  (IF vcoCal THEN A(<<W(IfOut, 2)>>) ELSE <<>>)
  \o CpuOn \o A(<<W(\h91, 1), W(\h9C, 1), W(Power, \hEE)>>)
  \o When("chip", {"2871", "2875"}, A(<<W(\h67, 0)>>)) \o Need("chip", Chips, "NOSUPPORT")
  \o OneByOne(\h68, \h6F) \o A(<<W(Frequency, kHz)>>) \o OneByOne(\h71, \h73)
  \o A(<<W(IfOut, 1)>>) \o OneByOne(\h75, \h78)
X_tune_end == CpuStandby

InTuner(states) == Need("ascot3", states, "SW_STATE")
ascot3_Tune(kHz) ==
  InTuner({"SLEEP", "ACTIVE"}) \o X_tune(kHz, TRUE)
  \o Assign("ascot3", "ACTIVE") \o Assign("kHz", kHz)
ascot3_TuneEnd == InTuner({"ACTIVE"}) \o X_tune_end
ascot3_ShiftFRF(kHz) ==
  InTuner({"ACTIVE"}) \o X_tune(kHz, FALSE) \o Assign("kHz", kHz) \o X_tune_end
ascot3_Sleep ==
  InTuner({"SLEEP", "ACTIVE"})
  \o When("ascot3", {"ACTIVE"}, X_fin \o Assign("ascot3", "SLEEP") \o Assign("kHz", 0))

ascot3_SetGPO(id) == Need("chip", {"UNKNOWN", "2871", "2872"}, "NOSUPPORT") \o A(<<W(\h85 + id, 1)>>)
ascot3_SetRfExtCtrl == InTuner({"ACTIVE"}) \o Need("chip", {"2871"}, "NOSUPPORT") \o A(<<W(\h67, 1)>>)
\* Slip: the processor goes on after the measurement.
X_rssiRunning == CpuOn \o A(<<W(\h73, \h30), R(\h7A)>>)
X_rssi == CpuOn \o A(<<W(\h73, \h30), R(\h7A)>>) \o CpuStandby
ascot3_ReadRssi == Sample \o InTuner({"ACTIVE"}) \o X_rssi
ascot3_RFFilterConfig ==
  InTuner({"SLEEP", "ACTIVE"}) \o Need("chip", {"UNKNOWN", "2871", "2872"}, "NOSUPPORT")
  \o CpuOn \o Maybe(A(<<W(\h16, 1)>>)) \o CpuStandby

---------------------------------------------------------------------------
(* sony_cxd2872.c, which prints what its calls return and goes on.         *)

cxd2872_init == ascot3_Create \o Ignore(ascot3_Initialize) \o A(<<W(\h79, \hB4)>>)
cxd2872_SetFreq(kHz) == Ignore(ascot3_Tune(kHz)) \o Ignore(ascot3_TuneEnd)
cxd2872_GetRFlevel == Ignore(ascot3_ReadRssi)
=============================================================================
