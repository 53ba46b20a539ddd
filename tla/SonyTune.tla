------------------------------ MODULE SonyTune ------------------------------
(***************************************************************************)
(* From sleep to reception and back: sony_demod_dvbt.c, _dvbt2.c, _dvbc.c  *)
(* and the same part of _dvbc2.c, and the power states that need them.     *)
(*                                                                         *)
(* A tune from sleep writes all that its system needs, a tune of the       *)
(* system that is active the settings of the bandwidth only, and going to  *)
(* sleep takes back what the next system would not write itself.  A table  *)
(* of filter or rate coefficients is written as the bandwidth it is for,   *)
(* in MHz (17 for 1.7).                                                    *)
(***************************************************************************)
EXTENDS SonyDemod

Ascot2 == {"ASCOT2D", "ASCOT2E", "ASCOT2XR"}

\* What is the same in every SLTtoAx: the receiver's clock and converters on,
\* the mode of the system, and the two values that depend on how it samples.
ClockOn(mode) ==
  X(0, <<W(\h17, mode)>>) \o T(0, <<W(\h2C, 1)>>)
RfMonitor(field, on) == If(field, {"on"}, On("T", 0, <<W(\h2F, on)>>), On("T", 0, <<W(\h2F, 0)>>))
ConvertersOn == On("T", 0, <<W(\h30, 1), W(\h41, \h1A), W(\h43, 1)>>) \o On("X", 0, <<W(\h18, 0)>>)
Receiver(sampling, gain) ==
  T(\h10, <<W(Bits(\hD2, 0), sampling)>>) \o T(\h11, <<W(\h6A, gain)>>)
  \o Select("T", \h10)
  \o If("tuner", Ascot2, On("T", \h10, <<W(Bits(\hA5, 0), 1)>>), On("T", \h10, <<W(Bits(\hA5, 0), 0)>>))
NoiseFilter == T(0, <<W(Bits(\hCE, 0), 1), W(Bits(\hCF, 0), 1)>>)
\* the pins of the transport stream
PinsOn  == T(0, <<W(\h80, \h28), W(\h81, 0)>>)
OutputOff == T(0, <<W(\hC3, 1)>>)
PinsOff == On("T", 0, <<W(\h80, \h3F), W(\h81, \hFF)>>)
ConvertersOff ==
  If("sharedIf", {"on"}, On("T", 0, <<W(\h43, \h0A), W(\h41, \h0A)>>),
                         On("T", 0, <<W(\h43, \h02), W(\h41, \h02)>>))
ClockOff(field) ==
  On("T", 0, <<W(\h30, 0)>>) \o When(field, {"on"}, On("T", 0, <<W(\h2F, 0)>>))
  \o On("T", 0, <<W(\h2C, 0)>>)

\* The filters of a bandwidth, in the bank that is selected.
Filters(mhz, tuners) ==
  When("tuner", tuners, On("T", \h10, <<W(\hA6, mhz)>>)) \o On("T", \h10, <<W(\hB6, mhz)>>)
Width(bits) == On("T", \h10, <<W(Bits(\hD7, 0), bits)>>)

---------------------------------------------------------------------------
(* DVB-T.                                                                  *)

BandT(mhz, bits) ==
  On("T", \h10, <<W(\h9F, mhz)>>) \o Filters(mhz, Ascot2) \o Width(bits)
  \o On("T", \h10, <<W(\hD9, mhz)>>) \o T(\h17, <<W(\h38, mhz)>>)
BandT8 == BandT(8, 0)
BandT7 == BandT(7, 2)
BandT6 == BandT(6, 4)
BandT5 == BandT(5, 6)
SLTtoAT_BandSetting ==
  Select("T", \h10)
  \o If("bw", {"8"}, BandT8, If("bw", {"7"}, BandT7, If("bw", {"6"}, BandT6,
       If("bw", {"5"}, BandT5, Fails("SW_STATE")))))
SLTtoAT ==
  ClockOn(1) \o RfMonitor("rflvmon", 1) \o ConvertersOn \o Receiver(\h0C, \h50)
  \o T(\h18, <<W(Bits(\h36, 0), 0)>>) \o NoiseFilter \o T(\h10, <<W(Bits(\h66, 0), 1)>>)
  \o SLTtoAT_BandSetting \o PinsOn
\* Slip: the stream goes on while the bandwidth changes.
ATtoATSending == SLTtoAT_BandSetting \o OutputOff
ATtoAT  == OutputOff \o SLTtoAT_BandSetting
\* Slip: the converter stays on.
ATtoSLT ==
  OutputOff \o PinsOff \o X(0, <<W(\h18, 1)>>) \o ConvertersOff \o ClockOff("rflvmon")
dvbt_SetProfile == InState({"SLEEP_T_C", "ACTIVE_T_C"}) \o T(\h10, <<W(\h67, 1)>>)

---------------------------------------------------------------------------
(* DVB-T2.                                                                 *)

BandT2(mhz, tuners, bits) ==
  On("T", \h20, <<W(\h9F, mhz)>>) \o Select("T", \h10) \o Filters(mhz, tuners) \o Width(bits)
BandT2_8  == BandT2(8, Ascot2, 0)
BandT2_7  == BandT2(7, Ascot2, 2)
BandT2_6  == BandT2(6, Ascot2, 4)
BandT2_5  == BandT2(5, Ascot2, 6)
BandT2_17 == BandT2(17, {"ASCOT2E"}, 3)
SLTtoAT2_BandSetting ==
  Select("T", \h20)
  \o If("bw", {"8"}, BandT2_8, If("bw", {"7"}, BandT2_7, If("bw", {"6"}, BandT2_6,
       If("bw", {"5"}, BandT2_5, If("bw", {"1.7"}, BandT2_17, Fails("SW_STATE"))))))
\* registers whose other values going to sleep takes back
Demodulator(a, b, c) ==
  T(\h13, <<W(\h83, a), W(\h86, b), W(Bits(\h9E, 0), 9), W(\h9F, c)>>)
SLTtoAT2 ==
  ClockOn(2) \o RfMonitor("rflvmon", 1) \o ConvertersOn \o Receiver(\h0C, \h50) \o NoiseFilter
  \o Demodulator(\h10, \h34, \hD8) \o SLTtoAT2_BandSetting \o PinsOn
AT2toAT2 == OutputOff \o SLTtoAT2_BandSetting
\* Slip: what only DVB-T2 sets stays set.
AT2toSLTKept ==
  OutputOff \o PinsOff \o X(0, <<W(\h18, 1)>>)
  \o Select("T", 0) \o ConvertersOff \o ClockOff("rflvmon")
AT2toSLT ==
  OutputOff \o PinsOff \o Demodulator(\h40, \h21, \hFB) \o X(0, <<W(\h18, 1)>>)
  \o Select("T", 0) \o ConvertersOff \o ClockOff("rflvmon")
\* the PLP is left to the chip, or chosen
dvbt2_SetPLPConfig(auto) ==
  InState({"SLEEP_T_C", "ACTIVE_T_C"}) \o Select("T", \h23)
  \o (IF auto THEN <<>> ELSE On("T", \h23, <<W(\hAF, 1)>>))
  \o On("T", \h23, <<W(\hAD, IF auto THEN 0 ELSE 1)>>)

---------------------------------------------------------------------------
(* DVB-C.                                                                  *)

SLTtoAC ==
  ClockOn(4) \o RfMonitor("rflvmon", 1) \o ConvertersOn \o Receiver(\h09, \h48) \o NoiseFilter
  \o T(\h10, <<W(Bits(\h66, 0), 1)>>) \o Filters(8, Ascot2) \o PinsOn
ACtoAC  == OutputOff
ACtoSLT ==
  OutputOff \o PinsOff \o X(0, <<W(\h18, 1)>>) \o ConvertersOff \o ClockOff("rflvmon")

---------------------------------------------------------------------------
(* DVB-C2.                                                                 *)

BandC2_8 ==
  On("T", \h20, <<W(\h9F, 8)>>) \o Select("T", \h10) \o Filters(8, Ascot2) \o Width(0)
  \o T(\h50, <<W(\hEC, 8), W(\hEF, \h11), W(\hF1, \h9E)>>)
\* here the width is written while bank 20h is selected
BandC2_6 ==
  On("T", \h20, <<W(\h9F, 6)>>) \o Select("T", \h10) \o Filters(6, Ascot2)
  \o Select("T", \h20) \o On("T", \h10, <<Astray(W(Bits(\hD7, 0), 4))>>)
  \o T(\h50, <<W(\hEC, 6), W(\hEF, \h17), W(\hF1, \h70)>>)
SLTtoAC2_BandSetting ==
  Select("T", \h20)
  \o If("bw", {"8"}, BandC2_8, If("bw", {"6"}, BandC2_6, Fails("SW_STATE")))

\* Registers that are set for DVB-C2 and taken back.
PresetOff(c2, a6, a89, cb, dc, e) ==
  T(\h20, <<W(\hC2, c2)>>)
  \o T(\h25, <<W(Bits(\h6A, 0), a6), W(\h89, a89), W(Bits(\hCB, 0), cb), W(\hDC, dc),
               W(\hE2, e), W(\hE5, e)>>)
Equaliser(on, d9, a, b, c) ==
  T(\h27, <<W(Bits(\h20, 0), on), W(Bits(\h35, 0), on), W(Bits(\hD9, 0), d9)>>)
  \o T(\h2A, <<W(Bits(\h78, 0), 1 - on), W(\h86, a), W(\h88, b)>>)
  \o T(\h2B, <<W(Bits(\h2B, 0), c)>>) \o T(\h2D, <<W(\h24, on)>>)
SLTtoAC2 ==
  SetTsClockModeAndFreq
  \o ClockOn(5) \o RfMonitor("rfain", 1)
  \o On("T", 0, <<W(\h30, 0), W(\h41, \h1A)>>) \o On("X", 0, <<W(\h13, 1), W(\h18, 0)>>)
  \o Receiver(\h0C, \h50) \o NoiseFilter
  \o PresetOff(0, 0, 1, 1, 1, \h30) \o Equaliser(1, \h18, \h20, \h32, \h10)
  \o SLTtoAC2_BandSetting \o PinsOn
AC2toAC2 == OutputOff \o SLTtoAC2_BandSetting
AC2toSLT ==
  OutputOff \o PinsOff
  \o PresetOff(\h11, 2, 0, 5, 0, \h2F) \o Equaliser(0, \h19, \h08, \h14, 0)
  \o X(0, <<W(\h18, 1)>>) \o T(0, BiasOn) \o ClockOff("rfain")

---------------------------------------------------------------------------
(* Sleep, shutdown and tune.                                               *)

Systems == {"DVBT", "DVBT2", "DVBC", "DVBC2"}
SleepOf(toSleep) == InState({"SLEEP_T_C", "ACTIVE_T_C"}) \o toSleep
dvbt_Sleep  == SleepOf(ATtoSLT)
dvbt2_Sleep == SleepOf(AT2toSLT)
dvbc_Sleep  == SleepOf(ACtoSLT)
dvbc2_Sleep == SleepOf(AC2toSLT)
SystemSleep ==
  Need("system", Systems, "SW_STATE")
  \o OrInvalid(If("system", {"DVBT"}, dvbt_Sleep, If("system", {"DVBT2"}, dvbt2_Sleep,
                 If("system", {"DVBC"}, dvbc_Sleep, dvbc2_Sleep))))

\* Slip: what was configured is not restored.
WokenUnrestored(P) == OrInvalid(P)
\* a change of power state that resets registers, and what restores them
Woken(P) == OrInvalid(P \o Load)

\* Satellite reception is not compiled: its sleep fails.
SatelliteSleep == OrInvalid(Fails("NOSUPPORT"))

SleepT_C ==
  If("state", {"SHUTDOWN"}, Woken(SDtoSLT),
  If("state", {"ACTIVE_S"}, SatelliteSleep,
  If("state", {"ACTIVE_T_C"}, SystemSleep,
  If("state", {"SLEEP_S"}, Woken(SLStoSLT),
     InState({"SLEEP_T_C"})))))
  \o Assign("state", "SLEEP_T_C")
SleepS ==
  If("state", {"SHUTDOWN"}, Woken(SDtoSLS),
  If("state", {"ACTIVE_T_C"}, SystemSleep \o Woken(SLTtoSLS),
  If("state", {"ACTIVE_S"}, SatelliteSleep,
  If("state", {"SLEEP_T_C"}, Woken(SLTtoSLS),
     InState({"SLEEP_S"})))))
  \o Assign("state", "SLEEP_S")
Shutdown ==
  If("state", {"ACTIVE_T_C"}, SystemSleep \o OrInvalid(SLTtoSD),
  If("state", {"ACTIVE_S"}, SatelliteSleep,
  If("state", {"SLEEP_T_C"}, OrInvalid(SLTtoSD),
  If("state", {"SLEEP_S"}, OrInvalid(SLStoSD),
     InState({"SHUTDOWN"})))))
  \o Assign("state", "SHUTDOWN")

\* The fields change before the device does, and the state after it.
TuneOf(system, setBandwidth, again, fromSleep) ==
  If("state", {"ACTIVE_T_C"},
     If("system", {system}, setBandwidth \o again,
        SleepT_C \o Assign("system", system) \o setBandwidth \o fromSleep),
     InState({"SLEEP_T_C"}) \o Assign("system", system) \o setBandwidth \o fromSleep)
  \o Assign("state", "ACTIVE_T_C")
dvbt_Tune  == TuneOf("DVBT", AssignArg("bw"), ATtoAT, SLTtoAT)
dvbt2_Tune == TuneOf("DVBT2", AssignArg("bw"), AT2toAT2, SLTtoAT2)
dvbc_Tune  == TuneOf("DVBC", Assign("bw", "8"), ACtoAC, SLTtoAC)
dvbc2_Tune == TuneOf("DVBC2", AssignArg("bw"), AC2toAC2, SLTtoAC2)
=============================================================================
