------------------------------ MODULE MCDriver ------------------------------
(* The functions of both boards' drivers, called in any order.  A board     *)
(* stands for a way of calling them: which, over how many failures, and     *)
(* with which registers followed.                                           *)
EXTENDS ReceiverTexts

Programs == MonitorsT @@ MonitorsT2 @@ MonitorsC @@ MonitorsC2 @@ PowerAndTune @@ Scans
              @@ DemodCalls @@ Settable @@ Measurements @@ PowerAndLock @@ TunerCalls
MCProg == Programs
MCArgs ==
  [f \in {"DVBT_tun", "DVBT2_tun", "DVBC2_tun", "BlindTune", "dvbt_Scan", "dvbt2_Scan",
          "dvbc2_Scan"} |-> {"8"}]
    @@ [dvbt_Tune |-> {"8", "7"}, dvbt2_Tune |-> {"8", "1.7"}, dvbc2_Tune |-> {"8", "6"}]

\* The CXD2837 and its tuner as a whole; its demodulator alone; and with
\* settings made between a few tunes.  The ATBM888x's measurements, lock and
\* power, for both models; and its tuner.
MCBoards == {"sony", "demod", "settings", "live", "atbm40", "atbm30", "tuner"}
MCCalls ==
  [sony |-> UNION {DOMAIN P : P \in {MonitorsT, MonitorsT2, MonitorsC, MonitorsC2, PowerAndTune, Scans}},
   demod |-> DOMAIN DemodCalls,
   settings |-> DOMAIN Settable \cup {"InitializeT_C", "demod_SleepT_C", "demod_SleepS",
                                      "demod_Shutdown", "dvbc_Tune", "TuneEnd"},
   live |-> DOMAIN Measurements,
   atbm40 |-> DOMAIN PowerAndLock,
   atbm30 |-> {"Tuner_Init", "Tuner_Lock_474", "SetDVBCMode"},
   tuner |-> DOMAIN TunerCalls]
Unset(model) == Fields @@ LiveFields(model)
MCFields ==
  [sony |-> Unset("40"), demod |-> Unset("40"), settings |-> Unset("40"), live |-> Unset("40"),
   atbm40 |-> Unset("40"), atbm30 |-> Unset("30"), tuner |-> Unset("30")]
MCFaults ==
  [sony |-> 1, demod |-> 1, settings |-> 1, live |-> 0, atbm40 |-> 0, atbm30 |-> 0, tuner |-> 1]
MCCancels == {"sony"}
OfSettings == {<<"T", \h10, Bits(\hCB, 6)>>, <<"T", 0, Bits(\h83, 0)>>}
OfDemod ==
  {Output, Converter, Clock, Mode, Sampling, Gain, Filter, OfT2, OfC2} \cup {Timing[s] : s \in Systems}
    \cup OfSettings
MCSavable == [b \in MCBoards |-> IF b = "settings" THEN OfSettings ELSE {}]
AtPowerOn(registers) == [k \in registers |-> PowerOn(k)]
MCAtPower ==
  [sony |-> AtPowerOn({Repeater}), demod |-> AtPowerOn(OfDemod), settings |-> AtPowerOn(OfDemod),
   live |-> AtPowerOn({Bypass, TunerCpu}),
   atbm40 |-> AtPowerOn(LiveTracked), atbm30 |-> AtPowerOn(LiveTracked), tuner |-> AtPowerOn(LiveTracked)]
=============================================================================
