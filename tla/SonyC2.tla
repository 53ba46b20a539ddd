------------------------------- MODULE SonyC2 -------------------------------
(***************************************************************************)
(* Locking, and the two sequences of DVB-C2: the rest of sony_demod_dvbc2.c*)
(* and the lock checks of the other systems.                               *)
(*                                                                         *)
(* A DVB-C2 tune and a DVB-C2 scan are sequences of stages.  Their caller  *)
(* calls ScanSeq or TuneSeq again and again, sleeping in between, and does *)
(* the tuning a stage asks for.  What a stage goes on with depends on the  *)
(* signal: that is a choice here, as are a lock's three outcomes.          *)
(***************************************************************************)
EXTENDS SonyTune, SonyMonitorC

---------------------------------------------------------------------------
(* Lock checks.                                                            *)

\* Any state but SLEEP or ACTIVE is refused; asleep, SyncStat refuses.
CheckDemodLock(syncStat) == Sample \o InState({"SLEEP_T_C", "ACTIVE_T_C"}) \o syncStat
dvbt_CheckDemodLock  == CheckDemodLock(dvbt_monitor_SyncStat)
dvbt_CheckTSLock     == CheckDemodLock(dvbt_monitor_SyncStat)
dvbt2_CheckDemodLock == CheckDemodLock(dvbt2_monitor_SyncStat)
dvbt2_CheckTSLock    == CheckDemodLock(dvbt2_monitor_SyncStat)
dvbc_CheckDemodLock  == CheckDemodLock(dvbc_monitor_SyncStat)
dvbc2_CheckDemodLock == CheckDemodLock(dvbc2_monitor_SyncStat)
dvbc2_CheckTSLock    == Sample \o InState({"ACTIVE_T_C"}) \o dvbc2_monitor_SyncStat

\* locked, unlocked, or neither yet
OnLock(locked, unlocked, waiting) == Either(locked, Either(unlocked, waiting))
\* A stage that waits asks its caller to sleep, or its time is over.
Waiting(over) == Either(over, Tick)

---------------------------------------------------------------------------
(* What the stages do with the demodulator.                                *)

ReadIDs == T(\h22, <<R(\h80)>>) \o Maybe(T(\h23, <<R(\h10)>>)) \o Check("RANGE")
GetDataSliceIDList == T(\h52, <<R(\h24), R(\h29), R(\h2D)>>) \o Check("RANGE") \o ReadIDs
GetPLPIDList == T(\h52, <<R(\h30)>>) \o T(\h22, <<R(\h7F)>>) \o Check("RANGE") \o ReadIDs
\* It unfreezes what it does not freeze, on all ways out but the first.
GetNotches ==
  Select("T", \h52)
  \o Thawing(On("T", \h52, <<R(\h2E)>>)
             \o Maybe(Check("NOSUPPORT") \o On("T", \h52, <<R(\h4D)>>)))
CalculateSystemTuningFrequency == Check("RANGE") \o T(\h52, <<R(\h27)>>)

DataSliceOn == W(Bits(\h87, 0), 1)
SetDemodCenterFreq == Check("ARG") \o T(\h50, <<W(\h7A, 1)>>)
\* a failed soft reset counts as one of the bus
Acquire == As("I2C", SoftReset)
DemodSetting1 == SetDemodCenterFreq \o T(\h50, <<W(Bits(\h7D, 0), 0)>>) \o Acquire
CalculateCarrierTunePosition == Check("NOSUPPORT") \o Check("ARG")
DemodSetting2 == CalculateCarrierTunePosition \o T(\h50, <<W(\h7A, 1), DataSliceOn>>)
DemodSetting3 ==
  CalculateCarrierTunePosition \o T(\h50, <<W(\h7A, 1)>>)
  \o CalculateCarrierTunePosition \o On("T", \h50, <<W(\h81, 1)>>)
  \o Acquire
DemodSetting4 == Check("ARG") \o T(\h50, <<W(\h81, 1)>>)

\* The preset of a notch's values, and its release.
PresetFilter(f4, values) == T(\h27, <<W(\hF4, f4)>> \o values)
PresetClock(c9) == T(\h27, <<W(Bits(\hC9, 0), c9)>>) \o T(\h20, <<W(Bits(\hC2, 0), \h11)>>)
DemodPreset ==
  Check("ARG") \o T(\h50, <<W(\h7A, 1), DataSliceOn>>)
  \o PresetFilter(1, <<W(Bits(\h51, 4), \hA), W(\h73, 1)>>) \o T(\h20, <<W(\h9F, 1)>>)
  \o PresetClock(3)
  \o T(\h2A, <<W(\h20, 1)>>)
  \o T(\h50, <<W(\h55, 1), W(\h6B, 1), W(Bits(\h6F, 6), 1)>>)
ReleasePreset ==
  PresetFilter(0, <<W(Bits(\h51, 4), 4), W(\h73, 7), W(Bits(\h74, 0), \h19),
                    W(Bits(\h75, 0), \h19), W(Bits(\h76, 0), \h19)>>)
  \o Select("T", \h20)
  \o If("bw", {"6"}, On("T", \h20, <<W(\h9F, 6)>>), On("T", \h20, <<W(\h9F, 8)>>))
  \o PresetClock(7)
  \o T(\h2A, <<W(\h20, 0)>>) \o T(\h50, <<W(\h6B, 0), W(Bits(\h6F, 6), 0)>>)
Change1stTrial == T(\h28, <<R(\hE6)>>) \o T(\h50, <<R(\h15), W(Bits(\h6F, 0), 1)>>)
SetPLP_ID == T(\h50, <<W(\h7F, 1), DataSliceOn>>)
SetNextDS == T(\h50, <<W(Bits(\h7D, 0), 1), W(\h7E, 1), DataSliceOn>>)
GetTRLNominalRate == T(\h20, <<R(\h52)>>)

---------------------------------------------------------------------------
(* The scan sequence.                                                      *)

ScanStage(n) == Assign("scanSeq", n)
ScanEnds == ScanStage("finalize")

dvbc2_InitScanSeq ==
  InState({"SLEEP_T_C", "ACTIVE_T_C"}) \o ScanStage("1") \o Assign("scanTune", "no")

CheckScanDemodLock == dvbc2_CheckDemodLock \o OnLock(ScanStage("3"), ScanEnds, Waiting(ScanEnds))
\* the L1 signalling is of one moment, or it is waited for
CheckScanL1Data(read) ==
  Sample \o Frozen(T(\h52, <<R(\h1F)>>) \o T(\h50, <<R(\hC4)>>)
                   \o Either(read \o ScanStage("5"), Waiting(ScanEnds)))
DetermineDSType == Sample \o GetNotches

\* The next PLP of this data slice, or the first one of the next.
TuneNext ==
  Maybe(ReleasePreset)
  \o Either(ScanEnds,
            Either(Assign("scanTune", "yes"),
                   If("scanTune", {"yes"}, <<>>, SetPLP_ID)))

dvbc2_ScanSeq ==
  InState({"SLEEP_T_C", "ACTIVE_T_C"})
  \o If("scanSeq", {"1"}, ReleasePreset \o DemodSetting1 \o ScanStage("2"),
     If("scanSeq", {"2"}, CheckScanDemodLock,
     If("scanSeq", {"3"}, Change1stTrial \o ScanStage("4"),
     If("scanSeq", {"4"}, CheckScanL1Data(GetDataSliceIDList),
     If("scanSeq", {"5"}, Either(SetNextDS \o ScanStage("6"), ScanStage("7")),
     If("scanSeq", {"6"}, CheckScanL1Data(GetPLPIDList),
     If("scanSeq", {"7"}, DetermineDSType \o CalculateSystemTuningFrequency
                            \o Either(Assign("scanTune", "yes") \o ScanStage("next") \o TuneNext,
                                      ScanEnds),
     If("scanSeq", {"next"}, TuneNext,
                           Assign("scanTune", "no") \o ScanStage("over")))))))))

---------------------------------------------------------------------------
(* The tune sequence.  A dependent static data slice (DSDS) is found from  *)
(* the data slice it depends on: it is tuned to first, its preset read,    *)
(* and then the DSDS is tuned to with the preset.                          *)

Stage(n) == Assign("tuneSeq", n)
TuneRequired(yes) == Assign("tune", yes)

dvbc2_InitTuneSeq ==
  InState({"SLEEP_T_C", "ACTIVE_T_C"}) \o Stage("initialize") \o TuneRequired("yes")

CheckPresetReady(next) ==
  dvbc2_monitor_SyncStat \o Check("UNLOCK") \o T(\h50, <<R(\h14)>>)
  \o Either(Stage(next), Waiting(Stage("finalize") \o Fails("TIMEOUT")))
CheckTuneDemodLock ==
  If("scan", {"on"}, dvbc2_CheckDemodLock, dvbc2_CheckTSLock)
  \o OnLock(Stage("changeFirstTrial"), Stage("finalize") \o Fails("UNLOCK"),
            Waiting(Stage("finalize") \o Fails("TIMEOUT")))

dvbc2_TuneSeq ==
  InState({"SLEEP_T_C", "ACTIVE_T_C"})
  \o If("tuneSeq", {"initialize"},
        dvbc2_Tune \o When("scan", {"off"}, ReleasePreset)
          \o Either(Stage("nonDsds1"), Stage("dsds1")) \o TuneRequired("yes"),
     If("tuneSeq", {"nonDsds1"}, DemodSetting2 \o TuneEnd \o Stage("waitLock"),
     If("tuneSeq", {"dsds1"}, DemodSetting3 \o Stage("dsds2"),
     If("tuneSeq", {"dsds2"}, CheckPresetReady("dsds3"),
     If("tuneSeq", {"dsds3"}, Change1stTrial \o DemodSetting4
                                \o GetTRLNominalRate \o Stage("dsds4"),
     If("tuneSeq", {"dsds4"}, CheckPresetReady("dsds5"),
     If("tuneSeq", {"dsds5"}, Change1stTrial \o TuneRequired("yes") \o Stage("dsds6"),
     If("tuneSeq", {"dsds6"}, DemodPreset \o TuneEnd \o Stage("waitLock"),
     If("tuneSeq", {"waitLock"}, CheckTuneDemodLock,
     If("tuneSeq", {"changeFirstTrial"}, Change1stTrial \o Stage("finalize"),
                           TuneRequired("no") \o Stage("over")))))))))))
=============================================================================
