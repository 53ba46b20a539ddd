---------------------------- MODULE SonyMonitorC ----------------------------
(***************************************************************************)
(* What the demodulator tells of a DVB-C or DVB-C2 signal:                 *)
(* sony_demod_dvbc_monitor.c and sony_demod_dvbc2_monitor.c.               *)
(***************************************************************************)
EXTENDS SonyMonitorT

Of(system, P) == Receiving({system}) \o P

---------------------------------------------------------------------------
(* DVB-C.                                                                  *)

dvbc_monitor_SyncStat == Of("DVBC", T(\h40, <<R(\h88), R(\h10)>>))
IsARLocked == dvbc_monitor_SyncStat \o Check("HW_STATE")
OnAR(reads40h) == Measuring({"DVBC"}, Frozen(IsARLocked \o T(\h40, reads40h)))

dvbc_monitor_IFAGCOut      == Measuring({"DVBC"}, T(\h40, <<R(\h49)>>))
dvbc_monitor_QAM           == OnAR(<<R(\h19)>>)
\* Slip: a signal that is not locked is an error that is returned at once.
dvbc_monitor_SymbolRateFrozen ==
  Measuring({"DVBC"}, Freeze \o IsARLocked \o Thawing(T(\h40, <<R(\h1A), R(\h9B)>>)))
  \o Check("HW_STATE")
dvbc_monitor_SymbolRate    == OnAR(<<R(\h1A), R(\h9B)>>) \o Check("HW_STATE")
dvbc_monitor_CarrierOffset == OnAR(<<R(\h15)>>)
dvbc_monitor_SpectrumSense == OnAR(<<R(\h19)>>)
dvbc_monitor_SNR           == OnAR(<<R(\h19), R(\h4C)>>) \o Check("HW_STATE")
dvbc_monitor_PreRSBER ==
  Measuring({"DVBC"}, T(\h40, <<R(\h62)>>) \o Check("HW_STATE") \o On("T", \h40, <<C(\h60)>>))
  \o Check("HW_STATE")
dvbc_monitor_PacketErrorNumber == Measuring({"DVBC"}, T(\h40, <<R(\hEA)>>) \o Check("HW_STATE"))
dvbc_monitor_PER ==
  Measuring({"DVBC"}, T(\h40, <<R(\h5C)>>) \o Check("HW_STATE") \o Check("HW_STATE"))

---------------------------------------------------------------------------
(* DVB-C2: most of it is DVB-T2's.                                         *)

dvbc2_monitor_IFAGCOut          == Of("DVBC2", dvbt2_monitor_IFAGCOut)
dvbc2_monitor_SpectrumSense     == Of("DVBC2", dvbt2_monitor_SpectrumSense)
dvbc2_monitor_CarrierOffset     == Of("DVBC2", dvbt2_monitor_CarrierOffset)
dvbc2_monitor_PostBCHFER        == Of("DVBC2", dvbt2_monitor_PostBCHFER)
dvbc2_monitor_PacketErrorNumber == Of("DVBC2", dvbt2_monitor_PacketErrorNumber)
dvbc2_monitor_TsRate            == Of("DVBC2", dvbt2_monitor_TsRate)
dvbc2_monitor_SyncStat          == Of("DVBC2", dvbt2_monitor_SyncStat)
dvbc2_monitor_SamplingOffset    == Of("DVBC2", dvbt2_monitor_SamplingOffset)
dvbc2_monitor_PER               == Of("DVBC2", dvbt2_monitor_PER)

\* Both parts of the L1 signalling are there, in two banks.
CheckL1DataReady == T(\h52, <<R(\h1F)>>) \o T(\h50, <<R(\hC4)>>) \o Check("HW_STATE")
CheckCommonPLPEnable ==
  T(\h50, <<R(\h6E)>>)
  \o Either(On("T", \h50, <<R(\h68)>>), CheckL1DataReady \o T(\h50, <<R(\h48)>>))
  \o Check("HW_STATE")

dvbc2_monitor_SNR ==
  Measuring({"DVBC2"}, Frozen(As("I2C", dvbc2_monitor_SyncStat) \o Check("HW_STATE")
                              \o T(\h20, <<R(\h28)>>)))
  \o Check("HW_STATE")
dvbc2_monitor_PreLDPCBER ==
  Measuring({"DVBC2"}, Frozen(T(\h20, <<R(\h39)>>) \o Check("HW_STATE")
                              \o On("T", \h20, <<C(\h6F)>>) \o T(\h52, <<R(\h15)>>)))
  \o Check("HW_STATE")
dvbc2_monitor_PreBCHBER ==
  Measuring({"DVBC2"}, Frozen(T(\h24, <<R(\h40)>>) \o Check("HW_STATE")
                              \o T(\h20, <<C(\h72)>>) \o T(\h52, <<R(\h15)>>)))
  \o Check("HW_STATE")
dvbc2_monitor_L1Data ==
  Measuring({"DVBC2"}, Frozen(CheckL1DataReady \o T(\h52, <<R(\h20)>>) \o Check("NOSUPPORT")))
\* of a data PLP, or of the common PLP if there is one
PlpSetting(sync, reg) ==
  Measuring({"DVBC2"}, Frozen(
    sync \o Check("HW_STATE") \o Maybe(CheckCommonPLPEnable) \o T(\h52, <<R(reg)>>)))
dvbc2_monitor_QAM            == PlpSetting(As("I2C", dvbc2_monitor_SyncStat), \h16)
dvbc2_monitor_LDPCCodeLength == PlpSetting(dvbc2_monitor_SyncStat, \h15)
dvbc2_monitor_CodeRate       == PlpSetting(dvbc2_monitor_SyncStat, \h15)
dvbc2_monitor_GI ==
  Measuring({"DVBC2"}, Frozen(
    T(\h50, <<R(\h6E)>>)
    \o Either(On("T", \h50, <<C(\h55)>>), CheckL1DataReady \o T(\h50, <<R(\h15)>>))))
=============================================================================
