---------------------------- MODULE SonyMonitorT ----------------------------
(***************************************************************************)
(* What the demodulator tells of a DVB-T or DVB-T2 signal:                 *)
(* sony_demod_dvbt_monitor.c and sony_demod_dvbt2_monitor.c.               *)
(*                                                                         *)
(* A monitor that needs several registers of one moment freezes them,      *)
(* reads them, and unfreezes them on every way out.  The conversions to    *)
(* decibel, rates and percents are left out; that they may refuse what was *)
(* read is a Check.                                                        *)
(***************************************************************************)
EXTENDS SonyDemod

Receiving(systems) == InState({"ACTIVE_T_C"}) \o Need("system", systems, "SW_STATE")
Measuring(systems, P) == Sample \o Receiving(systems) \o P
\* P, all of whose errors are reported as one
As(e, P) == Try(P, All, Fails(e))

---------------------------------------------------------------------------
(* DVB-T.                                                                  *)

dvbt_monitor_SyncStat == Receiving({"DVBT"}) \o T(\h10, <<R(\h10)>>) \o Check("HW_STATE")
IsTPSLocked == dvbt_monitor_SyncStat \o Check("HW_STATE")
OnTPS(reads10h) == Measuring({"DVBT"}, Frozen(IsTPSLocked \o T(\h10, reads10h)))

dvbt_monitor_IFAGCOut      == Measuring({"DVBT"}, T(\h10, <<R(\h26)>>))
dvbt_monitor_ModeGuard     == OnTPS(<<R(\h40)>>)
dvbt_monitor_CarrierOffset == OnTPS(<<R(\h4C)>>)
\* Slip: nothing measured yet is an error that is returned at once.
dvbt_monitor_PreViterbiBERFrozen ==
  Measuring({"DVBT"}, Freeze \o T(\h10, <<R(\h39)>>) \o Check("HW_STATE")
                      \o Thawing(On("T", \h10, <<R(\h22), C(\h6F)>>)))
dvbt_monitor_PreViterbiBER ==
  Measuring({"DVBT"}, Frozen(T(\h10, <<R(\h39)>>) \o Check("HW_STATE")
                               \o On("T", \h10, <<R(\h22), C(\h6F)>>)))
  \o Check("HW_STATE")
dvbt_monitor_PreRSBER ==
  Measuring({"DVBT"}, T(\h10, <<R(\h62)>>) \o Check("HW_STATE") \o On("T", \h10, <<C(\h60)>>))
  \o Check("HW_STATE")
dvbt_monitor_TPSInfo           == OnTPS(<<R(\h2F)>>)
dvbt_monitor_PacketErrorNumber == Measuring({"DVBT"}, T(\h10, <<R(\hEA)>>) \o Check("HW_STATE"))
dvbt_monitor_SpectrumSense     == OnTPS(<<R(\h3F)>>)
dvbt_monitor_SNR               == OnTPS(<<R(\h28)>>) \o Check("HW_STATE")
dvbt_monitor_SamplingOffset    == OnTPS(<<R(\h52), R(\h9F)>>) \o Check("HW_STATE")
\* a hierarchical signal is judged by the stream that is decoded
dvbt_monitor_Quality ==
  Receiving({"DVBT"}) \o dvbt_monitor_TPSInfo
  \o Maybe(T(\h10, <<C(\h67)>>))
  \o dvbt_monitor_PreRSBER \o dvbt_monitor_SNR \o Check("OTHER")
dvbt_monitor_PER ==
  Measuring({"DVBT"}, T(\h10, <<R(\h5C)>>) \o Check("HW_STATE") \o Check("HW_STATE"))

---------------------------------------------------------------------------
(* DVB-T2, and what DVB-C2 shares with it.                                 *)

T2 == {"DVBT2"}
T2C2 == {"DVBT2", "DVBC2"}
dvbt2_monitor_SyncStat == Receiving(T2C2) \o T(\h20, <<R(\h10)>>) \o Check("HW_STATE")
\* any failure of SyncStat is one of the bus here
Synchronised == As("I2C", dvbt2_monitor_SyncStat) \o Check("HW_STATE")
OnSync(systems, reading) == Measuring(systems, Frozen(Synchronised \o reading))

dvbt2_monitor_CarrierOffset == OnSync(T2C2, T(\h20, <<R(\h4C)>>)) \o Check("SW_STATE")
dvbt2_monitor_IFAGCOut      == Measuring(T2C2, T(\h20, <<R(\h26)>>))
dvbt2_monitor_L1Pre         == OnSync(T2, T(\h22, <<R(\h20)>>))
dvbt2_monitor_Version       == OnSync(T2, T(\h22, <<R(\h3F)>>))
dvbt2_monitor_Ofdm          == OnSync(T2, T(\h20, <<R(\h5C)>>))
\* more than 128 PLPs are in two banks
dvbt2_monitor_DataPLPs ==
  Measuring(T2, Select("T", \h22)
    \o Frozen(On("T", \h22, <<R(\h12)>>) \o Check("HW_STATE")
              \o On("T", \h22, <<R(\h7F)>>) \o Check("OTHER")
              \o On("T", \h22, <<R(\h80)>>) \o Maybe(T(\h23, <<R(\h10)>>))))
\* the rate in the stream's headers is read when the registers go on already
dvbt2_monitor_ActivePLP ==
  Measuring(T2, Frozen(
    dvbt2_monitor_SyncStat \o Check("HW_STATE")
    \o T(\h22, <<R(\h12)>>) \o Check("HW_STATE") \o On("T", \h22, <<R(\h3F), R(\h54)>>)
    \o T(\h24, <<R(\h95), R(\h90)>>)))
  \o Check("HW_STATE") \o Sample \o Maybe(T(\h25, <<R(\hA6)>>))
dvbt2_monitor_DataPLPError == Measuring(T2, T(\h22, <<R(\h12)>>) \o Check("HW_STATE"))
\* a change seen is acknowledged
dvbt2_monitor_L1Change ==
  OnSync(T2, T(\h22, <<R(\h15)>>) \o Maybe(On("T", \h22, <<W(\h16, 1)>>)))
\* Slip: the data are read after what says that they are there.
dvbt2_monitor_L1PostLate ==
  Measuring(T2, Frozen(T(\h22, <<R(\h12)>>) \o Check("HW_STATE")) \o On("T", \h22, <<R(\h45)>>))
dvbt2_monitor_L1Post ==
  Measuring(T2, Frozen(T(\h22, <<R(\h12)>>) \o Check("HW_STATE") \o On("T", \h22, <<R(\h45)>>)))
dvbt2_monitor_SpectrumSense ==
  Measuring(T2C2, Frozen(dvbt2_monitor_SyncStat \o Check("HW_STATE") \o T(\h28, <<R(\hE6)>>)))
dvbt2_monitor_SNR == OnSync(T2, T(\h20, <<R(\h28)>>)) \o Check("HW_STATE")
dvbt2_monitor_PreLDPCBER ==
  Measuring(T2, Frozen(T(\h20, <<R(\h39)>>) \o Check("HW_STATE") \o On("T", \h20, <<C(\h6F)>>)
                       \o T(\h22, <<R(\h5E)>>)))
  \o Check("HW_STATE")
dvbt2_monitor_PostBCHFER ==
  Measuring(T2C2, T(\h20, <<R(\h75)>>) \o Check("HW_STATE") \o On("T", \h20, <<C(\h72)>>))
  \o Check("HW_STATE")
\* Slip: the bank of the last register is not selected.
dvbt2_monitor_PreBCHBERUnselected ==
  Measuring(T2, Frozen(T(\h24, <<R(\h40)>>) \o Check("HW_STATE") \o T(\h22, <<R(\h5E), R(\h5B)>>)))
  \o On("T", \h20, <<C(\h72)>>) \o Check("HW_STATE")
dvbt2_monitor_PreBCHBER ==
  Measuring(T2, Frozen(T(\h24, <<R(\h40)>>) \o Check("HW_STATE") \o T(\h22, <<R(\h5E), R(\h5B)>>)))
  \o T(\h20, <<C(\h72)>>) \o Check("HW_STATE")
dvbt2_monitor_PacketErrorNumber == Measuring(T2C2, T(\h24, <<R(\hFD)>>) \o Check("HW_STATE"))
dvbt2_monitor_SamplingOffset ==
  OnSync(T2C2, T(\h20, <<R(\h52), R(\h9F)>>)) \o Check("HW_STATE")
dvbt2_monitor_Quality ==
  Receiving(T2) \o dvbt2_monitor_PreBCHBER \o dvbt2_monitor_SNR \o dvbt2_monitor_ActivePLP
  \o Check("OTHER")
\* A rate too low to be one is an error that is returned at once.
RateTooLow == Maybe(Fails("HW_STATE"))
dvbt2_monitor_TsRate ==
  Measuring(T2C2, Freeze
    \o OnError(Synchronised \o T(\h20, <<R(\hE5)>>), Thaw)
    \o RateTooLow
    \o Thawing(T(\h24, <<R(\h90)>>) \o T(\h25, <<R(\hB2)>>)))
  \o Check("HW_STATE")
dvbt2_monitor_PER ==
  Measuring(T2C2, T(\h24, <<R(\hFA)>>) \o Check("HW_STATE") \o On("T", \h24, <<C(\hDC)>>))
  \o Check("HW_STATE")
=============================================================================
