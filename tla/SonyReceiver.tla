---------------------------- MODULE SonyReceiver ----------------------------
(***************************************************************************)
(* A CXD2837 receiver: the functions of its driver, run by DriverMachine.  *)
(***************************************************************************)
EXTENDS SonyInteg, DriverMachine

MonitorsT == Functions(
  [dvbt_CheckDemodLock |-> dvbt_CheckDemodLock, dvbt_IFAGCOut |-> dvbt_monitor_IFAGCOut,
   dvbt_ModeGuard |-> dvbt_monitor_ModeGuard, dvbt_CarrierOffset |-> dvbt_monitor_CarrierOffset,
   dvbt_PacketErrorNumber |-> dvbt_monitor_PacketErrorNumber,
   dvbt_SpectrumSense |-> dvbt_monitor_SpectrumSense,
   dvbt_SamplingOffset |-> dvbt_monitor_SamplingOffset, dvbt_PER |-> dvbt_monitor_PER,
   dvbt_SSI |-> dvbt_monitor_SSI,
   dvbt_Quality |-> GetQuality(dvbt_monitor_Quality), dvbt_Err |-> GetErr(dvbt_monitor_PreViterbiBER),
   dvbt_CheckLock |-> CheckLock(dvbt_monitor_SyncStat)])
MonitorsT2 == Functions(
  [dvbt2_CarrierOffset |-> dvbt2_monitor_CarrierOffset, dvbt2_IFAGCOut |-> dvbt2_monitor_IFAGCOut,
   dvbt2_L1Pre |-> dvbt2_monitor_L1Pre, dvbt2_Version |-> dvbt2_monitor_Version,
   dvbt2_Ofdm |-> dvbt2_monitor_Ofdm, dvbt2_DataPLPs |-> dvbt2_monitor_DataPLPs,
   dvbt2_DataPLPError |-> dvbt2_monitor_DataPLPError, dvbt2_L1Change |-> dvbt2_monitor_L1Change,
   dvbt2_L1Post |-> dvbt2_monitor_L1Post, dvbt2_SpectrumSense |-> dvbt2_monitor_SpectrumSense,
   dvbt2_PostBCHFER |-> dvbt2_monitor_PostBCHFER,
   dvbt2_PacketErrorNumber |-> dvbt2_monitor_PacketErrorNumber,
   dvbt2_SamplingOffset |-> dvbt2_monitor_SamplingOffset, dvbt2_PER |-> dvbt2_monitor_PER,
   dvbt2_SSI |-> dvbt2_monitor_SSI,
   dvbt2_Quality |-> GetQuality(dvbt2_monitor_Quality), dvbt2_Err |-> GetErr(dvbt2_monitor_PreLDPCBER),
   dvbt2_CheckLock |-> CheckLock(dvbt2_monitor_SyncStat)])
MonitorsC == Functions(
  [dvbc_IFAGCOut |-> dvbc_monitor_IFAGCOut, dvbc_SymbolRate |-> dvbc_monitor_SymbolRate,
   dvbc_CarrierOffset |-> dvbc_monitor_CarrierOffset,
   dvbc_SpectrumSense |-> dvbc_monitor_SpectrumSense,
   dvbc_PacketErrorNumber |-> dvbc_monitor_PacketErrorNumber, dvbc_PER |-> dvbc_monitor_PER,
   dvbc_RFLevel |-> RFLevel({"DVBC"}),
   dvbc_Quality |-> GetQuality(dvbc_monitor_Quality), dvbc_Err |-> GetErr(dvbc_monitor_PreRSBER),
   dvbc_CheckLock |-> CheckLock(dvbc_monitor_SyncStat)])
MonitorsC2 == Functions(
  [dvbc2_IFAGCOut |-> dvbc2_monitor_IFAGCOut, dvbc2_SpectrumSense |-> dvbc2_monitor_SpectrumSense,
   dvbc2_CarrierOffset |-> dvbc2_monitor_CarrierOffset,
   dvbc2_PostBCHFER |-> dvbc2_monitor_PostBCHFER,
   dvbc2_PacketErrorNumber |-> dvbc2_monitor_PacketErrorNumber,
   dvbc2_SamplingOffset |-> dvbc2_monitor_SamplingOffset, dvbc2_PER |-> dvbc2_monitor_PER,
   dvbc2_L1Data |-> dvbc2_monitor_L1Data, dvbc2_LDPCCodeLength |-> dvbc2_monitor_LDPCCodeLength,
   dvbc2_GI |-> dvbc2_monitor_GI,
   dvbc2_Quality |-> GetQuality(dvbc2_monitor_Quality), dvbc2_Err |-> GetErr(dvbc2_monitor_PreLDPCBER),
   dvbc2_CheckLock |-> CheckLock(dvbc2_monitor_SyncStat)])
PowerAndTune == Functions(
  [init |-> CheckID, SleepT_C |-> integ_SleepT_C, Shutdown |-> integ_Shutdown,
   DVBT_tun |-> DVBT_tun, DVBT2_tun |-> DVBT2_tun, DVBC_tun |-> DVBC_tun, DVBC2_tun |-> DVBC2_tun,
   GetPower |-> GetPower, SleepS |-> SleepS])
Scans == Functions(
  [BlindTune |-> BlindTune("ANY"), dvbt_Scan |-> dvbt_t2_Scan("DVBT"), dvbt2_Scan |-> dvbt_t2_Scan("DVBT2"),
   dvbc_Scan |-> dvbc_Scan, dvbc2_Scan |-> dvbc2_Scan])

\* The layer below: the demodulator, without its locks and scans.
Settable == Functions([IFAGCNEG |-> SetConfig.IFAGCNEG, TSCLK_CURRENT_10mA |-> SetConfig.TSCLK_CURRENT_10mA])
DemodCalls == Functions(
  [InitializeT_C |-> InitializeT_C, InitializeS |-> InitializeS,
   demod_SleepT_C |-> SleepT_C, demod_SleepS |-> SleepS, demod_Shutdown |-> Shutdown,
   dvbt_Tune |-> dvbt_Tune, dvbt2_Tune |-> dvbt2_Tune, dvbc_Tune |-> dvbc_Tune,
   dvbc2_Tune |-> dvbc2_Tune, TuneEnd |-> TuneEnd])

\* The fields of sony_demod_t and of the two sequences, as Create sets them.
Fields ==
  [state |-> "UNKNOWN", system |-> "UNKNOWN", bw |-> "UNKNOWN", scan |-> "off",
   clock |-> "default", rfain |-> "off", rflvmon |-> "off", sharedIf |-> "off",
   tuner |-> "UNKNOWN", t2first |-> "off", xtal |-> "none", sense |-> "normal",
   tuneSeq |-> "none", tune |-> "no", scanSeq |-> "none", scanTune |-> "no"]

---------------------------------------------------------------------------
(* Registers the properties are about.                                     *)

Repeater  == <<"X", AllBanks, \h08>>
Output    == <<"T", 0, \hC3>>             \* 0 is on
Converter == <<"X", 0, \h18>>             \* 1 is off
Clock     == <<"T", 0, \h2C>>
Mode      == <<"X", 0, \h17>>
Sampling  == <<"T", \h10, Bits(\hD2, 0)>>
Gain      == <<"T", \h11, \h6A>>
Timing    == [DVBT |-> <<"T", \h10, \h9F>>, DVBT2 |-> <<"T", \h20, \h9F>>,
              DVBC |-> <<"T", \h10, \hB6>>, DVBC2 |-> <<"T", \h20, \h9F>>]
Filter    == <<"T", \h10, \hB6>>
OfT2      == <<"T", \h13, \h83>>
OfC2      == <<"T", \h25, \h89>>

\* What they hold at power-on: what going to sleep takes back is that.
PowerOn(k) == CASE k = OfT2 -> \h40 [] k \in {Output, Converter} -> 1 [] OTHER -> 0

---------------------------------------------------------------------------
(* Properties.                                                             *)

\* The tuner's bus is connected only while a function uses it: whatever a
\* tune ends with, lock, no lock, timeout or cancellation, and after any
\* failure of the bus for the functions that return no error then.
RepeaterClosed ==
  /\ Repeater \in Tracked
  /\ \/ Idle /\ faults = 0
     \/ Returned /\ call \in {"SleepT_C", "Shutdown", "GetPower"} /\ err = "OK"
  => regs[Repeater] = 0

\* No scan leaves scan mode on, in which tunes do not clear the
\* cancellation flag.
ScanModeOff == Idle /\ faults = 0 => drv.scan = "off"

\* Nothing is sent while the driver says that the device sleeps, whatever
\* accesses of a tune or of going to sleep have failed; and unless one has
\* failed the receiver's clock and converter are off, whichever system was
\* received before.
AsleepIsSilent ==
  Idle /\ Output \in Tracked /\ drv.state \in Sleeping \cup {"SHUTDOWN"} =>
    /\ regs[Output] = 1
    /\ faults = 0 => regs[Converter] = 1 /\ regs[Clock] = 0

Mhz == [b \in {"1.7", "5", "6", "7", "8"} |->
          CASE b = "1.7" -> 17 [] b = "5" -> 5 [] b = "6" -> 6 [] b = "7" -> 7 [] OTHER -> 8]

\* The registers that a tune sets for a system and a bandwidth, and as what.
TunedFor(s, w) ==
  {<<Mode, CASE s = "DVBT" -> 1 [] s = "DVBT2" -> 2 [] s = "DVBC" -> 4 [] OTHER -> 5>>,
   <<Timing[s], Mhz[w]>>, <<Filter, Mhz[w]>>,
   <<Sampling, IF s = "DVBC" THEN \h09 ELSE \h0C>>, <<Gain, IF s = "DVBC" THEN \h48 ELSE \h50>>,
   <<OfT2, IF s = "DVBT2" THEN \h10 ELSE \h40>>, <<OfC2, IF s = "DVBC2" THEN 1 ELSE 0>>}

\* After a tune the device is set for its system and bandwidth, whatever
\* systems and bandwidths it was set for before: tuning from one to another
\* leaves nothing of the first.
TunedAlike ==
  Idle /\ Mode \in Tracked /\ faults = 0 /\ drv.state = "ACTIVE_T_C"
    => \A p \in TunedFor(drv.system, drv.bw) : regs[p[1]] = p[2]

\* What was configured stays configured through sleep, shutdown and back,
\* each of which may reset the registers.
ConfigKept ==
  Idle /\ faults = 0 /\ drv.state \in Awake => \A k \in DOMAIN memory : regs[k] = memory[k]

\* The bandwidth is changed only while no stream is sent, even if an access
\* before has failed; a reset switches the output off by itself.
SilentRetune ==
  [][(Filter \in Tracked) /\ regs'[Filter] # regs[Filter] => 1 \in {regs[Output], regs'[Output]}]_vars
=============================================================================
