----------------------------- MODULE SonyInteg -----------------------------
(***************************************************************************)
(* The integration layer: sony_integ*.c, and sony_cxd2837_api.c over it.   *)
(* A tune of a system is a tune of the demodulator, a tune of the tuner    *)
(* through the demodulator's I2C repeater, and a wait for lock; a scan is  *)
(* tunes one after the other, in scan mode.  All of it can be cancelled by *)
(* another thread.                                                         *)
(*                                                                         *)
(* As built: TunMode is 45, whose tuner is a CXD2872, and RF level and     *)
(* what needs it are compiled out (SONY_INTEG_DISABLE_ASCOT_TUNER).        *)
(***************************************************************************)
EXTENDS SonyC2

Usable == InState({"SLEEP_T_C", "ACTIVE_T_C"})
\* a bandwidth is one of these
Bandwidth(mhz) == Need("arg", mhz, "NOSUPPORT")
\* Slip: the flag is left as the last call found it.
ClearNever == <<>>
\* A scan clears the flag once, not at each of its tunes.
ClearUnlessScan == When("scan", {"off"}, ClearCancel)
\* an antenna switch; what becomes of it is not looked at
GPIO0 == Ignore(GPIOSetConfig(0, FALSE)) \o Ignore(GPIOWrite(0))

---------------------------------------------------------------------------
(* The tuner.  Nothing on this way has created the CXD2872's driver, which *)
(* therefore refuses; sony_cxd2872__SetFreq prints that and returns        *)
(* nothing.  The tuner itself is then not accessed at all.                 *)

mopll_tuner_Tune == Ignore(Fails("ARG"))
\* Slip: the tuner stays connected.
ThroughRepeaterOneWay(P) == I2cRepeaterEnable(1) \o P
ThroughRepeater(P) == I2cRepeaterEnable(1) \o P \o I2cRepeaterEnable(0)
RF == ThroughRepeater(mopll_tuner_Tune)

---------------------------------------------------------------------------
(* Waiting for lock.                                                       *)

WaitFor(check) ==
  StartWatch
  \o Repeat(check \o OnLock(Leave, Fails("UNLOCK"), <<>>)
            \o TestCancel("CANCEL") \o Timeout("TIMEOUT") \o Tick)
WaitOf(dvbt, dvbt2) ==
  Need("system", {"DVBT", "DVBT2"}, "SW_STATE") \o WaitFor(If("system", {"DVBT"}, dvbt, dvbt2))
dvbt_t2_WaitDemodLock == WaitOf(dvbt_CheckDemodLock, dvbt2_CheckDemodLock)
dvbt_t2_WaitTSLock    == Usable \o WaitOf(dvbt_CheckTSLock, dvbt2_CheckTSLock)
dvbc_WaitDemodLock    == WaitFor(dvbc_CheckDemodLock)
dvbc_WaitTSLock       == Usable \o dvbc_WaitDemodLock
dvbc2_WaitTSLock      == InState({"ACTIVE_T_C"}) \o WaitFor(dvbc2_CheckTSLock)

---------------------------------------------------------------------------
(* DVB-T and DVB-T2.                                                       *)

DvbtBands == {"5", "6", "7", "8"}
Dvbt2Bands == DvbtBands \cup {"1.7"}
integ_dvbt_Tune ==
  GPIO0 \o Usable \o ClearCancel \o Bandwidth(DvbtBands) \o dvbt_SetProfile
  \o dvbt_Tune \o RF \o TuneEnd \o dvbt_t2_WaitTSLock
\* is the PLP asked for there?
PlpThere ==
  StartWatch
  \o Repeat(TestCancel("CANCEL")
            \o Try(dvbt2_monitor_DataPLPError \o Leave, {"HW_STATE"}, Timeout("TIMEOUT") \o Tick))
integ_dvbt2_Tune ==
  GPIO0 \o Usable \o ClearCancel \o Bandwidth(Dvbt2Bands) \o dvbt2_SetPLPConfig(FALSE)
  \o dvbt2_Tune \o RF \o TuneEnd \o dvbt_t2_WaitDemodLock \o dvbt_t2_WaitTSLock \o PlpThere

\* Either system, or DVB-T first and DVB-T2 if there is none.
BlindTune(system) ==
  LET bands == IF system = "DVBT2" THEN Dvbt2Bands ELSE DvbtBands
      tuneT == dvbt_SetProfile \o dvbt_Tune \o RF \o TuneEnd
      lockT == IF system = "DVBT" THEN dvbt_t2_WaitDemodLock
               ELSE Try(dvbt_t2_WaitDemodLock \o Leave, {"TIMEOUT", "UNLOCK"}, <<>>)
      T2part == dvbt2_SetPLPConfig(TRUE) \o dvbt2_Tune \o RF \o TuneEnd \o dvbt_t2_WaitDemodLock
  IN  ClearUnlessScan \o Usable \o Bandwidth(bands)
      \o Block((IF system = "DVBT2" THEN <<>> ELSE tuneT \o lockT)
               \o (IF system = "DVBT" THEN <<>> ELSE T2part))

\* The PLPs found, or the scan goes on without them after a time.
ListPlps ==
  StartWatch
  \o Repeat(TestCancel("CANCEL")
            \o Try(dvbt2_monitor_DataPLPs \o Leave, {"HW_STATE"},
                   Try(Timeout("TIMEOUT") \o Tick, {"TIMEOUT"}, Leave)))
\* one step of a scan after the other; at any of them it may be the last
Steps(P) == Repeat(P \o TestCancel("CANCEL") \o Maybe(Leave))
\* Slip: a scan that fails or is cancelled stays in scan mode.
ScanOfUnended(system, P) == P \o terr_cable_SetScanMode(system, "off")
ScanOf(system, P) == Closing(P, terr_cable_SetScanMode(system, "off"))
dvbt_t2_Scan(system) ==
  Usable \o ClearCancel \o Check("ARG")
  \o Bandwidth(IF system = "DVBT" THEN DvbtBands ELSE Dvbt2Bands)
  \o Ignore(terr_cable_SetScanMode(system, "on"))
  \o ScanOf(system, Steps(Block(
       Try(BlindTune(system), {"UNLOCK", "TIMEOUT"}, Leave)
       \o When("system", {"DVBT2"}, ListPlps))))

---------------------------------------------------------------------------
(* DVB-C and DVB-C2.                                                       *)

integ_dvbc_Tune ==
  GPIO0 \o Usable \o ClearUnlessScan \o dvbc_Tune \o RF \o TuneEnd \o dvbc_WaitTSLock
dvbc_Scan ==
  Usable \o ClearCancel \o Check("ARG") \o terr_cable_SetScanMode("DVBC", "on")
  \o ScanOf("DVBC", Steps(Try(integ_dvbc_Tune, {"UNLOCK", "TIMEOUT"}, <<>>)))

\* The caller of TuneSeq does what it asks for: tunes the tuner, or sleeps.
\* The sequence's record is the function's own.
TuneTuner ==
  When("tune", {"yes"},
       I2cRepeaterEnable(1) \o mopll_tuner_Tune \o TuneRequired("no") \o I2cRepeaterEnable(0))
integ_dvbc2_Tune ==
  Usable \o ClearUnlessScan \o Bandwidth({"6", "8"}) \o Check("ARG") \o StartWatch
  \o Finally(dvbc2_InitTuneSeq
             \o Repeat(When("tuneSeq", {"over"}, Leave) \o dvbc2_TuneSeq \o TuneTuner
                       \o Timeout("TIMEOUT") \o TestCancel("CANCEL")),
             Stage("none") \o TuneRequired("no"))

TuneToFound ==
  When("scanTune", {"yes"},
       Try(integ_dvbc2_Tune, {"UNLOCK", "TIMEOUT"}, <<>>) \o Assign("scanTune", "no"))
ScanFrequency ==
  Ignore(dvbc2_InitScanSeq) \o dvbc2_Tune \o RF \o TuneEnd
  \o Repeat(When("scanSeq", {"over"}, Leave) \o dvbc2_ScanSeq \o TuneToFound
            \o Timeout("TIMEOUT") \o TestCancel("CANCEL"))
dvbc2_Scan ==
  Usable \o ClearCancel \o Check("ARG") \o Bandwidth({"6", "8"}) \o StartWatch
  \o Ignore(terr_cable_SetScanMode("DVBC2", "on"))
  \o Finally(ScanOf("DVBC2", Repeat(ScanFrequency \o Maybe(Leave))),
             ScanStage("none") \o Assign("scanTune", "no"))

---------------------------------------------------------------------------
(* Power states, and signal strength.                                      *)

Powered == InState(Awake \cup {"SHUTDOWN"})
integ_Create == Assign("state", "UNKNOWN") \o Assign("system", "UNKNOWN") \o Assign("scan", "off")
                \o Assign("clock", "default") \o Assign("rfain", "off") \o Assign("sense", "normal")
                \o Assign("t2first", "off") \o Clear \o ClearCancel
integ_InitializeT_C == InitializeT_C \o ThroughRepeater(<<>>)
integ_SleepT_C      == Powered \o ThroughRepeater(<<>>) \o SleepT_C
integ_Shutdown      == Powered \o ThroughRepeater(<<>>) \o Shutdown

RFLevel(systems) == Receiving(systems) \o Fails("NOSUPPORT")
dvbt_monitor_SSI ==
  Receiving({"DVBT"}) \o RFLevel({"DVBT", "DVBT2"}) \o dvbt_monitor_TPSInfo \o Check("OTHER")
dvbt2_monitor_SSI ==
  Receiving({"DVBT2"}) \o RFLevel({"DVBT", "DVBT2"}) \o dvbt2_monitor_ActivePLP \o Check("OTHER")

---------------------------------------------------------------------------
(* The functions the program calls: sony_cxd2837_api.c.                    *)

dvbc_monitor_Quality ==
  Receiving({"DVBC"}) \o dvbc_monitor_PreRSBER \o dvbc_monitor_SNR \o dvbc_monitor_QAM
dvbc2_monitor_Quality ==
  Receiving({"DVBC2"}) \o dvbc2_monitor_CodeRate \o dvbc2_monitor_QAM \o dvbc2_monitor_PreBCHBER
  \o dvbc2_monitor_SNR \o Check("OTHER")

\* One after the other, whatever becomes of each.
InitSettings ==
  <<"PARALLEL_SEL", "SER_DATA_ON_MSB", "OUTPUT_SEL_MSB", "TSVALID_ACTIVE_HI", "TSSYNC_ACTIVE_HI",
    "TSERR_ACTIVE_HI", "LATCH_ON_POSEDGE", "TSCLK_CONT", "TSCLK_MASK", "TSVALID_MASK", "TSERR_MASK",
    "TSCLK_CURRENT_10mA", "TS_CURRENT_10mA", "TERR_CABLE_TS_SERIAL_CLK_FREQ">>
Settings[n \in 0..Len(InitSettings)] ==
  IF n = 0 THEN <<>> ELSE Settings[n - 1] \o Ignore(SetConfig[InitSettings[n]])
sony_cxd2837_init ==
  integ_Create \o As("OTHER", integ_InitializeT_C) \o As("OTHER", SetConfig.IFAGCNEG)
  \o Ignore(GPIOSetConfig(2, TRUE)) \o Assign("tuner", "ASCOT2D")
  \o Settings[Len(InitSettings)] \o Ignore(SetTsClockModeAndFreq)
\* The chip answers or not, at three addresses; that the driver's
\* initialisation failed is not looked at.
CheckID == Check("OTHER") \o Ignore(sony_cxd2837_init)

DVBT_tun  == Ignore(integ_dvbt_Tune)
DVBT2_tun == Ignore(integ_dvbt2_Tune)
DVBC_tun  == Ignore(integ_dvbc_Tune)
DVBC2_tun == Ignore(integ_dvbc2_Tune)
CheckLock(syncStat) == As("UNLOCK", syncStat \o Check("UNLOCK"))
GetPower == ThroughRepeater(Ignore(Fails("ARG")))
\* what is returned when the monitor fails is not initialised
GetQuality(quality) == Ignore(quality)
GetErr(rate) == Ignore(rate)
=============================================================================
