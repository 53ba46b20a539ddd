---------------------------- MODULE AtbmReceiver ----------------------------
(***************************************************************************)
(* What the ATBM888x tells, its pins and standby (the rest of atbm888x.c), *)
(* and the functions the server calls: atbm888x_main.c, and Tuner_Init and *)
(* Tuner_Lock of Server/Tuner_Get_DataThread.c.                            *)
(*                                                                         *)
(* The tuner is reached through the demodulator: its bypass connects the   *)
(* tuner to the bus, and the demodulator's processor is held meanwhile.    *)
(***************************************************************************)
EXTENDS Atbm888x, TunerAscot3, DriverMachine, TLC

---------------------------------------------------------------------------
(* Lock.                                                                   *)

\* in which mode the chip is, is read from the chip
ByMode(dtmb, dvbc) == ReadBack(\h0013) \o Either(dtmb, Maybe(dvbc))
Polled(P) == Repeat(P \o Maybe(Leave))
DtmbFec == Sample \o ATBMRead(\h0B08)
LockedFlag == ByMode(DtmbFec, ATBMDVBCRead(\h08))
ATBM_sync_state == Repeat(DtmbFec \o Maybe(Leave) \o ATBMRead(\h082B) \o Maybe(Leave))
\* It returns 1 for a lock, and 0 or 2; a switch from DTMB to DVB-C while
\* it waits is not noticed.
ATBMChannelLockCheck ==
  ByMode(Block(Polled(DtmbFec) \o Maybe(Leave) \o Polled(ATBM_sync_state)),
         Polled(ATBMDVBCRead(\h08)))
  \o Either(Assign("locked", "yes"), Assign("locked", "no"))
ATBMChannelLockCheckForManual == ByMode(Polled(DtmbFec), Polled(ATBMDVBCRead(\h08)))

---------------------------------------------------------------------------
(* The spectrum's sense, and what follows it by itself in newer chips.     *)

Sense == Either(ATBMWrite(\h0C01, 3), ATBMWrite(\h0C01, 1))
ATBMSetDTMBIQ ==
  Version(ReadBack(\h0021)
          \o Either(Either(Writes(<<<<\h0021, 3>>, <<\h0C01, 3>>>>),
                           Writes(<<<<\h0021, 1>>, <<\h0C01, 1>>>>)), Sense),
          Sense)
ATBM888xAutoSwapDTMBIQOn ==
  Version(ReadBack(\h0C01) \o Either(ATBMWrite(\h0021, 3), ATBMWrite(\h0021, 1)), <<>>)
ATBM888xAutoSwapDTMBIQOff == Version(Changed(\h0021, 0), <<>>)

---------------------------------------------------------------------------
(* Standby.                                                                *)

ATBMStandby ==
  Chain([n \in 1..5 |-> ReadBack(<<\h0600, \h0602, \h0301, \h060D, \h10F7>>[n])])
  \o Writes(<<<<\h0005, 1>>, <<\h060D, 0>>, <<\h0600, 0>>, <<\h0602, 0>>, <<\h1500, 0>>,
              <<\h0301, 0>>, <<\h10F7, 0>>, <<\h0019, 0>>, <<\h010C, 0>>, <<\h0604, 1>>>>)
ATBMStandbyWakeUp ==
  ReadBack(\h0022) \o Chain([n \in 1..4 |-> ReadBack(<<\h0600, \h0602, \h0301, \h10F7>>[n])])
  \o Writes(<<<<\h0604, 0>>, <<\h0600, 1>>, <<\h0602, 1>>, <<\h1500, 1>>, <<\h0301, 1>>,
              <<\h10F7, 1>>>>)
  \o Maybe(Changed(\h060D, 1))
  \o Writes(<<<<\h0019, 1>>, <<\h0005, 0>>, <<\h010C, 1>>>>)
ATBMSuspend ==
  ATBMChipID \o Is("40", ATBMWrite(\h0606, 2)) \o ATBMStandby
  \o Writes(<<<<\h010C, 0>>, <<\h0604, 1>>, <<\h060E, 2>>>>)

---------------------------------------------------------------------------
(* Measurements.  What takes several registers latches them first.         *)

ATBMSignalStrength           == Latched(Reads(<<\h1028, \h1029>>))
ATBMSignalStrength_reference == Latched(Reads(<<\h1028, \h1029>>))
\* one carrier or many, and the header, say where signal and noise are
SignalAndNoise ==
  Latched(Reads(<<\h082D, \h14AF, \h0D0F>>)
          \o Either(Reads(<<\h0F1D, \h0F1E, \h0F1F, \h0F1A, \h0F1B, \h0F1C>>),
             Either(Reads(<<\h14DC, \h14DD, \h14DE>>)
                      \o Either(Reads(<<\h14F8, \h14F9>>), Reads(<<\h1340, \h1341>>)),
                    Maybe(Reads(<<\h09CC, \h09CD, \h09ED, \h09EE>>)))))
ATBMSignalNoiseRatio  == SignalAndNoise
ATBMSignalDivideNoise == SignalAndNoise
ATBMFrameErrorRatio ==
  ReadBack(\h0B09) \o ReadBack(\h0B0A) \o Latched(Reads(<<\h0B14, \h0B15>>))
ATBMPreBCHBlockErrorRatio ==
  ReadBack(\h0B10) \o ReadBack(\h0B11) \o Latched(Reads(<<\h0B12, \h0B13>>))
ATBMBER_Calc == Latched(Reads(<<\h0B21, \h0B22, \h0B23>>))
ATBMGetTPS == Ignore(ReadChecked(\h0D04))
TSSync == Sample \o ATBMRead(\h030D)
ATBMSignalQuality ==
  ATBMSignalDivideNoise \o Sample \o ATBMGetTPS \o TSSync \o Maybe(TSSync) \o ATBMFrameErrorRatio
ATBMCarrierOffset == Latched(Reads(<<\h0827, \h0828, \h0829>>))
\* the header's mode is read when the registers go on already
ATBM_PPM_Test ==
  TSSync \o Latched(Reads(<<\h0839, \h083A, \h085B, \h085C, \h0885, \h0886, \h0800, \h0801>>))
  \o Sample \o ATBMRead(\h082D)

\* of DVB-C; counters are two registers each, and are not latched
ATBMDVBCSNR == DVBCReads(<<\h3C4, \h3D0>>)
ATBMDVBCBER == Sample \o Reads(<<\h1523, \h1522, \h1521, \h1520>>)
ATBMDVBCUncorrectablePER == Sample \o Reads(<<\h1527, \h1526, \h1521, \h1520>>)
ATBMDVBCGetQAM == ATBMDVBCRead(\h3D0)
ATBMDVBCSignalStrength == ATBMDVBCRead(\h114)
ATBMDVBCCarrierOffset == DVBCReads(<<\h3C0, \h11C, \h118, \h3D0>>)
ATBMDVBCGetSymbolRate == DVBCReads(<<\h218, \h210, \h124>>) \o ReadBack(\h0013)

\* What the signal's parameters are; each register is of its own moment.
ATBM_GetGuardInterval == Sample \o ATBMRead(\h082D)
ATBM_GetGuardIntervalPN ==
  ATBM_GetGuardInterval \o ATBMRead(\h0B08) \o Maybe(Polled(ATBMRead(\h082C)))
Tps == Sample \o ATBMRead(\h0D04)
ATBM_GetQamIndex == Tps
ATBM_GetCodeRate == Tps
ATBM_GetInterleavingMode == Tps
ATBM_GetCarrierMode == Sample \o ATBMRead(\h0D0F)
ATBMGetSignalParameters ==
  ATBM_GetCarrierMode \o ATBM_GetQamIndex \o ATBM_GetCodeRate \o ATBM_GetGuardInterval
  \o ATBM_GetGuardIntervalPN \o ATBM_GetInterleavingMode
ATBMGetDTMBBitRate == ATBM_GetQamIndex \o ATBM_GetCodeRate \o ATBM_GetGuardInterval

---------------------------------------------------------------------------
(* Pins and clocks.                                                        *)

ATBM_GPO_I2CINT_Output == Changed(\h10F7, 1)
ATBM_GPO_PWM1_Output   == Changed(\h10F7, 1)
BothPins == ReadBack(\h10F7) \o ReadBack(\h10FB) \o Writes(<<<<\h10FB, 1>>, <<\h10F7, 1>>>>)
ATBM_GPO_TestIO23_Output == BothPins
ATBM_GPO_TestIO20_Output == BothPins
ATBM_TestIO23_Indicate_TS_Lock      == BothPins \o ATBMWrite(\h001A, 0)
ATBM_TestIO23_Indicate_FEC_No_Error == ATBM_TestIO23_Indicate_TS_Lock \o ATBMWrite(\h001A, 2)
ATBM_TestIO20_Indicate_FEC_Error    == BothPins \o ATBMWrite(\h001B, 0)
ATBM_TestIO20_Indicate_TS_Unlock    == ATBM_TestIO20_Indicate_FEC_Error \o ATBMWrite(\h001B, 2)
ATBMErrorOnDurationMillisecond == Writes(<<<<\h152B, 1>>, <<\h152C, 1>>>>)
ATBMLockOffDurationMillisecond == Writes(<<<<\h0319, 1>>, <<\h031A, 1>>>>)

TransportClock == Changed(\h060E, 1)
\* the bus runs from the crystal while the system's clock changes
SystemClock ==
  ATBMChipID \o ATBMWrite(\h010C, 0) \o ReadBack(\h060D) \o ReadBack(\h060E)
  \o Writes(<<<<\h060D, 1>>, <<\h060E, 1>>>>) \o Is("40", ATBMWrite(\h1537, 1))
  \o ATBMWrite(\h010C, 1)
ATBMSetClock64M == TransportClock \o SystemClock
ATBMSetClock72M == TransportClock \o SystemClock

---------------------------------------------------------------------------
(* atbm888x_main.c and its caller.                                         *)

ATBM88xx_Init == ATBMPowerOnInit \o ATBMI2CByPassOn \o Ignore(cxd2872_init) \o ATBMI2CByPassOff
\* Slip: the demodulator is taken to be in DTMB mode.
ATBM88xx_ChannelLockAsSet(kHz) ==
  ATBMHoldDSP \o ATBMI2CByPassOn \o cxd2872_SetFreq(kHz) \o ATBMI2CByPassOff \o ATBMStartDSP
ATBM88xx_ChannelLock(kHz) ==
  ATBMSetDTMBMode \o ATBMHoldDSP \o ATBMI2CByPassOn \o cxd2872_SetFreq(kHz)
  \o ATBMI2CByPassOff \o ATBMStartDSP
ATBM88xx_CheckLock == ATBMChannelLockCheck
Check_ATBM88xx_ID == ATBMReset \o ATBMChipID
\* Slip: the bus is not passed on first.
ATBM88xx_GetPowerDirect == cxd2872_GetRFlevel \o ATBMI2CByPassOff
ATBM88xx_GetPower == ATBMI2CByPassOn \o cxd2872_GetRFlevel \o ATBMI2CByPassOff
ATBM88xx_GetQuality == ATBMSignalQuality
ATBM88xx_GetError == ATBMFrameErrorRatio

Tuner_Lock(kHz) ==
  ATBM88xx_ChannelLock(kHz) \o ATBM88xx_CheckLock \o When("locked", {"yes"}, ATBM_PPM_Test)
\* a function of the tuner's, as its users call it
Bypassed(P) == ATBMI2CByPassOn \o Ignore(P) \o ATBMI2CByPassOff

\* what changes the state the receiver is in, or the tuner's alone, and
\* what changes neither
PowerAndLock == Functions(
  [Tuner_Init |-> ATBM88xx_Init, Tuner_Lock_474 |-> Tuner_Lock(474), Tuner_Lock_666 |-> Tuner_Lock(666),
   Standby |-> ATBMStandby, StandbyWakeUp |-> ATBMStandbyWakeUp, SetDVBCMode |-> ATBMSetDVBCMode])
TunerCalls == Functions(
  [tuner_Init |-> Bypassed(cxd2872_init), tuner_Tune_474 |-> Bypassed(cxd2872_SetFreq(474)),
   tuner_Tune_666 |-> Bypassed(cxd2872_SetFreq(666)), tuner_Power |-> ATBM88xx_GetPower,
   tuner_Shift |-> Bypassed(ascot3_ShiftFRF(474)), tuner_Sleep |-> Bypassed(ascot3_Sleep)])
Measurements == Functions(
  [Check_ID |-> Check_ATBM88xx_ID, LiveLock |-> ATBM88xx_CheckLock, LivePower |-> ATBM88xx_GetPower,
   LiveQuality |-> ATBM88xx_GetQuality, LiveError |-> ATBM88xx_GetError,
   LockedFlag |-> LockedFlag, ManualCheck |-> ATBMChannelLockCheckForManual, SetDTMBIQ |-> ATBMSetDTMBIQ,
   AutoSwapOn |-> ATBM888xAutoSwapDTMBIQOn, AutoSwapOff |-> ATBM888xAutoSwapDTMBIQOff,
   Strength |-> ATBMSignalStrength, StrengthReference |-> ATBMSignalStrength_reference,
   SNR |-> ATBMSignalNoiseRatio, PreBCH |-> ATBMPreBCHBlockErrorRatio, BER |-> ATBMBER_Calc,
   CarrierOffset |-> ATBMCarrierOffset, PPM |-> ATBM_PPM_Test,
   DVBCSNR |-> ATBMDVBCSNR, DVBCBER |-> ATBMDVBCBER,
   DVBCPER |-> ATBMDVBCUncorrectablePER, DVBCQAM |-> ATBMDVBCGetQAM,
   DVBCStrength |-> ATBMDVBCSignalStrength, DVBCOffset |-> ATBMDVBCCarrierOffset,
   DVBCSymbolRate |-> ATBMDVBCGetSymbolRate, Parameters |-> ATBMGetSignalParameters,
   BitRate |-> ATBMGetDTMBBitRate, SetClock64M |-> ATBMSetClock64M, SetClock72M |-> ATBMSetClock72M,
   Pins |-> ATBM_TestIO23_Indicate_FEC_No_Error, PinsUnlock |-> ATBM_TestIO20_Indicate_TS_Unlock,
   Init |-> ATBM88xx_Init, tuner_GPO |-> Bypassed(ascot3_SetGPO(0)),
   tuner_RfExtCtrl |-> Bypassed(ascot3_SetRfExtCtrl), tuner_RFFilter |-> Bypassed(ascot3_RFFilterConfig)])
LiveFields(model) ==
  [ascot3 |-> "absent", kHz |-> 0, chip |-> "UNKNOWN", fitted |-> model, id |-> "FF", locked |-> "no"]

---------------------------------------------------------------------------
(* Registers the properties are about.                                     *)

D(address) == <<"D", address, 0>>
Bypass == D(\h0103)
Dsp == D(\h0005)
TunerCpu == <<"A", AllBanks, \h87>>
TunedTo == <<"A", AllBanks, Frequency>>
TunerOut == <<"A", AllBanks, IfOut>>
\* Registers that both modes of the demodulator set, and what DTMB needs.
DtmbSetting ==
  [k \in {D(\h0013), D(\h1518), D(\h1515)} |-> 0] @@ [k \in {D(\h0009), D(\h0004)} |-> 1]
    @@ (D(\h0016) :> \h1C)
DtmbOf40 == (D(\h0249) :> \h30) @@ (D(\h023C) :> \h1C) @@ (D(\h02C7) :> 1)
LiveTracked ==
  {Bypass, Dsp, TunerCpu, TunedTo, TunerOut} \cup DOMAIN DtmbSetting \cup DOMAIN DtmbOf40

---------------------------------------------------------------------------
(* Properties.                                                             *)

\* The tuner's registers are written only while the demodulator passes the
\* bus on to it.
TunerThroughBypass ==
  [][\A k \in Tracked : k[1] = "A" /\ regs'[k] # regs[k] /\ faults = 0 => regs[Bypass] = 1]_vars

\* When no function runs the tuner is off the bus, and its processor is in
\* standby once it was initialised, so that neither disturbs the reception.
QuietWhenIdle ==
  Idle /\ Bypass \in Tracked /\ faults = 0 =>
    /\ regs[Bypass] = 0
    /\ drv.ascot3 \in {"SLEEP", "ACTIVE"} => regs[TunerCpu] # \hC4

\* A lock leaves the demodulator set for DTMB with its processor running,
\* whatever it was set for before, DVB-C included.
LockedForDtmb ==
  Returned /\ faults = 0 /\ call \in {"Tuner_Lock_474", "Tuner_Lock_666"} =>
    /\ regs[Dsp] = 0
    /\ \A k \in DOMAIN DtmbSetting : regs[k] = DtmbSetting[k]
    /\ drv.fitted = "40" => \A k \in DOMAIN DtmbOf40 : regs[k] = DtmbOf40[k]

\* The tuner's output is off while a tune changes the frequency, also when
\* accesses before have failed; a shift keeps it on.
SilentWhileTuned ==
  [][(TunedTo \in Tracked) /\ regs'[TunedTo] # regs[TunedTo] /\ call # "tuner_Shift" => regs[TunerOut] = 2]_vars
=============================================================================
