----------------------------- MODULE SonyDemod -----------------------------
(***************************************************************************)
(* The demodulator's life: sony_demod.c.  Power states, settings and the   *)
(* memory that restores them, the repeater to the tuner's bus, GPIO, the   *)
(* transport stream's clock, and the end of a tune.                        *)
(*                                                                         *)
(* Each program is one C function.  Values that are computed or looked up  *)
(* are 1.  The parts compiled for satellite reception only are left out.   *)
(***************************************************************************)
EXTENDS DriverOps, TLC

\* A field of a register: what a read-modify-write writes.
Bits(reg, lowest) == reg + 256 * (lowest + 1)

All == {"I2C", "ARG", "SW_STATE", "HW_STATE", "NOSUPPORT", "RANGE",
        "TIMEOUT", "UNLOCK", "CANCEL", "OVERFLOW", "OTHER"}
Sleeping == {"SLEEP_T_C", "SLEEP_S"}
Awake == Sleeping \cup {"ACTIVE_T_C", "ACTIVE_S"}
InState(states) == Need("state", states, "SW_STATE")

\* Slip: the state goes on as if the device had followed.
OrIgnored(P) == Ignore(P)
\* P, and on its failure the state is INVALID.
OrInvalid(P) == OnError(P, Assign("state", "INVALID"))

---------------------------------------------------------------------------
(* Settings.                                                               *)

\* A setting is written to its bits, and remembered by setConfigMemory
\* (whose table has room for more settings than there are).
SetAndSaveRegisterBits(dev, bank, reg) ==
  InState(Awake) \o Select(dev, bank) \o On(dev, bank, <<S(reg, 1)>>)
SaveT(bank, reg) == SetAndSaveRegisterBits("T", bank, reg)

\* The cases of sony_demod_SetConfig's switch.
OutputSettings ==
  [PARALLEL_SEL |-> SaveT(0, Bits(\hC4, 7)), SER_DATA_ON_MSB |-> SaveT(0, Bits(\hC4, 3)),
   OUTPUT_SEL_MSB |-> SaveT(0, Bits(\hC4, 4)), TSVALID_ACTIVE_HI |-> SaveT(0, Bits(\hC5, 1)),
   TSSYNC_ACTIVE_HI |-> SaveT(0, Bits(\hC5, 2)), TSERR_ACTIVE_HI |-> SaveT(0, Bits(\hCB, 0)),
   LATCH_ON_POSEDGE |-> SaveT(0, Bits(\hC5, 0)), TSCLK_CONT |-> Assign("clock", "chosen")]
MaskSettings ==
  [TSCLK_MASK |-> Check("ARG") \o SaveT(0, \hC6),
   TSVALID_MASK |-> Check("ARG") \o SaveT(0, \hC8),
   TSERR_MASK |-> Check("ARG") \o SaveT(0, \hC9),
   TSCLK_CURRENT_10mA |-> SaveT(0, Bits(\h83, 0)),
   TS_CURRENT_10mA |->
     SaveT(0, Bits(\h83, 1)) \o SaveT(0, \h84)
     \o X(0, <<C(\hA5)>>) \o Maybe(On("X", 0, <<W(Bits(\h85, 2), 1)>>))]
ModeSettings ==
  [TS_BACKWARDS_COMPATIBLE |-> SaveT(0, Bits(\hD3, 0)) \o SaveT(0, Bits(\hDE, 0)),
   PWM_VALUE |-> SaveT(0, Bits(\hB7, 0)) \o SaveT(0, \hB2) \o SaveT(0, \hB3),
   TSIF_SDPR |->
     Check("RANGE") \o SaveT(\h10, \hE4) \o SaveT(\h10, \hE5) \o SaveT(\h10, \hE6)
     \o SaveT(\h20, \hDC) \o SaveT(\h20, \hDD) \o SaveT(\h20, \hDE) \o SaveT(\h20, \hDF)]
RateSettings ==
  [TS_AUTO_RATE_ENABLE |-> SaveT(\h10, \hE3) \o SaveT(\h20, \hD8),
   TERR_CABLE_TS_SERIAL_CLK_FREQ |-> Check("RANGE") \o Assign("clock", "chosen"),
   IFAGCNEG |-> SaveT(\h10, Bits(\hCB, 6)),
   IFAGC_ADC_FS |-> Check("RANGE") \o SaveT(\h10, \hCD),
   SPECTRUM_INV |-> Assign("sense", "inverted"), RFAIN_ENABLE |-> Assign("rfain", "on"),
   TERR_BLINDTUNE_DVBT2_FIRST |-> Assign("t2first", "on")]
PeriodSettings ==
  [DVBTC_BERN_PERIOD |-> Check("RANGE") \o SaveT(\h10, \h60),
   DVBT_VBER_PERIOD |-> Check("RANGE") \o SaveT(\h10, \h6F),
   DVBT2C2_BBER_MES |-> Check("RANGE") \o SaveT(\h20, \h72),
   DVBT2C2_LBER_MES |-> Check("RANGE") \o SaveT(\h20, \h6F),
   DVBTC_PER_MES |-> Check("RANGE") \o SaveT(\h10, \h5C),
   DVBT2C2_PER_MES |-> Check("RANGE") \o SaveT(\h24, \hDC)]

\* The settings that can be made while the device is active too.
AnyTime == {"PWM_VALUE", "IFAGCNEG", "IFAGC_ADC_FS", "SPECTRUM_INV", "TERR_BLINDTUNE_DVBT2_FIRST"}
             \cup DOMAIN PeriodSettings
SettingsOf(group) ==
  [id \in DOMAIN group |->
     InState(Awake) \o (IF id \in AnyTime THEN <<>> ELSE InState(Sleeping)) \o group[id]]
SetConfig ==
  SettingsOf(OutputSettings) @@ SettingsOf(MaskSettings) @@ SettingsOf(ModeSettings)
    @@ SettingsOf(RateSettings) @@ SettingsOf(PeriodSettings)

---------------------------------------------------------------------------
(* The repeater, GPIO and identification.                                  *)

I2cRepeaterEnable(on) == On("X", AllBanks, <<W(\h08, on)>>)

GPIOSetConfig(id, tsError) ==
  X(0, <<W(\hA3 + id, 1), W(Bits(\h82, id), 1)>>)
  \o (IF id # 2 THEN <<>> ELSE
        (IF tsError THEN On("T", 0, <<Astray(C(\h83))>>) ELSE <<>>)
        \o On("X", 0, <<W(Bits(\h85, 2), 1)>>))
GPIORead == X(0, <<R(\hA0)>>)
GPIOWrite(id) == InState(Awake \cup {"SHUTDOWN"}) \o X(0, <<W(Bits(\hA2, id), 1)>>)

\* The device "X" is asked if "T" does not answer.
ChipID ==
  Block(Try(Select("T", 0), {"I2C"}, X(0, <<C(\hFD)>>) \o Leave)
        \o On("T", 0, <<C(\hFD)>>))
terr_cable_monitor_RFAIN ==
  InState({"ACTIVE_T_C"}) \o Need("rfain", {"on"}, "HW_STATE") \o T(0, <<R(\h50)>>)

---------------------------------------------------------------------------
(* Power states.  A software reset (10h of "X") and a reset (02h) take the *)
(* registers of the demodulator to what they are at power-on.              *)

SoftwareReset == X(0, <<Reset(\h10, {"T"})>>)
BiasOn == <<W(\h43, \h0A), W(\h41, \h0A)>>
SatelliteOff == <<W(\h63, \h16), W(\h65, \h27), W(\h69, \h06)>>

SDtoSLT == SoftwareReset \o On("X", 0, <<W(\h15, 0), W(\h13, 1), W(\h10, 0)>>) \o T(0, BiasOn)
SDtoSLS ==
  SoftwareReset \o On("X", 0, <<W(\h15, 0), W(\h14, 1), W(\h17, \h0A), W(\h10, 0)>>)
  \o T(0, <<W(\h80, \h1F), W(\h9C, \h40)>> \o BiasOn \o SatelliteOff)
SLTtoSD == X(0, <<W(\h15, 1), W(\h17, 1)>>)
SLStoSD == T(0, <<W(\h80, \h3F), W(\h9C, 0)>>) \o SLTtoSD
SLStoSLT ==
  SoftwareReset \o On("X", 0, <<W(\h13, 1), W(\h17, 1), W(\h10, 0)>>)
  \o T(0, BiasOn \o SatelliteOff)
SLTtoSLS ==
  SoftwareReset \o On("X", 0, <<W(\h17, \h0A), W(\h10, 0)>>)
  \o T(0, <<W(\h80, \h1F), W(\h9C, \h40)>> \o BiasOn \o SatelliteOff)

\* Which crystal the board has is read from a GPIO pin, in whatever register
\* bank the device has; when that fails the variable is not initialised.
Crystal ==
  Ignore(GPIOSetConfig(1, FALSE))
  \o Try(GPIORead \o Assign("xtal", "read"), All, Assign("xtal", "guessed"))
XtoSLT ==
  On("X", AllBanks, <<Reset(\h02, {"T", "X"})>>)
  \o SoftwareReset \o Crystal \o On("X", 0, <<W(\h13, 1), W(\h10, 0)>>) \o T(0, BiasOn)
XtoSLS ==
  On("X", AllBanks, <<Reset(\h02, {"T", "X"})>>)
  \o SoftwareReset \o On("X", 0, <<W(\h14, 1), W(\h17, \h0A), W(\h10, 0)>>)
  \o T(0, <<W(\h80, \h1F), W(\h9C, \h40)>> \o BiasOn \o SatelliteOff)

\* The device is reset before anything is known of it, and its state becomes
\* SLEEP when all is written; clearConfigMemory cannot fail.
Initialize(XtoSleep, state) ==
  Assign("clock", "default") \o XtoSleep \o Assign("state", state)
  \o OrInvalid(ChipID \o Check("NOSUPPORT")) \o Clear
InitializeT_C == Initialize(XtoSLT, "SLEEP_T_C")
InitializeS   == Initialize(XtoSLS, "SLEEP_S")

---------------------------------------------------------------------------
(* Around a tune.                                                          *)

\* Reset of the receiver, and the transport stream's pins switched on.
TuneEnd   == InState({"ACTIVE_T_C", "ACTIVE_S"}) \o T(0, <<W(\hFE, 1), W(\hC3, 0)>>)
SoftReset == InState(Awake) \o T(0, <<W(\hFE, 1)>>)

terr_cable_SetScanMode(system, on) ==
  InState({"SLEEP_T_C", "ACTIVE_T_C"})
  \o (IF system = "DVBC" THEN T(\h40, <<W(Bits(\h86, 5), IF on = "on" THEN 1 ELSE 0)>>) ELSE <<>>)
  \o Assign("scan", on)

\* The clock is set from the settings and from what is configured in registers,
\* of which two must agree.
SetTsClockModeAndFreq ==
  InState(Sleeping) \o T(0, <<C(\hC4), C(\hD3), C(\hDE)>>) \o Check("HW_STATE")
  \o Maybe(On("T", 0, <<W(Bits(\hC4, 0), 1), W(Bits(\hD1, 0), 1)>>))
  \o If("clock", {"chosen"}, On("T", 0, <<W(\hD9, 2)>>), On("T", 0, <<W(\hD9, 1)>>))
  \o On("T", 0, <<W(Bits(\h32, 0), 0), W(Bits(\h33, 0), 1), W(Bits(\h32, 0), 1)>>)
=============================================================================
