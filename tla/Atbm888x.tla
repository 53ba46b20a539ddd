------------------------------ MODULE Atbm888x ------------------------------
(***************************************************************************)
(* The ATBM888x demodulator of the board: atbm888x.c.                      *)
(*                                                                         *)
(* An access is two transfers: one sets the register's address, the next   *)
(* writes or reads what is there.  The address is what the device has      *)
(* selected, as a bank with one register.  Only the result of the second   *)
(* transfer is returned, and it is looked at where the chip's number and   *)
(* the TPS are read, and nowhere else.                                     *)
(*                                                                         *)
(* As built: a crystal, 24 MHz, 8 MHz of bandwidth, DVB-C from an IF.      *)
(***************************************************************************)
EXTENDS DriverOps

ATBMWrite(address, data) ==
  Ignore(Select("D", address)) \o Ignore(On("D", address, <<W(0, data)>>))
ReadChecked(address) == Ignore(Select("D", address)) \o On("D", address, <<R(0)>>)
ATBMRead(address) == Ignore(ReadChecked(address))
\* of something set, or of the state of the chip itself
ReadBack(address) == Ignore(Select("D", address)) \o Ignore(On("D", address, <<C(0)>>))
\* one transfer has address and data
ATBMTransWrite(address, data) ==
  Ignore(Select("D", address) \o On("D", address, <<W(0, data)>>))
ATBMTransRead(address) == ATBMRead(address)

\* Programs of one length, one after the other.
Chain(programs) ==
  LET k == Len(programs[1])
  IN  [n \in 1..(k * Len(programs)) |-> programs[((n - 1) \div k) + 1][((n - 1) % k) + 1]]
Writes(list) == Chain([n \in 1..Len(list) |-> ATBMWrite(list[n][1], list[n][2])])
Reads(list)  == Chain([n \in 1..Len(list) |-> ATBMRead(list[n])])
Changed(address, data) == ReadBack(address) \o ATBMWrite(address, data)

\* A table of registers: of its entries, those that the other mode sets too.
ATBMWriteRegArray(table) == Writes(table)
CommonReg    == <<<<\h0245, \h33>>, <<\h02C7, 1>>>>
DvbcInternal == <<<<\h000A, 0>>, <<\h0009, 0>>, <<\h0013, 1>>, <<\h1518, 1>>, <<\h1515, 1>>>>
DvbcSet      == <<<<\h0228, 0>>, <<\h0249, \h29>>, <<\h02A6, \h14>>, <<\h023C, \h0C>>>>
DtmbSet      == <<<<\h0228, 1>>, <<\h02A6, \h10>>, <<\h0249, \h30>>, <<\h023C, \h1C>>>>
DtmbInternal == <<<<\h0016, \h1C>>, <<\h0935, \h14>>>>

\* 4Dh of page 8 latches what is measured, as frozen registers are.
Latch(on) == Ignore(Select("D", \h084D)) \o Ignore(Latching("D", \h084D, on))
TransLatch(on) == Ignore(Select("D", \h084D) \o Latching("D", \h084D, on))
Latched(P) == Sample \o Latch(TRUE) \o P \o Latch(FALSE)

---------------------------------------------------------------------------
(* The registers of DVB-C are behind a window of ten registers.            *)

Window(address) == ATBMTransWrite(\h1503, 0) \o ATBMTransWrite(\h1501, address)
                     \o ATBMTransWrite(\h1502, address)
ATBMDVBCWrite(address) ==
  Window(address)
  \o ATBMTransWrite(\h1504, 1) \o ATBMTransWrite(\h1505, 1)
  \o ATBMTransWrite(\h1506, 1) \o ATBMTransWrite(\h1507, 1)
  \o ATBMTransWrite(\h1503, 1) \o ATBMTransWrite(\h1503, 0)
ATBMDVBCRead(address) ==
  Sample \o TransLatch(FALSE) \o Window(address) \o TransLatch(TRUE)
  \o Reads(<<\h1508, \h1509, \h150A, \h150B>>) \o TransLatch(FALSE)
DVBCWrites(list) == Chain([n \in 1..Len(list) |-> ATBMDVBCWrite(list[n])])
DVBCReads(list)  == Chain([n \in 1..Len(list) |-> ATBMDVBCRead(list[n])])

---------------------------------------------------------------------------
(* What it is, and that its clock runs.                                    *)

\* The number is that of the chip that is fitted, or FFh if the read fails.
ATBMChipID ==
  Ignore(Select("D", 0))
  \o Try(On("D", 0, <<C(0)>>)
           \o If("fitted", {"40"}, Assign("id", "40"), Assign("id", "30")),
         {"I2C"}, Assign("id", "FF"))
Is(id, P) == When("id", {id}, P)
Version(yes, no) == ReadBack(\h0022) \o Either(yes, no)

\* The PLL, the analog part's clock, and the digital part's, which is found
\* by a DVB-C register that keeps what is written.
ATBMPLLLockFlag == Repeat(ReadBack(\h0611) \o Maybe(Leave))
Digtal_PLL_Lock_Flag ==
  ATBMWrite(\h0013, 1) \o ATBMDVBCWrite(\h348) \o Repeat(ATBMDVBCRead(\h348) \o Maybe(Leave))
  \o ATBMWrite(\h0013, 0)
TriStated == ReadBack(\h0214) \o Either(ATBMWrite(\h0606, 2), ATBMWrite(\h0606, 0))
ATBMCheckPLLStatus ==
  Block(ATBMPLLLockFlag \o Maybe(Leave) \o TriStated \o ATBMPLLLockFlag
        \o Maybe(Digtal_PLL_Lock_Flag))
ATBMCheckDemodStatus ==
  Block(ReadBack(\h0607) \o Maybe(Leave) \o ReadBack(0) \o Maybe(Leave)
        \o ATBMCheckPLLStatus \o Maybe(Leave)
        \o ReadBack(\h0214)
        \o Repeat(Either(ATBMWrite(\h0606, 2), ATBMWrite(\h0606, 0)) \o ATBMWrite(\h060D, 1)
                  \o Maybe(ATBMWrite(\h0605, 0)) \o ATBMCheckPLLStatus \o Maybe(Leave)))
\* a pin of the bridge resets it
DemodHardwareReset == Ignore(On("D", AllBanks, <<Reset(0, {"D"})>>))
ATBMReset ==
  Block(ATBMCheckDemodStatus \o Maybe(Leave)
        \o DemodHardwareReset \o ATBMCheckDemodStatus
        \o Maybe(DemodHardwareReset \o ATBMCheckDemodStatus))

\* The clock's registers are written with the PLL switched off.
ClockOfPll == ReadBack(\h060E) \o Writes(<<<<\h0604, 1>>, <<\h060E, 1>>, <<\h060E, 0>>, <<\h0604, 0>>>>)
ATBMPowerOnInit ==
  ATBMChipID
  \o Is("40", Writes(<<<<\h010C, 0>>, <<\h0606, 0>>, <<\h0103, 0>>>>) \o ClockOfPll)
  \o Is("30", ATBMReset \o Writes(<<<<\h0606, 0>>, <<\h0103, 0>>>>))

ATBMI2CByPassOn  == ATBMWrite(\h0103, 1)
ATBMI2CByPassOff == ATBMWrite(\h0103, 0)
ATBMHoldDSP      == ATBMWrite(\h0005, 1)
ATBMStartDSP     == ATBMWrite(\h0005, 0)

---------------------------------------------------------------------------
(* Settings of a mode.                                                     *)

ATBMSetOSC ==
  ATBMChipID
  \o Writes(<<<<\h0C01, 1>>, <<\h0A00, 1>>, <<\h0A01, 1>>, <<\h0A02, 1>>, <<\h0A03, 1>>,
              <<\h0A04, 1>>, <<\h0A05, 1>>>>)
  \o Changed(\h060E, 4) \o Is("30", ATBMWrite(\h0AFB, 2)) \o Is("40", ATBMWrite(\h0AFB, 1))
  \o ATBMChipID
  \o Is("40", Writes(<<<<\h0233, 1>>, <<\h0234, 1>>, <<\h029D, 1>>, <<\h029E, 1>>, <<\h029F, 1>>,
                       <<\h0231, 1>>, <<\h0232, 1>>, <<\h0251, 0>>, <<\h0290, \hD0>>,
                       <<\h0291, \h93>>, <<\h0292, 1>>>>))
ATBMSetTSMode ==
  Writes(<<<<\h0301, 1>>, <<\h0306, 1>>, <<\h0311, 0>>>>) \o ATBMChipID
  \o Is("40", Writes(<<<<\h0312, 1>>, <<\h0B24, 1>>>>)
              \o Version(Writes(<<<<\h0327, 0>>, <<\h0329, 1>>>>), <<>>))
  \o Writes(<<<<\h0305, 1>>, <<\h031F, 0>>>>)
ATBMConfig == ATBMSetOSC \o ATBMSetTSMode \o Writes(<<<<\h0102, 1>>, <<\h020C, 1>>>>)

ATBMDVBCSetSymbolRate == DVBCWrites(<<\h210, \h214, \h128, \h124, \h3BC>>)
ATBMDVBCSetCarrier    == DVBCWrites(<<\h3B4, \h3B0, \h388, \h38C, \h348>>)
ATBMDVBCSetQAM        == DVBCWrites(<<\h3CC, \h364>>)
ATBMDVBCInit ==
  ATBMChipID \o ATBMDVBCWrite(\h04)
  \o ATBMDVBCWrite(\h100) \o Is("40", DVBCWrites(<<\h104, \h304>>))
  \o Is("40", Writes(<<<<\h0253, 1>>, <<\h0254, 1>>>>) \o ReadBack(\h060E) \o ATBMWrite(\h1537, 1))
  \o Is("30", ATBMDVBCWrite(\h104))
  \o ATBMDVBCWrite(\h118)
  \o ATBMDVBCSetCarrier \o ATBMDVBCSetSymbolRate \o ATBMDVBCSetQAM
  \o DVBCWrites(<<\h394, \h39C, \h20C, \h204, \h04>>)
  \o Is("40", ATBMWrite(\h010C, 0) \o ClockOfPll \o ATBMWrite(\h010C, 1))

ATBMInit(dvbc) ==
  Writes(<<<<\h010C, 1>>, <<\h0004, 0>>, <<\h10F7, \hE8>>, <<\h10FB, 7>>>>)
  \o ATBMChipID \o Is("40", ATBMWriteRegArray(CommonReg)) \o ATBMConfig
  \o (IF dvbc
      THEN ATBMWriteRegArray(DvbcInternal) \o ATBMWrite(\h1511, 1)
           \o Is("40", ATBMWrite(\h1512, 0)) \o Is("30", ATBMWrite(\h1512, 1))
           \o ATBMWrite(\h0016, 0)
           \o Is("40", ATBMWrite(\h0252, 1) \o ATBMWriteRegArray(DvbcSet))
           \o ATBMDVBCInit \o ATBMWrite(\h02C7, 0)
      ELSE Writes(<<<<\h000A, 1>>, <<\h0009, 1>>, <<\h0013, 0>>, <<\h1518, 0>>, <<\h1515, 0>>,
                    <<\h1511, 0>>, <<\h1512, 0>>>>)
           \o Is("40", ATBMWrite(\h0252, 0) \o ATBMWriteRegArray(DtmbSet))
           \o ATBMWriteRegArray(DtmbInternal))
  \o Version(Changed(\h060D, 1) \o ATBMWrite(\h0C02, 2), <<>>)
  \o Writes(<<<<\h0800, \hAF>>, <<\h0801, \h15>>>>) \o Changed(\h10F7, 1)
  \o ATBMWrite(\h0004, 1)
ATBMSetDTMBMode == ATBMInit(FALSE)
ATBMSetDVBCMode == ATBMInit(TRUE)
=============================================================================
