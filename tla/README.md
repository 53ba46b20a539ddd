# A TLA+ model of the mobile-TV server

The repository is the server of a DTMB receiver box: it tunes a USB receiver
(an RTL2832U bridge with a GaoTuo ATBM888x demodulator; drivers for Sony
CXD2837/CXD2872 front ends are linked in), takes commands from a client over a
control connection and sends it the transport stream over another.  It is C,
with POSIX threads that share global variables without locks and with a copy
of libusb.  This directory holds TLA+ modules of its concurrent and stateful
parts, TLC configurations that check them on small instances, and proofs
checked by TLAPS.

    cd tla
    tlc -config MCSessionAll.cfg MCSession.tla     # one of the runs below
    tlc -config MCDriver.cfg MCDriver.tla          # the drivers, two minutes
    tlapm SessionProofs.tla                        # and the other *Proofs.tla

## 1. Inventory

### Parts, their state and their operations

| part | source | state | operations |
|---|---|---|---|
| Control server, sessions | `Server/Server.c`: `Create_Server`, `Ack_Data`, `ExchangeMessage`, `SendMessage`, `login_req`, `logout_req`, `HB_Ack`, `HeartBeartAck`, `Clean` | `connect_fd`, `HB_Sock`, `New_Sockfd`, `HeartBeartThread`, `Connect_Flag`, `HeartBeartFlag`, `Login_Flag`, the descriptor table, the threads | accept, admit, start a thread; receive, answer, log in and out; heartbeat; clean up |
| Control server, stream requests | `Server/Server.c`: `tune_req`, `stop_stream_req`, `pid_filter_req`, `start_ts_send_req`, `signal_status_req`, `relock`, `filterTsStreamAndSend`; `Server/Tuner_Get_DataThread.c`: `Create_Sock_Tcp` | `PTHREAD_FLAG`, `Lock_Freq_Flag`, `TCP_Flag`, `AcceptFlag`, `TCP_FD`, `Tcp_Sock`, `programNumber`, `PID_FILTER_FLAG` | tune (a program or all), stop, filter PIDs, start sending, query |
| Transport stream transfer | `usb_fun.c`: `StartTsThread`, `StopTsThread`, `thread_func`, `cb_img`, `Clear` | `img_transfer`, `bTsThread`, `writeCount`, `parseOkFlag`, `/tmp/parse.ts` | allocate and submit a transfer, handle events, resubmit, send or capture, stop |
| libusb | `io.c`, `sync.c`, `linux_usbfs.c` (vendored); `core.c`, `descriptor.c` | URBs, completions, `open_devs_lock` | submit, cancel, reap, synchronous control transfer |
| Table parser | `TsParse/`: `GetSection.c`, `ParsePAT.c`, `ParsePMT.c`, `Program.c`, `ParseTS_Length.c`, `MainTest.c` | `aucSectionBuffer`, `iAlreadyAddSection`, `stSectionHead`, `uiVersion`, `auiRecordSectionNumber`, the list of programs | find the packet length, put together a section, a table, the programs |
| USB bridge, PID filter | `rtl2832u_io.c`, `rtl2832u_fe.c` | the bridge's registers, `ghMutex` | read, write with retry, read-modify-write, verify; endpoint on and off; PID filter |
| ATBM888x | `GaoTuo/atbm888x.c`, `atbm888x_main.c` | the chip's registers behind an address register, the I2C bypass to the tuner, the latch of what is measured | reset, power-on, set for DTMB or DVB-C, lock check, measure, standby, pins, clocks |
| Sony demodulator | `cxd2837/sony_demod*.c` | `sony_demod_t` (state, system, bandwidth, clock, the table `configMemory`), the chip's banks of registers | initialise, sleep, shut down, configure, tune and retune four systems, monitor |
| Sony integration layer | `cxd2837/sony_integ*.c`, `sony_cxd2837_api.c` | `scanMode`, the cancellation flag, the two steps of DVB-C2 | tune and wait for a lock, blind tune, scan, cancel, the calls of the server |
| Sony tuner | `cxd2872/sony_ascot3.c`, `sony_cxd2872.c` | `sony_ascot3_t` (state, frequency), the chip's registers | initialise, tune, shift, sleep, pins, RF level |
| RTL2832 | `demod_rtl2832.c`, `math_mpi.c` | registers; multi-precision numbers | register fields, DVB-T statistics |
| Test client, restart script | `Server/Client.c`, `Server/daemon.sh` | - | send requests by hand; start the server again |

The parts meet in these places.  `main` starts a communication thread per
admitted client and a heartbeat thread for a second connection; both call
`Clean`.  Requests call `StartTsThread` and `StopTsThread`, whose event
threads call the callback `cb_img`, which calls `StopTsThread` and closes the
stream's sockets itself.  Register accesses of the communication thread are
synchronous libusb transfers: while the thread waits it may run the callback
of a stream transfer.  The drivers are called by the communication thread, on
one bus: the tuner hears it only while a demodulator passes it on, the Sony
chip through its repeater, the ATBM888x through its bypass.  `sony_integ_Cancel`
is for another thread, while a tune or a scan runs.  `cb_img` writes a capture when no client is connected,
`filterTsStreamAndSend` polls `parseOkFlag`, parses the capture and sets the
PID filter.

### What is hard

* No lock protects the globals.  Two threads may run `Clean` at once; a test of
  a flag, the system call and the assignment are separate steps of each.
* Descriptors are closed before the variables that hold them are reset, and
  the kernel gives the number to the next connection.
* `pthread_cancel` takes effect at a cancellation point, also on the caller.
* `StopTsThread` neither joins the event thread nor waits for the transfer: a
  callback that comes late works on the successor's `img_transfer`.
* The callback runs in whichever thread reaped the transfer.
* A table may change its version while it is read, a capture begins anywhere,
  and packets may be missing.
* A driver function is a hundred accesses, each of which may fail and return.
  Which register an access reaches depends on the bank that some access before
  it has selected; the registers may be frozen, the repeater open, scan mode on.
* A chip set for one system is set for another without a reset, by functions
  that each write only what they know of.
* A failure in the middle: nobody connects to the stream's port, an answer
  cannot be sent, a send times out, a register access fails.

The list of hazards with their lines, and the properties that would notice
them, is `hazards` in `PROJECT.json`.

### What makes each part correct

* Sessions: the place for a client is always given back; one thread serves at
  a time, answers go to the one who asked, nobody inherits a login.
* Stream: a stream that is on is fed and the endpoint delivers; a new listener
  finds the port free (it may not: section 3); what the callback sends on is open;
  requests end.
* Table parser: a table that is reported is the one broadcast; nothing is
  copied out of bounds; the parser gets to a table.
* PID filter: what was asked for passes, nobody gets a predecessor's
  selection, and the filter does not change under a stream.
* Drivers: an access reaches the register it names; whatever a function
  returns, the registers are released, the tuner is off the bus and scan mode is
  off; a measurement is of one moment; a tune leaves nothing of the system
  before it, nor loses what was configured; nothing is sent while a chip is
  retuned or said to sleep; a late cancellation does not end the next call.

## 2. Modules

| module | models |
|---|---|
| `Session` | `Server.c`'s threads and `Clean`, one access to a shared variable or one system call per step |
| `ClientSlot` | the abstract server: one place for one client after the other |
| `MCSession` | constants of `Session` for TLC |
| `SessionProofs` | theorems about `Session`, with proofs |
| `TsStream` | stream requests, stream transfer, libusb's completions and the register accesses between them |
| `MCTsStream` | constants of `TsStream` for TLC |
| `TableParse` | `GetOneSection` and `ParsePAT_Table` reading from a multiplexer |
| `MCTableParse` | constants of `TableParse` for TLC |
| `TableParseProofs` | theorems about `TableParse`, with proofs |
| `PidFilter` | the PID filter's registers, the functions that write them and the requests that call these, with writes that fail |
| `MCPidFilter` | constants of `PidFilter` for TLC |
| `PidFilterProofs` | theorems about `PidFilter`, with proofs |
| `TsStreamProofs` | theorems about `TsStream`, with proofs |
| `TsStreamProgress` | that its requests come to an end, as far as steps tell |
| `DriverOps` | the constructs of driver functions: accesses, error handling, calls, waiting; no state |
| `DriverMachine` | runs functions built of them: the bus, banks, faults, the configuration memory, cancellation |
| `DriverProofs` | theorems about `DriverMachine`, with proofs |
| `DriverOutline` | outlines of programs: what is known at each place, when an outline is sound, and the search for one |
| `DriverOutlineProofs` | programs keep to sound outlines |
| `ReceiverTexts` | what the outlines of the receivers' functions have to say, for each property |
| `ReceiverProofs` | the drivers' properties, from that |
| `SonyDemod` | `sony_demod.c`: states, settings, memory, repeater, clock |
| `SonyTune` | `sony_demod_dvbt/dvbt2/dvbc.c` and what tuning and retuning share |
| `SonyC2` | `sony_demod_dvbc2.c`: DVB-C2's tune and its interrupts |
| `SonyMonitorT`, `SonyMonitorC` | the `*_monitor.c` of DVB-T and T2, and of DVB-C and C2 |
| `SonyInteg` | `sony_integ*.c`, `sony_cxd2837_api.c` |
| `SonyReceiver` | these as a receiver: which functions are called, their properties |
| `Atbm888x` | `atbm888x.c`: accesses, power-on, modes, bypass |
| `TunerAscot3` | `sony_ascot3.c`, `sony_cxd2872.c` |
| `AtbmReceiver` | the rest of `atbm888x.c`, `atbm888x_main.c` and its caller, with the tuner behind it; their properties |
| `MCDriver` | both receivers, instantiated for TLC |

Variables have the names of the globals and locals they stand for; an action
has the name of the function, with the part of it that is one step.
`PROJECT.json` maps every definition to its lines.  A definition whose comment
begins with "Slip" is a plausible mistake in the action that follows it;
a property is known to be able to fail because the slip, put in the action's
place, makes it fail.

### Session

A thread is named by the connection that led to its creation.  `pc[c]` is where
it is: `a_...` in `Ack_Data`, `h_...` in `HB_Ack`, `c_...` in `Clean`, with
`back[c]` the return address.  `main` has `mpc`.  `fdTable` is the kernel's
table: `accept` takes the lowest free number, `Close` frees it, and a
descriptor variable may go on holding a number that now belongs to another
connection.  `MainAcceptFails` is the end of the process when no descriptor is
left, and the fresh start by `daemon.sh`.  `Companion` says whether a
connection may arrive while a client is served; without it clients take turns
and no heartbeat thread exists.

Left out: failing `malloc` and `pthread_create`, the handler of SIGQUIT (which
nothing sends), the text of messages, and descriptors of streams, files and
libusb.  The stream's share of `Clean` is in `TsStream`.

### TsStream

`ctl` is where the communication thread is and `job` the request that it
serves, which decides where it goes after a shared piece (`StopTsThread`,
`StartTsThread`).  `urbs[t]` is a transfer as the kernel and libusb have it:
flying, completed with data, failed or cancelled, or none; `completed` is the
queue of completions, in which a register access has its place too.  `cb` is
the callback in progress and the thread that runs it; libusb's
`open_devs_lock` allows one at a time.  `unanswered` is not a variable of the
code: it remembers that the listener which is open is one whose answer could
not be sent.  `AnswerFails` leaves that listener open and the session goes on,
as `SendMessage` closes nothing there and `Ack_Data` serves what the client has
sent before; a `bind` that finds the port taken is `Exit`, after which
`daemon.sh` starts the process anew.  `Run` is every step but that.

Abstractions: one session at a time (Session shows that two communication
threads can coexist; their composition is planned); test, close and reset of a
socket are one step; flags are sequentially consistent; the several register
accesses of a request are represented by one or two; a halted endpoint refuses
what is in flight before the next register access; register accesses succeed,
but for the attempts of `disable_pid_filter`; the capture is its number of
blocks, of which one that cannot be written is not counted, and parsing it
succeeds or fails.  Whether a client has logged in is Session's: `StartTsSend`
takes it for granted, and so allows more than the code.  Not modelled: removal of the device,
which ends the process, and a failing `TS_TCP_Option`.

### TableParse

A unit stands for as many bytes as matter at once.  `sending` and `sent` are
the multiplexer's position in the stream: which section, and how much of it is
already sent.  `Payload` is what the next packet carries.  The parser's
actions are the three ways a packet is taken (`ReadStart`, `ReadContinued`,
`VersionChange`) and what `ParsePAT_Table` does with a section that is
complete (`SectionOver`).  `iAlreadyAddSection` is the length of
`aucSectionBuffer`.  Result `"overrun"` is the `memcpy` with a negative
length.  `missed` is not a variable of the code: it remembers whether a packet of
the stream never got into the capture, which properties about whole captures
refer to.  A version is an element of 0..31 and never `INITIAL_VERSION` (65535).

Every section begins a packet of its own, as multiplexers send the PAT:
sections packed behind one another are left out, as are packets of other PIDs
and the entries inside a section.  `ParsePMT_Table` is the same loop.

### PidFilter

`mode`, `enabled`, `high` and `low` are the registers 0x21, 0x22-0x25 and
0x26-0x65: eight slots to a register in the hardware, any grouping here.  A
function (`disable_pid_filter`, `rtl2832_pid_filter_ctr`,
`rtl2832_pid_filter`) is the sequence of its writes; `Write` carries out the
next one, and a write that gives up (`Broken`) may have reached the bridge or
not and ends the function.  `tune_req` tries again, the other requests do not
look.  `Passing` is the bridge's part: which PIDs get through, as the
comments on the modes say (`rtl2832u_fe.h:159-164`).  The requests are those of
TsStream, seen from the filter: `streaming` is the endpoint, and the callback
may end the stream at any time (`CallbackStops`, which TsStream has in
detail).  `wanted`, `failed` and `obeyed` are there for the properties, but
`failed` is also the result that `tune_req` looks at: what was last asked for,
whether a write of the last function failed, whether the bridge has carried
out the last command to its endpoint.

A list has at most as many PIDs as there are slots: `Get_Pid_List` may store
33, which is listed among the hazards.  `capture` stands for `parseOkFlag` set
and a file that still has the capture; the start of a stream empties the file.

### DriverOps and DriverMachine

A driver function of this code is a straight list of register accesses, each
followed by "if it failed, return", with decisions on the driver's fields or on
data read, and here and there a handler.  A definition named as a C function is
that function as a sequence of instructions; calls are concatenation (`\o`),
and `Try`, `Ignore`, `Finally`, `Closing`, `OnError`, `Thawing` and `Frozen` are the
shapes in which the code treats a failure.  `DriverMachine` executes them: an
instruction is a step, `pc` the next one.

* A device has a bank register (`selected`; an address register in the
  ATBM888x).  An access carries the bank that the comment above it names, and
  reaches the register of the bank that is selected (`Reached`).
* Registers are followed by what they hold only where a property is about them
  (`AtPower`); what is written elsewhere is lost.  A value that is computed or
  looked up is 1; a decision on data read may go either way (`Choose`).
* An access that fails may have been carried out (`Fault`), at most
  `MaxFaults[board]` of them.  An unfreezing that fails leaves the registers
  `"stuck"`, for which no code is to blame.
* `configMemory` is `memory`: register and value, written back by
  `LoadMemory`.  A reset gives registers their values at power-on.
* `frozen` and `reads` tell of what moment the values read are: live, frozen,
  or both.
* `Cancel` is the other thread; `cancel` remembers whether it came during this
  call or before.
* A wait looks `MaxWait` times or less before its time is over.

A `board` is a way of calling: what is on it, which functions are called in any
order, how many accesses fail.  The Sony receiver is seen in three: everything
(`sony`: monitors, tunes with locks, scans, power), the demodulator by itself
(`demod`: every order of tunes, sleeps, shutdowns, with the registers that
systems and bandwidths set followed), and with settings between tunes
(`settings`).  The ATBM888x in four: measurements (`live`), lock and power
(`atbm40`, `atbm30`: the models), and the tuner behind it (`tuner`).

Left out: the satellite functions, which are not compiled; what is computed
from what is read; `sony_demod_dvbt2_monitor_TsRate`, whose slip (below) would
hide others, is written down and not called; the ATBM888x's debugging
functions; two threads in a driver at once.  A register access is one step,
though on the Sony's bus a read is two transfers.

## 3. Runs

| run | instance | checks |
|---|---|---|
| `session_available` | 3 connections, 2 descriptors, all interleavings, logout, companions (1.8 M states) | `TypeOK`, `NeverLockedOut` |
| `session_forgets` | 2 connections, 2 descriptors, all requests, fair | `ClientsForgotten` |
| `session_turns` | 4 connections in turns, no logout, 2 descriptors | `OneServer`, `AnswerToAsker`, `StartsLoggedOut`, and `OnePlace`: Session implements ClientSlot |
| `session_connected` | 3 connections, companions, no logout | violates `ServedIsConnected` |
| `stream_any` | 2 transfers, 1 event thread, 0 blocks, 1 round, tune with and without a program, stop, filter, start, query, failing transfers, fair (0.5 M states) | `TypeOK`, `LeftByAnswer`, `FlagHasSocket`, `RequestsEnd` |
| `stream_fed` | 3 transfers, 3 event threads, 1 block, 2 rounds, tune and stop | `FlagHasSocket`, `StreamIsFed`, `EndpointIsOn` |
| `stream_port` | 2 transfers, 2 event threads, tune and stop | violates `PortFree` |
| `stream_dry` | tune, stop, start | violates `StreamIsFed` |
| `table_whole` | 2 versions of 2 and 3 sections, sections of 1 to 3 packets, losses, fair | `TypeOK`, `WholeTable`, `CopyFits`, `TableFound` |
| `table_lost` | 3 versions, losses | violates `FoundIsWhole` |
| `filter_set` | 4 slots in 2 groups, lists of 1 to 3 PIDs, 2 attempts, failing writes | `TypeOK`, `AskedPass`, `UnfilteredPass`, `FilterSteady` |
| `driver` | both boards' drivers, seven ways of calling them, one failing access for four of these (2.3 M states) | see below |

The `driver` run checks, beside `TypeOK`:

| property | says |
|---|---|
| `InNamedBank` | every access is to the bank its comment names, on every way there |
| `Thawed` | no function leaves the registers frozen |
| `TextsShow` | each function's text by itself has a thaw on every way from a freeze, and a sound outline with what the theorems of `ReceiverProofs` need (section 4), for any number of failures |
| `SameSnapshot` | a measurement that freezes takes all it reads from there |
| `RepeaterClosed` | the Sony's repeater is closed when a function returns |
| `ScanModeOff` | so is scan mode |
| `NoStaleCancel` | a function is cancelled by a request of its own time |
| `AsleepIsSilent` | nothing is sent in a state said to be asleep, failures included |
| `TunedAlike` | a tune leaves the registers its system and bandwidth need, from any other |
| `ConfigKept` | settings survive sleep, shutdown and resets |
| `SilentRetune`, `SilentWhileTuned` | the output is off when the bandwidth, or the tuner's frequency, changes |
| `TunerThroughBypass`, `QuietWhenIdle` | the tuner is written through the bypass only, which is then off, its processor in standby |
| `LockedForDtmb` | a lock leaves the ATBM888x set for DTMB, also from DVB-C |

**Bounds.**  Three connections on two descriptors are a client, its companion
and a next client that gets a descriptor again; four in turns reuse each
descriptor twice.  Two transfers are a late one and its successor; two event
threads are one that StopTsThread has not waited for and its successor;
`stream_fed` has one more of each.  `stream_any` has a single event thread, so
that a stream starts only after the thread of the one before has ended: what
several of them do to the sockets is in `stream_fed`, and in
`TsStreamProofs` for any number.  `Blocks` (18 in the code) and `Tries` (5)
only count: 0 or 1 and 1 or 2 give every order of the counted events.  A
packet of two units and sections of 1 to 5 give sections shorter than a
packet, filling one exactly, and with and without stuffing in the last.  Four
slots in two groups hold a list that ends within the first group, at its end
and in the second; PIDs of two bits are four, of which one is the null packet's.  In `driver` one
failing access meets every way out of every function once, and what the calls
after it make of the state it leaves; the ATBM888x's driver
overwrites the result of setting an address with that of the access that
follows, so that a failure there cannot be noticed, and `MaxFaults` is 0 but for
its tuner.  `MaxWait` 1 gives a wait that is over at once and one that looks
again.  Two bandwidths per system, of which one is the odd one (1.7 MHz for T2, 6 MHz
for C2), give every order of two tunes.  Cancellation is on board `sony`, where
it can matter.

**Deadlock** is checked in the stream, filter and driver runs, whose callers never stop.  It is
switched off in the others: connections are finite and each is used once, and
the parser ends.  `NeverLockedOut` and `ClientsForgotten` say there what the
absence of deadlock would.

**Fairness.**  `Session!FairSpec`: the scheduler runs every thread that can
run; strong fairness of `HbFails` stands for the kernel, which does not take
heartbeats to a client that is gone for ever: the first is answered with a
reset, and a later send fails.
`TsStream!FairSpec`: the communication thread, the event threads and the
callback run, an exit included (`Serve \/ Exit`); the sending loop has at most 32 rounds, so its end (`CbLoopEnds`)
is strongly fair; the kernel answers what a halted endpoint has in flight.
Nothing is assumed of the device while it streams, nor of clients: `accept`
and `send` end by their timeouts.  `TableParse!FairSpec`: the parser runs.

### What the violations show

* `session_connected`: a heartbeat thread that starts late finds its socket
  reset and runs `Clean` beside the communication thread; one of the two resets
  `Connect_Flag` under the client that came in between, and a third
  connection takes its place although it is served.  (`Server.h:52` says that
  the flag tells whether a client is connected.)
* `stream_port`: the client is gone when `Create_Sock_Tcp` answers it.  The
  listener stays open, `tune_req` goes on as if the stream had started, and what the
  client had sent before is still served; the second of two tunes binds the
  port again and the server exits.  (`Server.c:1027` ignores SIGPIPE so that a
  send on a dead socket does not end the program.)  `LeftByAnswer` says that this is
  the only way to it.
* `stream_dry`: after stop and start the callback of the cancelled transfer
  resets `img_transfer`, through which the new transfer would be submitted
  again; the stream ends after one block with every flag set.
* `table_lost`: continuity counters are not looked at, so a packet that is
  missing makes one section of pieces of two.

Found on the way, and not kept as runs:

* `logout_req` runs `Clean` and returns 0, so the old communication thread goes
  on: it serves, on the global `connect_fd`, beside the next client's thread
  and may set `Login_Flag` for it.  With companions, `OneServer` fails with
  four connections even without logout, and `AnswerToAsker` with three.
* `HeartBeartFlag = true` comes after `pthread_create` and may overwrite the
  reset of a `Clean` (`MainHbFlag`): the following client has no heartbeat
  thread, although `Server.c:1002` says that it is watched.
* All 32 slots of the PID filter count once a list is set, and only as many are
  written as the list has PIDs: a shorter list lets what an earlier one has left
  in the other slots pass (`rtl2832u_fe.c:855`; `rtl2832u_fe.h:161`: "only set PIDs
  pass through").
* `SetTsExt` sets the mode in which only the PIDs of the slots pass and speaks of
  rejecting the null packets (`rtl2832u_fe.c:909`); the first tune repairs it.
* A list that cannot be set, or a filter that cannot be disabled, is answered
  with success (`Server.c:548`, `570`, `571`).
* `tune_req` sets `PTHREAD_FLAG` whatever `StartTsThread` returned: nobody
  connected, no stream, and `Start_TS_Send` is refused.
* The endpoint halted by `stop_stream_req` is released by `tune_req` only; a
  `Start_TS_Send` in between starts a stream without data.
* `StopTsThread` between the reaping of a transfer and its resubmission cancels
  nothing, and the transfer is submitted again after the stop.  With filter
  requests or programs this can leave a later stream without a transfer, which
  is why `stream_fed` has clients that tune and stop only.
* A tune with a program while the client's stream connection is open never
  gets a capture, and is answered with an error after the last round.
* Transfers are never freed and the capture file is never closed.

And in the drivers:

* `sony_demod_dvbt2_monitor_TsRate` returns `HW_STATE` without unfreezing the
  registers (`sony_demod_dvbt2_monitor.c:2023`), while `sony_demod.h:82` has the
  freeze for reads "from the same snapshot": what is measured afterwards is old,
  until some other measurement unfreezes.
* `dvbc2` `GetNotches` unfreezes without having frozen; the in-band rate of
  `ActivePLP`, the ATBM888x's DVB-C counters and the header mode of its
  `PPM_Test` are read from registers that go on.
* Reading the pins' configuration (`GPIOSetConfig`, `sony_demod.c:1473`) and DVB-C2's
  6 MHz band (`sony_demod_dvbc2.c:1340`) use registers without selecting the bank
  that the comment names.  They are marked `Astray`, which `InNamedBank` leaves out.
* `sony_demod.h:1055` says that the stream's clock is set "as part of each Sleep to
  Active state transition"; only DVB-C2 does it there.
* A retune that fails leaves the new bandwidth in the driver's fields with the old
  one's registers; the drain of a failing `XtoSLT` leaves `state` as it was.
* `TUNE_NEXT` may use the PLP of an earlier tune; `SetScanMode(off)` that fails
  leaves the mode on; a cancellation that comes before the function's
  `ClearCancel` is lost.
* The bits of register 85h that `TS_CURRENT_10mA` sets are not remembered, so
  `ConfigKept` does not hold of them.
* `cxd2872_init` returns success whatever the tuner's initialisation returned, and
  `CheckID` does not look at `init`'s; `GetRFlevel` returns what was on the stack
  when the tuner fails.  The Sony receiver's path never initialises its tuner.
* `sony_ascot3.c:1077`: the case of 662000 has no `break` and goes on with the next.
* The ATBM888x's accesses are two transfers, of which the first one's result is
  lost (`atbm888x.c:4191`), under a lock that is empty; `StandbyWakeUp` does not take
  back what `Suspend` wrote, and a lock after a standby leaves the PLL off.

## 4. Proofs

TLAPS proves these for every value of the constants, from the named
assumptions of the modules.

`SessionProofs`
: `TypeCorrect` (`Spec => []TypeOK`) and `NeverLocked`
  (`Spec => []NeverLockedOut`) hold in every environment.  The inductive
  invariant is `Inv`: the types, `Fresh` (a connection that main has accepted
  and not handed on has no thread: without it a new thread could overwrite one
  that is responsible for the flag) and `HbKnown` (a heartbeat socket implies
  a created heartbeat thread: without it `Clean` would cancel an unset handle).
: `OneServerInTurns`, `AnswerToAskerInTurns`, `StartsLoggedOutInTurns` and
  `OnePlaceInTurns` (Session implements ClientSlot) assume `Turns`, clients
  one after the other without logout; outside it they are false (section 3).
  `TurnInv` adds that there is no heartbeat thread, that at most one thread
  holds the place and only with `Connect_Flag` set or about to be reset, that a
  login has a holder, and that `connect_fd` is the holder's connection.  The
  refinement maps each step to a step of ClientSlot or a stutter.
  `ServedIsConnectedInTurns` follows from it too.
: `ThreadsNotStuck` and `SessionsWindUp` hold in every environment.  They are
  what `ClientsForgotten` says of steps.  `EndInv` adds to `Inv` that
  `HeartBeartThread` and whatever is cancelled are threads with the heartbeat's
  routine, although main replaces the handle while `Clean` runs in two threads.
  `Left` counts what a thread has left to do, and `MainLeft` main: a return from
  `Clean` into the loop of `Ack_Data` after a logout comes first in that order,
  a loop that has seen `connect_fd` at -1 after one that has not.  With all clients
  gone no step raises the count of any thread once main waits, and a step of a
  thread lowers its own, except in `Beating`: `HeartBeartAck` takes a `recv` of 0
  for an answer, and only the heartbeat's own send puts an end to that.  This is
  the one place where `ClientsForgotten` needs more of `FairSpec` than that the
  threads run.

`TableParseProofs`
: `TypeCorrect` holds with and without losses.  It includes that a section
  never outgrows the length by which its end is recognised.
: `CopyAlwaysFits` and `FoundTableIsWhole` speak of captures that have every
  packet; `table_lost` shows why.  The inductive invariant is
  `TypeOK /\ (~missed => Assembled /\ Collected)`.  `Assembled` says that what
  is in the buffer is the beginning of the section that is being sent, in order,
  up to what has been sent; so a packet that begins a section never meets an
  unfinished one.  `Collected` says that what has been collected are the
  recorded sections of the recorded version, each once; a change of version
  empties both.  The count of recorded numbers equals the number of sections
  only if they are all there (`FS_Subset`).
: `TableComesTogether` is what `TableFound` says of steps, for captures that have
  every packet: as long as nothing is found, a section of the version sent is
  wanted (`Wants`), and each step of the parser has a wanted section, or leaves
  fewer sections to be sent before it begins (`SectionsUntil`, a full round
  if its beginning was missed), or leaves less to do about the section
  being sent (`PartsLeft`: its packets, the version to forget, the section to parse).
  It needs `Unfinished`: a version is left only where a section begins, and a table
  that has all numbers has been found.  The packet that is read again after a
  change of version is the reason for the second part of the order.

`PidFilterProofs`
: `TypeCorrect`, and `FilterIsSteady` from `Quiet`: while a function writes,
  there is no stream or its endpoint is halted; this needs that `bTsThread`
  implies `PTHREAD_FLAG` (a request stops the stream only if the flag is set)
  and that a capture implies the end of its stream.
: `AskedAlwaysPass` and `UnfilteredAlwaysPass` from `Carried`: a function that
  is under way has written what precedes its next write (`DisableSoFar`,
  `ControlSoFar`, `ListSoFar`), and between functions the registers hold what
  was asked for, unless a write has failed or the client must tune first.  A
  client who has just come has `Lock_Freq_Flag` unset and no stream, so it
  cannot get to a stream but through `Disable`.

`TsStreamProofs`
: `TypeCorrect` (`Spec => []TypeOK`).
: `OnlyAnswersLeave` and `FlagAlwaysHasSocket` hold of any clients, threads, transfers
  and failures; `PortFreeIfAnswered` adds that without a failing answer the port is
  free whenever it is bound, and the server does not exit there.  The lemmas are about
  the steps of `Run`; after `Exit` everything is as at the start (`ExitRestarts`).
  `Coupled` says which request is served at each place; `AskedOnce` that
  a register access has one completion in the queue, and only where it waits;
  `FilterFlagKnown` that a filter is set only while `PTHREAD_FLAG` will tell.  The core is
  `Stale`: a callback that is about to clear the sockets after `TCP_Flag` has been
  reset finds the communication thread before a register access, which cannot
  be reaped until the callback has returned; so it never closes, or forgets,
  the successor's sockets.  `LeftOpen` and `Sockets` follow what is open, a
  listener that an answer has left (`unanswered`) apart.
: `EndpointStaysOn` assumes `TuneOnly`: clients that set no filter and do not start
  by hand.  With those the endpoint may be halted under a stream (see above).
: `StreamStaysFed` assumes `PlainTunes`: moreover no tune names a program and no
  transfer fails while the device streams.  `Queued` says that a transfer is in the
  queue of completions exactly when it has come to an end, and only once.  `Drained`
  is the argument: the access that halts the endpoint is reaped behind every
  transfer that had come with data, the one that releases it behind those that the
  halt refused, so when a stream starts nothing of an earlier one is in flight, in
  the queue or in its callback (`AllGivenBack`).  `Stopped` says that the stream is
  stopped before any of this, and `Feeding` that a running stream has the only
  transfer there is, and that this one is in flight, waits with its data or is
  about to be submitted again: then the callback of an aborted transfer cannot
  come and reset the pointer, which is what ends the stream in `stream_dry`.

`TsStreamProgress`
: `RequestsAdvance` and `RequestsHandedOn` are what `RequestsEnd` says of steps; they
  hold of any clients and failures.  `PlacesLeft` is how many places a request has left:
  for a tune it counts what follows an abandoned one, for a filter the rounds
  in which it waits for a capture.  A place that accesses a register counts three, to ask for it,
  to reap its completion and to make use of it.  So each step of the communication
  thread leaves less, or reaps a completion that stands before its own (`Ahead`),
  and others' completions are put behind (`AskedWaits`).  The bound is
  83 + 15 * `Tries` steps.
: `RequestsHandedOn` says that where the thread has no step (`CanServe`, which
  `ServeGuard` shows to be what its steps need) it waits for a callback that is
  under way, for libusb to give back what the halted endpoint refuses, or stands at
  a bound of the model.  So no request waits for a thread that waits for it.  A
  callback always has a step; that its sending loop ends is what `FairSpec` takes
  from the 32 rounds in the code.

`DriverProofs`
: `TypeCorrect` holds for any programs whose jumps stay inside them
  (`ProgramAssumption`, which TLC evaluates on the drivers' texts).
: `BracketsThaw` says that a board all of whose programs are bracketed never leaves
  its registers frozen.  `Bracketed` is a condition on the text: the places between
  a freeze and the next thaw are left by the thaw only, whatever fails.  The run
  shows with `TextsShow` that the CXD2837's programs satisfy it, so `Thawed`
  holds of them with any number of failures, not only with one.  The invariant
  is `Held`: frozen registers imply that a function is at such a place.

`DriverOutlineProofs`, `ReceiverProofs`
: The drivers' properties depend on the text of a hundred functions of up to a
  thousand instructions, which are no values to prove about one by one.  What is
  proved for all of them is that an outline is kept to.  An outline gives, for
  each place of a function, alternatives of facts: a register, a field, the error,
  the selected bank has a value; an access has failed or not; the registers are
  frozen, and what the measurement has read so far was or was not; the registers
  are as the configuration memory says; the cancellation flag is not of an
  earlier call, or is set during this one.  It is `Sound` if
  every way that `Flow` lets an instruction take leads from what is known before it
  to something known there, if what is known at the end covers what is known between calls, and
  this what is known at the function's call.  `ExecuteFollows` is the lemma: each
  instruction of `DriverMachine`, failing or not, takes one of the ways of `Flow` and
  makes its facts true; a write whose bank is not known makes all facts about
  registers of that address unknown, a failing access what it would have
  changed, and also whether anything is frozen, read or as configured; `LoadMemory`
  all registers of `Savable`, which are all that a function
  with a sound outline may save.  A write to one of these that is not
  saved leaves unknown whether the registers are as the memory says.  Of the
  cancellation flag, which another thread sets at any time, only facts that its
  step cannot make false are allowed (`Closed`).  `OutlinesKept`
  follows by induction on the steps: the invariant is `Kept`.
: `ReceiverProofs` has fourteen theorems, thirteen of the form: if the text of every function
  shows it (`BankText`, `RepeaterText`, ...: a sound outline, and at certain places a
  certain fact), `Spec => []InNamedBank`, or `Spec => SilentRetune`, and so on, for
  any bound on failures and waits.  `TextsShow` has TLC look at these conditions,
  once for each function and board, where the function is the first that is called:
  all functions of all boards can be, for `CallsOf` as `MCDriver` gives it.
  `ReceiversKept` closes the gap between the two: from what the run looks at, for
  each function by itself (`EachShows`), follow the conditions of all thirteen on the
  boards, and the properties.  `OutlineOf` finds the outlines; nothing depends on
  how, since their soundness is looked at.
: What is known between calls is the choice that makes each outline sound, as a
  strengthened invariant would: for `AsleepIsSilent` each power state with the output
  off or not; for `TunedAlike` (`AlikeWatch`) either one of the systems and
  bandwidths with all that its tune sets, or a state that is not active with what
  only DVB-T2 and only DVB-C2 set taken back, since no other tune does that; for
  `SameSnapshot` (`SnapWatch`) that nothing is frozen and no scan is under way, whose
  steps are chosen by how far it is.
: So the run shows the properties with one failing access and two looks of a wait,
  and the text together with the theorems with any number of both.  Where an
  access of the ATBM888x's driver fails nothing is claimed (`InNamedBank`,
  `TunerThroughBypass`, `QuietWhenIdle`, `LockedForDtmb` say so); `SameSnapshot`,
  `NoStaleCancel`, `ConfigKept` and `TunedAlike` are about runs without a failure,
  to which the theorems add waits of any length.

Only model-checked: that something happens at all.  `ClientsForgotten`,
`RequestsEnd` and `TableFound` need the fairness of `FairSpec`, and with it ENABLED
and induction on the measures, which this prover does not do.  What is proved of
each is its safety half, for every value of the constants: a measure that
every step of the thread in question lowers and no step of another raises, and
who can move where it cannot (`SessionsWindUp` with `ThreadsNotStuck`,
`RequestsAdvance` with `RequestsHandedOn`, `TableComesTogether`).  The runs check
the rest.  For `TableFound` the proved half is about captures without gaps; that
gaps at the beginning do no lasting harm is only model-checked.  The conditions on the
drivers' texts (`TextsShow`) are facts about given programs, and computed.

## 5. Not modelled

`demod_rtl2832.c` and `math_mpi.c`: register tables and the arithmetic of DVB-T
statistics, which DTMB reception does not call.  The retry and verify loops of
`rtl2832u_io.c` and the I2C transfers below the drivers: `DriverMachine` lets an
access fail at any point instead.  The satellite parts of the Sony drivers,
which are not compiled; `sony_cxd2837.c` and the main program of
`sony_cxd2872.c`, which are examples; the oscillator's switching
(`X_oscdis`, `X_oscen`) and `sony_ascot3_2875_Create`, which nothing reaches as built;
the older tuner drivers.  libusb's enumeration of devices, descriptors and
isochronous transfers is third-party code the server uses once at its start.
SDT, NIT and EIT parsing is compiled out.  `Client.c` is a tool for manual
tests: the clients of the models send whatever a client may.

## 6. Plan

Done, in this order, because the threads are where the system is most at risk:
`Session` with `ClientSlot` and its proofs, `TsStream`, `TableParse` and
`PidFilter` with their proofs, the drivers, the proofs of `TsStream` and
`DriverMachine`.  What is left:

1. `Server`: Session and TsStream composed, with descriptors for the sockets
   of the stream, two communication threads and both calls of `Clean`.
2. `RegisterBus`: the retry and verify loops below the drivers, and
   read-modify-write by two threads.
3. `ProgramTable`: PAT, PMT and their combination into programs, the packet
   length, sections packed behind one another.
4. `PidList`: the text of a list, its array and its bound of 32.

Where these need more runs, the runs on violations make room for them.
