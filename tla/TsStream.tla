------------------------------ MODULE TsStream ------------------------------
(***************************************************************************)
(* The transport stream's way from the USB bridge to the client:           *)
(* StartTsThread, StopTsThread, the event thread and the transfer callback *)
(* cb_img (usb_fun.c), the requests that start and stop them (Server.c),   *)
(* the stream connection (Create_Sock_Tcp), and the part of libusb they    *)
(* run on: asynchronous bulk transfers, completions reaped in order, and   *)
(* synchronous register accesses that reap while they wait.                *)
(*                                                                         *)
(* One communication thread serves the requests, session after session.    *)
(* Any number of event threads may be alive: StopTsThread does not wait    *)
(* for the one it stops.  A callback runs in the thread that reaped its    *)
(* transfer, under libusb's open_devs_lock.                                *)
(***************************************************************************)
EXTENDS Naturals, Sequences

CONSTANTS
  Transfers,    \* bound: transfers in use at the same time
  NoTransfer,   \* a NULL img_transfer
  EventThreads, \* bound: event threads alive at the same time
  Blocks,       \* blocks of a capture (18 in the code)
  Tries,        \* rounds filterTsStreamAndSend waits for a capture (5)
  Requests,     \* the requests clients send
  Programs,     \* whether tune requests name a program
  Faulty        \* whether a transfer may fail while the device streams

ASSUME TransferAssumption == {NoTransfer, "register"} \cap Transfers = {}
ASSUME ThreadAssumption == "ack" \notin EventThreads
ASSUME BoundAssumption == Blocks \in Nat /\ Tries \in Nat
ASSUME RequestAssumption ==
  Requests \subseteq {"tune", "stop", "filter", "start", "query"}
ASSUME ProgramAssumption == Programs \subseteq BOOLEAN
ASSUME FaultyAssumption == Faulty \in BOOLEAN

VARIABLES
  ctl,          \* where the communication thread is
  job,          \* the request it serves
  tries,        \* i of filterTsStreamAndSend
  programNumber,  \* programNumber > 0
  Lock_Freq_Flag, PTHREAD_FLAG, TCP_Flag, AcceptFlag,
  TCP_FD, Tcp_Sock,   \* whether they are open descriptors
  unanswered,   \* history: the open listener's answer could not be sent
  bTsThread, writeCount, parseOkFlag, PID_FILTER_FLAG,
  img_transfer,
  urbs,         \* a transfer's URBs, as the kernel and libusb have them
  completed,    \* completions waiting to be reaped, in order
  access,       \* the communication thread's register access
  streaming,    \* whether the bridge's endpoint delivers data
  event,        \* where an event thread is
  cb            \* the callback in progress: its place and its thread

request  == <<ctl, job, tries, programNumber, Lock_Freq_Flag>>
stopped  == <<bTsThread, writeCount, parseOkFlag, PID_FILTER_FLAG,
              PTHREAD_FLAG>>
stream   == <<TCP_Flag, AcceptFlag, TCP_FD, Tcp_Sock, unanswered>>
libusb   == <<urbs, completed>>
device   == <<access, streaming>>
handlers == <<event, cb>>
vars == <<request, stopped, stream, img_transfer, libusb, device, handlers>>

Accesses == {"off", "disable", "on", "control", "filter", "query"}
Register == "register"
NoCallback == [at |-> "none", by |-> "ack"]

FlagsOK ==
  {programNumber, Lock_Freq_Flag, PTHREAD_FLAG, TCP_Flag, AcceptFlag, TCP_FD,
   Tcp_Sock, unanswered, bTsThread, parseOkFlag, PID_FILTER_FLAG, streaming}
     \subseteq BOOLEAN

RangesOK ==
  /\ ctl \in {"idle", "flags", "cancel", "lock", "start", "bind", "answer",
              "accept", "tcpflag", "spawn", "alloc", "submit", "flag",
              "wait", "parse", "test", "clear", "close", "reset"} \cup Accesses
  /\ job \in {"none", "tune", "program", "stop", "filter", "start", "end",
              "abandon", "query"}
  /\ tries \in 0..Tries
  /\ writeCount \in 0..(Blocks + 1)
  /\ img_transfer \in Transfers \cup {NoTransfer}
  /\ urbs \in [Transfers -> {"none", "flying", "done", "failed", "cancelled"}]
  /\ completed \in Seq(Transfers \cup {Register})
  /\ access \in {"none", "asked", "done"}
  /\ event \in [EventThreads -> {"none", "created", "loop", "handling"}]
  /\ cb \in [at : {"none", "aborted", "resubmit", "branch", "loop", "send",
                   "capture", "clear", "full", "clearcancel", "fullcancel",
                   "close", "flags", "parseok"},
             by : EventThreads \cup {"ack"}]

\* The variables stay in their ranges; a capture ends with its last block
\* (cb_img's writeCount), however many threads reset or continue it.
TypeOK == FlagsOK /\ RangesOK

\* The process as it starts.  (Resetting the FIFO leaves the endpoint on.)
Init ==
  /\ ctl = "idle" /\ job = "none" /\ tries = 0
  /\ programNumber = FALSE /\ Lock_Freq_Flag = FALSE /\ PTHREAD_FLAG = FALSE
  /\ TCP_Flag = FALSE /\ AcceptFlag = FALSE /\ TCP_FD = FALSE
  /\ Tcp_Sock = FALSE /\ unanswered = FALSE
  /\ bTsThread = FALSE /\ writeCount = 0 /\ parseOkFlag = FALSE
  /\ PID_FILTER_FLAG = FALSE
  /\ img_transfer = NoTransfer
  /\ urbs = [t \in Transfers |-> "none"] /\ completed = <<>>
  /\ access = "none" /\ streaming = TRUE
  /\ event = [e \in EventThreads |-> "none"] /\ cb = NoCallback

-----------------------------------------------------------------------------
(* libusb                                                                  *)

\* A transfer that has not been given back by a callback has URBs: libusb
\* refuses to submit it again, and can only cancel such a one.
Submittable ==
  IF img_transfer = NoTransfer THEN FALSE ELSE urbs[img_transfer] = "none"
Submit == urbs' = [urbs EXCEPT ![img_transfer] = "flying"]

\* The second half of StopTsThread: the transfer is reported as cancelled
\* even when its data had come, but not when its callback has been entered.
CancelTransfer ==
  IF img_transfer # NoTransfer /\ urbs[img_transfer] # "none"
    THEN /\ urbs' = [urbs EXCEPT ![img_transfer] = "cancelled"]
         /\ completed' = IF urbs[img_transfer] = "flying"
                           THEN Append(completed, img_transfer)
                           ELSE completed
    ELSE UNCHANGED libusb

\* The device answers a transfer, or refuses it while its endpoint is halted.
Answered(t) ==
  /\ urbs[t] = "flying"
  /\ \/ streaming /\ urbs' = [urbs EXCEPT ![t] = "done"]
     \/ (~streaming \/ Faulty) /\ urbs' = [urbs EXCEPT ![t] = "failed"]
  /\ completed' = Append(completed, t)
  /\ UNCHANGED <<request, stopped, stream, img_transfer, device, handlers>>

\* Some thread in libusb_handle_events takes the first completion.
Reap(th) ==
  /\ cb = NoCallback /\ completed # <<>>
  /\ completed' = Tail(completed)
  /\ IF Head(completed) = Register
       THEN /\ access' = "done" /\ UNCHANGED <<urbs, cb>>
            /\ event' = IF th = "ack" THEN event
                                      ELSE [event EXCEPT ![th] = "loop"]
       ELSE LET t == Head(completed)
            IN /\ urbs' = [urbs EXCEPT ![t] = "none"]
               /\ cb' = [at |-> IF urbs[t] = "done" THEN "resubmit"
                                                    ELSE "aborted",
                         by |-> th]
               /\ UNCHANGED <<access, event>>
  /\ UNCHANGED <<request, stopped, stream, img_transfer, streaming>>

-----------------------------------------------------------------------------
(* cb_img                                                                  *)

Callback(from, to) == cb.at = from /\ cb' = [cb EXCEPT !.at = to]
Return(from) ==
  /\ cb.at = from /\ cb' = NoCallback
  /\ event' = IF cb.by = "ack" THEN event
                               ELSE [event EXCEPT ![cb.by] = "loop"]

StopFlags ==
  /\ bTsThread' = FALSE /\ writeCount' = 0 /\ parseOkFlag' = FALSE
  /\ PID_FILTER_FLAG' = FALSE /\ PTHREAD_FLAG' = FALSE

\* A transfer that was cancelled or refused: the global pointer is forgotten,
\* whichever transfer it points to.
CbAborted ==
  /\ Return("aborted")
  /\ img_transfer' = NoTransfer
  /\ UNCHANGED <<request, stopped, stream, libusb, device>>

\* The global transfer is submitted again before the data is looked at.
CbResubmit ==
  /\ Submittable /\ Submit
  /\ Callback("resubmit", "branch")
  /\ UNCHANGED <<request, stopped, stream, img_transfer, completed, device,
                 event>>

CbRefused ==
  /\ ~Submittable
  /\ Return("resubmit")
  /\ UNCHANGED <<request, stopped, stream, img_transfer, libusb, device>>

CbBranch ==
  /\ IF AcceptFlag /\ Tcp_Sock /\ TCP_Flag
       THEN Callback("branch", "loop")
       ELSE Callback("branch", "capture")
  /\ UNCHANGED <<request, stopped, stream, img_transfer, libusb, device,
                 event>>

\* The sending loop tests bTsThread before every kilobyte.
CbLoop ==
  /\ bTsThread /\ Callback("loop", "send")
  /\ UNCHANGED <<request, stopped, stream, img_transfer, libusb, device,
                 event>>

CbSent ==
  /\ Callback("send", "loop")
  /\ UNCHANGED <<request, stopped, stream, img_transfer, libusb, device,
                 event>>

\* Everything is sent, or the rest is dropped because of bTsThread.
CbLoopEnds ==
  /\ Return("loop")
  /\ UNCHANGED <<request, stopped, stream, img_transfer, libusb, device>>

\* send() fails: the client is gone, too slow, or the socket was closed.
CbSendFails ==
  /\ Callback("send", "clear")
  /\ UNCHANGED <<request, stopped, stream, img_transfer, libusb, device,
                 event>>

\* (Slip.)  The capture does not count its blocks.
CbWriteUncounted ==
  /\ Return("capture")
  /\ writeCount' = writeCount + 1
  /\ UNCHANGED <<request, bTsThread, parseOkFlag, PID_FILTER_FLAG,
                 PTHREAD_FLAG, stream, img_transfer, libusb, device>>

\* A block that cannot be written is not counted.
CbWrite ==
  /\ writeCount <= Blocks
  /\ Return("capture")
  /\ writeCount' \in {writeCount, writeCount + 1}
  /\ UNCHANGED <<request, bTsThread, parseOkFlag, PID_FILTER_FLAG,
                 PTHREAD_FLAG, stream, img_transfer, libusb, device>>

CbFull ==
  /\ writeCount > Blocks
  /\ Callback("capture", "full")
  /\ UNCHANGED <<request, stopped, stream, img_transfer, libusb, device,
                 event>>

\* StopTsThread, called after a failed send and after a complete capture.
CbStop ==
  /\ Callback("clear", "clearcancel") \/ Callback("full", "fullcancel")
  /\ StopFlags
  /\ UNCHANGED <<request, stream, img_transfer, libusb, device, event>>

CbCancel ==
  /\ Callback("clearcancel", "close") \/ Callback("fullcancel", "parseok")
  /\ CancelTransfer
  /\ UNCHANGED <<request, stopped, stream, img_transfer, device, event>>

CbParseOk ==
  /\ Return("parseok")
  /\ parseOkFlag' = TRUE
  /\ UNCHANGED <<request, bTsThread, writeCount, PID_FILTER_FLAG,
                 PTHREAD_FLAG, stream, img_transfer, libusb, device>>

\* The rest of Clear(): bTsThread once more and the sockets, then the flags.
CbClose ==
  /\ Callback("close", "flags")
  /\ bTsThread' = FALSE
  /\ Tcp_Sock' = FALSE /\ TCP_FD' = FALSE /\ unanswered' = FALSE
  /\ UNCHANGED <<request, writeCount, parseOkFlag, PID_FILTER_FLAG,
                 PTHREAD_FLAG, TCP_Flag, AcceptFlag, img_transfer, libusb,
                 device, event>>

CbFlags ==
  /\ Return("flags")
  /\ TCP_Flag' = FALSE /\ AcceptFlag' = FALSE
  /\ UNCHANGED <<request, stopped, TCP_FD, Tcp_Sock, unanswered, img_transfer,
                 libusb, device>>

CbStep == \/ CbAborted \/ CbResubmit \/ CbRefused \/ CbBranch \/ CbLoop
          \/ CbSent \/ CbLoopEnds
          \/ CbSendFails \/ CbWrite \/ CbFull \/ CbStop \/ CbCancel
          \/ CbParseOk \/ CbClose \/ CbFlags

-----------------------------------------------------------------------------
(* thread_func                                                             *)

EventMoves(e, from, to) ==
  /\ event[e] = from
  /\ event' = [event EXCEPT ![e] = to]
  /\ UNCHANGED <<request, stopped, stream, img_transfer, libusb, device, cb>>

EventOpen(e) == EventMoves(e, "created", "loop")
EventLoop(e) == EventMoves(e, "loop", IF bTsThread THEN "handling" ELSE "none")

\* A second without events, or the first of a transfer's two URBs.
EventNothing(e) == cb.by # e /\ EventMoves(e, "handling", "loop")

EventReap(e) == event[e] = "handling" /\ Reap(e)

EventStep(e) == EventOpen(e) \/ EventLoop(e) \/ EventNothing(e) \/ EventReap(e)

-----------------------------------------------------------------------------
(* StopTsThread, StartTsThread and the register accesses, as the           *)
(* communication thread runs them; job says where it goes on afterwards.   *)

Goes(from, to) ==
  /\ ctl = from /\ ctl' = to
  /\ job' = IF to = "idle" THEN "none" ELSE job

\* Most steps concern none of these.
Usb == <<img_transfer, libusb, device, handlers>>
Others == <<tries, programNumber>>

Flags ==
  /\ Goes("flags", "cancel")
  /\ StopFlags
  /\ UNCHANGED <<Others, Lock_Freq_Flag, stream, Usb>>

AfterStop == IF job = "tune" THEN "off"
             ELSE IF job = "filter" THEN "control"
             ELSE IF job \in {"stop", "end"} THEN "close" ELSE "idle"

Cancel ==
  /\ Goes("cancel", AfterStop)
  /\ CancelTransfer
  /\ UNCHANGED <<Others, Lock_Freq_Flag, stopped, stream,
                 img_transfer, device, handlers>>

\* (Slips.)  The endpoint is not halted, or not released, by the access that
\* should.
AskNotHalting ==
  /\ ctl \in Accesses /\ access = "none"
  /\ access' = "asked"
  /\ completed' = Append(completed, Register)
  /\ streaming' = (ctl = "on" \/ streaming)
  /\ UNCHANGED <<request, stopped, stream, img_transfer, urbs, handlers>>

AskNotReleasing ==
  /\ ctl \in Accesses /\ access = "none"
  /\ streaming \/ \A t \in Transfers : urbs[t] # "flying"
  /\ access' = "asked"
  /\ completed' = Append(completed, Register)
  /\ streaming' = (ctl # "off" /\ (streaming \/ job = "abandon"))
  /\ UNCHANGED <<request, stopped, stream, img_transfer, urbs, handlers>>

\* A register access is itself a transfer: its completion is reaped after
\* those that came before it, by this thread or by an event thread.  A halted
\* endpoint refuses what is in flight in less time than an access takes.
Ask ==
  /\ ctl \in Accesses /\ access = "none"
  /\ streaming \/ \A t \in Transfers : urbs[t] # "flying"
  /\ access' = "asked"
  /\ completed' = Append(completed, Register)
  /\ streaming' = (ctl = "on" \/ (ctl # "off" /\ streaming))
  /\ UNCHANGED <<request, stopped, stream, img_transfer, urbs, handlers>>

AskReap == ctl \in Accesses /\ access = "asked" /\ Reap("ack")

Got == /\ access = "done" /\ access' = "none"
       /\ UNCHANGED <<Others, stream, img_transfer, libusb, streaming,
                      handlers>>

StartNeedsSocket == ~TCP_Flag /\ (PID_FILTER_FLAG \/ ~programNumber)

Start ==
  /\ Goes("start", IF StartNeedsSocket THEN "bind" ELSE "spawn")
  /\ writeCount' = 0
  /\ UNCHANGED <<Others, Lock_Freq_Flag, bTsThread, parseOkFlag,
                 PID_FILTER_FLAG, PTHREAD_FLAG, stream, Usb>>

\* Create_Sock_Tcp.
Socket(from, to) ==
  Goes(from, to) /\ UNCHANGED <<Others, Lock_Freq_Flag, stopped, Usb>>

Bind ==
  /\ ~TCP_FD
  /\ Socket("bind", "answer")
  /\ TCP_FD' = TRUE
  /\ UNCHANGED <<TCP_Flag, AcceptFlag, Tcp_Sock, unanswered>>

\* bind() fails on the port of a listener that is still open, and ends the
\* process (SO_REUSEADDR does not help there); daemon.sh starts it anew.
Exit ==
  /\ ctl = "bind" /\ TCP_FD
  /\ ctl' = "idle" /\ job' = "none" /\ tries' = 0
  /\ programNumber' = FALSE /\ Lock_Freq_Flag' = FALSE /\ PTHREAD_FLAG' = FALSE
  /\ TCP_Flag' = FALSE /\ AcceptFlag' = FALSE /\ TCP_FD' = FALSE
  /\ Tcp_Sock' = FALSE /\ unanswered' = FALSE
  /\ bTsThread' = FALSE /\ writeCount' = 0 /\ parseOkFlag' = FALSE
  /\ PID_FILTER_FLAG' = FALSE
  /\ img_transfer' = NoTransfer
  /\ urbs' = [t \in Transfers |-> "none"] /\ completed' = <<>>
  /\ access' = "none" /\ streaming' = TRUE
  /\ event' = [e \in EventThreads |-> "none"] /\ cb' = NoCallback

AnswerSent == Socket("answer", "accept") /\ UNCHANGED stream

\* The listener stays open and the session goes on: a request that was sent
\* before the client went may still be served.
AnswerFails ==
  /\ Socket("answer", "flag")
  /\ unanswered' = TRUE
  /\ UNCHANGED <<TCP_Flag, AcceptFlag, TCP_FD, Tcp_Sock>>

Accept ==
  /\ TCP_FD
  /\ Socket("accept", "tcpflag")
  /\ Tcp_Sock' = TRUE /\ AcceptFlag' = TRUE
  /\ UNCHANGED <<TCP_Flag, TCP_FD, unanswered>>

\* (Slip.)  accept() failed, and the listener is left open.
SocketFailsOpen ==
  /\ (~TCP_FD /\ Socket("bind", "flag")) \/ Socket("accept", "flag")
  /\ Tcp_Sock' = FALSE
  /\ UNCHANGED <<TCP_Flag, AcceptFlag, TCP_FD, unanswered>>

\* Nobody connects within five seconds (or listen() fails).
SocketFails ==
  /\ (~TCP_FD /\ Socket("bind", "flag")) \/ Socket("accept", "flag")
  /\ TCP_FD' = FALSE /\ Tcp_Sock' = FALSE /\ unanswered' = FALSE
  /\ UNCHANGED <<TCP_Flag, AcceptFlag>>

TcpFlag ==
  /\ Socket("tcpflag", "spawn")
  /\ TCP_Flag' = TRUE
  /\ UNCHANGED <<AcceptFlag, TCP_FD, Tcp_Sock, unanswered>>

Spawn ==
  /\ ~bTsThread /\ bTsThread' = TRUE
  /\ Goes("spawn", "alloc")
  /\ \E e \in EventThreads : /\ event[e] = "none"
                             /\ event' = [event EXCEPT ![e] = "created"]
  /\ UNCHANGED <<Others, Lock_Freq_Flag, writeCount, parseOkFlag,
                 PID_FILTER_FLAG, PTHREAD_FLAG, stream, img_transfer, libusb,
                 device, cb>>

SpawnNot ==
  /\ bTsThread
  /\ Goes("spawn", "flag")
  /\ UNCHANGED <<Others, Lock_Freq_Flag, stopped, stream, Usb>>

\* The transfer of an earlier start is not freed: a new one takes its place.
\* (One that was given back and is no longer pointed to may be taken again.)
Unused == {t \in Transfers \ {img_transfer} : urbs[t] = "none"}

Alloc ==
  /\ Goes("alloc", "submit")
  /\ \E t \in Unused : img_transfer' = t
  /\ UNCHANGED <<Others, Lock_Freq_Flag, stopped, stream, libusb,
                 device, handlers>>

\* libusb_submit_transfer of the pointer, which a callback may have reset.
InitCapture ==
  /\ Goes("submit", "flag")
  /\ IF Submittable THEN Submit ELSE UNCHANGED urbs
  /\ UNCHANGED <<Others, Lock_Freq_Flag, stopped, stream,
                 img_transfer, completed, device, handlers>>

\* The caller of StartTsThread, whatever it returned.
SetFlag ==
  /\ ctl = "flag" /\ PTHREAD_FLAG' = TRUE
  /\ LET waits    == job = "tune" /\ programNumber
         abandons == job = "program" /\ ~PID_FILTER_FLAG
     IN \/ waits /\ ctl' = "wait" /\ tries' = 0 /\ UNCHANGED job
        \/ abandons /\ ctl' = "flags" /\ job' = "abandon" /\ UNCHANGED tries
        \/ /\ ~waits /\ ~abandons
           /\ ctl' = "idle" /\ job' = "none" /\ UNCHANGED tries
  /\ UNCHANGED <<programNumber, Lock_Freq_Flag, bTsThread, writeCount,
                 parseOkFlag, PID_FILTER_FLAG, stream, Usb>>

-----------------------------------------------------------------------------
(* The requests                                                            *)

Begins(r, j, first) ==
  /\ ctl = "idle" /\ r \in Requests
  /\ job' = j
  /\ ctl' = IF PTHREAD_FLAG /\ j # "stop" THEN "flags" ELSE first
  /\ UNCHANGED <<tries, Lock_Freq_Flag, stopped, stream, Usb>>

Tune(program) == Begins("tune", "tune", "off") /\ programNumber' = program

\* A request without its parameters has stopped the stream all the same.
Refused ==
  /\ PTHREAD_FLAG
  /\ \/ Begins("tune", "abandon", "flags")
     \/ Lock_Freq_Flag /\ Begins("filter", "abandon", "flags")
  /\ UNCHANGED programNumber

\* (Unused # {}: the bound on transfers; without it the request is not made.)
Filter ==
  /\ Lock_Freq_Flag /\ Unused # {}
  /\ Begins("filter", "filter", "control") /\ UNCHANGED programNumber

\* (Whether the client has logged in is Session's.)
StartTsSend ==
  /\ Lock_Freq_Flag /\ ~PTHREAD_FLAG /\ Unused # {}
  /\ Begins("start", "start", "start") /\ UNCHANGED programNumber

StopStream ==
  /\ PTHREAD_FLAG
  /\ Begins("stop", "stop", "clear") /\ UNCHANGED programNumber

\* Signal status, relock: register accesses only.
Query ==
  /\ ctl = "idle" /\ "query" \in Requests
  /\ ctl' = "query" /\ job' = "query"
  /\ UNCHANGED <<Others, Lock_Freq_Flag, stopped, stream, Usb>>

\* The control connection is lost: Clean.
End ==
  /\ ctl = "idle" /\ job' = "end"
  /\ ctl' = IF PTHREAD_FLAG THEN "flags" ELSE "close"
  /\ UNCHANGED <<Others, Lock_Freq_Flag, stopped, stream, Usb>>

\* (Slip.)  stop_stream_req leaves TCP_Flag to the next request.
ClearStopForgets ==
  /\ Goes("clear", "off")
  /\ PTHREAD_FLAG' = FALSE /\ AcceptFlag' = FALSE
  /\ UNCHANGED <<Others, Lock_Freq_Flag, bTsThread, writeCount,
                 parseOkFlag, PID_FILTER_FLAG, TCP_FD, Tcp_Sock, unanswered,
                 TCP_Flag, Usb>>

ClearStop ==
  /\ Goes("clear", "off")
  /\ PTHREAD_FLAG' = FALSE /\ AcceptFlag' = FALSE /\ TCP_Flag' = FALSE
  /\ UNCHANGED <<Others, Lock_Freq_Flag, bTsThread, writeCount,
                 parseOkFlag, PID_FILTER_FLAG, TCP_FD, Tcp_Sock, unanswered,
                 Usb>>

Off ==
  /\ Goes("off", IF job = "stop" THEN "flags" ELSE "lock") /\ Got
  /\ UNCHANGED <<Lock_Freq_Flag, stopped>>

Lock(locks) ==
  /\ Goes("lock", IF locks THEN "disable" ELSE "idle")
  /\ Lock_Freq_Flag' = locks
  /\ UNCHANGED <<Others, stopped, stream, Usb>>

\* disable_pid_filter, and whether one of its five attempts succeeds.
Disable ==
  /\ ctl = "disable" /\ ctl' = "on" /\ job' \in {"tune", "abandon"} /\ Got
  /\ UNCHANGED <<Lock_Freq_Flag, stopped>>

On ==
  /\ Goes("on", IF job = "tune" THEN "start" ELSE "idle") /\ Got
  /\ UNCHANGED <<Lock_Freq_Flag, stopped>>

Queried ==
  /\ Goes("query", "idle") /\ Got
  /\ UNCHANGED <<Lock_Freq_Flag, stopped>>

\* rtl2832_pid_filter_ctr, before the filter itself: the many accesses of the
\* two are represented by one each.
Control ==
  /\ Goes("control", "filter") /\ Got
  /\ UNCHANGED <<Lock_Freq_Flag, stopped>>

\* pid_filter_req: the filter is set, and the stream started when the answer
\* could be sent.
Filtered ==
  /\ job = "filter"
  /\ \E next \in {"start", "idle"} : Goes("filter", next)
  /\ Got /\ UNCHANGED <<Lock_Freq_Flag, stopped>>

\* (Slip.)  The rounds are not counted.
WaitForever ==
  /\ tries < Tries
  /\ Goes("wait", IF parseOkFlag THEN "parse" ELSE "wait")
  /\ UNCHANGED <<Others, Lock_Freq_Flag, stopped, stream, Usb>>

\* filterTsStreamAndSend: wait for a capture, parse it, filter, start again.
Wait ==
  /\ tries < Tries /\ tries' = tries + 1
  /\ Goes("wait", IF parseOkFlag THEN "parse" ELSE "wait")
  /\ UNCHANGED <<programNumber, Lock_Freq_Flag, stopped, stream, Usb>>

GiveUp ==
  /\ (ctl = "wait" /\ tries = Tries) \/ ctl = "parse"
  /\ ctl' = "flags" /\ job' = "abandon"
  /\ UNCHANGED <<Others, Lock_Freq_Flag, stopped, stream, Usb>>

Parse ==
  /\ \E next \in {"control", "wait"} : Goes("parse", next)
  /\ UNCHANGED <<Others, Lock_Freq_Flag, stopped, stream, Usb>>

ProgramFiltered ==
  /\ job = "tune"
  /\ Goes("filter", "test") /\ Got
  /\ PID_FILTER_FLAG' = TRUE
  /\ UNCHANGED <<Lock_Freq_Flag, bTsThread, writeCount, parseOkFlag,
                 PTHREAD_FLAG>>

Test ==
  /\ ctl = "test"
  /\ IF PID_FILTER_FLAG THEN ctl' = "start" /\ job' = "program"
                        ELSE ctl' = "wait" /\ UNCHANGED job
  /\ UNCHANGED <<Others, Lock_Freq_Flag, stopped, stream, Usb>>

Close ==
  /\ Goes("close", IF job = "end" THEN "reset" ELSE "idle")
  /\ TCP_FD' = FALSE /\ Tcp_Sock' = FALSE /\ unanswered' = FALSE
  /\ Lock_Freq_Flag' = (job # "end" /\ Lock_Freq_Flag)
  /\ UNCHANGED <<Others, stopped, TCP_Flag, AcceptFlag, Usb>>

Reset ==
  /\ Goes("reset", "idle")
  /\ PTHREAD_FLAG' = FALSE /\ TCP_Flag' = FALSE
  /\ UNCHANGED <<Others, Lock_Freq_Flag, bTsThread, writeCount, parseOkFlag,
                 PID_FILTER_FLAG, AcceptFlag, TCP_FD, Tcp_Sock, unanswered,
                 Usb>>

-----------------------------------------------------------------------------
Serve == \/ Flags \/ Cancel \/ Ask \/ AskReap \/ Start
         \/ Bind \/ AnswerSent \/ AnswerFails \/ Accept \/ SocketFails
         \/ TcpFlag \/ Spawn \/ SpawnNot \/ Alloc \/ InitCapture \/ SetFlag
         \/ ClearStop \/ Off \/ (\E locks \in BOOLEAN : Lock(locks))
         \/ Disable \/ On \/ Queried \/ Control \/ Filtered
         \/ Wait \/ GiveUp \/ Parse \/ ProgramFiltered \/ Test
         \/ Close \/ Reset

Begin == \/ (\E program \in Programs : Tune(program)) \/ Refused \/ Filter
         \/ StartTsSend \/ StopStream \/ Query \/ End

\* The steps of a process that runs.
Run == \/ Serve \/ Begin \/ CbStep
       \/ (\E e \in EventThreads : EventStep(e))
       \/ (\E t \in Transfers : Answered(t))

Next == Run \/ Exit

Spec == Init /\ [][Next]_vars

\* The threads run; the kernel's timeouts end accept() and send(), the sending
\* loop has 32 rounds, and a halted endpoint refuses what is in flight.
FairSpec == Spec /\ WF_vars(Serve \/ Exit)
                 /\ WF_vars(CbStep) /\ SF_vars(CbLoopEnds)
                 /\ \A t \in Transfers : WF_vars(~streaming /\ Answered(t))
                 /\ \A e \in EventThreads : WF_vars(EventStep(e))

-----------------------------------------------------------------------------
Quiet == ctl = "idle" /\ cb = NoCallback

\* Of the listeners of the stream only one whose answer could not be sent
\* is still open when the next is to be bound, and no connection ever: every
\* other way out of a stream (a failed accept, a failed send, stop_stream_req
\* and the end of the session) closes what it opened.
LeftByAnswer == ctl = "bind" => ~Tcp_Sock /\ (TCP_FD => unanswered)

\* An answer that cannot be sent does not end the server: main() ignores
\* SIGPIPE to that end (Server.c:1027).  But the next listener is bound while
\* the one before it is open, and the process exits (Create_Sock_Tcp).
PortFree == ctl = "bind" => ~TCP_FD

\* What the callback sends on is open: TCP_Flag outlives the sockets only
\* inside the Clear() and Clean() that close them.
FlagHasSocket == Quiet /\ TCP_Flag => TCP_FD /\ Tcp_Sock /\ AcceptFlag

\* A stream that is on is fed: the global transfer is in flight or waits to
\* be reaped, and there is a thread to reap it.  The callback keeps it so by
\* submitting the transfer again; an aborted transfer that resets the pointer
\* of its successor ends the stream without anybody noticing.
StreamIsFed ==
  Quiet /\ TCP_Flag /\ PTHREAD_FLAG /\ bTsThread /\ streaming =>
    /\ img_transfer # NoTransfer
    /\ urbs[img_transfer] \in {"flying", "done"}
    /\ \E e \in EventThreads : event[e] # "none"

\* A stream that is on comes from an endpoint that is on.
EndpointIsOn == Quiet /\ PTHREAD_FLAG /\ bTsThread => streaming

\* A request comes to its end: no thread that would reap the completion of
\* its register access is waiting for it in turn, and it does not wait for
\* the stream.
RequestsEnd == ctl # "idle" ~> ctl = "idle"
=============================================================================
