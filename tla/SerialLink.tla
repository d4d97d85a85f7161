----------------------------- MODULE SerialLink -----------------------------
(***************************************************************************)
(* One exchange after the other between the host and a device over a       *)
(* serial line, down to the bytes: the host's frame builders and try_flush,*)
(* the write path of each transport (runtime/src/transport.rs, wasm.rs),   *)
(* the line, the device runtime (DeviceRuntime) and the host's parser      *)
(* (FrameParser, instance H) with the reply matching of handle_frame.      *)
(*                                                                         *)
(* The line loses the rest of what is under way, damages a byte the        *)
(* checksum covers, and either end restarts at any time.                   *)
(***************************************************************************)
EXTENDS DeviceRuntime

CONSTANTS
  Requests,          \* requests of the application: op, cmd and data
  Answers,           \* payloads the device's handlers and notifications carry
  HOST_MAX_PAYLOAD,  \* MAX_PAYLOAD_SIZE of the host's parser
  ResponseTimeout,
  MaxLatency,        \* bytes under way arrive within this time of the send
  DeviceQueue,       \* bytes the line holds on the way to the device
  MaxExchanges,      \* bound on the requests sent
  MaxUpsets          \* bound on notifications and faults

ASSUME LinkTimesAssumption ==
  /\ MaxLatency \in Nat /\ ResponseTimeout \in Nat
  /\ MaxLatency <= TIMEOUT_MS
  /\ MaxLatency + TIMEOUT_MS + TickPeriod < ResponseTimeout
ASSUME RequestsAssumption ==
  \A r \in Requests :
    /\ r.op \in {"read", "write", "query"} /\ r.cmd \in Byte /\ r.data \in Seq(Byte)
    /\ (r.op # "read" /\ r.cmd \in DOMAIN Writes) => r.op = Writes[r.cmd].semantic
ASSUME AnswersAssumption ==
  \A p \in Answers : p \in Seq(Byte) /\ Len(p) <= MAX_PAYLOAD
ASSUME LinkSizesAssumption ==
  /\ Radix > 3 /\ HOST_MAX_PAYLOAD \in Nat
  /\ MAX_PAYLOAD <= HOST_MAX_PAYLOAD /\ HOST_MAX_PAYLOAD < Radix * Radix
\* A checksum is a byte, and one changed byte changes it
ASSUME ChecksumAssumption ==
  /\ \A p \in Answers : crc8(p) \in Byte
  /\ \A r \in Requests :
       /\ crc8(r.data) \in Byte
       /\ \A i \in DOMAIN r.data :
            crc8([r.data EXCEPT ![i] = (@ + 1) % Radix]) # crc8(r.data)
ASSUME LinkBoundsAssumption ==
  DeviceQueue \in Nat \ {0} /\ MaxUpsets \in Nat /\ MaxExchanges \in Nat

VARIABLES
  hState, hSource, hType, hCommand, hLen, hBuf, hOut, hSpan, hLast,  \* the host's parser
  transport,  \* the client's: "port" (serial or PTY) or the browser's "buffer"
  phase,      \* of the client: "idle", "writing" (in write_all), "waiting"
  request,    \* the latest request sent: <<>> or one
  unsent,     \* what write_all has still to write; the browser's tx
  toDevice,   \* bytes on the line
  toHost,
  waited,     \* while waiting, time since write_all returned (sent_at)
  elapsed,    \* time since try_flush, up to MaxLatency
  quiet,      \* history: the exchange began with nothing left of an earlier one
              \* in the device or on the way to it, and the payload fits
  rested,     \* history: moreover nothing was on the way back or half received
  faults,     \* history: what a fault of this exchange touched: the bytes on the
              \* way to the device ("request"), those on the way back ("reply")
  sends,      \* number of requests sent
  upsets,     \* number of notifications and faults
  ran,        \* history: a handler ran in this exchange
  answer      \* history: the frame the device replied with in this exchange

parser == <<hState, hSource, hType, hCommand, hLen, hBuf, hOut, hSpan, hLast>>
lines == <<unsent, toDevice, toHost>>
times == <<waited, elapsed>>
exchange == <<quiet, rested, sends, ran, answer>>
histories == <<exchange, faults, upsets>>
linkVars == <<vars, parser, transport, phase, request, lines, times, histories>>

H == INSTANCE FrameParser WITH
       SYNC_BYTE <- FRAME_SYNC, MAX_PAYLOAD_SIZE <- HOST_MAX_PAYLOAD, ADDRESSING <- FALSE,
       state <- hState, source <- hSource, frame_type <- hType, command <- hCommand,
       data_len <- hLen, buf <- hBuf, out <- hOut, span <- hSpan, last_source <- hLast

\* The device's clock is about to wrap around
LinkInit ==
  /\ Init /\ H!Init /\ nowMs = ClockRadix - 1
  /\ transport \in {"port", "buffer"} /\ phase = "idle" /\ request = <<>>
  /\ unsent = <<>> /\ toDevice = <<>> /\ toHost = <<>>
  /\ waited = 0 /\ elapsed = 0
  /\ quiet = FALSE /\ rested = FALSE /\ sends = 0 /\ ran = FALSE /\ answer = <<>>
  /\ faults = {} /\ upsets = 0

Upset == upsets < MaxUpsets /\ upsets' = upsets + 1
Fault(touched) == Upset /\ faults' = faults \cup touched

-----------------------------------------------------------------------------
(* The host sends.                                                           *)

BuildReadFrame(c) == <<FRAME_SYNC, 0, c>>

\* The length is cast to two bytes, whatever it is
BuildWriteFrame(c, data) ==
  LET len == Len(data) % (Radix * Radix)
  IN  <<FRAME_SYNC, 1, c, len % Radix, len \div Radix>> \o data \o <<crc8(data)>>

FrameOf(r) == IF r.op = "read" THEN BuildReadFrame(r.cmd) ELSE BuildWriteFrame(r.cmd, r.data)

\* QueuedMessage.expect of read, write and query
Expect(r) == IF r.op = "write" THEN "Ack" ELSE "Data"

\* try_flush with nothing pending.  BufferTransport::write_all is one step; its
\* tx is empty because the page takes it after each poll.
Send(r) ==
  /\ phase = "idle" /\ unsent = <<>> /\ sends < MaxExchanges /\ sends' = sends + 1
  /\ unsent' = FrameOf(r) /\ request' = <<r>>
  /\ phase' = IF transport = "buffer" THEN "waiting" ELSE "writing"
  /\ waited' = 0 /\ elapsed' = 0
  /\ quiet' = (state = "SYNC" /\ toDevice = <<>> /\ Len(r.data) <= MAX_PAYLOAD)
  /\ rested' = (quiet' /\ hState = "Sync" /\ toHost = <<>>) /\ faults' = {}
  /\ ran' = FALSE /\ answer' = <<>>
  /\ UNCHANGED <<vars, parser, transport, toDevice, toHost, upsets>>

Room == DeviceQueue - Len(toDevice)

\* Fault: one write, whatever it takes
WriteOnce ==
  /\ phase = "writing"
  /\ \E n \in 1..Room : n <= Len(unsent) /\ toDevice' = toDevice \o SubSeq(unsent, 1, n)
  /\ unsent' = <<>>
  /\ UNCHANGED <<vars, parser, transport, phase, request, toHost, times, histories>>

\* write_all: one write takes as much as there is room for, or less; with no
\* room it is tried again
WriteSome ==
  /\ phase = "writing"
  /\ \E n \in 1..Room :
       /\ n <= Len(unsent)
       /\ toDevice' = toDevice \o SubSeq(unsent, 1, n)
       /\ unsent' = SubSeq(unsent, n + 1, Len(unsent))
  /\ UNCHANGED <<vars, parser, transport, phase, request, toHost, times, histories>>

\* write_all returns Ok: at once, or after the serial port's flush
WriteDone ==
  /\ phase = "writing" /\ unsent = <<>>
  /\ phase' = "waiting" /\ waited' = 0
  /\ UNCHANGED <<vars, parser, transport, request, lines, elapsed, histories>>

\* write_all returns an error, with some or all bytes written: the message is gone
WriteFails ==
  /\ phase = "writing"
  /\ phase' = "idle" /\ unsent' = <<>> /\ Fault({"request"})
  /\ UNCHANGED <<vars, parser, transport, request, toDevice, toHost, times, exchange>>

\* WasmClient::take_outgoing, and the page writes the bytes to the port
TakeOutgoing ==
  /\ transport = "buffer" /\ unsent # <<>>
  /\ toDevice' = toDevice \o unsent /\ unsent' = <<>>
  /\ UNCHANGED <<vars, parser, transport, phase, request, toHost, times, histories>>

-----------------------------------------------------------------------------
(* The device.                                                               *)

ReplyFrame(r, p) ==
  IF r.kind \in {"Nack", "Ack"} THEN [kind |-> r.kind, command |-> r.command]
  ELSE IF r.kind = "Data" THEN [kind |-> "Data", command |-> r.command, payload |-> p]
  ELSE [kind |-> "Notification", payload |-> p]

\* The bytes of a reply that carries p: all of sendFrame's sendBytes, or the
\* header with or without the payload
LineBytes(r, p) ==
  LET bytes == H!Encode(ReplyFrame(r, p), 0, 0)
  IN  IF r.whole THEN {bytes} ELSE {SubSeq(bytes, 1, 5), SubSeq(bytes, 1, 5 + Len(p))}

\* This call's sendFrame, with payload p, reaches the line, or sendBytes fails
DeviceSends(p) ==
  IF reply' = <<>> THEN UNCHANGED toHost
  ELSE \E bytes \in LineBytes(reply'[1], p) : toHost' = toHost \o bytes

\* Runtime_feedByte on the next byte of the line
DeviceReads(p) ==
  /\ toDevice # <<>>
  /\ FeedByte(Head(toDevice)) /\ toDevice' = Tail(toDevice)
  /\ DeviceSends(p)
  /\ IF sendOk' THEN UNCHANGED <<faults, upsets>> ELSE Fault({"reply"})
  /\ ran' = (ran \/ called' # <<>>)
  /\ answer' = IF reply' = <<>> THEN answer ELSE <<ReplyFrame(reply'[1], p)>>
  /\ UNCHANGED <<parser, transport, phase, request, unsent, times, quiet, rested, sends>>

\* Bound: a notification is sent only when nothing else is on the line
DeviceNotifies(p) ==
  /\ toHost = <<>>
  /\ Notify /\ reply' # <<>> /\ DeviceSends(p)
  /\ Fault(IF sendOk' THEN {} ELSE {"reply"})
  /\ UNCHANGED <<parser, transport, phase, request, unsent, toDevice, times, exchange>>

DeviceTicks ==
  /\ RuntimeTick
  /\ UNCHANGED <<parser, transport, phase, request, lines, times, histories>>

-----------------------------------------------------------------------------
(* The host receives, or gives up.                                           *)

\* handle_frame: the frame ends the wait for the pending request
Completes(r, f) ==
  f.kind # "Notification" /\ f.command = r.cmd /\ f.kind \in {"Nack", Expect(r)}

\* poll() reads and feeds the parser; not while the client is in write_all
HostReads ==
  /\ phase # "writing" /\ toHost # <<>>
  /\ H!Feed(Head(toHost)) /\ toHost' = Tail(toHost)
  /\ phase' = IF phase = "waiting" /\ hOut' # <<>> /\ Completes(request[1], hOut'[1])
              THEN "idle" ELSE phase
  /\ waited' = IF phase' = "idle" THEN 0 ELSE waited
  /\ UNCHANGED <<vars, transport, request, unsent, toDevice, elapsed, histories>>

\* poll(), step 2: the pending request has timed out
Timeout ==
  /\ phase = "waiting" /\ waited >= ResponseTimeout
  /\ phase' = "idle" /\ waited' = 0
  /\ UNCHANGED <<vars, parser, transport, request, lines, elapsed, histories>>

-----------------------------------------------------------------------------
(* Faults.                                                                   *)

\* Everything under way in one direction is lost, the rest of a frame that is
\* being received included
LineLoses ==
  /\ \/ /\ toDevice \o unsent # <<>>
        /\ toDevice' = <<>> /\ unsent' = <<>> /\ UNCHANGED toHost /\ Fault({"request"})
     \/ /\ toHost # <<>>
        /\ toHost' = <<>> /\ UNCHANGED <<unsent, toDevice>> /\ Fault({"reply"})
  /\ UNCHANGED <<vars, parser, transport, phase, request, times, exchange>>

\* One byte of the payload or the checksum changes on the line
LineDamages ==
  /\ unsent # <<>> /\ unsent = FrameOf(request[1])
  /\ \E i \in 6..Len(unsent) : unsent' = [unsent EXCEPT ![i] = (@ + 1) % Radix]
  /\ Fault({"request"})
  /\ UNCHANGED <<vars, parser, transport, phase, request, toDevice, toHost, times, exchange>>

\* The host's process or page ends and a new Client opens the port: with or
\* without what arrived meanwhile, and with what was written still on its way
HostRestarts ==
  /\ H!Reset
  /\ phase' = "idle" /\ unsent' = <<>> /\ waited' = 0 /\ toHost' \in {<<>>, toHost}
  /\ Fault({"request", "reply"})
  /\ UNCHANGED <<vars, transport, request, toDevice, elapsed, exchange>>

\* Runtime_init; bytes on the line are still to come
DeviceRestarts ==
  /\ Restart
  /\ quiet' = FALSE /\ Fault({"request", "reply"})
  /\ UNCHANGED <<parser, transport, phase, request, lines, times, rested, sends, ran, answer>>

-----------------------------------------------------------------------------
UnderWay == phase = "writing" \/ unsent # <<>> \/ toDevice # <<>> \/ toHost # <<>>

Later(t, limit) == IF t < limit THEN t + 1 ELSE t

\* Time passes on both sides, within the latency of the line.  Bound: it stands
\* still while the link is at rest.
Tick ==
  /\ UnderWay => elapsed < MaxLatency
  /\ UnderWay \/ phase # "idle" \/ state # "SYNC"
  /\ Clock
  /\ elapsed' = Later(elapsed, MaxLatency)
  /\ waited' = IF phase = "waiting" THEN Later(waited, ResponseTimeout) ELSE waited
  /\ UNCHANGED <<parser, transport, phase, request, lines, histories>>

LinkNext ==
  \/ \E r \in Requests : Send(r)
  \/ WriteSome \/ WriteDone \/ WriteFails \/ TakeOutgoing \/ HostReads \/ Timeout
  \/ DeviceTicks \/ \E p \in Answers : DeviceReads(p) \/ DeviceNotifies(p)
  \/ LineLoses \/ LineDamages \/ HostRestarts \/ DeviceRestarts
  \/ Tick

LinkSpec == LinkInit /\ [][LinkNext]_linkVars

-----------------------------------------------------------------------------
(* An exchange that begins with a quiet device runs the handler at most once *)
(* and only with the command and the payload of its request, although bytes  *)
(* are lost or damaged, the write fails half-way, is retried in pieces, or   *)
(* the host restarts - and not a late one for a request given up before.     *)
HandlersRunWhatWasSent ==
  [][(called' # <<>> /\ called' # called /\ quiet) =>
       /\ ~ran
       /\ request[1].op # "read" /\ called'[1].command = request[1].cmd
       /\ called'[1].payload = request[1].data]_linkVars

(* Client::register_periodic_with_timeout's promise that with a response     *)
(* timeout above latency and partial-frame timeout "a resend lands on a      *)
(* reset parser": when the client gives up, the device is hunting for SYNC   *)
(* and nothing of the request is on its way any more - after lost bytes,     *)
(* restarts, failed writes and over-long payloads alike.                     *)
ResendFindsResetParser ==
  [][Timeout => state = "SYNC" /\ toDevice = <<>> /\ unsent = <<>>]_linkVars

(* A request sent on a link at rest is completed only by the frame the       *)
(* device replied with, although the request is lost, damaged or half        *)
(* written, and whatever notifications and SYNC bytes surround the reply;    *)
(* and without a fault it is completed, never timed out, however the         *)
(* transport cuts the bytes up.  (When bytes of a reply are lost, the parser *)
(* takes those of the next frame in their place, and only the checksum       *)
(* stands between the two.)                                                  *)
AnswerArrives ==
  [][(rested /\ phase = "waiting" /\ phase' = "idle") =>
       \/ HostReads /\ ("reply" \notin faults => hOut' = answer)
       \/ (Timeout \/ HostRestarts) /\ faults' # {}]_linkVars
=============================================================================
