---------------------------- MODULE DeviceRuntime ----------------------------
(***************************************************************************)
(* The generated device runtime (core/templates/protocol_runtime.c.j2):    *)
(* the byte-fed request parser, dispatch to the application's handlers,    *)
(* the reply each dispatch sends, and the parser timeout of Runtime_tick.  *)
(* Bytes are 0..Radix-1; handlers, sendBytes and the clock belong to the   *)
(* application and are nondeterministic.  A reply is abstracted to its     *)
(* kind, its command and whether all of its bytes went out.                *)
(***************************************************************************)
EXTENDS Integers, Sequences

CONSTANTS
  Radix,           \* number of byte values, 256 in the code
  FRAME_SYNC,
  MAX_PAYLOAD,     \* RUNTIME_MAX_PAYLOAD
  TIMEOUT_MS,      \* RUNTIME_TIMEOUT_MS
  ClockRadix,      \* getTimeMs() counts modulo this, 2^32 in the code
  crc8(_),
  Reads,           \* runtime_read_messages: command -> payload, size
  Writes,          \* runtime_write_messages: command -> semantic, payload, size
  OutSizes,        \* sizes a handler may report for its answer
  TickPeriod       \* Runtime_tick is called at least this often

Byte == 0..Radix-1

ASSUME RadixAssumption == Radix \in Nat /\ Radix > 1
ASSUME SyncAssumption == FRAME_SYNC \in Byte
ASSUME SizesAssumption ==
  /\ MAX_PAYLOAD \in Nat /\ MAX_PAYLOAD > 0
  /\ OutSizes \subseteq Nat
ASSUME ClockAssumption ==
  /\ TIMEOUT_MS \in Nat /\ TickPeriod \in Nat /\ ClockRadix \in Nat
  /\ TIMEOUT_MS + TickPeriod < ClockRadix
ASSUME MessagesAssumption ==
  /\ DOMAIN Reads \subseteq Byte /\ DOMAIN Writes \subseteq Byte
  /\ \A c \in DOMAIN Reads : Reads[c] \in [payload: {"struct", "raw"}, size: Nat]
  /\ \A c \in DOMAIN Writes :
       Writes[c] \in [semantic: {"write", "query"},
                      payload: {"struct", "bool", "none", "raw"}, size: Nat]

VARIABLES
  state, startMs, frameType, command, payloadLength, payloadIndex, payload,
  nowMs,       \* getTimeMs()
  reply,       \* what the latest call sent: <<>> or one reply
  sendOk,      \* history: no sendFrame of the latest call returned false
  called,      \* the write or query handler the latest call ran: <<>> or one
  span,        \* history: the bytes of the request being received or just ended
  age,         \* history: true time since the request's SYNC byte, 0 between requests
  sinceTick    \* history: time since the latest Runtime_tick

parserVars == <<state, startMs, frameType, command, payloadLength, payloadIndex, payload>>
vars == <<parserVars, nowMs, reply, sendOk, called, span, age, sinceTick>>

States == {"SYNC", "TYPE", "COMMAND", "LENGTH_LO", "LENGTH_HI", "DATA", "CRC"}
Reply == [kind: {"Nack", "Ack", "Data", "Notification"}, command: Byte, whole: BOOLEAN]
Call == [command: Byte, payload: Seq(Byte), decoded: BOOLEAN]

TypeOK ==
  /\ state \in States /\ startMs \in 0..ClockRadix-1
  /\ frameType \in Byte /\ command \in Byte
  /\ payloadLength \in 0..Radix*Radix-1 /\ payloadIndex \in 0..MAX_PAYLOAD
  /\ payload \in [0..MAX_PAYLOAD-1 -> Byte]
  /\ nowMs \in 0..ClockRadix-1
  /\ reply = <<>> \/ (reply[1] \in Reply /\ reply = <<reply[1]>>)
  /\ sendOk \in BOOLEAN
  /\ called = <<>> \/ (called[1] \in Call /\ called = <<called[1]>>)
  /\ span \in Seq(Byte) /\ age \in Nat /\ sinceTick \in 0..TickPeriod

\* Runtime_init at some clock reading
Init ==
  /\ nowMs \in 0..ClockRadix-1
  /\ state = "SYNC" /\ startMs = nowMs /\ frameType = 0 /\ command = 0
  /\ payloadLength = 0 /\ payloadIndex = 0 /\ payload = [i \in 0..MAX_PAYLOAD-1 |-> 0]
  /\ reply = <<>> /\ sendOk = TRUE /\ called = <<>> /\ span = <<>> /\ age = 0 /\ sinceTick = 0

-----------------------------------------------------------------------------
(* Replies.                                                                 *)

\* What a call may send, and whether it all went out
Sent(frames, ok) == [reply |-> frames, ok |-> ok]

\* The outcomes of Runtime_sendFrame.  A short frame is one sendBytes, a long
\* one up to three, and it stops at the first that fails.
SendFrame(kind, c, size) ==
  LET frame(whole) == <<[kind |-> kind, command |-> c, whole |-> whole]>>
      cut == IF kind \in {"Data", "Notification"} THEN {<<>>, frame(FALSE)} ELSE {<<>>}
  IN  IF size > MAX_PAYLOAD THEN {Sent(<<>>, FALSE)}
      ELSE {Sent(frame(TRUE), TRUE)} \cup {Sent(f, FALSE) : f \in cut}

SendAck(c) == SendFrame("Ack", c, 0)
SendNack(c) == SendFrame("Nack", c, 0)
SendData(c, size) == SendFrame("Data", c, size)

\* The call has one of these outcomes
Sends(outcomes) == \E o \in outcomes : reply' = o.reply /\ sendOk' = o.ok

\* applyWriteDisposition, applyQueryDisposition over what a handler may return
WriteDisposition(c) == SendAck(c) \cup SendNack(c)
QueryDisposition(c) == SendNack(c) \cup UNION {SendData(c, n) : n \in OutSizes}

\* dispatchRead: the replies it may send.  A raw handler's size is compared with
\* the limit before it is sent, a struct's wire size by nobody: sendFrame drops
\* the reply to a READ of a struct that exceeds it.
DispatchRead(c) ==
  IF c \notin DOMAIN Reads THEN SendNack(c)
  ELSE IF Reads[c].payload = "struct" THEN SendNack(c) \cup SendData(c, Reads[c].size)
  ELSE SendNack(c) \cup UNION {SendData(c, n) : n \in {k \in OutSizes : k <= MAX_PAYLOAD}}

\* dispatchWrite: is a handler called for a payload of this size?
Accepts(m, size) ==
  \/ m.payload \in {"struct", "raw"}
  \/ m.payload = "bool" /\ size >= 1
  \/ m.payload = "none" /\ size = 0

\* A struct is decoded only from a payload of its wire size; otherwise the
\* handler's Raw variant gets the bytes
Decodes(m, size) == m.payload = "struct" /\ size = m.size

Disposition(c) ==
  IF Writes[c].semantic = "query" THEN QueryDisposition(c) ELSE WriteDisposition(c)

\* dispatchWrite
DispatchWrite(c, p) ==
  IF c \in DOMAIN Writes /\ Accepts(Writes[c], Len(p))
  THEN /\ Sends(Disposition(c))
       /\ called' = <<[command |-> c, payload |-> p,
                       decoded |-> Decodes(Writes[c], Len(p))]>>
  ELSE Sends(SendNack(c)) /\ called' = <<>>

-----------------------------------------------------------------------------
(* Runtime_feedByte, one action per parser state.                            *)

\* Runtime_reset
ResetParser == state' = "SYNC" /\ payloadLength' = 0 /\ payloadIndex' = 0

Silent == reply' = <<>> /\ sendOk' = TRUE /\ called' = <<>>
Receive(b) == span' = Append(span, b) /\ age' = IF state' = "SYNC" THEN 0 ELSE age

\* Fault: a deadline instead of the start time, without wrap-around
FeedSyncDeadline(b) ==
  /\ state = "SYNC"
  /\ IF b = FRAME_SYNC
     THEN state' = "TYPE" /\ startMs' = nowMs + TIMEOUT_MS /\ span' = <<b>> /\ age' = 0
     ELSE UNCHANGED <<state, startMs, age>> /\ span' = <<>>
  /\ Silent
  /\ UNCHANGED <<frameType, command, payloadLength, payloadIndex, payload, nowMs, sinceTick>>

FeedSync(b) ==
  /\ state = "SYNC"
  /\ IF b = FRAME_SYNC
     THEN state' = "TYPE" /\ startMs' = nowMs /\ span' = <<b>> /\ age' = 0
     ELSE UNCHANGED <<state, startMs, age>> /\ span' = <<>>
  /\ Silent
  /\ UNCHANGED <<frameType, command, payloadLength, payloadIndex, payload, nowMs, sinceTick>>

FeedType(b) ==
  /\ state = "TYPE"
  /\ frameType' = b
  /\ IF b \in {0, 1} THEN state' = "COMMAND" /\ UNCHANGED <<payloadLength, payloadIndex>>
     ELSE ResetParser
  /\ Receive(b) /\ Silent
  /\ UNCHANGED <<startMs, command, payload, nowMs, sinceTick>>

FeedCommand(b) ==
  /\ state = "COMMAND"
  /\ command' = b
  /\ IF frameType = 0
     THEN Sends(DispatchRead(b)) /\ called' = <<>> /\ ResetParser
     ELSE Silent /\ state' = "LENGTH_LO" /\ UNCHANGED <<payloadLength, payloadIndex>>
  /\ Receive(b)
  /\ UNCHANGED <<startMs, frameType, payload, nowMs, sinceTick>>

FeedLengthLo(b) ==
  /\ state = "LENGTH_LO"
  /\ payloadLength' = b /\ state' = "LENGTH_HI"
  /\ Receive(b) /\ Silent
  /\ UNCHANGED <<startMs, frameType, command, payloadIndex, payload, nowMs, sinceTick>>

\* Fault: an over-long announcement is answered before the frame has ended
FeedLengthHiNacks(b) ==
  /\ state = "LENGTH_HI"
  /\ LET length == payloadLength + b * Radix
     IN  IF length > MAX_PAYLOAD
         THEN ResetParser /\ Sends(SendNack(command)) /\ called' = <<>>
         ELSE /\ payloadLength' = length /\ payloadIndex' = 0
              /\ state' = IF length = 0 THEN "CRC" ELSE "DATA"
              /\ Silent
  /\ Receive(b)
  /\ UNCHANGED <<startMs, frameType, command, payload, nowMs, sinceTick>>

FeedLengthHi(b) ==
  /\ state = "LENGTH_HI"
  /\ LET length == payloadLength + b * Radix
     IN  IF length > MAX_PAYLOAD THEN ResetParser
         ELSE /\ payloadLength' = length /\ payloadIndex' = 0
              /\ state' = IF length = 0 THEN "CRC" ELSE "DATA"
  /\ Receive(b) /\ Silent
  /\ UNCHANGED <<startMs, frameType, command, payload, nowMs, sinceTick>>

FeedData(b) ==
  /\ state = "DATA"
  /\ IF payloadIndex < MAX_PAYLOAD
     THEN /\ payload' = [payload EXCEPT ![payloadIndex] = b]
          /\ payloadIndex' = payloadIndex + 1
          /\ state' = IF payloadIndex' >= payloadLength THEN "CRC" ELSE "DATA"
          /\ UNCHANGED payloadLength
     ELSE ResetParser /\ UNCHANGED payload
  /\ Receive(b) /\ Silent
  /\ UNCHANGED <<startMs, frameType, command, nowMs, sinceTick>>

\* The first payloadLength bytes of the payload array
Payload == [i \in 1..payloadLength |-> payload[i - 1]]

\* Fault: the checksum is not compared
FeedCrcUnchecked(b) ==
  /\ state = "CRC"
  /\ DispatchWrite(command, Payload)
  /\ ResetParser
  /\ Receive(b)
  /\ UNCHANGED <<startMs, frameType, command, payload, nowMs, sinceTick>>

\* Fault: a damaged frame is dropped without an answer
FeedCrcSilent(b) ==
  /\ state = "CRC"
  /\ IF b = crc8(Payload) THEN DispatchWrite(command, Payload) ELSE Silent
  /\ ResetParser
  /\ Receive(b)
  /\ UNCHANGED <<startMs, frameType, command, payload, nowMs, sinceTick>>

FeedCrc(b) ==
  /\ state = "CRC"
  /\ IF b = crc8(Payload) THEN DispatchWrite(command, Payload)
     ELSE Sends(SendNack(command)) /\ called' = <<>>
  /\ ResetParser
  /\ Receive(b)
  /\ UNCHANGED <<startMs, frameType, command, payload, nowMs, sinceTick>>

FeedByte(b) ==
  \/ FeedSync(b) \/ FeedType(b) \/ FeedCommand(b) \/ FeedLengthLo(b)
  \/ FeedLengthHi(b) \/ FeedData(b) \/ FeedCrc(b)

\* Fault: the difference does not wrap around
ElapsedSigned(later, earlier) == later - earlier

\* uint32_t difference of two clock readings
Elapsed(later, earlier) == (later - earlier) % ClockRadix

\* Runtime_tick
RuntimeTick ==
  /\ IF state # "SYNC" /\ Elapsed(nowMs, startMs) > TIMEOUT_MS
     THEN ResetParser /\ span' = <<>> /\ age' = 0
     ELSE UNCHANGED <<state, payloadLength, payloadIndex, span, age>>
  /\ Silent
  /\ sinceTick' = 0
  /\ UNCHANGED <<startMs, frameType, command, payload, nowMs>>

\* sendNotification, also through sendNotificationFromCallback, which sends
\* nothing when the application has nothing to report
Notify ==
  /\ Sends(SendFrame("Notification", 0, 0) \cup {Sent(<<>>, TRUE)}) /\ called' = <<>>
  /\ span' = IF state = "SYNC" THEN <<>> ELSE span
  /\ UNCHANGED <<parserVars, nowMs, age, sinceTick>>

\* The millisecond clock advances and wraps around
Clock ==
  /\ sinceTick < TickPeriod
  /\ nowMs' = (nowMs + 1) % ClockRadix
  /\ sinceTick' = sinceTick + 1
  /\ age' = IF state = "SYNC" THEN age ELSE age + 1
  /\ Silent
  /\ span' = IF state = "SYNC" THEN <<>> ELSE span
  /\ UNCHANGED parserVars

\* The device restarts: Runtime_init with the clock at 0
Restart ==
  /\ state' = "SYNC" /\ nowMs' = 0 /\ startMs' = 0 /\ frameType' = 0 /\ command' = 0
  /\ payloadLength' = 0 /\ payloadIndex' = 0 /\ payload' = [i \in 0..MAX_PAYLOAD-1 |-> 0]
  /\ Silent /\ span' = <<>> /\ age' = 0 /\ sinceTick' = 0

Next == (\E b \in Byte : FeedByte(b)) \/ RuntimeTick \/ Notify \/ Clock \/ Restart

Spec == Init /\ [][Next]_vars

-----------------------------------------------------------------------------
(* The request format of docs/wire-format.md, on the bytes received.         *)
AnnouncedLength(s) == s[4] + s[5] * Radix
IsRead(s) == Len(s) = 3 /\ s[2] = 0
IsWrite(s) ==
  /\ Len(s) >= 6 /\ s[2] = 1
  /\ AnnouncedLength(s) <= MAX_PAYLOAD /\ Len(s) = AnnouncedLength(s) + 6
IsRequest(s) == IsRead(s) \/ IsWrite(s)
WriteBytes(c, p) ==
  <<FRAME_SYNC, 1, c, Len(p) % Radix, Len(p) \div Radix>> \o p \o <<crc8(p)>>

(* A handler runs only on the byte that completes a write frame whose        *)
(* command, length and checksum all match, and it is given exactly the       *)
(* payload of that frame: bytes an earlier, longer or abandoned request left *)
(* in the payload array never reach the application, nor a struct decoder    *)
(* that would read past the payload.                                         *)
HandlersSeeTheFrame ==
  called # <<>> =>
    /\ span = WriteBytes(called[1].command, called[1].payload)
    /\ called[1].decoded => Len(called[1].payload) = Writes[called[1].command].size

(* Each request that arrives whole - write frames with a wrong checksum      *)
(* included - is answered at once, with one reply that carries its command,  *)
(* or its answer was cut off: sendBytes failed, or the payload of the DATA   *)
(* frame exceeds RUNTIME_MAX_PAYLOAD, be it that a query handler reported    *)
(* that size or that the struct of a READ has it.  Then sendFrame returns    *)
(* false and neither DATA nor NACK goes out.                                 *)
AnswersEveryRequest ==
  [][(span' # span /\ IsRequest(span') /\ sendOk')
       => (reply' # <<>> /\ reply'[1].whole /\ reply'[1].command = span'[3])]_vars

(* Nothing else is answered: a reply, whole or cut off, is only sent on the  *)
(* byte that completes a request, and for that request's command.            *)
OneReplyPerRequest ==
  (reply # <<>> /\ reply[1].kind # "Notification")
    => IsRequest(span) /\ reply[1].command = span[3]

(* A request whose rest never comes does not linger: with Runtime_tick       *)
(* called every TickPeriod, no request is in progress longer than            *)
(* TIMEOUT_MS + TickPeriod, also across a wrap-around of the 32-bit clock.   *)
StaleRequestDropped == state # "SYNC" => age <= TIMEOUT_MS + TickPeriod
=============================================================================
