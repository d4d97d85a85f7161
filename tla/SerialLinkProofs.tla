-------------------------- MODULE SerialLinkProofs --------------------------
(***************************************************************************)
(* The device runtime, and host and device together on one serial line.    *)
(*                                                                         *)
(* First the device on its own, for every message table, payload limit,    *)
(* checksum, clock width and byte stream, whatever the handlers and        *)
(* sendBytes do.  The inductive invariant Inv says what the bytes since    *)
(* the SYNC byte are in each parser state, and how the wrapped clock       *)
(* relates to the true age of the request in progress.                     *)
(*                                                                         *)
(* Then the link, for every set of requests and answers, every latency and *)
(* timeout within LinkTimesAssumption and any number of exchanges and      *)
(* faults.  Its invariant LinkInv joins that of the device with that of    *)
(* the host's parser (instance HP), and places the bytes of the request    *)
(* and of its reply: sent, on the line, or received.                       *)
(***************************************************************************)
EXTENDS SerialLink, CommonLemmas, TLAPS

\* SYNC, type, command and length of the write request being parsed
Header == <<FRAME_SYNC, 1, command, payloadLength % Radix, payloadLength \div Radix>>

\* The payload bytes of this request that are in the payload array
Received == [i \in 1..payloadIndex |-> payload[i - 1]]

\* What has been received since the SYNC byte, by parser state
Progress ==
  /\ state = "TYPE" => span = <<FRAME_SYNC>>
  /\ state = "COMMAND" => span = <<FRAME_SYNC, frameType>> /\ frameType \in {0, 1}
  /\ state = "LENGTH_LO" => span = <<FRAME_SYNC, 1, command>>
  /\ state = "LENGTH_HI" => span = <<FRAME_SYNC, 1, command, payloadLength>>
                            /\ payloadLength \in Byte
  /\ state \in {"DATA", "CRC"} => span = Header \o Received /\ payloadLength <= MAX_PAYLOAD
  /\ state = "DATA" => payloadIndex < payloadLength
  /\ state = "CRC" => payloadIndex = payloadLength

\* The clock has wrapped around at most once since the request started, and
\* the latest Runtime_tick found it no older than TIMEOUT_MS
Timing ==
  /\ state = "SYNC" => age = 0
  /\ state # "SYNC" => /\ age <= TIMEOUT_MS + sinceTick
                       /\ nowMs = startMs + age \/ nowMs = startMs + age - ClockRadix

Inv == TypeOK /\ Progress /\ Timing /\ HandlersSeeTheFrame /\ OneReplyPerRequest

-----------------------------------------------------------------------------
(* What Runtime_sendFrame and the dispatchers may send.                      *)

\* An outcome of answering command c: whole, cut off, or nothing; reported
\* as sent only when it is whole
AnswerFor(c, o) ==
  /\ o.ok \in BOOLEAN
  /\ \/ o.reply = <<>>
     \/ /\ o.reply[1] \in Reply /\ o.reply = <<o.reply[1]>>
        /\ o.reply[1].kind # "Notification" /\ o.reply[1].command = c
  /\ o.ok => o.reply # <<>> /\ o.reply[1].whole

(* A short or long frame is sent whole, cut off, or not at all.              *)
LEMMA SendFrameAnswers ==
  ASSUME NEW c \in Byte, NEW kind \in {"Nack", "Ack", "Data"}, NEW size,
         NEW o \in SendFrame(kind, c, size)
  PROVE  AnswerFor(c, o)
  <1> DEFINE frame(whole) == <<[kind |-> kind, command |-> c, whole |-> whole]>>
  <1>1. \/ o = Sent(<<>>, FALSE)
        \/ o = Sent(frame(TRUE), TRUE)
        \/ o = Sent(frame(FALSE), FALSE)
    BY DEF SendFrame
  <1>2. ASSUME NEW w \in BOOLEAN
        PROVE  /\ frame(w) # <<>> /\ frame(w)[1] \in Reply /\ frame(w) = <<frame(w)[1]>>
               /\ frame(w)[1].kind # "Notification" /\ frame(w)[1].command = c
               /\ frame(w)[1].whole = w
    BY DEF Reply
  <1>3. CASE o = Sent(<<>>, FALSE)
    BY <1>3 DEF Sent, AnswerFor
  <1>4. CASE o = Sent(frame(TRUE), TRUE)
    <2>1. o.reply = frame(TRUE) /\ o.ok = TRUE
      BY <1>4 DEF Sent
    <2> HIDE DEF frame
    <2>. QED
      BY <1>2, <2>1 DEF AnswerFor
  <1>5. CASE o = Sent(frame(FALSE), FALSE)
    <2>1. o.reply = frame(FALSE) /\ o.ok = FALSE
      BY <1>5 DEF Sent
    <2> HIDE DEF frame
    <2>. QED
      BY <1>2, <2>1 DEF AnswerFor
  <1>. QED
    BY <1>1, <1>3, <1>4, <1>5

(* dispatchRead, a negative reply and a handler's disposition each answer    *)
(* the command they were given.                                              *)
LEMMA DispatchAnswers ==
  ASSUME NEW c \in Byte
  PROVE  /\ \A o \in DispatchRead(c) : AnswerFor(c, o)
         /\ \A o \in SendNack(c) : AnswerFor(c, o)
         /\ \A o \in Disposition(c) : AnswerFor(c, o)
  <1>1. \A o \in SendNack(c) \cup SendAck(c) : AnswerFor(c, o)
    BY SendFrameAnswers DEF SendNack, SendAck
  <1>2. \A n : \A o \in SendData(c, n) : AnswerFor(c, o)
    BY SendFrameAnswers DEF SendData
  <1>3. \A o \in DispatchRead(c) : AnswerFor(c, o)
    BY <1>1, <1>2 DEF DispatchRead
  <1>4. \A o \in Disposition(c) : AnswerFor(c, o)
    BY <1>1, <1>2 DEF Disposition, WriteDisposition, QueryDisposition
  <1>. QED
    BY <1>1, <1>3, <1>4

(* The reply and the return values of a call that answers a command.         *)
LEMMA SendsAnswer ==
  ASSUME NEW c, NEW outcomes, \A o \in outcomes : AnswerFor(c, o), Sends(outcomes)
  PROVE  /\ sendOk' \in BOOLEAN
         /\ reply' = <<>> \/ (reply'[1] \in Reply /\ reply' = <<reply'[1]>>)
         /\ reply' # <<>> => reply'[1].command = c
         /\ sendOk' => reply' # <<>> /\ reply'[1].whole
  BY DEF Sends, AnswerFor

(* A silent call answers nothing and runs no handler.                        *)
LEMMA SilentStep ==
  ASSUME Silent
  PROVE  /\ HandlersSeeTheFrame' /\ OneReplyPerRequest'
         /\ reply' = <<>> /\ called' = <<>> /\ sendOk' \in BOOLEAN
  BY DEF Silent, HandlersSeeTheFrame, OneReplyPerRequest

-----------------------------------------------------------------------------
(* The clock.                                                                *)

(* The unsigned difference of two clock readings is the time between them,   *)
(* whether or not the clock wrapped around, if less than one period passed.  *)
LEMMA ElapsedIsAge ==
  ASSUME NEW start \in 0..ClockRadix-1, NEW t \in Nat, t < ClockRadix,
         NEW later \in 0..ClockRadix-1,
         later = start + t \/ later = start + t - ClockRadix
  PROVE  Elapsed(later, start) = t
  <1>1. ClockRadix \in Nat /\ ClockRadix > 0
    BY ClockAssumption
  <1>2. later - start = t \/ later - start = t - ClockRadix
    BY <1>1
  <1>3. t % ClockRadix = t
    BY <1>1
  <1>4. (t - ClockRadix) % ClockRadix = t
    <2>1. PICK q \in Int, r \in Int :
            /\ r = (t - ClockRadix) % ClockRadix /\ t - ClockRadix = ClockRadix * q + r
            /\ 0 <= r /\ r < ClockRadix
      BY <1>1
    <2>2. ClockRadix * (q + 1) = t - r
      BY <1>1, <2>1
    <2>3. q + 1 < 1
      <3>1. SUFFICES ASSUME q + 1 >= 1 PROVE FALSE
        BY <2>1
      <3>2. ClockRadix * (q + 1) >= ClockRadix * 1
        BY <1>1, <2>1, <3>1
      <3>. QED
        BY <1>1, <2>1, <2>2, <3>2
    <2>4. q + 1 > -1
      <3>1. SUFFICES ASSUME q + 1 <= -1 PROVE FALSE
        BY <2>1
      <3>2. ClockRadix * (q + 1) <= ClockRadix * (-1)
        BY <1>1, <2>1, <3>1
      <3>. QED
        BY <1>1, <2>1, <2>2, <3>2
    <2>5. q + 1 = 0
      BY <2>1, <2>3, <2>4
    <2>6. t = r
      BY <1>1, <2>1, <2>2, <2>5
    <2>. QED
      BY <2>1, <2>6
  <1>. QED
    BY <1>2, <1>3, <1>4 DEF Elapsed

(* A byte of a request in progress leaves the clocks alone.                  *)
LEMMA ReceiveTiming ==
  ASSUME Timing, TypeOK, state # "SYNC", NEW b, Receive(b),
         startMs' = startMs, nowMs' = nowMs, sinceTick' = sinceTick
  PROVE  Timing' /\ age' \in Nat
  BY DEF Timing, TypeOK, Receive

-----------------------------------------------------------------------------
(* Requests.                                                                 *)

\* What AnswersEveryRequest says of one step
Answered ==
  (span' # span /\ IsRequest(span') /\ sendOk')
    => (reply' # <<>> /\ reply'[1].whole /\ reply'[1].command = span'[3])

(* The shortest requests are three bytes and six.                            *)
LEMMA TooShort ==
  ASSUME NEW s \in Seq(Byte), Len(s) \in {0, 1, 2, 4, 5} \/ (Len(s) = 3 /\ s[2] = 1)
  PROVE  ~IsRequest(s)
  <1>1. CASE Len(s) = 3 /\ s[2] = 1
    BY <1>1 DEF IsRequest, IsRead, IsWrite
  <1>2. CASE Len(s) \in {0, 1, 2, 4, 5}
    <2>2. \A k \in {0, 1, 2, 4, 5} : k # 3 /\ ~(k >= 6)
      OBVIOUS
    <2>1. Len(s) # 3 /\ ~(Len(s) >= 6)
      BY <1>2, <2>2
    <2>. QED
      BY <2>1 DEF IsRequest, IsRead, IsWrite
  <1>. QED
    BY <1>1, <1>2

(* The constants of the wire format are bytes.                               *)
LEMMA Constants ==
  /\ FRAME_SYNC \in Byte /\ 0 \in Byte /\ 1 \in Byte /\ Radix \in Nat \ {0}
  /\ MAX_PAYLOAD \in Nat /\ ClockRadix \in Nat /\ ClockRadix > 0
  /\ TIMEOUT_MS \in Nat /\ TickPeriod \in Nat /\ 0 \in 0..(Radix * Radix - 1)
  BY RadixAssumption, SyncAssumption, SizesAssumption, ClockAssumption DEF Byte

(* Runtime_init.                                                             *)
LEMMA InitInv == Init => Inv
  <1> SUFFICES ASSUME Init PROVE Inv
    OBVIOUS
  <1>1. TypeOK
    BY Constants DEF Init, TypeOK, States
  <1>2. Progress /\ HandlersSeeTheFrame /\ OneReplyPerRequest /\ Timing
    BY DEF Init, Progress, HandlersSeeTheFrame, OneReplyPerRequest, Timing
  <1>. QED
    BY <1>1, <1>2 DEF Inv

(* Scanning for SYNC.                                                        *)
LEMMA FeedSyncInv ==
  ASSUME Inv, NEW b \in Byte, FeedSync(b)
  PROVE  Inv' /\ Answered
  <1>1. /\ Silent /\ nowMs' = nowMs /\ sinceTick' = sinceTick /\ state = "SYNC" /\ TypeOK
        /\ frameType' = frameType /\ command' = command /\ payloadLength' = payloadLength
        /\ payloadIndex' = payloadIndex /\ payload' = payload /\ age = 0
        /\ \/ b = FRAME_SYNC /\ state' = "TYPE" /\ startMs' = nowMs /\ span' = <<b>> /\ age' = 0
           \/ state' = "SYNC" /\ startMs' = startMs /\ span' = <<>> /\ age' = age
    BY DEF Inv, Timing, FeedSync
  <1>2. <<b>> \in Seq(Byte) /\ Len(<<b>>) = 1 /\ <<>> \in Seq(Byte) /\ Len(<<>>) = 0
    OBVIOUS
  <1>3. span' \in Seq(Byte) /\ Len(span') \in {0, 1}
    BY <1>1, <1>2
  <1>4. TypeOK'
    BY <1>1, <1>3, SilentStep DEF TypeOK, States
  <1>5. Progress'
    BY <1>1 DEF Progress
  <1>6. Timing'
    <2>1. nowMs \in 0..ClockRadix-1 /\ sinceTick \in 0..TickPeriod /\ TIMEOUT_MS \in Nat
      BY <1>1, Constants DEF TypeOK
    <2>. QED
      BY <1>1, <2>1, Constants DEF Timing
  <1>7. Answered
    BY <1>3, TooShort DEF Answered
  <1>. QED
    BY <1>1, <1>4, <1>5, <1>6, <1>7, SilentStep DEF Inv

(* The type byte.                                                            *)
LEMMA FeedTypeInv ==
  ASSUME Inv, NEW b \in Byte, FeedType(b)
  PROVE  Inv' /\ Answered
  <1>1. /\ Silent /\ nowMs' = nowMs /\ sinceTick' = sinceTick /\ startMs' = startMs
        /\ frameType' = b /\ command' = command /\ payload' = payload
        /\ payloadLength' \in {payloadLength, 0} /\ payloadIndex' \in {payloadIndex, 0}
        /\ state' = (IF b \in {0, 1} THEN "COMMAND" ELSE "SYNC")
        /\ Receive(b) /\ span' = Append(<<FRAME_SYNC>>, b) /\ state # "SYNC"
        /\ TypeOK /\ Timing
    BY DEF Inv, Progress, FeedType, ResetParser, Receive
  <1>2. span' = <<FRAME_SYNC, b>> /\ span' \in Seq(Byte) /\ Len(span') = 2
    <2>1. /\ Append(<<FRAME_SYNC>>, b) = <<FRAME_SYNC, b>>
          /\ <<FRAME_SYNC, b>> \in Seq(Byte) /\ Len(<<FRAME_SYNC, b>>) = 2
      BY Constants, Tuples
    <2>. QED
      BY <1>1, <2>1
  <1>3. Timing' /\ age' \in Nat
    BY <1>1, ReceiveTiming
  <1>4. TypeOK'
    BY <1>1, <1>2, <1>3, SilentStep, Constants DEF TypeOK, States
  <1>5. Progress'
    BY <1>1, <1>2 DEF Progress
  <1>6. Answered
    BY <1>2, TooShort DEF Answered
  <1>. QED
    BY <1>1, <1>3, <1>4, <1>5, <1>6, SilentStep DEF Inv

(* The command byte, which completes and dispatches a read request.          *)
LEMMA FeedCommandInv ==
  ASSUME Inv, NEW b \in Byte, FeedCommand(b)
  PROVE  Inv' /\ Answered
  <1>1. /\ nowMs' = nowMs /\ sinceTick' = sinceTick /\ startMs' = startMs
        /\ frameType' = frameType /\ command' = b /\ payload' = payload
        /\ frameType \in {0, 1} /\ frameType \in Byte
        /\ Receive(b) /\ span' = Append(<<FRAME_SYNC, frameType>>, b) /\ state # "SYNC"
        /\ TypeOK /\ Timing
    BY DEF Inv, TypeOK, Progress, FeedCommand, Receive
  <1>2. span' = <<FRAME_SYNC, frameType, b>> /\ span' \in Seq(Byte) /\ Len(span') = 3
    <2>1. frameType \in Byte
      BY <1>1
    <2>. QED
      BY <1>1, <2>1, Constants, Triples
  <1>3. Timing' /\ age' \in Nat
    BY <1>1, ReceiveTiming
  <1>4. span'[2] = frameType /\ span'[3] = b
    BY <1>2
  <1>5. CASE frameType = 0
    <2>1. /\ Sends(DispatchRead(b)) /\ called' = <<>> /\ state' = "SYNC"
          /\ payloadLength' = 0 /\ payloadIndex' = 0
      BY <1>5 DEF FeedCommand, ResetParser
    <2>2. /\ sendOk' \in BOOLEAN
          /\ reply' = <<>> \/ (reply'[1] \in Reply /\ reply' = <<reply'[1]>>)
          /\ reply' # <<>> => reply'[1].command = b
          /\ sendOk' => reply' # <<>> /\ reply'[1].whole
      <3>1. \A o \in DispatchRead(b) : AnswerFor(b, o)
        BY DispatchAnswers
      <3>. QED
        BY <2>1, <3>1, SendsAnswer
    <2>3. TypeOK'
      BY <1>1, <1>2, <1>3, <2>1, <2>2, Constants DEF TypeOK, States
    <2>4. Progress' /\ HandlersSeeTheFrame'
      BY <2>1 DEF Progress, HandlersSeeTheFrame
    <2>5. IsRequest(span')
      BY <1>2, <1>4, <1>5 DEF IsRequest, IsRead
    <2>6. OneReplyPerRequest' /\ Answered
      BY <1>4, <2>2, <2>5 DEF OneReplyPerRequest, Answered
    <2>. QED
      BY <1>3, <2>3, <2>4, <2>6 DEF Inv
  <1>6. CASE frameType = 1
    <2>1. /\ Silent /\ state' = "LENGTH_LO"
          /\ payloadLength' = payloadLength /\ payloadIndex' = payloadIndex
      BY <1>6 DEF FeedCommand
    <2>2. TypeOK'
      BY <1>1, <1>2, <1>3, <2>1, SilentStep DEF TypeOK, States
    <2>3. Progress'
      BY <1>1, <1>2, <1>6, <2>1 DEF Progress
    <2>4. Answered
      BY <1>2, <1>4, <1>6, TooShort DEF Answered
    <2>. QED
      BY <1>3, <2>1, <2>2, <2>3, <2>4, SilentStep DEF Inv
  <1>. QED
    BY <1>1, <1>5, <1>6

(* The low byte of the length.                                               *)
LEMMA FeedLengthLoInv ==
  ASSUME Inv, NEW b \in Byte, FeedLengthLo(b)
  PROVE  Inv' /\ Answered
  <1>1. /\ Silent /\ nowMs' = nowMs /\ sinceTick' = sinceTick /\ startMs' = startMs
        /\ frameType' = frameType /\ command' = command /\ payload' = payload
        /\ payloadLength' = b /\ payloadIndex' = payloadIndex /\ state' = "LENGTH_HI"
        /\ Receive(b) /\ span' = Append(<<FRAME_SYNC, 1, command>>, b) /\ state # "SYNC"
        /\ TypeOK /\ Timing
    BY DEF Inv, Progress, FeedLengthLo, Receive
  <1>2. span' = <<FRAME_SYNC, 1, command, b>> /\ span' \in Seq(Byte) /\ Len(span') = 4
    <2>1. command \in Byte
      BY <1>1 DEF TypeOK
    <2>. QED
      BY <1>1, <2>1, Constants, Quads
  <1>3. Timing' /\ age' \in Nat
    BY <1>1, ReceiveTiming
  <1>4. b \in 0..(Radix * Radix - 1)
    <2>1. b \in 0..Radix-1 /\ 0 \in 0..Radix-1 /\ b + 0 * Radix = b
      BY RadixAssumption DEF Byte
    <2>2. b + 0 * Radix \in 0..(Radix * Radix - 1)
      BY <2>1, Constants, TwoBytes
    <2>. QED
      BY <2>1, <2>2
  <1>5. TypeOK'
    BY <1>1, <1>2, <1>3, <1>4, SilentStep DEF TypeOK, States
  <1>6. Progress'
    BY <1>1, <1>2 DEF Progress
  <1>7. Answered
    BY <1>2, TooShort DEF Answered
  <1>. QED
    BY <1>1, <1>3, <1>5, <1>6, <1>7, SilentStep DEF Inv

(* The payload bytes received so far, and the header in front of them.       *)
LEMMA ReceivedType ==
  ASSUME TypeOK
  PROVE  /\ Received \in Seq(Byte) /\ Len(Received) = payloadIndex
         /\ Header \in Seq(Byte) /\ Len(Header) = 5
         /\ Header[2] = 1 /\ Header[3] = command
         /\ Header[4] = payloadLength % Radix /\ Header[5] = payloadLength \div Radix
  <1>1. /\ payloadIndex \in 0..MAX_PAYLOAD /\ payload \in [0..MAX_PAYLOAD-1 -> Byte]
        /\ MAX_PAYLOAD \in Nat /\ command \in Byte /\ payloadLength \in 0..(Radix * Radix - 1)
    BY Constants DEF TypeOK
  <1>2. \A i \in 1..payloadIndex : i - 1 \in 0..MAX_PAYLOAD-1
    BY <1>1
  <1>3. \A i \in 1..payloadIndex : payload[i - 1] \in Byte
    BY <1>1, <1>2
  <1>4. Received \in [1..payloadIndex -> Byte]
    BY <1>3 DEF Received
  <1>5. Received \in Seq(Byte) /\ Len(Received) = payloadIndex
    BY <1>1, <1>4
  <1>6. payloadLength % Radix \in Byte /\ payloadLength \div Radix \in Byte
    BY <1>1, Constants, BytesOf DEF Byte
  <1>7. Header \in Seq(Byte) /\ Len(Header) = 5
    <2>1. command \in Byte
      BY <1>1
    <2>. QED
      BY <1>6, <2>1, Constants, Quints DEF Header
  <1>8. /\ Header[2] = 1 /\ Header[3] = command
        /\ Header[4] = payloadLength % Radix /\ Header[5] = payloadLength \div Radix
    BY DEF Header
  <1>. QED
    BY <1>5, <1>7, <1>8

(* The bytes of a write request with its payload under way, and one more.    *)
LEMMA PayloadSoFar ==
  ASSUME Inv, state \in {"DATA", "CRC"}, NEW b \in Byte
  PROVE  /\ Append(span, b) = Header \o Append(Received, b)
         /\ Append(span, b) = (Header \o Received) \o <<b>>
         /\ Append(span, b) \in Seq(Byte)
         /\ Len(Append(span, b)) = payloadIndex + 6
         /\ Append(span, b)[2] = 1 /\ Append(span, b)[3] = command
         /\ AnnouncedLength(Append(span, b)) = payloadLength
  <1>1. /\ span = Header \o Received /\ payloadIndex \in Nat /\ payloadLength \in Nat
        /\ TypeOK
    <2>1. /\ span = Header \o Received /\ payloadIndex \in 0..MAX_PAYLOAD
          /\ payloadLength \in 0..(Radix * Radix - 1) /\ TypeOK
      BY DEF Inv, Progress, TypeOK
    <2>. QED
      BY <2>1
  <1>2. /\ Received \in Seq(Byte) /\ Len(Received) = payloadIndex
        /\ Header \in Seq(Byte) /\ Len(Header) = 5
        /\ Header[2] = 1 /\ Header[3] = command
        /\ Header[4] = payloadLength % Radix /\ Header[5] = payloadLength \div Radix
    BY <1>1, ReceivedType
  <1>3. /\ Append(span, b) = Header \o Append(Received, b)
        /\ Append(span, b) = (Header \o Received) \o <<b>>
        /\ Append(Received, b) \in Seq(Byte)
        /\ Len(Append(Received, b)) = payloadIndex + 1
    <2>1. Received \in Seq(Byte) /\ Header \in Seq(Byte) /\ b \in Byte
      BY <1>2
    <2>2. Append(Header \o Received, b) = Header \o Append(Received, b)
      BY <2>1, AppendConcat
    <2>3. Append(Header \o Received, b) = (Header \o Received) \o <<b>>
      BY <2>1, AppendConcat
    <2>4. Append(Received, b) \in Seq(Byte) /\ Len(Append(Received, b)) = Len(Received) + 1
      BY <2>1, AppendConcat
    <2>. QED
      BY <1>1, <1>2, <2>2, <2>3, <2>4
  <1>4. Append(span, b) \in Seq(Byte) /\ Len(Append(span, b)) = payloadIndex + 6
    <2> DEFINE r == Append(Received, b)
    <2>1. r \in Seq(Byte) /\ Header \in Seq(Byte)
      BY <1>2, <1>3
    <2>2. Len(Header) = 5 /\ payloadIndex \in Nat /\ Len(r) = payloadIndex + 1
          /\ Append(span, b) = Header \o r
      BY <1>1, <1>2, <1>3
    <2> HIDE DEF r
    <2>3. Header \o r \in Seq(Byte) /\ Len(Header \o r) = Len(Header) + Len(r)
      BY <2>1
    <2>. QED
      BY <2>2, <2>3
  <1>5. \A i \in 1..5 : Append(span, b)[i] = Header[i]
    <2> DEFINE r == Append(Received, b)
    <2>1. r \in Seq(Byte) /\ Header \in Seq(Byte)
      BY <1>2, <1>3
    <2>2. Len(Header) = 5 /\ Append(span, b) = Header \o r
      BY <1>2, <1>3
    <2> HIDE DEF r
    <2>3. \A i \in 1..Len(Header) : (Header \o r)[i] = Header[i]
      BY <2>1
    <2>. QED
      BY <2>2, <2>3
  <1>6. payloadLength = (payloadLength % Radix) + (payloadLength \div Radix) * Radix
    BY <1>1, Constants
  <1>. QED
    BY <1>2, <1>3, <1>4, <1>5, <1>6 DEF AnnouncedLength

(* The high byte of the length, which starts the payload or, for a length    *)
(* over the limit, abandons the request without an answer.                   *)
LEMMA FeedLengthHiInv ==
  ASSUME Inv, NEW b \in Byte, FeedLengthHi(b)
  PROVE  Inv' /\ Answered
  <1> DEFINE length == payloadLength + b * Radix
  <1>1. /\ Silent /\ nowMs' = nowMs /\ sinceTick' = sinceTick /\ startMs' = startMs
        /\ frameType' = frameType /\ command' = command /\ payload' = payload
        /\ Receive(b) /\ span' = Append(<<FRAME_SYNC, 1, command, payloadLength>>, b)
        /\ state # "SYNC" /\ payloadLength \in Byte /\ command \in Byte /\ payloadIndex' = 0
        /\ TypeOK /\ Timing
    BY DEF Inv, TypeOK, Progress, FeedLengthHi, Receive, ResetParser
  <1>2. \/ state' = "SYNC" /\ payloadLength' = 0
        \/ /\ payloadLength' = length /\ ~(length > MAX_PAYLOAD)
           /\ state' = IF length = 0 THEN "CRC" ELSE "DATA"
    BY DEF FeedLengthHi, ResetParser
  <1>3. length % Radix = payloadLength /\ length \div Radix = b
        /\ length \in 0..(Radix * Radix - 1)
    BY <1>1, Constants, TwoBytes DEF Byte
  <1> HIDE DEF length
  <1>4. /\ span' = <<FRAME_SYNC, 1, command, payloadLength, b>> /\ span' \in Seq(Byte)
        /\ Len(span') = 5
    <2>1. command \in Byte /\ payloadLength \in Byte
      BY <1>1
    <2>2. /\ Append(<<FRAME_SYNC, 1, command, payloadLength>>, b)
             = <<FRAME_SYNC, 1, command, payloadLength, b>>
          /\ <<FRAME_SYNC, 1, command, payloadLength, b>> \in Seq(Byte)
          /\ Len(<<FRAME_SYNC, 1, command, payloadLength, b>>) = 5
      BY <2>1, Constants, Quints
    <2>. QED
      BY <1>1, <2>2
  <1>5. Timing' /\ age' \in Nat
    BY <1>1, ReceiveTiming
  <1>6. payloadLength' \in 0..(Radix * Radix - 1) /\ state' \in States
    BY <1>2, <1>3, Constants DEF States
  <1>7. TypeOK'
    BY <1>1, <1>4, <1>5, <1>6, SilentStep, Constants DEF TypeOK
  <1>8. Progress'
    <2>1. CASE state' = "SYNC"
      BY <2>1 DEF Progress
    <2>2. CASE /\ payloadLength' = length /\ ~(length > MAX_PAYLOAD)
               /\ state' = IF length = 0 THEN "CRC" ELSE "DATA"
      <3>1. Header' = <<FRAME_SYNC, 1, command, payloadLength, b>>
        BY <1>1, <1>3, <2>2 DEF Header
      <3>2. Received' = <<>>
        <4>1. Received' \in Seq(Byte) /\ Len(Received') = 0
          <5>1. TypeOK'
            BY <1>7
          <5>2. (Received \in Seq(Byte) /\ Len(Received) = payloadIndex)'
            BY <5>1, ReceivedType, PTL
          <5>. QED
            BY <1>1, <5>2
        <4>. QED
          BY <4>1
      <3>3. span' = Header' \o Received'
        BY <1>4, <3>1, <3>2, ConcatAssoc
      <3>4. length \in Nat /\ MAX_PAYLOAD \in Nat
        BY <1>3, Constants
      <3>5. /\ payloadLength' <= MAX_PAYLOAD /\ state' \in {"DATA", "CRC"}
            /\ state' = "DATA" => payloadIndex' < payloadLength'
            /\ state' = "CRC" => payloadIndex' = payloadLength'
        BY <1>1, <2>2, <3>4
      <3>. QED
        BY <3>3, <3>5 DEF Progress
    <2>. QED
      BY <1>2, <2>1, <2>2
  <1>9. Answered
    BY <1>4, TooShort DEF Answered
  <1>. QED
    BY <1>1, <1>5, <1>7, <1>8, <1>9, SilentStep DEF Inv

(* A payload byte goes to the next free place of the payload array, never    *)
(* past its end.                                                             *)
LEMMA FeedDataInv ==
  ASSUME Inv, NEW b \in Byte, FeedData(b)
  PROVE  Inv' /\ Answered
  <1>1. /\ Silent /\ nowMs' = nowMs /\ sinceTick' = sinceTick /\ startMs' = startMs
        /\ frameType' = frameType /\ command' = command
        /\ Receive(b) /\ span' = Append(span, b) /\ state = "DATA"
        /\ payloadIndex < payloadLength /\ payloadLength <= MAX_PAYLOAD
        /\ payloadLength \in 0..(Radix * Radix - 1) /\ payloadIndex \in 0..MAX_PAYLOAD
        /\ payload \in [0..MAX_PAYLOAD-1 -> Byte] /\ TypeOK /\ Timing
    BY DEF Inv, TypeOK, Progress, FeedData, Receive
  <1>2. payloadLength \in Nat /\ payloadIndex \in Nat /\ MAX_PAYLOAD \in Nat
    BY <1>1, Constants
  <1>3. payloadIndex < MAX_PAYLOAD
    BY <1>1, <1>2
  <1>4. /\ payload' = [payload EXCEPT ![payloadIndex] = b] /\ payloadIndex' = payloadIndex + 1
        /\ state' = (IF payloadIndex + 1 >= payloadLength THEN "CRC" ELSE "DATA")
        /\ payloadLength' = payloadLength
    BY <1>3 DEF FeedData
  <1>5. /\ span' = Header \o Append(Received, b) /\ span' \in Seq(Byte)
        /\ Len(span') = payloadIndex + 6 /\ span'[2] = 1
        /\ AnnouncedLength(span') = payloadLength
    BY <1>1, PayloadSoFar
  <1>6. Timing' /\ age' \in Nat
    BY <1>1, ReceiveTiming
  <1>7. payload' \in [0..MAX_PAYLOAD-1 -> Byte] /\ payloadIndex' \in 0..MAX_PAYLOAD
        /\ state' \in {"DATA", "CRC"}
    BY <1>1, <1>2, <1>3, <1>4
  <1>8. TypeOK'
    BY <1>1, <1>4, <1>5, <1>6, <1>7, SilentStep DEF TypeOK, States
  <1>9. Received' = Append(Received, b)
    <2>1. Received \in Seq(Byte) /\ Len(Received) = payloadIndex
      BY <1>1, ReceivedType
    <2>2. Received' \in Seq(Byte) /\ Len(Received') = payloadIndex + 1
      <3>1. (Received \in Seq(Byte) /\ Len(Received) = payloadIndex)'
        BY <1>8, ReceivedType, PTL
      <3>. QED
        BY <1>4, <3>1
    <2>3. /\ Append(Received, b) \in Seq(Byte) /\ Len(Append(Received, b)) = payloadIndex + 1
          /\ \A i \in 1..payloadIndex : Append(Received, b)[i] = Received[i]
          /\ Append(Received, b)[payloadIndex + 1] = b
      BY <1>2, <2>1
    <2>4. ASSUME NEW i \in 1..payloadIndex + 1
          PROVE  Received'[i] = Append(Received, b)[i]
      <3>1. Received'[i] = payload'[i - 1]
        BY <1>4 DEF Received
      <3>2. CASE i = payloadIndex + 1
        <4>1. i - 1 = payloadIndex /\ payloadIndex \in 0..MAX_PAYLOAD-1
          BY <1>2, <1>3, <3>2
        <4>. QED
          BY <1>1, <1>4, <2>3, <3>1, <3>2, <4>1
      <3>3. CASE i # payloadIndex + 1
        <4>1. i \in 1..payloadIndex /\ i - 1 \in 0..MAX_PAYLOAD-1 /\ i - 1 # payloadIndex
          BY <1>2, <1>3, <3>3
        <4>2. payload'[i - 1] = payload[i - 1]
          BY <1>1, <1>4, <4>1
        <4>3. Received[i] = payload[i - 1]
          BY <4>1 DEF Received
        <4>. QED
          BY <2>3, <3>1, <4>1, <4>2, <4>3
      <3>. QED
        BY <3>2, <3>3
    <2>5. Len(Received') = Len(Append(Received, b))
          /\ \A i \in 1..Len(Received') : Received'[i] = Append(Received, b)[i]
      BY <2>2, <2>3, <2>4
    <2>. QED
      BY <2>2, <2>3, <2>5, SeqEq
  <1>10. Header' = Header
    BY <1>1, <1>4 DEF Header
  <1>11. Progress'
    <2>1. /\ span' = Header' \o Received'
          /\ payloadLength' <= MAX_PAYLOAD
      BY <1>1, <1>4, <1>5, <1>9, <1>10
    <2>2. /\ state' = "DATA" => payloadIndex' < payloadLength'
          /\ state' = "CRC" => payloadIndex' = payloadLength'
      BY <1>1, <1>2, <1>4
    <2>. QED
      BY <1>7, <2>1, <2>2 DEF Progress
  <1>12. Answered
    <2>1. Len(span') # AnnouncedLength(span') + 6
      BY <1>1, <1>2, <1>5
    <2>2. ~IsRequest(span')
      BY <1>5, <2>1 DEF IsRequest, IsRead, IsWrite
    <2>. QED
      BY <2>2 DEF Answered
  <1>. QED
    BY <1>1, <1>6, <1>8, <1>11, <1>12, SilentStep DEF Inv

(* The checksum byte completes a write request: it is dispatched, or a       *)
(* damaged one is refused; either way the request is answered.               *)
LEMMA FeedCrcInv ==
  ASSUME Inv, NEW b \in Byte, FeedCrc(b)
  PROVE  Inv' /\ Answered
  <1>1. /\ nowMs' = nowMs /\ sinceTick' = sinceTick /\ startMs' = startMs
        /\ frameType' = frameType /\ command' = command /\ payload' = payload
        /\ payloadLength' = 0 /\ payloadIndex' = 0 /\ state' = "SYNC"
        /\ Receive(b) /\ span' = Append(span, b) /\ state = "CRC"
        /\ payloadIndex = payloadLength /\ payloadLength <= MAX_PAYLOAD
        /\ payloadIndex \in 0..MAX_PAYLOAD /\ command \in Byte /\ TypeOK /\ Timing
    BY DEF Inv, TypeOK, Progress, FeedCrc, Receive, ResetParser
  <1>2. payloadLength \in Nat /\ MAX_PAYLOAD \in Nat
    BY <1>1, Constants
  <1>3. /\ span' = (Header \o Received) \o <<b>> /\ span' \in Seq(Byte)
        /\ Len(span') = payloadIndex + 6 /\ span'[2] = 1 /\ span'[3] = command
        /\ AnnouncedLength(span') = payloadLength
    BY <1>1, PayloadSoFar
  <1>4. Timing' /\ age' \in Nat
    BY <1>1, ReceiveTiming
  <1>5. IsRequest(span')
    BY <1>1, <1>2, <1>3 DEF IsRequest, IsWrite
  <1>6. Payload = Received /\ Payload \in Seq(Byte) /\ Len(Payload) = payloadLength
    <2>1. Payload = Received
      BY <1>1 DEF Payload, Received
    <2>. QED
      BY <1>1, <2>1, ReceivedType
  <1>7. \/ /\ b = crc8(Payload) /\ command \in DOMAIN Writes /\ Sends(Disposition(command))
           /\ called' = <<[command |-> command, payload |-> Payload,
                           decoded |-> Decodes(Writes[command], Len(Payload))]>>
        \/ Sends(SendNack(command)) /\ called' = <<>>
    BY DEF FeedCrc, DispatchWrite
  <1>8. /\ sendOk' \in BOOLEAN
        /\ reply' = <<>> \/ (reply'[1] \in Reply /\ reply' = <<reply'[1]>>)
        /\ reply' # <<>> => reply'[1].command = command
        /\ sendOk' => reply' # <<>> /\ reply'[1].whole
    <2>1. /\ \A o \in SendNack(command) : AnswerFor(command, o)
          /\ \A o \in Disposition(command) : AnswerFor(command, o)
      BY <1>1, DispatchAnswers
    <2>2. Sends(SendNack(command)) \/ Sends(Disposition(command))
      BY <1>7
    <2>. QED
      BY <2>1, <2>2, SendsAnswer
  <1>9. /\ called' = <<>> \/ (called'[1] \in Call /\ called' = <<called'[1]>>)
        /\ HandlersSeeTheFrame'
    <2>1. CASE called' = <<>>
      BY <2>1 DEF HandlersSeeTheFrame
    <2>2. CASE called' # <<>>
      <3> DEFINE k == [command |-> command, payload |-> Payload,
                       decoded |-> Decodes(Writes[command], Len(Payload))]
      <3>1. called' = <<k>> /\ b = crc8(Payload)
        BY <1>7, <2>2
      <3>2. k.command = command /\ k.payload = Payload
            /\ k.decoded = Decodes(Writes[command], Len(Payload))
        OBVIOUS
      <3>3. k \in Call
        <4>1. Decodes(Writes[command], Len(Payload)) \in BOOLEAN
          BY DEF Decodes
        <4>. QED
          BY <1>1, <1>6, <4>1 DEF Call
      <3> HIDE DEF k
      <3>4. called'[1] = k
        BY <3>1
      <3>5. span' = WriteBytes(k.command, k.payload)
        BY <1>3, <1>6, <3>1, <3>2 DEF WriteBytes, Header
      <3>6. k.decoded => Len(k.payload) = Writes[k.command].size
        BY <3>2 DEF Decodes
      <3>. QED
        BY <3>1, <3>3, <3>4, <3>5, <3>6 DEF HandlersSeeTheFrame
    <2>. QED
      BY <2>1, <2>2
  <1>10. TypeOK'
    BY <1>1, <1>3, <1>4, <1>8, <1>9, Constants DEF TypeOK, States
  <1>11. Progress'
    BY <1>1 DEF Progress
  <1>12. OneReplyPerRequest' /\ Answered
    BY <1>3, <1>5, <1>8 DEF OneReplyPerRequest, Answered
  <1>. QED
    BY <1>4, <1>9, <1>10, <1>11, <1>12 DEF Inv

(* Runtime_tick drops exactly the requests older than TIMEOUT_MS.            *)
LEMMA RuntimeTickInv == Inv /\ RuntimeTick => Inv' /\ Answered
  <1> SUFFICES ASSUME Inv, RuntimeTick PROVE Inv' /\ Answered
    OBVIOUS
  <1>1. /\ Silent /\ sinceTick' = 0 /\ startMs' = startMs /\ frameType' = frameType
        /\ command' = command /\ payload' = payload /\ nowMs' = nowMs /\ TypeOK /\ Timing
    BY DEF RuntimeTick, Inv
  <1>2. <<>> \in Seq(Byte) /\ Len(<<>>) = 0
    OBVIOUS
  <1>3. CASE state # "SYNC" /\ Elapsed(nowMs, startMs) > TIMEOUT_MS
    <2>1. /\ state' = "SYNC" /\ payloadLength' = 0 /\ payloadIndex' = 0
          /\ span' = <<>> /\ age' = 0
      BY <1>3 DEF RuntimeTick, ResetParser
    <2>2. TypeOK'
      BY <1>1, <1>2, <2>1, SilentStep, Constants DEF TypeOK, States
    <2>3. Progress' /\ Timing'
      BY <2>1 DEF Progress, Timing
    <2>4. Answered
      <3>1. ~IsRequest(<<>>)
        BY <1>2, TooShort
      <3>. QED
        BY <2>1, <3>1 DEF Answered
    <2>. QED
      BY <1>1, <2>2, <2>3, <2>4, SilentStep DEF Inv
  <1>4. CASE ~(state # "SYNC" /\ Elapsed(nowMs, startMs) > TIMEOUT_MS)
    <2>1. /\ state' = state /\ payloadLength' = payloadLength /\ payloadIndex' = payloadIndex
          /\ span' = span /\ age' = age
      BY <1>4 DEF RuntimeTick
    <2>2. TypeOK'
      BY <1>1, <2>1, SilentStep, Constants DEF TypeOK
    <2>3. Progress'
      BY <1>1, <2>1 DEF Progress, Inv, Header, Received
    <2>4. Timing'
      <3>1. CASE state = "SYNC"
        BY <1>1, <2>1, <3>1 DEF Timing
      <3>2. CASE state # "SYNC"
        <4>1. /\ startMs \in 0..ClockRadix-1 /\ nowMs \in 0..ClockRadix-1 /\ age \in Nat
              /\ sinceTick \in 0..TickPeriod
              /\ nowMs = startMs + age \/ nowMs = startMs + age - ClockRadix
              /\ age <= TIMEOUT_MS + sinceTick
          BY <1>1, <3>2 DEF TypeOK, Timing
        <4>2. age < ClockRadix
          BY <4>1, ClockAssumption
        <4>3. Elapsed(nowMs, startMs) = age
          BY <4>1, <4>2, ElapsedIsAge
        <4>4. age <= TIMEOUT_MS
          BY <1>4, <3>2, <4>1, <4>3, Constants
        <4>. QED
          BY <1>1, <2>1, <4>1, <4>4, Constants DEF Timing
      <3>. QED
        BY <3>1, <3>2
    <2>5. Answered
      BY <2>1 DEF Answered
    <2>. QED
      BY <1>1, <2>2, <2>3, <2>4, <2>5, SilentStep DEF Inv
  <1>. QED
    BY <1>3, <1>4

(* A notification may go out at any time and answers nothing.                *)
LEMMA NotifyInv == Inv /\ Notify => Inv' /\ Answered
  <1> SUFFICES ASSUME Inv, Notify PROVE Inv' /\ Answered
    OBVIOUS
  <1>1. /\ called' = <<>> /\ span' = (IF state = "SYNC" THEN <<>> ELSE span)
        /\ state' = state /\ startMs' = startMs /\ frameType' = frameType
        /\ command' = command /\ payloadLength' = payloadLength
        /\ payloadIndex' = payloadIndex /\ payload' = payload /\ nowMs' = nowMs
        /\ age' = age /\ sinceTick' = sinceTick /\ TypeOK
    BY DEF Notify, parserVars, Inv
  <1>2. PICK o \in SendFrame("Notification", 0, 0) \cup {Sent(<<>>, TRUE)} :
          reply' = o.reply /\ sendOk' = o.ok
    BY DEF Notify, Sends
  <1>3. /\ sendOk' \in BOOLEAN
        /\ \/ reply' = <<>>
           \/ /\ reply'[1] \in Reply /\ reply' = <<reply'[1]>>
              /\ reply'[1].kind = "Notification"
    <2> DEFINE frame(whole) == <<[kind |-> "Notification", command |-> 0, whole |-> whole]>>
    <2>1. \/ o = Sent(<<>>, FALSE) \/ o = Sent(<<>>, TRUE)
          \/ o = Sent(frame(TRUE), TRUE) \/ o = Sent(frame(FALSE), FALSE)
      BY DEF SendFrame
    <2>2. ASSUME NEW w \in BOOLEAN
          PROVE  /\ frame(w)[1] \in Reply /\ frame(w) = <<frame(w)[1]>>
                 /\ frame(w)[1].kind = "Notification"
      BY Constants DEF Reply
    <2>3. CASE o = Sent(<<>>, FALSE) \/ o = Sent(<<>>, TRUE)
      <3>1. o.reply = <<>> /\ o.ok \in BOOLEAN
        <4>1. CASE o = Sent(<<>>, FALSE)
          BY <4>1 DEF Sent
        <4>2. CASE o = Sent(<<>>, TRUE)
          BY <4>2 DEF Sent
        <4>. QED
          BY <2>3, <4>1, <4>2
      <3>. QED
        BY <1>2, <3>1
    <2>4. CASE o = Sent(frame(TRUE), TRUE)
      <3>1. o.reply = frame(TRUE) /\ o.ok = TRUE
        BY <2>4 DEF Sent
      <3> HIDE DEF frame
      <3>. QED
        BY <1>2, <2>2, <3>1
    <2>5. CASE o = Sent(frame(FALSE), FALSE)
      <3>1. o.reply = frame(FALSE) /\ o.ok = FALSE
        BY <2>5 DEF Sent
      <3> HIDE DEF frame
      <3>. QED
        BY <1>2, <2>2, <3>1
    <2>. QED
      BY <2>1, <2>3, <2>4, <2>5
  <1>4. span' \in Seq(Byte)
    BY <1>1 DEF TypeOK
  <1>5. TypeOK'
    BY <1>1, <1>3, <1>4 DEF TypeOK
  <1>6. Progress'
    BY <1>1 DEF Inv, Progress, Header, Received
  <1>7. Timing'
    BY <1>1 DEF Inv, Timing
  <1>8. HandlersSeeTheFrame' /\ OneReplyPerRequest'
    BY <1>1, <1>3 DEF HandlersSeeTheFrame, OneReplyPerRequest
  <1>9. Answered
    <2>1. ~IsRequest(<<>>)
      <3>1. <<>> \in Seq(Byte) /\ Len(<<>>) = 0
        OBVIOUS
      <3>. QED
        BY <3>1, TooShort
    <2>. QED
      BY <1>1, <2>1 DEF Answered
  <1>. QED
    BY <1>5, <1>6, <1>7, <1>8, <1>9 DEF Inv

(* The clock advances and may wrap around.                                   *)
LEMMA ClockInv == Inv /\ Clock => Inv' /\ Answered
  <1> SUFFICES ASSUME Inv, Clock PROVE Inv' /\ Answered
    OBVIOUS
  <1>1. /\ Silent /\ span' = (IF state = "SYNC" THEN <<>> ELSE span)
        /\ state' = state /\ startMs' = startMs /\ frameType' = frameType
        /\ command' = command /\ payloadLength' = payloadLength
        /\ payloadIndex' = payloadIndex /\ payload' = payload
        /\ nowMs' = (nowMs + 1) % ClockRadix /\ sinceTick < TickPeriod
        /\ sinceTick' = sinceTick + 1 /\ age' = (IF state = "SYNC" THEN age ELSE age + 1)
        /\ TypeOK /\ Timing
    BY DEF Clock, parserVars, Inv
  <1>2. /\ nowMs \in 0..ClockRadix-1 /\ age \in Nat /\ sinceTick \in 0..TickPeriod
        /\ span \in Seq(Byte) /\ startMs \in 0..ClockRadix-1
    BY <1>1 DEF TypeOK
  <1>3. /\ nowMs' \in 0..ClockRadix-1
        /\ nowMs' = nowMs + 1 \/ (nowMs = ClockRadix - 1 /\ nowMs' = 0)
    <2>1. CASE nowMs + 1 < ClockRadix
      <3>1. (nowMs + 1) % ClockRadix = nowMs + 1
        BY <1>2, <2>1, Constants
      <3>. QED
        BY <1>1, <1>2, <2>1, <3>1, Constants
    <2>2. CASE ~(nowMs + 1 < ClockRadix)
      <3>1. nowMs + 1 = ClockRadix
        BY <1>2, <2>2, Constants
      <3>2. ClockRadix % ClockRadix = 0
        BY Constants
      <3>. QED
        BY <1>1, <1>2, <3>1, <3>2, Constants
    <2>. QED
      BY <2>1, <2>2
  <1>4. age' \in Nat /\ sinceTick' \in 0..TickPeriod /\ span' \in Seq(Byte)
    BY <1>1, <1>2, Constants
  <1>5. TypeOK'
    BY <1>1, <1>3, <1>4, SilentStep DEF TypeOK
  <1>6. Progress'
    BY <1>1 DEF Inv, Progress, Header, Received
  <1>7. Timing'
    <2>1. CASE state = "SYNC"
      BY <1>1, <2>1 DEF Timing
    <2>2. CASE state # "SYNC"
      <3>1. /\ age <= TIMEOUT_MS + sinceTick
            /\ nowMs = startMs + age \/ nowMs = startMs + age - ClockRadix
        BY <1>1, <2>2 DEF Timing
      <3>2. age' = age + 1 /\ age + 1 <= TIMEOUT_MS + sinceTick + 1
        BY <1>1, <1>2, <2>2, <3>1, Constants
      <3>3. age + 1 < ClockRadix
        BY <1>1, <1>2, <3>1, ClockAssumption
      <3>4. nowMs' = startMs + (age + 1) \/ nowMs' = startMs + (age + 1) - ClockRadix
        BY <1>2, <1>3, <3>1, <3>3, Constants
      <3>. QED
        BY <1>1, <1>2, <2>2, <3>2, <3>4, Constants DEF Timing
    <2>. QED
      BY <2>1, <2>2
  <1>8. Answered
    <2>1. ~IsRequest(<<>>)
      <3>1. <<>> \in Seq(Byte) /\ Len(<<>>) = 0
        OBVIOUS
      <3>. QED
        BY <3>1, TooShort
    <2>. QED
      BY <1>1, <2>1 DEF Answered
  <1>. QED
    BY <1>1, <1>5, <1>6, <1>7, <1>8, SilentStep DEF Inv

(* The device restarts in the middle of anything.                            *)
LEMMA RestartInv == Inv /\ Restart => Inv' /\ Answered
  <1> SUFFICES ASSUME Inv, Restart PROVE Inv' /\ Answered
    OBVIOUS
  <1>1. Silent
    BY DEF Restart
  <1>2. TypeOK'
    BY <1>1, SilentStep, Constants DEF Restart, TypeOK, States
  <1>3. Progress' /\ Timing'
    BY DEF Restart, Progress, Timing
  <1>4. Answered
    <2>1. ~IsRequest(<<>>)
      <3>1. <<>> \in Seq(Byte) /\ Len(<<>>) = 0
        OBVIOUS
      <3>. QED
        BY <3>1, TooShort
    <2>. QED
      BY <2>1 DEF Answered, Restart
  <1>. QED
    BY <1>1, <1>2, <1>3, <1>4, SilentStep DEF Inv

(* Every step preserves the invariant and answers what it must.              *)
LEMMA NextInv == Inv /\ [Next]_vars => Inv' /\ Answered
  <1> SUFFICES ASSUME Inv, [Next]_vars PROVE Inv' /\ Answered
    OBVIOUS
  <1>1. CASE UNCHANGED vars
    <2>1. Inv'
      <3>1. /\ state' = state /\ startMs' = startMs /\ frameType' = frameType
            /\ command' = command /\ payloadLength' = payloadLength
            /\ payloadIndex' = payloadIndex /\ payload' = payload /\ nowMs' = nowMs
            /\ reply' = reply /\ sendOk' = sendOk /\ called' = called /\ span' = span
            /\ age' = age /\ sinceTick' = sinceTick
        BY <1>1 DEF vars, parserVars
      <3>2. TypeOK' /\ Timing'
        BY <3>1 DEF Inv, TypeOK, Timing
      <3>3. Progress'
        BY <3>1 DEF Inv, Progress, Header, Received
      <3>4. HandlersSeeTheFrame' /\ OneReplyPerRequest'
        BY <3>1 DEF Inv, HandlersSeeTheFrame, OneReplyPerRequest, IsRequest, IsRead, IsWrite,
           AnnouncedLength
      <3>. QED
        BY <3>2, <3>3, <3>4 DEF Inv
    <2>2. Answered
      BY <1>1 DEF vars, Answered
    <2>. QED
      BY <2>1, <2>2
  <1>2. ASSUME NEW b \in Byte, FeedByte(b) PROVE Inv' /\ Answered
    BY <1>2, FeedSyncInv, FeedTypeInv, FeedCommandInv, FeedLengthLoInv, FeedLengthHiInv,
       FeedDataInv, FeedCrcInv DEF FeedByte
  <1>3. CASE RuntimeTick \/ Notify \/ Clock \/ Restart
    BY <1>3, RuntimeTickInv, NotifyInv, ClockInv, RestartInv
  <1>. QED
    BY <1>1, <1>2, <1>3 DEF Next

(* The invariant holds throughout.                                           *)
THEOREM Consistency == Spec => []Inv
  <1>1. Inv /\ [Next]_vars => Inv'
    BY NextInv
  <1>. QED
    BY <1>1, InitInv, PTL DEF Spec

-----------------------------------------------------------------------------
(* The runtime's fields keep their ranges: no byte stream moves payloadIndex *)
(* past the payload array or the length past its two bytes.                  *)
THEOREM TypeCorrect == Spec => []TypeOK
  <1>1. Inv => TypeOK
    BY DEF Inv
  <1>. QED
    BY <1>1, Consistency, PTL

(* A handler is only called on the byte that completes a well-formed write   *)
(* request, with exactly that request's payload, and a struct decoder only   *)
(* sees a payload of its wire size (dispatchWrite).                          *)
THEOREM HandlersSeeOnlyTheFrame == Spec => []HandlersSeeTheFrame
  <1>1. Inv => HandlersSeeTheFrame
    BY DEF Inv
  <1>. QED
    BY <1>1, Consistency, PTL

(* The runtime speaks only when spoken to, notifications aside, and then for *)
(* the command it was asked about (Runtime_feedByte).                        *)
THEOREM OnlyRequestsAreAnswered == Spec => []OneReplyPerRequest
  <1>1. Inv => OneReplyPerRequest
    BY DEF Inv
  <1>. QED
    BY <1>1, Consistency, PTL

(* Every request that arrives whole is answered on its last byte, unless the *)
(* transport or an oversized answer cut it off (Runtime_feedByte).           *)
THEOREM EveryRequestIsAnswered == Spec => AnswersEveryRequest
  <1>1. Inv /\ [Next]_vars =>
          [(span' # span /\ IsRequest(span') /\ sendOk')
             => (reply' # <<>> /\ reply'[1].whole /\ reply'[1].command = span'[3])]_vars
    BY NextInv DEF Answered
  <1>. QED
    BY <1>1, Consistency, PTL DEF Spec, AnswersEveryRequest

(* Ticked every TickPeriod, the runtime drops a stalled request in time, for *)
(* every clock width that holds TIMEOUT_MS + TickPeriod (Runtime_tick).      *)
THEOREM NoStaleRequest == Spec => []StaleRequestDropped
  <1>1. Inv => StaleRequestDropped
    <2> SUFFICES ASSUME Inv, state # "SYNC" PROVE age <= TIMEOUT_MS + TickPeriod
      BY DEF StaleRequestDropped
    <2>1. age <= TIMEOUT_MS + sinceTick
      BY DEF Inv, Timing
    <2>2. age \in Int /\ sinceTick \in 0..TickPeriod /\ TIMEOUT_MS \in Nat /\ TickPeriod \in Nat
      BY Constants DEF Inv, TypeOK
    <2>. QED
      BY <2>1, <2>2
  <1>. QED
    BY <1>1, Consistency, PTL

-----------------------------------------------------------------------------
(* The host and the device on one line.                                      *)


\* What is proved about the host's parser
HP == INSTANCE FrameParserProofs WITH
        SYNC_BYTE <- FRAME_SYNC, MAX_PAYLOAD_SIZE <- HOST_MAX_PAYLOAD, ADDRESSING <- FALSE,
        state <- hState, source <- hSource, frame_type <- hType, command <- hCommand,
        data_len <- hLen, buf <- hBuf, out <- hOut, span <- hSpan, last_source <- hLast

(* The parser's assumptions, for the host on this line.                      *)
LEMMA HostConstants ==
  /\ Radix \in Nat \ {0} /\ Radix > 3 /\ FRAME_SYNC \in Byte
  /\ HOST_MAX_PAYLOAD \in Nat /\ HOST_MAX_PAYLOAD > 0 /\ HOST_MAX_PAYLOAD < Radix * Radix
  /\ FALSE \in BOOLEAN
  BY RadixAssumption, SyncAssumption, SizesAssumption, LinkSizesAssumption

(* The two instances of the parser have the same steps.                      *)
LEMMA SameByte == HP!Byte = Byte /\ H!Byte = Byte
  BY DEF HP!Byte, H!Byte, Byte

LEMMA SameFeed ==
  ASSUME NEW b, H!Feed(b)
  PROVE  HP!Feed(b)
  BY DEF H!Feed, H!FeedSync, H!FeedSource, H!FeedType, H!FeedCommand, H!FeedLengthLo,
         H!FeedLengthHi, H!FeedData, H!FeedCrc, H!Continue, H!Return,
         HP!Feed, HP!FeedSync, HP!FeedSource, HP!FeedType, HP!FeedCommand, HP!FeedLengthLo,
         HP!FeedLengthHi, HP!FeedData, HP!FeedCrc, HP!Continue, HP!Return

LEMMA SameReset == H!Reset => HP!Reset
  BY DEF H!Reset, HP!Reset

LEMMA SameEncode ==
  ASSUME NEW f
  PROVE  H!Encode(f, 0, 0) = HP!Encode(f, 0, 0)
  BY DEF H!Encode, HP!Encode, H!Address, HP!Address, H!Body, HP!Body, H!TypeByte, HP!TypeByte

(* The host's parser keeps its invariant.                                    *)
LEMMA HostInvStep ==
  ASSUME HP!Inv, (\E b \in Byte : H!Feed(b)) \/ H!Reset \/ UNCHANGED parser
  PROVE  HP!Inv'
  <1>1. HP!Next \/ UNCHANGED HP!vars
    BY SameFeed, SameReset, SameByte DEF HP!Next, parser, HP!vars
  <1>. QED
    BY <1>1, HostConstants, SameByte, HP!NextInv

-----------------------------------------------------------------------------
(* The request on the line.                                                  *)

\* The frame of r as it was built, or with one byte damaged on the line
Variants(r) ==
  {FrameOf(r)} \cup {[FrameOf(r) EXCEPT ![i] = (@ + 1) % Radix] : i \in 6..Len(FrameOf(r))}

\* g is a frame for r, and no payload but r's passes its checksum
Spelled(g, r) ==
  /\ g \in Seq(Byte) /\ g[1] = FRAME_SYNC /\ g[3] = r.cmd
  /\ r.op = "read" => Len(g) = 3 /\ g[2] = 0
  /\ r.op # "read" =>
       /\ Len(g) = Len(r.data) + 6 /\ g[2] = 1
       /\ g[4] = Len(r.data) % Radix /\ g[5] = Len(r.data) \div Radix
       /\ \A p \in Seq(Byte) :
            /\ Len(p) = Len(r.data) /\ \A j \in 1..Len(r.data) : g[5 + j] = p[j]
            /\ g[Len(r.data) + 6] = crc8(p)
            => p = r.data

\* s is the first bytes of g
Begins(s, g) == Len(s) <= Len(g) /\ \A j \in 1..Len(s) : s[j] = g[j]

(* The parts of a request.                                                   *)
LEMMA RequestFacts ==
  ASSUME NEW r \in Requests
  PROVE  /\ r.op \in {"read", "write", "query"} /\ r.cmd \in Byte /\ r.data \in Seq(Byte)
         /\ Len(r.data) \in Nat /\ crc8(r.data) \in Byte
         /\ (r.op # "read" /\ r.cmd \in DOMAIN Writes) => r.op = Writes[r.cmd].semantic
         /\ \A i \in 1..Len(r.data) : crc8([r.data EXCEPT ![i] = (@ + 1) % Radix]) # crc8(r.data)
  <1>1. /\ r.op \in {"read", "write", "query"} /\ r.cmd \in Byte /\ r.data \in Seq(Byte)
        /\ (r.op # "read" /\ r.cmd \in DOMAIN Writes) => r.op = Writes[r.cmd].semantic
    BY RequestsAssumption
  <1>2. /\ crc8(r.data) \in Byte
        /\ \A i \in DOMAIN r.data : crc8([r.data EXCEPT ![i] = (@ + 1) % Radix]) # crc8(r.data)
    BY ChecksumAssumption
  <1>3. DOMAIN r.data = 1..Len(r.data) /\ Len(r.data) \in Nat
    BY <1>1
  <1>. QED
    BY <1>1, <1>2, <1>3

(* build_write_frame, byte by byte.                                          *)
LEMMA WriteFrameFacts ==
  ASSUME NEW c \in Byte, NEW d \in Seq(Byte), crc8(d) \in Byte
  PROVE  LET e == BuildWriteFrame(c, d)
         IN  /\ e \in Seq(Byte) /\ Len(e) = Len(d) + 6
             /\ e[1] = FRAME_SYNC /\ e[2] = 1 /\ e[3] = c
             /\ Len(d) <= MAX_PAYLOAD =>
                  e[4] = Len(d) % Radix /\ e[5] = Len(d) \div Radix
             /\ \A j \in 1..Len(d) : e[5 + j] = d[j]
             /\ e[Len(d) + 6] = crc8(d)
  <1> DEFINE n == Len(d)
             len == n % (Radix * Radix)
             h == <<FRAME_SYNC, 1, c, len % Radix, len \div Radix>>
             k == <<crc8(d)>>
             g == h \o d
  <1>1. n \in Nat /\ Radix \in Nat \ {0} /\ Radix * Radix \in Nat /\ Radix * Radix > 0
    BY HostConstants
  <1>2. len \in 0..(Radix * Radix - 1)
    <2> DEFINE R2 == Radix * Radix
    <2>1. R2 \in Nat /\ R2 > 0
      BY <1>1
    <2> HIDE DEF R2, n
    <2>2. n % R2 \in 0..R2-1
      BY <1>1, <2>1
    <2>. QED
      BY <2>2 DEF R2
  <1>3. len % Radix \in Byte /\ len \div Radix \in Byte
    <2> HIDE DEF len
    <2>. QED
      BY <1>1, <1>2, BytesOf DEF Byte
  <1>4. n <= MAX_PAYLOAD => len = n
    <2> DEFINE R2 == Radix * Radix
    <2>1. R2 \in Nat /\ MAX_PAYLOAD < R2 /\ MAX_PAYLOAD \in Nat
      BY <1>1, HostConstants, SizesAssumption, LinkSizesAssumption
    <2> HIDE DEF R2, n
    <2>2. n <= MAX_PAYLOAD => n % R2 = n
      BY <1>1, <2>1
    <2>. QED
      BY <2>2 DEF R2
  <1>5. /\ h \in Seq(Byte) /\ Len(h) = 5 /\ h[1] = FRAME_SYNC /\ h[2] = 1 /\ h[3] = c
        /\ h[4] = len % Radix /\ h[5] = len \div Radix
    <2> DEFINE lo == len % Radix
               hi == len \div Radix
    <2>1. lo \in Byte /\ hi \in Byte /\ FRAME_SYNC \in Byte /\ 1 \in Byte
      BY <1>3, Constants
    <2> HIDE DEF lo, hi
    <2>2. <<FRAME_SYNC, 1, c, lo, hi>> \in Seq(Byte) /\ Len(<<FRAME_SYNC, 1, c, lo, hi>>) = 5
      BY <2>1, Quints
    <2>. QED
      BY <2>2 DEF lo, hi
  <1>6. k \in Seq(Byte) /\ Len(k) = 1 /\ k[1] = crc8(d)
    OBVIOUS
  <1>7. BuildWriteFrame(c, d) = g \o k
    BY DEF BuildWriteFrame
  <1> HIDE DEF h, k, len
  <1>8. /\ g \in Seq(Byte) /\ Len(g) = 5 + n
        /\ \A i \in 1..5 : g[i] = h[i]
        /\ \A i \in 1..n : g[5 + i] = d[i]
    <2>1. /\ g \in Seq(Byte) /\ Len(g) = Len(h) + Len(d)
          /\ \A i \in 1..Len(h) : g[i] = h[i]
          /\ \A i \in 1..Len(d) : g[Len(h) + i] = d[i]
      <3>1. h \in Seq(Byte) /\ d \in Seq(Byte)
        BY <1>5
      <3>. QED
        BY <3>1, ConcatAt
    <2> HIDE DEF g
    <2>. QED
      BY <1>5, <2>1
  <1> HIDE DEF g
  <1>9. /\ g \o k \in Seq(Byte) /\ Len(g \o k) = 5 + n + 1
        /\ \A i \in 1..5 + n : (g \o k)[i] = g[i]
        /\ (g \o k)[5 + n + 1] = crc8(d)
    <2>1. /\ g \o k \in Seq(Byte) /\ Len(g \o k) = Len(g) + Len(k)
          /\ \A i \in 1..Len(g) : (g \o k)[i] = g[i]
          /\ \A i \in 1..Len(k) : (g \o k)[Len(g) + i] = k[i]
      <3>1. g \in Seq(Byte) /\ k \in Seq(Byte)
        BY <1>6, <1>8
      <3>. QED
        BY <3>1, ConcatAt
    <2> HIDE DEF n
    <2>. QED
      BY <1>1, <1>6, <1>8, <2>1
  <1> HIDE DEF n
  <1>10. /\ 5 + n + 1 = n + 6 /\ \A i \in 1..5 : i \in 1..5 + n
         /\ \A i \in 1..n : 5 + i \in 1..5 + n
    BY <1>1
  <1>11. /\ (g \o k)[1] = FRAME_SYNC /\ (g \o k)[2] = 1 /\ (g \o k)[3] = c
         /\ (g \o k)[4] = len % Radix /\ (g \o k)[5] = len \div Radix
         /\ \A i \in 1..n : (g \o k)[5 + i] = d[i]
    BY <1>5, <1>8, <1>9, <1>10
  <1>. QED
    BY <1>4, <1>7, <1>9, <1>10, <1>11 DEF n

(* What the host sends for a request.                                        *)
LEMMA FrameOfFacts ==
  ASSUME NEW r \in Requests
  PROVE  LET e == FrameOf(r)
         IN  /\ e \in Seq(Byte) /\ e[1] = FRAME_SYNC /\ e[3] = r.cmd
             /\ Len(e) = IF r.op = "read" THEN 3 ELSE Len(r.data) + 6
             /\ r.op = "read" => e[2] = 0
             /\ r.op # "read" =>
                  /\ e[2] = 1
                  /\ Len(r.data) <= MAX_PAYLOAD =>
                       e[4] = Len(r.data) % Radix /\ e[5] = Len(r.data) \div Radix
                  /\ \A j \in 1..Len(r.data) : e[5 + j] = r.data[j]
                  /\ e[Len(r.data) + 6] = crc8(r.data)
  <1>1. CASE r.op = "read"
    <2>1. FrameOf(r) = <<FRAME_SYNC, 0, r.cmd>>
      BY <1>1 DEF FrameOf, BuildReadFrame
    <2> DEFINE c == r.cmd
    <2>2. c \in Byte
      BY RequestFacts
    <2> HIDE DEF c
    <2>3. <<FRAME_SYNC, 0, c>> \in Seq(Byte) /\ Len(<<FRAME_SYNC, 0, c>>) = 3
      BY <2>2, Constants, Triples
    <2>. QED
      BY <1>1, <2>1, <2>3 DEF c
  <1>2. CASE r.op # "read"
    <2>1. FrameOf(r) = BuildWriteFrame(r.cmd, r.data)
      BY <1>2 DEF FrameOf
    <2>2. r.cmd \in Byte /\ r.data \in Seq(Byte) /\ crc8(r.data) \in Byte
      BY RequestFacts
    <2>3. LET e == BuildWriteFrame(r.cmd, r.data)
          IN  /\ e \in Seq(Byte) /\ Len(e) = Len(r.data) + 6
              /\ e[1] = FRAME_SYNC /\ e[2] = 1 /\ e[3] = r.cmd
              /\ Len(r.data) <= MAX_PAYLOAD =>
                   e[4] = Len(r.data) % Radix /\ e[5] = Len(r.data) \div Radix
              /\ \A j \in 1..Len(r.data) : e[5 + j] = r.data[j]
              /\ e[Len(r.data) + 6] = crc8(r.data)
      BY <2>2, WriteFrameFacts
    <2>. QED
      BY <1>2, <2>1, <2>3
  <1>. QED
    BY <1>1, <1>2

(* Whatever damage the line does to the payload or the checksum, the frame   *)
(* keeps its shape, and its checksum fits the payload that was sent or none. *)
LEMMA VariantFacts ==
  ASSUME NEW r \in Requests, Len(r.data) <= MAX_PAYLOAD, NEW g \in Variants(r)
  PROVE  Spelled(g, r) /\ Len(g) = Len(FrameOf(r))
  <1> DEFINE e == FrameOf(r)
             d == r.data
             n == Len(d)
  <1>0. \A i \in 1..n : crc8([d EXCEPT ![i] = (@ + 1) % Radix]) # crc8(d)
    BY RequestFacts
  <1>1. d \in Seq(Byte) /\ n \in Nat /\ DOMAIN d = 1..n /\ Len(d) = n
    <2>1. d \in Seq(Byte)
      BY RequestFacts
    <2> HIDE DEF d
    <2>. QED
      BY <2>1
  <1>2. /\ e \in Seq(Byte) /\ e[1] = FRAME_SYNC /\ e[3] = r.cmd
        /\ r.op = "read" => Len(e) = 3 /\ e[2] = 0
        /\ r.op # "read" =>
             /\ Len(e) = n + 6 /\ e[2] = 1 /\ e[4] = n % Radix /\ e[5] = n \div Radix
             /\ \A j \in 1..n : e[5 + j] = d[j]
             /\ e[n + 6] = crc8(d)
    BY FrameOfFacts
  <1>3. g = e \/ \E i \in 6..Len(e) : g = [e EXCEPT ![i] = (@ + 1) % Radix]
    BY DEF Variants
  <1>6. /\ \A q \in Seq(Byte) : q \in Seq(Byte) => DOMAIN q = 1..Len(q) /\ Len(q) \in Nat
        /\ \A q \in Seq(Byte), j \in Nat, v \in Byte :
             j \in 1..Len(q) =>
               /\ [q EXCEPT ![j] = v] \in Seq(Byte) /\ Len([q EXCEPT ![j] = v]) = Len(q)
               /\ [q EXCEPT ![j] = v][j] = v
               /\ \A k \in 1..Len(q) : k # j => [q EXCEPT ![j] = v][k] = q[k]
    OBVIOUS
  <1> SUFFICES Spelled(g, r) /\ Len(g) = Len(e)
    OBVIOUS
  <1>4. CASE g = e
    <2>1. ASSUME r.op # "read", NEW p \in Seq(Byte), Len(p) = n, \A j \in 1..n : g[5 + j] = p[j]
          PROVE  p = d
      <3>1. \A j \in 1..Len(p) : p[j] = d[j]
        BY <1>2, <1>4, <2>1
      <3>. QED
        BY <1>1, <2>1, <3>1, SeqEq
    <2> HIDE DEF e, n, d
    <2>. QED
      BY <1>2, <1>4, <2>1 DEF Spelled, n, d
  <1>5. CASE \E i \in 6..Len(e) : g = [e EXCEPT ![i] = (@ + 1) % Radix]
    <2> HIDE DEF e, n, d
    <2>1. PICK i \in 6..Len(e) : g = [e EXCEPT ![i] = (@ + 1) % Radix]
      BY <1>5
    <2>2. Len(e) \in Nat /\ DOMAIN e = 1..Len(e) /\ i \in 1..Len(e) /\ i >= 6 /\ i \in Nat
          /\ Len(e) >= 6
      <3>1. e \in Seq(Byte)
        BY <1>2
      <3>2. Len(e) \in Nat /\ DOMAIN e = 1..Len(e)
        BY <3>1
      <3>. QED
        BY <3>2
    <2>3. (e[i] + 1) % Radix \in Byte
      <3>1. e[i] \in Byte
        BY <1>2, <2>2
      <3>2. e[i] + 1 \in Nat /\ Radix \in Nat /\ Radix > 0
        BY <3>1, Constants DEF Byte
      <3>. QED
        BY <3>2 DEF Byte
    <2>4. g \in Seq(Byte) /\ Len(g) = Len(e)
      BY <1>2, <1>6, <2>1, <2>2, <2>3
    <2>5. g[i] = (e[i] + 1) % Radix /\ \A j \in 1..Len(e) : j # i => g[j] = e[j]
      BY <1>2, <1>6, <2>1, <2>2, <2>3
    <2>6. r.op # "read"
      BY <1>2, <2>2
    <2>7. Len(e) = n + 6 /\ i <= n + 6
      BY <1>2, <2>2, <2>6
    <2>8. /\ g[1] = FRAME_SYNC /\ g[2] = 1 /\ g[3] = r.cmd /\ g[4] = n % Radix
          /\ g[5] = n \div Radix
      <3>1. \A j \in 1..5 : j \in 1..Len(e) /\ j # i
        BY <2>2
      <3>2. \A j \in 1..5 : g[j] = e[j]
        BY <2>5, <3>1
      <3>. QED
        BY <1>2, <2>6, <3>2
    <2>9. ASSUME NEW p \in Seq(Byte), Len(p) = n, \A j \in 1..n : g[5 + j] = p[j],
                 g[n + 6] = crc8(p)
          PROVE  p = d
      <3>0. \A j \in 1..n : 5 + j \in 1..Len(e) /\ e[5 + j] = d[j]
        BY <1>1, <1>2, <2>6, <2>7
      <3>1. CASE i = n + 6
        <4>1. \A j \in 1..n : 5 + j # i
          BY <1>1, <3>1
        <4>2. \A j \in 1..n : p[j] = d[j]
          BY <2>5, <2>9, <3>0, <4>1
        <4>. QED
          BY <1>1, <2>9, <4>2, SeqEq
      <3>2. CASE i # n + 6
        <4> DEFINE k == i - 5
                   q == [d EXCEPT ![k] = (@ + 1) % Radix]
        <4>1. k \in 1..n /\ 5 + k = i /\ \A j \in 1..n : j # k => 5 + j # i
          BY <1>1, <2>2, <2>7, <3>2
        <4>3. /\ q[k] = (d[k] + 1) % Radix /\ \A j \in 1..n : j # k => q[j] = d[j]
              /\ q \in Seq(Byte) /\ Len(q) = n
          <5> HIDE DEF k
          <5>1. (d[k] + 1) % Radix \in Byte
            BY <2>3, <3>0, <4>1
          <5>. QED
            BY <1>1, <1>6, <4>1, <5>1
        <4>4. g[n + 6] = crc8(d)
          <5>1. n + 6 \in 1..Len(e) /\ n + 6 # i
            BY <1>1, <2>7, <3>2
          <5>. QED
            BY <1>2, <2>5, <2>6, <5>1
        <4> HIDE DEF q, k
        <4>5. \A j \in 1..n : p[j] = q[j]
          <5>1. ASSUME NEW j \in 1..n PROVE p[j] = q[j]
            <6>1. p[j] = g[5 + j] /\ e[5 + j] = d[j] /\ 5 + j \in 1..Len(e)
              BY <2>9, <3>0
            <6>2. CASE j = k
              BY <2>5, <4>1, <4>3, <6>1, <6>2
            <6>3. CASE j # k
              BY <2>5, <4>1, <4>3, <6>1, <6>3
            <6>. QED
              BY <6>2, <6>3
          <5>. QED
            BY <5>1
        <4>6. p = q
          BY <2>9, <4>3, <4>5, SeqEq
        <4>7. crc8(q) # crc8(d)
          BY <1>0, <4>1 DEF q
        <4>. QED
          BY <2>9, <4>4, <4>6, <4>7
      <3>. QED
        BY <3>1, <3>2
    <2>. QED
      BY <2>4, <2>6, <2>7, <2>8, <2>9 DEF Spelled, n, d
  <1>. QED
    BY <1>3, <1>4, <1>5

-----------------------------------------------------------------------------
(* The device on the bytes of a request.                                     *)

(* The bytes the device has received of a request, by parser state.          *)
LEMMA DeviceSpan ==
  ASSUME Inv
  PROVE  /\ span \in Seq(Byte)
         /\ state = "TYPE" => Len(span) = 1
         /\ state = "COMMAND" => Len(span) = 2 /\ span[2] = frameType /\ frameType \in {0, 1}
         /\ state = "LENGTH_LO" => Len(span) = 3 /\ span[2] = 1 /\ span[3] = command
         /\ state = "LENGTH_HI" => Len(span) = 4 /\ span[2] = 1 /\ span[4] = payloadLength
         /\ state \in {"DATA", "CRC"} =>
              /\ Len(span) = 5 + payloadIndex /\ payloadIndex \in Nat /\ span[2] = 1
              /\ span[3] = command
              /\ span[4] = payloadLength % Radix /\ span[5] = payloadLength \div Radix
              /\ payloadLength \in 0..(Radix * Radix - 1)
         /\ state = "DATA" => payloadIndex < payloadLength /\ payloadLength <= MAX_PAYLOAD
         /\ state = "CRC" => payloadIndex = payloadLength
  <1>1. span \in Seq(Byte) /\ TypeOK /\ Progress
    BY DEF Inv, TypeOK
  <1>2. /\ state = "TYPE" => Len(span) = 1
        /\ state = "COMMAND" => Len(span) = 2 /\ span[2] = frameType /\ frameType \in {0, 1}
        /\ state = "LENGTH_LO" => Len(span) = 3 /\ span[2] = 1 /\ span[3] = command
        /\ state = "LENGTH_HI" => Len(span) = 4 /\ span[2] = 1 /\ span[4] = payloadLength
    BY <1>1 DEF Progress
  <1>3. /\ state = "DATA" => payloadIndex < payloadLength /\ payloadLength <= MAX_PAYLOAD
        /\ state = "CRC" => payloadIndex = payloadLength
    BY <1>1 DEF Progress
  <1>4. ASSUME state \in {"DATA", "CRC"}
        PROVE  /\ Len(span) = 5 + payloadIndex /\ payloadIndex \in Nat /\ span[2] = 1
               /\ span[3] = command
               /\ span[4] = payloadLength % Radix /\ span[5] = payloadLength \div Radix
               /\ payloadLength \in 0..(Radix * Radix - 1)
    <2>1. /\ Received \in Seq(Byte) /\ Len(Received) = payloadIndex
          /\ Header \in Seq(Byte) /\ Len(Header) = 5
          /\ Header[2] = 1 /\ Header[3] = command
          /\ Header[4] = payloadLength % Radix /\ Header[5] = payloadLength \div Radix
      BY <1>1, ReceivedType
    <2>2. span = Header \o Received
      BY <1>1, <1>4 DEF Progress
    <2>3. /\ Len(span) = Len(Header) + Len(Received)
          /\ \A i \in 1..Len(Header) : span[i] = Header[i]
      <3>1. Header \in Seq(Byte) /\ Received \in Seq(Byte)
        BY <2>1
      <3>. QED
        BY <2>2, <3>1, ConcatAt
    <2>4. payloadIndex \in Nat /\ payloadLength \in 0..(Radix * Radix - 1)
      BY <1>1, Constants DEF TypeOK
    <2>. QED
      BY <2>1, <2>3, <2>4
  <1>. QED
    BY <1>1, <1>2, <1>3, <1>4

\* An outcome of sendFrame with one of these kinds; a short frame is never cut
Outcome(kinds, o) ==
  o.reply # <<>> => /\ o.reply[1].kind \in kinds
                    /\ ~o.reply[1].whole => o.reply[1].kind \in {"Data", "Notification"}

(* What sendFrame sends is of the kind it was given.                         *)
LEMMA SendFrameKind ==
  ASSUME NEW kind \in {"Nack", "Ack", "Data", "Notification"}, NEW c, NEW size,
         NEW o \in SendFrame(kind, c, size)
  PROVE  Outcome({kind}, o) /\ (o.ok => o.reply # <<>> /\ o.reply[1].whole)
  <1> DEFINE frame(whole) == <<[kind |-> kind, command |-> c, whole |-> whole]>>
  <1>1. \/ o = Sent(<<>>, FALSE)
        \/ o = Sent(frame(TRUE), TRUE)
        \/ o = Sent(frame(FALSE), FALSE) /\ kind \in {"Data", "Notification"}
    BY DEF SendFrame
  <1>2. ASSUME NEW w \in BOOLEAN
        PROVE  frame(w) # <<>> /\ frame(w)[1].kind = kind /\ frame(w)[1].whole = w
    OBVIOUS
  <1>3. CASE o = Sent(<<>>, FALSE)
    BY <1>3 DEF Sent, Outcome
  <1>4. CASE o = Sent(frame(TRUE), TRUE)
    <2>1. o.reply = frame(TRUE) /\ o.ok = TRUE
      BY <1>4 DEF Sent
    <2> HIDE DEF frame
    <2>. QED
      BY <1>2, <2>1 DEF Outcome
  <1>5. CASE o = Sent(frame(FALSE), FALSE) /\ kind \in {"Data", "Notification"}
    <2>1. o.reply = frame(FALSE) /\ o.ok = FALSE
      BY <1>5 DEF Sent
    <2> HIDE DEF frame
    <2>. QED
      BY <1>2, <1>5, <2>1 DEF Outcome
  <1>. QED
    BY <1>1, <1>3, <1>4, <1>5

(* The kinds of replies: to a read, to a write and to a query.               *)
LEMMA DispatchKinds ==
  ASSUME NEW c
  PROVE  /\ \A o \in DispatchRead(c) : Outcome({"Nack", "Data"}, o)
         /\ \A o \in SendNack(c) : Outcome({"Nack"}, o)
         /\ \A o \in WriteDisposition(c) : Outcome({"Nack", "Ack"}, o)
         /\ \A o \in QueryDisposition(c) : Outcome({"Nack", "Data"}, o)
  <1>1. \A o \in SendNack(c) : Outcome({"Nack"}, o)
    BY SendFrameKind DEF SendNack
  <1>2. \A o \in SendAck(c) : Outcome({"Ack"}, o)
    BY SendFrameKind DEF SendAck
  <1>3. \A n : \A o \in SendData(c, n) : Outcome({"Data"}, o)
    BY SendFrameKind DEF SendData
  <1>4. \A o : (Outcome({"Nack"}, o) \/ Outcome({"Data"}, o)) => Outcome({"Nack", "Data"}, o)
    BY DEF Outcome
  <1>5. \A o : (Outcome({"Nack"}, o) \/ Outcome({"Ack"}, o)) => Outcome({"Nack", "Ack"}, o)
    BY DEF Outcome
  <1>6. \A o \in DispatchRead(c) : Outcome({"Nack", "Data"}, o)
    BY <1>1, <1>3, <1>4 DEF DispatchRead
  <1>7. \A o \in WriteDisposition(c) : Outcome({"Nack", "Ack"}, o)
    BY <1>1, <1>2, <1>5 DEF WriteDisposition
  <1>8. \A o \in QueryDisposition(c) : Outcome({"Nack", "Data"}, o)
    BY <1>1, <1>3, <1>4 DEF QueryDisposition
  <1>. QED
    BY <1>1, <1>6, <1>7, <1>8

(* The reply of a call, of the kinds its outcomes have.                      *)
LEMMA SendsKinds ==
  ASSUME NEW kinds, NEW outcomes, \A o \in outcomes : Outcome(kinds, o), Sends(outcomes),
         reply' # <<>>
  PROVE  /\ reply'[1].kind \in kinds
         /\ ~reply'[1].whole => reply'[1].kind \in {"Data", "Notification"}
  BY DEF Sends, Outcome

\* What the latest call sent, if it was cut off, was a long frame
LongIfCut == reply # <<>> /\ ~reply[1].whole => reply[1].kind \in {"Data", "Notification"}

(* A handler's disposition, by the semantic of its message.                  *)
LEMMA DispositionKinds ==
  ASSUME NEW c \in DOMAIN Writes
  PROVE  /\ Writes[c].semantic \in {"write", "query"}
         /\ \A o \in Disposition(c) :
              Outcome({"Nack", IF Writes[c].semantic = "write" THEN "Ack" ELSE "Data"}, o)
  <1>1. Writes[c].semantic \in {"write", "query"}
    BY MessagesAssumption
  <1>2. CASE Writes[c].semantic = "write"
    BY <1>2, DispatchKinds DEF Disposition
  <1>3. CASE Writes[c].semantic = "query"
    BY <1>3, DispatchKinds DEF Disposition
  <1>. QED
    BY <1>1, <1>2, <1>3

(* A byte fed to the device, or a notification, never cuts a short frame.    *)
LEMMA FeedCuts ==
  ASSUME NEW b, FeedByte(b)
  PROVE  LongIfCut'
  <1> SUFFICES ASSUME reply' # <<>>, ~reply'[1].whole
               PROVE  reply'[1].kind \in {"Data", "Notification"}
    BY DEF LongIfCut
  <1>1. CASE FeedCommand(b)
    <2>1. Sends(DispatchRead(b))
      BY <1>1 DEF FeedCommand, Silent
    <2>. QED
      BY <2>1, DispatchKinds, SendsKinds
  <1>2. CASE FeedCrc(b)
    <2>1. \/ Sends(SendNack(command))
          \/ command \in DOMAIN Writes /\ Sends(Disposition(command))
      BY <1>2 DEF FeedCrc, DispatchWrite
    <2>2. CASE Sends(SendNack(command))
      BY <2>2, DispatchKinds, SendsKinds
    <2>3. CASE command \in DOMAIN Writes /\ Sends(Disposition(command))
      <3> DEFINE kinds == {"Nack", IF Writes[command].semantic = "write" THEN "Ack" ELSE "Data"}
      <3>1. \A o \in Disposition(command) : Outcome(kinds, o)
        BY <2>3, DispositionKinds
      <3> HIDE DEF kinds
      <3>. QED
        BY <2>3, <3>1, SendsKinds
    <2>. QED
      BY <2>1, <2>2, <2>3
  <1>3. CASE \/ FeedSync(b) \/ FeedType(b) \/ FeedLengthLo(b) \/ FeedLengthHi(b) \/ FeedData(b)
    BY <1>3 DEF FeedSync, FeedType, FeedLengthLo, FeedLengthHi, FeedData, Silent
  <1>. QED
    BY <1>1, <1>2, <1>3 DEF FeedByte

(* A notification that sendNotification reports as sent is whole.            *)
LEMMA NotifyKind ==
  ASSUME Notify, reply' # <<>>
  PROVE  reply'[1].kind = "Notification" /\ (sendOk' => reply'[1].whole)
  <1>1. PICK o \in SendFrame("Notification", 0, 0) \cup {Sent(<<>>, TRUE)} :
          reply' = o.reply /\ sendOk' = o.ok
    BY DEF Notify, Sends
  <1>2. o # Sent(<<>>, TRUE)
    BY <1>1 DEF Sent
  <1>3. Outcome({"Notification"}, o) /\ (o.ok => o.reply # <<>> /\ o.reply[1].whole)
    BY <1>2, SendFrameKind
  <1>. QED
    BY <1>1, <1>3 DEF Outcome

(* How far a header is from the end of its frame.                            *)
LEMMA HeaderEnds ==
  /\ \A x, y \in Nat : x = 1 /\ y >= 3 => x + 1 # y
  /\ \A x, y \in Nat : x = 2 /\ y = 3 => ~(x + 1 < y)
  /\ \A x, y, m \in Nat : x \in {2, 3, 4} /\ y = m + 6 => x + 1 # y
  /\ \A q \in Seq(Byte), v \in Byte : Len(q) = 2 =>
       Len(Append(q, v)) = 3 /\ Append(q, v)[2] = q[2]
  <1>1. /\ \A x, y \in Nat : x = 1 /\ y >= 3 => x + 1 # y
        /\ \A x, y \in Nat : x = 2 /\ y = 3 => ~(x + 1 < y)
    OBVIOUS
  <1>2. \A x, y, m \in Nat : x \in {2, 3, 4} /\ y = m + 6 => x + 1 # y
    OBVIOUS
  <1>3. ASSUME NEW q \in Seq(Byte), NEW v \in Byte, Len(q) = 2
        PROVE  Len(Append(q, v)) = 3 /\ Append(q, v)[2] = q[2]
    <2>1. Len(Append(q, v)) = Len(q) + 1 /\ DOMAIN q = 1..Len(q)
      OBVIOUS
    <2>2. \A k \in DOMAIN q : Append(q, v)[k] = q[k]
      BY EndsFacts
    <2>. QED
      BY <1>3, <2>1, <2>2
  <1>. QED
    BY <1>1, <1>2, <1>3

(* Fed with the next byte of a request frame whose bytes so far it has       *)
(* received, the device goes on with that frame without a word or, at its    *)
(* last byte, answers it with a reply the client waits for, if at all.       *)
LEMMA DeviceFollows ==
  ASSUME Inv, NEW r \in Requests, Len(r.data) <= MAX_PAYLOAD, NEW g, Spelled(g, r),
         state # "SYNC", Len(span) < Len(g), Begins(span, g),
         NEW b \in Byte, b = g[Len(span) + 1], FeedByte(b)
  PROVE  /\ span' = Append(span, b)
         /\ Len(span) + 1 < Len(g) =>
              state' # "SYNC" /\ called' = <<>> /\ reply' = <<>> /\ sendOk' = TRUE /\ age' = age
         /\ Len(span) + 1 = Len(g) =>
              /\ state' = "SYNC" /\ IsRequest(span')
              /\ reply' # <<>> => reply'[1].kind \in {"Nack", Expect(r)}
  <1> DEFINE n == Len(r.data)
  <1>1. /\ span \in Seq(Byte) /\ Len(span) \in Nat /\ g \in Seq(Byte) /\ Len(g) \in Nat
        /\ n \in Nat /\ r.op \in {"read", "write", "query"} /\ r.cmd \in Byte
        /\ Radix \in Nat \ {0}
    <2>1. span \in Seq(Byte) /\ g \in Seq(Byte)
      BY DeviceSpan DEF Spelled
    <2>2. Len(span) \in Nat /\ Len(g) \in Nat
      BY <2>1
    <2>. QED
      BY <2>1, <2>2, RequestFacts, Constants
  <1>2. /\ g[3] = r.cmd
        /\ r.op = "read" => Len(g) = 3 /\ g[2] = 0
        /\ r.op # "read" =>
             Len(g) = n + 6 /\ g[2] = 1 /\ g[4] = n % Radix /\ g[5] = n \div Radix
    BY DEF Spelled
  <1>3. n <= MAX_PAYLOAD /\ MAX_PAYLOAD \in Nat /\ n \in 0..(Radix * Radix - 1)
    <2>1. n <= MAX_PAYLOAD
      OBVIOUS
    <2>2. MAX_PAYLOAD \in Nat /\ MAX_PAYLOAD < Radix * Radix /\ Radix * Radix \in Nat
      BY SizesAssumption, LinkSizesAssumption, HostConstants
    <2> HIDE DEF n
    <2>. QED
      BY <1>1, <2>1, <2>2
  <1> HIDE DEF n
  <1>4. Len(g) >= 3
    BY <1>1, <1>2
  <1>5. CASE state = "TYPE"
    <2>1. Len(span) = 1 /\ FeedType(b)
      BY <1>5, DeviceSpan DEF FeedByte, FeedSync, FeedType, FeedCommand, FeedLengthLo,
         FeedLengthHi, FeedData, FeedCrc
    <2>2. b \in {0, 1}
      BY <1>1, <1>2, <2>1
    <2>3. /\ state' = "COMMAND" /\ span' = Append(span, b) /\ called' = <<>> /\ reply' = <<>>
          /\ sendOk' = TRUE /\ age' = age
      BY <2>1, <2>2 DEF FeedType, Receive, Silent
    <2>4. Len(span) + 1 # Len(g)
      BY <1>1, <1>4, <2>1, HeaderEnds
    <2>. QED
      BY <2>3, <2>4
  <1>6. CASE state = "COMMAND"
    <2>1. Len(span) = 2 /\ FeedCommand(b) /\ span[2] = frameType /\ frameType \in {0, 1}
      BY <1>6, DeviceSpan DEF FeedByte, FeedSync, FeedType, FeedCommand, FeedLengthLo,
         FeedLengthHi, FeedData, FeedCrc
    <2>2. frameType = g[2] /\ b = r.cmd
      BY <1>1, <1>2, <2>1 DEF Begins
    <2>3. span' = Append(span, b)
      BY <2>1 DEF FeedCommand, Receive
    <2>4. CASE r.op = "read"
      <3>1. state' = "SYNC" /\ Sends(DispatchRead(b))
        BY <1>2, <2>1, <2>2, <2>4 DEF FeedCommand, ResetParser
      <3>2. Expect(r) = "Data"
        BY <2>4 DEF Expect
      <3>3. reply' # <<>> => reply'[1].kind \in {"Nack", "Data"}
        BY <3>1, DispatchKinds, SendsKinds
      <3>4. IsRequest(span')
        <4>1. Len(Append(span, b)) = 3 /\ Append(span, b)[2] = span[2]
          BY <1>1, <2>1, HeaderEnds
        <4>. QED
          BY <1>2, <2>1, <2>2, <2>3, <2>4, <4>1 DEF IsRequest, IsRead
      <3>5. Len(g) = 3 /\ ~(Len(span) + 1 < Len(g))
        BY <1>1, <1>2, <2>1, <2>4, HeaderEnds
      <3>. QED
        BY <2>3, <3>1, <3>2, <3>3, <3>4, <3>5
    <2>5. CASE r.op # "read"
      <3>1. /\ state' = "LENGTH_LO" /\ called' = <<>> /\ reply' = <<>> /\ sendOk' = TRUE
            /\ age' = age
        BY <1>2, <2>1, <2>2, <2>5 DEF FeedCommand, Silent, Receive
      <3>2. Len(span) + 1 # Len(g)
        BY <1>1, <1>2, <2>1, <2>5
      <3>. QED
        BY <2>3, <3>1, <3>2
    <2>. QED
      BY <2>4, <2>5
  <1>7. ASSUME state \in {"LENGTH_LO", "LENGTH_HI", "DATA", "CRC"}
        PROVE  r.op # "read" /\ Len(g) = n + 6
    <2>1. span[2] = 1 /\ Len(span) >= 3
      BY <1>1, <1>7, DeviceSpan
    <2>2. g[2] = 1
      BY <1>1, <2>1 DEF Begins
    <2>. QED
      BY <1>2, <2>2
  <1>8. CASE state = "LENGTH_LO"
    <2>1. /\ Len(span) = 3 /\ state' = "LENGTH_HI" /\ span' = Append(span, b)
          /\ called' = <<>> /\ reply' = <<>> /\ sendOk' = TRUE /\ age' = age
      BY <1>8, DeviceSpan DEF FeedByte, FeedSync, FeedType, FeedCommand, FeedLengthLo,
         FeedLengthHi, FeedData, FeedCrc, Silent, Receive
    <2>2. Len(span) + 1 # Len(g)
      BY <1>1, <1>7, <1>8, <2>1, HeaderEnds
    <2>. QED
      BY <2>1, <2>2
  <1>9. \A x \in 0..(Radix * Radix - 1) : x = (x % Radix) + (x \div Radix) * Radix
    <2>1. ASSUME NEW x \in 0..(Radix * Radix - 1) PROVE x = (x % Radix) + (x \div Radix) * Radix
      <3>1. x \in Int /\ Radix \in Int /\ Radix > 0
        BY <1>1
      <3>. QED
        BY <3>1
    <2>. QED
      BY <2>1
  <1>10. CASE state = "LENGTH_HI"
    <2>1. Len(span) = 4 /\ FeedLengthHi(b) /\ span[4] = payloadLength
      BY <1>10, DeviceSpan DEF FeedByte, FeedSync, FeedType, FeedCommand, FeedLengthLo,
         FeedLengthHi, FeedData, FeedCrc
    <2>2. payloadLength = n % Radix /\ b = n \div Radix
      BY <1>1, <1>2, <1>7, <1>10, <2>1 DEF Begins
    <2>3. payloadLength + b * Radix = n
      BY <1>3, <1>9, <2>2
    <2>4. ~(payloadLength + b * Radix > MAX_PAYLOAD)
      BY <1>1, <1>3, <2>3
    <2>5. state' \in {"CRC", "DATA"}
      BY <2>1, <2>4 DEF FeedLengthHi
    <2>6. /\ span' = Append(span, b) /\ called' = <<>> /\ reply' = <<>> /\ sendOk' = TRUE
          /\ age' = age
      BY <2>1, <2>5 DEF FeedLengthHi, Silent, Receive
    <2>7. Len(span) + 1 # Len(g)
      BY <1>1, <1>7, <1>10, <2>1, HeaderEnds
    <2>. QED
      BY <2>5, <2>6, <2>7
  <1>11. ASSUME state \in {"DATA", "CRC"}
         PROVE  /\ payloadLength = n /\ Len(span) = 5 + payloadIndex /\ payloadIndex \in Nat
                /\ command = r.cmd
    <2>1. /\ Len(span) = 5 + payloadIndex /\ payloadIndex \in Nat /\ span[3] = command
          /\ span[4] = payloadLength % Radix /\ span[5] = payloadLength \div Radix
          /\ payloadLength \in 0..(Radix * Radix - 1)
      BY <1>11, DeviceSpan
    <2>2. 3 \in 1..Len(span) /\ 4 \in 1..Len(span) /\ 5 \in 1..Len(span)
      BY <1>1, <2>1
    <2>3. span[3] = g[3] /\ span[4] = g[4] /\ span[5] = g[5]
      BY <2>2 DEF Begins
    <2>4. payloadLength = n
      <3>1. payloadLength % Radix = n % Radix /\ payloadLength \div Radix = n \div Radix
        BY <1>2, <1>7, <1>11, <2>1, <2>3
      <3>2. n = (n % Radix) + (n \div Radix) * Radix
        BY <1>3, <1>9
      <3>3. payloadLength = (payloadLength % Radix) + (payloadLength \div Radix) * Radix
        BY <1>9, <2>1
      <3>. QED
        BY <3>1, <3>2, <3>3
    <2>. QED
      BY <1>2, <2>1, <2>3, <2>4
  <1>12. CASE state = "DATA"
    <2>1. FeedData(b) /\ payloadIndex < payloadLength
      BY <1>12, DeviceSpan DEF FeedByte, FeedSync, FeedType, FeedCommand, FeedLengthLo,
         FeedLengthHi, FeedData, FeedCrc
    <2>2. payloadIndex < MAX_PAYLOAD
      BY <1>1, <1>3, <1>11, <1>12, <2>1
    <2>3. state' \in {"CRC", "DATA"}
      BY <2>1, <2>2 DEF FeedData
    <2>4. /\ span' = Append(span, b) /\ called' = <<>> /\ reply' = <<>> /\ sendOk' = TRUE
          /\ age' = age
      BY <2>1, <2>3 DEF FeedData, Silent, Receive
    <2>5. Len(span) + 1 # Len(g)
      BY <1>1, <1>7, <1>11, <1>12, <2>1
    <2>. QED
      BY <2>3, <2>4, <2>5
  <1>13. CASE state = "CRC"
    <2>1. FeedCrc(b) /\ payloadIndex = payloadLength
      BY <1>13, DeviceSpan DEF FeedByte, FeedSync, FeedType, FeedCommand, FeedLengthLo,
         FeedLengthHi, FeedData, FeedCrc
    <2>2. state' = "SYNC" /\ span' = Append(span, b)
      BY <2>1 DEF FeedCrc, ResetParser, Receive
    <2>3. Len(span) + 1 = Len(g)
      BY <1>1, <1>7, <1>11, <1>13, <2>1
    <2>4. IsRequest(span')
      <3>1. /\ Len(Append(span, b)) = payloadIndex + 6 /\ Append(span, b)[2] = 1
            /\ AnnouncedLength(Append(span, b)) = payloadLength
        BY <1>13, PayloadSoFar
      <3>2. IsWrite(Append(span, b))
        BY <1>1, <1>3, <1>11, <1>13, <2>1, <3>1 DEF IsWrite
      <3>. QED
        BY <2>2, <3>2 DEF IsRequest
    <2>5. ASSUME reply' # <<>> PROVE reply'[1].kind \in {"Nack", Expect(r)}
      <3>1. \/ Sends(SendNack(command))
            \/ command \in DOMAIN Writes /\ Sends(Disposition(command))
        BY <2>1 DEF FeedCrc, DispatchWrite
      <3>2. CASE Sends(SendNack(command))
        BY <2>5, <3>2, DispatchKinds, SendsKinds
      <3>3. CASE command \in DOMAIN Writes /\ Sends(Disposition(command))
        <4> DEFINE k == IF Writes[command].semantic = "write" THEN "Ack" ELSE "Data"
        <4>1. \A o \in Disposition(command) : Outcome({"Nack", k}, o)
          BY <3>3, DispositionKinds
        <4>2. k = Expect(r)
          <5>1. r.op = Writes[r.cmd].semantic
            BY <1>7, <1>11, <1>13, <3>3, RequestFacts
          <5>. QED
            BY <1>11, <1>13, <5>1 DEF Expect
        <4> HIDE DEF k
        <4>3. reply'[1].kind \in {"Nack", k}
          BY <2>5, <3>3, <4>1, SendsKinds
        <4>. QED
          BY <4>2, <4>3
      <3>. QED
        BY <3>1, <3>2, <3>3
    <2>. QED
      BY <2>2, <2>3, <2>4, <2>5
  <1>. QED
    BY <1>5, <1>6, <1>8, <1>10, <1>12, <1>13 DEF Inv, TypeOK, States

-----------------------------------------------------------------------------
(* What the device puts on the line.                                         *)

(* The frame of a reply is one the host's parser takes.                      *)
LEMMA ReplySendable ==
  ASSUME NEW r \in Reply, NEW p \in Answers
  PROVE  /\ HP!Sendable(ReplyFrame(r, p))
         /\ ReplyFrame(r, p).kind = r.kind
         /\ r.kind # "Notification" => ReplyFrame(r, p).command = r.command
         /\ r.kind \in {"Data", "Notification"} => ReplyFrame(r, p).payload = p
  <1>1. /\ r.kind \in {"Nack", "Ack", "Data", "Notification"} /\ r.command \in Byte
        /\ p \in Seq(Byte) /\ Len(p) <= MAX_PAYLOAD /\ crc8(p) \in Byte
    BY AnswersAssumption, ChecksumAssumption DEF Reply
  <1>2. Len(p) <= HOST_MAX_PAYLOAD
    <2>1. Len(p) \in Nat /\ MAX_PAYLOAD \in Nat /\ HOST_MAX_PAYLOAD \in Nat
          /\ MAX_PAYLOAD <= HOST_MAX_PAYLOAD
      BY <1>1, SizesAssumption, LinkSizesAssumption
    <2>. QED
      BY <1>1, <2>1
  <1>3. CASE r.kind \in {"Nack", "Ack"}
    <2>1. ReplyFrame(r, p) = [kind |-> r.kind, command |-> r.command]
      BY <1>3 DEF ReplyFrame
    <2>2. [kind |-> r.kind, command |-> r.command] \in [kind: {"Nack", "Ack"}, command: Byte]
      BY <1>1, <1>3
    <2>. QED
      BY <1>3, <2>1, <2>2, SameByte DEF HP!Sendable, HP!Short, HP!Frame
  <1>4. CASE r.kind = "Data"
    <2>1. ReplyFrame(r, p) = [kind |-> "Data", command |-> r.command, payload |-> p]
      BY <1>4 DEF ReplyFrame
    <2>2. [kind |-> "Data", command |-> r.command, payload |-> p]
            \in [kind: {"Data"}, command: Byte, payload: Seq(Byte)]
      BY <1>1
    <2>. QED
      BY <1>1, <1>2, <1>4, <2>1, <2>2, SameByte DEF HP!Sendable, HP!Short, HP!Frame
  <1>5. CASE r.kind = "Notification"
    <2>1. ReplyFrame(r, p) = [kind |-> "Notification", payload |-> p]
      BY <1>5 DEF ReplyFrame
    <2>2. [kind |-> "Notification", payload |-> p] \in [kind: {"Notification"}, payload: Seq(Byte)]
      BY <1>1
    <2>. QED
      BY <1>1, <1>2, <1>5, <2>1, <2>2, SameByte DEF HP!Sendable, HP!Short, HP!Frame
  <1>. QED
    BY <1>1, <1>3, <1>4, <1>5

(* Its bytes.                                                                *)
LEMMA SendableBytes ==
  ASSUME NEW f, HP!Sendable(f)
  PROVE  /\ HP!Spells(H!Encode(f, 0, 0), f, 0, 0)
         /\ H!Encode(f, 0, 0) \in Seq(Byte)
         /\ Len(H!Encode(f, 0, 0)) \in Nat /\ Len(H!Encode(f, 0, 0)) >= 3
         /\ f.kind \in {"Data", "Notification"} =>
              Len(f.payload) \in Nat /\ Len(H!Encode(f, 0, 0)) = 6 + Len(f.payload)
  <1> DEFINE e == HP!Encode(f, 0, 0)
  <1>0. H!Encode(f, 0, 0) = e
    BY SameEncode
  <1>1. 0 \in HP!Byte
    BY SameByte, Constants
  <1>2. HP!Spells(e, f, 0, 0)
    BY <1>1, HostConstants, SameByte, HP!EncodeFacts
  <1> HIDE DEF e
  <1>3. Len(e) \in Nat /\ Len(e) >= 3
    BY <1>2, HostConstants, SameByte, HP!SpelledLength
  <1>4. e \in Seq(Byte)
    BY <1>2, SameByte DEF HP!Spells
  <1>5. ASSUME f.kind \in {"Data", "Notification"}
        PROVE  Len(f.payload) \in Nat /\ Len(e) = 6 + Len(f.payload)
    <2>1. ~HP!Short(f)
      BY <1>5 DEF HP!Short
    <2>2. f.payload \in Seq(HP!Byte)
      BY <2>1, HostConstants, SameByte, HP!SendableFacts
    <2>3. Len(f.payload) \in Nat
      BY <2>2
    <2>4. Len(e) = HP!Lead + 5 + Len(f.payload)
      BY <1>2, <2>1 DEF HP!Spells
    <2>5. HP!Lead = 1
      BY DEF HP!Lead
    <2>. QED
      BY <2>3, <2>4, <2>5
  <1>. QED
    BY <1>0, <1>2, <1>3, <1>4, <1>5

(* sendFrame puts bytes on the line: the whole frame or its first bytes.     *)
LEMMA LineBytesFacts ==
  ASSUME NEW r \in Reply, NEW p \in Answers, NEW bytes \in LineBytes(r, p),
         ~r.whole => r.kind \in {"Data", "Notification"}
  PROVE  /\ bytes \in Seq(Byte)
         /\ r.whole => bytes = H!Encode(ReplyFrame(r, p), 0, 0)
  <1> DEFINE f == ReplyFrame(r, p)
             e == H!Encode(f, 0, 0)
  <1>1. /\ HP!Sendable(f) /\ f.kind = r.kind
        /\ r.kind \in {"Data", "Notification"} => f.payload = p
    BY ReplySendable
  <1> HIDE DEF f
  <1>2. /\ e \in Seq(Byte) /\ Len(e) \in Nat
        /\ f.kind \in {"Data", "Notification"} => Len(f.payload) \in Nat /\ Len(e) = 6 + Len(f.payload)
    BY <1>1, SendableBytes
  <1> HIDE DEF e
  <1>3. CASE r.whole
    <2>1. bytes = e
      BY <1>3 DEF LineBytes, e, f
    <2>. QED
      BY <1>2, <2>1 DEF e, f
  <1>4. CASE ~r.whole
    <2>1. Len(p) \in Nat /\ Len(e) = 6 + Len(p)
      BY <1>1, <1>2, <1>4
    <2>2. bytes = SubSeq(e, 1, 5) \/ bytes = SubSeq(e, 1, 5 + Len(p))
      BY <1>4 DEF LineBytes, e, f
    <2>3. 5 \in Nat /\ 5 <= Len(e) /\ 5 + Len(p) \in Nat /\ 5 + Len(p) <= Len(e)
      BY <2>1
    <2>4. \A m \in Nat : m <= Len(e) => SubSeq(e, 1, m) \in Seq(Byte)
      BY <1>2
    <2>. QED
      BY <1>4, <2>2, <2>3, <2>4
  <1>. QED
    BY <1>3, <1>4

-----------------------------------------------------------------------------
(* The invariant of the link.                                                *)

LinkType ==
  /\ phase \in {"idle", "writing", "waiting"}
  /\ request = <<>> \/ (request[1] \in Requests /\ request = <<request[1]>>)
  /\ phase # "idle" => request # <<>>
  /\ unsent \in Seq(Byte) /\ toDevice \in Seq(Byte) /\ toHost \in Seq(Byte)
  /\ waited \in Nat /\ elapsed \in 0..MaxLatency
  /\ answer = <<>> \/ (HP!Sendable(answer[1]) /\ answer = <<answer[1]>>)

\* The bytes the device has received of a frame, and all it will have received
\* when what is under way has arrived; the same for the host
Started == IF state = "SYNC" THEN <<>> ELSE span
Incoming == Started \o (toDevice \o unsent)
HostStarted == IF hState = "Sync" THEN <<>> ELSE hSpan
HostIncoming == HostStarted \o toHost

\* The client waits no longer than what it waits for may take, and no byte of
\* a request comes when the device has already given up on it
Times ==
  /\ phase = "waiting" /\ (unsent # <<>> \/ toDevice # <<>>) => waited <= elapsed
  /\ phase = "waiting" /\ state # "SYNC" => waited <= age + MaxLatency
  /\ quiet /\ state # "SYNC" /\ toDevice \o unsent # <<>> => age <= elapsed

\* In an exchange with a quiet device: nothing is left for it to receive, or
\* the first bytes of the request, and the device has not answered yet
RequestOnTheWay ==
  quiet =>
  /\ request # <<>> /\ Len(request[1].data) <= MAX_PAYLOAD
  /\ \/ Incoming = <<>>
     \/ /\ ~ran /\ answer = <<>>
        /\ \E g \in Variants(request[1]) :
             Begins(Incoming, g) /\ (state # "SYNC" => Len(span) < Len(g))

\* The host has still to receive frame f, and then these bytes
Due(f, rest) ==
  /\ HostIncoming = H!Encode(f, 0, 0) \o rest
  /\ hState # "Sync" => Len(hSpan) < Len(H!Encode(f, 0, 0))

Notice(p) == [kind |-> "Notification", payload |-> p]

\* The answer, perhaps behind a notification
AnswerDue ==
  /\ answer # <<>>
  /\ \/ Due(answer[1], <<>>)
     \/ \E p \in Answers : Due(Notice(p), H!Encode(answer[1], 0, 0))

\* In an exchange on a link at rest of which no reply byte was lost: nothing is
\* left for the host to receive but the answer and notifications
ReplyOnTheWay ==
  (rested /\ "reply" \notin faults) =>
  /\ quiet
  /\ HostIncoming = <<>> \/ AnswerDue \/ \E p \in Answers : Due(Notice(p), <<>>)

\* Without a fault the request or its answer is under way, whole, as long as
\* the client waits
NothingMissing ==
  (rested /\ faults = {} /\ phase # "idle") =>
  /\ \/ answer = <<>> /\ Len(Incoming) = Len(FrameOf(request[1]))
     \/ AnswerDue /\ Completes(request[1], answer[1])
  /\ phase = "waiting" => waited <= elapsed

LinkInv ==
  Inv /\ HP!Inv /\ LinkType /\ Times /\ RequestOnTheWay /\ ReplyOnTheWay /\ NothingMissing

-----------------------------------------------------------------------------
(* Every step of the link is a step of the device, or leaves it alone.       *)
LEMMA DeviceStep == LinkType /\ [LinkNext]_linkVars => [Next]_vars
  <1> SUFFICES ASSUME LinkType, [LinkNext]_linkVars PROVE Next \/ UNCHANGED vars
    OBVIOUS
  <1>1. CASE UNCHANGED linkVars
    BY <1>1 DEF linkVars
  <1>2. ASSUME NEW p, DeviceReads(p) PROVE Next
    <2>1. Head(toDevice) \in Byte /\ FeedByte(Head(toDevice))
      BY <1>2 DEF DeviceReads, LinkType
    <2>. QED
      BY <2>1 DEF Next
  <1>3. ASSUME NEW p, DeviceNotifies(p) PROVE Next
    BY <1>3 DEF DeviceNotifies, Next
  <1>4. CASE DeviceTicks \/ DeviceRestarts \/ Tick
    BY <1>4 DEF DeviceTicks, DeviceRestarts, Tick, Next
  <1>5. ASSUME NEW r, Send(r) PROVE UNCHANGED vars
    BY <1>5 DEF Send
  <1>6. CASE WriteSome \/ WriteDone \/ WriteFails \/ TakeOutgoing \/ HostReads \/ Timeout
    BY <1>6 DEF WriteSome, WriteDone, WriteFails, TakeOutgoing, HostReads, Timeout
  <1>7. CASE LineLoses \/ LineDamages \/ HostRestarts
    BY <1>7 DEF LineLoses, LineDamages, HostRestarts
  <1>. QED
    BY <1>1, <1>2, <1>3, <1>4, <1>5, <1>6, <1>7 DEF LinkNext

(* The same for the host's parser.                                           *)
LEMMA HostStep ==
  ASSUME LinkType, [LinkNext]_linkVars
  PROVE  (\E b \in Byte : H!Feed(b)) \/ H!Reset \/ UNCHANGED parser
  <1>1. CASE UNCHANGED linkVars
    BY <1>1 DEF linkVars
  <1>2. CASE HostReads
    <2>1. Head(toHost) \in Byte /\ H!Feed(Head(toHost))
      BY <1>2 DEF HostReads, LinkType
    <2>. QED
      BY <2>1
  <1>3. CASE HostRestarts
    BY <1>3 DEF HostRestarts
  <1>4. ASSUME NEW r, Send(r) PROVE UNCHANGED parser
    BY <1>4 DEF Send
  <1>5. CASE WriteSome \/ WriteDone \/ WriteFails \/ TakeOutgoing \/ Timeout
    BY <1>5 DEF WriteSome, WriteDone, WriteFails, TakeOutgoing, Timeout
  <1>6. ASSUME NEW p, DeviceReads(p) \/ DeviceNotifies(p) PROVE UNCHANGED parser
    BY <1>6 DEF DeviceReads, DeviceNotifies
  <1>7. CASE LineLoses \/ LineDamages \/ DeviceTicks \/ DeviceRestarts \/ Tick
    BY <1>7 DEF LineLoses, LineDamages, DeviceTicks, DeviceRestarts, Tick
  <1>. QED
    BY <1>1, <1>2, <1>3, <1>4, <1>5, <1>6, <1>7 DEF LinkNext

(* What the device sends appends to the line, byte by byte.                  *)
LEMMA DeviceSendsFacts ==
  ASSUME LinkType, NEW p \in Answers, DeviceSends(p), TypeOK', LongIfCut'
  PROVE  /\ toHost' \in Seq(Byte)
         /\ reply' = <<>> => toHost' = toHost
         /\ reply' # <<>> =>
              /\ reply'[1] \in Reply
              /\ HP!Sendable(ReplyFrame(reply'[1], p))
              /\ reply'[1].whole =>
                   toHost' = toHost \o H!Encode(ReplyFrame(reply'[1], p), 0, 0)
  <1>1. toHost \in Seq(Byte)
    BY DEF LinkType
  <1>2. CASE reply' = <<>>
    BY <1>1, <1>2 DEF DeviceSends
  <1>3. CASE reply' # <<>>
    <2>1. PICK r : r = reply'[1]
      OBVIOUS
    <2>2. r \in Reply /\ (~r.whole => r.kind \in {"Data", "Notification"})
      BY <1>3, <2>1 DEF TypeOK, LongIfCut
    <2>3. PICK bytes \in LineBytes(r, p) : toHost' = toHost \o bytes
      BY <1>3, <2>1 DEF DeviceSends
    <2>4. bytes \in Seq(Byte) /\ (r.whole => bytes = H!Encode(ReplyFrame(r, p), 0, 0))
      BY <2>2, LineBytesFacts
    <2>5. toHost' \in Seq(Byte)
      BY <1>1, <2>3, <2>4, ConcatAt
    <2>6. HP!Sendable(ReplyFrame(r, p))
      BY <2>2, ReplySendable
    <2>. QED
      BY <1>3, <2>1, <2>2, <2>3, <2>4, <2>5, <2>6
  <1>. QED
    BY <1>2, <1>3

(* A byte that arrives at the device.                                        *)
LEMMA DeviceReadsFacts ==
  ASSUME Inv, LinkType, NEW p \in Answers, DeviceReads(p)
  PROVE  /\ toDevice # <<>> /\ Head(toDevice) \in Byte /\ FeedByte(Head(toDevice))
         /\ toDevice' = Tail(toDevice) /\ toDevice' \in Seq(Byte)
         /\ Inv' /\ Answered /\ toHost' \in Seq(Byte)
         /\ unsent' = unsent /\ phase' = phase /\ request' = request
         /\ waited' = waited /\ elapsed' = elapsed /\ quiet' = quiet /\ rested' = rested
         /\ hState' = hState /\ hSpan' = hSpan
         /\ ran' = (ran \/ called' # <<>>)
         /\ sendOk' => faults' = faults
         /\ ~sendOk' => "reply" \in faults'
         /\ reply' = <<>> => toHost' = toHost /\ answer' = answer
         /\ reply' # <<>> =>
              /\ reply'[1] \in Reply
              /\ HP!Sendable(ReplyFrame(reply'[1], p))
              /\ answer' = <<ReplyFrame(reply'[1], p)>>
              /\ reply'[1].whole =>
                   toHost' = toHost \o H!Encode(ReplyFrame(reply'[1], p), 0, 0)
  <1>1. /\ toDevice # <<>> /\ FeedByte(Head(toDevice)) /\ toDevice' = Tail(toDevice)
        /\ DeviceSends(p)
        /\ unsent' = unsent /\ phase' = phase /\ request' = request
        /\ waited' = waited /\ elapsed' = elapsed /\ quiet' = quiet /\ rested' = rested
        /\ hState' = hState /\ hSpan' = hSpan
        /\ ran' = (ran \/ called' # <<>>)
        /\ sendOk' => faults' = faults
        /\ ~sendOk' => "reply" \in faults'
        /\ answer' = IF reply' = <<>> THEN answer ELSE <<ReplyFrame(reply'[1], p)>>
    BY DEF DeviceReads, Fault, times, parser
  <1>2. Head(toDevice) \in Byte /\ Tail(toDevice) \in Seq(Byte)
    BY <1>1 DEF LinkType
  <1>3. Inv' /\ Answered
    BY <1>1, <1>2, NextInv DEF Next
  <1>4. TypeOK' /\ LongIfCut'
    BY <1>1, <1>3, FeedCuts DEF Inv
  <1>5. /\ toHost' \in Seq(Byte)
        /\ reply' = <<>> => toHost' = toHost
        /\ reply' # <<>> =>
              /\ reply'[1] \in Reply
              /\ HP!Sendable(ReplyFrame(reply'[1], p))
              /\ reply'[1].whole =>
                   toHost' = toHost \o H!Encode(ReplyFrame(reply'[1], p), 0, 0)
    BY <1>1, <1>4, DeviceSendsFacts
  <1>. QED
    BY <1>1, <1>2, <1>3, <1>5

(* A notification of the device.                                             *)
LEMMA DeviceNotifiesFacts ==
  ASSUME Inv, LinkType, NEW p \in Answers, DeviceNotifies(p)
  PROVE  /\ toHost = <<>> /\ toHost' \in Seq(Byte)
         /\ toDevice' = toDevice /\ unsent' = unsent /\ phase' = phase /\ request' = request
         /\ waited' = waited /\ elapsed' = elapsed /\ quiet' = quiet /\ rested' = rested
         /\ ran' = ran /\ answer' = answer /\ hState' = hState /\ hSpan' = hSpan
         /\ state' = state /\ age' = age /\ (state # "SYNC" => span' = span)
         /\ called' = <<>>
         /\ sendOk' => faults' = faults /\ toHost' = H!Encode(Notice(p), 0, 0)
         /\ ~sendOk' => "reply" \in faults'
  <1>1. /\ toHost = <<>> /\ Notify /\ reply' # <<>> /\ DeviceSends(p)
        /\ toDevice' = toDevice /\ unsent' = unsent /\ phase' = phase /\ request' = request
        /\ waited' = waited /\ elapsed' = elapsed /\ quiet' = quiet /\ rested' = rested
        /\ ran' = ran /\ answer' = answer /\ hState' = hState /\ hSpan' = hSpan
        /\ sendOk' => faults' = faults
        /\ ~sendOk' => "reply" \in faults'
    BY DEF DeviceNotifies, Fault, times, parser, exchange
  <1>2. /\ state' = state /\ age' = age /\ (state # "SYNC" => span' = span) /\ called' = <<>>
    BY <1>1 DEF Notify, parserVars
  <1>3. reply'[1].kind = "Notification" /\ (sendOk' => reply'[1].whole)
    BY <1>1, NotifyKind
  <1>4. TypeOK' /\ LongIfCut'
    BY <1>1, <1>3, NotifyInv DEF Inv, LongIfCut
  <1>5. /\ toHost' \in Seq(Byte)
        /\ reply'[1].whole => toHost' = toHost \o H!Encode(ReplyFrame(reply'[1], p), 0, 0)
    BY <1>1, <1>4, DeviceSendsFacts
  <1>6. ReplyFrame(reply'[1], p) = Notice(p)
    BY <1>3 DEF ReplyFrame, Notice
  <1>7. HP!Sendable(Notice(p))
    BY <1>1, <1>4, <1>6, DeviceSendsFacts
  <1>8. H!Encode(Notice(p), 0, 0) \in Seq(Byte)
    BY <1>7, SendableBytes
  <1>9. \A q \in Seq(Byte) : <<>> \o q = q
    OBVIOUS
  <1>10. sendOk' => toHost' = H!Encode(Notice(p), 0, 0)
    BY <1>1, <1>3, <1>5, <1>6, <1>8, <1>9
  <1>. QED
    BY <1>1, <1>2, <1>5, <1>10

(* Every step keeps the types.                                               *)
LEMMA LinkTypeStep ==
  ASSUME Inv, LinkType, [LinkNext]_linkVars
  PROVE  LinkType'
  <1>0. /\ phase \in {"idle", "writing", "waiting"}
        /\ request = <<>> \/ (request[1] \in Requests /\ request = <<request[1]>>)
        /\ phase # "idle" => request # <<>>
        /\ unsent \in Seq(Byte) /\ toDevice \in Seq(Byte) /\ toHost \in Seq(Byte)
        /\ waited \in Nat /\ elapsed \in 0..MaxLatency /\ <<>> \in Seq(Byte) /\ MaxLatency \in Nat
        /\ answer = <<>> \/ (HP!Sendable(answer[1]) /\ answer = <<answer[1]>>)
    BY LinkTimesAssumption DEF LinkType
  <1>1. CASE UNCHANGED linkVars
    BY <1>0, <1>1 DEF linkVars, lines, times, histories, exchange, LinkType
  <1>2. ASSUME NEW r \in Requests, Send(r) PROVE LinkType'
    <2>1. /\ unsent' = FrameOf(r) /\ request' = <<r>> /\ phase' \in {"writing", "waiting"}
          /\ waited' = 0 /\ elapsed' = 0 /\ answer' = <<>> /\ toDevice' = toDevice
          /\ toHost' = toHost
      BY <1>2 DEF Send
    <2>2. FrameOf(r) \in Seq(Byte)
      BY FrameOfFacts
    <2>. QED
      BY <1>0, <2>1, <2>2 DEF LinkType
  <1>3. CASE WriteSome
    <2>1. PICK n \in 1..Room :
            /\ n <= Len(unsent) /\ toDevice' = toDevice \o SubSeq(unsent, 1, n)
            /\ unsent' = SubSeq(unsent, n + 1, Len(unsent))
      BY <1>3 DEF WriteSome
    <2>2. n \in Nat /\ n >= 1
      <3>1. Room \in Int
        BY <1>0, LinkBoundsAssumption DEF Room
      <3>. QED
        BY <3>1
    <2>3. \A u \in Seq(Byte), m \in Nat : m >= 1 /\ m <= Len(u) =>
            SubSeq(u, 1, m) \in Seq(Byte) /\ SubSeq(u, m + 1, Len(u)) \in Seq(Byte)
      OBVIOUS
    <2>4. SubSeq(unsent, 1, n) \in Seq(Byte) /\ unsent' \in Seq(Byte)
      BY <1>0, <2>1, <2>2, <2>3
    <2>5. toDevice' \in Seq(Byte)
      BY <1>0, <2>1, <2>4, ConcatAt
    <2>6. /\ phase' = phase /\ request' = request /\ toHost' = toHost /\ waited' = waited
          /\ elapsed' = elapsed /\ answer' = answer
      BY <1>3 DEF WriteSome, times, histories, exchange
    <2>. QED
      BY <1>0, <2>4, <2>5, <2>6 DEF LinkType
  <1>4. CASE WriteDone \/ WriteFails \/ Timeout
    <2>1. /\ phase' \in {"idle", "waiting"} /\ request' = request /\ toHost' = toHost
          /\ waited' \in {0, waited} /\ elapsed' = elapsed /\ answer' = answer
          /\ unsent' \in {unsent, <<>>} /\ toDevice' = toDevice /\ phase # "idle"
      BY <1>4 DEF WriteDone, WriteFails, Timeout, times, lines, histories, exchange
    <2>2. waited' \in Nat /\ unsent' \in Seq(Byte)
      <3>1. waited \in Nat /\ unsent \in Seq(Byte) /\ <<>> \in Seq(Byte)
        BY <1>0
      <3>2. waited' \in Nat
        BY <2>1, <3>1
      <3>3. unsent' \in Seq(Byte)
        BY <2>1, <3>1
      <3>. QED
        BY <3>2, <3>3
    <2>3. phase' \in {"idle", "writing", "waiting"} /\ request # <<>>
      BY <1>0, <2>1
    <2>. QED
      BY <1>0, <2>1, <2>2, <2>3 DEF LinkType
  <1>5. CASE TakeOutgoing
    <2>1. /\ toDevice' = toDevice \o unsent /\ unsent' = <<>>
          /\ phase' = phase /\ request' = request /\ toHost' = toHost /\ waited' = waited
          /\ elapsed' = elapsed /\ answer' = answer
      BY <1>5 DEF TakeOutgoing, times, histories, exchange
    <2>2. toDevice' \in Seq(Byte)
      BY <1>0, <2>1, ConcatAt
    <2>. QED
      BY <1>0, <2>1, <2>2 DEF LinkType
  <1>6. CASE HostReads
    <2>1. /\ toHost # <<>> /\ toHost' = Tail(toHost) /\ phase' \in {phase, "idle"}
          /\ waited' \in {0, waited} /\ request' = request /\ unsent' = unsent
          /\ toDevice' = toDevice /\ elapsed' = elapsed /\ answer' = answer
      BY <1>6 DEF HostReads, histories, exchange
    <2>2. toHost' \in Seq(Byte)
      BY <1>0, <2>1
    <2>. QED
      BY <1>0, <2>1, <2>2 DEF LinkType
  <1>7. CASE DeviceTicks \/ DeviceRestarts
    <2>1. /\ phase' = phase /\ request' = request /\ toHost' = toHost /\ waited' = waited
          /\ elapsed' = elapsed /\ answer' = answer /\ unsent' = unsent /\ toDevice' = toDevice
      BY <1>7 DEF DeviceTicks, DeviceRestarts, times, lines, histories, exchange
    <2>. QED
      BY <1>0, <2>1 DEF LinkType
  <1>8. ASSUME NEW p \in Answers, DeviceReads(p) PROVE LinkType'
    <2>1. /\ toDevice' \in Seq(Byte) /\ toHost' \in Seq(Byte)
          /\ unsent' = unsent /\ phase' = phase /\ request' = request
          /\ waited' = waited /\ elapsed' = elapsed
          /\ answer' = answer \/
               /\ HP!Sendable(ReplyFrame(reply'[1], p))
               /\ answer' = <<ReplyFrame(reply'[1], p)>>
      BY <1>8, DeviceReadsFacts
    <2>2. answer' = <<>> \/ (HP!Sendable(answer'[1]) /\ answer' = <<answer'[1]>>)
      <3>1. PICK f : f = ReplyFrame(reply'[1], p)
        OBVIOUS
      <3>2. <<f>>[1] = f
        OBVIOUS
      <3>. QED
        BY <1>0, <2>1, <3>1, <3>2
    <2>3. answer' = <<>> \/ (HP!Sendable(answer[1])' /\ answer' = <<answer'[1]>>)
      BY <2>2 DEF HP!Sendable, HP!Short, HP!Frame
    <2>. QED
      BY <1>0, <2>1, <2>3 DEF LinkType
  <1>9. ASSUME NEW p \in Answers, DeviceNotifies(p) PROVE LinkType'
    <2>1. /\ toDevice' = toDevice /\ toHost' \in Seq(Byte)
          /\ unsent' = unsent /\ phase' = phase /\ request' = request
          /\ waited' = waited /\ elapsed' = elapsed /\ answer' = answer
      BY <1>9, DeviceNotifiesFacts
    <2>. QED
      BY <1>0, <2>1 DEF LinkType
  <1>10. CASE LineLoses
    <2>1. /\ phase' = phase /\ request' = request /\ waited' = waited /\ elapsed' = elapsed
          /\ answer' = answer /\ unsent' \in {unsent, <<>>} /\ toDevice' \in {toDevice, <<>>}
          /\ toHost' \in {toHost, <<>>}
      BY <1>10 DEF LineLoses, times, exchange
    <2>. QED
      BY <1>0, <2>1 DEF LinkType
  <1>11. CASE LineDamages
    <2>1. /\ phase' = phase /\ request' = request /\ waited' = waited /\ elapsed' = elapsed
          /\ answer' = answer /\ toDevice' = toDevice /\ toHost' = toHost
      BY <1>11 DEF LineDamages, times, exchange
    <2>2. PICK i \in 6..Len(unsent) : unsent' = [unsent EXCEPT ![i] = (@ + 1) % Radix]
      BY <1>11 DEF LineDamages
    <2>3. Len(unsent) \in Nat /\ i \in 1..Len(unsent)
      BY <1>0
    <2>4. (unsent[i] + 1) % Radix \in Byte
      <3>1. unsent[i] \in Byte
        BY <1>0, <2>3
      <3>2. unsent[i] + 1 \in Nat /\ Radix \in Nat /\ Radix > 0
        BY <3>1, Constants DEF Byte
      <3>. QED
        BY <3>2 DEF Byte
    <2>5. unsent' \in Seq(Byte)
      BY <1>0, <2>2, <2>3, <2>4
    <2>. QED
      BY <1>0, <2>1, <2>5 DEF LinkType
  <1>12. CASE HostRestarts
    <2>1. /\ phase' = "idle" /\ request' = request /\ waited' = 0 /\ elapsed' = elapsed
          /\ answer' = answer /\ toDevice' = toDevice /\ unsent' = <<>>
          /\ toHost' \in {toHost, <<>>}
      BY <1>12 DEF HostRestarts, exchange
    <2>. QED
      BY <1>0, <2>1 DEF LinkType
  <1>13. CASE Tick
    <2>1. /\ phase' = phase /\ request' = request /\ elapsed' = Later(elapsed, MaxLatency)
          /\ waited' \in {waited, Later(waited, ResponseTimeout)}
          /\ answer' = answer /\ toDevice' = toDevice /\ unsent' = unsent /\ toHost' = toHost
      BY <1>13 DEF Tick, lines, histories, exchange
    <2>2. elapsed' \in 0..MaxLatency /\ waited' \in Nat
      BY <1>0, <2>1, LinkTimesAssumption DEF Later
    <2>. QED
      BY <1>0, <2>1, <2>2 DEF LinkType
  <1>. QED
    BY <1>1, <1>2, <1>3, <1>4, <1>5, <1>6, <1>7, <1>8, <1>9, <1>10, <1>11, <1>12, <1>13
       DEF LinkNext

-----------------------------------------------------------------------------
(* What is on the way to the device.                                         *)

(* The bytes of three parts.                                                 *)
LEMMA ComingFacts ==
  ASSUME NEW s \in Seq(Byte), NEW d \in Seq(Byte), NEW u \in Seq(Byte)
  PROVE  LET c == s \o (d \o u)
         IN  /\ d \o u \in Seq(Byte) /\ Len(d \o u) = Len(d) + Len(u)
             /\ c \in Seq(Byte) /\ Len(c) = Len(s) + (Len(d) + Len(u))
             /\ \A j \in 1..Len(s) : c[j] = s[j]
             /\ \A j \in 1..Len(d) : c[Len(s) + j] = d[j]
             /\ Begins(s, c) /\ Begins(s \o (d \o <<>>), c) /\ Begins(c, c)
  <1> DEFINE t == d \o u
             c == s \o t
  <1>1. /\ t \in Seq(Byte) /\ Len(t) = Len(d) + Len(u)
        /\ \A j \in 1..Len(d) : t[j] = d[j]
    BY ConcatAt
  <1> HIDE DEF t
  <1>2. /\ c \in Seq(Byte) /\ Len(c) = Len(s) + Len(t)
        /\ \A j \in 1..Len(s) : c[j] = s[j]
        /\ \A j \in 1..Len(t) : c[Len(s) + j] = t[j]
    <2>1. t \in Seq(Byte)
      BY <1>1
    <2>. QED
      BY <2>1, ConcatAt
  <1> HIDE DEF c
  <1>3. Len(s) \in Nat /\ Len(d) \in Nat /\ Len(u) \in Nat /\ Len(t) \in Nat
    BY <1>1
  <1>4. \A j \in 1..Len(d) : c[Len(s) + j] = d[j]
    BY <1>1, <1>2, <1>3
  <1>5. Begins(s, c) /\ Begins(c, c)
    BY <1>2, <1>3 DEF Begins
  <1>6. Begins(s \o (d \o <<>>), c)
    <2>1. d \o <<>> = d
      BY ConcatAssoc
    <2>2. /\ s \o d \in Seq(Byte) /\ Len(s \o d) = Len(s) + Len(d)
          /\ \A j \in 1..Len(s) : (s \o d)[j] = s[j]
          /\ \A j \in 1..Len(d) : (s \o d)[Len(s) + j] = d[j]
      BY ConcatAt
    <2>3. ASSUME NEW j \in 1..Len(s \o d) PROVE (s \o d)[j] = c[j]
      <3>1. CASE j <= Len(s)
        BY <1>2, <1>3, <2>2, <3>1
      <3>2. CASE ~(j <= Len(s))
        <4>1. j - Len(s) \in 1..Len(d) /\ Len(s) + (j - Len(s)) = j
          BY <1>3, <2>2, <3>2
        <4>. QED
          BY <1>4, <2>2, <4>1
      <3>. QED
        BY <3>1, <3>2
    <2>4. Len(s \o d) <= Len(c)
      BY <1>1, <1>2, <1>3, <2>2
    <2>. QED
      BY <2>1, <2>3, <2>4 DEF Begins
  <1>7. c = s \o (d \o u) /\ t = d \o u
    BY DEF c, t
  <1>. QED
    BY <1>1, <1>2, <1>4, <1>5, <1>6, <1>7

(* What begins a beginning begins the whole.                                 *)
LEMMA BeginsTrans ==
  ASSUME NEW s \in Seq(Byte), NEW t \in Seq(Byte), NEW g \in Seq(Byte),
         Begins(s, t), Begins(t, g)
  PROVE  Begins(s, g)
  <1>1. Len(s) \in Nat /\ Len(t) \in Nat /\ Len(g) \in Nat
    OBVIOUS
  <1>2. Len(s) <= Len(t) /\ Len(t) <= Len(g) /\ \A j \in 1..Len(s) : s[j] = t[j]
    BY DEF Begins
  <1>3. \A j \in 1..Len(t) : t[j] = g[j]
    BY DEF Begins
  <1>. QED
    BY <1>1, <1>2, <1>3 DEF Begins

(* Both before and after a step it is a sequence of bytes.                   *)
LEMMA IncomingTypes ==
  ASSUME Inv, LinkType, Inv', LinkType'
  PROVE  /\ Started \in Seq(Byte) /\ Started' \in Seq(Byte)
         /\ Incoming \in Seq(Byte) /\ Incoming' \in Seq(Byte)
         /\ Incoming' = Started' \o (toDevice' \o unsent')
  <1>1. /\ span \in Seq(Byte) /\ span' \in Seq(Byte) /\ <<>> \in Seq(Byte)
        /\ toDevice \in Seq(Byte) /\ unsent \in Seq(Byte)
        /\ toDevice' \in Seq(Byte) /\ unsent' \in Seq(Byte)
    BY DEF Inv, TypeOK, LinkType
  <1>2. Started \in Seq(Byte) /\ Started' \in Seq(Byte)
    BY <1>1 DEF Started
  <1>3. Incoming = Started \o (toDevice \o unsent) /\ Incoming' = Started' \o (toDevice' \o unsent')
    BY DEF Incoming
  <1>. QED
    BY <1>1, <1>2, <1>3, ComingFacts

(* A step that at most cuts off the end of what is coming.                   *)
LEMMA RequestKept ==
  ASSUME Inv, LinkType, Inv', LinkType', RequestOnTheWay,
         quiet' => quiet, request' = request, ran' = ran, answer' = answer,
         Begins(Incoming', Incoming), state' # "SYNC" => state # "SYNC" /\ span' = span
  PROVE  RequestOnTheWay'
  <1> SUFFICES ASSUME quiet'
               PROVE  /\ request' # <<>> /\ Len(request'[1].data) <= MAX_PAYLOAD
                      /\ \/ Incoming' = <<>>
                         \/ /\ ~ran' /\ answer' = <<>>
                            /\ \E g \in Variants(request'[1]) :
                                 Begins(Incoming', g) /\ (state' # "SYNC" => Len(span') < Len(g))
    BY DEF RequestOnTheWay
  <1>1. Incoming \in Seq(Byte) /\ Incoming' \in Seq(Byte)
    BY IncomingTypes
  <1>2. /\ request # <<>> /\ Len(request[1].data) <= MAX_PAYLOAD
        /\ \/ Incoming = <<>>
           \/ /\ ~ran /\ answer = <<>>
              /\ \E g \in Variants(request[1]) :
                   Begins(Incoming, g) /\ (state # "SYNC" => Len(span) < Len(g))
    BY DEF RequestOnTheWay
  <1>3. request[1] \in Requests
    BY <1>2 DEF LinkType
  <1>4. CASE Incoming = <<>>
    <2>1. Len(Incoming') = 0
      BY <1>1, <1>4 DEF Begins
    <2>2. Incoming' = <<>>
      BY <1>1, <2>1
    <2>. QED
      BY <1>2, <2>2
  <1>5. ASSUME ~ran, answer = <<>>, NEW g \in Variants(request[1]), Begins(Incoming, g),
               state # "SYNC" => Len(span) < Len(g)
        PROVE  Begins(Incoming', g) /\ (state' # "SYNC" => Len(span') < Len(g))
    <2>1. g \in Seq(Byte)
      BY <1>2, <1>3, VariantFacts DEF Spelled
    <2>. QED
      BY <1>1, <1>5, <2>1, BeginsTrans
  <1>. QED
    BY <1>2, <1>4, <1>5

(* The same device with the same bytes coming, or a part of them.            *)
LEMMA ComingKept ==
  ASSUME Inv, LinkType, Inv', LinkType',
         state' = state, state # "SYNC" => span' = span,
         \/ toDevice' \o unsent' = toDevice \o unsent
         \/ unsent' = <<>> /\ (toDevice' = toDevice \/ toDevice' = <<>>)
  PROVE  /\ Begins(Incoming', Incoming)
         /\ state' # "SYNC" => state # "SYNC" /\ span' = span
         /\ toDevice' \o unsent' = toDevice \o unsent => Incoming' = Incoming
  <1>1. Started' = Started
    BY DEF Started
  <1>2. /\ Started \in Seq(Byte) /\ toDevice \in Seq(Byte) /\ unsent \in Seq(Byte)
        /\ Incoming' = Started' \o (toDevice' \o unsent')
        /\ Incoming = Started \o (toDevice \o unsent)
    BY IncomingTypes DEF LinkType, Incoming
  <1>3. CASE toDevice' \o unsent' = toDevice \o unsent
    BY <1>1, <1>2, <1>3, ComingFacts
  <1>4. ASSUME unsent' = <<>>, toDevice' = toDevice \/ toDevice' = <<>>
        PROVE  Begins(Incoming', Incoming)
    <2>1. Begins(Started, Incoming) /\ Begins(Started \o (toDevice \o <<>>), Incoming)
      BY <1>2, ComingFacts
    <2>2. Started \o (<<>> \o <<>>) = Started
      <3>1. <<>> \in Seq(Byte)
        OBVIOUS
      <3>2. <<>> \o <<>> = <<>>
        BY <3>1, ConcatAssoc
      <3>. QED
        BY <1>2, <3>1, <3>2, ConcatAssoc
    <2>. QED
      BY <1>1, <1>2, <1>4, <2>1, <2>2
  <1>. QED
    BY <1>3, <1>4

(* write_all in pieces, and the page taking the browser's tx, move bytes.    *)
LEMMA BytesMove ==
  ASSUME LinkType, WriteSome \/ TakeOutgoing
  PROVE  toDevice' \o unsent' = toDevice \o unsent
  <1>0. toDevice \in Seq(Byte) /\ unsent \in Seq(Byte) /\ Len(toDevice) \in Nat /\ Len(unsent) \in Nat
    BY DEF LinkType
  <1>1. CASE WriteSome
    <2>1. PICK n \in 1..Room :
            /\ n <= Len(unsent) /\ toDevice' = toDevice \o SubSeq(unsent, 1, n)
            /\ unsent' = SubSeq(unsent, n + 1, Len(unsent))
      BY <1>1 DEF WriteSome
    <2>2. n \in 1..Len(unsent)
      <3>1. Room \in Int
        BY <1>0, LinkBoundsAssumption DEF Room
      <3>. QED
        BY <1>0, <2>1, <3>1
    <2>3. SubSeq(unsent, 1, n) \o SubSeq(unsent, n + 1, Len(unsent)) = unsent
      BY <1>0, <2>2, CutFacts
    <2>4. SubSeq(unsent, 1, n) \in Seq(Byte) /\ SubSeq(unsent, n + 1, Len(unsent)) \in Seq(Byte)
      <3>1. \A u \in Seq(Byte) : \A m \in 1..Len(u) :
              SubSeq(u, 1, m) \in Seq(Byte) /\ SubSeq(u, m + 1, Len(u)) \in Seq(Byte)
        OBVIOUS
      <3>. QED
        BY <1>0, <2>2, <3>1
    <2> DEFINE a == SubSeq(unsent, 1, n)
               b == SubSeq(unsent, n + 1, Len(unsent))
    <2>5. toDevice' = toDevice \o a /\ unsent' = b /\ a \o b = unsent
      BY <2>1, <2>3
    <2>6. a \in Seq(Byte) /\ b \in Seq(Byte) /\ toDevice \in Seq(Byte)
      BY <1>0, <2>4
    <2> HIDE DEF a, b
    <2>7. (toDevice \o a) \o b = toDevice \o (a \o b)
      BY <2>6, ConcatAssoc
    <2>. QED
      BY <2>5, <2>7
  <1>2. CASE TakeOutgoing
    <2>1. toDevice' = toDevice \o unsent /\ unsent' = <<>> /\ toDevice \o unsent \in Seq(Byte)
      BY <1>0, <1>2, ConcatAt DEF TakeOutgoing
    <2>2. (toDevice \o unsent) \o <<>> = toDevice \o unsent
      BY <2>1, ConcatAssoc
    <2>. QED
      BY <2>1, <2>2
  <1>. QED
    BY <1>1, <1>2

\* Steps that leave the device's parser and the bytes on the way to it as they are
Idle ==
  \/ UNCHANGED linkVars \/ WriteSome \/ TakeOutgoing \/ WriteDone \/ HostReads \/ Timeout
  \/ \E p \in Answers : DeviceNotifies(p)
  \/ Tick

\* Steps that take away bytes on their way
Losing == WriteFails \/ LineLoses \/ HostRestarts

(* The steps that change neither.                                            *)
LEMMA IdleFacts ==
  ASSUME Inv, LinkType, Idle
  PROVE  /\ state' = state /\ (state # "SYNC" => span' = span)
         /\ toDevice' \o unsent' = toDevice \o unsent
         /\ quiet' = quiet /\ request' = request /\ ran' = ran /\ answer' = answer
         /\ rested' = rested
  <1>1. CASE UNCHANGED linkVars
    BY <1>1 DEF linkVars, vars, parserVars, lines, histories, exchange
  <1>2. CASE WriteSome \/ TakeOutgoing
    <2>1. toDevice' \o unsent' = toDevice \o unsent
      BY <1>2, BytesMove
    <2>2. UNCHANGED vars /\ UNCHANGED histories /\ request' = request
      BY <1>2 DEF WriteSome, TakeOutgoing
    <2>. QED
      BY <2>1, <2>2 DEF vars, parserVars, histories, exchange
  <1>3. CASE WriteDone \/ HostReads \/ Timeout
    <2>1. UNCHANGED vars /\ UNCHANGED histories /\ request' = request
          /\ unsent' = unsent /\ toDevice' = toDevice
      BY <1>3 DEF WriteDone, HostReads, Timeout, lines
    <2>. QED
      BY <2>1 DEF vars, parserVars, histories, exchange
  <1>4. ASSUME NEW p \in Answers, DeviceNotifies(p)
        PROVE  /\ state' = state /\ (state # "SYNC" => span' = span)
               /\ toDevice' = toDevice /\ unsent' = unsent
               /\ quiet' = quiet /\ request' = request /\ ran' = ran /\ answer' = answer
               /\ rested' = rested
    BY <1>4, DeviceNotifiesFacts
  <1>5. CASE Tick
    BY <1>5 DEF Tick, Clock, parserVars, lines, histories, exchange
  <1>. QED
    BY <1>1, <1>2, <1>3, <1>4, <1>5 DEF Idle

(* Steps that lose bytes leave the device and the exchange alone.            *)
LEMMA LosingFacts ==
  ASSUME LinkType, Losing
  PROVE  /\ UNCHANGED vars
         /\ \/ toDevice' = toDevice /\ unsent' = unsent
            \/ unsent' = <<>> /\ (toDevice' = toDevice \/ toDevice' = <<>>)
         /\ quiet' = quiet /\ request' = request /\ ran' = ran /\ answer' = answer
         /\ rested' = rested /\ faults' # {}
  <1>1. CASE WriteFails
    BY <1>1 DEF WriteFails, exchange, Fault
  <1>2. CASE LineLoses
    BY <1>2 DEF LineLoses, exchange, Fault
  <1>3. CASE HostRestarts
    BY <1>3 DEF HostRestarts, exchange, Fault
  <1>. QED
    BY <1>1, <1>2, <1>3 DEF Losing

(* With bytes of a request still coming, Runtime_tick does not give it up.   *)
LEMMA TickKeeps ==
  ASSUME Inv, LinkType, Times, quiet, RuntimeTick, state # "SYNC", toDevice \o unsent # <<>>
  PROVE  state' = state /\ span' = span /\ age' = age
  <1>1. /\ startMs \in 0..ClockRadix-1 /\ nowMs \in 0..ClockRadix-1 /\ age \in Nat
        /\ nowMs = startMs + age \/ nowMs = startMs + age - ClockRadix
    BY DEF Inv, TypeOK, Timing
  <1>2. age <= elapsed /\ elapsed \in 0..MaxLatency
    BY DEF Times, LinkType
  <1>3. age <= TIMEOUT_MS /\ age < ClockRadix
    BY <1>1, <1>2, LinkTimesAssumption, ClockAssumption
  <1>4. Elapsed(nowMs, startMs) = age
    BY <1>1, <1>3, ElapsedIsAge
  <1>5. ~(Elapsed(nowMs, startMs) > TIMEOUT_MS)
    BY <1>1, <1>3, <1>4, ClockAssumption
  <1>. QED
    BY <1>5 DEF RuntimeTick

(* Runtime_tick gives up a request only when nothing more of it is coming.   *)
LEMMA RequestTicks ==
  ASSUME Inv, LinkType, Inv', LinkType', Times, RequestOnTheWay, DeviceTicks
  PROVE  RequestOnTheWay'
  <1>1. /\ RuntimeTick /\ toDevice' = toDevice /\ unsent' = unsent /\ quiet' = quiet
        /\ request' = request /\ ran' = ran /\ answer' = answer
    BY DEF DeviceTicks, lines, histories, exchange
  <1>2. CASE ~quiet
    BY <1>1, <1>2 DEF RequestOnTheWay
  <1>3. CASE state' = state /\ span' = span
    <2>1. /\ Begins(Incoming', Incoming)
          /\ state' # "SYNC" => state # "SYNC" /\ span' = span
      BY <1>1, <1>3, ComingKept
    <2>. QED
      BY <1>1, <2>1, RequestKept
  <1>4. CASE quiet /\ ~(state' = state /\ span' = span)
    <2>1. state' = "SYNC" /\ state # "SYNC"
      BY <1>1, <1>4 DEF RuntimeTick, ResetParser
    <2>2. toDevice \o unsent = <<>>
      BY <1>1, <1>4, <2>1, TickKeeps
    <2>3. Incoming' = <<>>
      <3>1. Started' = <<>>
        BY <2>1 DEF Started
      <3>2. <<>> \o <<>> = <<>>
        <4>1. <<>> \in Seq(Byte)
          OBVIOUS
        <4>. QED
          BY <4>1, ConcatAssoc
      <3>. QED
        BY <1>1, <2>2, <3>1, <3>2 DEF Incoming
    <2>4. /\ request' # <<>> /\ Len(request'[1].data) <= MAX_PAYLOAD
      BY <1>1, <1>4 DEF RequestOnTheWay
    <2>. QED
      BY <2>3, <2>4 DEF RequestOnTheWay
  <1>. QED
    BY <1>2, <1>3, <1>4

(* try_flush puts the whole frame on its way.                                *)
LEMMA RequestSent ==
  ASSUME Inv, LinkType, Inv', LinkType', NEW r \in Requests, Send(r)
  PROVE  /\ RequestOnTheWay'
         /\ quiet' => Incoming' = FrameOf(r)
  <1>1. /\ unsent' = FrameOf(r) /\ request' = <<r>> /\ toDevice' = toDevice /\ state' = state
        /\ quiet' = (state = "SYNC" /\ toDevice = <<>> /\ Len(r.data) <= MAX_PAYLOAD)
        /\ ran' = FALSE /\ answer' = <<>> /\ request'[1] = r
    BY DEF Send, vars, parserVars
  <1>2. FrameOf(r) \in Seq(Byte)
    BY FrameOfFacts
  <1>3. \A q \in Seq(Byte) : <<>> \o q = q
    OBVIOUS
  <1>4. ASSUME quiet' PROVE Incoming' = FrameOf(r)
    <2>1. Started' = <<>> /\ toDevice' = <<>>
      BY <1>1, <1>4 DEF Started
    <2>. QED
      BY <1>1, <1>2, <1>3, <2>1 DEF Incoming
  <1>5. Begins(FrameOf(r), FrameOf(r))
    BY <1>2 DEF Begins
  <1>6. FrameOf(r) \in Variants(r)
    BY DEF Variants
  <1>7. ASSUME quiet'
        PROVE  /\ request' # <<>> /\ Len(request'[1].data) <= MAX_PAYLOAD
               /\ ~ran' /\ answer' = <<>> /\ state' = "SYNC"
               /\ \E g \in Variants(request'[1]) : Begins(Incoming', g)
    <2>1. Begins(Incoming', FrameOf(r))
      BY <1>4, <1>5, <1>7
    <2>. QED
      BY <1>1, <1>6, <1>7, <2>1
  <1>8. RequestOnTheWay'
    BY <1>7 DEF RequestOnTheWay
  <1>. QED
    BY <1>4, <1>8

\* The head of d may as well be the end of s
Shifts(s, d, u) ==
  /\ Append(s, Head(d)) \o (Tail(d) \o u) = s \o (d \o u)
  /\ Len(s) < Len(s \o (d \o u)) /\ (s \o (d \o u))[Len(s) + 1] = Head(d)
  /\ Append(s, Head(d)) \in Seq(Byte) /\ Len(Append(s, Head(d))) = Len(s) + 1

(* The first byte of the line moves into the parser.                         *)
LEMMA ShiftFacts ==
  ASSUME NEW s \in Seq(Byte), NEW d \in Seq(Byte), NEW u \in Seq(Byte), d # <<>>
  PROVE  Shifts(s, d, u)
  <1> DEFINE b == Head(d)
             t == Tail(d)
  <1>1. /\ b \in Byte /\ t \in Seq(Byte) /\ Len(t) = Len(d) - 1 /\ Len(d) \in Nat /\ Len(d) >= 1
        /\ d[1] = b /\ Len(s) \in Nat /\ <<b>> \in Seq(Byte)
    OBVIOUS
  <1>2. d = <<b>> \o t
    <2>1. /\ <<b>> \o t \in Seq(Byte) /\ Len(<<b>> \o t) = Len(d)
          /\ \A i \in 1..Len(d) : d[i] = (<<b>> \o t)[i]
      OBVIOUS
    <2>. QED
      BY <2>1, SeqEq
  <1>3. /\ Len(s \o (d \o u)) = Len(s) + (Len(d) + Len(u))
        /\ \A j \in 1..Len(d) : (s \o (d \o u))[Len(s) + j] = d[j]
    BY ComingFacts
  <1>4. Len(u) \in Nat
    OBVIOUS
  <1> HIDE DEF b, t
  <1>5. Append(s, b) = s \o <<b>> /\ Append(s, b) \in Seq(Byte) /\ Len(Append(s, b)) = Len(s) + 1
    BY <1>1
  <1>6. t \o u \in Seq(Byte)
    BY <1>1, ConcatAt
  <1>7. (s \o <<b>>) \o (t \o u) = s \o (<<b>> \o (t \o u))
    <2> DEFINE c == <<b>>
               v == t \o u
    <2>1. c \in Seq(Byte) /\ v \in Seq(Byte)
      BY <1>1, <1>6
    <2> HIDE DEF c, v
    <2>2. (s \o c) \o v = s \o (c \o v)
      BY <2>1, ConcatAssoc
    <2>. QED
      BY <2>2 DEF c, v
  <1>8. (<<b>> \o t) \o u = <<b>> \o (t \o u)
    BY <1>1, ConcatAssoc
  <1>9. Append(s, b) \o (t \o u) = s \o (d \o u)
    BY <1>2, <1>5, <1>7, <1>8
  <1>10. Len(s) < Len(s \o (d \o u)) /\ (s \o (d \o u))[Len(s) + 1] = b
    BY <1>1, <1>3, <1>4
  <1>. QED
    BY <1>5, <1>9, <1>10 DEF b, t, Shifts

(* A request in progress has its SYNC byte.                                  *)
LEMMA SomeBytes ==
  ASSUME Inv, state # "SYNC"
  PROVE  span \in Seq(Byte) /\ Len(span) \in Nat /\ Len(span) # 0
  <1>1. span \in Seq(Byte) /\ Len(span) \in Nat
    BY DeviceSpan
  <1>2. CASE state \in {"TYPE", "COMMAND", "LENGTH_LO", "LENGTH_HI"}
    <2>1. Len(span) = 1 \/ Len(span) = 2 \/ Len(span) = 3 \/ Len(span) = 4
      BY <1>2, DeviceSpan
    <2>. QED
      BY <1>1, <2>1
  <1>3. CASE state \in {"DATA", "CRC"}
    <2>1. Len(span) = 5 + payloadIndex /\ payloadIndex \in Nat
      BY <1>3, DeviceSpan
    <2>. QED
      BY <1>1, <2>1
  <1>. QED
    BY <1>2, <1>3 DEF Inv, TypeOK, States

(* One byte of the frame is changed before any of it was written.            *)
LEMMA RequestDamaged ==
  ASSUME Inv, LinkType, Inv', LinkType', RequestOnTheWay, LineDamages
  PROVE  RequestOnTheWay'
  <1>1. /\ unsent # <<>> /\ unsent = FrameOf(request[1]) /\ UNCHANGED vars
        /\ toDevice' = toDevice /\ quiet' = quiet /\ request' = request /\ ran' = ran
        /\ answer' = answer
    BY DEF LineDamages, exchange
  <1>2. PICK i \in 6..Len(unsent) : unsent' = [unsent EXCEPT ![i] = (@ + 1) % Radix]
    BY DEF LineDamages
  <1>3. state' = state /\ span' = span
    BY <1>1 DEF vars, parserVars
  <1> SUFFICES ASSUME quiet
               PROVE  /\ request' # <<>> /\ Len(request'[1].data) <= MAX_PAYLOAD
                      /\ ~ran' /\ answer' = <<>> /\ state' = "SYNC"
                      /\ \E g \in Variants(request'[1]) : Begins(Incoming', g)
    BY <1>1 DEF RequestOnTheWay
  <1>4. /\ Started \in Seq(Byte) /\ toDevice \in Seq(Byte) /\ unsent \in Seq(Byte)
        /\ unsent' \in Seq(Byte) /\ Incoming \in Seq(Byte) /\ Len(unsent) \in Nat
        /\ Len(unsent) > 0 /\ Len(toDevice) \in Nat /\ Len(Started) \in Nat
    <2>1. /\ Started \in Seq(Byte) /\ toDevice \in Seq(Byte) /\ unsent \in Seq(Byte)
          /\ unsent' \in Seq(Byte) /\ Incoming \in Seq(Byte)
      BY IncomingTypes DEF LinkType
    <2>. QED
      BY <1>1, <2>1
  <1>5. Len(Incoming) = Len(Started) + (Len(toDevice) + Len(unsent))
    BY <1>4, ComingFacts DEF Incoming
  <1>6. Incoming # <<>>
    <2>1. Len(Incoming) > 0
      BY <1>4, <1>5
    <2>. QED
      BY <2>1
  <1>7. /\ request # <<>> /\ Len(request[1].data) <= MAX_PAYLOAD /\ ~ran /\ answer = <<>>
        /\ request[1] \in Requests
    BY <1>6 DEF RequestOnTheWay, LinkType
  <1>8. PICK g \in Variants(request[1]) : Begins(Incoming, g)
    BY <1>6 DEF RequestOnTheWay
  <1>9. Len(g) = Len(unsent)
    BY <1>1, <1>7, VariantFacts
  <1>10. Len(Started) = 0 /\ Len(toDevice) = 0
    BY <1>4, <1>5, <1>8, <1>9 DEF Begins
  <1>11. Started = <<>> /\ toDevice = <<>>
    BY <1>4, <1>10
  <1>12. state = "SYNC"
    <2>1. SUFFICES ASSUME state # "SYNC" PROVE FALSE
      OBVIOUS
    <2>2. Len(span) # 0
      BY <2>1, SomeBytes
    <2>. QED
      BY <1>10, <2>1, <2>2 DEF Started
  <1>13. \A q \in Seq(Byte) : <<>> \o q = q /\ Begins(q, q)
    BY DEF Begins
  <1>14. Incoming' = unsent'
    <2>1. Started' = <<>> /\ toDevice' = <<>>
      BY <1>1, <1>3, <1>11, <1>12 DEF Started
    <2>. QED
      BY <1>4, <1>13, <2>1 DEF Incoming
  <1>15. unsent' \in Variants(request[1])
    BY <1>1, <1>2 DEF Variants
  <1>16. Begins(Incoming', unsent')
    BY <1>4, <1>13, <1>14
  <1>. QED
    BY <1>1, <1>3, <1>7, <1>12, <1>15, <1>16

\* The device goes on with the request without a word
GoesOn ==
  /\ state' # "SYNC" /\ called' = <<>> /\ reply' = <<>> /\ sendOk' = TRUE
  /\ Incoming' = Incoming
  /\ age' = (IF state = "SYNC" THEN 0 ELSE age)

\* It has received frame g for r, all that was coming, and may have answered
Ends(g, r) ==
  /\ state' = "SYNC" /\ Incoming' = <<>> /\ toDevice' \o unsent' = <<>>
  /\ span' # span /\ IsRequest(span') /\ span' \in Seq(Byte)
  /\ Len(span') = Len(g) /\ Begins(span', g)
  /\ reply' # <<>> => reply'[1].kind \in {"Nack", Expect(r)}

(* What a byte of a request that is on its way does to the device.           *)
LEMMA RequestRead ==
  ASSUME Inv, LinkType, Inv', LinkType', RequestOnTheWay, quiet,
         NEW p \in Answers, DeviceReads(p)
  PROVE  /\ request # <<>> /\ request[1] \in Requests /\ Len(request[1].data) <= MAX_PAYLOAD
         /\ ~ran /\ answer = <<>>
         /\ \E g \in Variants(request[1]) :
              /\ Spelled(g, request[1]) /\ Begins(Incoming, g)
              /\ \/ GoesOn /\ Len(span') < Len(g)
                 \/ Ends(g, request[1])
  <1> DEFINE b == Head(toDevice)
  <1>1. /\ toDevice # <<>> /\ b \in Byte /\ FeedByte(b) /\ toDevice' = Tail(toDevice)
        /\ unsent' = unsent
    BY DeviceReadsFacts
  <1>2. /\ Started \in Seq(Byte) /\ toDevice \in Seq(Byte) /\ unsent \in Seq(Byte)
        /\ span \in Seq(Byte) /\ Incoming \in Seq(Byte)
        /\ Incoming = Started \o (toDevice \o unsent)
        /\ Incoming' = Started' \o (toDevice' \o unsent')
    BY IncomingTypes, DeviceSpan DEF LinkType, Incoming
  <1>3. /\ Append(Started, b) \o (Tail(toDevice) \o unsent) = Incoming
        /\ Len(Started) < Len(Incoming) /\ Incoming[Len(Started) + 1] = b
    <2>1. /\ Started \in Seq(Byte) /\ toDevice \in Seq(Byte) /\ unsent \in Seq(Byte)
          /\ toDevice # <<>>
      BY <1>1, <1>2
    <2> DEFINE c == Started \o (toDevice \o unsent)
    <2>2. /\ Append(Started, b) \o (Tail(toDevice) \o unsent) = c
          /\ Len(Started) < Len(c) /\ c[Len(Started) + 1] = b
      <3>1. Shifts(Started, toDevice, unsent)
        BY <2>1, ShiftFacts
      <3>. QED
        BY <3>1 DEF Shifts
    <2>3. Incoming = c
      BY <1>2
    <2> HIDE DEF c, b
    <2>. QED
      BY <2>2, <2>3
  <1> HIDE DEF b
  <1>4. /\ Len(Started) \in Nat /\ Len(Incoming) \in Nat /\ Incoming # <<>>
    <2>1. Len(Started) \in Nat /\ Len(Incoming) \in Nat
      BY <1>2
    <2>2. Len(Incoming) > 0
      BY <1>3, <2>1
    <2>. QED
      BY <2>1, <2>2
  <1>5. /\ request # <<>> /\ Len(request[1].data) <= MAX_PAYLOAD /\ ~ran /\ answer = <<>>
        /\ request[1] \in Requests
    BY <1>4 DEF RequestOnTheWay, LinkType
  <1>6. PICK g \in Variants(request[1]) :
          Begins(Incoming, g) /\ (state # "SYNC" => Len(span) < Len(g))
    BY <1>4 DEF RequestOnTheWay
  <1>7. Spelled(g, request[1])
    BY <1>5, VariantFacts
  <1>8. g \in Seq(Byte) /\ Len(g) \in Nat /\ Len(g) >= 3 /\ g[1] = FRAME_SYNC
    <2>1. g \in Seq(Byte) /\ g[1] = FRAME_SYNC
      BY <1>7 DEF Spelled
    <2>2. Len(request[1].data) \in Nat
      BY <1>5, RequestFacts
    <2>3. Len(g) = 3 \/ Len(g) = Len(request[1].data) + 6
      BY <1>7 DEF Spelled
    <2>4. Len(g) \in Nat
      BY <2>1
    <2>5. \A x, y \in Nat : (x = 3 \/ x = y + 6) => x >= 3
      OBVIOUS
    <2>. QED
      BY <2>1, <2>2, <2>3, <2>4, <2>5
  <1>9. g[Len(Started) + 1] = b
    <2>1. Len(Started) + 1 \in 1..Len(Incoming)
      BY <1>3, <1>4
    <2>. QED
      BY <1>3, <1>6, <2>1 DEF Begins
  <1>10. CASE state = "SYNC"
    <2>1. Started = <<>> /\ Len(Started) = 0
      BY <1>10 DEF Started
    <2>2. b = FRAME_SYNC
      BY <1>8, <1>9, <2>1
    <2>3. FeedSync(b)
      BY <1>1, <1>10 DEF FeedByte, FeedType, FeedCommand, FeedLengthLo, FeedLengthHi, FeedData,
         FeedCrc
    <2>4. /\ state' = "TYPE" /\ span' = <<b>> /\ called' = <<>> /\ reply' = <<>>
          /\ sendOk' = TRUE /\ age' = 0
      BY <2>2, <2>3 DEF FeedSync, Silent
    <2>5. Started' = Append(Started, b)
      <3>1. Append(<<>>, b) = <<b>>
        BY <1>1
      <3>. QED
        BY <2>1, <2>4, <3>1 DEF Started
    <2>6. Incoming' = Incoming
      BY <1>1, <1>2, <1>3, <2>5
    <2>7. Len(span') < Len(g)
      <3>1. Len(<<b>>) = 1
        OBVIOUS
      <3>. QED
        BY <1>8, <2>4, <3>1
    <2>8. GoesOn
      BY <1>10, <2>4, <2>6 DEF GoesOn
    <2>. QED
      BY <1>5, <1>6, <1>7, <2>7, <2>8
  <1>11. CASE state # "SYNC"
    <2>1. Started = span
      BY <1>11 DEF Started
    <2>2. Begins(span, g) /\ Len(span) < Len(g)
      <3>1. Begins(Started, Incoming)
        BY <1>2, ComingFacts
      <3>. QED
        BY <1>2, <1>6, <1>8, <1>11, <2>1, <3>1, BeginsTrans
    <2>3. /\ span' = Append(span, b)
          /\ Len(span) + 1 < Len(g) =>
               state' # "SYNC" /\ called' = <<>> /\ reply' = <<>> /\ sendOk' = TRUE /\ age' = age
          /\ Len(span) + 1 = Len(g) =>
               /\ state' = "SYNC" /\ IsRequest(span')
               /\ reply' # <<>> => reply'[1].kind \in {"Nack", Expect(request[1])}
      BY <1>1, <1>5, <1>7, <1>9, <1>11, <2>1, <2>2, DeviceFollows
    <2>4. /\ Append(span, b) \in Seq(Byte) /\ Len(Append(span, b)) = Len(span) + 1
          /\ Len(span) \in Nat
      BY <1>1, <1>2
    <2>5. CASE Len(span) + 1 < Len(g)
      <3>1. Started' = Append(Started, b)
        BY <2>1, <2>3, <2>5 DEF Started
      <3>2. Incoming' = Incoming
        BY <1>1, <1>2, <1>3, <3>1
      <3>3. GoesOn
        BY <1>11, <2>3, <2>5, <3>2 DEF GoesOn
      <3>4. Len(span') < Len(g)
        BY <2>3, <2>4, <2>5
      <3>. QED
        BY <1>5, <1>6, <1>7, <3>3, <3>4
    <2>6. CASE Len(span) + 1 = Len(g)
      <3>1. Begins(span', g)
        <4>1. \A j \in 1..Len(span) + 1 : Append(span, b)[j] = g[j]
          <5>1. \A j \in 1..Len(span) : Append(span, b)[j] = g[j]
            BY <1>2, <1>1, <2>2 DEF Begins
          <5>2. Append(span, b)[Len(span) + 1] = g[Len(span) + 1]
            BY <1>1, <1>2, <1>9, <2>1
          <5>3. \A j \in 1..Len(span) + 1 : j \in 1..Len(span) \/ j = Len(span) + 1
            BY <2>4
          <5>. QED
            BY <5>1, <5>2, <5>3
        <4>. QED
          BY <1>8, <2>3, <2>4, <2>6, <4>1 DEF Begins
      <3>2. Tail(toDevice) \in Seq(Byte) /\ Len(Tail(toDevice)) \in Nat /\ Len(unsent) \in Nat
        BY <1>1, <1>2
      <3>3. Len(Append(span, b) \o (Tail(toDevice) \o unsent))
              = Len(span) + 1 + (Len(Tail(toDevice)) + Len(unsent))
        BY <1>2, <2>4, <3>2, ComingFacts
      <3>4. Len(Incoming) <= Len(g)
        BY <1>6 DEF Begins
      <3>5. Len(Tail(toDevice)) = 0 /\ Len(unsent) = 0
        <4>1. \A k, x, y, l, m \in Nat : l = k + 1 + (x + y) /\ l <= m /\ k + 1 = m => x = 0 /\ y = 0
          OBVIOUS
        <4>2. Len(Incoming) = Len(span) + 1 + (Len(Tail(toDevice)) + Len(unsent))
          BY <1>3, <2>1, <3>3
        <4>. QED
          BY <1>4, <1>8, <2>4, <2>6, <3>2, <3>4, <4>1, <4>2
      <3>6. toDevice' = <<>> /\ unsent' = <<>>
        <4>1. \A q \in Seq(Byte) : Len(q) = 0 => q = <<>>
          OBVIOUS
        <4>. QED
          BY <1>1, <1>2, <3>2, <3>5, <4>1
      <3>7. <<>> \o <<>> = <<>>
        <4>1. <<>> \in Seq(Byte)
          OBVIOUS
        <4>. QED
          BY <4>1, ConcatAssoc
      <3>8. Incoming' = <<>> /\ toDevice' \o unsent' = <<>>
        <4>1. Started' = <<>>
          BY <2>3, <2>6 DEF Started
        <4>. QED
          BY <1>2, <3>6, <3>7, <4>1
      <3>9. span' # span /\ span' \in Seq(Byte) /\ Len(span') = Len(g)
        BY <2>3, <2>4, <2>6
      <3>10. Ends(g, request[1])
        BY <2>3, <2>6, <3>1, <3>8, <3>9 DEF Ends
      <3>. QED
        BY <1>5, <1>6, <1>7, <3>10
    <2>. QED
      BY <1>8, <2>2, <2>4, <2>5, <2>6
  <1>. QED
    BY <1>10, <1>11

(* Every step keeps the request's bytes in order.                            *)
LEMMA RequestStep ==
  ASSUME Inv, LinkType, Inv', LinkType', Times, RequestOnTheWay, [LinkNext]_linkVars
  PROVE  RequestOnTheWay'
  <1>1. CASE Idle
    <2>1. /\ state' = state /\ (state # "SYNC" => span' = span)
          /\ toDevice' \o unsent' = toDevice \o unsent
          /\ quiet' = quiet /\ request' = request /\ ran' = ran /\ answer' = answer
      BY <1>1, IdleFacts
    <2>2. /\ Begins(Incoming', Incoming)
          /\ state' # "SYNC" => state # "SYNC" /\ span' = span
      BY <2>1, ComingKept
    <2>. QED
      BY <2>1, <2>2, RequestKept
  <1>2. CASE Losing
    <2>1. /\ UNCHANGED vars
          /\ \/ toDevice' = toDevice /\ unsent' = unsent
             \/ unsent' = <<>> /\ (toDevice' = toDevice \/ toDevice' = <<>>)
          /\ quiet' = quiet /\ request' = request /\ ran' = ran /\ answer' = answer
      BY <1>2, LosingFacts
    <2>2. state' = state /\ span' = span
      BY <2>1 DEF vars, parserVars
    <2>3. /\ Begins(Incoming', Incoming)
          /\ state' # "SYNC" => state # "SYNC" /\ span' = span
      BY <2>1, <2>2, ComingKept
    <2>. QED
      BY <2>1, <2>3, RequestKept
  <1>3. CASE DeviceTicks
    BY <1>3, RequestTicks
  <1>4. CASE LineDamages
    BY <1>4, RequestDamaged
  <1>5. ASSUME NEW r \in Requests, Send(r) PROVE RequestOnTheWay'
    BY <1>5, RequestSent
  <1>6. CASE DeviceRestarts
    <2>1. quiet' = FALSE
      BY <1>6 DEF DeviceRestarts
    <2>. QED
      BY <2>1 DEF RequestOnTheWay
  <1>7. ASSUME NEW p \in Answers, DeviceReads(p) PROVE RequestOnTheWay'
    <2>1. quiet' = quiet /\ request' = request
      BY <1>7, DeviceReadsFacts
    <2>2. CASE ~quiet
      BY <2>1, <2>2 DEF RequestOnTheWay
    <2>3. CASE quiet
      <3>1. /\ request # <<>> /\ Len(request[1].data) <= MAX_PAYLOAD /\ ~ran /\ answer = <<>>
        BY <1>7, <2>3, RequestRead
      <3>2. PICK g \in Variants(request[1]) :
              /\ Begins(Incoming, g)
              /\ \/ GoesOn /\ Len(span') < Len(g)
                 \/ Ends(g, request[1])
        BY <1>7, <2>3, RequestRead
      <3>3. CASE GoesOn /\ Len(span') < Len(g)
        <4>1. reply' = <<>> /\ called' = <<>> /\ Incoming' = Incoming
          BY <3>3 DEF GoesOn
        <4>2. ~ran' /\ answer' = <<>>
          <5>1. ran' = (ran \/ called' # <<>>) /\ answer' = answer
            BY <1>7, <4>1, DeviceReadsFacts
          <5>. QED
            BY <3>1, <4>1, <5>1
        <4>3. \E h \in Variants(request'[1]) :
                Begins(Incoming', h) /\ (state' # "SYNC" => Len(span') < Len(h))
          BY <2>1, <3>2, <3>3, <4>1
        <4>. QED
          BY <2>1, <3>1, <4>2, <4>3 DEF RequestOnTheWay
      <3>4. CASE Ends(g, request[1])
        <4>1. Incoming' = <<>>
          BY <3>4 DEF Ends
        <4>. QED
          BY <2>1, <3>1, <4>1 DEF RequestOnTheWay
      <3>. QED
        BY <3>2, <3>3, <3>4
    <2>. QED
      BY <2>2, <2>3
  <1>. QED
    BY <1>1, <1>2, <1>3, <1>4, <1>5, <1>6, <1>7 DEF LinkNext, Idle, Losing

-----------------------------------------------------------------------------
(* Times.                                                                    *)

(* Two parts are empty when both are.                                        *)
LEMMA BothEmpty ==
  ASSUME NEW d \in Seq(Byte), NEW u \in Seq(Byte)
  PROVE  d \o u # <<>> <=> (d # <<>> \/ u # <<>>)
  <1>1. \A q \in Seq(Byte) : q = <<>> <=> Len(q) = 0
    OBVIOUS
  <1>2. d \o u \in Seq(Byte) /\ Len(d \o u) = Len(d) + Len(u) /\ Len(d) \in Nat /\ Len(u) \in Nat
    BY ConcatAt
  <1>3. Len(d \o u) = 0 <=> (Len(d) = 0 /\ Len(u) = 0)
    BY <1>2
  <1>. QED
    BY <1>1, <1>2, <1>3

(* A byte after the SYNC byte does not make the request younger.             *)
LEMMA FeedAge ==
  ASSUME NEW b, FeedByte(b), state' # "SYNC"
  PROVE  age' = (IF state = "SYNC" THEN 0 ELSE age)
  BY DEF FeedByte, FeedSync, FeedType, FeedCommand, FeedLengthLo, FeedLengthHi, FeedData,
     FeedCrc, Receive, ResetParser

(* The types Times is about.                                                 *)
LEMMA TimeTypes ==
  ASSUME Inv, LinkType
  PROVE  /\ waited \in Nat /\ elapsed \in Nat /\ elapsed <= MaxLatency /\ MaxLatency \in Nat
         /\ age \in Nat /\ toDevice \in Seq(Byte) /\ unsent \in Seq(Byte)
         /\ toDevice \o unsent # <<>> <=> (toDevice # <<>> \/ unsent # <<>>)
  <1>1. toDevice \in Seq(Byte) /\ unsent \in Seq(Byte)
    BY DEF LinkType
  <1>2. elapsed \in Nat /\ elapsed <= MaxLatency /\ MaxLatency \in Nat
    BY LinkTimesAssumption DEF LinkType
  <1>3. waited \in Nat /\ age \in Nat
    BY DEF LinkType, Inv, TypeOK
  <1>. QED
    BY <1>1, <1>2, <1>3, BothEmpty

(* A step in which no time passes and no byte arrives at the device.         *)
LEMMA TimesKept ==
  ASSUME Inv, LinkType, Inv', LinkType', Times, elapsed' = elapsed,
         state' # "SYNC" => state # "SYNC" /\ age' = age,
         phase' = "waiting" => waited' = 0 \/ (phase = "waiting" /\ waited' = waited),
         quiet' => quiet,
         toDevice' \o unsent' # <<>> => toDevice \o unsent # <<>>
  PROVE  Times'
  <1>1. /\ waited \in Nat /\ elapsed \in Nat /\ MaxLatency \in Nat /\ age \in Nat
        /\ toDevice \o unsent # <<>> <=> (toDevice # <<>> \/ unsent # <<>>)
    BY TimeTypes
  <1>2. age' \in Nat /\ toDevice' \in Seq(Byte) /\ unsent' \in Seq(Byte)
    BY DEF Inv, TypeOK, LinkType
  <1>3. toDevice' \o unsent' # <<>> <=> (toDevice' # <<>> \/ unsent' # <<>>)
    BY <1>2, BothEmpty
  <1>4. /\ phase = "waiting" /\ (unsent # <<>> \/ toDevice # <<>>) => waited <= elapsed
        /\ phase = "waiting" /\ state # "SYNC" => waited <= age + MaxLatency
        /\ quiet /\ state # "SYNC" /\ toDevice \o unsent # <<>> => age <= elapsed
    BY DEF Times
  <1>5. phase' = "waiting" /\ (unsent' # <<>> \/ toDevice' # <<>>) => waited' <= elapsed'
    BY <1>1, <1>3, <1>4
  <1>6. phase' = "waiting" /\ state' # "SYNC" => waited' <= age' + MaxLatency
    BY <1>1, <1>2, <1>4
  <1>7. quiet' /\ state' # "SYNC" /\ toDevice' \o unsent' # <<>> => age' <= elapsed'
    BY <1>4
  <1>. QED
    BY <1>5, <1>6, <1>7 DEF Times

(* A byte arrives.                                                           *)
LEMMA TimesRead ==
  ASSUME Inv, LinkType, Inv', LinkType', Times, NEW p \in Answers, DeviceReads(p)
  PROVE  Times'
  <1>1. /\ toDevice # <<>> /\ FeedByte(Head(toDevice)) /\ unsent' = unsent /\ phase' = phase
        /\ waited' = waited /\ elapsed' = elapsed /\ quiet' = quiet
    BY DeviceReadsFacts
  <1>2. /\ waited \in Nat /\ elapsed \in Nat /\ MaxLatency \in Nat /\ age \in Nat
        /\ elapsed <= MaxLatency
        /\ toDevice \o unsent # <<>>
    BY <1>1, TimeTypes
  <1>3. phase = "waiting" => waited <= elapsed
    BY <1>1 DEF Times
  <1>4. state' # "SYNC" => age' = (IF state = "SYNC" THEN 0 ELSE age)
    BY <1>1, FeedAge
  <1>5. ASSUME phase' = "waiting", state' # "SYNC" PROVE waited' <= age' + MaxLatency
    <2>1. CASE state = "SYNC"
      <3>1. age' = 0 /\ waited' = waited /\ waited <= elapsed
        BY <1>1, <1>3, <1>4, <1>5, <2>1
      <3>2. waited <= 0 + MaxLatency
        BY <1>2, <3>1
      <3>. QED
        BY <3>1, <3>2
    <2>2. CASE state # "SYNC"
      <3>1. age' = age /\ waited <= age + MaxLatency
        BY <1>1, <1>4, <1>5, <2>2 DEF Times
      <3>. QED
        BY <1>1, <3>1
    <2>. QED
      BY <2>1, <2>2
  <1>6. ASSUME quiet', state' # "SYNC" PROVE age' <= elapsed'
    <2>1. CASE state = "SYNC"
      <3>1. age' = 0 /\ elapsed' = elapsed
        BY <1>1, <1>4, <1>6, <2>1
      <3>. QED
        BY <1>2, <3>1
    <2>2. CASE state # "SYNC"
      BY <1>1, <1>2, <1>4, <1>6, <2>2 DEF Times
    <2>. QED
      BY <2>1, <2>2
  <1>7. phase' = "waiting" => waited' <= elapsed'
    BY <1>1, <1>3
  <1>. QED
    BY <1>5, <1>6, <1>7 DEF Times

(* Time passes.                                                              *)
LEMMA TimesTick ==
  ASSUME Inv, LinkType, Times, Tick
  PROVE  Times'
  <1>1. /\ UnderWay => elapsed < MaxLatency
        /\ age' = (IF state = "SYNC" THEN age ELSE age + 1) /\ state' = state
        /\ elapsed' = Later(elapsed, MaxLatency)
        /\ waited' = (IF phase = "waiting" THEN Later(waited, ResponseTimeout) ELSE waited)
        /\ phase' = phase /\ unsent' = unsent /\ toDevice' = toDevice /\ quiet' = quiet
    BY DEF Tick, Clock, parserVars, lines, histories, exchange
  <1>2. /\ waited \in Nat /\ elapsed \in Nat /\ MaxLatency \in Nat /\ age \in Nat
        /\ toDevice \o unsent # <<>> <=> (toDevice # <<>> \/ unsent # <<>>)
    BY TimeTypes
  <1>3. ASSUME unsent # <<>> \/ toDevice # <<>> PROVE elapsed' = elapsed + 1
    BY <1>1, <1>3 DEF UnderWay, Later
  <1>4. phase = "waiting" => waited' = waited \/ waited' = waited + 1
    BY <1>1 DEF Later
  <1>5. ASSUME phase' = "waiting", unsent' # <<>> \/ toDevice' # <<>> PROVE waited' <= elapsed'
    <2>1. waited <= elapsed /\ elapsed' = elapsed + 1
      BY <1>1, <1>3, <1>5 DEF Times
    <2>2. waited' = waited \/ waited' = waited + 1
      BY <1>1, <1>4, <1>5
    <2>. QED
      BY <1>2, <2>1, <2>2
  <1>6. ASSUME phase' = "waiting", state' # "SYNC" PROVE waited' <= age' + MaxLatency
    <2>1. waited <= age + MaxLatency /\ age' = age + 1
      BY <1>1, <1>6 DEF Times
    <2>2. waited' = waited \/ waited' = waited + 1
      BY <1>1, <1>4, <1>6
    <2>. QED
      BY <1>2, <2>1, <2>2
  <1>7. ASSUME quiet', state' # "SYNC", toDevice' \o unsent' # <<>> PROVE age' <= elapsed'
    <2>1. toDevice \o unsent # <<>>
      BY <1>1, <1>7
    <2>2. elapsed' = elapsed + 1
      BY <1>2, <1>3, <2>1
    <2>3. age <= elapsed /\ age' = age + 1
      BY <1>1, <1>7, <2>1 DEF Times
    <2>. QED
      BY <1>2, <2>2, <2>3
  <1>. QED
    BY <1>5, <1>6, <1>7 DEF Times

(* Every step keeps the times.                                               *)
LEMMA TimesStep ==
  ASSUME Inv, LinkType, Inv', LinkType', Times, [LinkNext]_linkVars
  PROVE  Times'
  <1>1. CASE UNCHANGED linkVars
    <2>1. /\ elapsed' = elapsed /\ waited' = waited /\ phase' = phase /\ state' = state
          /\ age' = age /\ quiet' = quiet /\ toDevice' = toDevice /\ unsent' = unsent
      BY <1>1 DEF linkVars, vars, parserVars, lines, times, histories, exchange
    <2>. QED
      BY <2>1, TimesKept
  <1>2. ASSUME NEW r \in Requests, Send(r) PROVE Times'
    <2>1. /\ waited' = 0 /\ elapsed' = 0 /\ age' = age /\ (quiet' => state' = "SYNC")
      BY <1>2 DEF Send, vars, parserVars
    <2>2. age \in Nat /\ MaxLatency \in Nat
      BY TimeTypes
    <2>3. 0 <= age + MaxLatency
      BY <2>2
    <2>. QED
      BY <2>1, <2>3 DEF Times
  <1>3. CASE WriteSome \/ TakeOutgoing
    <2>1. toDevice' \o unsent' = toDevice \o unsent
      BY <1>3, BytesMove
    <2>2. UNCHANGED <<vars, times, histories>> /\ phase' = phase
      BY <1>3 DEF WriteSome, TakeOutgoing
    <2>3. /\ elapsed' = elapsed /\ waited' = waited /\ state' = state
          /\ age' = age /\ quiet' = quiet
      BY <2>2 DEF vars, parserVars, times, histories, exchange
    <2>. QED
      BY <2>1, <2>2, <2>3, TimesKept
  <1>4. CASE WriteDone \/ HostReads \/ Timeout
    <2>1. /\ UNCHANGED <<vars, histories>> /\ elapsed' = elapsed /\ unsent' = unsent
          /\ toDevice' = toDevice
          /\ phase' = "waiting" => waited' = 0 \/ (phase = "waiting" /\ waited' = waited)
      BY <1>4 DEF WriteDone, HostReads, Timeout, lines
    <2>2. state' = state /\ age' = age /\ quiet' = quiet
      BY <2>1 DEF vars, parserVars, histories, exchange
    <2>. QED
      BY <2>1, <2>2, TimesKept
  <1>5. ASSUME NEW p \in Answers, DeviceNotifies(p) PROVE Times'
    <2>1. /\ toDevice' = toDevice /\ unsent' = unsent /\ phase' = phase
          /\ waited' = waited /\ elapsed' = elapsed /\ quiet' = quiet
          /\ state' = state /\ age' = age
      BY <1>5, DeviceNotifiesFacts
    <2>. QED
      BY <2>1, TimesKept
  <1>6. CASE Losing
    <2>1. /\ UNCHANGED vars /\ quiet' = quiet
          /\ \/ toDevice' = toDevice /\ unsent' = unsent
             \/ unsent' = <<>> /\ (toDevice' = toDevice \/ toDevice' = <<>>)
      BY <1>6, LosingFacts
    <2>2. /\ elapsed' = elapsed
          /\ phase' = "waiting" => phase = "waiting" /\ waited' = waited
      BY <1>6 DEF Losing, WriteFails, LineLoses, HostRestarts, times
    <2>3. state' = state /\ age' = age
      BY <2>1 DEF vars, parserVars
    <2>4. /\ toDevice' \in Seq(Byte) /\ unsent' \in Seq(Byte)
          /\ toDevice \o unsent # <<>> <=> (toDevice # <<>> \/ unsent # <<>>)
      BY TimeTypes DEF LinkType
    <2>5. toDevice' \o unsent' # <<>> <=> (toDevice' # <<>> \/ unsent' # <<>>)
      BY <2>4, BothEmpty
    <2>6. toDevice' \o unsent' # <<>> => toDevice \o unsent # <<>>
      BY <2>1, <2>4, <2>5
    <2>. QED
      BY <2>1, <2>2, <2>3, <2>6, TimesKept
  <1>7. CASE LineDamages
    <2>1. /\ UNCHANGED <<vars, times, exchange>> /\ phase' = phase /\ unsent # <<>>
      BY <1>7 DEF LineDamages
    <2>2. /\ state' = state /\ age' = age /\ quiet' = quiet /\ elapsed' = elapsed
          /\ waited' = waited
      BY <2>1 DEF vars, parserVars, times, exchange
    <2>3. toDevice \o unsent # <<>>
      BY <2>1, TimeTypes
    <2>. QED
      BY <2>1, <2>2, <2>3, TimesKept
  <1>8. CASE DeviceTicks
    <2>1. /\ RuntimeTick /\ UNCHANGED <<lines, times, histories>> /\ phase' = phase
      BY <1>8 DEF DeviceTicks
    <2>2. state' # "SYNC" => state # "SYNC" /\ age' = age
      BY <2>1 DEF RuntimeTick, ResetParser
    <2>3. /\ quiet' = quiet /\ elapsed' = elapsed /\ waited' = waited
          /\ toDevice' = toDevice /\ unsent' = unsent
      BY <2>1 DEF lines, times, histories, exchange
    <2>. QED
      BY <2>1, <2>2, <2>3, TimesKept
  <1>9. CASE DeviceRestarts
    <2>1. /\ state' = "SYNC" /\ quiet' = FALSE /\ UNCHANGED <<lines, times>> /\ phase' = phase
      BY <1>9 DEF DeviceRestarts, Restart
    <2>2. /\ elapsed' = elapsed /\ waited' = waited /\ toDevice' = toDevice /\ unsent' = unsent
      BY <2>1 DEF lines, times
    <2>. QED
      BY <2>1, <2>2, TimesKept
  <1>10. ASSUME NEW p \in Answers, DeviceReads(p) PROVE Times'
    BY <1>10, TimesRead
  <1>11. CASE Tick
    BY <1>11, TimesTick
  <1>. QED
    BY <1>1, <1>2, <1>3, <1>4, <1>5, <1>6, <1>7, <1>8, <1>9, <1>10, <1>11 DEF LinkNext, Losing

-----------------------------------------------------------------------------
(* What is on the way to the host.                                           *)

(* The same parser with the same bytes coming.                               *)
LEMMA DueKept ==
  ASSUME hState' = hState, hSpan' = hSpan, toHost' = toHost
  PROVE  /\ HostIncoming' = HostIncoming
         /\ \A f, rest : Due(f, rest)' <=> Due(f, rest)
         /\ answer' = answer => (AnswerDue' <=> AnswerDue)
  <1>1. HostIncoming' = HostIncoming
    BY DEF HostIncoming, HostStarted
  <1>2. ASSUME NEW f, NEW rest PROVE Due(f, rest)' <=> Due(f, rest)
    BY <1>1 DEF Due
  <1>. QED
    BY <1>1, <1>2 DEF AnswerDue

(* What follows the same bytes in the same sequence is the same.             *)
LEMMA SameRest ==
  ASSUME NEW e \in Seq(Byte), NEW s \in Seq(Byte), NEW t \in Seq(Byte), e \o s = e \o t
  PROVE  s = t
  <1>1. /\ Len(e \o s) = Len(e) + Len(s) /\ Len(e \o t) = Len(e) + Len(t)
        /\ \A i \in 1..Len(s) : (e \o s)[Len(e) + i] = s[i]
        /\ \A i \in 1..Len(t) : (e \o t)[Len(e) + i] = t[i]
    BY ConcatAt
  <1>2. Len(e) \in Nat /\ Len(s) \in Nat /\ Len(t) \in Nat
    OBVIOUS
  <1>3. Len(s) = Len(t)
    BY <1>1, <1>2
  <1>4. \A i \in 1..Len(s) : s[i] = t[i]
    BY <1>1, <1>3
  <1>. QED
    BY <1>3, <1>4, SeqEq

(* The bytes the host has, and those that are coming.                        *)
LEMMA HostTypes ==
  ASSUME HP!Inv, LinkType
  PROVE  /\ HostStarted \in Seq(Byte) /\ toHost \in Seq(Byte) /\ HostIncoming \in Seq(Byte)
         /\ hSpan \in Seq(Byte)
  <1>1. hSpan \in Seq(Byte)
    <2>1. hSpan \in Seq(HP!Byte)
      BY HostConstants, SameByte, HP!SpanFacts
    <2>. QED
      BY <2>1, SameByte
  <1>2. HostStarted \in Seq(Byte) /\ toHost \in Seq(Byte)
    <2>1. <<>> \in Seq(Byte)
      OBVIOUS
    <2>. QED
      BY <1>1, <2>1 DEF HostStarted, LinkType
  <1>3. HostStarted \o toHost \in Seq(Byte)
    BY <1>2, ConcatAt
  <1>. QED
    BY <1>1, <1>2, <1>3 DEF HostIncoming

(* Fed with the next byte of a frame that is due, the host's parser goes on  *)
(* with it or returns it, and what came behind it is left.                   *)
LEMMA HostFollows ==
  ASSUME HP!Inv, LinkType, NEW f, HP!Sendable(f), NEW rest \in Seq(Byte), Due(f, rest),
         toHost # <<>>, H!Feed(Head(toHost)), toHost' = Tail(toHost)
  PROVE  \/ Due(f, rest)' /\ hOut' = <<>>
         \/ HostIncoming' = rest /\ hState' = "Sync" /\ hOut' = <<f>>
  <1> DEFINE b == Head(toHost)
  <1>1. PICK e : e = H!Encode(f, 0, 0)
    OBVIOUS
  <1>2. HP!Spells(e, f, 0, 0) /\ e \in Seq(Byte) /\ Len(e) \in Nat /\ Len(e) >= 3
    BY <1>1, SendableBytes
  <1>3. HostStarted \in Seq(Byte) /\ toHost \in Seq(Byte) /\ hSpan \in Seq(Byte)
    BY HostTypes
  <1>4. HostIncoming = e \o rest /\ (hState # "Sync" => Len(hSpan) < Len(e))
    BY <1>1 DEF Due
  <1>5. PICK s : s = HostStarted
    OBVIOUS
  <1>6. s \in Seq(Byte) /\ Len(s) \in Nat /\ Len(s) < Len(e) /\ b \in Byte
    <2>1. s \in Seq(Byte) /\ Len(s) \in Nat /\ b \in Byte
      BY <1>3, <1>5
    <2>2. s = <<>> \/ (s = hSpan /\ hState # "Sync")
      BY <1>5 DEF HostStarted
    <2>3. Len(<<>>) = 0
      OBVIOUS
    <2>. QED
      BY <1>2, <1>4, <2>1, <2>2, <2>3
  <1>7. /\ Append(s, b) \o Tail(toHost) = e \o rest
        /\ Len(s) < Len(e \o rest) /\ (e \o rest)[Len(s) + 1] = b
        /\ Append(s, b) \in Seq(Byte) /\ Len(Append(s, b)) = Len(s) + 1
        /\ \A j \in 1..Len(s) : (e \o rest)[j] = s[j]
        /\ Tail(toHost) \in Seq(Byte)
    <2>1. <<>> \in Seq(Byte) /\ Tail(toHost) \in Seq(Byte)
      BY <1>3
    <2>2. /\ Append(s, Head(toHost)) \o (Tail(toHost) \o <<>>) = s \o (toHost \o <<>>)
          /\ Len(s) < Len(s \o (toHost \o <<>>))
          /\ (s \o (toHost \o <<>>))[Len(s) + 1] = Head(toHost)
          /\ Append(s, Head(toHost)) \in Seq(Byte) /\ Len(Append(s, Head(toHost))) = Len(s) + 1
      <3>1. s \in Seq(Byte) /\ toHost \in Seq(Byte) /\ <<>> \in Seq(Byte) /\ toHost # <<>>
        BY <1>3, <1>6, <2>1
      <3>2. Shifts(s, toHost, <<>>)
        BY <3>1, ShiftFacts
      <3>. QED
        BY <3>2 DEF Shifts
    <2>3. toHost \o <<>> = toHost /\ Tail(toHost) \o <<>> = Tail(toHost)
      BY <1>3, <2>1, ConcatAssoc
    <2>4. s \o toHost = e \o rest
      BY <1>4, <1>5 DEF HostIncoming
    <2>5. \A j \in 1..Len(s) : (s \o toHost)[j] = s[j]
      BY <1>3, <1>6, ConcatAt
    <2> HIDE DEF b
    <2>6. b = Head(toHost)
      BY DEF b
    <2>. QED
      BY <2>1, <2>2, <2>3, <2>4, <2>5, <2>6
  <1>8. H!Feed(b) /\ HP!Feed(b)
    BY SameFeed
  <1> HIDE DEF b
  <1>9. \A i \in 1..Len(e) : (e \o rest)[i] = e[i]
    BY <1>2, ConcatAt
  <1>10. e[Len(s) + 1] = b /\ \A j \in 1..Len(s) : s[j] = e[j]
    <2>1. Len(s) + 1 \in 1..Len(e) /\ \A j \in 1..Len(s) : j \in 1..Len(e)
      BY <1>2, <1>6
    <2>. QED
      BY <1>7, <1>9, <2>1
  <1>11. ASSUME hState' # "Sync", hSpan' = Append(s, b), hOut' = <<>>, Len(s) + 1 < Len(e)
         PROVE  Due(f, rest)' /\ hOut' = <<>>
    <2>1. HostIncoming' = e \o rest
      BY <1>7, <1>11 DEF HostIncoming, HostStarted
    <2>2. Len(hSpan') < Len(e)
      BY <1>7, <1>11
    <2>. QED
      BY <1>1, <1>11, <2>1, <2>2 DEF Due
  <1>12. CASE hState = "Sync"
    <2>1. s = <<>> /\ Len(s) = 0
      BY <1>5, <1>12 DEF HostStarted
    <2>2. b = FRAME_SYNC
      <3>1. e[1] = FRAME_SYNC
        BY <1>2 DEF HP!Spells
      <3>. QED
        BY <1>10, <2>1, <3>1
    <2>3. H!FeedSync(b)
      BY <1>8, <1>12 DEF H!Feed, H!FeedSource, H!FeedType, H!FeedCommand, H!FeedLengthLo,
         H!FeedLengthHi, H!FeedData, H!FeedCrc
    <2>4. hState' = "Type" /\ hSpan' = <<b>> /\ hOut' = <<>>
      BY <2>2, <2>3 DEF H!FeedSync
    <2>5. <<b>> = Append(s, b)
      BY <2>1
    <2>6. Len(s) + 1 < Len(e)
      BY <1>2, <2>1
    <2>. QED
      BY <1>11, <2>4, <2>5, <2>6
  <1>13. CASE hState # "Sync"
    <2>1. s = hSpan
      BY <1>5, <1>13 DEF HostStarted
    <2>2. /\ Len(hSpan) < Len(e) /\ \A j \in 1..Len(hSpan) : hSpan[j] = e[j]
          /\ b \in HP!Byte /\ b = e[Len(hSpan) + 1]
      BY <1>6, <1>10, <2>1, SameByte
    <2>3. /\ Len(hSpan) + 1 < Len(e) =>
               hState' # "Sync" /\ hSpan' = Append(hSpan, b) /\ hOut' = <<>>
          /\ Len(hSpan) + 1 = Len(e) => hState' = "Sync" /\ hOut' = <<f>>
      BY <1>2, <1>8, <1>13, <2>2, HostConstants, SameByte, HP!Follows
    <2>4. CASE Len(s) + 1 < Len(e)
      BY <1>11, <2>1, <2>3, <2>4
    <2>5. CASE Len(s) + 1 = Len(e)
      <3>1. hState' = "Sync" /\ hOut' = <<f>>
        BY <2>1, <2>3, <2>5
      <3>2. Append(s, b) = e
        <4>1. \A j \in 1..Len(s) + 1 : Append(s, b)[j] = e[j]
          <5>1. \A j \in 1..Len(s) : Append(s, b)[j] = s[j]
            BY <1>6
          <5>2. Append(s, b)[Len(s) + 1] = b
            BY <1>6
          <5>3. \A j \in 1..Len(s) + 1 : j \in 1..Len(s) \/ j = Len(s) + 1
            BY <1>6
          <5>. QED
            BY <1>10, <5>1, <5>2, <5>3
        <4>. QED
          BY <1>2, <1>7, <2>5, <4>1, SeqEq
      <3>3. Tail(toHost) = rest
        BY <1>2, <1>7, <3>2, SameRest
      <3>4. \A q \in Seq(Byte) : <<>> \o q = q
        OBVIOUS
      <3>5. HostIncoming' = rest
        BY <3>1, <3>3, <3>4 DEF HostIncoming, HostStarted
      <3>. QED
        BY <3>1, <3>5
    <2>. QED
      BY <1>2, <1>6, <2>4, <2>5
  <1>. QED
    BY <1>12, <1>13

(* A notification is a frame the host's parser takes.                        *)
LEMMA NoticeSendable ==
  ASSUME NEW p \in Answers
  PROVE  HP!Sendable(Notice(p)) /\ Notice(p).kind = "Notification"
  <1>1. PICK r : r = [kind |-> "Notification", command |-> 0, whole |-> TRUE]
    OBVIOUS
  <1>2. r \in Reply /\ r.kind = "Notification"
    BY <1>1, Constants DEF Reply
  <1>3. ReplyFrame(r, p) = Notice(p)
    BY <1>2 DEF ReplyFrame, Notice
  <1>4. HP!Sendable(ReplyFrame(r, p))
    BY <1>2, ReplySendable
  <1>5. Notice(p).kind = "Notification"
    BY DEF Notice
  <1>. QED
    BY <1>3, <1>4, <1>5

(* A frame that is due has bytes on the line.                                *)
LEMMA DueHasBytes ==
  ASSUME HP!Inv, LinkType, NEW f, HP!Sendable(f), NEW rest \in Seq(Byte), Due(f, rest)
  PROVE  toHost # <<>>
  <1>1. PICK e : e = H!Encode(f, 0, 0)
    OBVIOUS
  <1>2. e \in Seq(Byte) /\ Len(e) \in Nat /\ Len(e) >= 3
    BY <1>1, SendableBytes
  <1>3. HostStarted \in Seq(Byte) /\ toHost \in Seq(Byte) /\ hSpan \in Seq(Byte)
    BY HostTypes
  <1>4. Len(HostStarted \o toHost) = Len(HostStarted) + Len(toHost)
        /\ Len(e \o rest) = Len(e) + Len(rest)
    BY <1>2, <1>3, ConcatAt
  <1>5. HostStarted \o toHost = e \o rest /\ (hState # "Sync" => Len(hSpan) < Len(e))
    BY <1>1 DEF Due, HostIncoming
  <1>6. Len(HostStarted) < Len(e)
    <2>1. Len(<<>>) = 0
      OBVIOUS
    <2>. QED
      BY <1>2, <1>5, <2>1 DEF HostStarted
  <1>7. Len(HostStarted) \in Nat /\ Len(toHost) \in Nat /\ Len(rest) \in Nat
    BY <1>3
  <1>8. \A h, t, k, l \in Nat : h + t = k + l /\ h < k => t # 0
    OBVIOUS
  <1>9. Len(toHost) # 0
    BY <1>2, <1>4, <1>5, <1>6, <1>7, <1>8
  <1>. QED
    BY <1>3, <1>9

(* A whole frame behind all that was coming.                                 *)
LEMMA FrameFollows ==
  ASSUME HP!Inv, LinkType, NEW f, HP!Sendable(f), hState' = hState, hSpan' = hSpan,
         toHost' = toHost \o H!Encode(f, 0, 0)
  PROVE  /\ HostIncoming = <<>> => Due(f, <<>>)'
         /\ \A g : Due(g, <<>>) /\ HP!Sendable(g) => Due(g, H!Encode(f, 0, 0))'
  <1>1. PICK e : e = H!Encode(f, 0, 0)
    OBVIOUS
  <1>2. e \in Seq(Byte) /\ Len(e) \in Nat /\ Len(e) >= 3
    BY <1>1, SendableBytes
  <1>3. HostStarted \in Seq(Byte) /\ toHost \in Seq(Byte) /\ hSpan \in Seq(Byte)
        /\ HostIncoming \in Seq(Byte)
    BY HostTypes
  <1>4. HostStarted' = HostStarted
    BY DEF HostStarted
  <1>5. HostIncoming' = HostIncoming \o e
    <2>1. HostIncoming' = HostStarted \o (toHost \o e)
      BY <1>1, <1>4 DEF HostIncoming
    <2>2. (HostStarted \o toHost) \o e = HostStarted \o (toHost \o e)
      BY <1>2, <1>3, ConcatAssoc
    <2>. QED
      BY <2>1, <2>2 DEF HostIncoming
  <1>6. ASSUME HostIncoming = <<>> PROVE Due(f, <<>>)'
    <2>1. HostIncoming' = e \o <<>>
      <3>1. <<>> \o e = e /\ e \o <<>> = e
        BY <1>2
      <3>. QED
        BY <1>5, <1>6, <3>1
    <2>2. hState # "Sync" => Len(hSpan) = 0
      <3>1. HostStarted \o toHost = <<>>
        BY <1>6 DEF HostIncoming
      <3>2. HostStarted = <<>>
        BY <1>3, <3>1, BothEmpty
      <3>. QED
        BY <3>2 DEF HostStarted
    <2>3. hState' # "Sync" => Len(hSpan') < Len(e)
      BY <1>2, <2>2
    <2>. QED
      BY <1>1, <2>1, <2>3 DEF Due
  <1>7. ASSUME NEW g, Due(g, <<>>), HP!Sendable(g) PROVE Due(g, H!Encode(f, 0, 0))'
    <2>1. PICK n : n = H!Encode(g, 0, 0)
      OBVIOUS
    <2>2. n \in Seq(Byte)
      BY <1>7, <2>1, SendableBytes
    <2>3. HostIncoming = n
      <3>1. n \o <<>> = n
        BY <2>2, ConcatAssoc
      <3>. QED
        BY <1>7, <2>1, <3>1 DEF Due
    <2>4. HostIncoming' = n \o e /\ (hState' # "Sync" => Len(hSpan') < Len(n))
      BY <1>5, <1>7, <2>1, <2>3 DEF Due
    <2>. QED
      BY <1>1, <2>1, <2>4 DEF Due
  <1>. QED
    BY <1>6, <1>7

\* Nothing for handle_frame but a notification
NoAnswer == hOut' = <<>> \/ hOut'[1].kind = "Notification"

(* What the host reads of the answer and the notifications due to it.        *)
LEMMA HostReadsReply ==
  ASSUME HP!Inv, LinkType, ReplyOnTheWay, rested, "reply" \notin faults, HostReads
  PROVE  /\ quiet
         /\ \/ AnswerDue /\ AnswerDue' /\ NoAnswer
            \/ AnswerDue /\ HostIncoming' = <<>> /\ hOut' = answer
            \/ /\ ~AnswerDue /\ NoAnswer
               /\ HostIncoming' = <<>> \/ \E p \in Answers : Due(Notice(p), <<>>)'
  <1>1. /\ toHost # <<>> /\ H!Feed(Head(toHost)) /\ toHost' = Tail(toHost) /\ answer' = answer
    BY DEF HostReads, histories, exchange
  <1>2. /\ quiet
        /\ HostIncoming = <<>> \/ AnswerDue \/ \E p \in Answers : Due(Notice(p), <<>>)
    BY DEF ReplyOnTheWay
  <1>3. HostIncoming # <<>>
    <2>1. HostStarted \in Seq(Byte) /\ toHost \in Seq(Byte)
      BY HostTypes
    <2>. QED
      BY <1>1, <2>1, BothEmpty DEF HostIncoming
  <1>4. <<>> \in Seq(Byte)
    OBVIOUS
  <1>5. ASSUME NEW p \in Answers, hOut' = <<Notice(p)>> PROVE NoAnswer
    <2>1. <<Notice(p)>>[1] = Notice(p)
      OBVIOUS
    <2>. QED
      BY <1>5, <2>1, NoticeSendable DEF NoAnswer
  <1>6. CASE AnswerDue
    <2>1. PICK a : a = answer[1]
      OBVIOUS
    <2>2. answer # <<>> /\ answer = <<a>> /\ HP!Sendable(a)
      BY <1>6, <2>1 DEF AnswerDue, LinkType
    <2>3. PICK e : e = H!Encode(a, 0, 0)
      OBVIOUS
    <2>4. e \in Seq(Byte)
      BY <2>2, <2>3, SendableBytes
    <2>5. answer'[1] = a /\ answer' # <<>>
      BY <1>1, <2>1, <2>2
    <2>6. ASSUME Due(a, <<>>)' PROVE AnswerDue'
      BY <2>5, <2>6 DEF AnswerDue
    <2>7. CASE Due(a, <<>>)
      <3>1. \/ Due(a, <<>>)' /\ hOut' = <<>>
            \/ HostIncoming' = <<>> /\ hState' = "Sync" /\ hOut' = <<a>>
        BY <1>1, <1>4, <2>2, <2>7, HostFollows
      <3>. QED
        BY <1>2, <1>6, <2>2, <2>6, <3>1 DEF NoAnswer
    <2>8. ASSUME NEW p \in Answers, Due(Notice(p), e)
          PROVE  AnswerDue' /\ NoAnswer
      <3>1. HP!Sendable(Notice(p))
        BY NoticeSendable
      <3>2. PICK n : n = Notice(p)
        OBVIOUS
      <3>3. \/ Due(n, e)' /\ hOut' = <<>>
            \/ HostIncoming' = e /\ hState' = "Sync" /\ hOut' = <<n>>
        BY <1>1, <2>4, <2>8, <3>1, <3>2, HostFollows
      <3>4. CASE Due(n, e)' /\ hOut' = <<>>
        <4>1. AnswerDue'
          BY <2>3, <2>5, <3>2, <3>4 DEF AnswerDue, Notice
        <4>. QED
          BY <3>4, <4>1 DEF NoAnswer
      <3>5. CASE HostIncoming' = e /\ hState' = "Sync" /\ hOut' = <<n>>
        <4>1. e \o <<>> = e
          BY <2>4, ConcatAssoc
        <4>2. Due(a, <<>>)'
          BY <2>3, <3>5, <4>1 DEF Due
        <4>. QED
          BY <1>5, <2>6, <3>2, <3>5, <4>2
      <3>. QED
        BY <3>3, <3>4, <3>5
    <2>. QED
      BY <1>2, <1>6, <2>1, <2>3, <2>7, <2>8 DEF AnswerDue
  <1>7. CASE ~AnswerDue
    <2>1. PICK p \in Answers : Due(Notice(p), <<>>)
      BY <1>2, <1>3, <1>7
    <2>2. HP!Sendable(Notice(p))
      BY NoticeSendable
    <2>3. PICK n : n = Notice(p)
      OBVIOUS
    <2>4. \/ Due(n, <<>>)' /\ hOut' = <<>>
          \/ HostIncoming' = <<>> /\ hState' = "Sync" /\ hOut' = <<n>>
      BY <1>1, <1>4, <2>1, <2>2, <2>3, HostFollows
    <2>5. CASE Due(n, <<>>)' /\ hOut' = <<>>
      <3>1. Due(Notice(p), <<>>)'
        BY <2>3, <2>5 DEF Notice
      <3>. QED
        BY <1>2, <1>7, <2>5, <3>1 DEF NoAnswer
    <2>6. CASE HostIncoming' = <<>> /\ hOut' = <<n>>
      BY <1>2, <1>5, <1>7, <2>3, <2>6
    <2>. QED
      BY <2>4, <2>5, <2>6
  <1>. QED
    BY <1>6, <1>7

(* The device answers the request it has received.                           *)
LEMMA DeviceAnswers ==
  ASSUME Inv, LinkType, Inv', LinkType', HP!Inv, RequestOnTheWay, ReplyOnTheWay,
         rested, "reply" \notin faults, NEW p \in Answers, DeviceReads(p), sendOk'
  PROVE  /\ request # <<>> /\ request[1] \in Requests /\ answer = <<>> /\ quiet
         /\ \/ GoesOn /\ toHost' = toHost /\ answer' = answer
            \/ /\ AnswerDue'
               /\ answer' # <<>> /\ answer'[1].kind \in {"Nack", Expect(request[1])}
               /\ answer'[1].kind # "Notification" /\ answer'[1].command = request[1].cmd
  <1>1. /\ hState' = hState /\ hSpan' = hSpan /\ Answered
        /\ reply' = <<>> => toHost' = toHost /\ answer' = answer
        /\ reply' # <<>> =>
              /\ reply'[1] \in Reply
              /\ HP!Sendable(ReplyFrame(reply'[1], p))
              /\ answer' = <<ReplyFrame(reply'[1], p)>>
              /\ reply'[1].whole =>
                   toHost' = toHost \o H!Encode(ReplyFrame(reply'[1], p), 0, 0)
    BY DeviceReadsFacts
  <1>2. quiet
    BY DEF ReplyOnTheWay
  <1>3. /\ request # <<>> /\ request[1] \in Requests /\ answer = <<>>
    BY <1>2, RequestRead
  <1>4. PICK g \in Variants(request[1]) :
          /\ Spelled(g, request[1])
          /\ GoesOn \/ Ends(g, request[1])
    BY <1>2, RequestRead
  <1>5. CASE GoesOn
    BY <1>1, <1>2, <1>3, <1>5 DEF GoesOn
  <1>6. CASE Ends(g, request[1])
    <2>1. /\ span' # span /\ IsRequest(span') /\ span' \in Seq(Byte) /\ Len(span') = Len(g)
          /\ Begins(span', g)
          /\ reply' # <<>> => reply'[1].kind \in {"Nack", Expect(request[1])}
      BY <1>6 DEF Ends
    <2>2. reply' # <<>> /\ reply'[1].whole /\ reply'[1].command = span'[3]
      BY <1>1, <2>1 DEF Answered
    <2>3. span'[3] = request[1].cmd
      <3>1. g[3] = request[1].cmd
        BY <1>4 DEF Spelled
      <3>2. Len(span') \in Nat /\ (Len(span') = 3 \/ Len(span') >= 6)
        BY <2>1 DEF IsRequest, IsRead, IsWrite
      <3>3. 3 \in 1..Len(span')
        BY <3>2
      <3>. QED
        BY <2>1, <3>1, <3>3 DEF Begins
    <2>4. PICK r : r = reply'[1]
      OBVIOUS
    <2>5. PICK f : f = ReplyFrame(r, p)
      OBVIOUS
    <2>6. r \in Reply /\ HP!Sendable(f) /\ answer' = <<f>> /\ toHost' = toHost \o H!Encode(f, 0, 0)
      BY <1>1, <2>2, <2>4, <2>5
    <2>7. f.kind = r.kind /\ (r.kind # "Notification" => f.command = r.command)
      BY <2>5, <2>6, ReplySendable
    <2>8. r.kind \in {"Nack", Expect(request[1])} /\ r.kind # "Notification"
      BY <2>1, <2>2, <2>4 DEF Expect
    <2>9. answer' # <<>> /\ answer'[1] = f
      BY <2>6
    <2>10. AnswerDue'
      <3>1. HostIncoming = <<>> \/ \E q \in Answers : Due(Notice(q), <<>>)
        BY <1>3 DEF ReplyOnTheWay, AnswerDue
      <3>2. /\ HostIncoming = <<>> => Due(f, <<>>)'
            /\ \A n : Due(n, <<>>) /\ HP!Sendable(n) => Due(n, H!Encode(f, 0, 0))'
        BY <1>1, <2>6, FrameFollows
      <3>3. CASE HostIncoming = <<>>
        BY <2>9, <3>2, <3>3 DEF AnswerDue
      <3>4. ASSUME NEW q \in Answers, Due(Notice(q), <<>>) PROVE AnswerDue'
        <4>1. HP!Sendable(Notice(q))
          BY NoticeSendable
        <4>2. PICK n : n = Notice(q)
          OBVIOUS
        <4>3. Due(n, H!Encode(f, 0, 0))'
          BY <3>2, <3>4, <4>1, <4>2
        <4>. QED
          BY <2>9, <4>2, <4>3 DEF AnswerDue, Notice
      <3>. QED
        BY <3>1, <3>3, <3>4
    <2>. QED
      BY <1>2, <1>3, <2>2, <2>3, <2>4, <2>7, <2>8, <2>9, <2>10
  <1>. QED
    BY <1>4, <1>5, <1>6

(* A step that leaves the host and the bytes on the way to it alone.         *)
LEMMA ReplyKept ==
  ASSUME ReplyOnTheWay, hState' = hState, hSpan' = hSpan, toHost' = toHost, answer' = answer,
         rested' = rested, quiet' = quiet, "reply" \notin faults' => "reply" \notin faults
  PROVE  ReplyOnTheWay'
  <1> SUFFICES ASSUME rested', "reply" \notin faults'
               PROVE  /\ quiet'
                      /\ HostIncoming' = <<>> \/ AnswerDue'
                           \/ \E p \in Answers : Due(Notice(p), <<>>)'
    BY DEF ReplyOnTheWay
  <1>1. /\ quiet
        /\ HostIncoming = <<>> \/ AnswerDue \/ \E p \in Answers : Due(Notice(p), <<>>)
    BY DEF ReplyOnTheWay
  <1>2. /\ HostIncoming' = HostIncoming
        /\ \A f, rest : Due(f, rest)' <=> Due(f, rest)
        /\ AnswerDue' <=> AnswerDue
    BY DueKept
  <1>3. ASSUME NEW p \in Answers, Due(Notice(p), <<>>) PROVE Due(Notice(p), <<>>)'
    <2>1. PICK n : n = Notice(p)
      OBVIOUS
    <2>2. Due(n, <<>>)'
      BY <1>2, <1>3, <2>1
    <2>. QED
      BY <2>1, <2>2 DEF Notice
  <1>. QED
    BY <1>1, <1>2, <1>3

(* Every step keeps the answer's bytes in order.                             *)
LEMMA ReplyStep ==
  ASSUME Inv, LinkType, Inv', LinkType', HP!Inv, RequestOnTheWay, ReplyOnTheWay,
         [LinkNext]_linkVars
  PROVE  ReplyOnTheWay'
  <1>1. CASE UNCHANGED linkVars
    <2>1. /\ hState' = hState /\ hSpan' = hSpan /\ toHost' = toHost /\ answer' = answer
          /\ rested' = rested /\ quiet' = quiet /\ faults' = faults
      BY <1>1 DEF linkVars, parser, lines, histories, exchange
    <2>. QED
      BY <2>1, ReplyKept
  <1>2. ASSUME NEW r \in Requests, Send(r) PROVE ReplyOnTheWay'
    <2>1. /\ rested' = (quiet' /\ hState = "Sync" /\ toHost = <<>>)
          /\ hState' = hState /\ toHost' = toHost
      BY <1>2 DEF Send, parser
    <2>2. <<>> \o <<>> = <<>>
      <3>1. <<>> \in Seq(Byte)
        OBVIOUS
      <3>. QED
        BY <3>1, ConcatAssoc
    <2>3. rested' => quiet' /\ HostIncoming' = <<>>
      BY <2>1, <2>2 DEF HostIncoming, HostStarted
    <2>. QED
      BY <2>3 DEF ReplyOnTheWay
  <1>3. CASE WriteSome \/ TakeOutgoing \/ WriteDone \/ Timeout \/ Tick \/ DeviceTicks
    <2>1. UNCHANGED <<parser, histories>> /\ toHost' = toHost
      BY <1>3 DEF WriteSome, TakeOutgoing, WriteDone, Timeout, Tick, DeviceTicks, lines
    <2>2. /\ hState' = hState /\ hSpan' = hSpan /\ answer' = answer
          /\ rested' = rested /\ quiet' = quiet /\ faults' = faults
      BY <2>1 DEF parser, histories, exchange
    <2>. QED
      BY <2>1, <2>2, ReplyKept
  <1>4. CASE WriteFails \/ LineDamages
    <2>1. UNCHANGED <<parser, exchange>> /\ toHost' = toHost /\ faults' = faults \cup {"request"}
      BY <1>4 DEF WriteFails, LineDamages, Fault
    <2>2. /\ hState' = hState /\ hSpan' = hSpan /\ answer' = answer
          /\ rested' = rested /\ quiet' = quiet
      BY <2>1 DEF parser, exchange
    <2>3. "reply" \notin faults' => "reply" \notin faults
      BY <2>1
    <2>. QED
      BY <2>1, <2>2, <2>3, ReplyKept
  <1>5. CASE LineLoses
    <2>1. /\ UNCHANGED <<parser, exchange>>
          /\ \/ toHost' = toHost /\ faults' = faults \cup {"request"}
             \/ faults' = faults \cup {"reply"}
      BY <1>5 DEF LineLoses, Fault
    <2>2. /\ hState' = hState /\ hSpan' = hSpan /\ answer' = answer
          /\ rested' = rested /\ quiet' = quiet
      BY <2>1 DEF parser, exchange
    <2>3. CASE toHost' = toHost /\ faults' = faults \cup {"request"}
      <3>1. "reply" \notin faults' => "reply" \notin faults
        BY <2>3
      <3>. QED
        BY <2>2, <2>3, <3>1, ReplyKept
    <2>4. CASE faults' = faults \cup {"reply"}
      <3>1. "reply" \in faults'
        BY <2>4
      <3>. QED
        BY <3>1 DEF ReplyOnTheWay
    <2>. QED
      BY <2>1, <2>3, <2>4
  <1>6. CASE HostRestarts \/ DeviceRestarts
    <2>1. "reply" \in faults'
      BY <1>6 DEF HostRestarts, DeviceRestarts, Fault
    <2>. QED
      BY <2>1 DEF ReplyOnTheWay
  <1>7. CASE HostReads
    <2>1. rested' = rested /\ quiet' = quiet /\ faults' = faults
      BY <1>7 DEF HostReads, histories, exchange
    <2>2. ASSUME rested, "reply" \notin faults
          PROVE  /\ quiet
                 /\ HostIncoming' = <<>> \/ AnswerDue'
                      \/ \E p \in Answers : Due(Notice(p), <<>>)'
      BY <1>7, <2>2, HostReadsReply
    <2>. QED
      BY <2>1, <2>2 DEF ReplyOnTheWay
  <1>8. ASSUME NEW p \in Answers, DeviceReads(p) PROVE ReplyOnTheWay'
    <2>1. /\ quiet' = quiet /\ rested' = rested /\ hState' = hState /\ hSpan' = hSpan
          /\ sendOk' => faults' = faults
          /\ ~sendOk' => "reply" \in faults'
      BY <1>8, DeviceReadsFacts
    <2>2. CASE ~sendOk'
      BY <2>1, <2>2 DEF ReplyOnTheWay
    <2>3. CASE sendOk' /\ ~(rested /\ "reply" \notin faults)
      BY <2>1, <2>3 DEF ReplyOnTheWay
    <2>4. CASE sendOk' /\ rested /\ "reply" \notin faults
      <3>1. /\ quiet
            /\ AnswerDue' \/ (toHost' = toHost /\ answer' = answer)
        BY <1>8, <2>4, DeviceAnswers
      <3>2. CASE AnswerDue'
        BY <2>1, <3>1, <3>2 DEF ReplyOnTheWay
      <3>3. CASE toHost' = toHost /\ answer' = answer
        BY <2>1, <2>4, <3>3, ReplyKept
      <3>. QED
        BY <3>1, <3>2, <3>3
    <2>. QED
      BY <2>2, <2>3, <2>4
  <1>9. ASSUME NEW p \in Answers, DeviceNotifies(p) PROVE ReplyOnTheWay'
    <2>1. /\ toHost = <<>> /\ quiet' = quiet /\ rested' = rested /\ answer' = answer
          /\ hState' = hState /\ hSpan' = hSpan
          /\ sendOk' => faults' = faults /\ toHost' = H!Encode(Notice(p), 0, 0)
          /\ ~sendOk' => "reply" \in faults'
      BY <1>9, DeviceNotifiesFacts
    <2>2. CASE ~sendOk'
      BY <2>1, <2>2 DEF ReplyOnTheWay
    <2>3. CASE sendOk' /\ ~(rested /\ "reply" \notin faults)
      BY <2>1, <2>3 DEF ReplyOnTheWay
    <2>4. CASE sendOk' /\ rested /\ "reply" \notin faults
      <3>1. /\ quiet
            /\ HostIncoming = <<>> \/ AnswerDue \/ \E q \in Answers : Due(Notice(q), <<>>)
        BY <2>4 DEF ReplyOnTheWay
      <3>2. ~AnswerDue /\ ~\E q \in Answers : Due(Notice(q), <<>>)
        <4>1. <<>> \in Seq(Byte)
          OBVIOUS
        <4>2. ASSUME NEW q \in Answers, NEW rest \in Seq(Byte), Due(Notice(q), rest) PROVE FALSE
          <5>1. HP!Sendable(Notice(q))
            BY NoticeSendable
          <5>. QED
            BY <2>1, <4>2, <5>1, DueHasBytes
        <4>3. ASSUME AnswerDue PROVE FALSE
          <5>1. PICK a : a = answer[1]
            OBVIOUS
          <5>2. HP!Sendable(a) /\ H!Encode(a, 0, 0) \in Seq(Byte)
            BY <4>3, <5>1, SendableBytes DEF AnswerDue, LinkType
          <5>3. ~Due(a, <<>>)
            BY <2>1, <4>1, <5>2, DueHasBytes
          <5>. QED
            BY <4>2, <4>3, <5>1, <5>2, <5>3 DEF AnswerDue
        <4>. QED
          BY <4>1, <4>2, <4>3
      <3>3. HostIncoming = <<>>
        BY <3>1, <3>2
      <3>4. PICK n : n = Notice(p)
        OBVIOUS
      <3>5. HP!Sendable(n)
        BY <3>4, NoticeSendable
      <3>6. toHost' = toHost \o H!Encode(n, 0, 0)
        <4>1. H!Encode(n, 0, 0) \in Seq(Byte)
          BY <3>5, SendableBytes
        <4>2. \A q \in Seq(Byte) : <<>> \o q = q
          OBVIOUS
        <4>. QED
          BY <2>1, <2>4, <3>4, <4>1, <4>2
      <3>7. Due(n, <<>>)'
        BY <2>1, <3>3, <3>5, <3>6, FrameFollows
      <3>8. Due(Notice(p), <<>>)'
        BY <3>4, <3>7 DEF Notice
      <3>. QED
        BY <2>1, <3>1, <3>8 DEF ReplyOnTheWay
    <2>. QED
      BY <2>2, <2>3, <2>4
  <1>. QED
    BY <1>1, <1>2, <1>3, <1>4, <1>5, <1>6, <1>7, <1>8, <1>9 DEF LinkNext

(* With nothing on the line no answer is due.                                *)
LEMMA AnswerHasBytes ==
  ASSUME HP!Inv, LinkType, AnswerDue
  PROVE  toHost # <<>>
  <1>1. <<>> \in Seq(Byte)
    OBVIOUS
  <1>2. PICK a : a = answer[1]
    OBVIOUS
  <1>3. HP!Sendable(a) /\ H!Encode(a, 0, 0) \in Seq(Byte)
    BY <1>2, SendableBytes DEF AnswerDue, LinkType
  <1>4. CASE Due(a, <<>>)
    BY <1>1, <1>3, <1>4, DueHasBytes
  <1>5. ASSUME NEW q \in Answers, Due(Notice(q), H!Encode(a, 0, 0)) PROVE toHost # <<>>
    <2>1. HP!Sendable(Notice(q))
      BY NoticeSendable
    <2>. QED
      BY <1>3, <1>5, <2>1, DueHasBytes
  <1>. QED
    BY <1>2, <1>4, <1>5 DEF AnswerDue

(* A whole request the device has not answered is not all in the device.     *)
LEMMA BytesLeft ==
  ASSUME Inv, LinkType, RequestOnTheWay, quiet, Len(Incoming) = Len(FrameOf(request[1]))
  PROVE  toDevice \o unsent # <<>>
  <1>1. request[1] \in Requests /\ Len(request[1].data) <= MAX_PAYLOAD
    BY DEF RequestOnTheWay, LinkType
  <1>2. Len(FrameOf(request[1])) \in Nat /\ Len(FrameOf(request[1])) >= 3
    <2>1. /\ FrameOf(request[1]) \in Seq(Byte)
          /\ Len(FrameOf(request[1])) = 3 \/ Len(FrameOf(request[1])) = Len(request[1].data) + 6
      BY <1>1, FrameOfFacts
    <2>2. Len(request[1].data) \in Nat
      BY <1>1, RequestFacts
    <2>3. \A x, y \in Nat : (x = 3 \/ x = y + 6) => x >= 3
      OBVIOUS
    <2>4. Len(FrameOf(request[1])) \in Nat
      BY <2>1
    <2>. QED
      BY <2>1, <2>2, <2>3, <2>4
  <1>3. Incoming # <<>>
    <2>1. Len(<<>>) = 0
      OBVIOUS
    <2>. QED
      BY <1>2, <2>1
  <1>4. PICK g \in Variants(request[1]) : state # "SYNC" => Len(span) < Len(g)
    BY <1>3 DEF RequestOnTheWay
  <1>5. Len(g) = Len(FrameOf(request[1]))
    BY <1>1, VariantFacts
  <1>6. SUFFICES ASSUME toDevice \o unsent = <<>> PROVE FALSE
    OBVIOUS
  <1>7. span \in Seq(Byte) /\ Len(span) \in Nat
    BY DeviceSpan
  <1>8. \A q \in Seq(Byte) : q \o <<>> = q
    OBVIOUS
  <1>9. CASE state = "SYNC"
    <2>1. <<>> \in Seq(Byte)
      OBVIOUS
    <2>2. Incoming = <<>>
      BY <1>6, <1>8, <1>9, <2>1 DEF Incoming, Started
    <2>. QED
      BY <1>3, <2>2
  <1>10. CASE state # "SYNC"
    <2>1. Incoming = span
      BY <1>6, <1>7, <1>8, <1>10 DEF Incoming, Started
    <2>2. Len(span) < Len(span)
      BY <1>4, <1>5, <1>10, <2>1
    <2>. QED
      BY <1>7, <2>2
  <1>. QED
    BY <1>9, <1>10

(* A step that leaves the request, or the answer, under way as it is.        *)
LEMMA MissingKept ==
  ASSUME NothingMissing, rested' => rested, faults' = {} => faults = {},
         phase' # "idle" => phase # "idle", request' = request, answer' = answer,
         AnswerDue => AnswerDue',
         (rested /\ answer = <<>> /\ Len(Incoming) = Len(FrameOf(request[1])))
            => Incoming' = Incoming,
         (rested /\ faults = {} /\ phase' = "waiting") => waited' <= elapsed'
  PROVE  NothingMissing'
  <1> SUFFICES ASSUME rested', faults' = {}, phase' # "idle"
               PROVE  /\ \/ answer' = <<>> /\ Len(Incoming') = Len(FrameOf(request'[1]))
                         \/ AnswerDue' /\ Completes(request'[1], answer'[1])
                      /\ phase' = "waiting" => waited' <= elapsed'
    BY DEF NothingMissing
  <1>1. \/ answer = <<>> /\ Len(Incoming) = Len(FrameOf(request[1]))
        \/ AnswerDue /\ Completes(request[1], answer[1])
    BY DEF NothingMissing
  <1>2. CASE answer = <<>> /\ Len(Incoming) = Len(FrameOf(request[1]))
    BY <1>2
  <1>3. CASE AnswerDue /\ Completes(request[1], answer[1])
    BY <1>3
  <1>. QED
    BY <1>1, <1>2, <1>3

(* Time passes while the request or its answer is under way.                 *)
LEMMA MissingTick ==
  ASSUME Inv, LinkType, Inv', LinkType', HP!Inv, RequestOnTheWay, ReplyOnTheWay,
         NothingMissing, Tick
  PROVE  NothingMissing'
  <1>1. /\ UnderWay => elapsed < MaxLatency
        /\ elapsed' = Later(elapsed, MaxLatency)
        /\ waited' = (IF phase = "waiting" THEN Later(waited, ResponseTimeout) ELSE waited)
        /\ phase' = phase /\ UNCHANGED parser /\ toHost' = toHost /\ faults' = faults
    BY DEF Tick, lines, histories
  <1>2. /\ state' = state /\ (state # "SYNC" => span' = span)
        /\ toDevice' \o unsent' = toDevice \o unsent
        /\ rested' = rested /\ request' = request /\ answer' = answer
    BY IdleFacts DEF Idle
  <1>3. Incoming' = Incoming
    BY <1>2, ComingKept
  <1>4. AnswerDue' <=> AnswerDue
    BY <1>1, <1>2, DueKept DEF parser
  <1>5. ASSUME rested, faults = {}, phase' = "waiting" PROVE waited' <= elapsed'
    <2>1. /\ waited \in Nat /\ elapsed \in Nat
          /\ toDevice \o unsent # <<>> <=> (toDevice # <<>> \/ unsent # <<>>)
      BY TimeTypes
    <2>2. quiet
      BY <1>5 DEF ReplyOnTheWay
    <2>3. /\ \/ answer = <<>> /\ Len(Incoming) = Len(FrameOf(request[1]))
             \/ AnswerDue
          /\ waited <= elapsed
      BY <1>1, <1>5 DEF NothingMissing
    <2>4. UnderWay
      <3>1. CASE Len(Incoming) = Len(FrameOf(request[1]))
        BY <2>1, <2>2, <3>1, BytesLeft DEF UnderWay
      <3>2. CASE AnswerDue
        BY <3>2, AnswerHasBytes DEF UnderWay
      <3>. QED
        BY <2>3, <3>1, <3>2
    <2>5. elapsed' = elapsed + 1
      BY <1>1, <2>4 DEF Later
    <2>6. waited' = waited \/ waited' = waited + 1
      BY <1>1 DEF Later
    <2>7. \A x, y \in Nat : x <= y => x <= y + 1 /\ x + 1 <= y + 1
      OBVIOUS
    <2>8. waited <= elapsed + 1 /\ waited + 1 <= elapsed + 1
      BY <2>1, <2>3, <2>7
    <2>. QED
      BY <2>5, <2>6, <2>8
  <1>. QED
    BY <1>1, <1>2, <1>3, <1>4, <1>5, MissingKept

(* Every step keeps the request or its answer under way.                     *)
LEMMA MissingStep ==
  ASSUME Inv, LinkType, Inv', LinkType', HP!Inv, Times, RequestOnTheWay, ReplyOnTheWay,
         NothingMissing, [LinkNext]_linkVars
  PROVE  NothingMissing'
  <1>0. rested /\ faults = {} /\ phase = "waiting" => waited <= elapsed
    BY DEF NothingMissing
  <1>1. CASE UNCHANGED linkVars \/ WriteSome \/ TakeOutgoing \/ WriteDone
    <2>1. Idle
      BY <1>1 DEF Idle
    <2>2. /\ state' = state /\ (state # "SYNC" => span' = span)
          /\ toDevice' \o unsent' = toDevice \o unsent
          /\ rested' = rested /\ request' = request /\ answer' = answer
      BY <2>1, IdleFacts
    <2>3. Incoming' = Incoming
      BY <2>2, ComingKept
    <2>4. UNCHANGED parser /\ toHost' = toHost /\ faults' = faults /\ elapsed' = elapsed
      BY <1>1 DEF linkVars, WriteSome, TakeOutgoing, WriteDone, lines, times, histories
    <2>5. /\ phase' # "idle" => phase # "idle"
          /\ phase' = "waiting" => waited' = 0 \/ (phase = "waiting" /\ waited' = waited)
      BY <1>1 DEF linkVars, WriteSome, TakeOutgoing, WriteDone, times
    <2>6. AnswerDue' <=> AnswerDue
      BY <2>2, <2>4, DueKept DEF parser
    <2>7. elapsed \in Nat
      BY TimeTypes
    <2>8. (rested /\ faults = {} /\ phase' = "waiting") => waited' <= elapsed'
      BY <1>0, <2>4, <2>5, <2>7
    <2>. QED
      BY <2>2, <2>3, <2>4, <2>5, <2>6, <2>8, MissingKept
  <1>2. ASSUME NEW r \in Requests, Send(r) PROVE NothingMissing'
    <2>1. /\ waited' = 0 /\ elapsed' = 0 /\ answer' = <<>> /\ (rested' => quiet')
          /\ request'[1] = r
      BY <1>2 DEF Send
    <2>2. quiet' => Incoming' = FrameOf(r)
      BY <1>2, RequestSent
    <2>3. ASSUME rested'
          PROVE  /\ answer' = <<>> /\ Len(Incoming') = Len(FrameOf(request'[1]))
                 /\ waited' <= elapsed'
      BY <2>1, <2>2, <2>3
    <2>. QED
      BY <2>3 DEF NothingMissing
  <1>3. CASE Losing \/ LineDamages \/ DeviceRestarts
    <2>1. faults' # {}
      <3>1. CASE Losing
        BY <3>1, LosingFacts
      <3>2. CASE LineDamages \/ DeviceRestarts
        BY <3>2 DEF LineDamages, DeviceRestarts, Fault
      <3>. QED
        BY <1>3, <3>1, <3>2
    <2>. QED
      BY <2>1 DEF NothingMissing
  <1>4. CASE Timeout
    <2>1. phase' = "idle"
      BY <1>4 DEF Timeout
    <2>. QED
      BY <2>1 DEF NothingMissing
  <1>5. CASE Tick
    BY <1>5, MissingTick
  <1>6. CASE DeviceTicks
    <2>1. /\ RuntimeTick /\ UNCHANGED <<parser, lines, times, histories>> /\ phase' = phase
          /\ request' = request
      BY <1>6 DEF DeviceTicks
    <2>2. /\ rested' = rested /\ answer' = answer /\ faults' = faults /\ toHost' = toHost
          /\ toDevice' = toDevice /\ unsent' = unsent /\ waited' = waited /\ elapsed' = elapsed
      BY <2>1 DEF lines, times, histories, exchange
    <2>3. AnswerDue' <=> AnswerDue
      BY <2>1, <2>2, DueKept DEF parser
    <2>4. ASSUME rested, "reply" \notin faults, Len(Incoming) = Len(FrameOf(request[1]))
          PROVE  Incoming' = Incoming
      <3>1. quiet
        BY <2>4 DEF ReplyOnTheWay
      <3>2. toDevice \o unsent # <<>>
        BY <2>4, <3>1, BytesLeft
      <3>3. state' = state /\ (state # "SYNC" => span' = span)
        <4>1. CASE state = "SYNC"
          BY <2>1, <4>1 DEF RuntimeTick
        <4>2. CASE state # "SYNC"
          BY <2>1, <3>1, <3>2, <4>2, TickKeeps
        <4>. QED
          BY <4>1, <4>2
      <3>. QED
        BY <2>2, <3>3, ComingKept
    <2>5. CASE faults # {}
      BY <2>2, <2>5 DEF NothingMissing
    <2>6. CASE faults = {}
      BY <1>0, <2>1, <2>2, <2>3, <2>4, <2>6, MissingKept
    <2>. QED
      BY <2>5, <2>6
  <1>7. CASE HostReads
    <2>1. /\ state' = state /\ (state # "SYNC" => span' = span)
          /\ toDevice' \o unsent' = toDevice \o unsent
          /\ rested' = rested /\ request' = request /\ answer' = answer
      BY <1>7, IdleFacts DEF Idle
    <2>2. Incoming' = Incoming
      BY <2>1, ComingKept
    <2>3. /\ faults' = faults /\ elapsed' = elapsed /\ phase # "writing"
          /\ phase' = (IF phase = "waiting" /\ hOut' # <<>> /\ Completes(request[1], hOut'[1])
                       THEN "idle" ELSE phase)
          /\ phase' # "idle" => waited' = waited
      BY <1>7 DEF HostReads, histories
    <2>4. SUFFICES ASSUME rested, faults = {}, phase' # "idle" PROVE NothingMissing'
      BY <2>1, <2>3 DEF NothingMissing
    <2>5. phase = "waiting" /\ phase' = "waiting"
      BY <2>3, <2>4 DEF LinkType
    <2>6. \/ AnswerDue /\ AnswerDue'
          \/ AnswerDue /\ hOut' = answer
          \/ ~AnswerDue
      BY <1>7, <2>4, HostReadsReply
    <2>7. ~(AnswerDue /\ hOut' = answer)
      <3>1. SUFFICES ASSUME AnswerDue, hOut' = answer PROVE FALSE
        OBVIOUS
      <3>2. answer # <<>> /\ Completes(request[1], answer[1])
        BY <2>4, <2>5, <3>1 DEF NothingMissing, AnswerDue
      <3>3. phase' = "idle"
        BY <2>3, <2>5, <3>1, <3>2
      <3>. QED
        BY <2>5, <3>3
    <2>8. AnswerDue => AnswerDue'
      BY <2>6, <2>7
    <2>9. waited' <= elapsed'
      BY <1>0, <2>3, <2>4, <2>5
    <2>. QED
      BY <2>1, <2>2, <2>3, <2>5, <2>8, <2>9, MissingKept
  <1>8. ASSUME NEW p \in Answers, DeviceReads(p) PROVE NothingMissing'
    <2>1. /\ phase' = phase /\ request' = request
          /\ waited' = waited /\ elapsed' = elapsed /\ rested' = rested
          /\ sendOk' => faults' = faults
          /\ ~sendOk' => "reply" \in faults'
          /\ hState' = hState /\ hSpan' = hSpan
      BY <1>8, DeviceReadsFacts
    <2>2. SUFFICES ASSUME rested, faults' = {}, phase # "idle" PROVE NothingMissing'
      BY <2>1 DEF NothingMissing
    <2>3. sendOk' /\ faults = {}
      BY <2>1, <2>2
    <2>4. /\ answer = <<>>
          /\ \/ GoesOn /\ toHost' = toHost /\ answer' = answer
             \/ /\ AnswerDue'
                /\ answer' # <<>> /\ answer'[1].kind \in {"Nack", Expect(request[1])}
                /\ answer'[1].kind # "Notification" /\ answer'[1].command = request[1].cmd
      BY <1>8, <2>2, <2>3, DeviceAnswers
    <2>5. phase = "waiting" => waited' <= elapsed'
      BY <1>0, <2>1, <2>2, <2>3
    <2>6. CASE GoesOn /\ toHost' = toHost /\ answer' = answer
      <3>1. Incoming' = Incoming
        BY <2>6 DEF GoesOn
      <3>2. AnswerDue' <=> AnswerDue
        BY <2>1, <2>6, DueKept
      <3>. QED
        BY <2>1, <2>2, <2>3, <2>5, <2>6, <3>1, <3>2, MissingKept
    <2>7. CASE /\ AnswerDue'
               /\ answer'[1].kind \in {"Nack", Expect(request[1])}
               /\ answer'[1].kind # "Notification" /\ answer'[1].command = request[1].cmd
      <3>1. Completes(request'[1], answer'[1])
        BY <2>1, <2>7 DEF Completes
      <3>. QED
        BY <2>1, <2>5, <2>7, <3>1 DEF NothingMissing
    <2>. QED
      BY <2>4, <2>6, <2>7
  <1>9. ASSUME NEW p \in Answers, DeviceNotifies(p) PROVE NothingMissing'
    <2>1. /\ toHost = <<>> /\ phase' = phase /\ waited' = waited /\ elapsed' = elapsed
          /\ sendOk' => faults' = faults
          /\ ~sendOk' => "reply" \in faults'
      BY <1>9, DeviceNotifiesFacts
    <2>2. /\ state' = state /\ (state # "SYNC" => span' = span)
          /\ toDevice' \o unsent' = toDevice \o unsent
          /\ rested' = rested /\ request' = request /\ answer' = answer
      BY <1>9, IdleFacts DEF Idle
    <2>3. Incoming' = Incoming
      BY <2>2, ComingKept
    <2>4. ~AnswerDue
      BY <2>1, AnswerHasBytes
    <2>5. faults' = {} => faults = {}
      BY <2>1
    <2>. QED
      BY <1>0, <2>1, <2>2, <2>3, <2>4, <2>5, MissingKept
  <1>. QED
    BY <1>1, <1>2, <1>3, <1>4, <1>5, <1>6, <1>7, <1>8, <1>9 DEF LinkNext, Losing

-----------------------------------------------------------------------------
(* The invariant, and what follows from it.                                  *)

(* The link at rest.                                                         *)
LEMMA LinkInitInv == LinkInit => LinkInv
  <1> SUFFICES ASSUME LinkInit PROVE LinkInv
    OBVIOUS
  <1>1. Inv
    BY InitInv DEF LinkInit
  <1>2. HP!Inv
    <2>1. HP!Init
      BY DEF LinkInit, H!Init, HP!Init, H!NoSource, HP!NoSource
    <2>. QED
      BY <2>1, HostConstants, SameByte, HP!InitInv
  <1>3. /\ phase = "idle" /\ request = <<>> /\ unsent = <<>> /\ toDevice = <<>> /\ toHost = <<>>
        /\ waited = 0 /\ elapsed = 0 /\ quiet = FALSE /\ rested = FALSE /\ answer = <<>>
    BY DEF LinkInit
  <1>4. LinkType
    BY <1>3, LinkTimesAssumption DEF LinkType
  <1>. QED
    BY <1>1, <1>2, <1>3, <1>4 DEF LinkInv, Times, RequestOnTheWay, ReplyOnTheWay, NothingMissing

(* Every step keeps it.                                                      *)
LEMMA LinkNextInv == LinkInv /\ [LinkNext]_linkVars => LinkInv'
  <1> SUFFICES ASSUME LinkInv, [LinkNext]_linkVars PROVE LinkInv'
    OBVIOUS
  <1>1. /\ Inv /\ HP!Inv /\ LinkType /\ Times /\ RequestOnTheWay /\ ReplyOnTheWay
        /\ NothingMissing
    BY DEF LinkInv
  <1>2. Inv'
    BY <1>1, DeviceStep, NextInv
  <1>3. HP!Inv'
    BY <1>1, HostStep, HostInvStep
  <1>4. LinkType'
    BY <1>1, LinkTypeStep
  <1>5. Times'
    BY <1>1, <1>2, <1>4, TimesStep
  <1>6. RequestOnTheWay'
    BY <1>1, <1>2, <1>4, RequestStep
  <1>7. ReplyOnTheWay'
    BY <1>1, <1>2, <1>4, ReplyStep
  <1>8. NothingMissing'
    BY <1>1, <1>2, <1>4, MissingStep
  <1>. QED
    BY <1>2, <1>3, <1>4, <1>5, <1>6, <1>7, <1>8 DEF LinkInv

(* At every moment the bytes on the line and in the two parsers are those of *)
(* the exchange under way, and the times of client and device agree.         *)
THEOREM LinkConsistency == LinkSpec => []LinkInv
  <1>1. LinkInit => LinkInv
    BY LinkInitInv
  <1>2. LinkInv /\ [LinkNext]_linkVars => LinkInv'
    BY LinkNextInv
  <1>. QED
    BY <1>1, <1>2, PTL DEF LinkSpec

(* The device on the line is the device of DeviceRuntime: what was proved    *)
(* of Runtime_feedByte and Runtime_tick alone holds on this line too.        *)
THEOREM LinkRunsTheDevice == LinkSpec => Spec
  <1>1. LinkInit => Init
    BY DEF LinkInit
  <1>2. LinkInv /\ [LinkNext]_linkVars => [Next]_vars
    BY DeviceStep DEF LinkInv
  <1>. QED
    BY <1>1, <1>2, LinkConsistency, PTL DEF LinkSpec, Spec

(* The host on the line runs FrameParser::feed and reset and nothing else:   *)
(* what FrameParserProofs shows for arbitrary bytes holds here too.          *)
THEOREM LinkRunsTheParser == LinkSpec => H!Spec
  <1>1. LinkInit => H!Init
    BY DEF LinkInit
  <1>2. LinkInv /\ [LinkNext]_linkVars => [H!Next]_H!vars
    BY HostStep, SameByte DEF LinkInv, H!Next, H!vars, parser
  <1>. QED
    BY <1>1, <1>2, LinkConsistency, PTL DEF LinkSpec, H!Spec

(* The client gives up only when the device hunts for SYNC again and nothing *)
(* of the request is on its way: a resend finds a reset parser, for every    *)
(* latency, timeout and tick period for which the response timeout is above  *)
(* latency, partial-frame timeout and tick period together.                  *)
THEOREM ResendIsSafe == LinkSpec => ResendFindsResetParser
  <1>1. ASSUME LinkInv, Timeout PROVE state = "SYNC" /\ toDevice = <<>> /\ unsent = <<>>
    <2>1. Inv /\ LinkType /\ Times /\ phase = "waiting" /\ waited >= ResponseTimeout
      BY <1>1 DEF LinkInv, Timeout
    <2>2. /\ waited \in Nat /\ elapsed \in Nat /\ elapsed <= MaxLatency /\ MaxLatency \in Nat
          /\ age \in Nat
      BY <2>1, TimeTypes
    <2>3. /\ ResponseTimeout \in Nat /\ TIMEOUT_MS \in Nat /\ TickPeriod \in Nat
          /\ MaxLatency + TIMEOUT_MS + TickPeriod < ResponseTimeout
      BY LinkTimesAssumption, ClockAssumption
    <2>4. toDevice = <<>> /\ unsent = <<>>
      <3>1. SUFFICES ASSUME toDevice # <<>> \/ unsent # <<>> PROVE FALSE
        OBVIOUS
      <3>2. waited <= elapsed
        BY <2>1, <3>1 DEF Times
      <3>. QED
        BY <2>1, <2>2, <2>3, <3>2
    <2>5. state = "SYNC"
      <3>1. SUFFICES ASSUME state # "SYNC" PROVE FALSE
        OBVIOUS
      <3>2. waited <= age + MaxLatency
        BY <2>1, <3>1 DEF Times
      <3>3. age <= TIMEOUT_MS + sinceTick /\ sinceTick \in 0..TickPeriod
        BY <2>1, <3>1 DEF Inv, TypeOK, Timing
      <3>. QED
        BY <2>1, <2>2, <2>3, <3>2, <3>3
    <2>. QED
      BY <2>4, <2>5
  <1>2. LinkInv /\ [LinkNext]_linkVars
          => [Timeout => state = "SYNC" /\ toDevice = <<>> /\ unsent = <<>>]_linkVars
    BY <1>1
  <1>. QED
    BY <1>2, LinkConsistency, PTL DEF LinkSpec, ResendFindsResetParser

(* The bytes of a write frame, with a checksum of any type.                  *)
LEMMA WriteBytesFacts ==
  ASSUME NEW c \in Byte, NEW d \in Seq(Byte)
  PROVE  LET s == WriteBytes(c, d)
         IN  /\ Len(s) = Len(d) + 6 /\ s[2] = 1 /\ s[3] = c
             /\ \A j \in 1..Len(d) : s[5 + j] = d[j]
             /\ s[Len(d) + 6] = crc8(d)
  <1> DEFINE n == Len(d)
             lo == n % Radix
             hi == n \div Radix
             x == crc8(d)
             S == Byte \cup {lo, hi, x}
             h == <<FRAME_SYNC, 1, c, lo, hi>>
             k == <<x>>
             g == h \o d
  <1>1. WriteBytes(c, d) = g \o k
    BY DEF WriteBytes
  <1>2. n \in Nat
    OBVIOUS
  <1> HIDE DEF lo, hi, x
  <1>3. FRAME_SYNC \in S /\ 1 \in S /\ c \in S /\ lo \in S /\ hi \in S /\ x \in S
    BY Constants
  <1>4. d \in Seq(S)
    <2>1. \A T : Byte \subseteq T => d \in Seq(T)
      OBVIOUS
    <2>2. Byte \subseteq S
      OBVIOUS
    <2> HIDE DEF S
    <2>. QED
      BY <2>1, <2>2
  <1> HIDE DEF S
  <1>5. h \in Seq(S) /\ Len(h) = 5 /\ h[2] = 1 /\ h[3] = c
    <2>1. <<FRAME_SYNC, 1, c, lo, hi>> \in Seq(S) /\ Len(<<FRAME_SYNC, 1, c, lo, hi>>) = 5
      BY <1>3, Quints
    <2>. QED
      BY <2>1
  <1>6. k \in Seq(S) /\ Len(k) = 1 /\ k[1] = x
    BY <1>3
  <1> HIDE DEF h, k
  <1>7. /\ g \in Seq(S) /\ Len(g) = Len(h) + Len(d)
        /\ \A i \in 1..Len(h) : g[i] = h[i]
        /\ \A i \in 1..Len(d) : g[Len(h) + i] = d[i]
    <2>1. h \in Seq(S) /\ d \in Seq(S)
      BY <1>4, <1>5
    <2>. QED
      BY <2>1, ConcatAt
  <1> HIDE DEF g
  <1>8. /\ Len(g \o k) = Len(g) + Len(k)
        /\ \A i \in 1..Len(g) : (g \o k)[i] = g[i]
        /\ \A i \in 1..Len(k) : (g \o k)[Len(g) + i] = k[i]
    <2>1. g \in Seq(S) /\ k \in Seq(S)
      BY <1>6, <1>7
    <2>. QED
      BY <2>1, ConcatAt
  <1> HIDE DEF n
  <1>9. Len(d) = n
    BY DEF n
  <1>10. /\ Len(g) = 5 + n /\ 2 \in 1..5 /\ 3 \in 1..5 /\ \A i \in 1..5 : i \in 1..5 + n
         /\ \A i \in 1..n : 5 + i \in 1..5 + n
         /\ 5 + n + 1 = n + 6 /\ 1 \in 1..1
    BY <1>2, <1>5, <1>7, <1>9
  <1>11. (g \o k)[2] = 1 /\ (g \o k)[3] = c
    BY <1>5, <1>7, <1>8, <1>10
  <1>12. \A j \in 1..n : (g \o k)[5 + j] = d[j]
    BY <1>5, <1>7, <1>8, <1>9, <1>10
  <1>13. Len(g \o k) = n + 6 /\ (g \o k)[n + 6] = x
    BY <1>6, <1>8, <1>10
  <1>. QED
    BY <1>1, <1>9, <1>11, <1>12, <1>13 DEF x

(* What a handler finds in the frame it is called for is what the client was *)
(* asked to send, although a byte was damaged.                               *)
LEMMA PayloadOfFrame ==
  ASSUME NEW r \in Requests, NEW g, Spelled(g, r), NEW c \in Byte, NEW d \in Seq(Byte),
         NEW s, s = WriteBytes(c, d), Len(s) = Len(g), Begins(s, g)
  PROVE  r.op # "read" /\ c = r.cmd /\ d = r.data
  <1>1. /\ Len(s) = Len(d) + 6 /\ s[2] = 1 /\ s[3] = c
        /\ \A j \in 1..Len(d) : s[5 + j] = d[j]
        /\ s[Len(d) + 6] = crc8(d)
    BY WriteBytesFacts
  <1>2. Len(d) \in Nat /\ Len(r.data) \in Nat
    <2>1. Len(d) \in Nat
      OBVIOUS
    <2>. QED
      BY <2>1, RequestFacts
  <1>3. \A j \in 1..Len(s) : s[j] = g[j]
    BY DEF Begins
  <1>4. /\ 3 \in 1..Len(s) /\ Len(d) + 6 \in 1..Len(s)
        /\ \A j \in 1..Len(d) : 5 + j \in 1..Len(s)
    <2>1. \A m \in Nat : /\ 3 \in 1..m + 6 /\ m + 6 \in 1..m + 6
                         /\ \A j \in 1..m : 5 + j \in 1..m + 6
      OBVIOUS
    <2>. QED
      BY <1>1, <1>2, <2>1
  <1>5. r.op # "read"
    <2>1. SUFFICES ASSUME r.op = "read" PROVE FALSE
      OBVIOUS
    <2>2. Len(d) + 6 = 3
      BY <1>1, <2>1 DEF Spelled
    <2>. QED
      BY <1>2, <2>2
  <1>6. c = r.cmd
    BY <1>1, <1>3, <1>4 DEF Spelled
  <1>7. Len(d) = Len(r.data)
    <2>1. Len(d) + 6 = Len(r.data) + 6
      BY <1>1, <1>5 DEF Spelled
    <2>2. \A a, b \in Nat : a + 6 = b + 6 => a = b
      OBVIOUS
    <2>. QED
      BY <1>2, <2>1, <2>2
  <1>8. (\A j \in 1..Len(r.data) : g[5 + j] = d[j]) /\ g[Len(r.data) + 6] = crc8(d)
    BY <1>1, <1>3, <1>4, <1>7
  <1>9. d = r.data
    BY <1>5, <1>7, <1>8 DEF Spelled
  <1>. QED
    BY <1>5, <1>6, <1>9

(* A handler of the device runs at most once in an exchange that began with  *)
(* a quiet device, for the request of that exchange and with its payload,    *)
(* whatever is lost, damaged, cut short or restarted on the way.             *)
THEOREM HandlersRunOnlyWhatWasSent == LinkSpec => HandlersRunWhatWasSent
  <1> DEFINE Sound == (called' # <<>> /\ called' # called /\ quiet) =>
                        /\ ~ran
                        /\ request[1].op # "read" /\ called'[1].command = request[1].cmd
                        /\ called'[1].payload = request[1].data
  <1>1. ASSUME LinkInv, LinkInv', [LinkNext]_linkVars PROVE [Sound]_linkVars
    <2>1. SUFFICES ASSUME called' # <<>>, called' # called, quiet
                   PROVE  /\ ~ran
                          /\ request[1].op # "read" /\ called'[1].command = request[1].cmd
                          /\ called'[1].payload = request[1].data
      OBVIOUS
    <2>2. PICK p \in Answers : DeviceReads(p)
      <3>1. CASE UNCHANGED vars
        BY <2>1, <3>1 DEF vars
      <3>2. ASSUME NEW q \in Answers, DeviceNotifies(q) PROVE FALSE
        BY <2>1, <3>2 DEF DeviceNotifies, Notify
      <3>3. CASE DeviceTicks \/ DeviceRestarts \/ Tick
        BY <2>1, <3>3 DEF DeviceTicks, DeviceRestarts, Tick, RuntimeTick, Restart, Clock, Silent
      <3>4. ASSUME NEW r, Send(r) PROVE UNCHANGED vars
        BY <3>4 DEF Send
      <3>5. CASE WriteSome \/ WriteDone \/ WriteFails \/ TakeOutgoing \/ HostReads \/ Timeout
        BY <3>1, <3>5 DEF WriteSome, WriteDone, WriteFails, TakeOutgoing, HostReads, Timeout
      <3>6. CASE LineLoses \/ LineDamages \/ HostRestarts
        BY <3>1, <3>6 DEF LineLoses, LineDamages, HostRestarts
      <3>7. CASE UNCHANGED linkVars
        BY <3>1, <3>7 DEF linkVars
      <3>. QED
        BY <1>1, <3>1, <3>2, <3>3, <3>4, <3>5, <3>6, <3>7 DEF LinkNext
    <2>3. Inv /\ LinkType /\ Inv' /\ LinkType' /\ RequestOnTheWay
      BY <1>1 DEF LinkInv
    <2>4. request[1] \in Requests /\ ~ran
      BY <2>1, <2>2, <2>3, RequestRead
    <2>5. PICK g \in Variants(request[1]) :
            Spelled(g, request[1]) /\ (GoesOn \/ Ends(g, request[1]))
      BY <2>1, <2>2, <2>3, RequestRead
    <2>6. Ends(g, request[1])
      BY <2>1, <2>5 DEF GoesOn
    <2>7. Len(span') = Len(g) /\ Begins(span', g)
      BY <2>6 DEF Ends
    <2>8. called'[1] \in Call /\ span' = WriteBytes(called'[1].command, called'[1].payload)
      BY <2>1, <2>3 DEF Inv, TypeOK, HandlersSeeTheFrame
    <2>9. called'[1].command \in Byte /\ called'[1].payload \in Seq(Byte)
      BY <2>8 DEF Call
    <2>10. PICK c \in Byte, d \in Seq(Byte) : c = called'[1].command /\ d = called'[1].payload
      BY <2>9
    <2>11. request[1].op # "read" /\ c = request[1].cmd /\ d = request[1].data
      BY <2>4, <2>5, <2>7, <2>8, <2>10, PayloadOfFrame
    <2>. QED
      BY <2>4, <2>10, <2>11
  <1>. QED
    BY <1>1, LinkConsistency, PTL DEF LinkSpec, HandlersRunWhatWasSent, Sound

(* A request sent on a link at rest is completed only by the device's own    *)
(* answer to it, and without a fault always, never by a timeout: for every   *)
(* latency up to the partial-frame timeout, however the transport cuts the   *)
(* frame up and whatever notifications surround the answer.                  *)
THEOREM OnlyTheAnswerCompletes == LinkSpec => AnswerArrives
  <1> DEFINE Sound == (rested /\ phase = "waiting" /\ phase' = "idle") =>
                        \/ HostReads /\ ("reply" \notin faults => hOut' = answer)
                        \/ (Timeout \/ HostRestarts) /\ faults' # {}
  <1>1. ASSUME LinkInv, [LinkNext]_linkVars PROVE [Sound]_linkVars
    <2>1. SUFFICES ASSUME rested, phase = "waiting", phase' = "idle"
                   PROVE  \/ HostReads /\ ("reply" \notin faults => hOut' = answer)
                          \/ (Timeout \/ HostRestarts) /\ faults' # {}
      OBVIOUS
    <2>2. Inv /\ LinkType /\ HP!Inv /\ ReplyOnTheWay /\ NothingMissing
      BY <1>1 DEF LinkInv
    <2>3. HostReads \/ Timeout \/ HostRestarts
      <3>1. phase' # phase
        BY <2>1
      <3>2. ~UNCHANGED linkVars
        BY <3>1 DEF linkVars
      <3>3. ~(WriteSome \/ WriteDone \/ WriteFails \/ TakeOutgoing)
        BY <2>1, <3>1 DEF WriteSome, WriteDone, WriteFails, TakeOutgoing
      <3>4. ~(LineLoses \/ LineDamages \/ DeviceTicks \/ DeviceRestarts \/ Tick)
        BY <3>1 DEF LineLoses, LineDamages, DeviceTicks, DeviceRestarts, Tick
      <3>5. \A r : ~Send(r)
        BY <2>1 DEF Send
      <3>6. \A p : ~(DeviceReads(p) \/ DeviceNotifies(p))
        BY <3>1 DEF DeviceReads, DeviceNotifies
      <3>. QED
        BY <1>1, <3>2, <3>3, <3>4, <3>5, <3>6 DEF LinkNext
    <2>4. CASE HostReads
      <3>1. hOut' # <<>> /\ Completes(request[1], hOut'[1])
        BY <2>1, <2>4 DEF HostReads
      <3>2. ~NoAnswer
        BY <3>1 DEF NoAnswer, Completes
      <3>3. "reply" \notin faults => hOut' = answer
        BY <2>1, <2>2, <2>4, <3>2, HostReadsReply
      <3>. QED
        BY <2>4, <3>3
    <2>5. CASE Timeout
      <3>1. faults' = faults /\ waited >= ResponseTimeout
        BY <2>5 DEF Timeout, histories
      <3>2. ASSUME faults = {} PROVE FALSE
        <4>1. waited <= elapsed
          BY <2>1, <2>2, <3>2 DEF NothingMissing
        <4>2. waited \in Nat /\ elapsed \in Nat /\ elapsed <= MaxLatency /\ MaxLatency \in Nat
          BY <2>2, TimeTypes
        <4>3. /\ ResponseTimeout \in Nat /\ TIMEOUT_MS \in Nat /\ TickPeriod \in Nat
              /\ MaxLatency + TIMEOUT_MS + TickPeriod < ResponseTimeout
          BY LinkTimesAssumption, ClockAssumption
        <4>. QED
          BY <3>1, <4>1, <4>2, <4>3
      <3>. QED
        BY <2>5, <3>1, <3>2
    <2>6. CASE HostRestarts
      BY <2>6 DEF HostRestarts, Fault
    <2>. QED
      BY <2>3, <2>4, <2>5, <2>6
  <1>. QED
    BY <1>1, LinkConsistency, PTL DEF LinkSpec, AnswerArrives, Sound

-----------------------------------------------------------------------------
(* The schema's messages, which the tables Reads and Writes stand for.       *)

Tables == INSTANCE MessageTables

(* In every schema that passes validation, the command of a message that     *)
(* returns a payload leads the device's dispatcher to that message, in the   *)
(* table of its frame kind, and decode_data back to it, although READ and    *)
(* WRITE frames share command numbers and DATA frames carry no frame kind.   *)
THEOREM ReplyFindsItsMessage ==
  ASSUME NEW s, DOMAIN s.messages \subseteq Nat, Tables!ValidMessages(s),
         NEW asked \in Tables!DataMessages(s)
  PROVE  LET m == s.messages[asked]
         IN  /\ Tables!Dispatch(s, Tables!CommandFrame(m), m.command_id) = asked
             /\ Tables!DecodeData(s, m.command_id) = asked
  <1> DEFINE m == s.messages[asked]
             frame == Tables!CommandFrame(m)
  <1>1. asked \in DOMAIN s.messages /\ Tables!Present(m.command_id)
    BY DEF Tables!DataMessages
  <1>2. frame \in {"read", "write"}
    <2>1. CASE m.command_frame \in {{"read"}, {"write"}}
      <3>1. Tables!Value(m.command_frame) \in m.command_frame
        BY <2>1 DEF Tables!Value
      <3>. QED
        BY <1>1, <2>1, <3>1 DEF Tables!CommandFrame
    <2>2. CASE m.command_frame \notin {{"read"}, {"write"}}
      BY <1>1, <2>2 DEF Tables!CommandFrame
    <2>. QED
      BY <2>1, <2>2
  <1> HIDE DEF frame
  <1>3. asked \in Tables!RuntimeMessages(s, frame)
    BY <1>1 DEF Tables!RuntimeMessages, frame
  <1>4. Tables!DistinctIds(s, Tables!RuntimeMessages(s, frame))
    BY <1>2 DEF Tables!ValidMessages
  <1>5. \A i \in Tables!RuntimeMessages(s, frame) :
          s.messages[i].command_id = m.command_id <=> i = asked
    BY <1>3, <1>4 DEF Tables!DistinctIds
  <1>6. Tables!Dispatch(s, frame, m.command_id) = asked
    BY <1>3, <1>5 DEF Tables!Dispatch
  <1>7. {i \in Tables!DataMessages(s) : s.messages[i].command_id = m.command_id} = {asked}
    BY DEF Tables!ValidMessages, Tables!DistinctIds
  <1>8. Tables!DecodeData(s, m.command_id) = asked
    <2>1. asked \in Nat /\ asked <= asked
      BY <1>1
    <2>2. Tables!Min({asked}) = asked
      BY <2>1 DEF Tables!Min
    <2>. QED
      BY <1>7, <2>2 DEF Tables!DecodeData
  <1>. QED
    BY <1>6, <1>8 DEF frame
=============================================================================
