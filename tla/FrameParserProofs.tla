-------------------------- MODULE FrameParserProofs --------------------------
(***************************************************************************)
(* The host's frame parser for every alphabet, payload limit, checksum and *)
(* byte stream, in both addressing modes.  The inductive invariant says    *)
(* what the bytes since the SYNC byte are in each parser state.            *)
(***************************************************************************)
EXTENDS FrameParser, CommonLemmas, TLAPS

\* The bytes up to the address of the frame being parsed
Prefix == <<SYNC_BYTE>> \o Address(source)

\* Type, command and length of the frame being parsed
Header == <<frame_type, command, data_len % Radix, data_len \div Radix>>

\* What has been received since the SYNC byte, by parser state
Progress ==
  /\ state = "Source" => ADDRESSING /\ span = <<SYNC_BYTE>>
  /\ state = "Type" => span = Prefix
  /\ state = "Command" => span = Prefix \o <<frame_type>> /\ frame_type <= 3
  /\ state = "LengthLo" => span = Prefix \o <<frame_type, command>>
  /\ state = "LengthHi" => span = Prefix \o <<frame_type, command, data_len>> /\ data_len \in Byte
  /\ state \in {"Data", "Crc"} => span = (Prefix \o Header) \o buf /\ data_len <= MAX_PAYLOAD_SIZE
  /\ state \in {"LengthLo", "LengthHi", "Data", "Crc"} => frame_type \in {2, 3}
  /\ state = "Data" => Len(buf) < data_len
  /\ state = "Crc" => Len(buf) = data_len

\* The length of what has been received; only a finished or abandoned frame
\* leaves bytes behind in the state that scans for SYNC
Bounds ==
  /\ Len(buf) <= MAX_PAYLOAD_SIZE
  /\ Len(span) <= MAX_PAYLOAD_SIZE + 7
  /\ state # "Sync" => out = <<>>

Inv == TypeOK /\ Progress /\ Bounds /\ FramesAreReceived

-----------------------------------------------------------------------------
(* SYNC byte and address of a frame from node s.                             *)
LEMMA PrefixType ==
  ASSUME NEW s \in Byte
  PROVE  /\ <<SYNC_BYTE>> \o Address(s) \in Seq(Byte)
         /\ Len(<<SYNC_BYTE>> \o Address(s)) = IF ADDRESSING THEN 2 ELSE 1
         /\ ADDRESSING => <<SYNC_BYTE>> \o Address(s) = <<SYNC_BYTE, s>>
         /\ ~ADDRESSING => <<SYNC_BYTE>> \o Address(s) = <<SYNC_BYTE>>
  <1>1. SYNC_BYTE \in Byte
    BY SyncAssumption
  <1>2. CASE ADDRESSING
    <2>1. Address(s) = <<s>>
      BY <1>2 DEF Address
    <2>2. <<SYNC_BYTE>> \o <<s>> = <<SYNC_BYTE, s>>
      BY <1>1, Tuples, AppendConcat
    <2>. QED
      BY <1>1, <1>2, <2>1, <2>2
  <1>3. CASE ~ADDRESSING
    <2>1. Address(s) = <<>>
      BY <1>3 DEF Address
    <2>2. <<SYNC_BYTE>> \o <<>> = <<SYNC_BYTE>>
      OBVIOUS
    <2>. QED
      BY <1>1, <1>3, <2>1, <2>2
  <1>. QED
    BY <1>2, <1>3

-----------------------------------------------------------------------------
(* The new parser has received nothing.                                      *)
LEMMA InitInv == Init => Inv
  BY SyncAssumption, RadixAssumption, MaxPayloadAssumption
     DEF Init, Inv, TypeOK, Progress, Bounds, FramesAreReceived, States, Byte, NoSource

(* Scanning for SYNC.                                                        *)
LEMMA FeedSyncInv ==
  ASSUME Inv, NEW b \in Byte, FeedSync(b)
  PROVE  Inv'
  <1>1. source \in Byte /\ <<b>> \in Seq(Byte) /\ Len(<<b>>) = 1 /\ Len(<<>>) = 0
        /\ source' = source /\ out' = <<>> /\ MAX_PAYLOAD_SIZE \in Nat
    BY MaxPayloadAssumption DEF Inv, TypeOK, FeedSync
  <1>2. TypeOK'
    <2>1. span' \in Seq(Byte) /\ state' \in States
      BY <1>1, Tuples DEF Inv, TypeOK, FeedSync, States
    <2>. QED
      BY <1>1, <2>1 DEF Inv, TypeOK, FeedSync
  <1>3. Progress'
    <2>1. state' = "Type" => span' = Prefix'
      BY <1>1, PrefixType, AddressingAssumption DEF FeedSync, Prefix, Address
    <2>. QED
      BY <2>1 DEF FeedSync, Progress
  <1>4. Bounds' /\ FramesAreReceived'
    <2>1. Len(span') <= MAX_PAYLOAD_SIZE + 7
      <3>1. span' = <<b>> \/ span' = <<>>
        BY DEF FeedSync
      <3>2. Len(span') \in {0, 1}
        BY <1>1, <3>1
      <3>. QED
        BY <1>1, <3>2
    <2>. QED
      BY <1>1, <2>1 DEF Inv, Bounds, FramesAreReceived, FeedSync
  <1>. QED
    BY <1>2, <1>3, <1>4 DEF Inv

(* The address byte.                                                         *)
LEMMA FeedSourceInv ==
  ASSUME Inv, NEW b \in Byte, FeedSource(b)
  PROVE  Inv'
  <1>1. ADDRESSING /\ span = <<SYNC_BYTE>> /\ source' = b /\ out' = <<>> /\ state' = "Type"
        /\ span' = Append(span, b) /\ SYNC_BYTE \in Byte /\ MAX_PAYLOAD_SIZE \in Nat
    BY SyncAssumption, MaxPayloadAssumption DEF Inv, Progress, FeedSource, Continue
  <1>5. span' = <<SYNC_BYTE, b>> /\ span' \in Seq(Byte) /\ Len(span') = 2
    <2>1. /\ Append(<<SYNC_BYTE>>, b) = <<SYNC_BYTE, b>>
          /\ <<SYNC_BYTE, b>> \in Seq(Byte) /\ Len(<<SYNC_BYTE, b>>) = 2
      BY <1>1, Tuples
    <2>. QED
      BY <1>1, <2>1
  <1>2. TypeOK'
    BY <1>1, <1>5 DEF Inv, TypeOK, FeedSource, Continue, States
  <1>3. Progress'
    <2>1. Prefix' = <<SYNC_BYTE>> \o Address(b)
      BY <1>1 DEF Prefix, Address
    <2>2. span' = Prefix'
      BY <1>1, <1>5, <2>1, PrefixType
    <2>. QED
      BY <1>1, <2>2 DEF Progress
  <1>4. Bounds' /\ FramesAreReceived'
    BY <1>1, <1>5 DEF Inv, Bounds, FramesAreReceived, FeedSource
  <1>. QED
    BY <1>2, <1>3, <1>4 DEF Inv

(* One byte more of a frame whose received part is known.                    *)
LEMMA Longer ==
  ASSUME TypeOK, NEW t \in Seq(Byte), NEW b \in Byte, span = Prefix \o t
  PROVE  /\ Append(span, b) = Prefix \o Append(t, b)
         /\ Append(span, b) \in Seq(Byte)
         /\ Len(Append(span, b)) = (IF ADDRESSING THEN 2 ELSE 1) + Len(t) + 1
  <1>1. Prefix \in Seq(Byte) /\ Len(Prefix) = IF ADDRESSING THEN 2 ELSE 1
    BY PrefixType DEF Prefix, TypeOK
  <1>2. Append(Prefix \o t, b) = Prefix \o Append(t, b)
    BY <1>1, AppendConcat
  <1>3. Prefix \o t \in Seq(Byte) /\ Len(Prefix \o t) = Len(Prefix) + Len(t)
    <2>1. Prefix \in Seq(Byte)
      BY <1>1
    <2>. QED
      BY <2>1, AppendConcat
  <1>4. Append(span, b) \in Seq(Byte) /\ Len(Append(span, b)) = Len(span) + 1
    BY <1>3
  <1>5. Len(t) \in Nat
    OBVIOUS
  <1>. QED
    BY <1>1, <1>2, <1>3, <1>4, <1>5

(* The type byte.                                                            *)
LEMMA FeedTypeInv ==
  ASSUME Inv, NEW b \in Byte, FeedType(b)
  PROVE  Inv'
  <1>1. /\ source' = source /\ frame_type' = b /\ out' = <<>> /\ span' = Append(span, b)
        /\ span = Prefix /\ MAX_PAYLOAD_SIZE \in Nat /\ buf' = buf /\ source \in Byte
        /\ state' = (IF b > 3 THEN "Sync" ELSE "Command")
    BY MaxPayloadAssumption DEF Inv, TypeOK, Progress, FeedType, Continue
  <1>2. span = Prefix \o <<>> /\ Prefix' = Prefix
    BY <1>1, PrefixType, ConcatAssoc DEF Prefix
  <1>3. /\ span' = Prefix' \o <<b>> /\ span' \in Seq(Byte)
        /\ Len(span') = (IF ADDRESSING THEN 2 ELSE 1) + 0 + 1
    <2>1. <<>> \in Seq(Byte) /\ Len(<<>>) = 0 /\ Append(<<>>, b) = <<b>>
      BY Tuples
    <2>2. TypeOK
      BY DEF Inv
    <2>3. /\ Append(span, b) = Prefix \o Append(<<>>, b) /\ Append(span, b) \in Seq(Byte)
          /\ Len(Append(span, b)) = (IF ADDRESSING THEN 2 ELSE 1) + Len(<<>>) + 1
      BY <1>2, <2>1, <2>2, Longer
    <2>. QED
      BY <1>1, <1>2, <2>1, <2>3
  <1>4. TypeOK'
    BY <1>1, <1>3 DEF Inv, TypeOK, FeedType, Continue, States
  <1>5. Progress'
    BY <1>1, <1>3 DEF Progress, Byte
  <1>6. Bounds' /\ FramesAreReceived'
    BY <1>1, <1>3 DEF Inv, Bounds, FramesAreReceived
  <1>. QED
    BY <1>4, <1>5, <1>6 DEF Inv

(* The command byte, which completes a NACK or ACK.                          *)
LEMMA FeedCommandInv ==
  ASSUME Inv, NEW b \in Byte, FeedCommand(b)
  PROVE  Inv'
  <1>1. /\ source' = source /\ frame_type' = frame_type /\ command' = b /\ buf' = buf
        /\ data_len' = data_len /\ span' = Append(span, b) /\ state = "Command"
        /\ span = Prefix \o <<frame_type>> /\ frame_type <= 3 /\ frame_type \in Byte
        /\ source \in Byte /\ TypeOK
    BY DEF Inv, TypeOK, Progress, FeedCommand, Continue, Return
  <1>2. /\ MAX_PAYLOAD_SIZE \in Nat /\ frame_type \in {0, 1, 2, 3} /\ Prefix' = Prefix
    BY <1>1, MaxPayloadAssumption DEF Byte, Prefix
  <1>3. /\ <<frame_type>> \in Seq(Byte) /\ Len(<<frame_type>>) = 1
        /\ Append(<<frame_type>>, b) = <<frame_type, b>>
    BY <1>1, Tuples
  <1>4. /\ span' = Prefix \o Append(<<frame_type>>, b) /\ span' \in Seq(Byte)
        /\ Len(span') = (IF ADDRESSING THEN 2 ELSE 1) + Len(<<frame_type>>) + 1
    BY <1>1, <1>3, Longer
  <1>5. span' = Prefix \o <<frame_type, b>> /\ Len(span') <= MAX_PAYLOAD_SIZE + 7
    BY <1>2, <1>3, <1>4
  <1>6. CASE frame_type \in {0, 1}
    <2> DEFINE f == [kind |-> IF frame_type = 0 THEN "Nack" ELSE "Ack", command |-> b]
    <2>1. state' = "Sync" /\ out' = <<f>> /\ last_source' = source
      BY <1>6 DEF FeedCommand, Return
    <2>2. f \in Frame /\ f.command = b /\ f.kind \in {"Nack", "Ack"}
          /\ (f.kind = "Nack" <=> frame_type = 0)
      BY DEF Frame
    <2>3. TypeByte(f) = frame_type
      BY <1>6, <2>2 DEF TypeByte
    <2>4. Encode(f, source, b) = Prefix \o <<frame_type, b>>
      BY <2>2, <2>3 DEF Encode, Body, Prefix
    <2> HIDE DEF f
    <2>5. TypeOK'
      BY <1>1, <1>4, <2>1, <2>2 DEF TypeOK, States
    <2>6. FramesAreReceived'
      BY <1>1, <1>5, <2>1, <2>4 DEF FramesAreReceived, Encode, Address, Body, TypeByte
    <2>7. Progress' /\ Bounds'
      BY <1>1, <1>5, <2>1 DEF Progress, Bounds, Inv
    <2>. QED
      BY <2>5, <2>6, <2>7 DEF Inv
  <1>7. CASE frame_type \notin {0, 1}
    <2>1. state' = "LengthLo" /\ out' = <<>> /\ last_source' = last_source
          /\ frame_type \in {2, 3}
      BY <1>2, <1>7 DEF FeedCommand, Continue
    <2>2. TypeOK'
      BY <1>1, <1>4, <2>1 DEF TypeOK, States
    <2>3. Progress'
      BY <1>1, <1>2, <1>5, <2>1 DEF Progress
    <2>4. Bounds' /\ FramesAreReceived'
      BY <1>1, <1>5, <2>1 DEF Bounds, Inv, FramesAreReceived
    <2>. QED
      BY <2>2, <2>3, <2>4 DEF Inv
  <1>. QED
    BY <1>6, <1>7

(* The low byte of the length.                                               *)
LEMMA FeedLengthLoInv ==
  ASSUME Inv, NEW b \in Byte, FeedLengthLo(b)
  PROVE  Inv'
  <1>1. /\ source' = source /\ frame_type' = frame_type /\ command' = command /\ buf' = buf
        /\ data_len' = b /\ span' = Append(span, b) /\ state' = "LengthHi" /\ out' = <<>>
        /\ last_source' = last_source
        /\ span = Prefix \o <<frame_type, command>> /\ frame_type \in {2, 3}
        /\ frame_type \in Byte /\ command \in Byte /\ TypeOK
    BY DEF Inv, TypeOK, Progress, FeedLengthLo, Continue
  <1>2. MAX_PAYLOAD_SIZE \in Nat /\ Prefix' = Prefix /\ b \in 0..(Radix * Radix - 1)
    <2>1. 0 \in 0..Radix-1 /\ b \in 0..Radix-1 /\ b + 0 * Radix = b
      BY RadixAssumption DEF Byte
    <2>2. b + 0 * Radix \in 0..(Radix * Radix - 1)
      BY <2>1, RadixAssumption, TwoBytes
    <2>. QED
      BY <1>1, <2>1, <2>2, MaxPayloadAssumption DEF Prefix
  <1>3. /\ <<frame_type, command>> \in Seq(Byte) /\ Len(<<frame_type, command>>) = 2
        /\ Append(<<frame_type, command>>, b) = <<frame_type, command, b>>
    <2>1. frame_type \in Byte /\ command \in Byte
      BY <1>1
    <2>2. <<frame_type, command>> \in Seq(Byte) /\ Len(<<frame_type, command>>) = 2
      BY <2>1, Tuples
    <2>3. Append(<<frame_type, command>>, b) = <<frame_type, command, b>>
      BY <2>1, Triples
    <2>. QED
      BY <2>2, <2>3
  <1>4. /\ span' = Prefix \o Append(<<frame_type, command>>, b) /\ span' \in Seq(Byte)
        /\ Len(span') = (IF ADDRESSING THEN 2 ELSE 1) + Len(<<frame_type, command>>) + 1
    BY <1>1, <1>3, Longer
  <1>5. span' = Prefix \o <<frame_type, command, b>> /\ Len(span') <= MAX_PAYLOAD_SIZE + 7
    BY <1>2, <1>3, <1>4
  <1>6. TypeOK'
    BY <1>1, <1>2, <1>4 DEF TypeOK, States
  <1>7. Progress'
    BY <1>1, <1>2, <1>5 DEF Progress
  <1>8. Bounds' /\ FramesAreReceived'
    BY <1>1, <1>5 DEF Bounds, Inv, FramesAreReceived
  <1>. QED
    BY <1>6, <1>7, <1>8 DEF Inv

(* The high byte of the length, which starts an empty payload buffer or, for *)
(* a length over the limit, abandons the frame.                              *)
LEMMA FeedLengthHiInv ==
  ASSUME Inv, NEW b \in Byte, FeedLengthHi(b)
  PROVE  Inv'
  <1>1. /\ source' = source /\ frame_type' = frame_type /\ command' = command
        /\ data_len' = data_len + b * Radix /\ span' = Append(span, b) /\ out' = <<>>
        /\ last_source' = last_source
        /\ span = Prefix \o <<frame_type, command, data_len>> /\ frame_type \in {2, 3}
        /\ frame_type \in Byte /\ command \in Byte /\ data_len \in Byte /\ TypeOK
    BY DEF Inv, TypeOK, Progress, FeedLengthHi, Continue
  <1>2. MAX_PAYLOAD_SIZE \in Nat /\ MAX_PAYLOAD_SIZE > 0 /\ Prefix' = Prefix
    BY <1>1, MaxPayloadAssumption DEF Prefix
  <1>3. data_len' % Radix = data_len /\ data_len' \div Radix = b
        /\ data_len' \in 0..(Radix * Radix - 1)
    BY <1>1, RadixAssumption, TwoBytes DEF Byte
  <1>4. data_len' \in Nat
    BY <1>3
  <1>5. /\ <<frame_type, command, data_len>> \in Seq(Byte)
        /\ Len(<<frame_type, command, data_len>>) = 3
        /\ Append(<<frame_type, command, data_len>>, b) = <<frame_type, command, data_len, b>>
        /\ <<frame_type, command, data_len, b>> \in Seq(Byte)
    <2>1. frame_type \in Byte /\ command \in Byte /\ data_len \in Byte
      BY <1>1
    <2>2. /\ <<frame_type, command, data_len>> \in Seq(Byte)
          /\ Len(<<frame_type, command, data_len>>) = 3
      BY <2>1, Triples
    <2>3. /\ Append(<<frame_type, command, data_len>>, b) = <<frame_type, command, data_len, b>>
          /\ <<frame_type, command, data_len, b>> \in Seq(Byte)
      BY <2>1, Quads
    <2>. QED
      BY <2>2, <2>3
  <1>6. /\ span' = Prefix \o Append(<<frame_type, command, data_len>>, b) /\ span' \in Seq(Byte)
        /\ Len(span') = (IF ADDRESSING THEN 2 ELSE 1) + Len(<<frame_type, command, data_len>>) + 1
    BY <1>1, <1>5, Longer
  <1>7. span' = Prefix' \o Header' /\ Len(span') <= MAX_PAYLOAD_SIZE + 7
    <2>1. Header' = <<frame_type, command, data_len, b>>
      BY <1>1, <1>3 DEF Header
    <2>2. Len(span') <= 6
      BY <1>5, <1>6
    <2>. QED
      BY <1>2, <1>5, <1>6, <2>1, <2>2
  <1>8. CASE data_len' > MAX_PAYLOAD_SIZE
    <2>1. state' = "Sync" /\ buf' = buf
      BY <1>2, <1>4, <1>8 DEF FeedLengthHi
    <2>2. TypeOK'
      BY <1>1, <1>3, <1>6, <2>1 DEF TypeOK, States
    <2>3. Progress' /\ Bounds' /\ FramesAreReceived'
      BY <1>1, <1>7, <2>1 DEF Progress, Bounds, Inv, FramesAreReceived
    <2>. QED
      BY <2>2, <2>3 DEF Inv
  <1>9. CASE ~(data_len' > MAX_PAYLOAD_SIZE)
    <2>1. /\ state' = IF data_len' = 0 THEN "Crc" ELSE "Data"
          /\ buf' = <<>> /\ data_len' <= MAX_PAYLOAD_SIZE
      BY <1>2, <1>4, <1>9 DEF FeedLengthHi
    <2>2. <<>> \in Seq(Byte) /\ Len(buf') = 0
      BY <2>1
    <2>3. TypeOK'
      BY <1>1, <1>3, <1>6, <2>1, <2>2 DEF TypeOK, States
    <2>4. span' = (Prefix' \o Header') \o buf'
      <3>1. Prefix' \o Header' \in Seq(Byte)
        BY <1>6, <1>7
      <3>. QED
        BY <1>7, <2>1, <2>2, <3>1, ConcatAssoc
    <2>5. Progress'
      <3>1. frame_type' \in {2, 3} /\ data_len' <= MAX_PAYLOAD_SIZE
        BY <1>1, <2>1
      <3>2. CASE data_len' = 0
        BY <2>1, <2>2, <2>4, <3>1, <3>2 DEF Progress
      <3>3. CASE data_len' # 0
        <4>1. state' = "Data" /\ Len(buf') < data_len'
          BY <1>4, <2>1, <2>2, <3>3
        <4>. QED
          BY <2>4, <3>1, <4>1 DEF Progress
      <3>. QED
        BY <3>2, <3>3
    <2>6. Bounds' /\ FramesAreReceived'
      BY <1>1, <1>2, <1>7, <2>2 DEF Bounds, FramesAreReceived
    <2>. QED
      BY <2>3, <2>5, <2>6 DEF Inv
  <1>. QED
    BY <1>8, <1>9

(* What has been received when the payload is under way.                     *)
LEMMA PayloadSoFar ==
  ASSUME Inv, state \in {"Data", "Crc"}, NEW b \in Byte
  PROVE  /\ Prefix \o Header \in Seq(Byte) /\ Prefix \in Seq(Byte) /\ Header \in Seq(Byte)
         /\ Append(span, b) = (Prefix \o Header) \o Append(buf, b)
         /\ Append(span, b) = ((Prefix \o Header) \o buf) \o <<b>>
         /\ Append(span, b) \in Seq(Byte)
         /\ Len(Append(span, b)) <= 7 + Len(buf)
  <1>1. /\ span = (Prefix \o Header) \o buf /\ buf \in Seq(Byte) /\ source \in Byte
        /\ frame_type \in Byte /\ command \in Byte /\ data_len \in 0..(Radix * Radix - 1)
        /\ span \in Seq(Byte)
    BY DEF Inv, TypeOK, Progress
  <1>2. Prefix \in Seq(Byte) /\ Len(Prefix) \in {1, 2}
    BY <1>1, PrefixType, AddressingAssumption DEF Prefix
  <1>3. data_len % Radix \in Byte /\ data_len \div Radix \in Byte
    BY <1>1, RadixAssumption, BytesOf DEF Byte
  <1>4. Header \in Seq(Byte) /\ Len(Header) = 4
    <2>1. frame_type \in Byte /\ command \in Byte
      BY <1>1
    <2>. QED
      BY <1>3, <2>1, Quads DEF Header
  <1>5. Prefix \o Header \in Seq(Byte) /\ Len(Prefix \o Header) <= 6
    <2>1. Prefix \in Seq(Byte) /\ Header \in Seq(Byte)
      BY <1>2, <1>4
    <2>2. Prefix \o Header \in Seq(Byte) /\ Len(Prefix \o Header) = Len(Prefix) + Len(Header)
      BY <2>1, AppendConcat
    <2>3. Len(Prefix) + Len(Header) <= 6
      <3>1. Len(Prefix) \in {1, 2} /\ Len(Header) = 4
        BY <1>2, <1>4
      <3>2. \A k \in {1, 2} : k + 4 <= 6
        OBVIOUS
      <3>. QED
        BY <3>1, <3>2
    <2>. QED
      BY <2>2, <2>3
  <1>6. Append(span, b) = (Prefix \o Header) \o Append(buf, b)
        /\ Append(span, b) = ((Prefix \o Header) \o buf) \o <<b>>
    <2> DEFINE h == Prefix \o Header
    <2>1. h \in Seq(Byte) /\ buf \in Seq(Byte)
      BY <1>1, <1>5
    <2>4. span = h \o buf
      BY <1>1
    <2> HIDE DEF h
    <2>2. Append(h \o buf, b) = h \o Append(buf, b)
      BY <2>1, AppendConcat
    <2>3. Append(h \o buf, b) = (h \o buf) \o <<b>>
      BY <2>1, AppendConcat
    <2>. QED
      BY <2>2, <2>3, <2>4 DEF h
  <1>7. Append(span, b) \in Seq(Byte) /\ Len(Append(span, b)) = Len(span) + 1
    BY <1>1
  <1>8. Len(span) = Len(Prefix \o Header) + Len(buf) /\ Len(buf) \in Nat
        /\ Len(Prefix \o Header) \in Nat
    BY <1>1, <1>5, AppendConcat
  <1>. QED
    BY <1>2, <1>4, <1>5, <1>6, <1>7, <1>8

(* A payload byte.                                                           *)
LEMMA FeedDataInv ==
  ASSUME Inv, NEW b \in Byte, FeedData(b)
  PROVE  Inv'
  <1>1. /\ source' = source /\ frame_type' = frame_type /\ command' = command
        /\ data_len' = data_len /\ buf' = Append(buf, b) /\ span' = Append(span, b)
        /\ out' = <<>> /\ last_source' = last_source /\ state = "Data"
        /\ buf \in Seq(Byte) /\ Len(buf) < data_len /\ data_len <= MAX_PAYLOAD_SIZE
        /\ frame_type \in {2, 3} /\ data_len \in 0..(Radix * Radix - 1) /\ TypeOK
    BY DEF Inv, TypeOK, Progress, FeedData, Continue
  <1>2. /\ buf' \in Seq(Byte) /\ Len(buf') = Len(buf) + 1 /\ Len(buf) \in Nat
        /\ MAX_PAYLOAD_SIZE \in Nat /\ data_len \in Nat
    BY <1>1, MaxPayloadAssumption
  <1>3. state' = (IF Len(buf') >= data_len THEN "Crc" ELSE "Data")
    BY DEF FeedData
  <1>4. /\ span' = (Prefix \o Header) \o buf' /\ span' \in Seq(Byte)
        /\ Len(span') <= 7 + Len(buf)
    BY <1>1, PayloadSoFar
  <1>5. Prefix' = Prefix /\ Header' = Header
    BY <1>1 DEF Prefix, Header, Address
  <1>6. TypeOK'
    BY <1>1, <1>2, <1>3, <1>4 DEF TypeOK, States
  <1>7. Progress'
    <2>1. CASE Len(buf') >= data_len
      <3>1. state' = "Crc" /\ Len(buf') = data_len'
        BY <1>1, <1>2, <1>3, <2>1
      <3>. QED
        BY <1>1, <1>4, <1>5, <3>1 DEF Progress
    <2>2. CASE ~(Len(buf') >= data_len)
      <3>1. state' = "Data" /\ Len(buf') < data_len'
        BY <1>1, <1>2, <1>3, <2>2
      <3>. QED
        BY <1>1, <1>4, <1>5, <3>1 DEF Progress
    <2>. QED
      BY <2>1, <2>2
  <1>8. Bounds' /\ FramesAreReceived'
    <2>1. Len(buf') <= MAX_PAYLOAD_SIZE /\ Len(span') <= MAX_PAYLOAD_SIZE + 7
      <3>1. Len(span') \in Nat
        BY <1>4
      <3>. QED
        BY <1>1, <1>2, <1>4, <3>1
    <2>. QED
      BY <1>1, <2>1 DEF Bounds, FramesAreReceived
  <1>. QED
    BY <1>6, <1>7, <1>8 DEF Inv

(* The checksum byte: the frame is returned, or dropped.                     *)
LEMMA FeedCrcInv ==
  ASSUME Inv, NEW b \in Byte, FeedCrc(b)
  PROVE  Inv'
  <1>1. /\ source' = source /\ frame_type' = frame_type /\ command' = command
        /\ data_len' = data_len /\ span' = Append(span, b) /\ state' = "Sync"
        /\ state = "Crc" /\ buf \in Seq(Byte) /\ Len(buf) = data_len
        /\ data_len <= MAX_PAYLOAD_SIZE /\ frame_type \in {2, 3} /\ TypeOK
        /\ source \in Byte /\ command \in Byte
    BY DEF Inv, TypeOK, Progress, FeedCrc, Continue, Return
  <1>2. /\ Prefix \in Seq(Byte) /\ Header \in Seq(Byte)
        /\ span' = ((Prefix \o Header) \o buf) \o <<b>> /\ span' \in Seq(Byte)
        /\ Len(span') <= 7 + Len(buf)
    BY <1>1, PayloadSoFar
  <1>3. /\ MAX_PAYLOAD_SIZE \in Nat /\ Len(buf) \in Nat
        /\ Len(buf) <= MAX_PAYLOAD_SIZE /\ Len(span') <= MAX_PAYLOAD_SIZE + 7
    <2>1. Len(span') \in Nat /\ Len(buf) \in Nat /\ MAX_PAYLOAD_SIZE \in Nat
      BY <1>1, <1>2, MaxPayloadAssumption
    <2>. QED
      BY <1>1, <1>2, <2>1
  <1>4. buf' \in Seq(Byte) /\ Len(buf') <= MAX_PAYLOAD_SIZE
    <2>1. buf' = buf \/ buf' = <<>>
      BY DEF FeedCrc
    <2>2. CASE buf' = <<>>
      BY <1>3, <2>2
    <2>3. CASE buf' = buf
      BY <1>1, <1>3, <2>3
    <2>. QED
      BY <2>1, <2>2, <2>3
  <1>5. Progress' /\ Bounds'
    BY <1>1, <1>3, <1>4 DEF Progress, Bounds
  <1>6. CASE b = crc8(buf)
    <2> DEFINE f == IF frame_type = 2
                    THEN [kind |-> "Data", command |-> command, payload |-> buf]
                    ELSE [kind |-> "Notification", payload |-> buf]
    <2>1. out' = <<f>> /\ last_source' = source
      BY <1>1, <1>6 DEF FeedCrc, Return
    <2>2. /\ f \in Frame /\ f.payload = buf /\ f.kind \in {"Data", "Notification"}
          /\ f.kind = "Data" => f.command = command
          /\ TypeByte(f) = frame_type
      BY <1>1 DEF Frame, TypeByte
    <2> HIDE DEF f
    <2>3. Body(f, command) = (Header \o buf) \o <<b>>
      <3>1. Len(f.payload) = data_len /\ crc8(f.payload) = b
        BY <1>1, <1>6, <2>2
      <3>2. Body(f, command)
              = <<TypeByte(f), IF f.kind = "Data" THEN f.command ELSE command,
                  Len(f.payload) % Radix, Len(f.payload) \div Radix>>
                \o f.payload \o <<crc8(f.payload)>>
        BY <2>2 DEF Body
      <3>3. (IF f.kind = "Data" THEN f.command ELSE command) = command
        BY <2>2
      <3>. QED
        BY <2>2, <3>1, <3>2, <3>3 DEF Header
    <2>4. span' = Encode(f, source, command)
      <3>1. <<b>> \in Seq(Byte) /\ Header \o buf \in Seq(Byte)
        BY <1>1, <1>2
      <3>2. (Prefix \o Header) \o buf = Prefix \o (Header \o buf)
        BY <1>1, <1>2, ConcatAssoc
      <3>3. (Prefix \o (Header \o buf)) \o <<b>> = Prefix \o ((Header \o buf) \o <<b>>)
        BY <1>2, <3>1, ConcatAssoc
      <3>. QED
        BY <1>2, <2>3, <3>2, <3>3 DEF Encode, Prefix
    <2>5. FramesAreReceived'
      <3>1. Encode(f, source, command) = Encode(f, last_source', command')
        BY <1>1, <2>1
      <3>2. out'[1] = f
        BY <2>1
      <3>. QED
        BY <2>4, <3>1, <3>2 DEF FramesAreReceived
    <2>6. TypeOK'
      BY <1>1, <1>2, <1>4, <2>1, <2>2 DEF TypeOK, States
    <2>. QED
      BY <1>5, <2>5, <2>6 DEF Inv
  <1>7. CASE b # crc8(buf)
    <2>1. out' = <<>> /\ last_source' = last_source
      BY <1>7 DEF FeedCrc, Continue
    <2>2. TypeOK'
      BY <1>1, <1>2, <1>4, <2>1 DEF TypeOK, States
    <2>. QED
      BY <1>5, <2>1, <2>2 DEF Inv, FramesAreReceived
  <1>. QED
    BY <1>6, <1>7

(* FrameParser::reset.                                                       *)
LEMMA ResetInv == Inv /\ Reset => Inv'
  <1> SUFFICES ASSUME Inv, Reset PROVE Inv'
    OBVIOUS
  <1>1. <<>> \in Seq(Byte) /\ Len(<<>>) = 0 /\ 0 \in Byte /\ MAX_PAYLOAD_SIZE \in Nat
        /\ 0 \in 0..(Radix * Radix - 1)
    BY RadixAssumption, MaxPayloadAssumption DEF Byte
  <1>. QED
    BY <1>1 DEF Inv, Reset, TypeOK, Progress, Bounds, FramesAreReceived, States

(* Every step preserves the invariant.                                       *)
LEMMA NextInv == Inv /\ [Next]_vars => Inv'
  <1> SUFFICES ASSUME Inv, [Next]_vars PROVE Inv'
    OBVIOUS
  <1>1. CASE UNCHANGED vars
    <2>1. /\ state' = state /\ source' = source /\ frame_type' = frame_type
          /\ command' = command /\ data_len' = data_len /\ buf' = buf /\ out' = out
          /\ span' = span /\ last_source' = last_source
      BY <1>1 DEF vars
    <2>2. TypeOK' /\ Bounds'
      BY <2>1 DEF Inv, TypeOK, Bounds
    <2>3. Progress' /\ FramesAreReceived'
      BY <2>1 DEF Inv, Progress, FramesAreReceived, Prefix, Header, Address
    <2>. QED
      BY <2>2, <2>3 DEF Inv
  <1>2. ASSUME NEW b \in Byte, Feed(b) PROVE Inv'
    BY <1>2, FeedSyncInv, FeedSourceInv, FeedTypeInv, FeedCommandInv, FeedLengthLoInv,
       FeedLengthHiInv, FeedDataInv, FeedCrcInv DEF Feed
  <1>3. CASE Reset
    BY <1>3, ResetInv
  <1>. QED
    BY <1>1, <1>2, <1>3 DEF Next

(* The invariant holds throughout.                                           *)
THEOREM Consistency == Spec => []Inv
  BY InitInv, NextInv, PTL DEF Spec

-----------------------------------------------------------------------------
(* The parser's fields keep their ranges: the announced length fits its two  *)
(* bytes and every returned value is a frame, for every byte stream.         *)
THEOREM TypeCorrect == Spec => []TypeOK
  <1>1. Inv => TypeOK
    BY DEF Inv
  <1>. QED
    BY <1>1, Consistency, PTL

(* A returned frame is exactly what was received from its SYNC byte on, with *)
(* the checksum of its payload: nothing of an abandoned frame leaks into it. *)
THEOREM OnlyReceivedFrames == Spec => []FramesAreReceived
  <1>1. Inv => FramesAreReceived
    BY DEF Inv
  <1>. QED
    BY <1>1, Consistency, PTL

(* The payload buffer never exceeds MAX_PAYLOAD_SIZE, and any header, bogus  *)
(* or not, holds the parser for at most MAX_PAYLOAD_SIZE + 7 bytes.          *)
THEOREM HuntIsBounded == Spec => []BoundedHunt
  <1>1. Inv => BoundedHunt
    BY DEF Inv, Bounds, Progress, BoundedHunt
  <1>. QED
    BY <1>1, Consistency, PTL

-----------------------------------------------------------------------------
(* The parser on a well-formed frame.                                        *)

\* Bytes before the type of a frame
Lead == IF ADDRESSING THEN 2 ELSE 1

Short(f) == f.kind \in {"Nack", "Ack"}

\* e has the bytes of frame f from node src
Spells(e, f, src, cmd) ==
  /\ e \in Seq(Byte) /\ e[1] = SYNC_BYTE
  /\ e[Lead + 1] = TypeByte(f)
  /\ e[Lead + 2] = (IF f.kind = "Notification" THEN cmd ELSE f.command)
  /\ Short(f) => Len(e) = Lead + 2
  /\ ~Short(f) =>
       /\ Len(e) = Lead + 5 + Len(f.payload)
       /\ e[Lead + 3] = Len(f.payload) % Radix /\ e[Lead + 4] = Len(f.payload) \div Radix
       /\ \A j \in 1..Len(f.payload) : e[Lead + 4 + j] = f.payload[j]
       /\ e[Lead + 5 + Len(f.payload)] = crc8(f.payload)

\* A frame a device may send: its payload is within the limit, and its checksum
\* is a byte
Sendable(f) ==
  /\ f \in Frame
  /\ ~Short(f) => Len(f.payload) <= MAX_PAYLOAD_SIZE /\ crc8(f.payload) \in Byte

(* The parts of a frame a device may send.                                   *)
LEMMA SendableFacts ==
  ASSUME NEW f, Sendable(f)
  PROVE  /\ f \in Frame
         /\ f.kind \in {"Nack", "Ack", "Data", "Notification"}
         /\ f.kind # "Notification" => f.command \in Byte
         /\ ~Short(f) => /\ f.payload \in Seq(Byte) /\ Len(f.payload) <= MAX_PAYLOAD_SIZE
                         /\ crc8(f.payload) \in Byte /\ Len(f.payload) \in 0..(Radix * Radix - 1)
  <1>1. /\ f \in Frame /\ f.kind \in {"Nack", "Ack", "Data", "Notification"}
        /\ f.kind # "Notification" => f.command \in Byte
        /\ ~Short(f) => f.payload \in Seq(Byte)
    BY DEF Sendable, Frame, Short
  <1>2. ASSUME ~Short(f)
        PROVE  /\ Len(f.payload) <= MAX_PAYLOAD_SIZE /\ crc8(f.payload) \in Byte
               /\ Len(f.payload) \in 0..(Radix * Radix - 1)
    <2>1. f.payload \in Seq(Byte) /\ Len(f.payload) <= MAX_PAYLOAD_SIZE
          /\ crc8(f.payload) \in Byte
      BY <1>1, <1>2 DEF Sendable
    <2>2. Len(f.payload) \in Nat
      BY <2>1
    <2>3. Radix * Radix \in Nat /\ MAX_PAYLOAD_SIZE \in Nat /\ MAX_PAYLOAD_SIZE < Radix * Radix
      BY RadixAssumption, MaxPayloadAssumption
    <2>. QED
      BY <2>1, <2>2, <2>3
  <1>. QED
    BY <1>1, <1>2

(* A frame is at least SYNC, type and command.                               *)
LEMMA SpelledLength ==
  ASSUME NEW f, Sendable(f), NEW src, NEW cmd, NEW e, Spells(e, f, src, cmd)
  PROVE  /\ Len(e) \in Nat /\ Len(e) >= 3 /\ Len(e) >= Lead + 2
         /\ ~Short(f) => Len(e) >= Lead + 5
  <1>1. e \in Seq(Byte) /\ Lead \in 1..2
    BY DEF Spells, Lead
  <1>2. CASE Short(f)
    <2>1. Len(e) = Lead + 2
      BY <1>2 DEF Spells
    <2>. QED
      BY <1>1, <1>2, <2>1
  <1>3. CASE ~Short(f)
    <2>1. Len(e) = Lead + 5 + Len(f.payload) /\ Len(f.payload) \in Nat
      BY <1>3, SendableFacts DEF Spells
    <2>2. ASSUME NEW k \in Nat, NEW l \in 1..2
          PROVE  l + 5 + k \in Nat /\ l + 5 + k >= 3 /\ l + 5 + k >= l + 2 /\ l + 5 + k >= l + 5
      OBVIOUS
    <2>. QED
      BY <1>1, <2>1, <2>2
  <1>. QED
    BY <1>2, <1>3

(* sendFrame, byte by byte.                                                  *)
LEMMA EncodeFacts ==
  ASSUME Radix > 3, NEW f, Sendable(f), NEW src \in Byte, NEW cmd \in Byte
  PROVE  Spells(Encode(f, src, cmd), f, src, cmd)
  <1> DEFINE lead == <<SYNC_BYTE>> \o Address(src)
             c == IF f.kind = "Notification" THEN cmd ELSE f.command
  <1>1. src \in Byte /\ cmd \in Byte /\ SYNC_BYTE \in Byte /\ 0 \in Byte /\ 1 \in Byte /\ 2 \in Byte
        /\ 3 \in Byte
    BY SyncAssumption, RadixAssumption DEF Byte
  <1>2. lead \in Seq(Byte) /\ Len(lead) = Lead /\ lead[1] = SYNC_BYTE /\ Lead \in 1..2
    <2>1. lead \in Seq(Byte) /\ Len(lead) = Lead /\ Lead \in 1..2
      BY <1>1, PrefixType DEF Lead
    <2>2. CASE ADDRESSING
      <3>1. lead = <<SYNC_BYTE, src>>
        BY <1>1, <2>2, PrefixType
      <3>. QED
        BY <2>1, <3>1
    <2>3. CASE ~ADDRESSING
      <3>1. lead = <<SYNC_BYTE>>
        BY <1>1, <2>3, PrefixType
      <3>. QED
        BY <2>1, <3>1
    <2>. QED
      BY <2>2, <2>3
  <1>3. c \in Byte /\ TypeByte(f) \in Byte
    <2>1. TypeByte(f) \in {0, 1, 2, 3}
      BY SendableFacts DEF TypeByte
    <2>. QED
      BY <1>1, <2>1, SendableFacts
  <1>4. Encode(f, src, cmd) = lead \o Body(f, cmd)
    BY DEF Encode
  <1> HIDE DEF lead
  <1>5. CASE Short(f)
    <2> DEFINE t == <<TypeByte(f), c>>
    <2>1. Body(f, cmd) = t
      BY <1>5 DEF Body, Short
    <2>2. t \in Seq(Byte) /\ Len(t) = 2 /\ t[1] = TypeByte(f) /\ t[2] = c
      BY <1>3
    <2> HIDE DEF t
    <2>3. /\ lead \o t \in Seq(Byte) /\ Len(lead \o t) = Lead + 2 /\ (lead \o t)[1] = lead[1]
          /\ (lead \o t)[Lead + 1] = t[1] /\ (lead \o t)[Lead + 2] = t[2]
      <3>1. lead \in Seq(Byte) /\ t \in Seq(Byte)
        BY <1>2, <2>2
      <3>2. /\ lead \o t \in Seq(Byte) /\ Len(lead \o t) = Len(lead) + Len(t)
            /\ \A i \in 1..Len(lead) : (lead \o t)[i] = lead[i]
            /\ \A i \in 1..Len(t) : (lead \o t)[Len(lead) + i] = t[i]
        BY <3>1, ConcatAt
      <3>3. 1 \in 1..Len(lead) /\ 1 \in 1..Len(t) /\ 2 \in 1..Len(t)
        BY <1>2, <2>2
      <3>. QED
        BY <1>2, <2>2, <3>2, <3>3
    <2>. QED
      BY <1>2, <1>4, <1>5, <2>1, <2>2, <2>3 DEF Spells
  <1>6. CASE ~Short(f)
    <2> DEFINE p == f.payload
               n == Len(p)
               h == <<TypeByte(f), c, n % Radix, n \div Radix>>
               k == <<crc8(p)>>
               t == (h \o p) \o k
    <2>1. p \in Seq(Byte) /\ crc8(p) \in Byte /\ n \in 0..(Radix * Radix - 1)
      BY <1>6, SendableFacts
    <2>2. n % Radix \in Byte /\ n \div Radix \in Byte
      BY <2>1, BytesOf, RadixAssumption DEF Byte
    <2>3. Body(f, cmd) = t
      BY <1>6, SendableFacts DEF Body, Short
    <2>4. /\ h \in Seq(Byte) /\ Len(h) = 4 /\ h[1] = TypeByte(f) /\ h[2] = c
          /\ h[3] = n % Radix /\ h[4] = n \div Radix
      BY <1>3, <2>2
    <2>5. k \in Seq(Byte) /\ Len(k) = 1 /\ k[1] = crc8(p)
      BY <2>1
    <2>6. n \in Nat
      BY <2>1
    <2> HIDE DEF p, h, k
    <2>7. /\ h \o p \in Seq(Byte) /\ Len(h \o p) = 4 + n
          /\ \A i \in 1..4 : (h \o p)[i] = h[i]
          /\ \A i \in 1..n : (h \o p)[4 + i] = p[i]
      <3>1. /\ h \o p \in Seq(Byte) /\ Len(h \o p) = Len(h) + Len(p)
            /\ \A i \in 1..Len(h) : (h \o p)[i] = h[i]
            /\ \A i \in 1..Len(p) : (h \o p)[Len(h) + i] = p[i]
        <4>1. h \in Seq(Byte) /\ p \in Seq(Byte)
          BY <2>1, <2>4
        <4>. QED
          BY <4>1, ConcatAt
      <3>. QED
        BY <2>4, <3>1
    <2>8. /\ t \in Seq(Byte) /\ Len(t) = 5 + n
          /\ \A i \in 1..4 : t[i] = h[i]
          /\ \A i \in 1..n : t[4 + i] = p[i]
          /\ t[5 + n] = crc8(p)
      <3> DEFINE g == h \o p
      <3>1. g \in Seq(Byte) /\ Len(g) = 4 + n
        BY <2>7
      <3> HIDE DEF g
      <3>2. /\ g \o k \in Seq(Byte) /\ Len(g \o k) = 5 + n
            /\ \A i \in 1..4 + n : (g \o k)[i] = g[i]
            /\ (g \o k)[(4 + n) + 1] = k[1]
        <4>1. g \in Seq(Byte) /\ k \in Seq(Byte)
          BY <2>5, <3>1
        <4>2. /\ g \o k \in Seq(Byte) /\ Len(g \o k) = Len(g) + Len(k)
              /\ \A i \in 1..Len(g) : (g \o k)[i] = g[i]
              /\ \A i \in 1..Len(k) : (g \o k)[Len(g) + i] = k[i]
          BY <4>1, ConcatAt
        <4> HIDE DEF n
        <4>. QED
          BY <2>5, <2>6, <3>1, <4>2
      <3>3. (4 + n) + 1 = 5 + n /\ (\A i \in 1..4 : i \in 1..4 + n) /\ \A i \in 1..n : 4 + i \in 1..4 + n
        BY <2>6
      <3>. QED
        BY <2>5, <2>7, <3>2, <3>3 DEF g
    <2> HIDE DEF t, n
    <2>9. /\ lead \o t \in Seq(Byte) /\ Len(lead \o t) = Lead + (5 + n)
          /\ \A i \in 1..Lead : (lead \o t)[i] = lead[i]
          /\ \A i \in 1..5 + n : (lead \o t)[Lead + i] = t[i]
      BY <1>2, <2>8, ConcatAt
    <2> DEFINE e == lead \o t
    <2> HIDE DEF e
    <2>10. /\ e[1] = SYNC_BYTE /\ e[Lead + 1] = TypeByte(f) /\ e[Lead + 2] = c
           /\ e[Lead + 3] = n % Radix /\ e[Lead + 4] = n \div Radix
           /\ Len(e) = Lead + 5 + n /\ e \in Seq(Byte)
      BY <1>2, <2>4, <2>6, <2>8, <2>9 DEF e
    <2>11. ASSUME NEW j \in 1..n PROVE e[Lead + 4 + j] = p[j]
      <3>1. Lead + 4 + j = Lead + (4 + j) /\ 4 + j \in 1..5 + n
        BY <1>2, <2>6
      <3>. QED
        BY <2>8, <2>9, <3>1 DEF e
    <2>12. e[Lead + 5 + n] = crc8(p)
      <3>1. Lead + 5 + n = Lead + (5 + n) /\ 5 + n \in 1..5 + n
        BY <1>2, <2>6
      <3>. QED
        BY <2>8, <2>9, <3>1 DEF e
    <2>13. Encode(f, src, cmd) = e
      BY <1>4, <2>3 DEF e
    <2>. QED
      BY <1>6, <2>10, <2>11, <2>12, <2>13 DEF Spells, p, n
  <1>. QED
    BY <1>5, <1>6

(* The bytes received so far, by parser state.                               *)
LEMMA SpanFacts ==
  ASSUME Inv
  PROVE  /\ span \in Seq(Byte) /\ Lead \in 1..2
         /\ state = "Source" => Lead = 2 /\ Len(span) = 1
         /\ state = "Type" => Len(span) = Lead
         /\ state = "Command" => Len(span) = Lead + 1 /\ span[Lead + 1] = frame_type
         /\ state = "LengthLo" =>
              Len(span) = Lead + 2 /\ span[Lead + 1] = frame_type /\ span[Lead + 2] = command
         /\ state = "LengthHi" =>
              Len(span) = Lead + 3 /\ span[Lead + 1] = frame_type /\ span[Lead + 2] = command
              /\ span[Lead + 3] = data_len
         /\ state \in {"Data", "Crc"} =>
              /\ Len(span) = Lead + 4 + Len(buf)
              /\ span[Lead + 1] = frame_type /\ span[Lead + 2] = command
              /\ span[Lead + 3] = data_len % Radix /\ span[Lead + 4] = data_len \div Radix
              /\ \A j \in 1..Len(buf) : span[Lead + 4 + j] = buf[j]
  <1>1. /\ span \in Seq(Byte) /\ source \in Byte /\ frame_type \in Byte /\ command \in Byte
        /\ data_len \in 0..(Radix * Radix - 1) /\ buf \in Seq(Byte) /\ Progress
    BY DEF Inv, TypeOK
  <1>2. Prefix \in Seq(Byte) /\ Len(Prefix) = Lead /\ Lead \in 1..2
    BY <1>1, PrefixType DEF Prefix, Lead
  <1>3. ASSUME NEW t \in Seq(Byte), span = Prefix \o t
        PROVE  Len(span) = Lead + Len(t) /\ \A i \in 1..Len(t) : span[Lead + i] = t[i]
    BY <1>2, <1>3, ConcatAt
  <1>4. CASE state \in {"Sync", "Source", "Type"}
    <2>1. state = "Source" => ADDRESSING /\ span = <<SYNC_BYTE>>
      BY <1>1 DEF Progress
    <2>2. state = "Source" => Lead = 2 /\ Len(span) = 1
      BY <2>1 DEF Lead
    <2>3. state = "Type" => Len(span) = Lead
      BY <1>1, <1>2 DEF Progress
    <2>. QED
      BY <1>1, <1>2, <1>4, <2>2, <2>3
  <1>5. CASE state = "Command"
    <2>1. <<frame_type>> \in Seq(Byte) /\ Len(<<frame_type>>) = 1 /\ <<frame_type>>[1] = frame_type
      BY <1>1
    <2>2. span = Prefix \o <<frame_type>>
      BY <1>1, <1>5 DEF Progress
    <2>. QED
      BY <1>1, <1>2, <1>3, <1>5, <2>1, <2>2
  <1>6. CASE state = "LengthLo"
    <2> DEFINE t == <<frame_type, command>>
    <2>1. t \in Seq(Byte) /\ Len(t) = 2 /\ t[1] = frame_type /\ t[2] = command
      BY <1>1
    <2>2. span = Prefix \o t
      BY <1>1, <1>6 DEF Progress
    <2> HIDE DEF t
    <2>3. Len(span) = Lead + 2 /\ span[Lead + 1] = t[1] /\ span[Lead + 2] = t[2]
      <3>1. Len(span) = Lead + Len(t) /\ \A i \in 1..Len(t) : span[Lead + i] = t[i]
        BY <1>3, <2>1, <2>2
      <3>2. 1 \in 1..Len(t) /\ 2 \in 1..Len(t)
        BY <2>1
      <3>. QED
        BY <2>1, <3>1, <3>2
    <2>. QED
      BY <1>1, <1>2, <1>6, <2>1, <2>3
  <1>7. CASE state = "LengthHi"
    <2> DEFINE t == <<frame_type, command, data_len>>
    <2>1. data_len \in Byte /\ span = Prefix \o t
      BY <1>1, <1>7 DEF Progress
    <2>2. t \in Seq(Byte) /\ Len(t) = 3 /\ t[1] = frame_type /\ t[2] = command /\ t[3] = data_len
      BY <1>1, <2>1
    <2> HIDE DEF t
    <2>3. /\ Len(span) = Lead + 3 /\ span[Lead + 1] = t[1] /\ span[Lead + 2] = t[2]
          /\ span[Lead + 3] = t[3]
      <3>1. Len(span) = Lead + Len(t) /\ \A i \in 1..Len(t) : span[Lead + i] = t[i]
        BY <1>3, <2>1, <2>2
      <3>2. 1 \in 1..Len(t) /\ 2 \in 1..Len(t) /\ 3 \in 1..Len(t)
        BY <2>2
      <3>. QED
        BY <2>2, <3>1, <3>2
    <2>. QED
      BY <1>1, <1>2, <1>7, <2>2, <2>3
  <1>8. CASE state \in {"Data", "Crc"}
    <2> DEFINE g == Prefix \o Header
    <2>1. span = g \o buf
      BY <1>1, <1>8 DEF Progress
    <2>2. data_len % Radix \in Byte /\ data_len \div Radix \in Byte
      BY <1>1, BytesOf, RadixAssumption DEF Byte
    <2>3. /\ Header \in Seq(Byte) /\ Len(Header) = 4 /\ Header[1] = frame_type
          /\ Header[2] = command /\ Header[3] = data_len % Radix /\ Header[4] = data_len \div Radix
      BY <1>1, <2>2 DEF Header
    <2>4. /\ g \in Seq(Byte) /\ Len(g) = Lead + 4
          /\ \A i \in 1..4 : g[Lead + i] = Header[i]
      <3>1. /\ g \in Seq(Byte) /\ Len(g) = Len(Prefix) + Len(Header)
            /\ \A i \in 1..Len(Header) : g[Len(Prefix) + i] = Header[i]
        <4>1. Prefix \in Seq(Byte) /\ Header \in Seq(Byte)
          BY <1>2, <2>3
        <4>. QED
          BY <4>1, ConcatAt
      <3> HIDE DEF g
      <3>. QED
        BY <1>2, <2>3, <3>1
    <2> HIDE DEF g
    <2>5. /\ Len(span) = Len(g) + Len(buf)
          /\ \A i \in 1..Len(g) : span[i] = g[i]
          /\ \A i \in 1..Len(buf) : span[Len(g) + i] = buf[i]
      <3>1. g \in Seq(Byte) /\ buf \in Seq(Byte)
        BY <1>1, <2>4
      <3>. QED
        BY <2>1, <3>1, ConcatAt
    <2>6. \A i \in 1..4 : Lead + i \in 1..Len(g)
      BY <1>2, <2>4
    <2>7. \A i \in 1..4 : span[Lead + i] = Header[i]
      BY <2>4, <2>5, <2>6
    <2>. QED
      BY <1>1, <1>2, <1>8, <2>3, <2>4, <2>5, <2>7
  <1>. QED
    BY <1>1, <1>4, <1>5, <1>6, <1>7, <1>8 DEF Inv, TypeOK, States

(* Fed with the next byte of a frame whose bytes so far it has received, the *)
(* parser goes on with that frame or, at its last byte, returns it.          *)
LEMMA Follows ==
  ASSUME Inv, NEW f, Sendable(f), NEW src, NEW cmd, NEW e, Spells(e, f, src, cmd),
         state # "Sync", Len(span) < Len(e), \A j \in 1..Len(span) : span[j] = e[j],
         NEW b \in Byte, b = e[Len(span) + 1], Feed(b)
  PROVE  /\ Len(span) + 1 < Len(e) => state' # "Sync" /\ span' = Append(span, b) /\ out' = <<>>
         /\ Len(span) + 1 = Len(e) => state' = "Sync" /\ out' = <<f>>
  <1>1. /\ Lead \in 1..2 /\ Radix \in Nat \ {0} /\ buf \in Seq(Byte) /\ Len(buf) \in Nat
        /\ data_len \in 0..(Radix * Radix - 1) /\ span \in Seq(Byte) /\ Len(span) \in Nat
        /\ MAX_PAYLOAD_SIZE \in Nat
    BY SpanFacts, RadixAssumption, MaxPayloadAssumption DEF Inv, TypeOK
  <1>2. /\ f.kind \in {"Nack", "Ack", "Data", "Notification"} /\ f \in Frame
        /\ ~Short(f) => /\ f.payload \in Seq(Byte) /\ Len(f.payload) <= MAX_PAYLOAD_SIZE
                        /\ Len(f.payload) \in 0..(Radix * Radix - 1)
    BY SendableFacts
  <1>3. ~Short(f) => Len(f.payload) \in Nat
    BY <1>2
  <1>4. Len(e) \in Nat /\ Len(e) >= Lead + 2 /\ (~Short(f) => Len(e) >= Lead + 5)
    BY SpelledLength
  <1>5. CASE state = "Source"
    <2>1. Len(span) = 1 /\ Lead = 2 /\ state' = "Type" /\ span' = Append(span, b) /\ out' = <<>>
      BY <1>5, SpanFacts DEF Feed, FeedSync, FeedSource, FeedType, FeedCommand, FeedLengthLo,
         FeedLengthHi, FeedData, FeedCrc, Continue
    <2>2. Len(span) + 1 # Len(e)
      <3>1. Len(span) = 1 /\ Lead = 2
        BY <2>1
      <3>2. Len(e) \in Nat /\ Len(e) >= 4
        BY <1>4, <3>1
      <3>3. \A x, y \in Nat : x = 1 /\ y >= 4 => x + 1 # y
        OBVIOUS
      <3>. QED
        BY <1>1, <3>1, <3>2, <3>3
    <2>3. state' # "Sync"
      BY <2>1
    <2>. QED
      BY <2>1, <2>2, <2>3
  <1>6. CASE state = "Type"
    <2>1. Len(span) = Lead /\ FeedType(b)
      BY <1>6, SpanFacts DEF Feed, FeedSync, FeedSource, FeedType, FeedCommand, FeedLengthLo,
         FeedLengthHi, FeedData, FeedCrc
    <2>2. b \in {0, 1, 2, 3}
      BY <1>2, <2>1 DEF Spells, TypeByte
    <2>3. state' = "Command" /\ span' = Append(span, b) /\ out' = <<>>
      BY <2>1, <2>2 DEF FeedType, Continue
    <2>. QED
      BY <1>1, <1>4, <2>1, <2>3
  <1>7. ASSUME state \in {"Command", "LengthLo", "LengthHi", "Data", "Crc"}
        PROVE  frame_type = TypeByte(f) /\ Len(span) >= Lead + 1
    <2>1. Len(span) >= Lead + 1 /\ span[Lead + 1] = frame_type
      BY <1>1, <1>7, SpanFacts
    <2>2. Lead + 1 \in 1..Len(span)
      BY <1>1, <2>1
    <2>. QED
      BY <2>1, <2>2 DEF Spells
  <1>8. CASE state = "Command"
    <2>1. Len(span) = Lead + 1 /\ FeedCommand(b)
      BY <1>8, SpanFacts DEF Feed, FeedSync, FeedSource, FeedType, FeedCommand, FeedLengthLo,
         FeedLengthHi, FeedData, FeedCrc
    <2>2. b = IF f.kind = "Notification" THEN cmd ELSE f.command
      <3>1. Len(span) + 1 = Lead + 2
        BY <1>1, <2>1
      <3>. QED
        BY <3>1 DEF Spells
    <2>3. CASE Short(f)
      <3>1. frame_type = IF f.kind = "Nack" THEN 0 ELSE 1
        BY <1>2, <1>7, <1>8, <2>3 DEF Short, TypeByte
      <3>2. f.kind = IF frame_type = 0 THEN "Nack" ELSE "Ack"
        BY <1>2, <2>3, <3>1 DEF Short
      <3>3. f = [kind |-> f.kind, command |-> f.command]
        BY <1>2, <2>3 DEF Frame, Short
      <3>4. f.command = b
        BY <2>2, <2>3 DEF Short
      <3>5. state' = "Sync" /\ out' = <<[kind |-> IF frame_type = 0 THEN "Nack" ELSE "Ack", command |-> b]>>
        BY <2>1, <3>1 DEF FeedCommand, Return
      <3>6. Len(e) = Lead + 2
        BY <2>3 DEF Spells
      <3>7. out' = <<f>>
        BY <3>2, <3>3, <3>4, <3>5
      <3>. QED
        BY <1>1, <2>1, <3>5, <3>6, <3>7
    <2>4. CASE ~Short(f)
      <3>1. frame_type \in {2, 3}
        BY <1>2, <1>7, <1>8, <2>4 DEF Short, TypeByte
      <3>2. state' = "LengthLo" /\ span' = Append(span, b) /\ out' = <<>>
        BY <2>1, <3>1 DEF FeedCommand, Continue
      <3>. QED
        BY <1>1, <1>4, <2>1, <2>4, <3>2
    <2>. QED
      BY <2>3, <2>4
  <1>9. ASSUME state \in {"LengthLo", "LengthHi", "Data", "Crc"} PROVE ~Short(f)
    <2>1. frame_type \in {2, 3}
      BY <1>9 DEF Inv, Progress
    <2>. QED
      BY <1>7, <1>9, <2>1 DEF Short, TypeByte
  <1>10. CASE state = "LengthLo"
    <2>1. /\ Len(span) = Lead + 2 /\ state' = "LengthHi" /\ span' = Append(span, b)
          /\ out' = <<>>
      BY <1>10, SpanFacts DEF Feed, FeedSync, FeedSource, FeedType, FeedCommand, FeedLengthLo,
         FeedLengthHi, FeedData, FeedCrc, Continue
    <2>. QED
      BY <1>1, <1>4, <1>9, <1>10, <2>1
  <1> DEFINE n == Len(f.payload)
  <1>11. \A x \in 0..(Radix * Radix - 1) : x = (x % Radix) + (x \div Radix) * Radix
    <2>1. ASSUME NEW x \in 0..(Radix * Radix - 1) PROVE x = (x % Radix) + (x \div Radix) * Radix
      <3>1. x \in Int /\ Radix \in Int /\ Radix > 0
        BY <1>1
      <3>. QED
        BY <3>1
    <2>. QED
      BY <2>1
  <1>12. CASE state = "LengthHi"
    <2>1. Len(span) = Lead + 3 /\ FeedLengthHi(b) /\ span[Lead + 3] = data_len
      BY <1>12, SpanFacts DEF Feed, FeedSync, FeedSource, FeedType, FeedCommand, FeedLengthLo,
         FeedLengthHi, FeedData, FeedCrc
    <2>2. ~Short(f) /\ n \in 0..(Radix * Radix - 1) /\ n <= MAX_PAYLOAD_SIZE
      BY <1>2, <1>9, <1>12
    <2>3. data_len = n % Radix /\ b = n \div Radix
      <3>1. Lead + 3 \in 1..Len(span) /\ Len(span) + 1 = Lead + 4
        BY <1>1, <2>1
      <3>. QED
        BY <2>1, <2>2, <3>1 DEF Spells
    <2>4. data_len' = n
      <3>1. data_len' = data_len + b * Radix
        BY <2>1 DEF FeedLengthHi
      <3>. QED
        BY <1>11, <2>2, <2>3, <3>1
    <2>5. n \in Nat
      BY <1>3, <2>2
    <2> HIDE DEF n
    <2>6. state' \in {"Crc", "Data"} /\ span' = Append(span, b) /\ out' = <<>>
      BY <1>1, <2>1, <2>2, <2>4, <2>5 DEF FeedLengthHi, Continue
    <2>. QED
      BY <1>1, <1>4, <2>1, <2>2, <2>6
  <1>13. ASSUME state \in {"Data", "Crc"} PROVE data_len = n /\ n \in Nat /\ ~Short(f)
    <2>1. /\ Len(span) = Lead + 4 + Len(buf)
          /\ span[Lead + 3] = data_len % Radix /\ span[Lead + 4] = data_len \div Radix
      BY <1>13, SpanFacts
    <2>2. ~Short(f) /\ n \in 0..(Radix * Radix - 1) /\ n \in Nat
      BY <1>2, <1>3, <1>9, <1>13
    <2>3. Lead + 3 \in 1..Len(span) /\ Lead + 4 \in 1..Len(span)
      BY <1>1, <2>1
    <2>4. data_len % Radix = n % Radix /\ data_len \div Radix = n \div Radix
      BY <2>1, <2>2, <2>3 DEF Spells
    <2> HIDE DEF n
    <2>5. data_len = n
      <3>1. n = (n % Radix) + (n \div Radix) * Radix
        BY <1>11, <2>2
      <3>2. data_len = (data_len % Radix) + (data_len \div Radix) * Radix
        BY <1>1, <1>11
      <3>. QED
        BY <2>4, <3>1, <3>2
    <2>. QED
      BY <2>2, <2>5
  <1>14. CASE state = "Data"
    <2>1. Len(span) = Lead + 4 + Len(buf) /\ FeedData(b) /\ Len(buf) < data_len
      BY <1>14, SpanFacts DEF Feed, FeedSync, FeedSource, FeedType, FeedCommand, FeedLengthLo,
         FeedLengthHi, FeedData, FeedCrc, Inv, Progress
    <2>2. state' \in {"Crc", "Data"} /\ span' = Append(span, b) /\ out' = <<>>
      BY <2>1 DEF FeedData, Continue
    <2>3. Len(e) = Lead + 5 + n
      BY <1>13, <1>14 DEF Spells
    <2> HIDE DEF n
    <2>. QED
      BY <1>1, <1>13, <1>14, <2>1, <2>2, <2>3
  <1>15. CASE state = "Crc"
    <2>1. /\ Len(span) = Lead + 4 + Len(buf) /\ FeedCrc(b) /\ Len(buf) = data_len
          /\ span[Lead + 2] = command
          /\ \A j \in 1..Len(buf) : span[Lead + 4 + j] = buf[j]
      BY <1>15, SpanFacts DEF Feed, FeedSync, FeedSource, FeedType, FeedCommand, FeedLengthLo,
         FeedLengthHi, FeedData, FeedCrc, Inv, Progress
    <2>2. Len(buf) = n /\ n \in Nat /\ ~Short(f) /\ f.payload \in Seq(Byte)
      BY <1>2, <1>13, <1>15, <2>1
    <2>3. buf = f.payload
      <3>1. ASSUME NEW j \in 1..Len(buf) PROVE buf[j] = f.payload[j]
        <4>1. Lead + 4 + j \in 1..Len(span)
          BY <1>1, <2>1
        <4>2. span[Lead + 4 + j] = e[Lead + 4 + j]
          BY <4>1
        <4>3. e[Lead + 4 + j] = f.payload[j]
          BY <2>2 DEF Spells
        <4>. QED
          BY <2>1, <4>2, <4>3
      <3>. QED
        BY <1>1, <2>2, <3>1, SeqEq
    <2>4. Len(e) = Lead + 5 + n /\ e[Lead + 5 + n] = crc8(f.payload)
      BY <2>2 DEF Spells
    <2>5. Len(span) + 1 = Lead + 5 + n
      <3> HIDE DEF n
      <3>. QED
        BY <1>1, <2>1, <2>2
    <2>6. b = crc8(buf)
      BY <2>3, <2>4, <2>5
    <2>7. frame_type \in {2, 3} /\ frame_type = TypeByte(f)
      BY <1>7, <1>15 DEF Inv, Progress
    <2>8. state' = "Sync" /\ out' = <<IF frame_type = 2
                                     THEN [kind |-> "Data", command |-> command, payload |-> buf]
                                     ELSE [kind |-> "Notification", payload |-> buf]>>
      BY <2>1, <2>6, <2>7 DEF FeedCrc, Return
    <2>9. out' = <<f>>
      <3>1. CASE f.kind = "Data"
        <4>1. frame_type = 2
          BY <2>7, <3>1 DEF TypeByte
        <4>2. command = f.command
          <5>1. Lead + 2 \in 1..Len(span)
            BY <1>1, <2>1
          <5>. QED
            BY <2>1, <3>1, <5>1 DEF Spells
        <4>3. f = [kind |-> "Data", command |-> f.command, payload |-> f.payload]
          BY <1>2, <3>1 DEF Frame
        <4>. QED
          BY <2>3, <2>8, <4>1, <4>2, <4>3
      <3>2. CASE f.kind = "Notification"
        <4>1. frame_type = 3
          BY <2>7, <3>2 DEF TypeByte
        <4>2. f = [kind |-> "Notification", payload |-> f.payload]
          BY <1>2, <3>2 DEF Frame
        <4>. QED
          BY <2>3, <2>8, <4>1, <4>2
      <3>. QED
        BY <1>2, <2>2, <3>1, <3>2 DEF Short
    <2>. QED
      BY <2>4, <2>5, <2>8, <2>9
  <1>. QED
    BY <1>5, <1>6, <1>8, <1>10, <1>12, <1>14, <1>15 DEF Inv, TypeOK, States
=============================================================================
