----------------------------- MODULE FrameParser -----------------------------
(***************************************************************************)
(* The host's streaming frame parser (FrameParser of framing/src/lib.rs),  *)
(* fed with an arbitrary byte stream.  Bytes are 0..Radix-1 with Radix 256 *)
(* in the code; a length is lo + hi * Radix.  crc8 is a parameter: nothing *)
(* here depends on which checksum it is.                                   *)
(***************************************************************************)
EXTENDS Integers, Sequences

CONSTANTS
  Radix,              \* number of byte values, 256 in the code
  SYNC_BYTE,          \* 0x55 in the code
  MAX_PAYLOAD_SIZE,   \* 4096 in the code
  crc8(_),            \* checksum of a payload
  ADDRESSING          \* FrameParser::with_addressing

Byte == 0..Radix-1

ASSUME RadixAssumption == Radix \in Nat \ {0}
ASSUME SyncAssumption == SYNC_BYTE \in Byte
ASSUME MaxPayloadAssumption ==
  MAX_PAYLOAD_SIZE \in Nat /\ MAX_PAYLOAD_SIZE > 0 /\ MAX_PAYLOAD_SIZE < Radix * Radix
ASSUME AddressingAssumption == ADDRESSING \in BOOLEAN

VARIABLES
  state,        \* ParseState
  source,       \* source address of the frame being parsed
  frame_type,
  command,
  data_len,
  buf,          \* payload so far; data_received is its length
  out,          \* result of the latest feed: <<>> for None, <<frame>> for Some
  span,         \* history: the bytes from the SYNC byte on that led here
  last_source   \* history: source address of the latest frame returned, or NoSource

vars == <<state, source, frame_type, command, data_len, buf, out, span, last_source>>

NoSource == -1

States == {"Sync", "Source", "Type", "Command", "LengthLo", "LengthHi", "Data", "Crc"}

Frame == [kind: {"Nack", "Ack"}, command: Byte]
         \cup [kind: {"Data"}, command: Byte, payload: Seq(Byte)]
         \cup [kind: {"Notification"}, payload: Seq(Byte)]

TypeOK ==
  /\ state \in States
  /\ source \in Byte /\ frame_type \in Byte /\ command \in Byte
  /\ data_len \in 0..(Radix * Radix - 1)
  /\ buf \in Seq(Byte)
  /\ out = <<>> \/ (out[1] \in Frame /\ out = <<out[1]>>)
  /\ span \in Seq(Byte)
  /\ last_source \in Byte \cup {NoSource}

Init ==
  /\ state = "Sync" /\ source = 0 /\ frame_type = 0 /\ command = 0
  /\ data_len = 0 /\ buf = <<>> /\ out = <<>> /\ span = <<>> /\ last_source = NoSource

\* Nothing returned, the byte b belongs to the frame being parsed
Continue(b) ==
  /\ out' = <<>> /\ span' = Append(span, b) /\ UNCHANGED last_source

\* A frame returned; the byte b was its last
Return(f, b) ==
  /\ out' = <<f>> /\ span' = Append(span, b) /\ last_source' = source

FeedSync(b) ==
  /\ state = "Sync"
  /\ IF b = SYNC_BYTE
     THEN /\ state' = IF ADDRESSING THEN "Source" ELSE "Type"
          /\ span' = <<b>>
     ELSE /\ UNCHANGED state
          /\ span' = <<>>
  /\ out' = <<>>
  /\ UNCHANGED <<source, frame_type, command, data_len, buf, last_source>>

FeedSource(b) ==
  /\ state = "Source"
  /\ source' = b /\ state' = "Type"
  /\ Continue(b)
  /\ UNCHANGED <<frame_type, command, data_len, buf>>

\* The byte is consumed even when it is no valid type
FeedType(b) ==
  /\ state = "Type"
  /\ frame_type' = b
  /\ state' = IF b > 3 THEN "Sync" ELSE "Command"
  /\ Continue(b)
  /\ UNCHANGED <<source, command, data_len, buf>>

FeedCommand(b) ==
  /\ state = "Command"
  /\ command' = b
  /\ IF frame_type \in {0, 1}
     THEN /\ state' = "Sync"
          /\ Return([kind |-> IF frame_type = 0 THEN "Nack" ELSE "Ack", command |-> b], b)
     ELSE /\ state' = IF frame_type \in {2, 3} THEN "LengthLo" ELSE "Sync"
          /\ Continue(b)
  /\ UNCHANGED <<source, frame_type, data_len, buf>>

FeedLengthLo(b) ==
  /\ state = "LengthLo"
  /\ data_len' = b /\ state' = "LengthHi"
  /\ Continue(b)
  /\ UNCHANGED <<source, frame_type, command, buf>>

\* Fault: the high byte is shifted too far
FeedLengthHiWide(b) ==
  /\ state = "LengthHi"
  /\ data_len' = data_len + b * Radix * Radix
  /\ state' = IF data_len' = 0 THEN "Crc"
              ELSE IF data_len' > MAX_PAYLOAD_SIZE THEN "Sync" ELSE "Data"
  /\ buf' = IF state' = "Sync" THEN buf ELSE <<>>
  /\ Continue(b)
  /\ UNCHANGED <<source, frame_type, command>>

\* Fault: no limit on the length
FeedLengthHiUnlimited(b) ==
  /\ state = "LengthHi"
  /\ data_len' = data_len + b * Radix
  /\ state' = IF data_len' = 0 THEN "Crc" ELSE "Data"
  /\ buf' = <<>>
  /\ Continue(b)
  /\ UNCHANGED <<source, frame_type, command>>

\* Fault: no case for the empty payload
FeedLengthHiNoEmpty(b) ==
  /\ state = "LengthHi"
  /\ data_len' = data_len + b * Radix
  /\ state' = IF data_len' > MAX_PAYLOAD_SIZE THEN "Sync" ELSE "Data"
  /\ buf' = IF state' = "Sync" THEN buf ELSE <<>>
  /\ Continue(b)
  /\ UNCHANGED <<source, frame_type, command>>

FeedLengthHi(b) ==
  /\ state = "LengthHi"
  /\ data_len' = data_len + b * Radix
  /\ state' = IF data_len' = 0 THEN "Crc"
              ELSE IF data_len' > MAX_PAYLOAD_SIZE THEN "Sync" ELSE "Data"
  /\ buf' = IF state' = "Sync" THEN buf ELSE <<>>
  /\ Continue(b)
  /\ UNCHANGED <<source, frame_type, command>>

FeedData(b) ==
  /\ state = "Data"
  /\ buf' = Append(buf, b)
  /\ state' = IF Len(buf') >= data_len THEN "Crc" ELSE "Data"
  /\ Continue(b)
  /\ UNCHANGED <<source, frame_type, command, data_len>>

\* Fault: the checksum is not compared
FeedCrcUnchecked(b) ==
  /\ state = "Crc"
  /\ state' = "Sync" /\ buf' = <<>>
  /\ Return(IF frame_type = 2
            THEN [kind |-> "Data", command |-> command, payload |-> buf]
            ELSE [kind |-> "Notification", payload |-> buf], b)
  /\ UNCHANGED <<source, frame_type, command, data_len>>

FeedCrc(b) ==
  /\ state = "Crc"
  /\ state' = "Sync"
  /\ IF b = crc8(buf) /\ frame_type \in {2, 3}
     THEN /\ buf' = <<>>
          /\ Return(IF frame_type = 2
                    THEN [kind |-> "Data", command |-> command, payload |-> buf]
                    ELSE [kind |-> "Notification", payload |-> buf], b)
     ELSE /\ buf' = IF b = crc8(buf) THEN <<>> ELSE buf
          /\ Continue(b)
  /\ UNCHANGED <<source, frame_type, command, data_len>>

\* FrameParser::feed
Feed(b) ==
  \/ FeedSync(b) \/ FeedSource(b) \/ FeedType(b) \/ FeedCommand(b)
  \/ FeedLengthLo(b) \/ FeedLengthHi(b) \/ FeedData(b) \/ FeedCrc(b)

\* FrameParser::reset
Reset ==
  /\ state' = "Sync" /\ frame_type' = 0 /\ command' = 0 /\ data_len' = 0 /\ buf' = <<>>
  /\ out' = <<>> /\ span' = <<>>
  /\ UNCHANGED <<source, last_source>>

Next == (\E b \in Byte : Feed(b)) \/ Reset

Spec == Init /\ [][Next]_vars

-----------------------------------------------------------------------------
\* The address byte of an addressed frame
Address(s) == IF ADDRESSING THEN <<s>> ELSE <<>>

TypeByte(f) == CASE f.kind = "Nack" -> 0 [] f.kind = "Ack" -> 1
                 [] f.kind = "Data" -> 2 [] f.kind = "Notification" -> 3

\* The bytes after the address: type, command and, for the long frames, length,
\* payload and checksum, as the device's sendFrame puts them on the line; cmd is
\* the command byte of a notification, which the parser does not pass on
Body(f, cmd) ==
  IF f.kind \in {"Nack", "Ack"} THEN <<TypeByte(f), f.command>>
  ELSE <<TypeByte(f), IF f.kind = "Data" THEN f.command ELSE cmd,
         Len(f.payload) % Radix, Len(f.payload) \div Radix>>
       \o f.payload \o <<crc8(f.payload)>>

Encode(f, src, cmd) == <<SYNC_BYTE>> \o Address(src) \o Body(f, cmd)

(* Whatever bytes arrive, a returned frame was received as one contiguous,   *)
(* well-formed run of bytes from a SYNC byte on: type, command, length and   *)
(* payload are the ones on the line and the checksum is that of exactly this *)
(* payload - nothing of an earlier, abandoned frame leaks into it.           *)
FramesAreReceived ==
  out # <<>> => span = Encode(out[1], last_source, command)

(* The payload buffer stays within MAX_PAYLOAD_SIZE and within the announced *)
(* length, and a bogus header holds the parser for at most a bounded number  *)
(* of bytes before it scans for SYNC again.                                  *)
BoundedHunt ==
  /\ Len(buf) <= MAX_PAYLOAD_SIZE
  /\ state = "Data" => Len(buf) < data_len
  /\ Len(span) <= MAX_PAYLOAD_SIZE + 7
=============================================================================
