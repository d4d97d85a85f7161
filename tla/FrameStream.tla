----------------------------- MODULE FrameStream -----------------------------
(***************************************************************************)
(* From the line to the frames: a device that puts well-formed frames on   *)
(* the line, line noise between them, Transport::read of a serial port or  *)
(* PTY (runtime/src/transport.rs) and of the browser's BufferTransport,    *)
(* whose page feeds it (wasm.rs), the read loop of Client::poll, and the   *)
(* host's FrameParser (sendFrame of core/templates/protocol_runtime.c.j2). *)
(* The histories start afresh when the host has read everything and its    *)
(* parser hunts for SYNC, so they also tell whether it recovers.           *)
(***************************************************************************)
EXTENDS FrameParser

CONSTANTS
  Commands,       \* command bytes of frames
  Payloads,       \* payloads of DATA and NOTIFICATION frames
  Nodes,          \* source addresses in use on an addressed line
  Noise,          \* byte values line noise may take
  READ_BUF_SIZE,  \* of Client::poll
  RX_CAP,         \* of WasmClient::feed_bytes
  MaxFrames,      \* bound on the frames sent between two fresh starts
  MaxNoise        \* bound on noise bytes and resets between two fresh starts

ASSUME PayloadsAssumption ==
  \A p \in Payloads : p \in Seq(Byte) /\ Len(p) <= MAX_PAYLOAD_SIZE
ASSUME CodecAssumption == Radix > 3 /\ \A p \in Payloads : crc8(p) \in Byte
ASSUME NoiseAssumption == Noise \subseteq Byte /\ Nodes \subseteq Byte /\ Commands \subseteq Byte
ASSUME BuffersAssumption == READ_BUF_SIZE \in Nat \ {0} /\ RX_CAP \in Nat \ {0}
ASSUME StreamBoundsAssumption == MaxFrames \in Nat /\ MaxNoise \in Nat

VARIABLES
  transport,  \* "port" (serial or PTY) or "buffer"
  line,       \* bytes sent and not yet read by the host, or by the page
  rx,         \* BufferTransport.rx
  phase,      \* of poll(): "idle", "read", "feed" or, after a full read, "feed_full"
  chunk,      \* bytes of the latest Transport::read not yet fed to the parser
  owed,       \* history: bytes there when the poll began and not yet read
  sent,       \* history: frames sent
  got,        \* history: frames the parser returned
  noisy,      \* number of noise bytes and resets
  clean       \* history: no noise byte was SYNC, no reset, nothing dropped

hostVars == <<rx, phase, chunk, owed>>
histories == <<sent, got, noisy, clean>>
streamVars == <<vars, transport, line, hostVars, histories>>

SentFrames == [kind: {"Nack", "Ack"}, command: Commands]
              \cup [kind: {"Data"}, command: Commands, payload: Payloads]
              \cup [kind: {"Notification"}, payload: Payloads]

StreamInit ==
  /\ Init /\ transport \in {"port", "buffer"}
  /\ line = <<>> /\ rx = <<>> /\ phase = "idle" /\ chunk = <<>> /\ owed = 0
  /\ sent = <<>> /\ got = <<>> /\ noisy = 0 /\ clean = TRUE

Consumed == line = <<>> /\ rx = <<>> /\ chunk = <<>> /\ phase = "idle"

\* The device's sendFrame; a notification goes out with a command byte too.
\* What arrives while the host feeds its parser might as well arrive after that.
SendFrame(f, src, cmd) ==
  /\ chunk = <<>>
  /\ line' = line \o Encode(f, src, cmd)
  /\ IF Consumed /\ state = "Sync"
     THEN sent' = <<f>> /\ got' = <<>> /\ noisy' = 0 /\ clean' = TRUE
     ELSE /\ Len(sent) < MaxFrames /\ sent' = Append(sent, f)
          /\ UNCHANGED <<got, noisy, clean>>
  /\ UNCHANGED <<vars, transport, hostVars>>

LineNoise(b) ==
  /\ chunk = <<>> /\ noisy < MaxNoise /\ noisy' = noisy + 1
  /\ line' = Append(line, b) /\ clean' = (clean /\ b # SYNC_BYTE)
  /\ UNCHANGED <<vars, transport, hostVars, sent, got>>

-----------------------------------------------------------------------------
\* WasmClient::feed_bytes with what the page has read; the oldest bytes beyond
\* RX_CAP are dropped
PageFeeds ==
  /\ transport = "buffer" /\ phase = "idle" /\ line # <<>>
  /\ LET all == rx \o line
         overflow == IF Len(all) > RX_CAP THEN Len(all) - RX_CAP ELSE 0
     IN  /\ rx' = SubSeq(all, overflow + 1, Len(all))
         /\ clean' = (clean /\ overflow = 0)
  /\ line' = <<>>
  /\ UNCHANGED <<vars, transport, phase, chunk, owed, sent, got, noisy>>

\* What Transport::read can return at the moment
Available == IF transport = "buffer" THEN rx ELSE line

BeginPoll ==
  /\ phase = "idle"
  /\ phase' = "read" /\ owed' = Len(Available)
  /\ UNCHANGED <<vars, transport, line, rx, chunk, histories>>

\* Fault: a full buffer is taken for the end of the input
ReadOnce ==
  /\ phase = "read" /\ Available # <<>>
  /\ LET n == IF Len(Available) < READ_BUF_SIZE THEN Len(Available) ELSE READ_BUF_SIZE
         rest == SubSeq(Available, n + 1, Len(Available))
     IN  /\ chunk' = SubSeq(Available, 1, n)
         /\ phase' = "feed"
         /\ owed' = IF owed > n THEN owed - n ELSE 0
         /\ IF transport = "buffer" THEN rx' = rest /\ UNCHANGED line
            ELSE line' = rest /\ UNCHANGED rx
  /\ UNCHANGED <<vars, transport, histories>>

\* Transport::read: as much as there is and the buffer holds
ReadSome ==
  /\ phase = "read" /\ Available # <<>>
  /\ LET n == IF Len(Available) < READ_BUF_SIZE THEN Len(Available) ELSE READ_BUF_SIZE
         rest == SubSeq(Available, n + 1, Len(Available))
     IN  /\ chunk' = SubSeq(Available, 1, n)
         /\ phase' = IF n < READ_BUF_SIZE THEN "feed" ELSE "feed_full"
         /\ owed' = IF owed > n THEN owed - n ELSE 0
         /\ IF transport = "buffer" THEN rx' = rest /\ UNCHANGED line
            ELSE line' = rest /\ UNCHANGED rx
  /\ UNCHANGED <<vars, transport, histories>>

\* Ok(0): nothing there, at once or after the port's read timeout
ReadNothing ==
  /\ phase = "read" /\ Available = <<>>
  /\ phase' = "idle"
  /\ UNCHANGED <<vars, transport, line, rx, chunk, owed, histories>>

\* An error of the port, which keeps its bytes; the poll reads no more
ReadFails ==
  /\ phase = "read" /\ transport = "port"
  /\ phase' = "idle" /\ owed' = 0
  /\ UNCHANGED <<vars, transport, line, rx, chunk, histories>>

\* FrameParser::feed_bytes, one iteration; after the last byte the loop of
\* poll() ends, or reads again after a full buffer
Deliver ==
  /\ chunk # <<>>
  /\ Feed(Head(chunk)) /\ chunk' = Tail(chunk)
  /\ got' = got \o out'
  /\ phase' = IF chunk' # <<>> THEN phase ELSE IF phase = "feed" THEN "idle" ELSE "read"
  /\ UNCHANGED <<transport, line, rx, owed, sent, noisy, clean>>

\* FrameParser::reset between two calls of feed_bytes
ResetStream ==
  /\ noisy < MaxNoise /\ phase = "idle"
  /\ Reset
  /\ noisy' = noisy + 1 /\ clean' = FALSE
  /\ UNCHANGED <<transport, line, hostVars, sent, got>>

StreamNext ==
  \/ \E f \in SentFrames, src \in Nodes, cmd \in Commands : SendFrame(f, src, cmd)
  \/ \E b \in Noise : LineNoise(b)
  \/ PageFeeds \/ BeginPoll \/ ReadSome \/ ReadNothing \/ ReadFails \/ Deliver \/ ResetStream

StreamSpec == StreamInit /\ [][StreamNext]_streamVars

-----------------------------------------------------------------------------
(* As long as the noise contains no SYNC byte and the page does not fall     *)
(* behind by more than RX_CAP, every frame sent is returned, unchanged, in   *)
(* order and once - whatever payloads they carry, SYNC bytes included, and   *)
(* wherever reads, failed reads and the page cut the stream - and nothing    *)
(* else is.  After stray SYNC bytes, dropped bytes and resets this holds     *)
(* again as soon as the parser is hunting with nothing left to read.         *)
DeliversExactly ==
  clean =>
  /\ Consumed => got = sent
  /\ Len(got) <= Len(sent) /\ \A i \in DOMAIN got : got[i] = sent[i]

(* One poll takes everything the transport held when it began, however many  *)
(* buffers that fills, unless the port fails: no backlog builds up ("Drain   *)
(* everything available this cycle", client.rs).                             *)
PollDrains == phase = "idle" => owed = 0
=============================================================================
