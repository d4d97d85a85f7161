# ProtoEmb: a TLA+ verification of the protocol runtime

ProtoEmb generates matching codecs from one YAML schema and ships the runtimes
on both ends of the serial line: a request/reply client for the host
(`runtime/`), a frame parser (`framing/`), an NDJSON bridge process for desktop
applications, and a byte-fed C runtime for the device
(`core/templates/protocol_runtime.*.j2`). This directory models the parts that
keep state and react to events, and the compiler with the codecs it generates,
checks them with TLC on small instances, and proves the most important results
with TLAPS for all parameter values.

`PROJECT.json` is the machine-readable side: the map from definitions to source
lines, the runs, a mutant for each checked property, the findings, the hazards
and the theorems.

## 1. Inventory

| Component | Source | State it keeps | Operations | Talks to |
|---|---|---|---|---|
| Ring-buffer storage | `runtime/src/storage.rs` | per command: slots, `head`, `len`, `seq` | `register`, `store`, `latest`, `read_all`, `read_since`, `clear_all` | called by the client and, for reads, by the host |
| Priority queue | `runtime/src/queue.rs` | two FIFO levels of messages | `push` with coalescing, `pop`, `clear` | the client |
| Client | `runtime/src/client.rs` | queue, the one pending request, periodic entries, data store, parser | `read`, `write`, `query`, `register_periodic…`, `unregister_periodic`, `clear_queue`, `poll` | a `Transport` below, host code above |
| Transports | `runtime/src/transport.rs` | an open port | `read` (may wait), `write_all` (in pieces on a PTY) | the operating system |
| Framing | `framing/src/lib.rs` | parser state, partial header and payload | `feed`, `feed_bytes`, `reset`, `source`; `build_read_frame`, `build_write_frame`, `crc8` | fed by the client |
| Stdio bridge | `runtime/src/bridge.rs` | `Option<Client>`, stdin thread, channel | one branch per NDJSON request, `poll`, `emit` | stdin, stdout, the client |
| Browser client | `runtime/src/wasm.rs` | a client over two byte buffers, the receiving one bounded | `feed_bytes`, `take_outgoing`, pass-through calls | JavaScript |
| Device runtime | `core/templates/protocol_runtime.{c,h}.j2` | parser state, payload array, start time | `feedByte`, `tick`, `sendNotification…` | application callbacks, `sendBytes`, clock |
| Schema compiler | `core/generate.py` | none between runs | validation, layout, rendering | files |
| Generated codecs | `core/templates/protocol.*.j2` | none | encode, decode | applications |

What is hard here, and why tests hardly reach it:

* **Time against the line.** `poll` reads, then checks the timeout, then
  sends. A reply can arrive between any two of these; frames carry no request
  identity, so a late reply can complete the wrong request. Whether it does
  depends on timeouts, latency and the gap inside a poll together.
* **One request in flight.** A silent device must not block the queue; a failed
  write may or may not have reached the device.
* **Schedules and limits.** Periodic reads are produced on a grid while the line
  may stall; rings wrap under readers whose cursors move independently and whose
  rings may be replaced.
* **Byte streams without escaping.** SYNC occurs in payloads; after noise or a
  truncated frame the parser may start anywhere, and both parsers reuse buffers.
* **Two parsers on one line.** The device gives up on a half-received request by
  its own clock, the host on the reply by its own; a resend meets whatever state
  the device is in. Writes go out in pieces, `sendBytes` may stop half-way, either
  end may restart with bytes still on the line.
* **Two threads and a process boundary** in the bridge: stdin may close, stdout
  may break, connect may replace a client with requests outstanding.
* **Wrap-around** of the device's 32-bit millisecond clock.
* **Three codecs by hand.** C, Rust and TypeScript each have their own copies of
  the same conversions, one per place a field can stand in; an error shows for
  one combination of type, scale, minimum, encoding and languages only.

For each component, what makes it correct:

* storage: the read paths agree, a cursor reader misses nothing still retained;
* queue and client: each request ends exactly once, coalescing bounds the
  backlog, a reply completes its own request, DATA is stored once, nothing waits
  for ever;
* periodic reads: the rate holds from above and below, no bursts;
* host parser: returned frames were really received, hunting is bounded, frames
  on a line without stray SYNC bytes are all delivered;
* device: handlers see only verified payloads, each request gets one reply, and
  half-received requests time out;
* host and device together: handlers run what was sent, a request given up leaves
  nothing behind that could spoil the next, an answer arrives unless there was a
  fault;
* bridge: events belong to the connection they are reported on, each line is
  dealt with, quit ends the process;
* compiler and codecs: types are emitted in order of need, encoders stay in their
  buffers and agree, a reply finds its message, a value survives from any
  language to any other.

## 2. Modules and how they correspond to the code

| Module | Models | Notes |
|---|---|---|
| `RingBuffer` | `RingBuffer`, `DataStore` as operators on records with the Rust fields | no state of its own; used by `DataStore` and `Client` |
| `SampleLog` | abstract specification: the last `limit` payloads per command and a running total | no rings, no indices |
| `DataStore` | the store and one cursor-following reader per command | refines `SampleLog` (`ImplementsSampleLog`) |
| `PriorityQueue` | `push`, `pop`, `is_empty` | operators |
| `Periodic` | due-time arithmetic of `enqueue_periodic_at` | operators |
| `PeriodicSchedule` | one registration under arbitrary polling | history counts reads against intervals |
| `RequestLedger` | abstract specification: what the client promises for each request, numbered in the order of acceptance | implemented by `Client` and by `Bridge` (`ImplementsLedger` in each) |
| `Client` | every host call and `poll()`, against device, link and clock | composes `PriorityQueue`, `Periodic`, `RingBuffer`; refines `RequestLedger` |
| `FrameParser` | `FrameParser::feed` by parser state, `reset` | `crc8` is a parameter |
| `FrameStream` | a sending device, line noise, `Transport::read` of the ports and of the browser, the read loop of `poll()` and the parser | composes `FrameParser` with the frame format of the device's `sendFrame` |
| `Crc8` | `crc8` of both ends, with the width as a parameter | operators; only the instance of `SerialLink` uses it |
| `DeviceRuntime` | `Runtime_feedByte` by state, dispatch, dispositions, `sendFrame`, `tick` | handlers, `sendBytes`, clock are nondeterministic |
| `SerialLink` | one exchange after the other down to the bytes: builders, `write_all`, line, device, host parser, reply matching, timeout | composes `DeviceRuntime` (extended) and `FrameParser` (instance `H`) |
| `Bridge` | stdin thread, channel, main loop, each request branch | the client is abstracted to its promise; refines `RequestLedger` |
| `MessageTables` | `generate.py`: frame kinds and tables of messages, how dispatcher and `decode_data` search them, their validation | operators; without recursion, so that proofs can use it |
| `Schema` | `generate.py`: widths, layout, type order, validation | operators on a schema record; extends `MessageTables` |
| `Codec` | the encoders and decoders of the C, Rust and TypeScript templates | operators; a wire image is the set of its 1 bits |
| `Toolchain` | compile a schema, encode a reply in one language, find its message and decode it in another | composes `Schema` and `Codec` |
| `DataStoreProofs`, `PeriodicScheduleProofs`, `ClientProofs`, `FrameParserProofs`, `FrameStreamProofs`, `SerialLinkProofs`, `BridgeProofs` | theorems about the module they are named after; `SerialLinkProofs` has those about `DeviceRuntime` and `MessageTables` too | TLAPS; `FrameStreamProofs` extends and `SerialLinkProofs` instantiates `FrameParserProofs` |
| `CommonLemmas` | facts the proofs share: sequences, a length in two bytes, the least number of a set and induction stated with sets | TLAPS |
| `MC…` | instances for TLC | stand-in checksum, message tables, model values |

Conventions. An `Option` is a set or sequence with at most one element. State
named as in the source keeps its name. Variables marked *history* do not exist
in the code and never influence it; they let properties speak about earlier
events. Operators commented `Fault:` are plausible wrong versions of the operator
below them. No specification uses them; they exist to show that each property can
fail.

**Client.** Host calls happen between two polls, as `&mut self` enforces. A poll
is cut at the points where the world can change something it looks at: each
`Transport::read`, each frame handled, the timeout check, each periodic entry,
the send. Requests carry an identity the code does not have; it travels as the
payload of the reply, so `OwnReply` can tell whose reply completed a request.
The clock advances while the host sleeps, waits in `read`, between read and
timeout check (at most `MaxGap`) and before the send. The link keeps order;
it answers or loses each request within `MaxLatency`. `Faults` selects errors of
the transport: a read error, a write error before or after the bytes went out
(`write_all` flushes after writing).

**DeviceRuntime.** The message tables `Reads` and `Writes` stand for what the
template unrolls from the schema: each command's form (struct, bool, none, raw),
the wire size of a response struct, and semantics (write or query). Nothing compares
that size with `RUNTIME_MAX_PAYLOAD`: a struct above it fails in `sendFrame`, and the
read is answered with neither DATA nor NACK. A reply is its kind, command and whether it went
out whole: `sendFrame` sends long frames in up to three `sendBytes` and stops at
the first that fails.

**FrameStream.** The read path from the line to the frames. A port returns what has
arrived, up to `READ_BUF_SIZE`, or nothing, or an error; the browser's page moves
bytes into the bounded `rx`, which drops its oldest beyond `RX_CAP`. `poll()` reads
again after a full buffer and stops after a short one. The histories start afresh
whenever everything has been read and the parser hunts for SYNC, so a run of any
number of frames is covered, and recovery after noise as well.

**SerialLink.** `transport` chooses between a port, whose `write_all` puts the frame
on the line in pieces while there is room, may fail at any point and keeps the
client from reading meanwhile, and the browser's buffer, which the page takes as a
whole some time later. What a serial port does is among what a PTY does: its
`flush` only delays the return. The device is `DeviceRuntime` unchanged, except
that a reply now has bytes: all of them, or, when `sendBytes` fails, what the
earlier calls had sent. `quiet` and `rested` remember in which state an exchange
began, so the properties can say what a fault in one exchange does to the next;
`faults` remembers what the faults of this exchange touched, the bytes towards the
device or those back.

The line may lose everything under way in one direction, the rest of a frame that
is being received included, and damage one byte the checksum covers. It does not
lose single bytes from the middle and does not damage headers: the checksum
covers the payload only (`framing/src/lib.rs:136`), so that a damaged command byte
runs another handler, and no property of this format could exclude it.

`LinkTimesAssumption` is what the timing properties rest on: a frame arrives within
the device's partial-frame timeout (which counts from its SYNC byte, not from the
latest byte: `protocol_runtime.c.j2:429`), and latency, partial-frame timeout and
tick period *together* stay below the response timeout. `client.rs:412-413` asks
for a response timeout above each of them; with less than the sum a resend can find
the parser inside the lost frame. `LinkSizesAssumption` says that the device's payload
limit is not above the host's; nothing in the code sees to it (section 3).
`ChecksumAssumption` is all that is asked of the checksum: it is a byte, and one
changed byte of a request changes it.

**Bridge.** A line is its kind. The client is reduced to a set of open requests
that polls may end; that each one does end is the property `EveryRequestEnds` of
`Client`, used here as fairness of `PollEnds`. That it ends once, and that a push
replaces at most one, is what `RequestLedger` says of both: `Client` maps queued
and sent requests to open ones, `Bridge` the lines that became requests.

**Schema, Codec, Toolchain.** A schema is what the YAML says, with limits in wire
steps so that fractions are integers. `BYTE` is the number of bits in a byte: the
run uses four, so that an `int8` holds -8..7 and every value of a field can be
tried. Values are what the application means, the same for every language; what a
language keeps in memory (whole units, raw steps, the index or the value of an
enum) is part of its conversions. Each definition of `Codec` stands for the
corresponding lines of all three templates, although the map can name only one
place; the struct code that the templates repeat for plain, nested and helper
functions is one definition, with the parameter `plain` where the copies differ.
A float is counted in parts of a step, `FINE` of them to one, because what an
application holds in an `f32` hardly ever lies on a step: C and Rust cut the rest off,
TypeScript rounds (`StepOfFloat`). `EncodesAlike` in `Toolchain` names, for two
languages, the fields they are known to encode differently, `Sound` the combinations of
sender and receiver in which the generated code is known to lose values; `SameWire` and
`ValueSurvives` speak of all others. `ValueSurvives` asks that a value comes out as it
went in (`Agree`), and of a float that the step that comes out is the one at or below
it (from C and Rust) or one nearest to it (from TypeScript).

## 3. Runs

| Run | Bounds | Checks |
|---|---|---|
| `data_store` | capacities 1–3, 5 stores per ring, 2 payloads | `TypeOK`, `ReadsAgree`, `NoGapWhileRegistered`, `ImplementsSampleLog` |
| `client` | 2 requests on 2 commands, 1 notification, timeout 3, latency 1, gap 1, write errors | `OwnReply`, `OneInFlight`, `NoTimeoutOverReply`, `EveryRequestEnds` |
| `client_faults` | host calls while fewer than 2 requests exist, a key, periodic reads with interval 1, timeouts 1 and 2, latency 2, all faults | `TypeOK`, `Accounting`, `OnePerKeyAndLevel`, `ImplementsLedger`, `DataStoredOnce` |
| `periodic_schedule` | intervals 1–3, time 10 | `TypeOK`, `RateNeverExceeded`, `NoDrift`, `NoBurst` |
| `frame_stream` | 5 byte values, payloads up to the limit of 2, both transports, reads of up to 4 bytes, `RX_CAP` 12; between two fresh starts 2 frames and 1 noise byte or reset | `TypeOK`, `FramesAreReceived`, `BoundedHunt`, `DeliversExactly`, `PollDrains` |
| `serial_link` | 8 byte values with a 3-bit CRC, payload limit 2, a read, a write, a query and an over-long write, both transports, a line that holds 2 bytes, timeout 1, latency 1, response timeout 4, clock modulo 3; 2 exchanges, 1 fault or notification | `HandlersRunWhatWasSent`, `ResendFindsResetParser`, `AnswerArrives` |
| `device_runtime` | 5 byte values, payload limit 2, a response struct above it, clock modulo 3; streams of any length | `TypeOK`, `HandlersSeeTheFrame`, `OneReplyPerRequest`, `StaleRequestDropped`, `AnswersEveryRequest` |
| `bridge` | 3 lines of 11 kinds, 1 unsolicited event | `TypeOK`, `ImplementsLedger`, `EventsBelongToConnection`, `EveryLineEnds`, `QuitEnds` |
| `data_store_reset` | 3 stores per ring | refutes `NoGapEver` |
| `toolchain` | bytes of 4 bits; floats in quarters of a step; about 3000 schemas: each sort of field alone, optional and in arrays of 2, packed and aligned; nested structs and unions; every reference graph of 3 types; every pair of message forms; all values, senders and receivers | `DependencyOrder`, `WithinBuffer`, `SameWire`, `RightMessage`, `ValueSurvives` |
| `bridge_stdin` | one line | refutes `ExitsWhenStdinCloses` |
| `toolchain_aligned_enum` | one schema | refutes `EveryValueSurvives` |

Why these bounds suffice to show the interesting cases: five stores wrap a ring
of three and pass a lagging cursor; two requests are what a late reply needs to
be taken for the wrong one, and a latency beyond the timeout makes it late;
interval 1 against a latency of 2 makes periodic reads pile up if they were not
coalesced; with time 10 an interval of 3 sees several grid points and a stall
longer than two intervals; one noise byte that is SYNC makes a bogus header of the
frame that follows; two frames overflow a buffer of 12, and a frame of 6 to 8 bytes
needs more than one read of 4; in `serial_link` the fault of one exchange meets the
next one, a line of 2 bytes makes every write take several pieces, and the
device's clock starts just before it wraps around; five byte values give each of the four frame types, SYNC and a
length above the limit; three lines are connect, request and any third event.
Field widths of one to eight bits behind a one-bit neighbour cross byte
boundaries at every offset that matters; enums of three, five and six variants
leave unused codes and select both remap tables; three types form every kind of
chain, diamond and cycle; command numbers collide with two messages.
The device's parser has finitely many states for a given alphabet, so its run
covers byte streams of any length.

`CHECK_DEADLOCK FALSE` appears only where the system may stop: the bridge ends,
the frame stream is over when its bounded input is used up, and the toolchain
when the reply is decoded.

### Fairness

* `Client`: the host keeps polling (`WF` of the poll steps, the documented use
  of `poll`), time passes (`SF` of `Tick`), and a request on the line is answered
  or lost. Nothing obliges the device to answer: `EveryRequestEnds` rests on the
  timeout alone.
* `Bridge`: both threads run; a polled client ends its requests.

### Findings

Each `violation` run states a sentence of the repository and shows a behaviour
of the code against it:

1. `data_store_reset`: re-registration and `clear_all` restart `seq` below a
   reader's cursor; the reader then skips entries, although it follows the
   cursor protocol of `storage.rs:94-97`.
2. `bridge_stdin`: the bridge runs on after stdin is closed (`bridge.rs:165` says
   it exits).
3. `toolchain_aligned_enum`: in an aligned struct Rust writes the index of a remap
   enum, C and TypeScript its value; the repository's `README.md:7-9` promises
   matching code and the same bytes from every target.

Observed while modelling, without a run of their own: the crate overview
promises "timeout + retry logic" (`runtime/src/lib.rs:20`), but a timed-out
request is never resent; the comment at `client.rs:212-213` calls reads
non-blocking, but both native transports wait for data; `queue.rs:45-46` says one
message per key in the queue, but coalescing works per priority level
(`OnePerKeyAndLevel` states what holds); a query handler that reports more than
the maximum payload gets no reply at all, not even a NACK, nor does the READ of a
struct whose wire size is above it (`protocol_runtime.c.j2:173`); one stray SYNC byte
before a frame costs that frame, although the test comment
`framing/src/lib.rs:575-576` says the parser always resynchronises onto it
(`DeliversExactly` states what holds); `source()` changes with the address byte of
the next frame, not with the next parsed frame (`framing/src/lib.rs:220`); a
`register_periodic` line with `storage_count: 0` fails the assertion of
`RingBuffer::new` and ends the bridge (`EveryLineEnds` names this end); lines that
arrive without a pause keep the bridge from polling, although `bridge.rs:162-163`
says it polls between reads; a payload above the device's limit is sent all the
same, rejected by its length, and its bytes are then scanned for new frames, and a
length above 65535 is cut to 16 bits (`framing/src/lib.rs:114`); bytes dropped
beyond `RX_CAP` can cost more than the partial frame `wasm.rs:124` speaks of, since
the parser goes on with an old header and takes what follows for its payload; the
host parser has no partial-frame timeout, so the rest of a truncated reply is taken
from the frames that follow, and if the checksum happens to agree the mixture
completes the request (with two faults allowed TLC finds a reply cut short by
`sendBytes` and filled up by a notification; `AnswerArrives` states what holds); the
device's payload limit can be set in the schema (`generate.py:521`) above the 4096
that the host's parser accepts (`framing/src/lib.rs:17`), whose frames it then drops;
a periodic message with `command_frame: write` has not the semantic `query`
(`generate.py:480-481`), so that the device acknowledges it and never sends its
response; the PTY's `write_all` waits for ever while the line is
full; `Transport::close` does not make a serial port's later reads fail
(`transport.rs:36`, `:92-97`).

Further disagreements in the generated code, all left out by `Sound` or `EncodesAlike`.
First, of a float between two steps C and Rust send the lower step
(`protocol.c.j2:68`, `:250`, `protocol.rs.j2:23`), TypeScript the nearest
(`protocol.ts.j2:28-29`): although `README.md:8-9` says the wire format is the same byte
for byte, the bytes differ for every float in the upper half of a step. With `min`
-10 and `scale` 1000 the `f32` nearest to -9.998 goes out as step 1 from C and Rust and
as 2 from TypeScript, and Rust reads its own frame back as -9.999. Without that clause
of `EncodesAlike` TLC refutes `SameWire`; with it `SameWire` still covers floats between
C and Rust, where their minimum is whole. Then, for a plain unsigned field with a scale and a minimum the generated Rust reads
`w / scale.wrapping_add(min)`, which divides by the sum (`protocol.rs.j2:550`);
validation compares a range with the width of the whole field, flag and array elements
included (`generate.py:693`), and limits with the type in units, although `raw_storage`
and aligned fields hold steps; Rust and TypeScript do not restore the sign of a packed
signed field without a minimum, nor does C for a raw one; C and Rust truncate the
minimum of an integer field to a whole unit and TypeScript does not; C truncates that
of a float too and divides floats as integers. A string in a packed struct and a float
in an aligned one pass validation, but the code generated for them does not
compile.

## 4. Proofs

**`DataStoreProofs`** (from `CapacitiesAssumption`: capacities are positive).
`TypeCorrect`, `ReadsAlwaysAgree`, `NoGap` and `Refinement` hold for every set of
commands, payloads and capacities. None is inductive alone. The invariant `Inv`
has three parts: every ring is well formed, with `len = min(seq, capacity)` and
payloads in the occupied slots (`RingsOK`); the reader's variables are typed
(`ReaderOK`); and, unless the ring was reset, `unread` is `seq - cursor` long and
agrees with the newest slots (`UnreadOK`). The central lemma writes the slot of
the k-th newest entry as one function `Slot(r, k)`, shows that `latest`,
`read_all` and `read_since` all read through it, and that a push moves each entry
from k to k + 1 (`PushSlots`). `Refinement` follows action by action.

**`PeriodicScheduleProofs`** (from `IntervalsAssumption`: intervals are positive).
`TypeCorrect`, `RateBound`, `DriftFree` and `BurstFree` hold for every interval and
every polling pattern. The inductive invariant `Grid` says that after `count` reads
the due time is at least `first + count * interval`, lies after the latest poll by
at most one interval, and equals that grid point while polling was steady.

**`ClientProofs`**, what holds on any link (from `TimesAssumption`,
`CapacitiesAssumption`, `FaultsAssumption`, `BoundsAssumption`: times are natural
numbers, capacities positive, the bounds finite). `TypeCorrect`, `NoBacklog`,
`NothingLostOrDuplicated`, `KeepsTheLedger` and `StoresDataOnce` hold for every set
of commands, keys, intervals, timeouts and capacities, with every fault of the
transport and any number of calls. `Accounting` counts requests and is not inductive:
a count does not say which request a pop removes. The invariant says where each
request is: one with fate `queued` is in exactly one place of one level (`Queueing`),
one with fate `sent` is the pending one (`InFlight`), and frames are left to handle
exactly while `poll` handles frames (`Reading`). The lemmas about `PriorityQueue`
say what `push` with coalescing and `pop` do to the places. `KeepsTheLedger` maps
`queued` and `sent` to open; each step is one of the ledger's or invisible there.

**`ClientProofs`**, stop-and-wait. A reply carries no identity, so that it ends its
own request is a matter of time and order. `RepliesAreOwn` and `OneRequestOnTheLine`
hold for all commands, latencies and numbers of calls under two conditions on the
constants, both met by the `client` run and both needed: every timeout exceeds
`MaxLatency + MaxGap` (`TimeoutsOutlastTheLine`), and the transport reports no error
for a read that left input behind or for a request it has sent (`CleanTransport`);
with a timeout of exactly `MaxLatency + MaxGap`, or with either of these errors, TLC
finds a reply that ends the wrong request. The
invariant has three parts: what the timeout check has not seen arrived after the
poll's last read (`Drained`); the pending request, or its only reply, or nothing of
it is on the line, and no other exchange (`Line`); the pending request waits long
enough (`Patience`). `DrainsBeforeTimeout` needs only `Drained`, and hence only that
reads do not fail, whatever the timeouts.

**`FrameParserProofs`** (from the assumptions of `FrameParser`: SYNC is a byte,
the payload limit is positive and fits two bytes). `TypeCorrect`,
`OnlyReceivedFrames` and `HuntIsBounded` hold for every alphabet, limit and
checksum, in both addressing modes and for every byte stream with resets at any
point. `FramesAreReceived` alone is not inductive, because it says nothing while
a frame is under way. The invariant `Progress` says for each parser state which
bytes have been received since SYNC: address, type, command, the length split
into its two bytes, the payload so far. That a length is recovered from its two
bytes (`TwoBytes`) is the one arithmetic fact needed.

**`FrameStreamProofs`** (from the assumptions of `FrameParser` and `FrameStream`:
payloads are byte sequences within the limit, the alphabet holds the four frame
types, checksums are bytes, buffers are not empty). `FramesArriveExactly` and
`PollTakesEverything` hold for every alphabet, checksum, limit and buffer size, any
number of frames, and every way in which reads, failed reads and the page cut the
stream. The invariant `Plan` places each frame sent and not yet returned in the bytes
the host has still to parse, its partial frame included: the frames stand in order
without overlap, every SYNC byte lies within one of them, and a parser that is in a
frame is in the first. So one byte fed moves the parser along that frame's bytes,
whatever they are, SYNC included, or over a byte between frames that is not SYNC.
`Polling` says that a poll in progress still owes at most what the transport holds.
`ParserInTheStream` shows that the stream moves the parser by `FrameParser`'s steps,
which carries the theorems of `FrameParserProofs` over.

**`SerialLinkProofs`**, the device alone (from the assumptions of `DeviceRuntime`: the
clock holds `TIMEOUT_MS + TickPeriod`, message tables give each command a form). `TypeCorrect`,
`HandlersSeeOnlyTheFrame`, `OnlyRequestsAreAnswered`, `EveryRequestIsAnswered` and
`NoStaleRequest` hold for every message table, payload limit, checksum, clock width
and byte stream, whatever handlers and `sendBytes` do. The invariant `Progress` says
per parser state what the bytes since SYNC are, with the payload array for those of
the payload: the array is reused and keeps the bytes of earlier requests, so only
its first `payloadIndex` places count. `Timing` says that the wrapped clock is the
start time plus the true age, at most one wrap apart; from it the unsigned
difference in `Runtime_tick` is the age.

**`SerialLinkProofs`**, host and device together (from the assumptions of `SerialLink`
above as well). `HandlersRunOnlyWhatWasSent`, `ResendIsSafe` and
`OnlyTheAnswerCompletes` hold for every set of requests and answers, every checksum
that notices one changed byte, every latency, timeout and tick period within
`LinkTimesAssumption`, any line capacity, and any number of exchanges,
notifications, faults and restarts; the run has two exchanges and one upset. None
of the three follows from the state it speaks about: each needs to know which bytes
are still to come. The inductive invariant `LinkInv` has seven parts:

* `Inv` of the device and `HP!Inv` of the host's parser, each carried over because a
  step of the link is a step of the part or leaves it alone (`LinkRunsTheDevice`,
  `LinkRunsTheParser`);
* `LinkType`, the types of what the link adds;
* `Times`: a client that waits has waited no longer than the bytes it sent are under
  way, and, while the device is inside a frame, no longer than that frame's age plus
  the latency; and while bytes of a request are still coming, the device's partial
  frame is no older than the send. The first two give `ResendIsSafe`, together with
  the device's `Timing`; the third keeps `Runtime_tick` from dropping a frame whose
  bytes are still arriving, after which its payload would be scanned for SYNC;
* `RequestOnTheWay`: in an exchange with a quiet device, what the device has of a
  frame, what is on the line and what is unsent make up, in this order, a beginning
  of the request's frame or of one of its damaged variants, and the device has not
  answered yet; or nothing is left to come. So every byte fed moves the parser along
  one known frame (`RequestRead`), and a handler runs only at the end of the
  undamaged one, since the damaged ones fail the checksum;
* `ReplyOnTheWay`: on a link at rest whose reply bytes no fault has touched, what the
  host has of a frame and what is on the line are the answer, a notification, or a
  notification and then the answer;
* `NothingMissing`: without any fault the whole request or its answer is under way
  while the client waits, and the client has waited no longer than the line takes,
  which excludes the timeout.

The lemmas about how a frame spells its bytes and how the parser moves along them
(`EncodeFacts`, `SpanFacts`, `Follows` in `FrameParserProofs`) serve the read path of
`FrameStreamProofs` and the replies here. TLC checked `LinkInv` before the proof:
completely for one upset, and for two and three as far as it got.

**`SerialLinkProofs`**, the tables. `ReplyFindsItsMessage` says for every schema that
passes the validation of messages what `RightMessage` checks on the schemas of the
run: a command leads the dispatcher to its message and `decode_data` back to it.

**`BridgeProofs`** (from `BridgeBoundsAssumption`). `TypeCorrect`, `KeepsTheLedger`
and `OnlyOwnEvents` hold for every sequence of lines and any number of events. The
invariant says that the channel holds the lines read and not yet handled, in order
(`Queue`); that the one client there may be has exactly the lines with fate `open`,
all of them later than every handled connect and disconnect, and that stdout tells
of it (`Connection`); and the same of what the latest poll wrote (`Reported`).

The numbers of the ledger are what lets both mappings be proved: `Bridge` skips the
lines that are no requests, and closing the gaps (a subsequence of the lines) would
take an induction over sequences.

What stays with TLC: `EveryRequestEnds`, `EveryLineEnds` and `QuitEnds`, because
liveness under fairness is out of the prover's reach; and the invariants of
`Toolchain`. `Visit`, `Encode`, `Decode` and `Values` recurse over the types of a
schema, and what they compute for every schema would take an induction over that
recursion, which the prover cannot do (in a module with such operators it has no
arithmetic either). Of these invariants only the content of `RightMessage`, which
needs no recursion, is proved. That every exchange ends is checked on `Client` only;
on the bytes of `SerialLink` the same question takes ten times the states and no new
cause of waiting comes in.

## 5. Not modelled, and abstractions to know about

* Of the compiler, names, nodes, runtime settings and the rendering of text are not
  modelled, nor are 64-bit types and ranges beyond 32 bits; of the codecs, what
  decoders make of damaged payloads (a checksum protects them). Scales are whole
  numbers. Of floating-point arithmetic the offset from a step before the conversion is
  modelled, the much smaller rounding of what a decoder computes is not.
* The Cargo helper and the bridge's `main` are not modelled.
* Of the transports, system calls and the `serialport` crate are represented by
  their results: bytes taken or returned, nothing, an error. `close` and
  `set_read_timeout` are not modelled, because nothing in the runtime calls them.
* Of the browser client, the conversion to JavaScript values is not modelled.
* The addressed builders are not called by anything in the repository; addressed
  frames are modelled on the receiving side.
* `seq` (`u64`) is a natural number: it does not overflow in practice.
* An interval of 0 is excluded from `PeriodicSchedule` (every poll would be due);
  `Client` does not exclude it.
* Payload contents and event texts are abstracted; `crc8` is any function in the
  specifications. `serial_link` uses the code's algorithm at three bits, and TLC
  evaluates it at eight bits on known values and on all single bytes
  (`ChecksumVectors`); the other runs use a stand-in.
* A payload length that wraps at two bytes is part of `BuildWriteFrame`, but with
  eight byte values it takes 64 bytes, beyond what the run can hold; the proofs
  about `SerialLink` include it.

## 6. Plan

Done: storage, queue, client, periodic schedule, host parser, read path with the
browser's bounded buffer, device runtime, bridge, and host and device on one byte
line, each with proofs of its safety properties and of the abstract specification it
implements; compiler and codecs, model-checked. What would come next:

1. For the codecs: that packing and unpacking a word at any offset are inverse, and
   the round trip of one number field, in a module without recursion.
2. The order of types as a step-by-step machine with its own stack, for which
   `DependencyOrder` could be proved.
3. Bridge under an unbounded stream of lines: the drain loop can starve the poll.
