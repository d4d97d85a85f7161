----------------------------- MODULE RingBuffer -----------------------------
(***************************************************************************)
(* The fixed-capacity ring buffer of runtime/src/storage.rs, as operators  *)
(* on a record with the fields of the Rust struct.  `buf` is indexed from  *)
(* 0 as in the source; a payload is an opaque value and Empty stands for   *)
(* the empty vector every slot starts with.                                *)
(***************************************************************************)
EXTENDS Integers, Sequences

CONSTANTS Payloads,     \* the payloads a DATA frame may carry
          Empty         \* Vec::new(), the content of a slot never written

\* The struct: `head` is the next slot to overwrite, `len` the entries held
RingOf(cap) ==
  [buf: [0..cap-1 -> Payloads \cup {Empty}], head: 0..cap-1, len: 0..cap,
   capacity: {cap}, seq: Nat]

\* RingBuffer::new (the assertion capacity > 0 is the caller's precondition)
NewRing(cap) ==
  [buf |-> [i \in 0..cap-1 |-> Empty], head |-> 0, len |-> 0,
   capacity |-> cap, seq |-> 0]

\* Fault: the head is not wrapped around
PushRingNoWrap(r, p) ==
  [buf |-> [r.buf EXCEPT ![r.head] = p],
   head |-> r.head + 1,
   len |-> IF r.len < r.capacity THEN r.len + 1 ELSE r.len,
   capacity |-> r.capacity,
   seq |-> r.seq + 1]

\* RingBuffer::push
PushRing(r, p) ==
  [buf |-> [r.buf EXCEPT ![r.head] = p],
   head |-> (r.head + 1) % r.capacity,
   len |-> IF r.len < r.capacity THEN r.len + 1 ELSE r.len,
   capacity |-> r.capacity,
   seq |-> r.seq + 1]

\* RingBuffer::latest; None is the empty sequence
Latest(r) ==
  IF r.len = 0 THEN <<>>
  ELSE << r.buf[IF r.head = 0 THEN r.capacity - 1 ELSE r.head - 1] >>

\* RingBuffer::read_all
ReadAll(r) ==
  LET start == IF r.len < r.capacity THEN 0 ELSE r.head
  IN  [i \in 1..r.len |-> r.buf[(start + (i - 1)) % r.capacity]]

\* Fault: reading starts one slot too late
ReadSinceOffByOne(r, since) ==
  IF r.len = 0 \/ since >= r.seq THEN <<>>
  ELSE LET count == IF r.seq - since < r.len THEN r.seq - since ELSE r.len
       IN  [i \in 1..count |-> r.buf[(r.head + r.capacity - count + i) % r.capacity]]

\* RingBuffer::read_since: the returned entries (the returned cursor is r.seq)
ReadSince(r, since) ==
  IF r.len = 0 \/ since >= r.seq THEN <<>>
  ELSE LET newCount == r.seq - since
           count == IF newCount < r.len THEN newCount ELSE r.len
           back(i) == count - (i - 1)
       IN  [i \in 1..count |->
              r.buf[IF r.head >= back(i) THEN r.head - back(i)
                    ELSE r.capacity - (back(i) - r.head)]]

\* RingBuffer::clear: every slot emptied, head, len and seq back to 0
ClearRing(r) == NewRing(r.capacity)

(***************************************************************************)
(* DataStore: a map from registered command IDs to ring buffers.           *)
(***************************************************************************)

\* DataStore::register: the buffer of a command already there is replaced
RegisterIn(b, c, cap) ==
  [x \in DOMAIN b \cup {c} |-> IF x = c THEN NewRing(cap) ELSE b[x]]

\* DataStore::store: no effect on a command without storage
StoreIn(b, c, p) ==
  IF c \in DOMAIN b THEN [b EXCEPT ![c] = PushRing(b[c], p)] ELSE b

\* Fault: the cursor is taken for the number of the first entry wanted
EntriesSinceOneLess(b, c, since) ==
  IF c \in DOMAIN b THEN ReadSince(b[c], since + 1) ELSE <<>>

\* DataStore::read_since, entries and returned cursor
EntriesSince(b, c, since) == IF c \in DOMAIN b THEN ReadSince(b[c], since) ELSE <<>>
SeqOf(b, c) == IF c \in DOMAIN b THEN b[c].seq ELSE 0

\* Fault: the counters go on after the contents are gone
ClearAllInCounting(b) ==
  [c \in DOMAIN b |-> [ClearRing(b[c]) EXCEPT !.seq = b[c].seq]]

\* DataStore::clear_all: registrations stay, contents and counters go
ClearAllIn(b) == [c \in DOMAIN b |-> ClearRing(b[c])]
=============================================================================
