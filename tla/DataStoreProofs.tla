--------------------------- MODULE DataStoreProofs ---------------------------
(***************************************************************************)
(* Proofs about DataStore for every set of commands, payloads and ring     *)
(* capacities: the rings are consistent, the three read operations agree,  *)
(* a reader of an unreset ring misses nothing, and the rings implement the *)
(* abstract log.  Everything rests on RingOK, which ties `head`, `len` and *)
(* `seq` together: a ring that is not full was filled from slot 0 up.      *)
(***************************************************************************)
EXTENDS DataStore, TLAPS

Caps == Nat \ {0}

\* The inductive strengthening of "r is a ring of capacity cap"
RingOK(r, cap) ==
  /\ r \in RingOf(cap)
  /\ r.len <= r.seq
  /\ r.len < cap => r.head = r.len /\ r.seq = r.len
  /\ \A i \in 0..(r.len - 1) : r.buf[i] \in Payloads

\* The slot of the k-th newest entry
Slot(r, k) == IF r.head >= k THEN r.head - k ELSE r.capacity - (k - r.head)

-----------------------------------------------------------------------------
(* One subtraction replaces the remainder when the dividend is below 2n.     *)
LEMMA ModOnce ==
  ASSUME NEW a \in Int, NEW n \in Nat \ {0}, 0 <= a, a < 2 * n
  PROVE  a % n = IF a < n THEN a ELSE a - n
  OBVIOUS

(* A function on 1..n is a sequence of length n.                             *)
LEMMA LenFcn ==
  ASSUME NEW n \in Nat, NEW S, NEW f \in [1..n -> S]
  PROVE  f \in Seq(S) /\ Len(f) = n
  OBVIOUS

(* Sequences with the same length and elements are equal.                    *)
LEMMA SeqEq ==
  ASSUME NEW S, NEW s \in Seq(S), NEW t \in Seq(S), Len(s) = Len(t),
         \A i \in 1..Len(s) : s[i] = t[i]
  PROVE  s = t
  OBVIOUS

(* What Append yields, element by element.                                   *)
LEMMA AppendAt ==
  ASSUME NEW S, NEW s \in Seq(S), NEW e \in S
  PROVE  /\ Append(s, e) \in Seq(S) /\ Len(Append(s, e)) = Len(s) + 1
         /\ \A i \in 1..Len(s) : Append(s, e)[i] = s[i]
         /\ Append(s, e)[Len(s) + 1] = e
  OBVIOUS

(* RingBuffer::new establishes RingOK.                                       *)
LEMMA NewRingOK ==
  ASSUME NEW cap \in Caps
  PROVE  RingOK(NewRing(cap), cap)
  BY DEF RingOK, NewRing, RingOf, Caps

(* RingBuffer::clear preserves it.                                           *)
LEMMA ClearRingOK ==
  ASSUME NEW cap \in Caps, NEW r, RingOK(r, cap)
  PROVE  RingOK(ClearRing(r), cap)
  BY NewRingOK DEF RingOK, ClearRing, RingOf

(* The types of the fields of a ring.                                        *)
LEMMA RingFields ==
  ASSUME NEW cap \in Caps, NEW r, RingOK(r, cap)
  PROVE  /\ r.buf \in [0..cap-1 -> Payloads \cup {Empty}]
         /\ r.head \in 0..cap-1 /\ r.head \in Int
         /\ r.len \in 0..cap /\ r.len \in Nat
         /\ r.capacity = cap /\ cap \in Nat /\ cap > 0
         /\ r.seq \in Nat
  BY DEF RingOK, RingOf, Caps

(* The fields after a push, the remainder resolved.                          *)
LEMMA PushFields ==
  ASSUME NEW cap \in Caps, NEW r, RingOK(r, cap), NEW p
  PROVE  /\ PushRing(r, p).buf = [r.buf EXCEPT ![r.head] = p]
         /\ PushRing(r, p).head = IF r.head + 1 < cap THEN r.head + 1 ELSE 0
         /\ PushRing(r, p).len = IF r.len < cap THEN r.len + 1 ELSE cap
         /\ PushRing(r, p).capacity = cap
         /\ PushRing(r, p).seq = r.seq + 1
  <1>1. r.head \in 0..cap-1 /\ r.len \in 0..cap /\ r.capacity = cap /\ cap \in Nat /\ cap > 0
    BY RingFields
  <1>2. r.head + 1 \in Int /\ 0 <= r.head + 1 /\ r.head + 1 < 2 * cap /\ cap \in Nat \ {0}
    BY <1>1
  <1>3. (r.head + 1) % cap = IF r.head + 1 < cap THEN r.head + 1 ELSE r.head + 1 - cap
    <2>1. PICK a \in Int : a = r.head + 1
      BY <1>2
    <2>2. a % cap = IF a < cap THEN a ELSE a - cap
      BY <1>2, <2>1
    <2>. QED
      BY <1>1, <2>1, <2>2
  <1>4. (r.head + 1) % cap = IF r.head + 1 < cap THEN r.head + 1 ELSE 0
    BY <1>1, <1>3
  <1>. QED
    BY <1>1, <1>4 DEF PushRing

(* RingBuffer::push preserves it, whether or not the ring wraps.             *)
LEMMA PushRingOK ==
  ASSUME NEW cap \in Caps, NEW r, RingOK(r, cap), NEW p \in Payloads
  PROVE  RingOK(PushRing(r, p), cap)
  <1> DEFINE q == PushRing(r, p)
  <1>1. /\ r.buf \in [0..cap-1 -> Payloads \cup {Empty}]
        /\ r.head \in 0..cap-1 /\ r.len \in 0..cap /\ cap \in Nat /\ cap > 0 /\ r.seq \in Nat
    BY RingFields
  <1>2. /\ q.buf = [r.buf EXCEPT ![r.head] = p]
        /\ q.head = IF r.head + 1 < cap THEN r.head + 1 ELSE 0
        /\ q.len = IF r.len < cap THEN r.len + 1 ELSE cap
        /\ q.capacity = cap /\ q.seq = r.seq + 1
    BY PushFields
  <1>3. /\ q.buf \in [0..cap-1 -> Payloads \cup {Empty}]
        /\ q.head \in 0..cap-1 /\ q.len \in 0..cap /\ q.seq \in Nat
    BY <1>1, <1>2
  <1>4. q = [buf |-> q.buf, head |-> q.head, len |-> q.len, capacity |-> q.capacity, seq |-> q.seq]
    BY DEF PushRing
  <1>5. q \in RingOf(cap)
    BY <1>2, <1>3, <1>4 DEF RingOf
  <1>6. q.len <= q.seq /\ (q.len < cap => q.head = q.len /\ q.seq = q.len)
    BY <1>1, <1>2 DEF RingOK
  <1>7. \A i \in 0..(q.len - 1) : q.buf[i] \in Payloads
    BY <1>1, <1>2 DEF RingOK
  <1>. QED
    BY <1>5, <1>6, <1>7 DEF RingOK

(* read_all walks the ring from the oldest entry: its i-th element is the    *)
(* (len - i + 1)-th newest, and never an unused slot.                        *)
LEMMA ReadAllAt ==
  ASSUME NEW cap \in Caps, NEW r, RingOK(r, cap)
  PROVE  /\ ReadAll(r) \in Seq(Payloads)
         /\ Len(ReadAll(r)) = r.len
         /\ \A i \in 1..r.len : ReadAll(r)[i] = r.buf[Slot(r, r.len - i + 1)]
  <1> DEFINE start == IF r.len < r.capacity THEN 0 ELSE r.head
             idx(i) == (start + (i - 1)) % r.capacity
  <1>1. r.capacity = cap /\ r.len \in 0..cap /\ r.head \in 0..cap-1 /\ start \in 0..cap-1
        /\ cap \in Nat /\ cap > 0
    BY RingFields
  <1>2. ASSUME NEW i \in 1..r.len
        PROVE  idx(i) = Slot(r, r.len - i + 1) /\ r.buf[idx(i)] \in Payloads
    <2>0. start + (i - 1) \in Int /\ 0 <= start + (i - 1) /\ start + (i - 1) < 2 * cap
          /\ cap \in Nat \ {0}
      BY <1>1
    <2>01. (start + (i - 1)) % cap
             = IF start + (i - 1) < cap THEN start + (i - 1) ELSE start + (i - 1) - cap
      <3>1. PICK a \in Int : a = start + (i - 1)
        BY <2>0
      <3>2. a % cap = IF a < cap THEN a ELSE a - cap
        <4> HIDE DEF start
        <4>. QED BY <2>0, <3>1
      <3>. QED
        BY <1>1, <3>1, <3>2
    <2>1. idx(i) = IF start + (i - 1) < cap THEN start + (i - 1) ELSE start + (i - 1) - cap
      BY <1>1, <2>01
    <2>2. idx(i) = Slot(r, r.len - i + 1)
      BY <1>1, <2>1 DEF RingOK, Slot
    <2>3. idx(i) \in 0..(r.len - 1)
      BY <1>1, <2>1 DEF RingOK
    <2>. QED
      BY <2>2, <2>3 DEF RingOK
  <1>3. ReadAll(r) = [i \in 1..r.len |-> r.buf[idx(i)]]
    BY DEF ReadAll
  <1>4. ReadAll(r) \in [1..r.len -> Payloads]
    BY <1>2, <1>3
  <1>5. r.len \in Nat
    BY <1>1
  <1>6. ReadAll(r) \in Seq(Payloads) /\ Len(ReadAll(r)) = r.len
    BY <1>4, <1>5, LenFcn, Zenon
  <1>7. \A i \in 1..r.len : ReadAll(r)[i] = r.buf[Slot(r, r.len - i + 1)]
    BY <1>2, <1>3
  <1>. QED
    BY <1>6, <1>7

(* A push makes p the newest entry and every other one older by one.         *)
LEMMA PushSlots ==
  ASSUME NEW cap \in Caps, NEW r, RingOK(r, cap), NEW p \in Payloads
  PROVE  /\ PushRing(r, p).buf[Slot(PushRing(r, p), 1)] = p
         /\ \A k \in 1..(cap - 1) :
              PushRing(r, p).buf[Slot(PushRing(r, p), k + 1)] = r.buf[Slot(r, k)]
  <1> DEFINE q == PushRing(r, p)
  <1>2. /\ q.buf = [r.buf EXCEPT ![r.head] = p]
        /\ q.head = IF r.head + 1 < cap THEN r.head + 1 ELSE 0
        /\ q.len = IF r.len < cap THEN r.len + 1 ELSE cap
        /\ q.capacity = cap
    BY PushFields
  <1>3. r.len \in 0..cap /\ r.head \in 0..cap-1 /\ r.capacity = cap /\ cap \in Nat /\ cap > 0
        /\ r.buf \in [0..cap-1 -> Payloads \cup {Empty}]
    BY RingFields
  <1> HIDE DEF q
  <1>6. Slot(q, 1) = r.head
    BY <1>2, <1>3 DEF Slot
  <1>7. ASSUME NEW k \in 1..(cap - 1)
        PROVE  Slot(q, k + 1) = Slot(r, k) /\ Slot(r, k) # r.head /\ Slot(r, k) \in 0..cap-1
    <2>1. Slot(r, k) = (IF r.head >= k THEN r.head - k ELSE cap - (k - r.head))
      BY <1>3 DEF Slot
    <2>2. Slot(q, k + 1) = (IF q.head >= k + 1 THEN q.head - (k + 1) ELSE cap - (k + 1 - q.head))
      <3>1. q.head \in Int /\ q.capacity = cap /\ cap \in Int
        BY <1>2, <1>3
      <3>. QED
        BY <3>1 DEF Slot
    <2>3. CASE r.head + 1 < cap
      <3>1. q.head = r.head + 1
        BY <1>2, <2>3
      <3>. QED
        BY <1>3, <2>1, <2>2, <3>1
    <2>4. CASE ~(r.head + 1 < cap)
      <3>1. q.head = 0 /\ r.head = cap - 1
        BY <1>2, <1>3, <2>4
      <3>. QED
        BY <1>3, <2>1, <2>2, <3>1
    <2>. QED
      BY <2>3, <2>4
  <1>8. q.buf[Slot(q, 1)] = p
    BY <1>2, <1>3, <1>6
  <1>9. \A k \in 1..(cap - 1) : q.buf[Slot(q, k + 1)] = r.buf[Slot(r, k)]
    BY <1>2, <1>3, <1>7
  <1>. QED
    BY <1>8, <1>9 DEF q

(* Pushing appends to what read_all returns and drops its head when full.    *)
LEMMA PushReadAll ==
  ASSUME NEW cap \in Caps, NEW r, RingOK(r, cap), NEW p \in Payloads
  PROVE  ReadAll(PushRing(r, p)) = IF r.len < cap THEN Append(ReadAll(r), p)
                                   ELSE Append(Tail(ReadAll(r)), p)
  <1> DEFINE q == PushRing(r, p)
  <1>0. RingOK(q, cap)
    BY PushRingOK
  <1>2. /\ q.buf = [r.buf EXCEPT ![r.head] = p]
        /\ q.head = IF r.head + 1 < cap THEN r.head + 1 ELSE 0
        /\ q.len = IF r.len < cap THEN r.len + 1 ELSE cap
        /\ q.capacity = cap
    BY PushFields
  <1>3. r.len \in 0..cap /\ r.head \in 0..cap-1 /\ r.capacity = cap /\ cap \in Nat /\ cap > 0
        /\ r.buf \in [0..cap-1 -> Payloads \cup {Empty}]
    BY RingFields
  <1>4. /\ ReadAll(r) \in Seq(Payloads) /\ Len(ReadAll(r)) = r.len
        /\ \A i \in 1..r.len : ReadAll(r)[i] = r.buf[Slot(r, r.len - i + 1)]
    BY ReadAllAt
  <1>5. /\ ReadAll(q) \in Seq(Payloads) /\ Len(ReadAll(q)) = q.len
        /\ \A i \in 1..q.len : ReadAll(q)[i] = q.buf[Slot(q, q.len - i + 1)]
    BY <1>0, ReadAllAt
  <1>8. q.buf[Slot(q, 1)] = p
    BY PushSlots
  <1>9. \A k \in 1..(cap - 1) : q.buf[Slot(q, k + 1)] = r.buf[Slot(r, k)]
    BY PushSlots
  <1> HIDE DEF q
  <1>10. CASE r.len < cap
    <2>1. q.len = r.len + 1
      BY <1>2, <1>3, <1>10
    <2>2. ReadAll(q)[q.len] = p
      <3>0. q.len \in Nat /\ q.len > 0
        BY <1>3, <2>1
      <3>1. q.len \in 1..q.len /\ q.len - q.len + 1 = 1
        BY <3>0
      <3>. QED
        BY <1>5, <1>8, <3>1
    <2>3. ASSUME NEW i \in 1..r.len PROVE ReadAll(q)[i] = ReadAll(r)[i]
      <3>1. r.len - i + 1 \in 1..(cap - 1) /\ q.len - i + 1 = (r.len - i + 1) + 1
        BY <1>3, <1>10, <2>1
      <3>2. i \in 1..q.len
        BY <1>3, <2>1
      <3>. QED
        BY <3>1, <3>2, <1>4, <1>5, <1>9
    <2>4. /\ Append(ReadAll(r), p) \in Seq(Payloads) /\ Len(Append(ReadAll(r), p)) = r.len + 1
          /\ \A i \in 1..r.len : Append(ReadAll(r), p)[i] = ReadAll(r)[i]
          /\ Append(ReadAll(r), p)[r.len + 1] = p
      BY <1>4, AppendAt
    <2>5. \A i \in 1..(r.len + 1) : ReadAll(q)[i] = Append(ReadAll(r), p)[i]
      BY <1>3, <2>1, <2>2, <2>3, <2>4
    <2>6. ReadAll(q) = Append(ReadAll(r), p)
      BY <1>5, <2>1, <2>4, <2>5, SeqEq
    <2>. QED
      BY <1>10, <2>6 DEF q
  <1>11. CASE r.len = cap
    <2>1. q.len = cap
      BY <1>2, <1>3, <1>11
    <2>2. ReadAll(q)[cap] = p
      BY <1>3, <1>5, <1>8, <2>1
    <2>3. ASSUME NEW i \in 1..(cap - 1) PROVE ReadAll(q)[i] = ReadAll(r)[i + 1]
      <3>1. cap - i \in 1..(cap - 1) /\ q.len - i + 1 = (cap - i) + 1 /\ r.len - (i + 1) + 1 = cap - i
        BY <1>3, <1>11, <2>1
      <3>2. i \in 1..q.len /\ i + 1 \in 1..r.len
        BY <1>3, <1>11, <2>1
      <3>. QED
        BY <3>1, <3>2, <1>4, <1>5, <1>9
    <2> DEFINE tail == Tail(ReadAll(r))
    <2>4. ReadAll(r) # <<>> /\ tail \in Seq(Payloads) /\ Len(tail) = cap - 1
          /\ \A i \in 1..(cap - 1) : tail[i] = ReadAll(r)[i + 1]
      BY <1>3, <1>4, <1>11
    <2>5. /\ Append(tail, p) \in Seq(Payloads) /\ Len(Append(tail, p)) = cap
          /\ \A i \in 1..(cap - 1) : Append(tail, p)[i] = tail[i]
          /\ Append(tail, p)[cap] = p
      <3> HIDE DEF tail
      <3>1. cap - 1 + 1 = cap
        BY <1>3
      <3>. QED
        BY <2>4, <3>1, AppendAt
    <2>6. \A i \in 1..cap : ReadAll(q)[i] = Append(tail, p)[i]
      BY <1>3, <2>2, <2>3, <2>4, <2>5
    <2>7. ReadAll(q) = Append(tail, p)
      BY <1>5, <2>1, <2>5, <2>6, SeqEq
    <2>. QED
      BY <1>3, <1>11, <2>7 DEF q
  <1>. QED
    BY <1>3, <1>10, <1>11

(* read_since returns the newest min(seq - since, len) entries of read_all.  *)
LEMMA ReadSinceIsSuffix ==
  ASSUME NEW cap \in Caps, NEW r, RingOK(r, cap), NEW since \in Nat
  PROVE  ReadSince(r, since)
           = IF since >= r.seq THEN <<>> ELSE Suffix(ReadAll(r), r.seq - since)
  <1>1. /\ r.head \in 0..cap-1 /\ r.head \in Int /\ r.len \in 0..cap /\ r.len \in Nat
        /\ r.capacity = cap /\ cap \in Nat /\ cap > 0 /\ r.seq \in Nat
    BY RingFields
  <1>2. /\ ReadAll(r) \in Seq(Payloads) /\ Len(ReadAll(r)) = r.len
        /\ \A i \in 1..r.len : ReadAll(r)[i] = r.buf[Slot(r, r.len - i + 1)]
    BY ReadAllAt
  <1>3. CASE since >= r.seq
    BY <1>3 DEF ReadSince
  <1>4. CASE ~(since >= r.seq) /\ r.len = 0
    <2>1. ReadSince(r, since) = <<>>
      BY <1>4 DEF ReadSince
    <2>2. Suffix(ReadAll(r), r.seq - since) = <<>>
      BY <1>1, <1>2, <1>4 DEF Suffix
    <2>. QED
      BY <1>4, <2>1, <2>2
  <1>5. CASE ~(since >= r.seq) /\ r.len # 0
    <2> DEFINE n == r.seq - since
               count == IF n < r.len THEN n ELSE r.len
    <2>1. n \in Nat /\ n > 0 /\ count \in 1..r.len /\ count \in Nat
      BY <1>1, <1>5
    <2>2. ReadSince(r, since) = [i \in 1..count |-> r.buf[Slot(r, count - (i - 1))]]
      BY <1>5 DEF ReadSince, Slot
    <2>3. Suffix(ReadAll(r), n) = [i \in 1..count |-> ReadAll(r)[r.len - count + i]]
      BY <1>2 DEF Suffix
    <2> HIDE DEF n, count
    <2>4. ASSUME NEW i \in 1..count
          PROVE  r.buf[Slot(r, count - (i - 1))] = ReadAll(r)[r.len - count + i]
      <3>1. r.len - count + i \in 1..r.len
            /\ r.len - (r.len - count + i) + 1 = count - (i - 1)
        BY <1>1, <2>1
      <3>. QED
        BY <1>2, <3>1
    <2>5. ReadSince(r, since) = Suffix(ReadAll(r), n)
      BY <2>2, <2>3, <2>4
    <2>. QED
      BY <1>5, <2>5 DEF n
  <1>. QED
    BY <1>3, <1>4, <1>5

(* latest returns the last entry of read_all.                                *)
LEMMA LatestIsLast ==
  ASSUME NEW cap \in Caps, NEW r, RingOK(r, cap)
  PROVE  Latest(r) = Suffix(ReadAll(r), 1)
  <1>1. /\ r.head \in 0..cap-1 /\ r.head \in Int /\ r.len \in 0..cap /\ r.len \in Nat
        /\ r.capacity = cap /\ cap \in Nat /\ cap > 0
    BY RingFields
  <1>2. /\ ReadAll(r) \in Seq(Payloads) /\ Len(ReadAll(r)) = r.len
        /\ \A i \in 1..r.len : ReadAll(r)[i] = r.buf[Slot(r, r.len - i + 1)]
    BY ReadAllAt
  <1>3. CASE r.len = 0
    <2>1. Suffix(ReadAll(r), 1) = <<>>
      BY <1>1, <1>2, <1>3 DEF Suffix
    <2>. QED
      BY <1>3, <2>1 DEF Latest
  <1>4. CASE r.len # 0
    <2>1. Suffix(ReadAll(r), 1) = <<ReadAll(r)[r.len]>>
      <3>1. r.len - 1 + 1 = r.len
        BY <1>1
      <3>2. Suffix(ReadAll(r), 1) = [i \in 1..1 |-> ReadAll(r)[r.len - 1 + i]]
        BY <1>1, <1>2, <1>4 DEF Suffix
      <3>. QED
        BY <3>1, <3>2
    <2>2. ReadAll(r)[r.len] = r.buf[Slot(r, 1)]
      <3>1. r.len \in 1..r.len /\ r.len - r.len + 1 = 1
        BY <1>1, <1>4
      <3>. QED
        BY <1>2, <3>1
    <2>3. Slot(r, 1) = IF r.head = 0 THEN r.capacity - 1 ELSE r.head - 1
      BY <1>1 DEF Slot
    <2>. QED
      BY <1>4, <2>1, <2>2, <2>3 DEF Latest
  <1>. QED
    BY <1>3, <1>4
-----------------------------------------------------------------------------
\* Every registered command has a consistent ring of a registered capacity
RingsOK ==
  /\ DOMAIN buffers \subseteq Commands
  /\ \A c \in DOMAIN buffers : /\ buffers[c].capacity \in Capacities
                                /\ RingOK(buffers[c], buffers[c].capacity)

\* The reader's variables and the history variables
ReaderOK ==
  /\ cursor \in [Commands -> Nat]
  /\ batch \in [Commands -> Seq(Payloads)]
  /\ unread \in [Commands -> Seq(Payloads)]
  /\ replaced \subseteq Commands

\* Unless the ring was reset, the cursor lags by what is unread, and the unread
\* payloads are the newest entries of the ring as far as it reaches back
UnreadOK ==
  \A c \in DOMAIN buffers \ replaced :
    /\ cursor[c] + Len(unread[c]) = buffers[c].seq
    /\ \A k \in 1..Len(unread[c]) : k <= buffers[c].len =>
         unread[c][Len(unread[c]) - k + 1] = buffers[c].buf[Slot(buffers[c], k)]

Inv == RingsOK /\ ReaderOK /\ UnreadOK

(* Capacities are positive naturals.                                         *)
LEMMA CapacityIsCap ==
  \A k \in Capacities : k \in Caps
  BY CapacitiesAssumption DEF Caps

(* Suffixes of payload sequences are payload sequences.                      *)
LEMMA SuffixType ==
  ASSUME NEW s \in Seq(Payloads), NEW n \in Nat
  PROVE  Suffix(s, n) \in Seq(Payloads)
  <1> DEFINE k == IF n < Len(s) THEN n ELSE Len(s)
  <1>1. k \in Nat /\ k <= Len(s) /\ Len(s) \in Nat
    OBVIOUS
  <1>2. Suffix(s, n) = [i \in 1..k |-> s[Len(s) - k + i]]
    BY DEF Suffix
  <1> HIDE DEF k
  <1>3. \A i \in 1..k : Len(s) - k + i \in 1..Len(s)
    BY <1>1
  <1>4. \A i \in 1..k : s[Len(s) - k + i] \in Payloads
    BY <1>3
  <1>5. Suffix(s, n) \in [1..k -> Payloads]
    BY <1>2, <1>4
  <1>. QED
    BY <1>1, <1>5, LenFcn, Zenon

(* The suffix of length zero is empty.                                       *)
LEMMA SuffixZero ==
  ASSUME NEW s \in Seq(Payloads)
  PROVE  Suffix(s, 0) = <<>>
  <1>1. Len(s) \in Nat
    OBVIOUS
  <1>2. (IF 0 < Len(s) THEN 0 ELSE Len(s)) = 0
    BY <1>1
  <1>3. Suffix(s, 0) = [i \in 1..0 |-> s[Len(s) - 0 + i]]
    BY <1>2 DEF Suffix
  <1>. QED
    BY <1>3

(* What a reader gets from a consistent ring, and its new cursor.            *)
LEMMA FetchResult ==
  ASSUME Inv, NEW c \in Commands
  PROVE  /\ EntriesSince(buffers, c, cursor[c]) \in Seq(Payloads)
         /\ SeqOf(buffers, c) \in Nat
  <1>1. cursor[c] \in Nat
    BY DEF Inv, ReaderOK
  <1>2. CASE c \notin DOMAIN buffers
    BY <1>2 DEF EntriesSince, SeqOf
  <1>3. CASE c \in DOMAIN buffers
    <2> DEFINE r == buffers[c]
               cap == buffers[c].capacity
    <2>1. cap \in Caps /\ RingOK(r, cap)
      BY <1>3, CapacityIsCap DEF Inv, RingsOK
    <2>2. EntriesSince(buffers, c, cursor[c]) = ReadSince(r, cursor[c]) /\ SeqOf(buffers, c) = r.seq
      BY <1>3 DEF EntriesSince, SeqOf
    <2> HIDE DEF r, cap
    <2>3. r.seq \in Nat /\ ReadAll(r) \in Seq(Payloads)
      BY <2>1, RingFields, ReadAllAt
    <2>4. ReadSince(r, cursor[c])
            = IF cursor[c] >= r.seq THEN <<>> ELSE Suffix(ReadAll(r), r.seq - cursor[c])
      BY <1>1, <2>1, ReadSinceIsSuffix
    <2>5. ~(cursor[c] >= r.seq) => r.seq - cursor[c] \in Nat
      BY <1>1, <2>3
    <2>6. ReadSince(r, cursor[c]) \in Seq(Payloads)
      BY <2>3, <2>4, <2>5, SuffixType
    <2>. QED
      BY <2>2, <2>3, <2>6
  <1>. QED
    BY <1>2, <1>3

(* The initial state satisfies the invariant.                                *)
LEMMA InitInv == Init => Inv
  BY DEF Init, Inv, RingsOK, ReaderOK, UnreadOK

(* DataStore::register preserves it.                                         *)
LEMMA RegisterInv ==
  ASSUME Inv, NEW c \in Commands, NEW cap \in Capacities, Register(c, cap)
  PROVE  Inv'
  <1>1. DOMAIN buffers' = DOMAIN buffers \cup {c}
        /\ buffers'[c] = NewRing(cap)
        /\ \A x \in DOMAIN buffers : x # c => buffers'[x] = buffers[x]
    BY DEF Register, RegisterIn
  <1>2. NewRing(cap).capacity = cap /\ RingOK(NewRing(cap), cap)
    BY NewRingOK, CapacityIsCap DEF NewRing
  <1>3. RingsOK'
    BY <1>1, <1>2 DEF Inv, RingsOK
  <1>4. ReaderOK'
    BY DEF Inv, ReaderOK, Register
  <1>5. UnreadOK'
    <2> SUFFICES ASSUME NEW x \in (DOMAIN buffers \ replaced)'
                 PROVE  /\ (cursor[x] + Len(unread[x]) = buffers[x].seq)'
                        /\ (\A k \in 1..Len(unread[x]) : k <= buffers[x].len =>
                             unread[x][Len(unread[x]) - k + 1]
                               = buffers[x].buf[Slot(buffers[x], k)])'
      BY DEF UnreadOK
    <2>1. x # c /\ x \in DOMAIN buffers \ replaced
      BY <1>1 DEF Register
    <2>2. buffers'[x] = buffers[x] /\ cursor'[x] = cursor[x] /\ unread'[x] = unread[x]
      BY <1>1, <2>1 DEF Register, Inv, ReaderOK
    <2>. QED
      BY <2>1, <2>2 DEF Inv, UnreadOK, Slot
  <1>. QED
    BY <1>3, <1>4, <1>5 DEF Inv

(* DataStore::store preserves it.                                            *)
LEMMA StoreInv ==
  ASSUME Inv, NEW c \in Commands, NEW p \in Payloads, Store(c, p)
  PROVE  Inv'
  <1> DEFINE r == buffers[c]
             q == PushRing(r, p)
             cap == buffers[c].capacity
  <1>1. c \in DOMAIN buffers /\ cap \in Capacities /\ cap \in Caps /\ RingOK(r, cap)
    BY CapacityIsCap DEF Store, Inv, RingsOK
  <1>2. DOMAIN buffers' = DOMAIN buffers
        /\ buffers'[c] = q
        /\ \A x \in DOMAIN buffers : x # c => buffers'[x] = buffers[x]
    BY <1>1 DEF Store, StoreIn
  <1>3. /\ RingOK(q, cap) /\ q.capacity = cap
        /\ q.len = (IF r.len < cap THEN r.len + 1 ELSE cap) /\ q.seq = r.seq + 1
        /\ q.buf[Slot(q, 1)] = p
        /\ \A k \in 1..(cap - 1) : q.buf[Slot(q, k + 1)] = r.buf[Slot(r, k)]
    <2> HIDE DEF r, cap
    <2>1. RingOK(q, cap)
      BY <1>1, PushRingOK
    <2>2. /\ q.buf = [r.buf EXCEPT ![r.head] = p]
          /\ q.head = IF r.head + 1 < cap THEN r.head + 1 ELSE 0
          /\ q.len = IF r.len < cap THEN r.len + 1 ELSE cap
          /\ q.capacity = cap /\ q.seq = r.seq + 1
      BY <1>1, PushFields
    <2>3. /\ q.buf[Slot(q, 1)] = p
          /\ \A k \in 1..(cap - 1) : q.buf[Slot(q, k + 1)] = r.buf[Slot(r, k)]
      BY <1>1, PushSlots
    <2>. QED
      BY <2>1, <2>2, <2>3
  <1>4. r.len \in 0..cap /\ r.len \in Nat /\ r.seq \in Nat /\ cap \in Nat /\ cap > 0
    BY <1>1, RingFields
  <1>5. RingsOK'
    BY <1>1, <1>2, <1>3 DEF Inv, RingsOK
  <1>6. ReaderOK'
    BY DEF Inv, ReaderOK, Store
  <1>7. ASSUME c \notin replaced
        PROVE  /\ cursor'[c] + Len(unread'[c]) = q.seq
               /\ \A k \in 1..Len(unread'[c]) : k <= q.len =>
                    unread'[c][Len(unread'[c]) - k + 1] = q.buf[Slot(q, k)]
    <2> DEFINE u == unread[c]
    <2>1. unread'[c] = Append(u, p) /\ cursor'[c] = cursor[c] /\ u \in Seq(Payloads)
          /\ cursor[c] \in Nat
      BY DEF Store, Inv, ReaderOK
    <2>2. /\ Len(Append(u, p)) = Len(u) + 1 /\ Len(u) \in Nat
          /\ \A i \in 1..Len(u) : Append(u, p)[i] = u[i]
          /\ Append(u, p)[Len(u) + 1] = p
      BY <2>1, AppendAt
    <2>3. /\ cursor[c] + Len(u) = r.seq
          /\ \A k \in 1..Len(u) : k <= r.len => u[Len(u) - k + 1] = r.buf[Slot(r, k)]
      BY <1>1, <1>7 DEF Inv, UnreadOK
    <2> HIDE DEF u, r, q, cap
    <2>4. cursor'[c] + Len(unread'[c]) = q.seq
      <3>1. Len(unread'[c]) = Len(u) + 1 /\ cursor'[c] = cursor[c] /\ q.seq = r.seq + 1
        BY <1>3, <2>1, <2>2
      <3>2. cursor[c] \in Nat /\ Len(u) \in Nat /\ r.seq \in Nat /\ cursor[c] + Len(u) = r.seq
        BY <1>4, <2>1, <2>2, <2>3
      <3>3. cursor[c] + (Len(u) + 1) = r.seq + 1
        BY <3>2
      <3>. QED
        BY <3>1, <3>3
    <2>5. ASSUME NEW k \in 1..(Len(u) + 1), k <= q.len
          PROVE  Append(u, p)[Len(u) + 1 - k + 1] = q.buf[Slot(q, k)]
      <3>1. CASE k = 1
        <4>1. Len(u) + 1 - k + 1 = Len(u) + 1
          BY <2>2, <3>1
        <4>. QED
          BY <4>1, <3>1, <2>2, <1>3
      <3>2. CASE k # 1
        <4> DEFINE j == k - 1
        <4>1. j \in 1..Len(u) /\ j \in 1..(cap - 1) /\ j <= r.len /\ j + 1 = k
          BY <1>3, <1>4, <2>2, <2>5, <3>2
        <4>2. Len(u) + 1 - k + 1 = Len(u) - j + 1 /\ Len(u) - j + 1 \in 1..Len(u)
          BY <2>2, <4>1
        <4> HIDE DEF j
        <4>3. u[Len(u) - j + 1] = r.buf[Slot(r, j)]
          BY <2>3, <4>1
        <4>4. q.buf[Slot(q, k)] = r.buf[Slot(r, j)]
          BY <1>3, <4>1
        <4>5. Append(u, p)[Len(u) - j + 1] = u[Len(u) - j + 1]
          BY <2>2, <4>2
        <4>. QED
          BY <4>2, <4>3, <4>4, <4>5
      <3>. QED
        BY <3>1, <3>2
    <2>. QED
      BY <2>1, <2>2, <2>4, <2>5
  <1>8. UnreadOK'
    <2> SUFFICES ASSUME NEW x \in (DOMAIN buffers \ replaced)'
                 PROVE  /\ (cursor[x] + Len(unread[x]) = buffers[x].seq)'
                        /\ (\A k \in 1..Len(unread[x]) : k <= buffers[x].len =>
                             unread[x][Len(unread[x]) - k + 1]
                               = buffers[x].buf[Slot(buffers[x], k)])'
      BY DEF UnreadOK
    <2>0. x \in DOMAIN buffers \ replaced
      BY <1>2 DEF Store
    <2>1. CASE x = c
      <3> HIDE DEF q
      <3>. QED
        BY <1>2, <1>7, <2>0, <2>1 DEF Slot
    <2>2. CASE x # c
      <3>1. buffers'[x] = buffers[x] /\ cursor'[x] = cursor[x] /\ unread'[x] = unread[x]
        BY <1>2, <2>0, <2>2 DEF Store, Inv, ReaderOK
      <3>. QED
        BY <2>0, <3>1 DEF Inv, UnreadOK, Slot
    <2>. QED
      BY <2>1, <2>2
  <1>. QED
    BY <1>5, <1>6, <1>8 DEF Inv
(* A read moves the cursor to the end and leaves nothing unread.             *)
LEMMA FetchInv ==
  ASSUME Inv, NEW c \in Commands, Fetch(c)
  PROVE  Inv'
  <1>1. RingsOK'
    BY DEF Inv, RingsOK, Fetch
  <1>2. ReaderOK'
    BY FetchResult DEF Inv, ReaderOK, Fetch
  <1>3. UnreadOK'
    <2> SUFFICES ASSUME NEW x \in (DOMAIN buffers \ replaced)'
                 PROVE  /\ (cursor[x] + Len(unread[x]) = buffers[x].seq)'
                        /\ (\A k \in 1..Len(unread[x]) : k <= buffers[x].len =>
                             unread[x][Len(unread[x]) - k + 1]
                               = buffers[x].buf[Slot(buffers[x], k)])'
      BY DEF UnreadOK
    <2>0. x \in DOMAIN buffers /\ x \in Commands
      BY DEF Fetch, Inv, RingsOK
    <2>1. CASE x = c
      <3>1. unread'[x] = <<>> /\ cursor'[x] = buffers[x].seq /\ buffers' = buffers
        BY <2>0, <2>1 DEF Fetch, SeqOf, Inv, ReaderOK
      <3>2. buffers[x].seq \in Nat
        BY <2>0, <2>1, FetchResult DEF SeqOf
      <3>3. Len(unread'[x]) = 0 /\ 1..Len(unread'[x]) = {}
        BY <3>1
      <3>. QED
        BY <3>1, <3>2, <3>3
    <2>2. CASE x # c
      <3>1. buffers' = buffers /\ cursor'[x] = cursor[x] /\ unread'[x] = unread[x]
            /\ x \in DOMAIN buffers \ replaced
        BY <2>0, <2>2 DEF Fetch, Inv, ReaderOK
      <3>. QED
        BY <3>1 DEF Inv, UnreadOK, Slot
    <2>. QED
      BY <2>1, <2>2
  <1>. QED
    BY <1>1, <1>2, <1>3 DEF Inv

(* DataStore::clear_all preserves it.                                        *)
LEMMA ClearAllInv ==
  ASSUME Inv, ClearAll
  PROVE  Inv'
  <1>1. DOMAIN buffers' = DOMAIN buffers
        /\ \A c \in DOMAIN buffers : buffers'[c] = ClearRing(buffers[c])
    BY DEF ClearAll, ClearAllIn
  <1>2. ASSUME NEW c \in DOMAIN buffers
        PROVE  buffers'[c].capacity \in Capacities /\ RingOK(buffers'[c], buffers'[c].capacity)
    <2>1. buffers[c].capacity \in Capacities /\ buffers[c].capacity \in Caps
      BY CapacityIsCap DEF Inv, RingsOK
    <2>2. buffers'[c] = NewRing(buffers[c].capacity)
      BY <1>1 DEF ClearRing
    <2>3. NewRing(buffers[c].capacity).capacity = buffers[c].capacity
      BY DEF NewRing
    <2>. QED
      BY <2>1, <2>2, <2>3, NewRingOK
  <1>3. RingsOK'
    BY <1>1, <1>2 DEF Inv, RingsOK
  <1>4. ReaderOK'
    BY DEF Inv, ReaderOK, RingsOK, ClearAll
  <1>5. UnreadOK'
    BY <1>1 DEF UnreadOK, ClearAll
  <1>. QED
    BY <1>3, <1>4, <1>5 DEF Inv

(* Every step of the data store and its readers preserves the invariant.     *)
LEMMA NextInv == Inv /\ [Next]_vars => Inv'
  <1> SUFFICES ASSUME Inv, [Next]_vars PROVE Inv'
    OBVIOUS
  <1>1. CASE UNCHANGED vars
    BY <1>1 DEF Inv, RingsOK, ReaderOK, UnreadOK, vars, Slot
  <1>2. CASE \E c \in Commands, cap \in Capacities : Register(c, cap)
    BY <1>2, RegisterInv
  <1>3. CASE \E c \in Commands, p \in Payloads : Store(c, p)
    BY <1>3, StoreInv
  <1>4. CASE \E c \in Commands : Fetch(c)
    BY <1>4, FetchInv
  <1>5. CASE ClearAll
    BY <1>5, ClearAllInv
  <1>. QED
    BY <1>1, <1>2, <1>3, <1>4, <1>5 DEF Next

(* The invariant holds throughout.                                           *)
THEOREM Consistency == Spec => []Inv
  BY InitInv, NextInv, PTL DEF Spec

-----------------------------------------------------------------------------
(* Type correctness: rings keep their shape and readers only ever receive    *)
(* payloads, never the content of an unused slot.                            *)
THEOREM TypeCorrect == Spec => []TypeOK
  <1>1. Inv => TypeOK
    BY DEF Inv, RingsOK, ReaderOK, RingOK, TypeOK
  <1>. QED
    BY <1>1, Consistency, PTL

(* read_since, read_all and latest always agree (ReadsAgree), for rings of   *)
(* every capacity and every number of pushes.                                *)
THEOREM ReadsAlwaysAgree == Spec => []ReadsAgree
  <1>1. Inv => ReadsAgree
    <2> SUFFICES ASSUME Inv, NEW c \in DOMAIN buffers
                 PROVE  /\ Latest(buffers[c]) = Suffix(ReadAll(buffers[c]), 1)
                        /\ \A since \in 0..buffers[c].seq :
                             ReadSince(buffers[c], since)
                               = Suffix(ReadAll(buffers[c]), buffers[c].seq - since)
      BY DEF ReadsAgree
    <2> DEFINE r == buffers[c]
               cap == buffers[c].capacity
    <2>1. cap \in Caps /\ RingOK(r, cap)
      BY CapacityIsCap DEF Inv, RingsOK
    <2> HIDE DEF r, cap
    <2>2. Latest(r) = Suffix(ReadAll(r), 1)
      BY <2>1, LatestIsLast
    <2>3. r.seq \in Nat /\ ReadAll(r) \in Seq(Payloads)
      BY <2>1, RingFields, ReadAllAt
    <2>4. ASSUME NEW since \in 0..r.seq
          PROVE  ReadSince(r, since) = Suffix(ReadAll(r), r.seq - since)
      <3>1. since \in Nat
        BY <2>3
      <3>2. ReadSince(r, since)
              = IF since >= r.seq THEN <<>> ELSE Suffix(ReadAll(r), r.seq - since)
        BY <2>1, <3>1, ReadSinceIsSuffix
      <3>3. CASE since >= r.seq
        <4>1. r.seq - since = 0
          BY <2>3, <3>1, <3>3
        <4>2. Suffix(ReadAll(r), 0) = <<>>
          BY <2>3, SuffixZero
        <4>. QED
          BY <3>2, <3>3, <4>1, <4>2
      <3>. QED
        BY <3>2, <3>3
    <2>. QED
      BY <2>2, <2>4 DEF r
  <1>. QED
    BY <1>1, Consistency, PTL
(* A reader whose ring was not reset since its last read misses nothing the  *)
(* ring still holds (NoGapWhileRegistered).                                  *)
THEOREM NoGap == Spec => NoGapWhileRegistered
  <1>1. ASSUME Inv, NEW c \in Commands, Fetch(c), c \in DOMAIN buffers, c \notin replaced
        PROVE  batch'[c] = Suffix(unread[c], buffers[c].capacity)
    <2> DEFINE r == buffers[c]
               cap == buffers[c].capacity
               u == unread[c]
               n == r.seq - cursor[c]
    <2>1. cap \in Caps /\ RingOK(r, cap)
      BY <1>1, CapacityIsCap DEF Inv, RingsOK
    <2>2. u \in Seq(Payloads) /\ cursor[c] \in Nat
      BY <1>1 DEF Inv, ReaderOK
    <2>3. /\ cursor[c] + Len(u) = r.seq
          /\ \A k \in 1..Len(u) : k <= r.len => u[Len(u) - k + 1] = r.buf[Slot(r, k)]
      BY <1>1 DEF Inv, UnreadOK
    <2>4. batch'[c] = ReadSince(r, cursor[c])
      BY <1>1 DEF Fetch, EntriesSince, Inv, ReaderOK
    <2> HIDE DEF r, cap, u
    <2>5. /\ r.len \in 0..cap /\ r.len \in Nat /\ r.seq \in Nat /\ cap \in Nat /\ cap > 0
      BY <2>1, RingFields
    <2>6. Len(u) \in Nat /\ n = Len(u) /\ (cursor[c] >= r.seq <=> Len(u) = 0)
      <3>1. Len(u) \in Nat /\ cursor[c] + Len(u) = r.seq
        BY <2>2, <2>3
      <3>. QED
        BY <3>1, <2>2, <2>5
    <2>7. ReadSince(r, cursor[c]) = IF cursor[c] >= r.seq THEN <<>> ELSE Suffix(ReadAll(r), n)
      BY <2>1, <2>2, ReadSinceIsSuffix
    <2> HIDE DEF n
    <2>8. CASE Len(u) = 0
      <3>1. Suffix(u, cap) = <<>>
        <4>1. (IF cap < Len(u) THEN cap ELSE Len(u)) = 0
          BY <2>5, <2>8
        <4>2. Suffix(u, cap) = [i \in 1..0 |-> u[Len(u) - 0 + i]]
          BY <4>1 DEF Suffix
        <4>. QED
          BY <4>2
      <3>. QED
        BY <2>4, <2>6, <2>7, <2>8, <3>1 DEF u, cap
    <2>9. CASE Len(u) # 0
      <3> DEFINE k == IF cap < Len(u) THEN cap ELSE Len(u)
      <3>1. k \in Nat /\ k > 0 /\ k <= r.len /\ k <= Len(u) /\ k = IF n < r.len THEN n ELSE r.len
        <4>1. r.len <= r.seq /\ (r.len < cap => r.seq = r.len)
          BY <2>1 DEF RingOK
        <4>2. Len(u) <= r.seq
          BY <2>2, <2>3, <2>5, <2>6
        <4>. QED
          BY <4>1, <4>2, <2>5, <2>6, <2>9
      <3>2. /\ Len(ReadAll(r)) = r.len
            /\ \A i \in 1..r.len : ReadAll(r)[i] = r.buf[Slot(r, r.len - i + 1)]
        BY <2>1, ReadAllAt
      <3>3. Suffix(u, cap) = [i \in 1..k |-> u[Len(u) - k + i]]
        BY DEF Suffix
      <3>4. Suffix(ReadAll(r), n) = [i \in 1..k |-> ReadAll(r)[r.len - k + i]]
        BY <3>1, <3>2 DEF Suffix
      <3> HIDE DEF k
      <3>5. ASSUME NEW i \in 1..k
            PROVE  u[Len(u) - k + i] = ReadAll(r)[r.len - k + i]
        <4> DEFINE j == k - i + 1
        <4>1. /\ j \in 1..Len(u) /\ j <= r.len /\ Len(u) - j + 1 = Len(u) - k + i
              /\ r.len - k + i \in 1..r.len /\ r.len - (r.len - k + i) + 1 = j
          BY <2>5, <2>6, <3>1
        <4> HIDE DEF j
        <4>2. u[Len(u) - j + 1] = r.buf[Slot(r, j)]
          BY <2>3, <4>1
        <4>3. ReadAll(r)[r.len - k + i] = r.buf[Slot(r, j)]
          BY <3>2, <4>1
        <4>. QED
          BY <4>1, <4>2, <4>3
      <3>6. Suffix(u, cap) = Suffix(ReadAll(r), n)
        BY <3>3, <3>4, <3>5
      <3>. QED
        BY <2>4, <2>6, <2>7, <2>9, <3>6 DEF u, cap
    <2>. QED
      BY <2>8, <2>9
  <1>2. Inv /\ [Next]_vars =>
          [\A c \in Commands :
             (Fetch(c) /\ c \in DOMAIN buffers /\ c \notin replaced)
               => batch'[c] = Suffix(unread[c], buffers[c].capacity)]_vars
    BY <1>1
  <1>. QED
    BY <1>2, Consistency, PTL DEF Spec, NoGapWhileRegistered
-----------------------------------------------------------------------------
(* The abstract values of one command under the refinement mapping.          *)
LEMMA MappedValues ==
  ASSUME NEW c \in Commands
  PROVE  /\ c \in DOMAIN buffers => /\ Limit[c] = buffers[c].capacity
                                    /\ Kept[c] = ReadAll(buffers[c])
                                    /\ Total[c] = buffers[c].seq
         /\ c \notin DOMAIN buffers => Limit[c] = 0 /\ Kept[c] = <<>> /\ Total[c] = 0
  BY DEF Limit, Kept, Total, SeqOf

(* A fresh ring is the empty log.                                            *)
LEMMA NewRingValues ==
  ASSUME NEW cap \in Caps
  PROVE  NewRing(cap).capacity = cap /\ NewRing(cap).seq = 0 /\ ReadAll(NewRing(cap)) = <<>>
  <1>1. NewRing(cap).len = 0 /\ NewRing(cap).capacity = cap /\ NewRing(cap).seq = 0
    BY DEF NewRing
  <1>2. RingOK(NewRing(cap), cap)
    BY NewRingOK
  <1>3. ReadAll(NewRing(cap)) \in Seq(Payloads) /\ Len(ReadAll(NewRing(cap))) = 0
    BY <1>1, <1>2, ReadAllAt
  <1>. QED
    BY <1>1, <1>3

(* The initial store is the initial log.                                     *)
LEMMA RefInit == Init => Log!Init
  BY DEF Init, Log!Init, Limit, Kept, Total, SeqOf

(* Registering a ring starts an empty log of that limit.                     *)
LEMMA RefRegister ==
  ASSUME Inv, NEW c \in Commands, NEW cap \in Capacities, Register(c, cap)
  PROVE  Log!Register(c, cap)
  <1>1. DOMAIN buffers' = DOMAIN buffers \cup {c}
        /\ buffers'[c] = NewRing(cap)
        /\ \A x \in DOMAIN buffers : x # c => buffers'[x] = buffers[x]
    BY DEF Register, RegisterIn
  <1>2. NewRing(cap).capacity = cap /\ NewRing(cap).seq = 0 /\ ReadAll(NewRing(cap)) = <<>>
    BY NewRingValues, CapacityIsCap
  <1>3. Limit' = [Limit EXCEPT ![c] = cap]
    BY <1>1, <1>2 DEF Limit
  <1>4. Kept' = [Kept EXCEPT ![c] = <<>>]
    BY <1>1, <1>2 DEF Kept
  <1>5. Total' = [Total EXCEPT ![c] = 0]
    BY <1>1, <1>2 DEF Total, SeqOf
  <1>. QED
    BY <1>3, <1>4, <1>5 DEF Log!Register, Register

(* Pushing into the ring appends to the log, dropping its oldest when full.  *)
LEMMA RefStore ==
  ASSUME Inv, NEW c \in Commands, NEW p \in Payloads, Store(c, p)
  PROVE  Log!Store(c, p)
  <1> DEFINE r == buffers[c]
             q == PushRing(r, p)
             cap == buffers[c].capacity
  <1>1. c \in DOMAIN buffers /\ cap \in Caps /\ RingOK(r, cap)
    BY CapacityIsCap DEF Store, Inv, RingsOK
  <1>2. DOMAIN buffers' = DOMAIN buffers
        /\ buffers'[c] = q
        /\ \A x \in DOMAIN buffers : x # c => buffers'[x] = buffers[x]
    BY <1>1 DEF Store, StoreIn
  <1>3. Limit[c] = cap /\ Kept[c] = ReadAll(r) /\ Total[c] = r.seq
    BY <1>1, MappedValues
  <1> HIDE DEF r, cap
  <1>4. /\ q.buf = [r.buf EXCEPT ![r.head] = p]
        /\ q.head = IF r.head + 1 < cap THEN r.head + 1 ELSE 0
        /\ q.len = IF r.len < cap THEN r.len + 1 ELSE cap
        /\ q.capacity = cap /\ q.seq = r.seq + 1
    BY <1>1, PushFields
  <1>5. ReadAll(q) = IF r.len < cap THEN Append(ReadAll(r), p) ELSE Append(Tail(ReadAll(r)), p)
    BY <1>1, PushReadAll
  <1>6. Len(ReadAll(r)) = r.len /\ cap > 0
    BY <1>1, ReadAllAt, RingFields
  <1>7. Kept' = [Kept EXCEPT ![c] = IF Len(Kept[c]) < Limit[c] THEN Append(Kept[c], p)
                                    ELSE Append(Tail(Kept[c]), p)]
    <2>1. ReadAll(q) = IF Len(Kept[c]) < Limit[c] THEN Append(Kept[c], p)
                       ELSE Append(Tail(Kept[c]), p)
      BY <1>3, <1>5, <1>6
    <2> HIDE DEF q
    <2>2. Kept' = [Kept EXCEPT ![c] = ReadAll(q)]
      BY <1>1, <1>2 DEF Kept
    <2>. QED
      BY <2>1, <2>2
  <1>8. Total' = [Total EXCEPT ![c] = Total[c] + 1]
    <2>1. q.seq = Total[c] + 1
      BY <1>3, <1>4
    <2> HIDE DEF q
    <2>2. Total' = [Total EXCEPT ![c] = q.seq]
      BY <1>1, <1>2 DEF Total, SeqOf
    <2>. QED
      BY <2>1, <2>2
  <1>9. Limit' = Limit
    <2> HIDE DEF q
    <2>1. q.capacity = buffers[c].capacity
      BY <1>4 DEF cap
    <2>. QED
      BY <1>1, <1>2, <2>1 DEF Limit
  <1>. QED
    BY <1>3, <1>6, <1>7, <1>8, <1>9 DEF Log!Store, Store

(* read_since is the abstract fetch.                                         *)
LEMMA RefFetch ==
  ASSUME Inv, NEW c \in Commands, Fetch(c)
  PROVE  Log!Fetch(c)
  <1>1. cursor[c] \in Nat
    BY DEF Inv, ReaderOK
  <1>2. SeqOf(buffers, c) = Total[c]
    BY DEF Total
  <1>3. EntriesSince(buffers, c, cursor[c]) = Log!Newer(c)
    <2>1. CASE c \notin DOMAIN buffers
      <3>1. Total[c] = 0 /\ EntriesSince(buffers, c, cursor[c]) = <<>>
        BY <2>1, MappedValues DEF EntriesSince
      <3>2. Total[c] - cursor[c] <= 0
        BY <1>1, <3>1
      <3>. QED
        BY <3>1, <3>2 DEF Log!Newer
    <2>2. CASE c \in DOMAIN buffers
      <3> DEFINE r == buffers[c]
                 cap == buffers[c].capacity
                 n == r.seq - cursor[c]
      <3>1. cap \in Caps /\ RingOK(r, cap)
        BY <2>2, CapacityIsCap DEF Inv, RingsOK
      <3>2. Kept[c] = ReadAll(r) /\ Total[c] = r.seq
            /\ EntriesSince(buffers, c, cursor[c]) = ReadSince(r, cursor[c])
        BY <2>2, MappedValues DEF EntriesSince
      <3> HIDE DEF r, cap
      <3>3. r.seq \in Nat
        BY <3>1, RingFields
      <3>4. ReadSince(r, cursor[c]) = IF cursor[c] >= r.seq THEN <<>> ELSE Suffix(ReadAll(r), n)
        BY <1>1, <3>1, ReadSinceIsSuffix
      <3>5. n <= 0 <=> cursor[c] >= r.seq
        BY <1>1, <3>3
      <3>6. Log!Newer(c) = IF n <= 0 THEN <<>>
                           ELSE Log!LastN(ReadAll(r), IF n < Len(ReadAll(r)) THEN n ELSE Len(ReadAll(r)))
        BY <3>2 DEF Log!Newer
      <3>7. Suffix(ReadAll(r), n)
              = Log!LastN(ReadAll(r), IF n < Len(ReadAll(r)) THEN n ELSE Len(ReadAll(r)))
        BY DEF Suffix, Log!LastN
      <3>. QED
        BY <3>2, <3>4, <3>5, <3>6, <3>7
    <2>. QED
      BY <2>1, <2>2
  <1>4. Limit' = Limit /\ Kept' = Kept /\ Total' = Total
    BY DEF Fetch, Limit, Kept, Total, SeqOf
  <1>. QED
    BY <1>2, <1>3, <1>4 DEF Log!Fetch, Fetch

(* clear_all empties every log and restarts every total.                     *)
LEMMA RefClear ==
  ASSUME Inv, ClearAll
  PROVE  Log!Clear
  <1>1. DOMAIN buffers' = DOMAIN buffers
        /\ \A c \in DOMAIN buffers : buffers'[c] = NewRing(buffers[c].capacity)
    BY DEF ClearAll, ClearAllIn, ClearRing
  <1>2. ASSUME NEW c \in DOMAIN buffers
        PROVE  buffers'[c].capacity = buffers[c].capacity /\ buffers'[c].seq = 0
               /\ ReadAll(buffers'[c]) = <<>>
    BY <1>1, NewRingValues, CapacityIsCap DEF Inv, RingsOK
  <1>3. Limit' = Limit
    BY <1>1, <1>2 DEF Limit
  <1>4. Kept' = [c \in Commands |-> <<>>]
    BY <1>1, <1>2 DEF Kept
  <1>5. Total' = [c \in Commands |-> 0]
    BY <1>1, <1>2 DEF Total, SeqOf
  <1>. QED
    BY <1>3, <1>4, <1>5 DEF Log!Clear, ClearAll

(* The ring buffers implement the abstract log: every step of the data store *)
(* is a step of SampleLog under the mapping or leaves it unchanged.          *)
THEOREM Refinement == Spec => ImplementsSampleLog
  <1>1. Inv /\ [Next]_vars => [Log!Next]_Log!vars
    <2> SUFFICES ASSUME Inv, [Next]_vars PROVE [Log!Next]_Log!vars
      OBVIOUS
    <2>1. CASE UNCHANGED vars
      BY <2>1 DEF vars, Log!vars, Limit, Kept, Total, SeqOf
    <2>2. CASE \E c \in Commands, cap \in Capacities : Register(c, cap)
      BY <2>2, RefRegister DEF Log!Next
    <2>3. CASE \E c \in Commands, p \in Payloads : Store(c, p)
      BY <2>3, RefStore DEF Log!Next
    <2>4. CASE \E c \in Commands : Fetch(c)
      BY <2>4, RefFetch DEF Log!Next
    <2>5. CASE ClearAll
      BY <2>5, RefClear DEF Log!Next
    <2>. QED
      BY <2>1, <2>2, <2>3, <2>4, <2>5 DEF Next
  <1>. QED
    BY <1>1, RefInit, Consistency, PTL DEF Spec, ImplementsSampleLog, Log!Spec
=============================================================================
