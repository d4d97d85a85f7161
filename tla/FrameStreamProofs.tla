------------------------- MODULE FrameStreamProofs -------------------------
(***************************************************************************)
(* From the device's sendFrame to the frames Client::poll gets, for every  *)
(* alphabet, checksum, payload limit and buffer size, any number of frames *)
(* and any cut of the stream by reads, failed reads and the page.  The     *)
(* inductive invariant places every frame that was sent and not yet        *)
(* returned in the bytes the host has still to parse.                      *)
(***************************************************************************)
EXTENDS FrameStream, FrameParserProofs

(* The frames a device sends.                                                *)
LEMMA SentFrameFacts ==
  ASSUME NEW f \in SentFrames
  PROVE  /\ f \in Frame
         /\ f.kind \in {"Nack", "Ack", "Data", "Notification"}
         /\ f.kind # "Notification" => f.command \in Byte
         /\ ~Short(f) => /\ f.payload \in Seq(Byte) /\ Len(f.payload) <= MAX_PAYLOAD_SIZE
                         /\ crc8(f.payload) \in Byte /\ Len(f.payload) \in 0..(Radix * Radix - 1)
                         /\ f.payload \in Payloads
  <1>1. CASE f \in [kind: {"Nack", "Ack"}, command: Commands]
    <2>1. f.kind \in {"Nack", "Ack"} /\ f.command \in Byte
      BY <1>1, NoiseAssumption
    <2>2. f \in [kind: {"Nack", "Ack"}, command: Byte]
      BY <1>1, NoiseAssumption
    <2>. QED
      BY <2>1, <2>2 DEF Frame, Short
  <1>2. ASSUME NEW p \in Payloads
        PROVE  /\ p \in Seq(Byte) /\ Len(p) <= MAX_PAYLOAD_SIZE /\ crc8(p) \in Byte
               /\ Len(p) \in 0..(Radix * Radix - 1)
    <2>1. p \in Seq(Byte) /\ Len(p) <= MAX_PAYLOAD_SIZE /\ crc8(p) \in Byte /\ Len(p) \in Nat
      BY PayloadsAssumption, CodecAssumption
    <2>2. Radix * Radix \in Nat /\ MAX_PAYLOAD_SIZE \in Nat /\ MAX_PAYLOAD_SIZE < Radix * Radix
      BY RadixAssumption, MaxPayloadAssumption
    <2>3. Len(p) \in 0..(Radix * Radix - 1)
      BY <2>1, <2>2
    <2>. QED
      BY <2>1, <2>3
  <1>3. CASE f \in [kind: {"Data"}, command: Commands, payload: Payloads]
    <2>1. f.kind = "Data" /\ f.command \in Byte /\ f.payload \in Payloads
      BY <1>3, NoiseAssumption
    <2>2. f \in [kind: {"Data"}, command: Byte, payload: Seq(Byte)]
      BY <1>2, <1>3, <2>1
    <2>. QED
      BY <1>2, <2>1, <2>2 DEF Frame, Short
  <1>4. CASE f \in [kind: {"Notification"}, payload: Payloads]
    <2>1. f.kind = "Notification" /\ f.payload \in Payloads
      BY <1>4
    <2>2. f \in [kind: {"Notification"}, payload: Seq(Byte)]
      BY <1>2, <1>4, <2>1
    <2>. QED
      BY <1>2, <2>1, <2>2 DEF Frame, Short
  <1>. QED
    BY <1>1, <1>3, <1>4 DEF SentFrames

(* sendFrame's frames are within what the parser takes.                      *)
LEMMA SentIsSendable ==
  ASSUME NEW f \in SentFrames
  PROVE  Sendable(f)
  BY SentFrameFacts DEF Sendable

-----------------------------------------------------------------------------
(* Frames in a stream of bytes.                                              *)

\* The bytes e from position p of s on
Holds(s, p, e) ==
  /\ p >= 1 /\ p + Len(e) <= Len(s) + 1
  /\ \A k \in 1..Len(e) : s[p + k - 1] = e[k]

\* What sendFrame may put on the line for a frame
Encodings(f) == {Encode(f, src, cmd) : src \in Nodes, cmd \in Commands}

\* Of the frames t all but the first g are in s, in order and apart, and no SYNC
\* byte is outside them.  Frame i begins at the absolute position at[i], of which
\* base come before s, so that the positions stay as the stream is consumed.
Placed(s, g, t, base, at, enc) ==
  /\ base \in Nat /\ at \in [1..Len(t) -> Nat] /\ enc \in [1..Len(t) -> Seq(Byte)]
  /\ \A i \in g + 1..Len(t) : enc[i] \in Encodings(t[i]) /\ Holds(s, at[i] - base, enc[i])
  /\ \A h, i \in g + 1..Len(t) : h < i => at[h] + Len(enc[h]) <= at[i]
  /\ \A k \in 1..Len(s) : s[k] = SYNC_BYTE =>
       \E i \in g + 1..Len(t) : at[i] <= base + k /\ base + k < at[i] + Len(enc[i])

(* An encoded frame has at least one byte, and its first is SYNC.            *)
LEMMA EncodingFacts ==
  ASSUME NEW f \in SentFrames, NEW e \in Encodings(f)
  PROVE  /\ e \in Seq(Byte) /\ Len(e) \in Nat \ {0} /\ e[1] = SYNC_BYTE
         /\ \E src, cmd : Spells(e, f, src, cmd)
  <1>1. PICK src \in Nodes, cmd \in Commands : e = Encode(f, src, cmd)
    BY DEF Encodings
  <1>0. Sendable(f) /\ src \in Byte /\ cmd \in Byte /\ Radix > 3
    BY SentIsSendable, NoiseAssumption, CodecAssumption
  <1>2. Spells(e, f, src, cmd)
    BY <1>0, <1>1, EncodeFacts
  <1>3. e \in Seq(Byte) /\ e[1] = SYNC_BYTE /\ Lead \in 1..2
    BY <1>2 DEF Spells, Lead
  <1>4. Len(e) \in Nat \ {0}
    BY <1>0, <1>2, SpelledLength
  <1>. QED
    BY <1>2, <1>3, <1>4

(* Bytes keep their place when more follow.                                  *)
LEMMA HoldsMore ==
  ASSUME NEW s \in Seq(Byte), NEW u \in Seq(Byte), NEW p \in Int, NEW e \in Seq(Byte),
         Holds(s, p, e)
  PROVE  Holds(s \o u, p, e)
  <1>1. /\ Len(s \o u) = Len(s) + Len(u) /\ \A i \in 1..Len(s) : (s \o u)[i] = s[i]
        /\ Len(s) \in Nat /\ Len(u) \in Nat /\ Len(e) \in Nat
    BY ConcatAt
  <1>2. p >= 1 /\ p + Len(e) <= Len(s) + 1 /\ \A k \in 1..Len(e) : s[p + k - 1] = e[k]
    BY DEF Holds
  <1>3. p + Len(e) <= Len(s \o u) + 1
    BY <1>1, <1>2
  <1>4. ASSUME NEW k \in 1..Len(e) PROVE (s \o u)[p + k - 1] = e[k]
    <2>1. p + k - 1 \in 1..Len(s)
      BY <1>1, <1>2
    <2>. QED
      BY <1>1, <1>2, <2>1
  <1>. QED
    BY <1>2, <1>3, <1>4 DEF Holds

(* Bytes behind a part that goes away move up.                               *)
LEMMA HoldsLess ==
  ASSUME NEW u \in Seq(Byte), NEW v \in Seq(Byte), NEW p \in Int, NEW e \in Seq(Byte),
         Holds(u \o v, p, e), p > Len(u)
  PROVE  Holds(v, p - Len(u), e)
  <1>1. /\ Len(u \o v) = Len(u) + Len(v) /\ \A i \in 1..Len(v) : (u \o v)[Len(u) + i] = v[i]
        /\ Len(u) \in Nat /\ Len(v) \in Nat /\ Len(e) \in Nat
    BY ConcatAt
  <1>2. p >= 1 /\ p + Len(e) <= Len(u \o v) + 1 /\ \A k \in 1..Len(e) : (u \o v)[p + k - 1] = e[k]
    BY DEF Holds
  <1>3. p - Len(u) >= 1 /\ p - Len(u) + Len(e) <= Len(v) + 1
    BY <1>1, <1>2
  <1>4. ASSUME NEW k \in 1..Len(e) PROVE v[p - Len(u) + k - 1] = e[k]
    <2>1. p - Len(u) + k - 1 \in 1..Len(v) /\ Len(u) + (p - Len(u) + k - 1) = p + k - 1
      BY <1>1, <1>2
    <2>. QED
      BY <1>1, <1>2, <2>1
  <1>. QED
    BY <1>3, <1>4 DEF Holds

(* The types in a placement.                                                 *)
LEMMA PlacedTypes ==
  ASSUME NEW s \in Seq(Byte), NEW g \in Nat, NEW t \in Seq(SentFrames),
         NEW base, NEW at, NEW enc, Placed(s, g, t, base, at, enc)
  PROVE  /\ base \in Nat /\ Len(t) \in Nat /\ Len(s) \in Nat
         /\ \A i \in g + 1..Len(t) :
              /\ i \in 1..Len(t) /\ t[i] \in SentFrames /\ at[i] \in Nat
              /\ enc[i] \in Encodings(t[i]) /\ enc[i] \in Seq(Byte)
              /\ Len(enc[i]) \in Nat \ {0} /\ enc[i][1] = SYNC_BYTE
              /\ Holds(s, at[i] - base, enc[i])
              /\ at[i] > base /\ at[i] + Len(enc[i]) <= base + Len(s) + 1
              /\ \A k \in 1..Len(enc[i]) : s[at[i] - base + k - 1] = enc[i][k]
  <1>1. base \in Nat /\ Len(t) \in Nat /\ Len(s) \in Nat
    BY DEF Placed
  <1>2. ASSUME NEW i \in g + 1..Len(t)
        PROVE  /\ i \in 1..Len(t) /\ t[i] \in SentFrames /\ at[i] \in Nat
               /\ enc[i] \in Encodings(t[i]) /\ enc[i] \in Seq(Byte)
               /\ Len(enc[i]) \in Nat \ {0} /\ enc[i][1] = SYNC_BYTE
               /\ Holds(s, at[i] - base, enc[i])
               /\ at[i] > base /\ at[i] + Len(enc[i]) <= base + Len(s) + 1
               /\ \A k \in 1..Len(enc[i]) : s[at[i] - base + k - 1] = enc[i][k]
    <2>1. i \in 1..Len(t)
      BY <1>1
    <2>2. t[i] \in SentFrames
      BY <2>1
    <2>3. at[i] \in Nat /\ enc[i] \in Encodings(t[i]) /\ Holds(s, at[i] - base, enc[i])
      BY <2>1 DEF Placed
    <2>4. enc[i] \in Seq(Byte) /\ Len(enc[i]) \in Nat \ {0} /\ enc[i][1] = SYNC_BYTE
      BY <2>2, <2>3, EncodingFacts
    <2>5. /\ at[i] - base >= 1 /\ at[i] - base + Len(enc[i]) <= Len(s) + 1
          /\ \A k \in 1..Len(enc[i]) : s[at[i] - base + k - 1] = enc[i][k]
      BY <2>3 DEF Holds
    <2>6. at[i] > base /\ at[i] + Len(enc[i]) <= base + Len(s) + 1
      <3>1. \A a, n, m, o \in Nat :
              a - o >= 1 /\ a - o + n <= m + 1 => a > o /\ a + n <= o + m + 1
        OBVIOUS
      <3>2. Len(enc[i]) \in Nat
        BY <2>4
      <3>. QED
        BY <1>1, <2>3, <2>5, <3>1, <3>2
    <2>. QED
      BY <2>1, <2>2, <2>3, <2>4, <2>5, <2>6
  <1>. QED
    BY <1>1, <1>2

(* A byte of noise on the line disturbs nothing.                             *)
LEMMA PlacedNoise ==
  ASSUME NEW s \in Seq(Byte), NEW g \in Nat, NEW t \in Seq(SentFrames),
         NEW base, NEW at, NEW enc, Placed(s, g, t, base, at, enc),
         NEW b \in Byte, b # SYNC_BYTE
  PROVE  Placed(s \o <<b>>, g, t, base, at, enc)
  <1> DEFINE r == s \o <<b>>
  <1>1. /\ Len(r) = Len(s) + 1 /\ \A i \in 1..Len(s) : r[i] = s[i]
        /\ r[Len(s) + 1] = b /\ Len(s) \in Nat
    OBVIOUS
  <1>2. ASSUME NEW i \in g + 1..Len(t) PROVE Holds(r, at[i] - base, enc[i])
    <2>1. Holds(s, at[i] - base, enc[i]) /\ at[i] - base \in Int /\ enc[i] \in Seq(Byte)
      BY PlacedTypes
    <2>2. <<b>> \in Seq(Byte)
      OBVIOUS
    <2>. QED
      BY <2>1, <2>2, HoldsMore
  <1> HIDE DEF r
  <1>3. ASSUME NEW k \in 1..Len(r), r[k] = SYNC_BYTE
        PROVE  \E i \in g + 1..Len(t) : at[i] <= base + k /\ base + k < at[i] + Len(enc[i])
    <2>1. k \in 1..Len(s) /\ s[k] = SYNC_BYTE
      BY <1>1, <1>3
    <2>. QED
      BY <2>1 DEF Placed
  <1>. QED
    BY <1>2, <1>3 DEF Placed, r

(* A frame sent goes behind the others.                                      *)
LEMMA PlacedSend ==
  ASSUME NEW s \in Seq(Byte), NEW g \in Nat, NEW t \in Seq(SentFrames), g <= Len(t),
         NEW base, NEW at, NEW enc, Placed(s, g, t, base, at, enc),
         NEW f \in SentFrames, NEW e \in Encodings(f)
  PROVE  \E at2, enc2 :
           /\ Placed(s \o e, g, Append(t, f), base, at2, enc2)
           /\ \A i \in 1..Len(t) : at2[i] = at[i] /\ enc2[i] = enc[i]
  <1> DEFINE r == s \o e
             n == Len(t)
             u == Append(t, f)
             at2 == [i \in 1..n + 1 |-> IF i <= n THEN at[i] ELSE base + Len(s) + 1]
             enc2 == [i \in 1..n + 1 |-> IF i <= n THEN enc[i] ELSE e]
  <1>1. /\ n \in Nat /\ Len(s) \in Nat /\ base \in Nat
        /\ e \in Seq(Byte) /\ Len(e) \in Nat \ {0} /\ e[1] = SYNC_BYTE
    BY EncodingFacts DEF Placed
  <1>2. /\ r \in Seq(Byte) /\ Len(r) = Len(s) + Len(e)
        /\ \A i \in 1..Len(s) : r[i] = s[i]
        /\ \A i \in 1..Len(e) : r[Len(s) + i] = e[i]
    BY <1>1, ConcatAt
  <1>3. u \in Seq(SentFrames) /\ Len(u) = n + 1 /\ u[n + 1] = f /\ \A i \in 1..n : u[i] = t[i]
    OBVIOUS
  <1>4. at \in [1..n -> Nat] /\ enc \in [1..n -> Seq(Byte)]
    BY DEF Placed
  <1>5. /\ \A i \in 1..n : at2[i] = at[i] /\ enc2[i] = enc[i]
        /\ at2[n + 1] = base + Len(s) + 1 /\ enc2[n + 1] = e
    BY <1>1
  <1>6. at2 \in [1..n + 1 -> Nat]
    BY <1>1, <1>4
  <1>7. enc2 \in [1..n + 1 -> Seq(Byte)]
    BY <1>1, <1>4
  <1> HIDE DEF r, n, u, at2, enc2
  <1>8. \A i \in g + 1..n + 1 : i \in g + 1..n \/ i = n + 1
    BY <1>1
  <1>9. \A i \in g + 1..n : i \in 1..n
    BY <1>1
  <1>10. ASSUME NEW i \in g + 1..n + 1
         PROVE  enc2[i] \in Encodings(u[i]) /\ Holds(r, at2[i] - base, enc2[i])
    <2>1. CASE i \in g + 1..n
      <3>1. /\ enc[i] \in Encodings(t[i]) /\ Holds(s, at[i] - base, enc[i])
            /\ at[i] - base \in Int /\ enc[i] \in Seq(Byte)
        BY <2>1, PlacedTypes DEF n
      <3>2. Holds(r, at[i] - base, enc[i])
        BY <1>1, <3>1, HoldsMore DEF r
      <3>. QED
        BY <1>3, <1>5, <1>9, <2>1, <3>1, <3>2
    <2>2. CASE i = n + 1
      <3>1. at2[i] - base = Len(s) + 1 /\ enc2[i] = e /\ u[i] = f
        BY <1>1, <1>3, <1>5, <2>2
      <3>2. \A k \in 1..Len(e) : Len(s) + 1 + k - 1 = Len(s) + k
        BY <1>1
      <3>3. Holds(r, Len(s) + 1, e)
        BY <1>1, <1>2, <3>2 DEF Holds
      <3>. QED
        BY <3>1, <3>3
    <2>. QED
      BY <1>8, <2>1, <2>2
  <1>11. ASSUME NEW h \in g + 1..n + 1, NEW i \in g + 1..n + 1, h < i
         PROVE  at2[h] + Len(enc2[h]) <= at2[i]
    <2>1. h \in g + 1..n /\ h \in 1..n
      BY <1>1, <1>11
    <2>2. CASE i \in g + 1..n
      <3>1. at[h] + Len(enc[h]) <= at[i]
        BY <1>11, <2>1, <2>2 DEF Placed, n
      <3>. QED
        BY <1>5, <1>9, <2>1, <2>2, <3>1
    <2>3. CASE i = n + 1
      <3>1. at[h] + Len(enc[h]) <= base + Len(s) + 1
        BY <2>1, PlacedTypes DEF n
      <3>. QED
        BY <1>5, <2>1, <2>3, <3>1
    <2>. QED
      BY <1>8, <2>2, <2>3
  <1>12. ASSUME NEW k \in 1..Len(r), r[k] = SYNC_BYTE
         PROVE  \E i \in g + 1..n + 1 : at2[i] <= base + k /\ base + k < at2[i] + Len(enc2[i])
    <2>1. CASE k <= Len(s)
      <3>1. k \in 1..Len(s) /\ s[k] = SYNC_BYTE
        BY <1>1, <1>2, <1>12, <2>1
      <3>2. PICK i \in g + 1..n : at[i] <= base + k /\ base + k < at[i] + Len(enc[i])
        BY <3>1 DEF Placed, n
      <3>3. i \in g + 1..n + 1 /\ i \in 1..n
        BY <1>1, <1>9
      <3>. QED
        BY <1>5, <3>2, <3>3
    <2>2. CASE ~(k <= Len(s))
      <3>1. n + 1 \in g + 1..n + 1
        BY <1>1 DEF n
      <3>2. base + Len(s) + 1 <= base + k /\ base + k < base + Len(s) + 1 + Len(e)
        BY <1>1, <1>2, <2>2
      <3>. QED
        BY <1>5, <3>1, <3>2
    <2>. QED
      BY <2>1, <2>2
  <1>13. Placed(r, g, u, base, at2, enc2)
    <2>1. \A h, i \in g + 1..Len(u) : h < i => at2[h] + Len(enc2[h]) <= at2[i]
      BY <1>3, <1>11
    <2>. QED
      BY <1>1, <1>3, <1>6, <1>7, <1>10, <1>12, <2>1 DEF Placed
  <1>. QED
    BY <1>5, <1>13 DEF r, n, u

(* What the host has done with goes away from the front.                     *)
LEMMA PlacedDrop ==
  ASSUME NEW u \in Seq(Byte), NEW v \in Seq(Byte), NEW g \in Nat, NEW t \in Seq(SentFrames),
         NEW base, NEW at, NEW enc, Placed(u \o v, g, t, base, at, enc),
         NEW d \in Nat, d >= g,
         \A i \in d + 1..Len(t) : at[i] > base + Len(u),
         \A i \in g + 1..Len(t) : i <= d => at[i] + Len(enc[i]) <= base + Len(u) + 1
  PROVE  Placed(v, d, t, base + Len(u), at, enc)
  <1> DEFINE s == u \o v
  <1>1. /\ s \in Seq(Byte) /\ Len(s) = Len(u) + Len(v) /\ Len(u) \in Nat /\ Len(v) \in Nat
        /\ \A i \in 1..Len(v) : s[Len(u) + i] = v[i]
    BY ConcatAt
  <1> HIDE DEF s
  <1>2. base \in Nat /\ Len(t) \in Nat /\ at \in [1..Len(t) -> Nat] /\ enc \in [1..Len(t) -> Seq(Byte)]
    BY DEF Placed
  <1>3. \A i \in d + 1..Len(t) : i \in g + 1..Len(t)
    BY <1>2
  <1>4. ASSUME NEW i \in d + 1..Len(t)
        PROVE  enc[i] \in Encodings(t[i]) /\ Holds(v, at[i] - (base + Len(u)), enc[i])
    <2>1. /\ enc[i] \in Encodings(t[i]) /\ Holds(s, at[i] - base, enc[i])
          /\ at[i] \in Nat /\ enc[i] \in Seq(Byte)
      <3>1. s \in Seq(Byte) /\ i \in g + 1..Len(t) /\ Placed(s, g, t, base, at, enc)
        BY <1>1, <1>3 DEF s
      <3>. QED
        BY <3>1, PlacedTypes
    <2>2. at[i] - base \in Int /\ at[i] - base > Len(u) /\ at[i] - base - Len(u) = at[i] - (base + Len(u))
      BY <1>1, <1>2, <2>1
    <2>3. Holds(v, at[i] - base - Len(u), enc[i])
      BY <2>1, <2>2, HoldsLess DEF s
    <2>. QED
      BY <2>1, <2>2, <2>3
  <1>5. \A h, i \in d + 1..Len(t) : h < i => at[h] + Len(enc[h]) <= at[i]
    BY <1>3 DEF Placed
  <1>6. ASSUME NEW k \in 1..Len(v), v[k] = SYNC_BYTE
        PROVE  \E i \in d + 1..Len(t) : at[i] <= base + Len(u) + k /\ base + Len(u) + k < at[i] + Len(enc[i])
    <2>1. Len(u) + k \in 1..Len(s) /\ s[Len(u) + k] = SYNC_BYTE
      BY <1>1, <1>6
    <2>2. PICK i \in g + 1..Len(t) :
            at[i] <= base + (Len(u) + k) /\ base + (Len(u) + k) < at[i] + Len(enc[i])
      BY <2>1 DEF Placed, s
    <2>3. at[i] \in Nat /\ Len(enc[i]) \in Nat
      BY <1>1, PlacedTypes DEF s
    <2>4. ~(i <= d)
      <3>1. SUFFICES ASSUME i <= d PROVE FALSE
        OBVIOUS
      <3>2. at[i] + Len(enc[i]) <= base + Len(u) + 1
        BY <3>1
      <3>. QED
        BY <1>1, <1>2, <2>2, <2>3, <3>2
    <2>5. i \in d + 1..Len(t) /\ base + (Len(u) + k) = base + Len(u) + k
      BY <1>1, <1>2, <2>4
    <2>. QED
      BY <2>2, <2>5
  <1>7. base + Len(u) \in Nat
    BY <1>1, <1>2
  <1>. QED
    BY <1>2, <1>4, <1>5, <1>6, <1>7 DEF Placed

(* A SYNC byte at the front begins the first frame not yet returned.         *)
LEMMA PlacedFirst ==
  ASSUME NEW s \in Seq(Byte), NEW g \in Nat, NEW t \in Seq(SentFrames),
         NEW base, NEW at, NEW enc, Placed(s, g, t, base, at, enc),
         s # <<>>, s[1] = SYNC_BYTE
  PROVE  g < Len(t) /\ at[g + 1] = base + 1
  <1>1. 1 \in 1..Len(s) /\ base \in Nat /\ Len(t) \in Nat
    BY DEF Placed
  <1>2. PICK i \in g + 1..Len(t) : at[i] <= base + 1 /\ base + 1 < at[i] + Len(enc[i])
    BY <1>1 DEF Placed
  <1>3. g < Len(t) /\ g + 1 \in g + 1..Len(t)
    BY <1>1, <1>2
  <1>4. at[i] \in Nat /\ at[i] > base /\ at[g + 1] \in Nat /\ at[g + 1] > base /\ Len(enc[g + 1]) \in Nat \ {0}
    BY <1>2, <1>3, PlacedTypes
  <1>5. i = g + 1
    <2>1. SUFFICES ASSUME i # g + 1 PROVE FALSE
      OBVIOUS
    <2>2. g + 1 < i
      BY <1>2, <1>3, <2>1
    <2>3. at[g + 1] + Len(enc[g + 1]) <= at[i]
      BY <1>2, <1>3, <2>2 DEF Placed
    <2>. QED
      BY <1>1, <1>2, <1>4, <2>3
  <1>. QED
    BY <1>1, <1>2, <1>3, <1>4, <1>5

(* With nothing left to parse there is no frame left to return.              *)
LEMMA PlacedEnd ==
  ASSUME NEW g \in Nat, NEW t \in Seq(SentFrames), g <= Len(t),
         NEW base, NEW at, NEW enc, Placed(<<>>, g, t, base, at, enc)
  PROVE  g = Len(t)
  <1>1. SUFFICES ASSUME g # Len(t) PROVE FALSE
    OBVIOUS
  <1>2. g + 1 \in g + 1..Len(t)
    BY <1>1
  <1>3. PICK s \in Seq(Byte) : s = <<>> /\ Len(s) = 0
    <2>1. <<>> \in Seq(Byte) /\ Len(<<>>) = 0
      OBVIOUS
    <2>. QED
      BY <2>1, Zenon
  <1>4. Placed(s, g, t, base, at, enc)
    BY <1>3
  <1>5. /\ at[g + 1] \in Nat /\ at[g + 1] > base /\ base \in Nat /\ Len(enc[g + 1]) \in Nat \ {0}
        /\ at[g + 1] + Len(enc[g + 1]) <= base + Len(s) + 1
    BY <1>2, <1>4, PlacedTypes
  <1>. QED
    BY <1>3, <1>5
-----------------------------------------------------------------------------
(* The invariant.                                                            *)

\* Bytes of a frame the parser is in, bytes it has still to get, and both
Partial == IF state = "Sync" THEN <<>> ELSE span
Unread == chunk \o (rx \o line)
Stream == Partial \o Unread

StreamTypes ==
  /\ transport \in {"port", "buffer"} /\ phase \in {"idle", "read", "feed", "feed_full"}
  /\ line \in Seq(Byte) /\ rx \in Seq(Byte) /\ chunk \in Seq(Byte) /\ owed \in Nat
  /\ sent \in Seq(SentFrames) /\ got \in Seq(Frame) /\ clean \in BOOLEAN

Polling ==
  /\ transport = "port" => rx = <<>>
  /\ phase \in {"feed", "feed_full"} <=> chunk # <<>>
  /\ phase \in {"idle", "feed"} => owed = 0
  /\ phase \in {"read", "feed_full"} => owed <= Len(Available)

\* A parser in a frame is in the first one not yet returned, and not at its end
InFirst(base, at, enc) ==
  state # "Sync" => /\ Len(got) < Len(sent) /\ at[Len(got) + 1] = base + 1
                    /\ Len(span) < Len(enc[Len(got) + 1])

Plan ==
  clean =>
  /\ Len(got) <= Len(sent) /\ \A i \in 1..Len(got) : got[i] = sent[i]
  /\ \E base, at, enc : Placed(Stream, Len(got), sent, base, at, enc) /\ InFirst(base, at, enc)

StreamInv == Inv /\ StreamTypes /\ Polling /\ Plan

(* The stream is a sequence of bytes.                                        *)
LEMMA StreamType ==
  ASSUME Inv, StreamTypes
  PROVE  /\ Partial \in Seq(Byte) /\ rx \o line \in Seq(Byte) /\ Unread \in Seq(Byte)
         /\ Stream \in Seq(Byte) /\ Len(Stream) = Len(Partial) + Len(Unread)
  <1>1. Partial \in Seq(Byte)
    BY DEF Inv, TypeOK, Partial
  <1>2. rx \o line \in Seq(Byte)
    BY DEF StreamTypes
  <1>3. Unread \in Seq(Byte)
    BY <1>2 DEF StreamTypes, Unread
  <1>. QED
    BY <1>1, <1>2, <1>3 DEF Stream

(* Nothing is sent, nothing is returned.                                     *)
LEMMA StreamInitInv == StreamInit => StreamInv
  <1> SUFFICES ASSUME StreamInit PROVE StreamInv
    OBVIOUS
  <1>1. Inv
    BY InitInv DEF StreamInit
  <1>2. StreamTypes /\ Polling
    BY DEF StreamInit, StreamTypes, Polling, Available
  <1>3. Stream = <<>> /\ state = "Sync" /\ Len(got) = 0 /\ Len(sent) = 0
    BY DEF StreamInit, Init, Stream, Partial, Unread
  <1>4. Placed(<<>>, 0, <<>>, 0, [i \in 1..0 |-> 0], [i \in 1..0 |-> <<>>])
    BY DEF Placed
  <1>5. Placed(Stream, Len(got), sent, 0, [i \in 1..0 |-> 0], [i \in 1..0 |-> <<>>])
    BY <1>3, <1>4 DEF StreamInit
  <1>6. Plan
    BY <1>3, <1>5 DEF Plan, InFirst
  <1>. QED
    BY <1>1, <1>2, <1>6 DEF StreamInv

(* A step that leaves the parser, the frames sent and returned and the       *)
(* stream of bytes alone keeps the plan.                                     *)
LEMMA PlanSame ==
  ASSUME Plan, UNCHANGED <<vars, sent, got>>, clean' => clean /\ Unread' = Unread
  PROVE  Plan'
  <1>1. state' = state /\ span' = span /\ sent' = sent /\ got' = got
    BY DEF vars
  <1>2. SUFFICES ASSUME clean' PROVE Plan'
    BY DEF Plan
  <1>3. Stream' = Stream
    BY <1>1, <1>2 DEF Stream, Partial
  <1>4. PICK base, at, enc : Placed(Stream, Len(got), sent, base, at, enc) /\ InFirst(base, at, enc)
    BY <1>2 DEF Plan
  <1>5. Placed(Stream', Len(got'), sent', base, at, enc) /\ InFirst(base, at, enc)'
    BY <1>1, <1>3, <1>4 DEF InFirst
  <1>6. Len(got') <= Len(sent') /\ \A i \in 1..Len(got') : got'[i] = sent'[i]
    BY <1>1, <1>2 DEF Plan
  <1>. QED
    BY <1>5, <1>6 DEF Plan

(* sendFrame.                                                                *)
LEMMA SendFrameInv ==
  ASSUME StreamInv, NEW f \in SentFrames, NEW src \in Nodes, NEW cmd \in Commands,
         SendFrame(f, src, cmd)
  PROVE  StreamTypes' /\ Polling' /\ Plan'
  <1> DEFINE e == Encode(f, src, cmd)
  <1>1. /\ Inv /\ StreamTypes /\ Polling /\ Plan
        /\ chunk = <<>> /\ line' = line \o e
        /\ vars' = vars /\ transport' = transport /\ rx' = rx /\ phase' = phase
        /\ chunk' = chunk /\ owed' = owed /\ state' = state /\ span' = span
    BY DEF StreamInv, SendFrame, hostVars, vars
  <1>2. \/ /\ Consumed /\ state = "Sync"
           /\ sent' = <<f>> /\ got' = <<>> /\ clean' = TRUE
        \/ sent' = Append(sent, f) /\ got' = got /\ clean' = clean
    BY DEF SendFrame
  <1>3. e \in Encodings(f)
    BY DEF Encodings
  <1>4. e \in Seq(Byte) /\ Len(e) \in Nat
    BY <1>3, EncodingFacts
  <1> HIDE DEF e
  <1>5. line' \in Seq(Byte) /\ Len(line') = Len(line) + Len(e) /\ line \in Seq(Byte) /\ Len(line) \in Nat
    BY <1>1, <1>4 DEF StreamTypes
  <1>6. sent' \in Seq(SentFrames) /\ got' \in Seq(Frame) /\ clean' \in BOOLEAN
    <2>1. sent \in Seq(SentFrames) /\ got \in Seq(Frame) /\ clean \in BOOLEAN
      BY <1>1 DEF StreamTypes
    <2>2. <<f>> \in Seq(SentFrames) /\ <<>> \in Seq(Frame) /\ Append(sent, f) \in Seq(SentFrames)
      BY <2>1
    <2>. QED
      BY <1>2, <2>1, <2>2
  <1>7. StreamTypes'
    BY <1>1, <1>5, <1>6 DEF StreamTypes
  <1>8. Polling'
    <2>1. Len(Available) <= Len(Available') /\ Len(Available) \in Nat /\ Len(Available') \in Nat
      <3>1. rx \in Seq(Byte) /\ rx' = rx /\ transport' = transport
        BY <1>1 DEF StreamTypes
      <3>2. Len(rx) \in Nat /\ Len(line') \in Nat /\ Len(line) <= Len(line')
        BY <1>4, <1>5, <3>1
      <3>. QED
        BY <1>5, <3>1, <3>2 DEF Available
    <2>2. owed \in Nat
      BY <1>1 DEF StreamTypes
    <2>. QED
      BY <1>1, <2>1, <2>2 DEF Polling
  <1>9. Stream' = Stream \o e /\ Stream \in Seq(Byte)
    <2>1. /\ Partial' = Partial /\ Partial \in Seq(Byte) /\ rx \in Seq(Byte) /\ line \in Seq(Byte)
          /\ rx \o line \in Seq(Byte) /\ Unread \in Seq(Byte) /\ Stream \in Seq(Byte)
      <3>1. Partial' = Partial
        BY <1>1 DEF Partial
      <3>2. rx \in Seq(Byte) /\ line \in Seq(Byte)
        BY <1>1 DEF StreamTypes
      <3>3. Partial \in Seq(Byte) /\ rx \o line \in Seq(Byte) /\ Unread \in Seq(Byte) /\ Stream \in Seq(Byte)
        BY <1>1, StreamType
      <3>. QED
        BY <3>1, <3>2, <3>3
    <2>2. rx \o (line \o e) = (rx \o line) \o e
      BY <1>4, <2>1, ConcatAssoc
    <2>3. Unread = rx \o line /\ Unread' = (rx \o line) \o e
      <3>1. \A s \in Seq(Byte) : <<>> \o s = s
        OBVIOUS
      <3>2. (rx \o line) \o e \in Seq(Byte)
        BY <1>4, <2>1
      <3>3. Unread = <<>> \o (rx \o line) /\ Unread' = <<>> \o (rx \o (line \o e))
        BY <1>1 DEF Unread
      <3>. QED
        BY <2>1, <2>2, <3>1, <3>2, <3>3
    <2>4. Partial \o (Unread \o e) = (Partial \o Unread) \o e
      BY <1>4, <2>1, ConcatAssoc
    <2>. QED
      BY <2>1, <2>3, <2>4 DEF Stream
  <1>10. CASE Consumed /\ state = "Sync" /\ sent' = <<f>> /\ got' = <<>> /\ clean' = TRUE
    <2>1. Stream = <<>>
      BY <1>10 DEF Consumed, Stream, Unread, Partial
    <2>2. Placed(<<>>, 0, <<>>, 0, [i \in 1..0 |-> 0], [i \in 1..0 |-> <<>>])
      BY DEF Placed
    <2>3. <<>> \in Seq(Byte) /\ 0 \in Nat /\ <<>> \in Seq(SentFrames) /\ 0 <= Len(<<>>)
      OBVIOUS
    <2>4. PICK at2, enc2 : Placed(<<>> \o e, 0, Append(<<>>, f), 0, at2, enc2)
      BY <1>3, <2>2, <2>3, PlacedSend
    <2>5. Append(<<>>, f) = <<f>> /\ Len(<<>>) = 0
      OBVIOUS
    <2>6. Placed(Stream', Len(got'), sent', 0, at2, enc2)
      BY <1>9, <1>10, <2>1, <2>4, <2>5
    <2>7. InFirst(0, at2, enc2)'
      BY <1>1, <1>10 DEF InFirst
    <2>8. Len(got') <= Len(sent') /\ \A i \in 1..Len(got') : got'[i] = sent'[i]
      BY <1>10
    <2>9. Plan'
      BY <2>6, <2>7, <2>8 DEF Plan
    <2>. QED
      BY <1>7, <1>8, <2>9
  <1>11. CASE sent' = Append(sent, f) /\ got' = got /\ clean' = clean
    <2>1. SUFFICES ASSUME clean' PROVE Plan'
      BY <1>7, <1>8 DEF Plan
    <2>2. PICK base, at, enc : Placed(Stream, Len(got), sent, base, at, enc) /\ InFirst(base, at, enc)
      BY <1>1, <1>11, <2>1 DEF Plan
    <2>3. /\ Len(got) \in Nat /\ sent \in Seq(SentFrames) /\ Len(got) <= Len(sent)
          /\ got \in Seq(Frame) /\ Len(sent) \in Nat
      BY <1>1, <1>11, <2>1 DEF StreamTypes, Plan
    <2>4. PICK at2, enc2 : /\ Placed(Stream \o e, Len(got), Append(sent, f), base, at2, enc2)
                           /\ \A i \in 1..Len(sent) : at2[i] = at[i] /\ enc2[i] = enc[i]
      BY <1>3, <1>9, <2>2, <2>3, PlacedSend
    <2>5. Placed(Stream', Len(got'), sent', base, at2, enc2)
      BY <1>9, <1>11, <2>4
    <2>6. /\ Len(sent') = Len(sent) + 1 /\ \A i \in 1..Len(sent) : sent'[i] = sent[i]
      BY <1>11, <2>3
    <2>7. InFirst(base, at2, enc2)'
      <3>1. SUFFICES ASSUME state # "Sync"
                     PROVE  /\ Len(got) < Len(sent') /\ at2[Len(got) + 1] = base + 1
                            /\ Len(span) < Len(enc2[Len(got) + 1])
        BY <1>1, <1>11 DEF InFirst
      <3>2. /\ Len(got) < Len(sent) /\ at[Len(got) + 1] = base + 1
            /\ Len(span) < Len(enc[Len(got) + 1])
        BY <2>2, <3>1 DEF InFirst
      <3>3. Len(got) + 1 \in 1..Len(sent) /\ Len(got) < Len(sent')
        BY <2>3, <2>6, <3>2
      <3>. QED
        BY <2>4, <3>2, <3>3
    <2>8. Len(got') <= Len(sent') /\ \A i \in 1..Len(got') : got'[i] = sent'[i]
      <3>1. \A i \in 1..Len(got) : got[i] = sent[i] /\ i \in 1..Len(sent)
        BY <1>1, <1>11, <2>1, <2>3 DEF Plan
      <3>. QED
        BY <1>11, <2>3, <2>6, <3>1
    <2>. QED
      BY <2>5, <2>7, <2>8 DEF Plan
  <1>. QED
    BY <1>2, <1>10, <1>11

(* Line noise.                                                               *)
LEMMA LineNoiseInv ==
  ASSUME StreamInv, NEW b \in Noise, LineNoise(b)
  PROVE  StreamTypes' /\ Polling' /\ Plan'
  <1>1. /\ Inv /\ StreamTypes /\ Polling /\ Plan /\ b \in Byte
        /\ chunk = <<>> /\ line' = Append(line, b) /\ clean' = (clean /\ b # SYNC_BYTE)
        /\ vars' = vars /\ transport' = transport /\ rx' = rx /\ phase' = phase
        /\ chunk' = chunk /\ owed' = owed /\ state' = state /\ span' = span
        /\ sent' = sent /\ got' = got
    BY NoiseAssumption DEF StreamInv, LineNoise, hostVars, vars
  <1>2. line' \in Seq(Byte) /\ Len(line') = Len(line) + 1 /\ line \in Seq(Byte) /\ Len(line) \in Nat
    BY <1>1 DEF StreamTypes
  <1>3. StreamTypes'
    BY <1>1, <1>2 DEF StreamTypes
  <1>4. Polling'
    <2>1. Len(Available) <= Len(Available') /\ Len(Available) \in Nat /\ Len(Available') \in Nat
      BY <1>1, <1>2 DEF Available, StreamTypes
    <2>2. owed \in Nat
      BY <1>1 DEF StreamTypes
    <2>. QED
      BY <1>1, <2>1, <2>2 DEF Polling
  <1>5. Stream' = Stream \o <<b>> /\ Stream \in Seq(Byte)
    <2>1. /\ Partial' = Partial /\ Partial \in Seq(Byte) /\ rx \in Seq(Byte) /\ line \in Seq(Byte)
          /\ chunk \in Seq(Byte) /\ rx \o line \in Seq(Byte) /\ Unread \in Seq(Byte) /\ Stream \in Seq(Byte)
      BY <1>1, StreamType DEF Partial, StreamTypes
    <2>2. rx \o Append(line, b) = Append(rx \o line, b)
      BY <1>1, <2>1, AppendConcat
    <2>3. chunk \o Append(rx \o line, b) = Append(chunk \o (rx \o line), b)
      BY <1>1, <2>1, AppendConcat
    <2>4. Unread' = Append(Unread, b)
      BY <1>1, <2>2, <2>3 DEF Unread
    <2>5. Partial \o Append(Unread, b) = Append(Partial \o Unread, b)
          /\ Append(Partial \o Unread, b) = (Partial \o Unread) \o <<b>>
      <3>1. Partial \in Seq(Byte) /\ Unread \in Seq(Byte) /\ b \in Byte
        BY <1>1, <2>1
      <3>. QED
        BY <3>1, AppendConcat
    <2>. QED
      BY <2>1, <2>4, <2>5 DEF Stream
  <1>6. Plan'
    <2>1. SUFFICES ASSUME clean' PROVE Plan'
      BY DEF Plan
    <2>2. PICK base, at, enc : Placed(Stream, Len(got), sent, base, at, enc) /\ InFirst(base, at, enc)
      BY <1>1, <2>1 DEF Plan
    <2>3. Len(got) \in Nat /\ sent \in Seq(SentFrames)
      BY <1>1 DEF StreamTypes
    <2>4. Placed(Stream \o <<b>>, Len(got), sent, base, at, enc)
      BY <1>1, <1>5, <2>1, <2>2, <2>3, PlacedNoise
    <2>5. InFirst(base, at, enc)'
      BY <1>1, <2>2 DEF InFirst
    <2>6. Len(got') <= Len(sent') /\ \A i \in 1..Len(got') : got'[i] = sent'[i]
      BY <1>1, <2>1 DEF Plan
    <2>7. Placed(Stream', Len(got'), sent', base, at, enc)
      BY <1>1, <1>5, <2>4
    <2>. QED
      BY <2>5, <2>6, <2>7 DEF Plan
  <1>. QED
    BY <1>3, <1>4, <1>6

(* WasmClient::feed_bytes.                                                   *)
LEMMA PageFeedsInv ==
  ASSUME StreamInv, PageFeeds
  PROVE  StreamTypes' /\ Polling' /\ Plan'
  <1> DEFINE all == rx \o line
             overflow == IF Len(all) > RX_CAP THEN Len(all) - RX_CAP ELSE 0
  <1>1. /\ Inv /\ StreamTypes /\ Polling /\ Plan
        /\ transport = "buffer" /\ phase = "idle" /\ line' = <<>>
        /\ rx' = SubSeq(all, overflow + 1, Len(all)) /\ clean' = (clean /\ overflow = 0)
        /\ vars' = vars /\ transport' = transport /\ phase' = phase
        /\ chunk' = chunk /\ owed' = owed /\ sent' = sent /\ got' = got
    BY DEF StreamInv, PageFeeds
  <1>2. all \in Seq(Byte) /\ Len(all) \in Nat /\ overflow \in 0..Len(all)
    <2>1. all \in Seq(Byte) /\ Len(all) \in Nat
      BY <1>1 DEF StreamTypes
    <2>2. RX_CAP \in Nat
      BY BuffersAssumption
    <2> HIDE DEF all
    <2>. QED
      BY <2>1, <2>2
  <1> HIDE DEF all, overflow
  <1>3. rx' \in Seq(Byte)
    BY <1>1, <1>2
  <1>4. StreamTypes'
    BY <1>1, <1>3 DEF StreamTypes
  <1>5. Polling'
    BY <1>1 DEF Polling
  <1>6. overflow = 0 => rx' = all
    <2>1. \A s \in Seq(Byte) : SubSeq(s, 1, Len(s)) = s
      OBVIOUS
    <2>. QED
      BY <1>1, <1>2, <2>1
  <1>7. overflow = 0 => Unread' = Unread
    <2>1. all \o <<>> = all
      BY <1>2, ConcatAssoc
    <2>. QED
      BY <1>1, <1>6, <2>1 DEF Unread, all
  <1>8. Plan'
    BY <1>1, <1>7, PlanSame
  <1>. QED
    BY <1>4, <1>5, <1>8

(* A poll begins, or ends with nothing read.                                 *)
LEMMA PollEndsInv ==
  ASSUME StreamInv, BeginPoll \/ ReadNothing \/ ReadFails
  PROVE  StreamTypes' /\ Polling' /\ Plan'
  <1>1. /\ Inv /\ StreamTypes /\ Polling /\ Plan
        /\ vars' = vars /\ transport' = transport /\ line' = line /\ rx' = rx
        /\ chunk' = chunk /\ sent' = sent /\ got' = got /\ clean' = clean
    BY DEF StreamInv, BeginPoll, ReadNothing, ReadFails, histories
  <1>2. /\ phase \in {"idle", "read"}
        /\ \/ phase' = "read" /\ owed' = Len(Available)
           \/ phase' = "idle" /\ owed' = owed /\ phase = "read" /\ Available = <<>>
           \/ phase' = "idle" /\ owed' = 0
    BY DEF BeginPoll, ReadNothing, ReadFails
  <1>3. Available' = Available /\ Len(Available) \in Nat /\ owed \in Nat
    BY <1>1 DEF Available, StreamTypes
  <1>4. chunk = <<>> /\ (phase = "read" => owed <= Len(Available))
    BY <1>1, <1>2 DEF Polling
  <1>5. owed' \in Nat /\ owed' <= Len(Available) /\ (phase' = "idle" => owed' = 0)
    <2>1. Available = <<>> => Len(Available) = 0
      OBVIOUS
    <2>. QED
      BY <1>2, <1>3, <1>4, <2>1
  <1>6. StreamTypes'
    BY <1>1, <1>2, <1>5 DEF StreamTypes
  <1>7. Polling'
    <2>1. phase' \in {"idle", "read"}
      BY <1>2
    <2>. QED
      BY <1>1, <1>3, <1>4, <1>5, <2>1 DEF Polling
  <1>8. Plan'
    BY <1>1, PlanSame DEF Unread
  <1>. QED
    BY <1>6, <1>7, <1>8

(* Transport::read.                                                          *)
LEMMA ReadSomeInv ==
  ASSUME StreamInv, ReadSome
  PROVE  StreamTypes' /\ Polling' /\ Plan'
  <1> DEFINE av == Available
             n == IF Len(av) < READ_BUF_SIZE THEN Len(av) ELSE READ_BUF_SIZE
             rest == SubSeq(av, n + 1, Len(av))
  <1>1. /\ Inv /\ StreamTypes /\ Polling /\ Plan
        /\ phase = "read" /\ av # <<>> /\ chunk' = SubSeq(av, 1, n)
        /\ phase' = (IF n < READ_BUF_SIZE THEN "feed" ELSE "feed_full")
        /\ owed' = (IF owed > n THEN owed - n ELSE 0)
        /\ IF transport = "buffer" THEN rx' = rest /\ line' = line ELSE line' = rest /\ rx' = rx
        /\ vars' = vars /\ transport' = transport /\ sent' = sent /\ got' = got /\ clean' = clean
    BY DEF StreamInv, ReadSome, histories
  <1>2. /\ av \in Seq(Byte) /\ Len(av) \in Nat \ {0} /\ owed \in Nat
        /\ READ_BUF_SIZE \in Nat \ {0}
    BY <1>1, BuffersAssumption DEF Available, StreamTypes
  <1>3. chunk = <<>> /\ owed <= Len(av) /\ (transport = "port" => rx = <<>>)
    BY <1>1 DEF Polling
  <1>4. transport \in {"port", "buffer"} /\ rx \in Seq(Byte) /\ line \in Seq(Byte)
    BY <1>1 DEF StreamTypes
  <1>5. av = IF transport = "buffer" THEN rx ELSE line
    BY DEF Available
  <1> HIDE DEF av
  <1>6. n \in 1..Len(av) /\ n <= READ_BUF_SIZE /\ (n < READ_BUF_SIZE => n = Len(av))
    BY <1>2
  <1> HIDE DEF n
  <1>7. /\ chunk' \in Seq(Byte) /\ Len(chunk') = n /\ rest \in Seq(Byte) /\ Len(rest) = Len(av) - n
    BY <1>1, <1>2, <1>6
  <1>8. chunk' \o rest = av
    BY <1>1, <1>2, <1>6, CutFacts
  <1> HIDE DEF rest
  <1>9. owed' \in Nat /\ owed' <= Len(av) - n /\ (n < READ_BUF_SIZE => owed' = 0)
    BY <1>1, <1>2, <1>3, <1>6
  <1>10. StreamTypes'
    BY <1>1, <1>4, <1>7, <1>9 DEF StreamTypes
  <1>11. Polling'
    <2>1. chunk' # <<>>
      BY <1>6, <1>7
    <2>2. Available' = rest
      BY <1>1, <1>4 DEF Available
    <2>3. transport' = "port" => rx' = <<>>
      BY <1>1, <1>3
    <2>4. CASE n < READ_BUF_SIZE
      <3>1. phase' = "feed" /\ owed' = 0
        BY <1>1, <1>9, <2>4
      <3>. QED
        BY <2>1, <2>3, <3>1 DEF Polling
    <2>5. CASE ~(n < READ_BUF_SIZE)
      <3>1. phase' = "feed_full" /\ owed' <= Len(Available')
        BY <1>1, <1>7, <1>9, <2>2, <2>5
      <3>. QED
        BY <2>1, <2>3, <3>1 DEF Polling
    <2>. QED
      BY <2>4, <2>5
  <1>12. Unread' = Unread
    <2>1. \A s \in Seq(Byte) : <<>> \o s = s
      OBVIOUS
    <2>2. Unread = rx \o line
      <3>1. rx \o line \in Seq(Byte)
        BY <1>4
      <3>. QED
        BY <1>3, <2>1, <3>1 DEF Unread
    <2>3. CASE transport = "buffer"
      <3>1. Unread' = chunk' \o (rest \o line) /\ av = rx
        BY <1>1, <1>5, <2>3 DEF Unread
      <3>2. (chunk' \o rest) \o line = chunk' \o (rest \o line)
        BY <1>4, <1>7, ConcatAssoc
      <3>. QED
        BY <1>8, <2>2, <3>1, <3>2
    <2>4. CASE transport = "port"
      <3>1. Unread' = chunk' \o (rx \o rest) /\ av = line /\ rx = <<>>
        BY <1>1, <1>3, <1>5, <2>4 DEF Unread
      <3>. QED
        BY <1>4, <1>7, <1>8, <2>1, <2>2, <3>1
    <2>. QED
      BY <1>4, <2>3, <2>4
  <1>13. Plan'
    BY <1>1, <1>12, PlanSame
  <1>. QED
    BY <1>10, <1>11, <1>13
(* A sequence whose second part gives its head to the first is the same.     *)
LEMMA Absorb ==
  ASSUME NEW s \in Seq(Byte), NEW t \in Seq(Byte), t # <<>>
  PROVE  Append(s, Head(t)) \o Tail(t) = s \o t
  <1>1. /\ Len(t) \in Nat \ {0} /\ Head(t) = t[1] /\ Head(t) \in Byte /\ Tail(t) \in Seq(Byte)
        /\ Len(Tail(t)) = Len(t) - 1 /\ Len(s) \in Nat
        /\ \A i \in 1..Len(t) - 1 : Tail(t)[i] = t[i + 1]
    OBVIOUS
  <1> DEFINE u == Append(s, Head(t))
             v == Tail(t)
  <1>2. /\ u \in Seq(Byte) /\ Len(u) = Len(s) + 1 /\ u[Len(s) + 1] = t[1]
        /\ \A i \in 1..Len(s) : u[i] = s[i]
    BY <1>1
  <1>3. v \in Seq(Byte) /\ Len(v) = Len(t) - 1 /\ \A i \in 1..Len(t) - 1 : v[i] = t[i + 1]
    BY <1>1
  <1> HIDE DEF u, v
  <1>4. /\ u \o v \in Seq(Byte) /\ Len(u \o v) = Len(u) + Len(v)
        /\ \A i \in 1..Len(u) : (u \o v)[i] = u[i]
        /\ \A i \in 1..Len(v) : (u \o v)[Len(u) + i] = v[i]
    <2>1. u \in Seq(Byte) /\ v \in Seq(Byte)
      BY <1>2, <1>3
    <2>. QED
      BY <2>1, ConcatAt
  <1>5. /\ s \o t \in Seq(Byte) /\ Len(s \o t) = Len(s) + Len(t)
        /\ \A i \in 1..Len(s) : (s \o t)[i] = s[i]
        /\ \A i \in 1..Len(t) : (s \o t)[Len(s) + i] = t[i]
    BY ConcatAt
  <1>6. ASSUME NEW i \in 1..Len(s) + Len(t) PROVE (u \o v)[i] = (s \o t)[i]
    <2>1. CASE i \in 1..Len(s)
      <3>1. i \in 1..Len(u)
        BY <1>1, <1>2, <2>1
      <3>. QED
        BY <1>2, <1>4, <1>5, <2>1, <3>1
    <2>2. CASE i = Len(s) + 1
      <3>1. i \in 1..Len(u) /\ 1 \in 1..Len(t)
        BY <1>1, <1>2, <2>2
      <3>. QED
        BY <1>2, <1>4, <1>5, <2>2, <3>1
    <2>3. CASE i > Len(s) + 1
      <3> DEFINE j == i - (Len(s) + 1)
      <3>1. j \in 1..Len(t) - 1 /\ j \in 1..Len(v) /\ j + 1 \in 1..Len(t)
            /\ i = Len(u) + j /\ i = Len(s) + (j + 1)
        BY <1>1, <1>2, <1>3, <2>3
      <3> HIDE DEF j
      <3>. QED
        BY <1>3, <1>4, <1>5, <3>1
    <2>4. i \in 1..Len(s) \/ i = Len(s) + 1 \/ i > Len(s) + 1
      <3>1. Len(s) \in Nat /\ Len(t) \in Nat
        BY <1>1
      <3>. QED
        BY <3>1
    <2>. QED
      BY <2>1, <2>2, <2>3, <2>4
  <1>7. Len(u \o v) = Len(s) + Len(t)
    BY <1>1, <1>2, <1>3, <1>4
  <1>8. u \o v = s \o t
    BY <1>4, <1>5, <1>6, <1>7, SeqEq
  <1>. QED
    BY <1>8 DEF u, v

(* FrameParser::feed on the next byte of the stream.                         *)
LEMMA DeliverPlan ==
  ASSUME StreamInv, Deliver
  PROVE  Plan'
  <1> DEFINE b == Head(chunk)
             g == Len(got)
  <1>1. /\ Inv /\ StreamTypes /\ Plan /\ chunk # <<>> /\ Feed(b) /\ chunk' = Tail(chunk)
        /\ got' = got \o out' /\ line' = line /\ rx' = rx /\ sent' = sent /\ clean' = clean
    BY DEF StreamInv, Deliver
  <1>2. /\ Partial \in Seq(Byte) /\ Unread \in Seq(Byte) /\ Stream \in Seq(Byte)
        /\ chunk \in Seq(Byte) /\ rx \o line \in Seq(Byte) /\ b \in Byte
        /\ sent \in Seq(SentFrames) /\ got \in Seq(Frame) /\ g \in Nat /\ Len(sent) \in Nat
        /\ span \in Seq(Byte) /\ Len(span) \in Nat
    BY <1>1, StreamType DEF StreamTypes, Inv, TypeOK
  <1>3. /\ Unread # <<>> /\ Unread[1] = b /\ Unread' = Tail(Unread)
    <2>1. chunk \in Seq(Byte) /\ rx \o line \in Seq(Byte) /\ chunk # <<>>
      BY <1>1, <1>2
    <2>2. Tail(chunk) \o (rx \o line) = Tail(chunk \o (rx \o line))
      BY <2>1, PartsFacts
    <2>3. (chunk \o (rx \o line))[1] = Head(chunk)
      BY <2>1, PartsFacts
    <2>4. chunk \o (rx \o line) # <<>>
      BY <2>1, PartsFacts
    <2>. QED
      BY <1>1, <2>2, <2>3, <2>4 DEF Unread
  <1>4. /\ Tail(Unread) \in Seq(Byte) /\ Len(Unread) \in Nat \ {0} /\ Head(Unread) = b
        /\ <<b>> \in Seq(Byte) /\ Len(<<b>>) = 1
    BY <1>2, <1>3
  <1> HIDE DEF b
  <1>5. SUFFICES ASSUME clean PROVE Plan'
    BY <1>1 DEF Plan
  <1>6. PICK base, at, enc : Placed(Stream, g, sent, base, at, enc) /\ InFirst(base, at, enc)
    BY <1>1, <1>5 DEF Plan
  <1>7. g <= Len(sent) /\ \A i \in 1..g : got[i] = sent[i]
    BY <1>1, <1>5 DEF Plan
  <1>8. /\ base \in Nat
        /\ \A i \in g + 1..Len(sent) :
              /\ at[i] \in Nat /\ sent[i] \in SentFrames
              /\ enc[i] \in Encodings(sent[i]) /\ enc[i] \in Seq(Byte)
              /\ Len(enc[i]) \in Nat \ {0} /\ enc[i][1] = SYNC_BYTE
              /\ at[i] > base /\ at[i] + Len(enc[i]) <= base + Len(Stream) + 1
              /\ \A k \in 1..Len(enc[i]) : Stream[at[i] - base + k - 1] = enc[i][k]
    BY <1>2, <1>6, PlacedTypes
  <1>9. got \o <<>> = got
    BY <1>2
  <1>10. CASE state = "Sync"
    <2>1. Stream = Unread
      <3>1. \A s \in Seq(Byte) : <<>> \o s = s
        OBVIOUS
      <3>. QED
        BY <1>2, <1>10, <3>1 DEF Stream, Partial
    <2>2. FeedSync(b)
      BY <1>1, <1>10 DEF Feed, FeedSource, FeedType, FeedCommand, FeedLengthLo,
         FeedLengthHi, FeedData, FeedCrc
    <2>3. got' = got
      BY <1>1, <1>9, <2>2 DEF FeedSync
    <2>4. CASE b = SYNC_BYTE
      <3>1. state' # "Sync" /\ span' = <<b>>
        BY <2>2, <2>4 DEF FeedSync
      <3>2. Stream' = <<b>> \o Tail(Unread)
        BY <1>3, <3>1 DEF Stream, Partial
      <3>3. <<b>> \o Tail(Unread) = Unread
        <4>1. Append(<<>>, Head(Unread)) \o Tail(Unread) = <<>> \o Unread
          BY <1>2, <1>3, Absorb
        <4>2. Append(<<>>, b) = <<b>> /\ <<>> \o Unread = Unread
          BY <1>2
        <4>. QED
          BY <1>4, <4>1, <4>2
      <3>4. Placed(Stream', Len(got'), sent', base, at, enc)
        BY <1>1, <1>6, <2>1, <2>3, <3>2, <3>3
      <3>5. g < Len(sent) /\ at[g + 1] = base + 1
        BY <1>2, <1>3, <1>6, <2>1, <2>4, PlacedFirst
      <3>6. Len(span') < Len(enc[g + 1])
        <4>1. g + 1 \in g + 1..Len(sent)
          BY <1>2, <3>5
        <4>2. PICK src, cmd : Spells(enc[g + 1], sent[g + 1], src, cmd)
          BY <1>8, <4>1, EncodingFacts
        <4>3. Len(enc[g + 1]) >= 3 /\ Len(enc[g + 1]) \in Nat
          BY <1>8, <4>1, <4>2, SentIsSendable, SpelledLength
        <4>4. Len(span') = 1
          BY <1>4, <3>1
        <4>. QED
          BY <4>3, <4>4
      <3>7. InFirst(base, at, enc)'
        BY <1>1, <2>3, <3>5, <3>6 DEF InFirst
      <3>. QED
        BY <1>1, <1>7, <2>3, <3>4, <3>7 DEF Plan
    <2>5. CASE b # SYNC_BYTE
      <3>1. state' = "Sync"
        BY <1>10, <2>2, <2>5 DEF FeedSync
      <3>2. Stream' = Tail(Unread)
        <4>1. \A s \in Seq(Byte) : <<>> \o s = s
          OBVIOUS
        <4>. QED
          BY <1>3, <1>4, <3>1, <4>1 DEF Stream, Partial
      <3>3. Unread = <<b>> \o Tail(Unread)
        <4>1. Append(<<>>, Head(Unread)) \o Tail(Unread) = <<>> \o Unread
          BY <1>2, <1>3, Absorb
        <4>2. Append(<<>>, b) = <<b>> /\ <<>> \o Unread = Unread
          BY <1>2
        <4>. QED
          BY <1>4, <4>1, <4>2
      <3>4. Placed(<<b>> \o Tail(Unread), g, sent, base, at, enc)
        BY <1>6, <2>1, <3>3
      <3>5. \A i \in g + 1..Len(sent) : at[i] > base + Len(<<b>>)
        <4>1. ASSUME NEW i \in g + 1..Len(sent), at[i] = base + 1 PROVE FALSE
          <5>1. 1 \in 1..Len(enc[i]) /\ at[i] - base + 1 - 1 = 1
            BY <1>8, <4>1
          <5>2. Stream[at[i] - base + 1 - 1] = enc[i][1]
            BY <1>8, <5>1
          <5>3. Stream[1] = SYNC_BYTE
            BY <1>8, <5>1, <5>2
          <5>. QED
            BY <1>3, <2>1, <2>5, <5>3
        <4>2. ASSUME NEW i \in g + 1..Len(sent) PROVE at[i] > base + 1
          <5>1. at[i] \in Nat /\ at[i] > base /\ base \in Nat /\ at[i] # base + 1
            BY <1>8, <4>1
          <5>. QED
            BY <5>1
        <4>. QED
          BY <1>4, <4>2
      <3>6. \A i \in g + 1..Len(sent) : i <= g => at[i] + Len(enc[i]) <= base + Len(<<b>>) + 1
        BY <1>2
      <3>7. Placed(Tail(Unread), g, sent, base + Len(<<b>>), at, enc)
        <4>1. g >= g
          BY <1>2
        <4>. QED
          BY <1>2, <1>4, <3>4, <3>5, <3>6, <4>1, PlacedDrop
      <3>8. Placed(Stream', Len(got'), sent', base + 1, at, enc)
        BY <1>1, <1>4, <2>3, <3>2, <3>7
      <3>9. InFirst(base + 1, at, enc)'
        BY <3>1 DEF InFirst
      <3>. QED
        BY <1>1, <1>7, <2>3, <3>8, <3>9 DEF Plan
    <2>. QED
      BY <2>4, <2>5
  <1>11. CASE state # "Sync"
    <2> DEFINE e == enc[g + 1]
               f == sent[g + 1]
    <2>1. g < Len(sent) /\ at[g + 1] = base + 1 /\ Len(span) < Len(e)
      BY <1>6, <1>11 DEF InFirst
    <2>2. g + 1 \in g + 1..Len(sent)
      BY <1>2, <2>1
    <2>3. /\ e \in Encodings(f) /\ f \in SentFrames /\ e \in Seq(Byte) /\ Len(e) \in Nat \ {0}
          /\ 1 + Len(e) <= Len(Stream) + 1
      <3>1. /\ e \in Encodings(f) /\ f \in SentFrames /\ e \in Seq(Byte) /\ Len(e) \in Nat \ {0}
            /\ at[g + 1] + Len(e) <= base + Len(Stream) + 1
        BY <1>8, <2>2
      <3>2. \A o, n, m \in Nat : o + 1 + n <= o + m + 1 => 1 + n <= m + 1
        OBVIOUS
      <3>3. base \in Nat /\ Len(e) \in Nat /\ Len(Stream) \in Nat /\ at[g + 1] = base + 1
        BY <1>2, <1>8, <2>1, <3>1
      <3> HIDE DEF e, f
      <3>4. 1 + Len(e) <= Len(Stream) + 1
        BY <3>1, <3>2, <3>3
      <3>. QED
        BY <3>1, <3>4
    <2>4. \A k \in 1..Len(e) : Stream[k] = e[k]
      <3>1. ASSUME NEW k \in 1..Len(e) PROVE Stream[k] = e[k]
        <4>1. Stream[at[g + 1] - base + k - 1] = e[k]
          BY <1>8, <2>2
        <4>2. at[g + 1] - base + k - 1 = k
          BY <1>8, <2>1, <2>3
        <4>. QED
          BY <4>1, <4>2
      <3>. QED
        BY <3>1
    <2> HIDE DEF e, f
    <2>5. Stream = span \o Unread
      BY <1>11 DEF Stream, Partial
    <2>6. /\ \A j \in 1..Len(span) : span[j] = e[j]
          /\ b = e[Len(span) + 1]
      <3>1. /\ \A j \in 1..Len(span) : Stream[j] = span[j]
            /\ \A j \in 1..Len(Unread) : Stream[Len(span) + j] = Unread[j]
        BY <1>2, <2>5, ConcatAt
      <3>2. \A j \in 1..Len(span) : j \in 1..Len(e)
        BY <1>2, <2>1, <2>3
      <3>3. Len(span) + 1 \in 1..Len(e) /\ 1 \in 1..Len(Unread)
        BY <1>2, <1>4, <2>1, <2>3
      <3>. QED
        BY <1>3, <2>4, <3>1, <3>2, <3>3
    <2>7. PICK src, cmd : Spells(e, f, src, cmd)
      BY <2>3, EncodingFacts
    <2>8. /\ Len(span) + 1 < Len(e) => state' # "Sync" /\ span' = Append(span, b) /\ out' = <<>>
          /\ Len(span) + 1 = Len(e) => state' = "Sync" /\ out' = <<f>>
      BY <1>1, <1>2, <1>11, <2>1, <2>3, <2>6, <2>7, SentIsSendable, Follows
    <2>9. Append(span, b) \o Tail(Unread) = Stream
      BY <1>2, <1>3, <1>4, <2>5, Absorb
    <2>10. CASE Len(span) + 1 < Len(e)
      <3>1. state' # "Sync" /\ span' = Append(span, b) /\ got' = got
        BY <1>1, <1>9, <2>8, <2>10
      <3>2. Stream' = Stream
        BY <1>3, <2>9, <3>1 DEF Stream, Partial
      <3>3. Placed(Stream', Len(got'), sent', base, at, enc)
        BY <1>1, <1>6, <3>1, <3>2
      <3>4. Len(span') = Len(span) + 1
        BY <1>2, <3>1
      <3>5. InFirst(base, at, enc)'
        BY <1>1, <2>1, <2>10, <3>1, <3>4 DEF InFirst, e
      <3>. QED
        BY <1>1, <1>7, <3>1, <3>3, <3>5 DEF Plan
    <2>11. CASE Len(span) + 1 = Len(e)
      <3>1. state' = "Sync" /\ got' = got \o <<f>>
        BY <1>1, <2>8, <2>11
      <3>2. Stream' = Tail(Unread)
        <4>1. \A s \in Seq(Byte) : <<>> \o s = s
          OBVIOUS
        <4>. QED
          BY <1>3, <1>4, <3>1, <4>1 DEF Stream, Partial
      <3> DEFINE u == Append(span, b)
      <3>3. u \in Seq(Byte) /\ Len(u) = Len(e)
        BY <1>2, <2>11
      <3> HIDE DEF u
      <3>4. Placed(u \o Tail(Unread), g, sent, base, at, enc)
        BY <1>6, <2>9 DEF u
      <3>5. \A i \in g + 1 + 1..Len(sent) : at[i] > base + Len(u)
        <4>1. ASSUME NEW i \in g + 1 + 1..Len(sent) PROVE at[i] > base + Len(u)
          <5>1. i \in g + 1..Len(sent) /\ g + 1 < i
            BY <1>2
          <5>2. at[g + 1] + Len(e) <= at[i]
            BY <1>6, <2>2, <5>1 DEF Placed, e
          <5>3. at[i] \in Nat
            BY <1>8, <5>1
          <5>. QED
            BY <1>8, <2>1, <2>3, <3>3, <5>2, <5>3
        <4>. QED
          BY <4>1
      <3>6. \A i \in g + 1..Len(sent) : i <= g + 1 => at[i] + Len(enc[i]) <= base + Len(u) + 1
        <4>1. ASSUME NEW i \in g + 1..Len(sent), i <= g + 1
              PROVE  at[i] + Len(enc[i]) <= base + Len(u) + 1
          <5>1. i = g + 1
            BY <1>2, <4>1
          <5>. QED
            BY <1>8, <2>1, <2>3, <3>3, <5>1 DEF e
        <4>. QED
          BY <4>1
      <3>7. g + 1 \in Nat /\ g + 1 >= g
        BY <1>2
      <3>8. Placed(Tail(Unread), g + 1, sent, base + Len(u), at, enc)
        BY <1>2, <1>4, <3>3, <3>4, <3>5, <3>6, <3>7, PlacedDrop
      <3>9. /\ Len(got') = g + 1 /\ got'[g + 1] = f
            /\ \A i \in 1..g : got'[i] = got[i]
        <4>1. f \in Frame
          BY <2>3, SentFrameFacts
        <4>2. got' = Append(got, f)
          BY <1>2, <3>1, <4>1
        <4>. QED
          BY <1>2, <4>1, <4>2
      <3>10. PICK top : top = base + Len(u)
        OBVIOUS
      <3>11. Placed(Stream', Len(got'), sent', top, at, enc) /\ InFirst(top, at, enc)'
        BY <1>1, <3>1, <3>2, <3>8, <3>9, <3>10 DEF InFirst
      <3>12. Len(got') <= Len(sent')
        BY <1>1, <1>2, <2>1, <3>9
      <3>13. ASSUME NEW i \in 1..g + 1 PROVE got'[i] = sent'[i]
        <4>1. CASE i \in 1..g
          BY <1>1, <1>7, <3>9, <4>1
        <4>2. CASE i = g + 1
          BY <1>1, <3>9, <4>2 DEF f
        <4>. QED
          BY <1>2, <4>1, <4>2
      <3>14. \A i \in 1..Len(got') : got'[i] = sent'[i]
        BY <3>9, <3>13
      <3>. QED
        BY <3>11, <3>12, <3>14 DEF Plan
    <2>. QED
      BY <1>2, <2>1, <2>3, <2>10, <2>11
  <1>. QED
    BY <1>10, <1>11

(* One iteration of the loop in FrameParser::feed_bytes.                     *)
LEMMA DeliverInv ==
  ASSUME StreamInv, Inv', Deliver
  PROVE  StreamTypes' /\ Polling' /\ Plan'
  <1>1. /\ StreamTypes /\ Polling /\ chunk # <<>> /\ chunk' = Tail(chunk)
        /\ got' = got \o out' /\ line' = line /\ rx' = rx /\ sent' = sent /\ clean' = clean
        /\ transport' = transport /\ owed' = owed
        /\ phase' = IF chunk' # <<>> THEN phase ELSE IF phase = "feed" THEN "idle" ELSE "read"
    BY DEF StreamInv, Deliver
  <1>2. got \in Seq(Frame) /\ chunk \in Seq(Byte)
    BY <1>1 DEF StreamTypes
  <1>3. chunk' \in Seq(Byte)
    BY <1>1, <1>2
  <1>4. got' \in Seq(Frame)
    <2>1. out' = <<>> \/ (out'[1] \in Frame /\ out' = <<out'[1]>>)
      BY DEF Inv, TypeOK
    <2>2. \A x \in Frame : <<x>> \in Seq(Frame)
      OBVIOUS
    <2>3. out' \in Seq(Frame)
      <3>1. CASE out' = <<>>
        BY <3>1
      <3>2. CASE out'[1] \in Frame /\ out' = <<out'[1]>>
        BY <2>2, <3>2
      <3>. QED
        BY <2>1, <3>1, <3>2
    <2>. QED
      BY <1>1, <1>2, <2>3
  <1>5. phase \in {"feed", "feed_full"}
    BY <1>1 DEF Polling
  <1>6. phase' \in {"idle", "read", "feed", "feed_full"}
    BY <1>1, <1>5
  <1>7. StreamTypes'
    BY <1>1, <1>3, <1>4, <1>6 DEF StreamTypes
  <1>8. Available' = Available
    BY <1>1 DEF Available
  <1>9. Polling'
    <2>1. CASE chunk' # <<>>
      <3>1. phase' = phase
        BY <1>1, <2>1
      <3>. QED
        BY <1>1, <1>5, <1>8, <2>1, <3>1 DEF Polling
    <2>2. CASE chunk' = <<>>
      <3>1. phase = "feed" => phase' = "idle" /\ owed = 0
        BY <1>1, <2>2 DEF Polling
      <3>2. phase = "feed_full" => phase' = "read" /\ owed <= Len(Available)
        BY <1>1, <2>2 DEF Polling
      <3>. QED
        BY <1>1, <1>5, <1>8, <2>2, <3>1, <3>2 DEF Polling
    <2>. QED
      BY <2>1, <2>2
  <1>. QED
    BY <1>7, <1>9, DeliverPlan

(* FrameParser::reset.                                                       *)
LEMMA ResetStreamInv ==
  ASSUME StreamInv, ResetStream
  PROVE  StreamTypes' /\ Polling' /\ Plan'
  <1>1. /\ StreamTypes /\ Polling /\ clean' = FALSE
        /\ transport' = transport /\ line' = line /\ rx' = rx /\ phase' = phase
        /\ chunk' = chunk /\ owed' = owed /\ sent' = sent /\ got' = got
    BY DEF StreamInv, ResetStream, hostVars
  <1>. QED
    BY <1>1 DEF StreamTypes, Polling, Plan, Available

(* Every step of the line, the transports and the read loop is, for the      *)
(* parser, a byte fed, a reset or nothing.                                   *)
LEMMA ParserStep ==
  ASSUME StreamTypes, [StreamNext]_streamVars
  PROVE  [Next]_vars
  <1>1. CASE UNCHANGED streamVars
    BY <1>1 DEF streamVars
  <1>2. CASE Deliver
    <2>1. Head(chunk) \in Byte /\ Feed(Head(chunk))
      BY <1>2 DEF Deliver, StreamTypes
    <2>. QED
      BY <2>1 DEF Next
  <1>3. CASE ResetStream
    BY <1>3 DEF ResetStream, Next
  <1>4. CASE \/ \E f \in SentFrames, src \in Nodes, cmd \in Commands : SendFrame(f, src, cmd)
             \/ \E b \in Noise : LineNoise(b)
             \/ PageFeeds \/ BeginPoll \/ ReadSome \/ ReadNothing \/ ReadFails
    <2>1. vars' = vars
      BY <1>4 DEF SendFrame, LineNoise, PageFeeds, BeginPoll, ReadSome, ReadNothing, ReadFails
    <2>. QED
      BY <2>1
  <1>. QED
    BY <1>1, <1>2, <1>3, <1>4 DEF StreamNext

(* The invariant is inductive.                                               *)
LEMMA StreamNextInv == StreamInv /\ [StreamNext]_streamVars => StreamInv'
  <1> SUFFICES ASSUME StreamInv, [StreamNext]_streamVars PROVE StreamInv'
    OBVIOUS
  <1>1. Inv'
    BY NextInv, ParserStep DEF StreamInv
  <1>2. StreamTypes' /\ Polling' /\ Plan'
    <2>1. CASE UNCHANGED streamVars
      <3>1. /\ vars' = vars /\ transport' = transport /\ line' = line /\ rx' = rx /\ phase' = phase
            /\ chunk' = chunk /\ owed' = owed /\ sent' = sent /\ got' = got /\ clean' = clean
        BY <2>1 DEF streamVars, hostVars, histories
      <3>2. Plan'
        BY <3>1, PlanSame DEF StreamInv, Unread
      <3>. QED
        BY <3>1, <3>2 DEF StreamInv, StreamTypes, Polling, Available
    <2>2. ASSUME NEW f \in SentFrames, NEW src \in Nodes, NEW cmd \in Commands, SendFrame(f, src, cmd)
          PROVE  StreamTypes' /\ Polling' /\ Plan'
      BY <2>2, SendFrameInv
    <2>3. ASSUME NEW b \in Noise, LineNoise(b) PROVE StreamTypes' /\ Polling' /\ Plan'
      BY <2>3, LineNoiseInv
    <2>4. CASE PageFeeds
      BY <2>4, PageFeedsInv
    <2>5. CASE BeginPoll \/ ReadNothing \/ ReadFails
      BY <2>5, PollEndsInv
    <2>6. CASE ReadSome
      BY <2>6, ReadSomeInv
    <2>7. CASE Deliver
      BY <1>1, <2>7, DeliverInv
    <2>8. CASE ResetStream
      BY <2>8, ResetStreamInv
    <2>. QED
      BY <2>1, <2>2, <2>3, <2>4, <2>5, <2>6, <2>7, <2>8 DEF StreamNext
  <1>. QED
    BY <1>1, <1>2 DEF StreamInv

(* The invariant of the line, the read loop and the parser holds throughout. *)
THEOREM StreamConsistency == StreamSpec => []StreamInv
  BY StreamInitInv, StreamNextInv, PTL DEF StreamSpec

(* On a line without stray SYNC bytes, resets and dropped bytes, Client::poll *)
(* gets exactly the frames that sendFrame put on the line, in order and once, *)
(* whatever they carry and wherever the reads cut them; all of them once the  *)
(* host has read everything.  After a disturbance this holds again from the   *)
(* next moment at which the parser hunts with nothing left to read.           *)
THEOREM FramesArriveExactly == StreamSpec => []DeliversExactly
  <1>1. StreamInv => DeliversExactly
    <2> SUFFICES ASSUME StreamInv, clean PROVE /\ Consumed => got = sent
                                               /\ Len(got) <= Len(sent)
                                               /\ \A i \in DOMAIN got : got[i] = sent[i]
      BY DEF DeliversExactly
    <2>1. /\ Inv /\ StreamTypes /\ Plan /\ got \in Seq(Frame) /\ sent \in Seq(SentFrames)
          /\ Len(got) \in Nat /\ Len(sent) \in Nat
      BY DEF StreamInv, StreamTypes
    <2>2. Len(got) <= Len(sent) /\ \A i \in 1..Len(got) : got[i] = sent[i]
      BY <2>1 DEF Plan
    <2>3. DOMAIN got = 1..Len(got)
      BY <2>1
    <2>4. ASSUME Consumed PROVE got = sent
      <3>1. PICK base, at, enc : Placed(Stream, Len(got), sent, base, at, enc) /\ InFirst(base, at, enc)
        BY <2>1 DEF Plan
      <3>2. Unread = <<>> /\ Len(Unread) = 0
        BY <2>4 DEF Consumed, Unread
      <3>3. Partial \in Seq(Byte) /\ Stream \in Seq(Byte) /\ Len(Stream) = Len(Partial)
        <4>1. /\ Partial \in Seq(Byte) /\ Stream \in Seq(Byte)
              /\ Len(Stream) = Len(Partial) + Len(Unread)
          BY <2>1, StreamType
        <4>. QED
          BY <3>2, <4>1
      <3>4. state = "Sync"
        <4>1. SUFFICES ASSUME state # "Sync" PROVE FALSE
          OBVIOUS
        <4>2. /\ Len(got) < Len(sent) /\ at[Len(got) + 1] = base + 1
              /\ Len(span) < Len(enc[Len(got) + 1])
          BY <3>1, <4>1 DEF InFirst
        <4>3. Len(got) + 1 \in Len(got) + 1..Len(sent)
          BY <2>1, <4>2
        <4>4. /\ base \in Nat /\ Len(enc[Len(got) + 1]) \in Nat /\ Len(Stream) \in Nat
              /\ at[Len(got) + 1] + Len(enc[Len(got) + 1]) <= base + Len(Stream) + 1
          BY <2>1, <3>1, <3>3, <4>3, PlacedTypes
        <4>5. Len(Stream) = Len(span)
          BY <3>3, <4>1 DEF Partial
        <4>6. \A o, n, m \in Nat : o + 1 + n <= o + m + 1 => n <= m
          OBVIOUS
        <4>7. Len(enc[Len(got) + 1]) <= Len(Stream)
          BY <4>2, <4>4, <4>6
        <4>. QED
          BY <4>2, <4>4, <4>5, <4>7
      <3>5. Stream = <<>>
        <4>1. \A s \in Seq(Byte) : Len(s) = 0 => s = <<>>
          OBVIOUS
        <4>2. Len(Stream) = 0
          BY <3>3, <3>4 DEF Partial
        <4>. QED
          BY <3>3, <4>1, <4>2
      <3>6. Len(got) = Len(sent)
        BY <2>1, <2>2, <3>1, <3>5, PlacedEnd
      <3>7. sent \in Seq(Frame)
        <4>1. SentFrames \subseteq Frame
          BY SentFrameFacts
        <4>. QED
          BY <2>1, <4>1
      <3>. QED
        BY <2>1, <2>2, <3>6, <3>7, SeqEq
    <2>. QED
      BY <2>2, <2>3, <2>4
  <1>. QED
    BY <1>1, StreamConsistency, PTL

(* Client::poll reads all that the transport held when it began, however     *)
(* many buffers that fills, unless the port fails.                           *)
THEOREM PollTakesEverything == StreamSpec => []PollDrains
  <1>1. StreamInv => PollDrains
    BY DEF StreamInv, Polling, PollDrains
  <1>. QED
    BY <1>1, StreamConsistency, PTL

(* Within the stream the parser behaves as FrameParser says, so that what is *)
(* proved of it for arbitrary bytes holds here: only received frames are     *)
(* returned and the hunt for SYNC is bounded.                                *)
THEOREM ParserInTheStream == StreamSpec => Spec
  <1>1. StreamInit => Init
    BY DEF StreamInit
  <1>2. StreamInv /\ [StreamNext]_streamVars => [Next]_vars
    BY ParserStep DEF StreamInv
  <1>. QED
    BY <1>1, <1>2, StreamConsistency, PTL DEF StreamSpec, Spec
=============================================================================
