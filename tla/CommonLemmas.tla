---------------------------- MODULE CommonLemmas ----------------------------
(***************************************************************************)
(* Facts that the proofs about several modules cite: sequences, the short  *)
(* headers of the wire format, a length split into two bytes, and the      *)
(* least-number principle with the induction on sets that follows from it. *)
(***************************************************************************)
EXTENDS Integers, Sequences, WellFoundedInduction, TLAPS

(* Sequences with the same elements are equal.                               *)
LEMMA SeqEq ==
  ASSUME NEW S, NEW s \in Seq(S), NEW t \in Seq(S), Len(s) = Len(t),
         \A i \in 1..Len(s) : s[i] = t[i]
  PROVE  s = t
  OBVIOUS

(* Appending to a concatenation appends to its second part.                  *)
LEMMA AppendConcat ==
  ASSUME NEW S, NEW s \in Seq(S), NEW t \in Seq(S), NEW e \in S
  PROVE  /\ Append(s \o t, e) = s \o Append(t, e)
         /\ Append(s \o t, e) = (s \o t) \o <<e>>
         /\ s \o t \in Seq(S) /\ Len(s \o t) = Len(s) + Len(t)
         /\ Append(t, e) \in Seq(S) /\ Len(Append(t, e)) = Len(t) + 1
  <1>1. s \o t \in Seq(S) /\ Len(s \o t) = Len(s) + Len(t) /\ Append(t, e) \in Seq(S)
        /\ Len(Append(t, e)) = Len(t) + 1 /\ <<e>> \in Seq(S)
    OBVIOUS
  <1>2. Append(s \o t, e) = s \o Append(t, e)
    <2>1. Append(s \o t, e) \in Seq(S) /\ s \o Append(t, e) \in Seq(S)
      BY <1>1
    <2>2. Len(Append(s \o t, e)) = Len(s \o Append(t, e))
      BY <1>1
    <2>3. \A i \in 1..Len(Append(s \o t, e)) : Append(s \o t, e)[i] = (s \o Append(t, e))[i]
      BY <1>1
    <2>. QED
      BY <2>1, <2>2, <2>3, SeqEq
  <1>3. Append(s \o t, e) = (s \o t) \o <<e>>
    <2>1. Append(s \o t, e) \in Seq(S) /\ (s \o t) \o <<e>> \in Seq(S)
      BY <1>1
    <2>2. Len(Append(s \o t, e)) = Len((s \o t) \o <<e>>)
      BY <1>1
    <2>3. \A i \in 1..Len(Append(s \o t, e)) : Append(s \o t, e)[i] = ((s \o t) \o <<e>>)[i]
      BY <1>1
    <2>. QED
      BY <2>1, <2>2, <2>3, SeqEq
  <1>. QED
    BY <1>1, <1>2, <1>3

(* Concatenation is associative, and the empty sequence is neutral.          *)
LEMMA ConcatAssoc ==
  ASSUME NEW S, NEW s \in Seq(S), NEW t \in Seq(S), NEW u \in Seq(S)
  PROVE  (s \o t) \o u = s \o (t \o u) /\ s \o <<>> = s
  <1>1. s \o t \in Seq(S) /\ Len(s \o t) = Len(s) + Len(t)
        /\ t \o u \in Seq(S) /\ Len(t \o u) = Len(t) + Len(u)
    OBVIOUS
  <1>2. (s \o t) \o u \in Seq(S) /\ s \o (t \o u) \in Seq(S)
        /\ Len((s \o t) \o u) = Len(s \o (t \o u))
    BY <1>1
  <1>3. \A i \in 1..Len((s \o t) \o u) : ((s \o t) \o u)[i] = (s \o (t \o u))[i]
    BY <1>1
  <1>4. s \o <<>> = s
    BY SeqEq
  <1>. QED
    BY <1>2, <1>3, <1>4, SeqEq

(* Positions of a concatenation.                                             *)
LEMMA ConcatAt ==
  ASSUME NEW S, NEW s \in Seq(S), NEW t \in Seq(S)
  PROVE  /\ s \o t \in Seq(S) /\ Len(s \o t) = Len(s) + Len(t)
         /\ \A i \in 1..Len(s) : (s \o t)[i] = s[i]
         /\ \A i \in 1..Len(t) : (s \o t)[Len(s) + i] = t[i]
  OBVIOUS

(* The second part grows, or the first loses its head.                       *)
LEMMA PartsFacts ==
  ASSUME NEW S, NEW s \in Seq(S), NEW t \in Seq(S)
  PROVE  /\ s \o t \in Seq(S)
         /\ \A e \in S : s \o Append(t, e) = Append(s \o t, e)
         /\ s # <<>> => Tail(s) \o t = Tail(s \o t) /\ (s \o t)[1] = Head(s) /\ s \o t # <<>>
         /\ \A k \in DOMAIN t : Len(s) + k \in DOMAIN (s \o t) /\ (s \o t)[Len(s) + k] = t[k]
         /\ \A k \in DOMAIN s : k \in DOMAIN (s \o t) /\ (s \o t)[k] = s[k]
  <1>1. s \o t \in Seq(S) /\ Len(s \o t) = Len(s) + Len(t) /\ Len(s) \in Nat /\ Len(t) \in Nat
    OBVIOUS
  <1>2. \A e \in S : s \o Append(t, e) = Append(s \o t, e)
    BY AppendConcat
  <1>3. ASSUME s # <<>> PROVE Tail(s) \o t = Tail(s \o t) /\ (s \o t)[1] = Head(s) /\ s \o t # <<>>
    <2>1. Len(s) >= 1 /\ Tail(s) \in Seq(S) /\ Len(Tail(s)) = Len(s) - 1
          /\ \A i \in 1..Len(s) - 1 : Tail(s)[i] = s[i + 1]
      BY <1>3
    <2>2. s \o t # <<>> /\ (s \o t)[1] = Head(s)
      BY <1>1, <1>3, <2>1
    <2>3. Tail(s \o t) \in Seq(S) /\ Len(Tail(s \o t)) = Len(s) + Len(t) - 1
          /\ \A i \in 1..Len(s) + Len(t) - 1 : Tail(s \o t)[i] = (s \o t)[i + 1]
      BY <1>1, <2>1, <2>2
    <2>4. Tail(s) \o t \in Seq(S) /\ Len(Tail(s) \o t) = Len(s) + Len(t) - 1
      BY <1>1, <2>1
    <2>5. ASSUME NEW i \in 1..Len(s) + Len(t) - 1 PROVE (Tail(s) \o t)[i] = Tail(s \o t)[i]
      BY <1>1, <2>1, <2>3
    <2>. QED
      BY <2>2, <2>3, <2>4, <2>5, SeqEq
  <1>4. \A k \in DOMAIN t : Len(s) + k \in DOMAIN (s \o t) /\ (s \o t)[Len(s) + k] = t[k]
    BY <1>1
  <1>5. \A k \in DOMAIN s : k \in DOMAIN (s \o t) /\ (s \o t)[k] = s[k]
    BY <1>1
  <1>. QED
    BY <1>1, <1>2, <1>3, <1>4, <1>5

(* A sequence is its first k elements and the rest.                          *)
LEMMA CutFacts ==
  ASSUME NEW S, NEW s \in Seq(S), NEW k \in 1..Len(s)
  PROVE  SubSeq(s, 1, k) \o SubSeq(s, k + 1, Len(s)) = s
  <1>1. Len(s) \in Nat /\ k \in Nat /\ k <= Len(s) /\ k >= 1
    OBVIOUS
  <1>2. SubSeq(s, 1, k) \in Seq(S) /\ Len(SubSeq(s, 1, k)) = k
        /\ \A i \in 1..k : SubSeq(s, 1, k)[i] = s[i]
    BY <1>1
  <1>3. SubSeq(s, k + 1, Len(s)) \in Seq(S) /\ Len(SubSeq(s, k + 1, Len(s))) = Len(s) - k
        /\ \A i \in 1..Len(s) - k : SubSeq(s, k + 1, Len(s))[i] = s[k + i]
    BY <1>1
  <1> DEFINE a == SubSeq(s, 1, k)
             b == SubSeq(s, k + 1, Len(s))
  <1> HIDE DEF a, b
  <1>4. a \o b \in Seq(S) /\ Len(a \o b) = Len(s)
    BY <1>1, <1>2, <1>3 DEF a, b
  <1>5. ASSUME NEW i \in 1..Len(s) PROVE (a \o b)[i] = s[i]
    <2>1. a \in Seq(S) /\ b \in Seq(S) /\ Len(a) = k /\ Len(b) = Len(s) - k
      BY <1>2, <1>3 DEF a, b
    <2>2. CASE i <= k
      BY <1>1, <1>2, <2>1, <2>2 DEF a
    <2>3. CASE ~(i <= k)
      <3>1. (a \o b)[i] = b[i - k] /\ i - k \in 1..Len(s) - k
        BY <1>1, <2>1, <2>3
      <3>2. b[i - k] = s[k + (i - k)] /\ k + (i - k) = i
        BY <1>1, <1>3, <3>1 DEF b
      <3>. QED
        BY <3>1, <3>2
    <2>. QED
      BY <2>2, <2>3
  <1>. QED
    BY <1>4, <1>5, SeqEq DEF a, b

(* What the elements of a sequence with one more, or without its first, are. *)
LEMMA EndsFacts ==
  ASSUME NEW S, NEW s \in Seq(S)
  PROVE  /\ \A e \in S : /\ DOMAIN Append(s, e) = DOMAIN s \cup {Len(s) + 1}
                         /\ Append(s, e)[Len(s) + 1] = e /\ Len(s) + 1 \notin DOMAIN s
                         /\ \A k \in DOMAIN s : Append(s, e)[k] = s[k]
         /\ s # <<>> => \A k \in DOMAIN Tail(s) : /\ k + 1 \in DOMAIN s /\ Tail(s)[k] = s[k + 1]
                                                  /\ k \in Nat \ {0}
         /\ s # <<>> => 1 \in DOMAIN s /\ Head(s) = s[1]
  <1>1. DOMAIN s = 1..Len(s) /\ Len(s) \in Nat
    OBVIOUS
  <1>2. ASSUME NEW e \in S
        PROVE  /\ DOMAIN Append(s, e) = DOMAIN s \cup {Len(s) + 1}
               /\ Append(s, e)[Len(s) + 1] = e /\ Len(s) + 1 \notin DOMAIN s
               /\ \A k \in DOMAIN s : Append(s, e)[k] = s[k]
    BY <1>1
  <1>3. ASSUME s # <<>>
        PROVE  /\ \A k \in DOMAIN Tail(s) : k + 1 \in DOMAIN s /\ Tail(s)[k] = s[k + 1] /\ k \in Nat \ {0}
               /\ 1 \in DOMAIN s /\ Head(s) = s[1]
    <2>1. DOMAIN Tail(s) = 1..Len(s) - 1
      BY <1>1, <1>3
    <2>. QED
      BY <1>1, <1>3, <2>1
  <1>. QED
    BY <1>2, <1>3

(* Sequences with no element, and with one.                                  *)
LEMMA ShortFacts ==
  ASSUME NEW S, NEW s \in Seq(S)
  PROVE  /\ DOMAIN s = {} => s = <<>>
         /\ s # <<>> /\ Len(s) <= 1 =>
              /\ Len(s) = 1 /\ Tail(s) = <<>> /\ 1 \in DOMAIN s /\ Head(s) = s[1]
              /\ Head(s) \in S
  <1>1. Len(s) \in Nat /\ DOMAIN s = 1..Len(s) /\ (Len(s) = 0 => s = <<>>)
    OBVIOUS
  <1>2. ASSUME DOMAIN s = {} PROVE s = <<>>
    <2>1. 1 \notin 1..Len(s)
      BY <1>1, <1>2
    <2>. QED
      BY <1>1, <2>1
  <1>3. ASSUME s # <<>>, Len(s) <= 1
        PROVE  /\ Len(s) = 1 /\ Tail(s) = <<>> /\ 1 \in DOMAIN s /\ Head(s) = s[1]
               /\ Head(s) \in S
    <2>1. Len(s) = 1
      BY <1>1, <1>3
    <2>2. Tail(s) \in Seq(S) /\ Len(Tail(s)) = 0
      BY <1>3, <2>1
    <2>3. \A t \in Seq(S) : Len(t) = 0 => t = <<>>
      OBVIOUS
    <2>4. Tail(s) = <<>>
      BY <2>2, <2>3
    <2>. QED
      BY <1>1, <1>3, <2>1, <2>4
  <1>. QED
    BY <1>2, <1>3

(* A length is recovered from its two bytes, and two bytes bound it.         *)
LEMMA TwoBytes ==
  ASSUME NEW R \in Nat \ {0}, NEW lo \in 0..R-1, NEW hi \in 0..R-1
  PROVE  /\ (lo + hi * R) % R = lo
         /\ (lo + hi * R) \div R = hi
         /\ lo + hi * R \in 0..(R * R - 1)
  <1> DEFINE x == lo + hi * R
  <1>1. hi * R \in Nat /\ x \in Nat
    OBVIOUS
  <1>2. hi * R <= (R - 1) * R
    OBVIOUS
  <1>3. (R - 1) * R = R * R - R
    OBVIOUS
  <1>4. x \in 0..(R * R - 1)
    BY <1>1, <1>2, <1>3
  <1>5. PICK q \in Int, r \in Int : /\ q = x \div R /\ r = x % R
                                    /\ x = R * q + r /\ 0 <= r /\ r < R
    BY <1>1
  <1>6. (hi - q) * R = r - lo
    BY <1>1, <1>5
  <1>7. hi - q < 1
    <2>1. SUFFICES ASSUME hi - q >= 1 PROVE FALSE
      BY <1>5
    <2>2. (hi - q) * R >= 1 * R
      BY <1>5, <2>1
    <2>. QED
      BY <1>5, <1>6, <2>2
  <1>8. hi - q > -1
    <2>1. SUFFICES ASSUME hi - q <= -1 PROVE FALSE
      BY <1>5
    <2>2. (hi - q) * R <= (-1) * R
      BY <1>5, <2>1
    <2>. QED
      BY <1>5, <1>6, <2>2
  <1>9. hi = q
    BY <1>5, <1>7, <1>8
  <1>10. r = lo
    BY <1>5, <1>6, <1>9
  <1>. QED
    BY <1>4, <1>5, <1>9, <1>10

(* The two bytes of a length within two bytes are bytes.                     *)
LEMMA BytesOf ==
  ASSUME NEW R \in Nat \ {0}, NEW x \in 0..(R * R - 1)
  PROVE  x % R \in 0..R-1 /\ x \div R \in 0..R-1
  <1>0. R \in Int /\ R > 0 /\ R * R \in Int /\ x \in Int /\ x >= 0 /\ x < R * R
    OBVIOUS
  <1>1. PICK q \in Int, r \in Int : /\ q = x \div R /\ r = x % R
                                    /\ x = R * q + r /\ 0 <= r /\ r < R
    BY <1>0
  <1>2. R * q \in Int /\ R * q <= x /\ x < R * q + R
    BY <1>0, <1>1
  <1>3. q >= 0
    <2>1. SUFFICES ASSUME q <= -1 PROVE FALSE
      BY <1>2
    <2>2. R * q <= R * (-1)
      BY <1>2, <2>1
    <2>. QED
      BY <1>2, <2>2
  <1>4. q <= R - 1
    <2>1. SUFFICES ASSUME q >= R PROVE FALSE
      BY <1>2
    <2>2. R * q >= R * R
      BY <1>2, <2>1
    <2>. QED
      BY <1>0, <1>2, <2>2
  <1>. QED
    BY <1>0, <1>1, <1>3, <1>4

(* Short sequences of bytes.                                                 *)
LEMMA Tuples ==
  ASSUME NEW S, NEW x \in S, NEW y \in S
  PROVE  /\ <<>> \in Seq(S) /\ Len(<<>>) = 0
         /\ <<x>> \in Seq(S) /\ Len(<<x>>) = 1 /\ Append(<<>>, x) = <<x>>
         /\ <<x, y>> \in Seq(S) /\ Len(<<x, y>>) = 2 /\ Append(<<x>>, y) = <<x, y>>
         /\ <<x>> \o <<y>> = <<x, y>> /\ <<x>> \o <<>> = <<x>>
  <1>1. /\ <<>> \in Seq(S) /\ Len(<<>>) = 0
        /\ <<x>> \in Seq(S) /\ Len(<<x>>) = 1
    OBVIOUS
  <1>2. Append(<<>>, x) = <<x>>
    OBVIOUS
  <1>3. <<x, y>> \in Seq(S) /\ Len(<<x, y>>) = 2
    OBVIOUS
  <1>4. Append(<<x>>, y) = <<x, y>>
    <2>1. Append(<<x>>, y) \in Seq(S) /\ Len(Append(<<x>>, y)) = 2
      OBVIOUS
    <2>2. \A i \in 1..2 : Append(<<x>>, y)[i] = <<x, y>>[i]
      OBVIOUS
    <2>. QED
      BY <1>3, <2>1, <2>2, SeqEq
  <1>5. <<x>> \o <<y>> = <<x, y>>
    <2>1. <<x>> \o <<y>> \in Seq(S) /\ Len(<<x>> \o <<y>>) = 2
      OBVIOUS
    <2>2. \A i \in 1..2 : (<<x>> \o <<y>>)[i] = <<x, y>>[i]
      OBVIOUS
    <2>. QED
      BY <1>3, <2>1, <2>2, SeqEq
  <1>6. <<x>> \o <<>> = <<x>>
    OBVIOUS
  <1>. QED
    BY <1>1, <1>2, <1>3, <1>4, <1>5, <1>6

(* The third byte of a header.                                               *)
LEMMA Triples ==
  ASSUME NEW S, NEW x \in S, NEW y \in S, NEW z \in S
  PROVE  /\ <<x, y, z>> \in Seq(S) /\ Len(<<x, y, z>>) = 3
         /\ Append(<<x, y>>, z) = <<x, y, z>>
  <1>1. <<x, y, z>> \in Seq(S) /\ Len(<<x, y, z>>) = 3
    OBVIOUS
  <1>2. Append(<<x, y>>, z) \in Seq(S) /\ Len(Append(<<x, y>>, z)) = 3
    OBVIOUS
  <1>3. \A i \in 1..3 : Append(<<x, y>>, z)[i] = <<x, y, z>>[i]
    OBVIOUS
  <1>. QED
    BY <1>1, <1>2, <1>3, SeqEq

(* The fourth byte of a header.                                              *)
LEMMA Quads ==
  ASSUME NEW S, NEW x \in S, NEW y \in S, NEW z \in S, NEW w \in S
  PROVE  /\ <<x, y, z, w>> \in Seq(S) /\ Len(<<x, y, z, w>>) = 4
         /\ Append(<<x, y, z>>, w) = <<x, y, z, w>>
  <1>1. <<x, y, z, w>> \in Seq(S) /\ Len(<<x, y, z, w>>) = 4
    OBVIOUS
  <1>2. Append(<<x, y, z>>, w) \in Seq(S) /\ Len(Append(<<x, y, z>>, w)) = 4
    OBVIOUS
  <1>3. \A i \in 1..4 : Append(<<x, y, z>>, w)[i] = <<x, y, z, w>>[i]
    OBVIOUS
  <1>. QED
    BY <1>1, <1>2, <1>3, SeqEq

(* The fifth byte of a header.                                               *)
LEMMA Quints ==
  ASSUME NEW S, NEW x \in S, NEW y \in S, NEW z \in S, NEW w \in S, NEW v \in S
  PROVE  /\ <<x, y, z, w, v>> \in Seq(S) /\ Len(<<x, y, z, w, v>>) = 5
         /\ Append(<<x, y, z, w>>, v) = <<x, y, z, w, v>>
  <1>1. <<x, y, z, w, v>> \in Seq(S) /\ Len(<<x, y, z, w, v>>) = 5
    OBVIOUS
  <1>2. Append(<<x, y, z, w>>, v) \in Seq(S) /\ Len(Append(<<x, y, z, w>>, v)) = 5
    OBVIOUS
  <1>3. \A i \in 1..5 : Append(<<x, y, z, w>>, v)[i] = <<x, y, z, w, v>>[i]
    OBVIOUS
  <1>. QED
    BY <1>1, <1>2, <1>3, SeqEq

-----------------------------------------------------------------------------
(* A nonempty set of naturals has a least element.                           *)
LEMMA LeastNatural ==
  ASSUME NEW T \in SUBSET Nat, T # {}
  PROVE  \E x \in T : \A y \in T : x <= y
  <1>1. PICK x \in T : \A y \in T : ~(<<y, x>> \in OpToRel(<, Nat))
    BY NatLessThanWellFounded, WFMin
  <1>2. ASSUME NEW y \in T PROVE x <= y
    <2>1. ~(<<y, x>> \in OpToRel(<, Nat))
      BY <1>1
    <2>2. x \in Nat /\ y \in Nat
      OBVIOUS
    <2>3. ~(y < x)
      BY <2>1, <2>2 DEF OpToRel
    <2>. QED
      BY <2>2, <2>3
  <1>. QED
    BY <1>2

(* Induction: a set that holds 0 and, with n, n + 1 holds every natural.     *)
LEMMA SetInduction ==
  ASSUME NEW S, 0 \in S, \A n \in Nat : n \in S => n + 1 \in S
  PROVE  Nat \subseteq S
  <1> DEFINE T == {n \in Nat : n \notin S}
  <1> SUFFICES ASSUME T # {} PROVE FALSE
    OBVIOUS
  <1>1. PICK x \in T : \A y \in T : x <= y
    <2>1. T \in SUBSET Nat
      OBVIOUS
    <2> HIDE DEF T
    <2>. QED
      BY <2>1, LeastNatural
  <1>2. x # 0 /\ x \in Nat /\ x \notin S
    OBVIOUS
  <1>3. x - 1 \in Nat /\ x - 1 \notin T
    BY <1>1, <1>2
  <1>4. x - 1 \in S
    BY <1>3
  <1>. QED
    BY <1>2, <1>3, <1>4
=============================================================================
