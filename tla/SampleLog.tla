------------------------------ MODULE SampleLog ------------------------------
(***************************************************************************)
(* What the data store promises its host, without rings and indices: for   *)
(* each registered command the last `limit` payloads in the order they     *)
(* were stored, and a running total that serves as the reader's cursor.    *)
(* DataStore is shown to implement this specification.                     *)
(***************************************************************************)
EXTENDS Integers, Sequences

CONSTANTS Commands, Payloads, Capacities

VARIABLES
  limit,    \* command -> retained entries, 0 when the command has no storage
  kept,     \* command -> the retained payloads, oldest first
  total,    \* command -> payloads stored since storage was (re)set
  cursor,   \* command -> the cursor the reader will pass next
  batch     \* command -> what the reader's latest fetch returned

vars == <<limit, kept, total, cursor, batch>>

\* The last n elements of s (n <= Len(s))
LastN(s, n) == [i \in 1..n |-> s[Len(s) - n + i]]

Init ==
  /\ limit = [c \in Commands |-> 0]
  /\ kept = [c \in Commands |-> <<>>]
  /\ total = [c \in Commands |-> 0]
  /\ cursor = [c \in Commands |-> 0]
  /\ batch = [c \in Commands |-> <<>>]

Register(c, cap) ==
  /\ limit' = [limit EXCEPT ![c] = cap]
  /\ kept' = [kept EXCEPT ![c] = <<>>]
  /\ total' = [total EXCEPT ![c] = 0]
  /\ UNCHANGED <<cursor, batch>>

Store(c, p) ==
  /\ limit[c] > 0
  /\ kept' = [kept EXCEPT ![c] = IF Len(kept[c]) < limit[c]
                                 THEN Append(kept[c], p)
                                 ELSE Append(Tail(kept[c]), p)]
  /\ total' = [total EXCEPT ![c] = total[c] + 1]
  /\ UNCHANGED <<limit, cursor, batch>>

\* Entries newer than the cursor, as many of them as are still retained
Newer(c) ==
  LET n == total[c] - cursor[c]
  IN  IF n <= 0 THEN <<>>
      ELSE LastN(kept[c], IF n < Len(kept[c]) THEN n ELSE Len(kept[c]))

Fetch(c) ==
  /\ batch' = [batch EXCEPT ![c] = Newer(c)]
  /\ cursor' = [cursor EXCEPT ![c] = total[c]]
  /\ UNCHANGED <<limit, kept, total>>

Clear ==
  /\ kept' = [c \in Commands |-> <<>>]
  /\ total' = [c \in Commands |-> 0]
  /\ UNCHANGED <<limit, cursor, batch>>

Next ==
  \/ \E c \in Commands, cap \in Capacities : Register(c, cap)
  \/ \E c \in Commands, p \in Payloads : Store(c, p)
  \/ \E c \in Commands : Fetch(c)
  \/ Clear

Spec == Init /\ [][Next]_vars
=============================================================================
