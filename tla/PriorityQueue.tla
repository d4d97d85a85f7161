--------------------------- MODULE PriorityQueue ---------------------------
(***************************************************************************)
(* The two-level outgoing queue of runtime/src/queue.rs, as operators on a *)
(* record with one sequence per priority level.  A message is a record     *)
(* with at least the fields `prio` and `key`; NoKey is a message without   *)
(* a coalesce key.                                                         *)
(***************************************************************************)
EXTENDS Integers, Sequences

CONSTANT NoKey

Priorities == {"high", "low"}

EmptyQueue == [high |-> <<>>, low |-> <<>>]

\* Fault: no coalescing
SameKeyNever(q, m) == {}

\* Positions a keyed message may replace: only its own level is searched
SameKey(q, m) ==
  {i \in DOMAIN q[m.prio] : m.key # NoKey /\ q[m.prio][i].key = m.key}

\* iter().position(..): the first of them
FirstOf(positions) == CHOOSE i \in positions : \A j \in positions : i <= j

\* PriorityQueue::push: replace in place, or append to the level
Push(q, m) ==
  IF SameKey(q, m) # {}
  THEN [q EXCEPT ![m.prio] = [q[m.prio] EXCEPT ![FirstOf(SameKey(q, m))] = m]]
  ELSE [q EXCEPT ![m.prio] = Append(q[m.prio], m)]

\* The message push overwrites, if any
Displaced(q, m) ==
  IF SameKey(q, m) = {} THEN {} ELSE {q[m.prio][FirstOf(SameKey(q, m))]}

IsEmptyQueue(q) == q.high = <<>> /\ q.low = <<>>

\* PriorityQueue::pop: the level served next, its message and what remains
NextLevel(q) == IF q.high # <<>> THEN "high" ELSE "low"
PopMessage(q) == Head(q[NextLevel(q)])
\* Fault: the message stays in the queue
PopRestNothing(q) == q
PopRest(q) == [q EXCEPT ![NextLevel(q)] = Tail(q[NextLevel(q)])]

\* The messages in the queue
Queued(q) == {q.high[i] : i \in DOMAIN q.high} \cup {q.low[i] : i \in DOMAIN q.low}
=============================================================================
