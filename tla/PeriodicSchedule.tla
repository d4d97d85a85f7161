-------------------------- MODULE PeriodicSchedule --------------------------
(***************************************************************************)
(* One periodic registration of runtime/src/client.rs over time: polls at  *)
(* arbitrary instants each run enqueue_periodic_at, and the host may       *)
(* register again.  The reads enqueued are counted against the interval.   *)
(***************************************************************************)
EXTENDS Periodic

CONSTANTS
  Intervals,   \* intervals of register_periodic
  MaxTime      \* bound on the clock (TLC only)

ASSUME IntervalsAssumption == Intervals \subseteq Nat \ {0}
ASSUME MaxTimeAssumption == MaxTime \in Nat

VARIABLES
  interval,   \* PeriodicEntry.interval
  next_due,   \* PeriodicEntry.next_due
  now,        \* the clock
  polled,     \* history: time of the latest poll
  first,      \* history: time of the registration's first read
  count,      \* history: reads enqueued since the registration
  steady      \* history: polls since then were at most one interval apart

vars == <<interval, next_due, now, polled, first, count, steady>>

TypeOK ==
  /\ interval \in Intervals /\ next_due \in Nat \cup {None}
  /\ now \in Nat /\ polled \in Nat /\ first \in Nat /\ count \in Nat
  /\ steady \in BOOLEAN

Init ==
  /\ interval \in Intervals /\ next_due = None
  /\ now = 0 /\ polled = 0 /\ first = 0 /\ count = 0 /\ steady = TRUE

\* Fault: "due immediately" expressed as an earlier due time
RegisterBackdated(i) ==
  /\ interval' = i /\ next_due' = now - i
  /\ count' = 0 /\ steady' = TRUE
  /\ UNCHANGED <<now, polled, first>>

\* add_periodic replaces the entry
Register(i) ==
  /\ interval' = i /\ next_due' = None
  /\ count' = 0 /\ steady' = TRUE
  /\ UNCHANGED <<now, polled, first>>

\* enqueue_periodic_at when the read is due
PollDue ==
  /\ Due(next_due, now)
  /\ next_due' = AdvanceDue(next_due, interval, now)
  /\ first' = IF next_due = None THEN now ELSE first
  /\ count' = count + 1
  /\ steady' = (next_due = None \/ (steady /\ now - polled <= interval))
  /\ polled' = now
  /\ UNCHANGED <<interval, now>>

\* enqueue_periodic_at when it is not
PollNotDue ==
  /\ ~Due(next_due, now)
  /\ steady' = (steady /\ now - polled <= interval)
  /\ polled' = now
  /\ UNCHANGED <<interval, next_due, now, first, count>>

Tick ==
  /\ now < MaxTime
  /\ now' = now + 1
  /\ UNCHANGED <<interval, next_due, polled, first, count, steady>>

Next == (\E i \in Intervals : Register(i)) \/ PollDue \/ PollNotDue \/ Tick

Spec == Init /\ [][Next]_vars

-----------------------------------------------------------------------------
(* "the rate holds at 1/interval" (client.rs:461-462), from above: however   *)
(* irregular the polls, n reads take at least n - 1 intervals, so neither    *)
(* late polls nor stalls are made up for by extra reads.                     *)
RateNeverExceeded ==
  count > 0 => (count - 1) * interval <= polled - first

(* The rate from below: while polls are at most one interval apart, the      *)
(* number of reads is exactly that of the grid points passed, so lateness of *)
(* single polls never accumulates into drift.                                *)
NoDrift ==
  (count > 0 /\ steady) =>
    /\ next_due = first + count * interval
    /\ polled < next_due /\ (count - 1) * interval <= polled - first

(* After a read the next one is due later than now, by at most one interval: *)
(* a stall never makes the client send the missed reads back to back.        *)
NoBurst ==
  count > 0 => (polled < next_due /\ next_due <= polled + interval)
=============================================================================
