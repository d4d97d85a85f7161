----------------------- MODULE PeriodicScheduleProofs -----------------------
(***************************************************************************)
(* The rate of periodic reads, for every set of intervals and all polling  *)
(* patterns.  The inductive invariant relates the next due time to the     *)
(* grid first + count * interval: never before it, and exactly on it while *)
(* the polls are steady.                                                   *)
(***************************************************************************)
EXTENDS PeriodicSchedule, TLAPS

\* The due time and the grid
Grid ==
  /\ first <= polled
  /\ polled < next_due /\ next_due <= polled + interval
  /\ first + count * interval <= next_due
  /\ steady => next_due = first + count * interval

Inv ==
  /\ TypeOK
  /\ polled <= now
  /\ count > 0 <=> next_due # None
  /\ count > 0 => Grid

(* One more read is one more interval on the grid.                           *)
LEMMA GridStep ==
  ASSUME NEW n \in Nat, NEW i \in Nat
  PROVE  n * i \in Nat /\ (n + 1) * i = n * i + i /\ (n - 1) * i = n * i - i
  OBVIOUS

(* The client starts, and a registration starts, without a grid.             *)
LEMMA InitInv == Init => Inv
  BY IntervalsAssumption DEF Init, Inv, TypeOK, None

(* A poll that finds the read due moves the due time along the grid, or      *)
(* restarts the grid from now when the polls were not steady.                *)
LEMMA PollDueInv == Inv /\ PollDue => Inv'
  <1> SUFFICES ASSUME Inv, PollDue PROVE Inv'
    OBVIOUS
  <1>1. /\ interval \in Nat /\ interval > 0 /\ now \in Nat /\ polled \in Nat /\ first \in Nat
        /\ count \in Nat /\ next_due \in Nat \cup {None} /\ steady \in BOOLEAN
    BY IntervalsAssumption DEF Inv, TypeOK
  <1>2. /\ interval' = interval /\ now' = now /\ polled' = now /\ count' = count + 1
        /\ next_due' = AdvanceDue(next_due, interval, now)
        /\ first' = IF next_due = None THEN now ELSE first
        /\ steady' = (next_due = None \/ (steady /\ now - polled <= interval))
    BY DEF PollDue
  <1>3. interval' \in Intervals /\ steady' \in BOOLEAN
    BY <1>2 DEF Inv, TypeOK
  <1>4. count * interval \in Nat /\ (count + 1) * interval = count * interval + interval
    BY <1>1, GridStep
  <1>5. CASE next_due = None
    <2>1. next_due' = now + interval /\ first' = now /\ count = 0
      BY <1>1, <1>2, <1>5 DEF AdvanceDue, Inv
    <2>2. count' * interval' = interval /\ count' = 1
      BY <1>1, <1>2, <2>1
    <2>3. TypeOK'
      BY <1>1, <1>2, <1>3, <2>1 DEF TypeOK
    <2>4. Grid'
      BY <1>1, <1>2, <2>1, <2>2 DEF Grid
    <2>. QED
      BY <1>1, <1>2, <2>1, <2>2, <2>3, <2>4 DEF Inv, None
  <1>6. CASE next_due # None
    <2>1. next_due \in Nat /\ now >= next_due /\ first' = first
      BY <1>1, <1>2, <1>6 DEF PollDue, Due
    <2>2. /\ first <= polled /\ polled < next_due /\ next_due <= polled + interval
          /\ first + count * interval <= next_due /\ polled <= now
          /\ steady => next_due = first + count * interval
      BY <1>6 DEF Inv, Grid
    <2>3. next_due' = IF now >= next_due + interval THEN now + interval
                      ELSE next_due + interval
      BY <1>2, <1>6 DEF AdvanceDue
    <2>4. steady' => steady /\ now < next_due + interval
      <3>1. steady' => steady /\ now - polled <= interval
        BY <1>2, <1>6, Zenon
      <3>2. now - polled <= interval => now < next_due + interval
        BY <1>1, <2>1, <2>2
      <3>. QED
        BY <3>1, <3>2, Zenon
    <2>5. count' * interval' = count * interval + interval
      BY <1>2, <1>4
    <2>6. Grid'
      <3> DEFINE g == count * interval
      <3>1. g \in Nat /\ count' * interval' = g + interval
        BY <1>4, <2>5
      <3>2. first + g <= next_due /\ (steady => next_due = first + g)
        BY <2>2
      <3> HIDE DEF g
      <3>3. first' + count' * interval' <= next_due'
        BY <1>1, <1>2, <2>1, <2>3, <3>1, <3>2
      <3>4. steady' => next_due' = first' + count' * interval'
        BY <1>1, <2>1, <2>3, <2>4, <3>1, <3>2
      <3>. QED
        BY <1>1, <1>2, <2>1, <2>2, <2>3, <3>3, <3>4 DEF Grid
    <2>7. TypeOK'
      BY <1>1, <1>2, <1>3, <2>1, <2>3 DEF TypeOK
    <2>. QED
      BY <1>1, <1>2, <2>1, <2>3, <2>6, <2>7 DEF Inv, None
  <1>. QED
    BY <1>5, <1>6

(* Every step preserves the invariant.                                       *)
LEMMA NextInv == Inv /\ [Next]_vars => Inv'
  <1> SUFFICES ASSUME Inv, [Next]_vars PROVE Inv'
    OBVIOUS
  <1>1. CASE UNCHANGED vars
    BY <1>1 DEF vars, Inv, TypeOK, Grid
  <1>2. ASSUME NEW i \in Intervals, Register(i) PROVE Inv'
    BY <1>2 DEF Register, Inv, TypeOK, None
  <1>3. CASE PollDue
    BY <1>3, PollDueInv
  <1>4. CASE PollNotDue
    <2>1. /\ interval' = interval /\ next_due' = next_due /\ now' = now
          /\ first' = first /\ count' = count /\ polled' = now
          /\ steady' \in BOOLEAN /\ (steady' => steady)
      BY <1>4 DEF PollNotDue, Inv, TypeOK
    <2>2. TypeOK'
      BY <2>1 DEF Inv, TypeOK
    <2>3. next_due # None /\ now < next_due /\ next_due \in Nat /\ now \in Nat
      BY <1>4 DEF PollNotDue, Due, Inv, TypeOK, None
    <2>4. interval \in Nat /\ polled \in Nat /\ first \in Nat /\ polled <= now
      BY IntervalsAssumption DEF Inv, TypeOK
    <2>5. count > 0 /\ Grid
      BY <2>3 DEF Inv
    <2>6. first <= now /\ next_due <= now + interval
      BY <2>3, <2>4, <2>5 DEF Grid
    <2>7. Grid'
      BY <2>1, <2>3, <2>5, <2>6 DEF Grid
    <2>. QED
      BY <2>1, <2>2, <2>3, <2>5, <2>7 DEF Inv
  <1>5. CASE Tick
    BY <1>5 DEF Tick, Inv, TypeOK, Grid
  <1>. QED
    BY <1>1, <1>2, <1>3, <1>4, <1>5 DEF Next

(* The invariant holds in every reachable state.                             *)
THEOREM ScheduleInvariant == Spec => []Inv
  BY InitInv, NextInv, PTL DEF Spec

(* The schedule keeps its ranges: the next due time is unset or an instant,  *)
(* for every interval that register_periodic accepts.                        *)
THEOREM TypeCorrect == Spec => []TypeOK
  <1>1. Inv => TypeOK
    BY DEF Inv
  <1>. QED
    BY <1>1, ScheduleInvariant, PTL

(* For every interval and every polling pattern, n reads take at least n - 1 *)
(* intervals (enqueue_periodic_at).                                          *)
THEOREM RateBound == Spec => []RateNeverExceeded
  <1>1. Inv => RateNeverExceeded
    <2> SUFFICES ASSUME Inv, count > 0
                 PROVE  (count - 1) * interval <= polled - first
      BY DEF RateNeverExceeded
    <2>1. /\ interval \in Nat /\ polled \in Nat /\ first \in Nat /\ count \in Nat
          /\ next_due \in Nat
      BY IntervalsAssumption DEF Inv, TypeOK, None
    <2> DEFINE g == count * interval
    <2>2. g \in Nat /\ (count - 1) * interval = g - interval
      BY <2>1, GridStep
    <2>3. first + g <= next_due /\ next_due <= polled + interval
      BY DEF Inv, Grid
    <2> HIDE DEF g
    <2>. QED
      BY <2>1, <2>2, <2>3
  <1>. QED
    BY <1>1, ScheduleInvariant, PTL

(* While polls are at most an interval apart, reads follow the grid exactly. *)
THEOREM DriftFree == Spec => []NoDrift
  <1>1. Inv /\ RateNeverExceeded => NoDrift
    BY DEF Inv, Grid, NoDrift, RateNeverExceeded
  <1>. QED
    BY <1>1, ScheduleInvariant, RateBound, PTL

(* A stall is never followed by a burst of reads.                            *)
THEOREM BurstFree == Spec => []NoBurst
  <1>1. Inv => NoBurst
    BY DEF Inv, Grid, NoBurst
  <1>. QED
    BY <1>1, ScheduleInvariant, PTL
=============================================================================
