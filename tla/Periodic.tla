------------------------------ MODULE Periodic ------------------------------
(***************************************************************************)
(* The due-time arithmetic of Client::enqueue_periodic_at                  *)
(* (runtime/src/client.rs).  A due time is a natural number of clock units *)
(* or None for an entry that was never enqueued.                           *)
(***************************************************************************)
EXTENDS Integers

None == -1

\* Fault: due one unit early
DueEarly(nextDue, now) == nextDue = None \/ now >= nextDue - 1

\* Is the read due?  The first one is due immediately.
Due(nextDue, now) == nextDue = None \/ now >= nextDue

\* Fault: the interval counts from the late read
AdvanceDueFromNow(nextDue, interval, now) == now + interval

\* Fault: the grid does not restart after a stall
AdvanceDueCatchUp(nextDue, interval, now) ==
  IF nextDue = None THEN now + interval ELSE nextDue + interval

\* The due time after a read enqueued at `now`: one interval further on the
\* grid, or one interval from now when that grid point has passed too.
AdvanceDue(nextDue, interval, now) ==
  LET next == IF nextDue = None THEN now ELSE nextDue + interval
  IN  IF now >= next THEN now + interval ELSE next
=============================================================================
