------------------------- MODULE MCPeriodicSchedule -------------------------
(* Intervals below, at and above the tick the polls happen to run on. *)
EXTENDS PeriodicSchedule
=============================================================================
