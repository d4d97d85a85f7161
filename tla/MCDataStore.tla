---------------------------- MODULE MCDataStore ----------------------------
(* Small instance of DataStore: rings of one, two and three entries, stored *)
(* into up to five times, so that every ring wraps and a cursor falls       *)
(* behind it.                                                               *)
EXTENDS DataStore

CONSTANTS c1, p1, p2      \* model values
=============================================================================
