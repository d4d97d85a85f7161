---------------------------- MODULE RequestLedger ----------------------------
(***************************************************************************)
(* What the client promises for the requests it accepts, which have        *)
(* numbers that grow in the order in which it accepts them: each is open   *)
(* until it ends, once and for all - reported by an event of its own,      *)
(* replaced by a newer request with its coalesce key, or dropped by the    *)
(* application.  No queue, no line, no clock.  Client and Bridge both      *)
(* implement it, each with its own mapping.                                *)
(***************************************************************************)
EXTENDS Naturals

VARIABLE ledger   \* the state of each request, by its number

Open == {i \in DOMAIN ledger : ledger[i] = "open"}

Marked(gone, end) == [i \in DOMAIN ledger |-> IF i \in gone THEN end ELSE ledger[i]]

Init == ledger = <<>>

\* A new request replaces at most one older one
Accept(gone) ==
  /\ \A i, j \in gone : i = j
  /\ \E new \in DOMAIN ledger' \ DOMAIN ledger :
       /\ \A i \in DOMAIN ledger : i < new
       /\ ledger' = [i \in DOMAIN ledger \cup {new} |->
                       IF i = new THEN "open" ELSE Marked(gone, "replaced")[i]]

\* One event ends one request
Report(i) == ledger' = Marked({i}, "reported")

\* The queue is cleared, or the client goes away
Drop(gone) == ledger' = Marked(gone, "dropped")

Next ==
  \/ \E gone \in SUBSET Open : Accept(gone) \/ Drop(gone)
  \/ \E i \in Open : Report(i)

Spec == Init /\ [][Next]_ledger
=============================================================================
