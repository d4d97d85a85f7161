------------------------------ MODULE MCBridge ------------------------------
(* Bridge with a few lines of every kind. *)
EXTENDS Bridge
=============================================================================
