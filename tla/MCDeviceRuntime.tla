-------------------------- MODULE MCDeviceRuntime --------------------------
(* DeviceRuntime with a handful of byte values, the highest being SYNC.     *)
EXTENDS DeviceRuntime, SequencesExt, TLC

MCcrc8(s) == FoldLeft(LAMBDA acc, b : (2 * acc + b + 1) % Radix, 0, s)

\* A struct that fits, a raw payload and a struct over the limit
MCReads == 0 :> [payload |-> "struct", size |-> 1] @@ 1 :> [payload |-> "raw", size |-> 0]
           @@ 2 :> [payload |-> "struct", size |-> MAX_PAYLOAD + 1]

\* Every payload form, under both semantics
Msg(semantic, payloadForm, size) ==
  [semantic |-> semantic, payload |-> payloadForm, size |-> size]
MCWrites == 0 :> Msg("write", "struct", 1) @@ 1 :> Msg("query", "bool", 1)
            @@ 2 :> Msg("write", "none", 0) @@ 3 :> Msg("query", "raw", 0)
=============================================================================
