---------------------------- MODULE MCSerialLink ----------------------------
(* SerialLink with eight byte values, SYNC being 5, and a CRC of three bits. *)
EXTENDS SerialLink, FiniteSets, TLC

C == INSTANCE Crc8 WITH BITS <- 3, POLY <- 6
MCcrc8(s) == C!Checksum(s)

(* The checksum itself, at the code's width: the empty payload, the values   *)
(* of a few bytes, and that a change of one byte is noticed.                 *)
Maxim == INSTANCE Crc8 WITH BITS <- 8, POLY <- 140
ASSUME ChecksumVectors ==
  /\ Maxim!Checksum(<<>>) = 0 /\ Maxim!Checksum(<<0>>) = 0 /\ Maxim!Checksum(<<1>>) = 94
  /\ Cardinality({Maxim!Checksum(<<b>>) : b \in 0..255}) = 256

MCReads == 0 :> [payload |-> "raw", size |-> 0]
Msg(semantic, payloadForm, size) ==
  [semantic |-> semantic, payload |-> payloadForm, size |-> size]
MCWrites == 1 :> Msg("write", "raw", 0) @@ 2 :> Msg("query", "bool", 1)

R(o, c, d) == [op |-> o, cmd |-> c, data |-> d]
MCRequests == {R("read", 0, <<>>), R("write", 1, <<5, 0>>), R("query", 2, <<1>>),
               R("write", 1, <<5, 0, 1>>)}
MCAnswers == {<<5>>}
=============================================================================
