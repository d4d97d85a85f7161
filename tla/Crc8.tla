-------------------------------- MODULE Crc8 --------------------------------
(***************************************************************************)
(* The checksum both ends compute (crc8 of framing/src/lib.rs and          *)
(* Runtime_crc8 of core/templates/protocol_runtime.c.j2): a reflected CRC, *)
(* least significant bit first, from 0.  The width and the polynomial are  *)
(* parameters, 8 and 0x8C in the code, so that a model with fewer byte     *)
(* values has a checksum of the same kind.                                 *)
(***************************************************************************)
EXTENDS Integers, SequencesExt, Bitwise

CONSTANTS BITS, POLY

\* One round of the inner loop, for one bit of the byte
AddBit(crc, bit) ==
  IF crc % 2 # bit THEN (crc \div 2) ^^ POLY ELSE crc \div 2

\* The inner loop: the bits of inbyte, lowest first
AddByte(crc, byte) ==
  FoldLeft(AddBit, crc, [i \in 1..BITS |-> (byte \div 2^(i - 1)) % 2])

Checksum(data) == FoldLeft(AddByte, 0, data)
=============================================================================
