--------------------------- MODULE MCFrameStream ---------------------------
(* Frames and noise on a line with five byte values; 4 is SYNC, which       *)
(* payloads contain as well.                                                *)
EXTENDS FrameStream, SequencesExt

\* A stand-in checksum that tells order and content apart
MCcrc8(s) == FoldLeft(LAMBDA acc, b : (2 * acc + b + 1) % Radix, 0, s)
MCPayloads == {<<>>, <<4, 2>>}
=============================================================================
