---------------------------- MODULE MCBasicBlocks ----------------------------
(* All codes of up to MaxLength bytes; opcodes are small enough to be the  *)
(* indices of bytes too.                                                   *)
EXTENDS BasicBlocks

CONSTANT MaxLength

MCCodes == UNION {[1..n -> 0..ByteMod - 1] : n \in 0..MaxLength}
=============================================================================
