----------------------------- MODULE MCArith256 -----------------------------
(* An instance of Arith256 for TLC.                                        *)
EXTENDS Arith256

(* The count of the leading zeros of zero: none, those of a word or of a   *)
(* double word, or what a register holds by chance.                        *)
SomeCounts == {0, Bits, 2 * Bits, Size(2 * Bits) - 1}
=============================================================================
