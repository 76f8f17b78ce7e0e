---------------------------- MODULE MCLocalStack ----------------------------
(* Model-checking instance of LocalStack.                                  *)
EXTENDS LocalStack, TLC

Symmetry == Permutations(Word)
=============================================================================
