---------------------------- MODULE MCObjectCache ----------------------------
(* Instances of ObjectCache for TLC: two threads in the first process and  *)
(* one in the second.                                                      *)
EXTENDS ObjectCache, TLC

CONSTANTS p1, p2, t1, t2, t3, i1, i2

Several == [t \in Thread |-> IF t = t3 THEN p2 ELSE p1]

(* Identifiers are alike, and so are the threads of the first process.     *)
Symmetry == Permutations({i1, i2}) \cup Permutations({t1, t2})
=============================================================================
