---------------------------- MODULE MCJitInstance ----------------------------
(* Instances of JitInstance for TLC.                                       *)
EXTENDS JitInstance, TLC

CONSTANTS a1, a2, c1, c2, d1, d2
=============================================================================
