---------------------------- MODULE MCJitThreads ----------------------------
(* An instance of JitThreads for TLC.                                      *)
EXTENDS JitThreads

CONSTANTS t1, t2, c1, c2
=============================================================================
