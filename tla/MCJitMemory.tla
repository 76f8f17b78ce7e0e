----------------------------- MODULE MCJitMemory -----------------------------
(* Instances of JitMemory for TLC: words of 2 bytes, operands below and    *)
(* above the clamp and multiples of the modulus of Type::Size.             *)
EXTENDS JitMemory

MCWords == {0, 1, 2, 3, SizeMod + 1, WordTop}
MCLargeWords == {0, 1, InputMax, WordTop}
MCRanges == {<<0, 0>>, <<WordTop, 0>>, <<0, 3>>, <<3, 1>>, <<1, SizeMod + 1>>}
MCSources == {<<>>, <<1, 2>>}
=============================================================================
