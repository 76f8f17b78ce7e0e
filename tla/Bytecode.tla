------------------------------ MODULE Bytecode ------------------------------
(* Code of the EVM: a sequence of bytes, some of which are opcodes and some *)
(* of which are data of the PUSH in front of them.                          *)
EXTENDS Integers, Sequences

CONSTANTS
    STOP,           \* stands for RETURN, REVERT and SUICIDE as well
    JUMP, JUMPI, JUMPDEST,
    POP,            \* stands for all that go on to the next instruction
    PUSH1, PUSH32,  \* the first and the last of the PUSHes
    ByteMod,        \* values of a byte (256)
    Any,            \* a value that is not known
    Codes           \* the codes that are compiled

ASSUME BytecodeAssumption ==
    /\ PUSH1 \in Nat /\ PUSH32 \in Nat /\ ByteMod \in Nat
    /\ {STOP, JUMP, JUMPI, JUMPDEST, POP} \cap PUSH1..PUSH32 = {}
    /\ POP \notin {STOP, JUMP, JUMPI, JUMPDEST}
    /\ STOP \notin {JUMP, JUMPI, JUMPDEST}
    /\ JUMP \notin {JUMPI, JUMPDEST} /\ JUMPI # JUMPDEST
    /\ Any \notin Nat
    /\ Codes \subseteq Seq(0..ByteMod - 1)

(* The byte at an index from 0.                                            *)
At(code, i) == code[i + 1]

IsPush(b) == b \in PUSH1..PUSH32

(* Other bytes are invalid instructions.                                   *)
IsKnown(b) == b \in {STOP, JUMP, JUMPI, JUMPDEST, POP} \/ IsPush(b)

(* How many bytes of data an instruction has.                              *)
DataLength(b) == IF IsPush(b) THEN b - PUSH1 + 1 ELSE 0

(* The value of a PUSH at i; there are zeros behind the end of the code.   *)
PushValue(code, i) ==
    LET data(n) == IF i + n < Len(code) THEN At(code, i + n) ELSE 0
        value[n \in Nat] == IF n = 0 THEN 0 ELSE value[n - 1] * ByteMod + data(n)
    IN  value[DataLength(At(code, i))]
=============================================================================
