----------------------------- MODULE EvmControl -----------------------------
(***************************************************************************)
(* How the EVM goes through code: one instruction after the other, over    *)
(* the data of PUSHes, to the JUMPDESTs that are no such data, and to a    *)
(* stop behind the end.  "top" is the item on top of the stack when the    *)
(* last instructions have pushed a constant; other items are not modelled. *)
(***************************************************************************)
EXTENDS Bytecode

VARIABLES
    code, pc, top, status,
    target          \* the value that the last step jumped to, or Any

vars == <<code, pc, top, status, target>>

Init ==
    /\ code \in Codes
    /\ pc = 0
    /\ top = Any
    /\ status = "running"
    /\ target = Any

(* Where instructions start: at 0, and behind instructions.                *)
Starts ==
    LET starts[i \in Nat] ==
            \/ i = 0
            \/ \E j \in 0..i - 1 :
                 starts[j] /\ j + 1 + DataLength(At(code, j)) = i
    IN  {i \in 0..Len(code) - 1 : starts[i]}

Dests == {i \in Starts : At(code, i) = JUMPDEST}

Inst == At(code, pc)

Ended(how) == status' = how /\ UNCHANGED <<code, pc, top>>

Stop == (pc = Len(code) \/ Inst = STOP) /\ Ended("stopped")

Invalid == pc < Len(code) /\ ~IsKnown(Inst) /\ Ended("aborted")

GoTo(d) ==
    IF d \in Dests
    THEN pc' = d /\ top' = Any /\ UNCHANGED <<code, status>>
    ELSE Ended("aborted")

(* A JUMP without a constant goes wherever the stack says.                 *)
Jump ==
    /\ pc < Len(code) /\ Inst \in {JUMP, JUMPI}
    /\ \E d \in IF top = Any THEN 0..Len(code) ELSE {top} : GoTo(d) /\ target' = d

NotTaken ==
    /\ pc < Len(code) /\ Inst = JUMPI
    /\ pc' = pc + 1 /\ top' = Any
    /\ UNCHANGED <<code, status>>

Land ==
    /\ pc < Len(code) /\ Inst = JUMPDEST
    /\ pc' = pc + 1
    /\ UNCHANGED <<code, top, status>>

Pop ==
    /\ pc < Len(code) /\ Inst = POP
    /\ pc' = pc + 1 /\ top' = Any
    /\ UNCHANGED <<code, status>>

Push ==
    /\ pc < Len(code) /\ IsPush(Inst)
    /\ LET next == pc + 1 + DataLength(Inst)
       IN  pc' = IF next > Len(code) THEN Len(code) ELSE next
    /\ top' = PushValue(code, pc)
    /\ UNCHANGED <<code, status>>

Next ==
    /\ status = "running"
    /\ \/ Jump
       \/ target' = Any /\ (Stop \/ Invalid \/ NotTaken \/ Land \/ Pop \/ Push)

Spec == Init /\ [][Next]_vars
=============================================================================
