------------------------------- MODULE EvmGas -------------------------------
(***************************************************************************)
(* What gas metering promises to a program: every instruction pays for     *)
(* itself before it runs, and the execution ends when one cannot.  A run   *)
(* that cannot pay may go on unnoticed ("ok" is false) until the first     *)
(* point where the gas left is visible to the program, to a callee or to   *)
(* the host; no such point is passed without having paid for all before.   *)
(***************************************************************************)
EXTENDS Integers

CONSTANTS
    MaxGas,         \* the greatest amount of gas (2^63 - 1)
    KeepDiv,        \* a call passes on all but 1/KeepDiv of the gas (EIP-150)
    None,           \* no instruction
    Instructions,   \* instructions with their operands
    Cost(_),        \* what an instruction costs, without gas that it passes on
    Stipend         \* what is added for the callee by a transfer of value

VARIABLES
    inst,           \* the instruction that comes next
    capCalls,       \* whether that rule is in force
    gas,            \* the gas left
    ok,             \* all instructions so far were paid for
    report,         \* the gas that the last step made visible
    status          \* "running", "stopped" or "aborted"

vars == <<inst, capCalls, gas, ok, report, status>>

Init ==
    /\ inst = None
    /\ capCalls \in BOOLEAN
    /\ gas \in 0..MaxGas
    /\ ok = TRUE
    /\ report = 0
    /\ status = "running"

Kept(g) == IF capCalls THEN g \div KeepDiv ELSE 0

Sent(g, ask) == IF capCalls /\ ask > g - Kept(g) THEN g - Kept(g) ELSE ask

Affordable == ok /\ gas >= Cost(inst)
Left == gas - Cost(inst)

(* An instruction of which nothing is visible outside.                     *)
Plain ==
    /\ gas' = IF Affordable THEN Left ELSE 0
    /\ ok' = Affordable
    /\ UNCHANGED <<report, status>>

Abort ==
    /\ gas' = 0
    /\ ok' = FALSE
    /\ status' = "aborted"
    /\ UNCHANGED report

(* GAS, and the end of the program: the gas left is visible.               *)
Show(next) ==
    IF Affordable
    THEN gas' = Left /\ report' = Left /\ status' = next /\ UNCHANGED ok
    ELSE Abort

(* A call costs, and asks to pass on gas; the callee gets that and a       *)
(* stipend, and gives back what it did not use.  A forbidden one ends the  *)
(* program.                                                                *)
Call ==
    LET sent == Sent(Left, inst.ask)
    IN  IF Affordable /\ sent <= Left /\ inst.transfer # "forbidden"
        THEN /\ report' = sent + (IF inst.transfer = "value" THEN Stipend ELSE 0)
             /\ \E back \in 0..report' : gas' = Left - sent + back
             /\ UNCHANGED <<ok, status>>
        ELSE Abort

Create ==
    IF Affordable
    THEN /\ report' = Left - Kept(Left)
         /\ \E back \in 0..report' : gas' = Kept(Left) + back
         /\ UNCHANGED <<ok, status>>
    ELSE Abort

Execute ==
    /\ inst' = None
    /\ \/ inst.op \in {"plain", "log"} /\ Plain
       \/ inst.op = "gas" /\ Show("running")
       \/ inst.op = "stop" /\ Show("stopped")
       \/ inst.op = "call" /\ Call
       \/ inst.op = "create" /\ Create
       \/ inst.op = "invalid" /\ Abort

Fetch ==
    /\ status = "running" /\ inst = None
    /\ inst' \in Instructions
    /\ report' = 0
    /\ UNCHANGED <<gas, ok, status>>

(* The end of a basic block shows nothing; it may reveal the condemnation. *)
Reveal ==
    /\ status = "running" /\ inst = None
    /\ ~ok
    /\ Abort
    /\ UNCHANGED inst

Next ==
    /\ Fetch \/ Execute \/ Reveal
    /\ UNCHANGED capCalls

Spec == Init /\ [][Next]_vars
=============================================================================
