------------------------------ MODULE EvmMemory ------------------------------
(***************************************************************************)
(* What the memory of the EVM promises: bytes at all addresses, zero until *)
(* they are written; a number of active words that covers every range that *)
(* was touched; and a price of the active words that a program can only    *)
(* pay in full.  "budget" is the gas left over for memory and work, with   *)
(* the memory not yet paid.                                                *)
(***************************************************************************)
EXTENDS Integers, Sequences

CONSTANTS
    WordBytes,      \* bytes of a word (32)
    Price(_),       \* the price of a number of active words
    StepCost,       \* what an instruction costs
    CopyCost,       \* what it costs to copy a word
    None,           \* no instruction
    Instructions,   \* instructions with their operands
    Budgets,        \* the gas at the start
    Addresses       \* the addresses that are looked at

VARIABLES
    inst,           \* the instruction that comes next
    bytes, active, budget, status,
    out             \* the bytes that the last step handed out

vars == <<inst, bytes, active, budget, status, out>>

Init ==
    /\ inst = None
    /\ bytes = [a \in Addresses |-> 0]
    /\ active = 0
    /\ budget \in Budgets
    /\ status = "running"
    /\ out = <<>>

Rounded(n) == (n + WordBytes - 1) \div WordBytes

Wider(m, n) == IF m < n THEN n ELSE m

(* The active words when a range is touched; an empty one touches nothing. *)
ActiveWith(off, size) ==
    IF size = 0 THEN active ELSE Wider(active, Rounded(off + size))

Payable(off, size, cost) == budget - cost >= Price(ActiveWith(off, size))

(* The bytes when the range is overwritten with given content.             *)
Written(off, size, content) ==
    [a \in Addresses |->
        IF a \in off..off + size - 1 THEN content[a - off] ELSE bytes[a]]

Ended(next, handed) == inst' = None /\ status' = next /\ out' = handed

Abort ==
    /\ Ended("aborted", out)
    /\ UNCHANGED <<bytes, active, budget>>

Content(off, size) == [i \in 1..size |-> bytes[off + i - 1]]

(* A range is read, to go on or to end the program with it.                *)
Read(next) ==
    \/ /\ Payable(inst.off, inst.size, StepCost)
       /\ active' = ActiveWith(inst.off, inst.size)
       /\ budget' = budget - StepCost
       /\ Ended(next, Content(inst.off, inst.size))
       /\ UNCHANGED bytes
    \/ ~Payable(inst.off, inst.size, StepCost) /\ Abort

(* A range is overwritten.                                                 *)
Write(cost, content) ==
    \/ /\ Payable(inst.off, inst.size, cost)
       /\ bytes' = Written(inst.off, inst.size, content)
       /\ active' = ActiveWith(inst.off, inst.size)
       /\ budget' = budget - cost
       /\ Ended("running", <<>>)
    \/ ~Payable(inst.off, inst.size, cost) /\ Abort

Store == Write(StepCost, [i \in 0..inst.size - 1 |-> inst.byte])

CopyPrice == StepCost + CopyCost * Rounded(inst.size)

(* Behind the end of the source there are zeros.                           *)
At(src, i) == IF i < Len(src) THEN src[i + 1] ELSE 0

Copy == Write(CopyPrice, [i \in 0..inst.size - 1 |-> At(inst.src, inst.idx + i)])

(* RETURNDATACOPY ends the program when it reads behind the end.           *)
CopyReturned ==
    IF inst.idx + inst.size <= Len(inst.src) THEN Copy ELSE Abort

(* A word of the call data.                                                *)
Load ==
    \/ /\ budget - StepCost >= Price(active)
       /\ budget' = budget - StepCost
       /\ Ended("running", [i \in 1..WordBytes |-> At(inst.src, inst.idx + i - 1)])
       /\ UNCHANGED <<bytes, active>>
    \/ budget - StepCost < Price(active) /\ Abort

(* A callee reads one range and overwrites the start of another; both are  *)
(* active and paid at once.                                                *)
Call ==
    LET to == inst.to
        from == inst.from
        reach == Wider(ActiveWith(to[1], to[2]), ActiveWith(from[1], from[2]))
        n == IF Len(inst.data) < to[2] THEN Len(inst.data) ELSE to[2]
    IN  \/ /\ budget - StepCost >= Price(reach)
           /\ active' = reach
           /\ budget' = budget - StepCost
           /\ Ended("running", Content(from[1], from[2]))
           /\ bytes' = Written(to[1], n, [i \in 0..n - 1 |-> inst.data[i + 1]])
        \/ budget - StepCost < Price(reach) /\ Abort

Fetch ==
    /\ status = "running" /\ inst = None
    /\ inst' \in Instructions
    /\ out' = <<>>
    /\ UNCHANGED <<bytes, active, budget, status>>

Next ==
    \/ Fetch
    \/ inst.op = "read" /\ Read("running")
    \/ inst.op = "return" /\ Read("returned")
    \/ inst.op = "store" /\ Store
    \/ inst.op = "copy" /\ Copy
    \/ inst.op = "copyReturned" /\ CopyReturned
    \/ inst.op = "load" /\ Load
    \/ inst.op = "call" /\ Call

Spec == Init /\ [][Next]_vars
=============================================================================
