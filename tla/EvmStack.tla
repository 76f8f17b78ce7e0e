------------------------------ MODULE EvmStack ------------------------------
(***************************************************************************)
(* What the operand stack of the EVM promises to the instructions: a       *)
(* bounded stack, operated one call at a time, on which the first call     *)
(* that underflows or overflows condemns the execution.                    *)
(*                                                                         *)
(* Calls act on "work", the stack as the running basic block sees it.  The *)
(* end of the block publishes it to "stack", the stack other blocks see,   *)
(* or aborts the execution when a call of the block has failed.            *)
(***************************************************************************)
EXTENDS Integers, Sequences

CONSTANTS
    Word,           \* what a stack item holds
    StackLimit,     \* the most items a stack holds
    Reach,          \* DUP reaches the items 0..Reach-1, SWAP the items 1..Reach
    EmptyWork       \* the working stack of a condemned block

VARIABLES
    stack,          \* the stack at the last block boundary
    work,           \* the stack inside the block
    ok,             \* no call of the block has under- or overflowed
    status          \* "running" or "aborted"

vars == <<stack, work, ok, status>>

Init ==
    /\ stack = <<>>
    /\ work = <<>>
    /\ ok = TRUE
    /\ status = "running"

(* A call that needs "can" and leaves the stack "result".                  *)
Call(can, result) ==
    /\ status = "running"
    /\ ok
    /\ \/ can /\ work' = result /\ ok' = TRUE
       \/ ~can /\ work' = EmptyWork /\ ok' = FALSE
    /\ UNCHANGED <<stack, status>>

(* The item i below the top, and the stack with the items i and 0 swapped. *)
Nth(i) == work[Len(work) - i]

Swapped(i) ==
    [p \in 1..Len(work) |->
        CASE p = Len(work) - i -> Nth(0)
          [] p = Len(work)     -> Nth(i)
          [] OTHER             -> work[p]]

Push(w) == Call(Len(work) < StackLimit, Append(work, w))

Pop == Call(Len(work) > 0, [p \in 1..Len(work) - 1 |-> work[p]])

Dup(i) == Call(i < Len(work) /\ Len(work) < StackLimit, Append(work, Nth(i)))

Swap(i) == Call(i < Len(work), Swapped(i))

EndBlock ==
    /\ status = "running"
    /\ \/ ok /\ stack' = work /\ UNCHANGED <<work, ok, status>>
       \/ ~ok /\ status' = "aborted" /\ UNCHANGED <<stack, work, ok>>

Next ==
    \/ \E w \in Word : Push(w)
    \/ Pop
    \/ \E i \in 0..Reach-1 : Dup(i)
    \/ \E i \in 1..Reach : Swap(i)
    \/ EndBlock

Spec == Init /\ [][Next]_vars
=============================================================================
