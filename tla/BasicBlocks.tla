----------------------------- MODULE BasicBlocks -----------------------------
(***************************************************************************)
(* The control flow of compiled code (src/libevmjit/Compiler.cpp).         *)
(*                                                                         *)
(* The compiler passes over the code three times: it splits the code into  *)
(* blocks and drops what cannot be reached, it compiles block by block and *)
(* collects the JUMPDESTs in a jump table, and it resolves the jumps: to a *)
(* block when the destination is a constant, through the table otherwise.  *)
(* Then the blocks are run.                                                *)
(***************************************************************************)
EXTENDS Bytecode

VARIABLES
    code,           \* the code, which does not change
    phase,          \* "split", "compile", "resolve", "run"
    curr,           \* the loop of createBasicBlocks(): the instruction,
    begin,          \*   where the current block began,
    isDead,         \*   and whether code is skipped
    blocks,         \* the blocks: [first, end)
    k,              \* the block that is compiled, resolved or run
    it,             \* the instruction that is compiled or run
    top,            \* the constant on top of the stack, or Any
    terms,          \* the terminators of blocks
    jumpTable,      \* the cases of the jump table: index to block
    target,         \* the value that the last step jumped to, or Any
    status          \* "running", "stopped", "aborted"

vars == <<code, phase, curr, begin, isDead, blocks, k, it, top, terms,
          jumpTable, target, status>>

splitVars == <<curr, begin, isDead, blocks>>

(* The blocks behind those of the code.                                    *)
StopBlock == Len(blocks) + 1
AbortBlock == 0
TableBlock == -1

(* "none": the block runs into the next one.  "jump" and "branch": to a    *)
(* constant or a value that is not known, and where that is, once it is    *)
(* resolved.                                                               *)
NoTerm == [kind |-> "none"]
Exit(how) == [kind |-> how]
JumpTo(kind, dest) == [kind |-> kind, dest |-> dest, to |-> TableBlock]

TypeOK ==
    /\ phase \in {"split", "compile", "resolve", "run"}
    /\ curr \in 0..Len(code) /\ begin \in 0..curr /\ it \in 0..Len(code)
    /\ isDead \in BOOLEAN
    /\ \A b \in 1..Len(blocks) : blocks[b].first \in 0..blocks[b].end - 1
    /\ k \in 1..StopBlock
    /\ top \in Nat \cup {Any}
    /\ Len(terms) = Len(blocks)
    /\ target \in Nat \cup {Any}
    /\ status \in {"running", "stopped", "aborted"}

Init ==
    /\ code \in Codes
    /\ phase = "split"
    /\ curr = 0 /\ begin = 0 /\ isDead = FALSE /\ blocks = <<>>
    /\ k = 1 /\ it = 0 /\ top = Any
    /\ terms = <<>>
    /\ jumpTable = [i \in {} |-> 0]
    /\ target = Any
    /\ status = "running"

-----------------------------------------------------------------------------
(* createBasicBlocks().                                                    *)

skipPushDataAndGetNext(i) ==
    LET left == Len(code) - i - 1
        data == DataLength(At(code, i))
    IN  i + 1 + (IF data < left THEN data ELSE left)

(* What is behind these cannot be reached but by a jump.                   *)
DeadBehind(b) == b \in {JUMP, STOP}

EndsBlock(i, next) ==
    \/ DeadBehind(At(code, i)) \/ At(code, i) = JUMPI
    \/ next = Len(code)
    \/ At(code, next) = JUMPDEST

(* Mutant: a block reaches back over code that was skipped.                *)
FirstKept == begin

First == IF isDead THEN curr ELSE begin

Skipped == isDead /\ At(code, curr) # JUMPDEST

Split ==
    /\ phase = "split" /\ curr < Len(code)
    /\ LET next == skipPushDataAndGetNext(curr)
       IN  /\ curr' = next
           /\ \/ Skipped /\ UNCHANGED <<begin, isDead, blocks, terms>>
              \/ /\ ~Skipped
                 /\ isDead' = DeadBehind(At(code, curr))
                 /\ IF EndsBlock(curr, next)
                    THEN /\ blocks' = Append(blocks, [first |-> First, end |-> next])
                         /\ terms' = Append(terms, NoTerm)
                         /\ begin' = next
                    ELSE begin' = First /\ UNCHANGED <<blocks, terms>>
    /\ UNCHANGED <<code, phase, k, it, top, jumpTable, status>>

(* To the first block, if there is one.                                    *)
Entered(next) ==
    /\ phase' = next
    /\ k' = 1 /\ it' = 0 /\ top' = Any
    /\ UNCHANGED <<code, splitVars, terms, jumpTable, status>>

SplitDone == phase = "split" /\ curr = Len(code) /\ Entered("compile")

-----------------------------------------------------------------------------
(* compileBasicBlock().                                                    *)
Inst == At(code, it)

(* Mutant: the end of the code is not looked at.                           *)
readPushDataAll(i) == i + 1 + DataLength(At(code, i))

(* readPushData() stops at the end of the block.                           *)
readPushData(i) ==
    LET next == i + 1 + DataLength(At(code, i))
    IN  IF next < blocks[k].end THEN next ELSE blocks[k].end

Compiling == phase = "compile" /\ k # StopBlock /\ it < blocks[k].end

CompilePush ==
    /\ Compiling /\ IsPush(Inst)
    /\ it' = readPushData(it)
    /\ top' = PushValue(code, it)
    /\ UNCHANGED <<code, phase, splitVars, k, terms, jumpTable, status>>

CompilePop ==
    /\ Compiling /\ Inst = POP
    /\ it' = it + 1 /\ top' = Any
    /\ UNCHANGED <<code, phase, splitVars, k, terms, jumpTable, status>>

(* addCase() with the index of the first instruction of the block.         *)
CompileJumpDest ==
    /\ Compiling /\ Inst = JUMPDEST
    /\ jumpTable' = [i \in DOMAIN jumpTable \cup {blocks[k].first} |->
                        IF i = blocks[k].first THEN k ELSE jumpTable[i]]
    /\ it' = it + 1
    /\ UNCHANGED <<code, phase, splitVars, k, top, terms, status>>

EndsFlow(b) == ~IsPush(b) /\ b \notin {JUMPDEST, POP}

(* The terminator that an instruction ends its block with.                 *)
TermOf(b) ==
    CASE b = JUMP -> JumpTo("jump", top)
      [] b = JUMPI -> JumpTo("branch", top)
      [] b = STOP -> Exit("stopped")
      [] OTHER -> Exit("aborted")

CompileTerm ==
    /\ Compiling /\ EndsFlow(Inst)
    /\ terms' = [terms EXCEPT ![k] = TermOf(Inst)]
    /\ it' = blocks[k].end
    /\ UNCHANGED <<code, phase, splitVars, k, top, jumpTable, status>>

NextBlock(b) ==
    /\ k' = b
    /\ it' = IF b = StopBlock THEN Len(code) ELSE blocks[b].first

(* A block starts with a stack that was not filled by it.                  *)
BlockDone ==
    /\ phase = "compile" /\ k # StopBlock /\ it = blocks[k].end
    /\ NextBlock(k + 1)
    /\ top' = Any
    /\ UNCHANGED <<code, phase, splitVars, terms, jumpTable, status>>

CompileDone == phase = "compile" /\ k = StopBlock /\ Entered("resolve")

-----------------------------------------------------------------------------
(* resolveJumps().                                                         *)
(* Mutant: the default of the table is the block behind the code.            *)
CaseOfStop(d) == IF d \in DOMAIN jumpTable THEN jumpTable[d] ELSE StopBlock

(* Where a value goes; the default of the switch is the abort block.       *)
CaseOf(d) == IF d \in DOMAIN jumpTable THEN jumpTable[d] ELSE AbortBlock

Resolved(term) ==
    IF term.kind \in {"jump", "branch"} /\ term.dest # Any
    THEN [term EXCEPT !.to = CaseOf(term.dest)]
    ELSE term

Resolve ==
    /\ phase = "resolve" /\ k # StopBlock
    /\ terms' = [terms EXCEPT ![k] = Resolved(terms[k])]
    /\ NextBlock(k + 1)
    /\ UNCHANGED <<code, phase, splitVars, top, jumpTable, status>>

(* The phi node of the computed targets, replaced by a constant where all  *)
(* of them are one (Compiler.cpp:156-164), is left out: the switch over it *)
(* goes where it went.                                                     *)
ResolveDone == phase = "resolve" /\ k = StopBlock /\ Entered("run")

-----------------------------------------------------------------------------
(* The compiled code.                                                      *)
Running == phase = "run" /\ status = "running" /\ k # StopBlock

Ended(how) ==
    /\ status' = how
    /\ UNCHANGED <<code, phase, splitVars, k, it, top, terms, jumpTable>>

RunStop == phase = "run" /\ status = "running" /\ k = StopBlock /\ Ended("stopped")

RunPush ==
    /\ Running /\ it < blocks[k].end /\ IsPush(Inst)
    /\ it' = readPushData(it)
    /\ top' = PushValue(code, it)
    /\ UNCHANGED <<code, phase, splitVars, k, terms, jumpTable, status>>

RunJumpDest ==
    /\ Running /\ it < blocks[k].end /\ Inst = JUMPDEST
    /\ it' = it + 1
    /\ UNCHANGED <<code, phase, splitVars, k, top, terms, jumpTable, status>>

RunPop ==
    /\ Running /\ it < blocks[k].end /\ Inst = POP
    /\ it' = it + 1 /\ top' = Any
    /\ UNCHANGED <<code, phase, splitVars, k, terms, jumpTable, status>>

(* To the last instruction of the block, or to its end without one.        *)
AtTerm == Running /\ (it < blocks[k].end => EndsFlow(Inst))

RunExit == AtTerm /\ terms[k].kind \in {"stopped", "aborted"} /\ Ended(terms[k].kind)

Arrive(b) ==
    \/ b = AbortBlock /\ Ended("aborted")
    \/ /\ b # AbortBlock
       /\ NextBlock(b)
       /\ UNCHANGED <<code, phase, splitVars, terms, jumpTable, status>>

RunOn == AtTerm /\ terms[k].kind = "none" /\ Arrive(k + 1) /\ UNCHANGED top

(* The switch over the value that the stack holds at run time.             *)
RunJump ==
    /\ AtTerm /\ terms[k].kind \in {"jump", "branch"}
    /\ \/ /\ terms[k].to # TableBlock
          /\ Arrive(terms[k].to)
          /\ target' = terms[k].dest
       \/ /\ terms[k].to = TableBlock
          /\ \E d \in IF top = Any THEN 0..Len(code) ELSE {top} :
               Arrive(CaseOf(d)) /\ target' = d
    /\ top' = IF status' = "aborted" THEN top ELSE Any

RunNotTaken ==
    /\ AtTerm /\ terms[k].kind = "branch"
    /\ Arrive(k + 1)
    /\ top' = Any

Next ==
    \/ RunJump
    \/ /\ target' = Any
       /\ \/ Split \/ SplitDone
          \/ CompilePush \/ CompilePop \/ CompileJumpDest \/ CompileTerm
          \/ BlockDone \/ CompileDone
          \/ Resolve \/ ResolveDone
          \/ RunStop \/ RunPush \/ RunPop \/ RunJumpDest \/ RunExit \/ RunOn
          \/ RunNotTaken

Spec == Init /\ [][Next]_vars

-----------------------------------------------------------------------------
(* The properties.                                                         *)

(* "JUMPDEST must be the first instruction of a basic block"               *)
(* (Compiler.cpp:621), where it is found under the index of the block.     *)
JumpDestIsFirst ==
    Compiling /\ Inst = JUMPDEST => it = blocks[k].first

(* The compiled control flow is the EVM's: split, skipped, joined by       *)
(* position and resolved in three passes, it visits the same instructions  *)
(* and accepts the same destinations (Compiler.cpp:56-164).                *)
Evm == INSTANCE EvmControl WITH
    pc <- IF phase # "run" THEN 0 ELSE it,
    top <- IF phase # "run" THEN Any ELSE top

ImplementsEvmControl == Evm!Spec
=============================================================================
