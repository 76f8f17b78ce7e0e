----------------------------- MODULE LocalStack -----------------------------
(***************************************************************************)
(* The operand stack as evmjit compiles it (src/libevmjit/BasicBlock.cpp). *)
(*                                                                         *)
(* While a basic block is compiled, LocalStack keeps its stack as vectors  *)
(* of symbolic items; items of the global stack are fetched when they are  *)
(* first needed.  finalize() then hands the extreme sizes to               *)
(* stack.prepare, which at run time checks them once, on entry to the      *)
(* block, and emits the stores that bring the global stack up to date.     *)
(*                                                                         *)
(* The module follows one execution path: the calls the compiler makes for *)
(* a block, then RunBlock, the run of the code they produced, then the     *)
(* next block of the path.  The global stack survives from block to block. *)
(***************************************************************************)
EXTENDS Integers, Sequences

CONSTANTS
    Word,           \* what a stack item holds
    StackLimit,     \* RuntimeManager::stackSizeLimit (1024)
    Reach,          \* DUP1..DUP16 and SWAP1..SWAP16 (16)
    MaxItems        \* bound on the items a block touches, on either side

ASSUME StackLimitAssumption == StackLimit \in Nat
ASSUME ReachAssumption == Reach \in Nat
ASSUME MaxItemsAssumption == MaxItems \in Nat

VARIABLES
    local,          \* m_local: items above the global stack, last one on top
    input,          \* m_input: items of the global stack, first one its top
    globalPops,     \* m_globalPops: items popped from the global stack
    minSize,        \* m_minSize: least size reached or required
    maxSize,        \* m_maxSize: greatest size reached
    mem,            \* the slots of the global stack, stale ones included
    size,           \* the size of the global stack
    status          \* "running", or "aborted" by the longjmp of stack.prepare

blockVars == <<local, input, globalPops, minSize, maxSize>>
runVars == <<mem, size, status>>
vars == <<local, input, globalPops, minSize, maxSize, mem, size, status>>

-----------------------------------------------------------------------------
(* Symbolic items: a load of the slot "of" below the stack pointer, a word *)
(* computed by the block, or none (a null item of m_input).                *)
Slot(d) == [kind |-> "slot", of |-> d]
Value(w) == [kind |-> "word", of |-> w]
None == [kind |-> "none", of |-> 0]

Slots == [kind : {"slot"}, of : Nat \ {0}]
Values == [kind : {"word"}, of : Word]
Items == Slots \cup Values

Lesser(a, b) == IF a < b THEN a ELSE b
Greater(a, b) == IF a > b THEN a ELSE b

(* LocalStack::size(), relative to the global stack at block entry.        *)
LocalSize == Len(local) - globalPops

TypeOK ==
    /\ local \in Seq(Items)
    /\ input \in Seq(Items \cup {None})
    /\ globalPops \in Nat
    /\ minSize \in Int
    /\ maxSize \in Int
    /\ mem \in [1..StackLimit -> Word]
    /\ size \in 0..StackLimit
    /\ status \in {"running", "aborted"}

(* The slots are allocated and not initialised; the size starts at zero.   *)
Init ==
    /\ local = <<>>
    /\ input = <<>>
    /\ globalPops = 0
    /\ minSize = 0
    /\ maxSize = 0
    /\ mem \in [1..StackLimit -> Word]
    /\ size = 0
    /\ status = "running"

(* Every block is compiled with a LocalStack of its own.                   *)
FreshLocalStack ==
    /\ local' = <<>>
    /\ input' = <<>>
    /\ globalPops' = 0
    /\ minSize' = 0
    /\ maxSize' = 0

-----------------------------------------------------------------------------
(* get(i): the item i below the top, from the local items or from the      *)
(* input items, where it is fetched if it was not.                         *)
InLocal(i) == i < Len(local)
InputIdx(i) == i - Len(local) + globalPops + 1      \* counted from 1
Fetched(k, in) == k <= Len(in) /\ in[k] # None

FetchAt(k, in) ==
    IF Fetched(k, in)
    THEN in
    ELSE [j \in 1..Greater(Len(in), k) |->
            IF j = k THEN Slot(k) ELSE IF j <= Len(in) THEN in[j] ELSE None]

InputAfterGet(i, in) == IF InLocal(i) THEN in ELSE FetchAt(InputIdx(i), in)

(* Mutant: the size required is one too small.                             *)
MinAfterGetShort(i, in, min) ==
    IF InLocal(i) \/ Fetched(InputIdx(i), in)
    THEN min
    ELSE Lesser(min, 1 - InputIdx(i))

MinAfterGet(i, in, min) ==
    IF InLocal(i) \/ Fetched(InputIdx(i), in)
    THEN min
    ELSE Lesser(min, -InputIdx(i))

ItemAt(i, in) ==
    IF InLocal(i)
    THEN local[Len(local) - i]
    ELSE in[InputIdx(i)]

InReach(i) == InLocal(i) \/ InputIdx(i) <= MaxItems     \* the bound

-----------------------------------------------------------------------------
(* LocalStack::push of an item.                                            *)
PushItem(item) ==
    /\ Len(local) < MaxItems
    /\ local' = Append(local, item)
    /\ maxSize' = Greater(maxSize, LocalSize + 1)

Push(w) ==
    /\ status = "running"
    /\ PushItem(Value(w))
    /\ UNCHANGED <<input, globalPops, minSize>>
    /\ UNCHANGED runVars

(* Mutant: pop() does not fetch the item it pops.                          *)
PopUnfetched ==
    /\ status = "running"
    /\ InReach(0)
    /\ \/ /\ Len(local) > 0
          /\ local' = SubSeq(local, 1, Len(local) - 1)
          /\ UNCHANGED globalPops
       \/ /\ Len(local) = 0
          /\ globalPops' = globalPops + 1
          /\ UNCHANGED local
    /\ minSize' = Lesser(minSize, LocalSize - 1)
    /\ UNCHANGED <<input, maxSize>>
    /\ UNCHANGED runVars

Pop ==
    /\ status = "running"
    /\ InReach(0)
    /\ input' = InputAfterGet(0, input)
    /\ \/ /\ Len(local) > 0
          /\ local' = SubSeq(local, 1, Len(local) - 1)
          /\ UNCHANGED globalPops
       \/ /\ Len(local) = 0
          /\ globalPops' = globalPops + 1
          /\ UNCHANGED local
    /\ minSize' = Lesser(MinAfterGet(0, input, minSize), LocalSize - 1)
    /\ UNCHANGED maxSize
    /\ UNCHANGED runVars

(* Mutant: the index is one too high.                                      *)
DupBelow(i) ==
    /\ status = "running"
    /\ InReach(i + 1)
    /\ input' = InputAfterGet(i + 1, input)
    /\ minSize' = MinAfterGet(i + 1, input, minSize)
    /\ PushItem(ItemAt(i + 1, input'))
    /\ UNCHANGED globalPops
    /\ UNCHANGED runVars

Dup(i) ==
    /\ status = "running"
    /\ InReach(i)
    /\ input' = InputAfterGet(i, input)
    /\ minSize' = MinAfterGet(i, input, minSize)
    /\ PushItem(ItemAt(i, input'))
    /\ UNCHANGED globalPops
    /\ UNCHANGED runVars

(* set(i, item) on a pair of item vectors.                                 *)
SetLocal(i, item, lo) ==
    IF InLocal(i) THEN [lo EXCEPT ![Len(local) - i] = item] ELSE lo

SetInput(i, item, in) ==
    IF InLocal(i) THEN in ELSE [in EXCEPT ![InputIdx(i)] = item]

(* swap(i): both items are fetched, the deeper one first, and then both    *)
(* are overwritten, the deeper one first.                                  *)
Swap(i) ==
    /\ status = "running"
    /\ InReach(i)
    /\ LET in1 == InputAfterGet(i, input)
           in2 == InputAfterGet(0, in1)
           val == ItemAt(i, in2)
           tos == ItemAt(0, in2)
       IN  /\ local' = SetLocal(0, val, SetLocal(i, tos, local))
           /\ input' = SetInput(0, val, SetInput(i, tos, in2))
           /\ minSize' = MinAfterGet(0, in1, MinAfterGet(i, input, minSize))
    /\ UNCHANGED <<globalPops, maxSize>>
    /\ UNCHANGED runVars

-----------------------------------------------------------------------------
(* What the code of the block does at run time.  The slot p (from 1) lies  *)
(* Depth(p) items below the stack pointer: it is sp[-Depth(p)].            *)
Depth(p) == size + 1 - p

(* An item is loaded before any store of the block.                        *)
Eval(item) == IF item.kind = "slot" THEN mem[size + 1 - item.of] ELSE item.of

(* The stores of finalize(): the input items that stay on the stack, the   *)
(* skipped ones apart, and above them the local items.                     *)
Stays(p) == Depth(p) > globalPops

Stored(p) ==
    /\ Depth(p) <= Len(input)
    /\ p <= size + LocalSize
    /\ Stays(p) => input[Depth(p)] # None

StoredItem(p) ==
    IF Stays(p) THEN input[Depth(p)] ELSE local[globalPops + 1 - Depth(p)]

Flushed(p) == IF Stored(p) THEN Eval(StoredItem(p)) ELSE mem[p]

(* Mutants: no check of the greatest size, or of the last one only.        *)
PrepareLow == size + minSize >= 0
PrepareLast == size + minSize >= 0 /\ size + LocalSize <= StackLimit

(* The check of stack.prepare.                                             *)
PrepareOk == size + minSize >= 0 /\ size + maxSize <= StackLimit

(* finalize(), then a run of the block: stack.prepare, the loads and the   *)
(* stores; the next block of the path gets a LocalStack of its own.        *)
RunBlock ==
    /\ status = "running"
    /\ PrepareOk
    /\ size' = size + LocalSize
    /\ mem' = [p \in 1..StackLimit |-> Flushed(p)]
    /\ FreshLocalStack
    /\ UNCHANGED status

(* stack.prepare refuses the block: longjmp to the abort handler.          *)
AbortBlock ==
    /\ status = "running"
    /\ ~PrepareOk
    /\ status' = "aborted"
    /\ UNCHANGED blockVars
    /\ UNCHANGED <<mem, size>>

Next ==
    \/ \E w \in Word : Push(w)
    \/ Pop
    \/ \E i \in 0..Reach-1 : Dup(i)
    \/ \E i \in 1..Reach : Swap(i)
    \/ RunBlock
    \/ AbortBlock

Spec == Init /\ [][Next]_vars

-----------------------------------------------------------------------------
(* A block that passes the check loads only slots the stack holds and      *)
(* stores only to slots that were allocated: no load of a stale slot, no   *)
(* access outside the buffer that RuntimeManager allocates.                *)
SlotsLoaded ==
    {local[k] : k \in 1..Len(local)} \cup {input[k] : k \in 1..Len(input)}

AccessInBounds ==
    PrepareOk =>
        /\ \A item \in SlotsLoaded : item.kind = "slot" => item.of <= size
        /\ Len(input) <= size
        /\ size + LocalSize \in 0..StackLimit

(* The bookkeeping that AccessInBounds rests on: the extremes bound the    *)
(* size, every pop left its input item fetched, and the least size counts  *)
(* every fetched item and every loaded slot.                               *)
Bookkeeping ==
    /\ minSize <= 0 /\ minSize <= LocalSize
    /\ maxSize >= 0 /\ maxSize >= LocalSize
    /\ globalPops <= Len(input)
    /\ Len(input) > 0 => input[Len(input)] # None
    /\ \A k \in 1..Len(input) : input[k] # None => minSize <= -k
    /\ \A k \in 1..Len(local) : local[k].kind = "slot" => minSize <= -local[k].of
    /\ \A k \in 1..Len(input) : input[k].kind = "slot" => minSize <= -input[k].of

(* The stack of LocalStack and the global stack together are the EVM's     *)
(* stack: at every point of a block that will pass the check, what         *)
(* finalize() would leave in the slots is the stack that the calls made so *)
(* far produce one at a time, and the block is refused exactly when one of *)
(* these calls under- or overflows.                                        *)
StackNow == [p \in 1..size |-> mem[p]]

WorkNow ==
    IF PrepareOk THEN [p \in 1..(size + LocalSize) |-> Flushed(p)] ELSE <<>>

Evm == INSTANCE EvmStack WITH
    stack <- StackNow,
    work <- WorkNow,
    ok <- PrepareOk,
    EmptyWork <- <<>>

ImplementsEvmStack == Evm!Spec

(* Each call does what the EVM's instruction of the same name and index    *)
(* does to that stack, on the items where it is in the block: an item is   *)
(* found at its index whether it was pushed by the block, loaded or moved  *)
(* by a swap before (BasicBlock.cpp:43-126).                              *)
OperationsAgree ==
    [][PrepareOk =>
         /\ \A w \in Word : Push(w) => Evm!Push(w)
         /\ Pop => Evm!Pop
         /\ \A i \in 0..Reach-1 : Dup(i) => Evm!Dup(i)
         /\ \A i \in 1..Reach : Swap(i) => Evm!Swap(i)]_vars
=============================================================================
