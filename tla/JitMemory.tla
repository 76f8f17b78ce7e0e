------------------------------ MODULE JitMemory ------------------------------
(***************************************************************************)
(* The memory as evmjit compiles it (src/libevmjit/Memory.cpp, Array.cpp). *)
(*                                                                         *)
(* The memory is a buffer that grows in words.  mem.require is called with *)
(* every range before it is used: it computes the size the range needs in  *)
(* 64 bits, from operands of 256 bits that it clamps; it charges what the  *)
(* greater memory costs more, or the highest cost when it had to clamp;    *)
(* and it extends the buffer.  The accesses themselves truncate their      *)
(* operands and check nothing.                                             *)
(***************************************************************************)
EXTENDS Integers, Sequences

CONSTANTS
    WordTop,        \* the greatest word, 2^256 - 1
    MaxGas,         \* the greatest amount of gas, 2^63 - 1
    InputMax,       \* c_inputMax, 2^33
    WordBytes,      \* bytes of a word (32)
    QuadDiv,        \* divisor of the quadratic part of the price (512)
    MemoryGas,      \* price of a word (3)
    CopyGas,        \* JITSchedule::copyGas (3)
    StepCost,       \* what getStepCost() returns for these instructions (3)
    Words,          \* operands of instructions
    Byte,           \* values of bytes other than zero
    Sources,        \* call data, code, return data
    Ranges,         \* operands of CALL*: an offset and a size
    StartGas        \* the gas at the start

ASSUME MemoryAssumption ==
    /\ WordTop \in Nat /\ MaxGas \in Nat
    /\ InputMax \in Nat /\ WordBytes \in Nat \ {0} /\ QuadDiv \in Nat \ {0}
    /\ 2 * InputMax + WordBytes <= 2 * (MaxGas + 1)
    /\ MemoryGas \in Nat /\ CopyGas \in Nat /\ StepCost \in Nat \ {0}
    /\ Words \subseteq 0..WordTop
    /\ Ranges \subseteq (0..WordTop) \X (0..WordTop)
    /\ StartGas \subseteq 0..MaxGas

VARIABLES
    inst,           \* the instruction that comes next, with its operands
    buf,            \* the bytes of the Array, as many as its size
    gas,            \* *gas.ptr
    status,         \* "running", "returned" or "aborted"
    out             \* what the last step handed out: the word it pushed,
                    \* the bytes it gave to the host, or what was returned

vars == <<inst, buf, gas, status, out>>

None == [op |-> "none"]

(* MLOAD, SHA3, LOGn and CREATE read a range, RETURN and REVERT end with   *)
(* one.  MSTORE8 and MSTORE write; a word is n times the same byte here.   *)
Instructions ==
    [op : {"read", "return"}, off : Words, size : Words]
    \cup [op : {"store"}, off : Words, size : {1, WordBytes}, byte : Byte \cup {0}]
    \cup [op : {"copy", "copyReturned"}, src : Sources, idx : Words,
          off : Words, size : Words]
    \cup [op : {"load"}, src : Sources, idx : Words]
    \cup [op : {"call"}, to : Ranges, from : Ranges, data : Sources \cup {<<>>}]

(* A byte that lies outside of the memory or of the source of a copy.      *)
Junk == -1

(* No step leaves such a byte in the memory or hands it out                *)
(* (Memory.cpp:220-244, Ext.cpp:420-437, JIT.cpp:372-385).                 *)
TypeOK ==
    /\ inst \in Instructions \cup {None}
    /\ buf \in Seq(Byte \cup {0}) /\ Len(buf) % WordBytes = 0
    /\ gas \in 0..MaxGas
    /\ status \in {"running", "returned", "aborted"}
    /\ out \in Seq(Byte \cup {0})

Init ==
    /\ inst = None
    /\ buf = <<>>
    /\ gas \in StartGas
    /\ status = "running"
    /\ out = <<>>

Least(a, b) == IF a < b THEN a ELSE b

(* Numbers of Type::Size and Type::Gas, 2^64.                              *)
SizeMod == 2 * (MaxGas + 1)
Trunc(v) == v % SizeMod

-----------------------------------------------------------------------------
(* What an instruction does goes through its steps in a record: the buffer,*)
(* the gas, and whether gas.check has jumped to the abort handler.         *)
Paying(m, cost) ==
    IF m.oog \/ m.gas - cost < 0
    THEN [m EXCEPT !.oog = TRUE]
    ELSE [m EXCEPT !.gas = @ - cost]

(* The step cost was paid at the start of the cost block.                  *)
Entered == Paying([buf |-> buf, gas |-> gas, oog |-> FALSE], StepCost)

(* Array::extend(): realloc, and a memset of what is new.                  *)
Extended(b, size) ==
    [i \in 1..size |-> IF i <= Len(b) THEN b[i] ELSE 0]

(* s' = ((s0 + 31) / 32) * 32.                                             *)
RoundedUp(s) == ((s + WordBytes - 1) \div WordBytes) * WordBytes

Clamped(w) == IF w <= InputMax THEN Trunc(w) ELSE InputMax

(* Mutant: the range is rounded down to words.                             *)
SizeReqDown(off, size) == ((Clamped(off) + Clamped(size)) \div WordBytes) * WordBytes

SizeReq(off, size) == RoundedUp(Clamped(off) + Clamped(size))

Price(words) == MemoryGas * words + (words * words) \div QuadDiv

RequireCost(off, size, have) ==
    IF off <= InputMax /\ size <= InputMax
    THEN Price(SizeReq(off, size) \div WordBytes) - Price(have \div WordBytes)
    ELSE MaxGas

(* mem.require(mem, off, size).                                            *)
Require(m, off, size) ==
    IF m.oog \/ size = 0 \/ SizeReq(off, size) <= Len(m.buf)
    THEN m
    ELSE LET paid == Paying(m, RequireCost(off, size, Len(m.buf)))
         IN  IF paid.oog THEN paid
             ELSE [paid EXCEPT !.buf = Extended(m.buf, SizeReq(off, size))]

(* The end of an instruction.  Nobody looks at the memory of a program     *)
(* that was aborted.                                                       *)
Finished(m, next, bytes) ==
    /\ inst' = None
    /\ \/ ~m.oog /\ buf' = m.buf /\ gas' = m.gas /\ status' = next /\ out' = bytes
       \/ m.oog /\ status' = "aborted" /\ UNCHANGED <<buf, gas, out>>

Done(m) == Finished(m, "running", <<>>)

(* A write of n bytes at an index of 64 bits.  What falls outside of the   *)
(* buffer overwrites something else.                                       *)
Put(m, at, n, content) ==
    [m EXCEPT !.buf = [i \in 1..Len(m.buf) |->
        IF i - 1 \in at..at + n - 1 THEN content[i - 1 - at] ELSE m.buf[i]]]

-----------------------------------------------------------------------------
Read(src, i) == IF i \in 1..Len(src) THEN src[i] ELSE Junk

(* The bytes behind the pointer that getBytePtr() computes.                *)
InRange(b, off, size) == [i \in 1..Trunc(size) |-> Read(b, Trunc(off) + i)]

Touch ==
    /\ inst.op = "read"
    /\ LET m == Require(Entered, inst.off, inst.size)
       IN  Finished(m, "running", InRange(m.buf, inst.off, inst.size))

(* getReturnData(): nothing, unless the pointer lies in the memory.        *)
ReturnData(b, off, size) ==
    IF Trunc(off) >= Len(b) THEN <<>> ELSE InRange(b, off, size)

Return ==
    /\ inst.op = "return"
    /\ LET m == Require(Entered, inst.off, inst.size)
       IN  Finished(m, "returned", ReturnData(m.buf, inst.off, inst.size))

Store ==
    /\ inst.op = "store"
    /\ Done(Put(Require(Entered, inst.off, inst.size), Trunc(inst.off),
                inst.size, [i \in 0..inst.size - 1 |-> inst.byte]))

(* The copy cost is multiplied in 64 bits; LLVM folds and emits the        *)
(* product of the highest cost modulo 2^64 although it is marked nuw.      *)
CountCopy(m, words) ==
    Paying(m, LET cost == Trunc(words * CopyGas)
              IN  IF cost > MaxGas THEN cost - SizeMod ELSE cost)

CopyWords(bytes) == (bytes + WordBytes - 1) \div WordBytes

(* What the schedule and the widths of the code satisfy: the copy of a     *)
(* range that was not clamped has a cost of 63 bits, the product of the    *)
(* highest cost is more than anybody has left, and sources are data with a *)
(* size of 64 bits.                                                        *)
ASSUME ScheduleAssumption ==
    /\ SizeMod <= WordTop + 1
    /\ CopyWords(InputMax) * CopyGas <= MaxGas
    /\ Trunc(MaxGas * CopyGas) \in MaxGas - StepCost + 1..MaxGas
    /\ Byte \subseteq Nat
    /\ \A src \in Sources : src \in Seq(Byte \cup {0}) /\ Len(src) < SizeMod

(* Mutant: the padding is forgotten.                                       *)
BytesToCopyAll(src, idx, bytes) == IF idx >= Len(src) THEN 0 ELSE bytes

(* copyBytes(): data, and zeros behind it.                                 *)
BytesToCopy(src, idx, bytes) ==
    IF idx >= Len(src) THEN 0 ELSE Least(bytes, Len(src) - Trunc(idx))

(* CALLDATACOPY, CODECOPY, EXTCODECOPY.                                    *)
Copy ==
    /\ inst.op = "copy"
    /\ LET bytes == Trunc(inst.size)
           n == BytesToCopy(inst.src, inst.idx, bytes)
           m == CountCopy(Require(Entered, inst.off, inst.size), CopyWords(bytes))
       IN  Done(Put(m, Trunc(inst.off), bytes,
                    [i \in 0..bytes - 1 |->
                        IF i < n THEN Read(inst.src, Trunc(inst.idx) + i + 1) ELSE 0]))

(* Mutant: the end is computed without a look at the overflow.             *)
OverrunWrapped(src, idx, size) == (idx + size) % (WordTop + 1) > Len(src)

(* RETURNDATACOPY: copyBytesNoPadding() charges the highest cost for       *)
(* reading behind the end; the copy cost multiplies it again.              *)
Overrun(src, idx, size) ==
    LET end == (idx + size) % (WordTop + 1)
    IN  end < size \/ end > Len(src)

CopyReturnData ==
    /\ inst.op = "copyReturned"
    /\ LET bytes == Trunc(inst.size)
           words == IF Overrun(inst.src, inst.idx, inst.size) THEN MaxGas
                    ELSE CopyWords(bytes)
           m == CountCopy(Require(Entered, inst.off, inst.size), words)
       IN  Done(Put(m, Trunc(inst.off), bytes,
                    [i \in 0..bytes - 1 |-> Read(inst.src, Trunc(inst.idx) + i + 1)]))

(* The two ranges of a CALL*, the one for the output first.                *)
RequireBoth(m, to, from) == Require(Require(m, to[1], to[2]), from[1], from[2])

(* CALL*: the callee is given its input, and as much of what it returned   *)
(* as there is overwrites the range for the output.                        *)
Call ==
    /\ inst.op = "call"
    /\ LET m == RequireBoth(Entered, inst.to, inst.from)
           n == Least(Trunc(inst.to[2]), Len(inst.data))
       IN  Finished(Put(m, Trunc(inst.to[1]), n, [i \in 0..n - 1 |-> inst.data[i + 1]]),
                    "running", InRange(m.buf, inst.from[1], inst.from[2]))

(* CALLDATALOAD reads up to the end of the call data and adds zeros.       *)
CallDataLoad ==
    /\ inst.op = "load"
    /\ LET size == Len(inst.src)
           at == Trunc(IF inst.idx < size THEN inst.idx ELSE size)
           end == Least(at + WordBytes, size)
       IN  Finished(Entered, "running",
                    [i \in 1..WordBytes |->
                        IF i <= end - at THEN Read(inst.src, at + i) ELSE 0])

(* The program goes on to its next instruction.                            *)
Fetch ==
    /\ status = "running" /\ inst = None
    /\ inst' \in Instructions
    /\ out' = <<>>
    /\ UNCHANGED <<buf, gas, status>>

Next ==
    \/ Fetch
    \/ Touch \/ Return \/ Store \/ Copy \/ CopyReturnData \/ Call \/ CallDataLoad

Spec == Init /\ [][Next]_vars

-----------------------------------------------------------------------------
(* The properties.                                                         *)

(* Nobody can pay for a buffer of c_inputMax bytes; with the prices of the *)
(* source, for any gas below 2^47.                                         *)
Affordable ==
    \A g \in StartGas : g - StepCost < Price(InputMax \div WordBytes)

(* "require() handles large values" (Memory.cpp:225): what an instruction  *)
(* goes on to access lies in the buffer.  It rests on nobody being able to *)
(* pay for a buffer of c_inputMax bytes: the size is compared (68-70)      *)
(* before the clamped operands are refused (82-84).                        *)
RangeCovered ==
    [][\A range \in IF inst.op = "call" THEN {inst.to, inst.from}
                    ELSE IF inst.op \in {"none", "load"} THEN {}
                    ELSE {<<inst.off, inst.size>>} :
         status' # "aborted" /\ range[2] > 0 => range[1] + range[2] <= Len(buf')]_vars

(* Truncated indices, clamped sizes, padding and the growth of the buffer  *)
(* amount to the memory of the EVM: zero until written, never a byte from  *)
(* outside a source, and paid for by the number of its words however they  *)
(* were reached; what is pushed, given to the host, returned or overwritten*)
(* by a callee is what the operands say (Memory.cpp:25-94, 209-271;        *)
(* Ext.cpp:420-438, 543-571; JIT.cpp:203-205, 372-385).                    *)
Evm == INSTANCE EvmMemory WITH
    CopyCost <- CopyGas,
    Budgets <- StartGas,
    Addresses <- 0..2 * InputMax,
    bytes <- [a \in 0..2 * InputMax |-> IF a < Len(buf) THEN buf[a + 1] ELSE 0],
    active <- Len(buf) \div WordBytes,
    budget <- gas + Price(Len(buf) \div WordBytes)

ImplementsEvmMemory == Evm!Spec
=============================================================================
