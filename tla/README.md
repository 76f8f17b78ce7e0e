# A verification project for evmjit

evmjit compiles the byte code of the Ethereum virtual machine to native code
with LLVM and runs it for a host (a client) through the EVM-C interface. This
directory holds TLA+ models of its logic, TLC configurations that check them
and TLAPS proofs about them. All paths below are relative to `src/libevmjit/`.

## The system

One process-wide instance (`JITImpl`, JIT.cpp) serves the host. For every
message the host calls `execute()`, which looks the code up in a map of
compiled functions, compiles it when it is missing and runs it. Compiled code
calls the host back through function pointers; a call to another account goes
through `call()` to the host, which may enter `execute()` again for the callee.
The compiler splits code into basic blocks and translates each one with a
symbolic stack, a gas meter and a memory helper; what those decide at compile
time is carried out by the generated code at run time.

| Component | State | Operations | Interacts with | Hard behaviour | Must hold |
|---|---|---|---|---|---|
| Operand stack: `LocalStack`, `stack.prepare` (BasicBlock.cpp) | symbolic items of a block, pops, extreme sizes; slots and size of the global stack | push, pop, dup, swap, finalize, prepare | Compiler drives it, RuntimeManager allocates the slots | lazily fetched items, one check for a whole block, deferred stores, stale slots | is the EVM's stack; no access outside the slots |
| Gas metering: `GasMeter`, `gas.check` (GasMeter.cpp), CALL and CREATE in Compiler.cpp | open cost block, its cost, gas | count, commit, give back | every instruction; `call()` reports gas left | costs paid in advance, clamps, sign bit as failure flag, truncation | every visible gas is what metering by instruction leaves; gas is never created |
| JIT instance (JIT.cpp) | current message, return buffer, code map, engine, hit threshold | `execute`, `call`, `setOption`, map, compile, reset | host, compiled code, cache | re-entrance, early returns, replacement of the engine, threads | each frame sees its own message, code and return data |
| Call wrapper and callbacks (Ext.cpp) | arguments in allocas | depth and balance check, ABI calls | compiled code, host | failure path, undefined arguments | failed calls leave gas and data as promised |
| Compiler (Compiler.cpp) | blocks, jump table | split, compile, resolve jumps | all of the above | constant and computed jumps, push data, fall through | control goes where the byte code says |
| Memory (Memory.cpp, Array.cpp) | buffer, size | require, load, store, copy, extend | GasMeter, RuntimeManager | clamps, quadratic cost, padding, failed realloc | accesses are inside what was required and paid |
| Arithmetic (Arith256.cpp) | none | division, remainder, exponentiation | Compiler, Optimizer | zero divisor, least negative number | equals the mathematical definition modulo 2^256 |
| Object cache (Cache.cpp) | files, `g_lastObject`, mode, mutex | init, clear, preload, getObject, notify | instance, LLVM | hand-over through a global, crash during a write | loads what was stored for that code |
| RuntimeManager, Type | layout of run-time data | getters, exit, abort | all generated code | abort by longjmp | covered where it is used |
| Optimizer (Optimizer.cpp) | none | `LowerEVMPass`: divisions become calls of helpers | Compiler, Arith256 | widths and signs | with Arith256 |
| Keccak, endianness, statistics, build | - | - | - | - | not modelled, see below |

## Modules

| Module | What it is |
|---|---|
| `EvmStack` | abstract: the stack of the EVM, one call at a time, with the verdict whether a call under- or overflowed |
| `LocalStack` | BasicBlock.cpp: the symbolic stack, `finalize()`, `stack.prepare` |
| `LocalStackProofs` | theorems about `LocalStack`, for all constants |
| `EvmGas` | abstract: every instruction pays for itself before it runs |
| `GasMeter` | GasMeter.cpp and the gas of CALL*, CREATE, GAS and the end of the program |
| `EvmCalls` | abstract: frames with messages that derive from the caller's, and the data of their own last call |
| `JitInstance` | JIT.cpp: `execute()`, `call()`, the code map, the engine and its replacement, `setOption()`; the wrapper of Ext.cpp; the instructions that change the host's state; the host as environment |
| `JitThreads` | the same operations of JIT.cpp, as far as threads that meet in the instance can disturb each other: lookups, compilation, mapping, resets, the current message and the buffer |
| `EvmMemory` | abstract: bytes that are zero until written, active words, and a price for them that must be payable |
| `JitMemory` | Memory.cpp and Array.cpp: `mem.require`, `array.extend`, loads, stores, the two kinds of copies, the ranges of calls, and the data that is returned (JIT.cpp) or loaded from the call data (Ext.cpp) |
| `Bytecode` | opcodes, data of PUSH, shared by the next two |
| `EvmControl` | abstract: a program counter that walks over instructions and jumps to JUMPDESTs |
| `BasicBlocks` | Compiler.cpp: `createBasicBlocks()`, the jumps of `compileBasicBlock()`, `resolveJumps()`, and the compiled control flow |
| `EvmArith` | abstract: integer arithmetic modulo the size of a word |
| `Arith256` | Arith256.cpp with the code that Compiler.cpp emits around it and the pass of Optimizer.cpp that joins the two |
| `ObjectCache` | Cache.cpp as `JITImpl::compile()` and LLVM drive it, for several processes and threads |
| `JitInstanceProofs`, `JitThreadsProofs`, `GasMeterProofs`, `JitMemoryProofs`, `BasicBlocksProofs`, `Arith256Proofs`, `ObjectCacheProofs` | theorems about the module of that name, for all constants |
| `MC*` | instances for TLC |

The dependencies are few: `LocalStack`, `GasMeter`, `JitInstance`, `JitMemory`,
`BasicBlocks` and `Arith256` each instantiate the abstract module above them in the table
(`Evm` or the like, with a refinement mapping); a module of proofs extends
the module it is about; `EvmControl` and `BasicBlocks` extend `Bytecode`.

A refinement that hides the operands of an instruction would let the abstract
step choose whatever operands explain the result. So the operands are shared
state: `inst` in `GasMeter` and `JitMemory` is the next instruction, fetched by
a step of its own; a frame of `JitInstance` keeps its `origin`, the instruction
and account it was entered with; `BasicBlocks` keeps the destination of the
last jump (`target`). The abstract modules have the same variables, and the
result of a step (`report`, `out`) is one of them as well. For the stack the
same is said by `OperationsAgree`.

### LocalStack and EvmStack

`local`, `input`, `globalPops`, `minSize`, `maxSize` are the members of the
class, `mem` and `size` the global stack. `Push`, `Pop`, `Dup`, `Swap` are the
methods, each with the fetches of `get()`. `RunBlock` is `finalize()` and one
run of the code it produced; `AbortBlock` is the longjmp of `stack.prepare`.
The module follows one execution path. That is exact: a block's code depends
on the block only, and a path runs it once per visit. An item is either a slot
that is loaded on entry (the loads are emitted before the stores at the end of
the block) or a word. A computed result is an arbitrary word.

The refinement maps the state of a half-compiled block to the stack it would
leave: the slots with the stores of `finalize()` applied. A block whose check
would fail maps to `ok = FALSE`; `EvmStack` says that this verdict falls exactly when a
call under- or overflows, and that it is final for the block.

The refinement alone would let a wrong `Dup` pass for a `Push` of the word it
happens to produce. `OperationsAgree` ties each operation to the one of its
name: a DUP of position i is the abstract DUP of position i.

### GasMeter and EvmGas

`meter.open`, `meter.cost` are `m_checkCall` and `m_blockCost`, `meter.gas` is
the gas at run time. The code of a cost block runs in the model when the block
is committed: its check first, then the run-time costs that arose in it
(`charged`). Costs of 256 bits go through the clamp; the gas a call asks for
is truncated as in the code; failures travel in the sign bit (`Encoded`,
`Decoded`). A CALL of static code that transfers value is not refused but priced
at INT64_MAX (`TransferCost`); `EvmGas` says that it ends the program.
LOGn counts like any other instruction (`Plain`). `getStepCost()` is represented by the set `StepCosts`.

`Payable` states which run-time costs the model considers: `gas.check` refuses
a clamped cost unless all of INT64_MAX is left and nothing was paid yet. An
instruction with a run-time cost costs something itself or follows a push that
did, so that this state does not arise.

The model adds up costs without the width of `m_blockCost` (an `int64_t`: code
of more than 2^40 bytes would be needed to overflow it).

### JitInstance and EvmCalls

`frames` is the stack of active frames. A frame is `host` until `execute()` has
a function for it, then `jit`; when `execute()` refuses it, or when the host
wants to, it becomes `interpreted`. `currentMsg` is a pointer: the number of
the frame whose message it designates, `Null`, or `Dangling` when that frame
has returned. Reading through `Dangling` yields any message of a call, with any
depth an `int32_t` can have (`DepthsOfInt32`, whose greatest is `MaxDepth`); the
depth of the callee is one more and wraps (`Deeper`: the overflow is undefined
in C++, and taken here as what the machine's addition does). Types alone would
then say nothing of depths, so `TypeOK` adds that no frame at or beyond
`DepthLimit` waits for a callee: the check of the compiled code holds on
whatever depth the message has. The functions of
an engine become `dead` when it is replaced. The code map is keyed as in
`makeCodeId()`: code and revision (a member of `Code`) and the static flag.
`memorySize` counts modules in place of bytes. A module counter of two stands
for two or more, and hits are counted up to the first number above every
threshold; both cuts are exact for what the code compares.

The host is external and modelled by what `execute()` and `call()` need of
it: it starts with messages of depth 0, executes a callee with the message
that `call()` built (on the caller's own account for CALLCODE and
DELEGATECALL), and may interpret any frame itself. CREATE goes through the same
path as CALL with a destination of the host's choice, and is covered by `"call"`.

`writes` counts changes of the host's state: by SSTORE and LOGn (`JitWrite`), by
CREATE and a CALL that transfers value (`JitTransfer`), by SUICIDE
(`JitSelfdestruct`), and by an interpreted frame whose message allows it. The
guard of the first three is not the message but the flag that was baked into
the function that runs (`CodeWrites`); that this comes to the same is
`StaticChangesNothing`.

### JitThreads

`execute()` and `call()` again, cut where a thread touches what others share:
a step is one access to shared state, or one section under `x_codeMap`. What
`JitInstance` resolves (the content of messages, the revision, interpretation
by the host) is left out, and a frame carries only where it is (`pc`), the
function it holds, the message it will restore, and whether it keeps a pointer
to the return buffer. So a callee that `execute()` refuses ends at once: that
the host interprets it and `call()` then fills the return buffer
(JIT.cpp:204-212) is not there, and `Return` does the restore of `currentMsg`
(508) and the assignment of the buffer (210) in one step. No property looks
between the two. `mutex` is held beyond a step only by a thread that
replaces the engine; LLVM's context and the engine are used without it.

Where two threads meet in something that is not made for it, `undefined` says
in what, and the behaviour ends there: two compilations at once in one
LLVMContext (`llvm`), use of the engine while it is replaced (`engine`), a call
of a function whose engine is gone (`code`). A race on `currentMsg` or on the
return buffer is not an end: the pointers are read and written as the threads
interleave. (Two assignments to the buffer at the same moment would be
undefined as well; no property speaks of the buffer once threads have met.)

Four history variables record under which conditions the code promises
something: `shared`, two threads were in `execute()` at once; `resetShared`,
one replaced the engine meanwhile; `refused`, an execution ended early; and
`failed`, because code did not compile. `rejected` counts rejections since the
last reset. The properties then say what is left: whatever threads do, a frame
runs its own code, a code is compiled at most once by each thread, and no hit
is lost; code dies only in a reset that meets another thread; with one thread
at a time nothing is undefined.

### JitMemory and EvmMemory

`buf` is the content of the Array with as many bytes as its size; `gas` is
what `gas.check` reads. An instruction is one step: step cost, `mem.require`
with its early return, clamps, price and `array.extend`, the copy cost, and
the accesses, whose indices are truncated. `out` is what the step hands out: the
bytes of a load or of SHA3 and LOGn, the input of a callee, the data returned to
the host. `Call` requires two ranges in the order of the code and lets the
callee's data overwrite the first; `Return` is `registerReturnData()` with
`getReturnData()`, which looks only at where the data begin. A read outside the
source of a copy or outside the memory yields `Junk`, a byte that must never be
in the memory nor be handed out. MSTORE writes the same
byte n times: the byte order is a conversion of its own (Endianness).
The abstract memory has no size in bytes and no truncation; its `budget` is
the gas plus the price of the words already paid, so that any way to reach the
same words costs the same.

### BasicBlocks, EvmControl and Bytecode

The three passes are steps of one state machine: `Split` is an iteration of
the loop of `createBasicBlocks()`; `Compile*` compiles an instruction and sets
the terminator (`terms`) or the case of the jump table; `Resolve` is an
iteration of `resolveJumps()`; then `Run*` runs the blocks. RETURN, REVERT and
SUICIDE are represented by STOP, and POP stands for every instruction that
goes on to the next. `top` holds the constant that a PUSH of the same block
left for a jump; without one the destination is any value. (LLVM's builder
also folds constants through arithmetic; such a jump behaves like the one over
a PUSH.) Depth of the stack and gas are the business of `LocalStack` and
`GasMeter`. `resolveJumps()` also simplifies PHI nodes
(Compiler.cpp:156-164); that keeps what they do and is left out.

### Arith256 and EvmArith

A behaviour is the life of one instruction with its operands. `Emitted` is the
division of LLVM that the compiler emits, with the guarded divisor; `Helper`
is the pass that replaces it; `CallDivRem` enters `evm.udivrem`, through
`evm.sdivrem` for signed operands; `EntrySmall`, `EntryMain`, `LoopContinue`
and `LoopExit` are its basic blocks; `Return` applies the signs, takes the
element that the helper extracts and applies the selects behind it. EXP runs
`exp()` (`Multiplied`, which computes its three values side by side), or, when
both operands are constants, the compiler's own loop over APInts (`Folded`,
which assigns one variable after the other). Words
have four bits in place of 256, double words eight; `Bytes` and `ByteBits` are
parameters because BYTE and SIGNEXTEND depend on both. The count of leading
zeros is undefined for zero (`CtlzOfZero`), which a modulus of zero makes use
of. For LLVM such a count, and the `NUW` subtraction behind it, are poison; the
model takes any count of `CtlzOfZero` and lets the subtraction wrap, which is
what the compiled code does. That the loop then ends is stated
(`EveryInstructionEnds`), not how many rounds it takes.

### ObjectCache

A process has the static variables of Cache.cpp (`option`/`Mode`,
`lastObject`, whether `x_cacheMutex` is held during a write) and an engine with
its map (`loaded`, `codeMap`). A thread goes through `execute()` as in the
code: it misses a code in the map (`Misses`), looks it up in the cache
(`LookUp`), asks the engine for the function (`FindsLinked` when another thread
has linked the code meanwhile; else LLVM takes what lies in `g_lastObject`, as
`Link`, `LinkTorn` or `Generate`), stores what LLVM generated, and maps the
function (`Maps`). The file is truncated first and then written, as
`raw_fd_ostream` does. A file that cannot be opened (`StoreNotOpened`) and a
write that fails (`StoreFails`) end the process: nobody reads `error`
(Cache.cpp:167-169), and the destructor of the stream reports a fatal error.

A crash ends a process and leaves the files, with whatever was written; it is
the end of a process, not of the machine. Builds are those with assertions off
(the CHECK of line 118 is an `assert`): a lookup that finds `g_lastObject`
taken overwrites it.

Three history variables hold what the promises depend on: `cut`, the files
whose last writer died over them; `mixed`, whether two threads of a process
waited for LLVM at once; and `raced`, whether two missed the same code. The
file system, LLVM (with its lock, `EngineFree`) and crashes are the
environment. Two modules of one name in an engine, which only a race leaves
behind, are LLVM's to choose from: the model gives each thread its own, and
`RunsRealCode` claims nothing after `mixed`. `preload()` and the listener have
no caller that matters and are left out.

## Runs

| Run | Bounds | What it shows |
|---|---|---|
| `local_stack` | 2 words, limit 3, reach 2, 3 items on each side | types, `Bookkeeping`, `AccessInBounds`, `OperationsAgree`, refinement of `EvmStack` |
| `gas` | gas up to 17, before and under EIP-150, which keeps a quarter; costs 0, 1, 3 and 19 | types, `GasNeverCreated`, refinement of `EvmGas` |
| `instance` | 2 accounts, 2 codes, 2 data, calls up to depth 2 (numbers up to 3), engine replaced above 1 module, threshold 0, one write | `FunctionsAlive`, `RunsOwnCode`, `CompiledOnce`, `ReturnDataFresh`, `CurrentMsgIsCurrent`, `StaticChangesNothing`, refinement of `EvmCalls` |
| `instance_cold` | 1 account, 1 code, thresholds 0 and 1, compilation may fail, 3 frames, calls up to depth 1, depths of any message from -3 to 2 | what survives rejected and failed executions: `RunsOwnCode`, `ReturnDataFresh` |
| `instance_stale` (violation) | threshold 1 | `currentMsg` goes stale |
| `memory` | words of 2 bytes, clamp at 10, numbers of Type::Size below 48, small operands and ones above clamp and modulus, little and the greatest gas | types, `RangeCovered`, refinement of `EvmMemory` |
| `memory_large` (violation) | the greatest gas, clamp at 4 | operands above the clamp are accepted when the memory is as large as the clamp |
| `blocks` | all codes of up to 5 of 8 byte values, PUSH1 and PUSH2 | types, `JumpDestIsFirst`, refinement of `EvmControl` |
| `arith` | words of 2 bytes of 2 bits, all operands; the leading zeros of zero are 0, 4, 8 or 255 | types, `DivisionKeeps`, `PowerKeeps`, `EveryInstructionEnds`, refinement of `EvmArith` |
| `threads` | 2 threads, 2 codes, 3 executions in all, 2 frames each, thresholds 0 and 1, engine replaced above 1 module | types, `OwnCode`, `DuplicatesBounded`, `RejectedAtMost`, `AliveUnlessReset`, `OneAtATimeIsSafe`, `ExecutionsEnd` |
| `cache` | 3 threads in 2 processes, 2 codes, options read, write, clear, preload (which becomes on), crashes, failing opens and writes; threads of a process and codes are symmetric | types, `RunsRealCode`, `TornIsWritten`, `HandedOver` |
| `cache_clear` (violation) | option `clear`, fairness | `ClearEnds` fails |

The longest runs are `cache` (3 million states) and `instance_cold` (6
million), of about two minutes each.

Why the bounds are enough. *Stack*: a limit of 3 with 3 items on either side
reaches underflow and overflow inside a block and at its end, skipped input
items, swaps across the boundary of local and global items, and blocks one
after another with stale slots; the theorems cover all larger values. *Gas*:
costs are below, at and above what is left and above the clamp; the operands
of calls include one that loses bits in the truncation; the greatest gas is
there to meet the price of a forbidden transfer. *Instance*: three
nested frames give a caller, a callee and a callee's callee, which is what
separates "mine" from "the last one's"; four code identifiers against a limit
of one module make resets happen at the start of later executions. One write
(`MaxWrites`) is enough: the property is about a single step, and what it needs
is every state in which that step may be taken.
`MaxFrames` is above what `DepthLimit` allows in `instance`, so that it never
cuts a behaviour there; in `instance_cold`, where stale messages may give any
depth, it bounds the nesting. Its depths reach from below zero over the limit
to one above it, and the least follows the greatest when the depth wraps.

*Memory*: the operands in `memory` are zero, inside a word, across words, above
the modulus of 64 bits (so that they are clamped and truncate to something
small) and the greatest, which overflows a sum. The small ones cannot make the
memory as large as the clamp, as nobody can in the source with less than 2^47
gas (`Affordable` is true of the constants of `memory`); `memory_large` gives
this up. The ranges of calls are empty, empty far out,
apart, overlapping, and too large. The greatest gas is there because the
penalty of RETURNDATACOPY has to exceed it. *Blocks*: five bytes hold a PUSH with its
data, a jump, dead code and a JUMPDEST, and every way the end of the code can
cut off a PUSH; opcodes double as destinations. *Arithmetic*: at four bits every pair or triple of operands is tried, the
least number, minus one and zero among them; sums and products need the fifth
to eighth bit, shifts run over their whole range, and an index may be below, at
and above the number of bytes. Nothing in the code depends on the width but
through these. *Threads*: two threads that miss the same code, and a third
execution that replaces the engine under one of them; a callee in each. Calls
are one for each frame. *Cache*: two of each actor and
two codes separate "mine" from "the other's"; the option `off` is where
`clear` ends up, and `on` is `preload`.

Three runs need fairness. `ClearEnds` is stated under `FairSpec`, where a
process that is starting goes on: `init()` waits for nothing but its own
mutex, and nothing is assumed of threads, other processes or the host.
`EveryInstructionEnds` assumes that compiled code runs on (`WF_vars(Next)`);
nothing in it waits. `ExecutionsEnd` assumes weak fairness of the steps of
each thread: the operating system schedules every thread, and a mutex that
stays free is obtained by whoever waits for it. (A mutex that others take
again and again might be obtained by a waiter late; the executions here are
bounded, so that weak fairness is enough.) The host need not begin anything,
and a compiled program is assumed to end, as gas makes it.
All other properties are safety properties.

Deadlock is not checked where the system may stop: `LocalStack`, `GasMeter`,
`JitMemory`, `BasicBlocks` and `Arith256`, whose programs end; `JitThreads`,
whose executions are bounded and whose behaviour may become undefined; and
`ObjectCache`, where a process may block in `clear()`.

### Findings

* **`currentMsg` is not restored** when `execute()` returns EVMC_REJECTED
  (JIT.cpp:448-452) or EVMC_INTERNAL_ERROR (459-463). With a hits-threshold
  above 0, a host that interprets a rejected callee and returns to the compiled
  caller finds `currentMsg` pointing to a message that is gone; the next
  `call()` takes sender, flags and depth from it. Run `instance_stale` shows
  the shortest case. One consequence is left out of `instance_cold` by its
  `MemoryLimit`: a stale depth of -1 yields a callee at depth 0, for which
  `execute()` may replace the engine that runs the caller. Another is that the
  callee of a static call may lose the static flag: with the constants of
  `instance_stale` and `MaxWrites` 1, `StaticChangesNothing` fails too.
* **A range behind the end of memory may be accepted.** `mem.require` compares
  the clamped size with the current one (Memory.cpp:68-70) before it refuses
  operands that had to be clamped (82-84). With a memory of 2^33 bytes, for
  which 2^47 gas suffices, any larger range passes and its truncated index is
  used. Run `memory_large`. Below that amount of gas `RangeCovered` holds.
* **Clear mode blocks the process on its own mutex** (Cache.cpp:57, 71; run
  `cache_clear`).

Observations that no run states:

* Two threads of a process mix up cached objects: `getObject()` and LLVM's
  question are locked one by one, so that another thread may look its object
  up in between, and `CHECK(!g_lastObject)` (Cache.cpp:118) fails. `HandedOver`
  and `RunsRealCode` hold where this does not happen, and say so in their
  conditions (`mixed`, `Waiting`).
* The race of the FIXME at JIT.cpp:446 reaches the cache as well. Two threads
  miss a code; when the second looks it up the first has linked it, so LLVM
  never asks for the object, which stays in `g_lastObject` with nobody waiting.
  The next lookup fails the same CHECK, or without assertions overwrites the
  object or, when it finds no file, clears it. `HandedOver` has the condition
  `~raced`; without it TLC shows this behaviour.
* With several threads the instance has undefined behaviour as soon as two of
  them compile at once or one replaces the engine. `JitThreads` names the
  points; a client that lets one thread at a time into `execute()` is safe.
* "The following algorithm also handles divisor of value 0 returning 0 for both
  quotient and remainder" (Arith256.cpp:41) is not what the loop does: every
  step sets a bit of the quotient, and the remainder is the dividend. It is
  reached, by ADDMOD and MULMOD with a modulus of 0, whose result is then
  replaced by 0. ("both y and r are non-zero", line 70, is not true either.)
* A crash while a file is written leaves a torn file, and so does a write that
  fails, as on a full disk: `error` is not read (Cache.cpp:167-169), and LLVM's
  stream ends the process. Every later process that looks the code up is ended
  by LLVM in turn, because nothing checks a file before it is handed over
  (`LinkTorn`; `RunsRealCode` says that it is never run). `TornIsWritten` says
  that there is no other way to a torn file.
* The penalty of RETURNDATACOPY, 2^63-1 multiplied by 3 modulo 2^64, is
  2^63-3: it exceeds every amount of gas only because the instruction has paid
  its step cost before.
* The option `preload`, "Preload all cached objects." (JIT.cpp:114), becomes
  mode `on` (574-576), and the call of `Cache::preload()` is commented out
  (557-559).
* "This will commit the current cost block" (Compiler.cpp:991) is not what
  `countLogData()` does. Harmless, since the check of the block runs before the
  event is emitted.

## Proofs

Each proof module is about the component module it extends, and proves its
theorems for every value of the constants, from the assumptions that module
declares. TLC evaluates those assumptions on every run. Where a theorem needs
more, its `ASSUME` says so; the table lists it.

| Module | Theorems (property) | Needs, besides the declared assumptions |
|---|---|---|
| `LocalStackProofs` | `TypeCorrect`, `BookkeepingCorrect`, `AccessSafe` (`AccessInBounds`), `Refinement` (`ImplementsEvmStack`), `Agreement` (`OperationsAgree`) | nothing |
| `GasMeterProofs` | `TypeCorrect`, `NoGasIsCreated` (`GasNeverCreated`), `GasRefinement` (`ImplementsEvmGas`) | nothing |
| `JitInstanceProofs` | `TypeCorrect`, `OwnCode` (`RunsOwnCode`), `ReturnDataIsFresh` (`ReturnDataFresh`) | nothing |
| | `CompilesOnce` (`CompiledOnce`) | `~CompileMayFail` |
| | `CodeStaysMapped` (`FunctionsAlive`), `CurrentMsgStays` (`CurrentMsgIsCurrent`), `StaticIsStatic` (`StaticChangesNothing`), `CallsRefinement` (`ImplementsEvmCalls`) | `NeverRefuses` |
| `JitThreadsProofs` | `TypeCorrect`, `OwnCodeOnly` (`OwnCode`), `NoHitIsLost` (`RejectedAtMost`), `CodeDiesOnlyByReset` (`AliveUnlessReset`), `OneThreadAtATime` (`OneAtATimeIsSafe`) | nothing |
| | `DuplicatesAreBounded` (`DuplicatesBounded`) | `IsFiniteSet(Thread)` |
| `ObjectCacheProofs` | `TypeCorrect`, `RealCodeRuns` (`RunsRealCode`), `TornFilesAreWritten` (`TornIsWritten`), `ObjectsAreHandedOver` (`HandedOver`) | nothing |
| `BasicBlocksProofs` | `TypeCorrect`, `JumpDestsComeFirst` (`JumpDestIsFirst`), `ControlRefinement` (`ImplementsEvmControl`) | nothing |
| `JitMemoryProofs` | `TypeCorrect`, `AccessesCovered` (`RangeCovered`), `MemoryRefinement` (`ImplementsEvmMemory`) | `Affordable` |
| `Arith256Proofs` | `TypeCorrect`, `DivisionIsExact` (`DivisionKeeps`), `PowersAreKept` (`PowerKeeps`), `ArithRefinement` (`ImplementsEvmArith`) | nothing |

The hypotheses, and why the code justifies them:

* `NeverRefuses` is `Thresholds \subseteq {0} /\ ~CompileMayFail`: `execute()`
  never returns EVMC_REJECTED or EVMC_INTERNAL_ERROR. The option
  `hits-threshold` is 0 unless it is set, and every code the compiler is given
  compiles unless LLVM fails. It cannot be dropped: run `instance_stale` shows
  how `CurrentMsgIsCurrent` fails without it, and the other three follow from
  where `currentMsg` points. `~CompileMayFail` alone is what `CompiledOnce`
  needs, since a code whose compilation failed is compiled again.
* `IsFiniteSet(Thread)`: the bound is the number of threads.
* `Affordable`: nobody starts with the gas that a memory as large as the clamp
  costs. With the source's prices this is gas below 2^47. It cannot be
  dropped: run `memory_large` has more gas and violates `RangeCovered`. The
  constants of run `memory` satisfy it.

### The inductive invariants

*LocalStack.* `TypeOK` and `Bookkeeping` together. `AccessInBounds` is not
inductive: that a block which passes the check stays inside the slots needs to
know that the least size counts every fetched item and every loaded slot,
wherever a swap or a dup has taken it, and this is what `Bookkeeping` says. The
refinement has a lemma per action, which shows that the stores of `finalize()`
after the action leave what the abstract call makes of the stores before it.

*GasMeter.* `TypeOK`, `Settled` (without a cost block nothing is owed) and
`Fetched` (the meter stands still between the choice of an instruction and its
execution). The refinement shows an observer what is left after everything
owed is paid, so a step of the meter is correct when it moves that net amount
by the cost of the instruction. `Pays` says so, and its lemmas compose: paying
one cost and then another is paying their sum, also when the first was
already too much.

*JitInstance.* `IInv` adds to the properties that only the top frame may be
the host's and that a frame which called was not too deep (`Nesting`), and that an entry of the map leads to a live function
of its own key (`MapOwn`). `RunsOwnCode` needs the latter, `ReturnDataFresh` the
former. `PInv` adds `Linked`: `currentMsg` and the saved pointers chain the
compiled frames from the innermost outwards, depths count the frames, a callee
of a static frame is static, and the functions of frames are alive. The
first frame replaces the engine only because the depths are right, and the
depths are right only because `currentMsg` is: none of these holds alone.

*JitThreads.* `IInv` says which steps may be under way where: only the top
frame of a thread is outside compiled code (`Stacks`), the mutex is held
exactly by who replaces the engine (`Locking`), and a rejection was counted as
a hit before (`Counting`). `Alive` has the case that makes
`AliveUnlessReset` inductive: while one thread replaces the engine with nobody
else inside, others may have entered but must be waiting for the mutex.
`OneAtATimeIsSafe` needs `Safe`, which is `Linked` for one thread among many.
`DuplicatesBounded` counts in advance: the threads that are about to compile or
to map a code bound the modules that will exist for it.

*ObjectCache.* `TornIsWritten` is inductive with `TypeOK`, because a process
that dies adds the files it was the last to truncate to `cut`, and a process
that truncates a file takes it out again. `RunsRealCode` needs that a process
writes one file at a time (`OneWriter`), that a file is written under its own
name (`FilesOwn`), and that the module of a waiting thread is a fake exactly
when an object of its own code waits for it (`Unmixed`). `HandedOver` needs
`Unraced`: while no two threads missed the same code, a code that a thread has
missed is not linked, what is linked is mapped or about to be, and an object in
`g_lastObject` has a thread that waits for it.

*BasicBlocks.* The invariant describes the table of blocks while it is built:
blocks are contiguous, begin and end where instructions do, and only their last
instruction ends the flow. `JumpDestIsFirst` needs that no split ever lands
inside the data of a PUSH. The refinement needs `Contiguous` (falling through
goes by position), `Table` and `Terminated` (a resolved jump goes to the block
that begins at its destination), and `Run` (a constant the compiler resolved is
what the program finds on top of the stack). Where instructions begin is
recursive in `EvmControl`; the proof characterises it as the least set that has
0 and what is behind each of its members, by the well-foundedness of the
natural numbers.

*JitMemory.* `TypeOK` and `WordsPaid`: what is left of the gas, with the price of all
words of the buffer, is at most what the program started with. `RangeCovered`
does not support itself: a range whose operands had to be clamped is refused
only while the buffer is smaller than the clamp, and nothing about the buffer
says that it is, but the price that was paid for it. A lemma says what
`mem.require` leaves for any range (`Grown`); loads, stores, copies, calls and
returns are each a composition of it with a description of the bytes, so that a
copy with padding, a call with two ranges and RETURNDATACOPY with its penalty
are not proved from scratch.

*Arith256.* `DivisionKeeps` and `PowerKeeps` say what the loops keep, and are not
inductive alone. That no bit of the quotient is shifted out needs that the
divisor is not zero and that the lowest bit of the quotient is still free
(`Found`), and that the division is that of the instruction needs `Given`: the
registers hold the operands as the compiler guarded them and evm.sdivrem made
them positive. For EXP one lemma (`FoldedFacts`) says that a round of the compiler's loop comes
to the same as a round of the helper's. With quotient and remainder found, one lemma says that the signs
and the selects behind the division (divisors 0 and -1, the least number) turn
them into `Meaning`. Powers of two are counted: a set of n elements has 2^n
subsets (`FS_SUBSET` of the library), of which a new element doubles the number.
`PowerOf` and the powers of `EvmArith` are recursive functions; what they compute
is shown for every exponent by the well-foundedness of the natural numbers, as
in `BasicBlocksProofs`.

### Only model-checked

The liveness properties (`ClearEnds`, `ExecutionsEnd`, `EveryInstructionEnds`)
and everything that needs ENABLED are outside what the proof system does. Every
other property of a passing run is stated by a theorem; the runs remain, as they
check the statements of the theorems, the assumptions, and that no hypothesis is
vacuous. The theorems of the library that take an operator as a parameter
(induction among them) cannot be instantiated by the provers; inductions here are
over sets of numbers instead (`SetInduction`). The findings are statements that
fail, and TLC shows how.

## Not modelled

The passes of the optimizer but `LowerEVMPass` (their meaning is LLVM's; the
one that removes long jumps keeps what they do), keccak (vendored),
endianness, statistics, the layout of types, the callbacks of Ext that only
convert arguments, build files and the standalone test (which checks the ABI
version). Arithmetic and comparisons that are one operation of LLVM are LLVM's.
A `realloc` that fails (Array.cpp:186) is left to the operating system.

## Plan

Every component with state that the project models has its safety properties
checked and proved, and its refinement. What the model may still take in are the
parts under "Not modelled" (`Cache::preload()`, the passes of the optimizer that
change control flow), and what the proofs may still drop is `NeverRefuses`: with
rejections `currentMsg` is wrong only after one, which could be said of the
histories without one.
