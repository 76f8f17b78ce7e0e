----------------------------- MODULE JitInstance -----------------------------
(***************************************************************************)
(* The JIT instance: one object that all frames of an execution share      *)
(* (src/libevmjit/JIT.cpp).                                                *)
(*                                                                         *)
(* execute() runs one frame.  Compiled code leaves it for the host through *)
(* call(), the host may come back with execute() for the callee, and so    *)
(* on: the frames form a stack, of which only the top one runs.  What the  *)
(* frames share is one pointer to the current message, one buffer for      *)
(* return data, the map of compiled functions and the LLVM engine that     *)
(* owns their code.  One thread drives the instance.                       *)
(***************************************************************************)
EXTENDS Integers, Sequences

CONSTANTS
    Addr,           \* accounts
    Code,           \* pairs of a code hash and a revision
    NoCode,         \* no code
    Data,           \* return data that is not empty
    NoData,         \* the empty return data
    DepthLimit,     \* a frame at this depth makes no calls (1024)
    MaxDepth,       \* the largest depth of a message, an int32 (2^31 - 1)
    Thresholds,     \* the values the host gives the option hits-threshold
    MaxThreshold,   \* the largest of them
    MemoryLimit,    \* modules an engine may hold before it is replaced
    CompileMayFail, \* whether getFunctionAddress() may return null
    MaxFrames,      \* bound on the frames of an execution
    MaxWrites       \* bound on the changes of the host's state

ASSUME InstanceAssumption ==
    /\ DepthLimit \in Nat
    /\ MaxDepth \in Nat
    /\ DepthLimit < MaxDepth
    /\ MaxThreshold \in Nat
    /\ Thresholds \subseteq 0..MaxThreshold
    /\ MemoryLimit \in Nat
    /\ CompileMayFail \in BOOLEAN
    /\ MaxFrames \in Nat
    /\ MaxWrites \in Nat
    /\ NoData \notin Data
    /\ NoCode \notin Code

VARIABLES
    frames,         \* the active frames, outermost first
    currentMsg,     \* jit.currentMsg: the frame whose message it points to
    returnBuffer,   \* jit.returnBuffer
    codeMap,        \* m_codeMap
    modules,        \* how often the engine holds a module of each code
    memorySize,     \* m_totalMemorySize of the engine, in modules
    hitThreshold,   \* jit.hitThreshold
    writes          \* how often the host's state was changed

vars == <<frames, currentMsg, returnBuffer, codeMap, modules, memorySize,
          hitThreshold, writes>>

Results == Data \cup {NoData}

(* CREATE sends what a CALL sends; the host picks its destination.         *)
Kinds == {"call", "callcode", "delegate", "static"}

(* What a message tells the callee.  Only a pointer to a message that is   *)
(* gone leads to depths other than 0..DepthLimit.                          *)
DepthsOfInt32 == -MaxDepth - 1..MaxDepth
Messages == [kind : Kinds \ {"static"}, depth : DepthsOfInt32,
             dest : Addr, sender : Addr, static : BOOLEAN]

(* makeCodeId(): what the code map and the modules are keyed by.           *)
CodeIdUnflagged(code, msg) == <<code, FALSE>>                   \* mutant
CodeId(code, msg) == <<code, msg.static>>
Ids == Code \X BOOLEAN

(* A compiled function and what it was compiled from: the code and whether *)
(* the compiler took it for a static call.  It is "dead" once its engine   *)
(* is gone.                                                                *)
Funcs == [state : {"none", "live", "dead"},
          of : Ids \cup {<<NoCode, FALSE>>}]
NoFunc == [state |-> "none", of |-> <<NoCode, FALSE>>]
Compiled(code, msg) == [state |-> "live", of |-> <<code, msg.static>>]

(* The values of a pointer to a message: a frame, null, or a frame that    *)
(* has returned.                                                           *)
Null == 0
Dangling == MaxFrames + 1
Pointers == Null..Dangling

(* The instruction that a frame comes from, and the account it names.      *)
Origins == [kind : Kinds \cup {"top"}, addr : Addr]

(* A frame is the host's until execute() has a function for it; the host   *)
(* interprets it when execute() refuses.  prevMsg is the local variable of *)
(* execute(), ret the frame's view of the return data: NoData when the     *)
(* size it keeps is zero.                                                  *)
Frames == [mode : {"host", "jit", "interpreted"}, msg : Messages,
           origin : Origins,
           code : Code \cup {NoCode}, func : Funcs, prevMsg : Pointers,
           ret : Results]

Entries == [func : Funcs, hits : 0..MaxThreshold + 1]
NoEntry == [func |-> NoFunc, hits |-> 0]
NoModules == [id \in Ids |-> 0]

Types ==
    /\ frames \in Seq(Frames)
    /\ Len(frames) <= MaxFrames
    /\ currentMsg \in Pointers
    /\ returnBuffer \in Results
    /\ codeMap \in [Ids -> Entries]
    /\ modules \in [Ids -> 0..2]
    /\ memorySize \in 0..MemoryLimit + 1
    /\ hitThreshold \in 0..MaxThreshold
    /\ writes \in 0..MaxWrites

(* Every variable keeps its range, and only frames above the depth limit   *)
(* wait for a callee: the limit is looked at in the depth that a message   *)
(* has, which may be any int32 once currentMsg is stale                    *)
(* (JIT.cpp:188, 430; Ext.cpp:283).                                        *)
TypeOK ==
    /\ Types
    /\ \A i \in 1..Len(frames) - 1 : frames[i].msg.depth < DepthLimit

Init ==
    /\ frames = <<>>
    /\ currentMsg = Null
    /\ returnBuffer = NoData
    /\ codeMap = [id \in Ids |-> NoEntry]
    /\ modules = NoModules
    /\ memorySize = 0
    /\ hitThreshold = 0
    /\ writes = 0

Depth == Len(frames)
Top == frames[Depth]
Running(mode) == frames # <<>> /\ Top.mode = mode
HostFrame(msg, kind, addr) ==
    [mode |-> "host", msg |-> msg, origin |-> [kind |-> kind, addr |-> addr],
     code |-> NoCode, func |-> NoFunc, prevMsg |-> Null, ret |-> NoData]

Lesser(a, b) == IF a < b THEN a ELSE b

-----------------------------------------------------------------------------
(* What execute() does before it has a function.                           *)

(* checkMemorySize() at depth 0: an engine that holds too much is replaced *)
(* with its functions, and the code map is cleared.                        *)
ResetAnytime == memorySize > MemoryLimit                        \* mutant
ResetNow == Top.msg.depth = 0 /\ memorySize > MemoryLimit

Killed(func) == IF func.state = "live" THEN [func EXCEPT !.state = "dead"]
                ELSE func
FramesNow ==
    IF ResetNow
    THEN [i \in 1..Depth |-> [frames[i] EXCEPT !.func = Killed(@)]]
    ELSE frames
MapNow == IF ResetNow THEN [id \in Ids |-> NoEntry] ELSE codeMap
ModulesNow == IF ResetNow THEN NoModules ELSE modules
SizeNow == IF ResetNow THEN 0 ELSE memorySize

(* getExecFunc(): the entry of the code, with its counter stepped.  Hits   *)
(* are counted up to the first number above every threshold.               *)
Hit(id) ==
    [MapNow[id] EXCEPT !.hits = Lesser(@ + 1, MaxThreshold + 1)]

(* The frame that execute() leaves with the code it was given.             *)
Entered(frame, code, func, mode) ==
    [frame EXCEPT !.mode = mode, !.code = code, !.func = func,
                  !.prevMsg = currentMsg]

(* The engine with one more module; two stand for two or more.             *)
ModuleAdded(id) == [ModulesNow EXCEPT ![id] = Lesser(@ + 1, 2)]
SizeAdded == Lesser(SizeNow + 1, MemoryLimit + 1)

(* The end of every execute(): currentMsg is the frame's own message, and  *)
(* the entry is stored.                                                    *)
Execute(code, func, mode, entry) ==
    /\ frames' = [FramesNow EXCEPT ![Depth] = Entered(@, code, func, mode)]
    /\ currentMsg' = Depth
    /\ codeMap' = [MapNow EXCEPT ![CodeId(code, Top.msg)] = entry]
    /\ UNCHANGED <<returnBuffer, hitThreshold, writes>>

(* The function is in the map.                                             *)
ExecuteCached(code) ==
    LET entry == Hit(CodeId(code, Top.msg))
    IN  /\ Running("host")
        /\ entry.func # NoFunc
        /\ Execute(code, entry.func, "jit", entry)
        /\ modules' = ModulesNow
        /\ memorySize' = SizeNow

(* EVMC_REJECTED: the code is cold.  The host interprets the frame; the    *)
(* early return leaves currentMsg as it is.                                *)
ExecuteRejected(code) ==
    LET entry == Hit(CodeId(code, Top.msg))
    IN  /\ Running("host")
        /\ entry.func = NoFunc
        /\ entry.hits <= hitThreshold
        /\ Execute(code, NoFunc, "interpreted", entry)
        /\ modules' = ModulesNow
        /\ memorySize' = SizeNow

(* Mutant: no mapExecFunc().                                               *)
ExecuteUnmapped(code) ==
    LET id == CodeId(code, Top.msg)
    IN  /\ Running("host")
        /\ Hit(id).func = NoFunc
        /\ Hit(id).hits > hitThreshold
        /\ Execute(code, Compiled(code, Top.msg), "jit", Hit(id))
        /\ modules' = ModuleAdded(id)
        /\ memorySize' = SizeAdded

(* compile() and mapExecFunc().                                            *)
ExecuteCompiled(code) ==
    LET id == CodeId(code, Top.msg)
        func == Compiled(code, Top.msg)
    IN  /\ Running("host")
        /\ Hit(id).func = NoFunc
        /\ Hit(id).hits > hitThreshold
        /\ Execute(code, func, "jit", [Hit(id) EXCEPT !.func = func])
        /\ modules' = ModuleAdded(id)
        /\ memorySize' = SizeAdded

(* EVMC_INTERNAL_ERROR: the module was added, its function is not found.   *)
(* The host treats the frame as one it must interpret.                     *)
ExecuteCompileFails(code) ==
    LET id == CodeId(code, Top.msg)
    IN  /\ CompileMayFail
        /\ Running("host")
        /\ Hit(id).func = NoFunc
        /\ Hit(id).hits > hitThreshold
        /\ Execute(code, NoFunc, "interpreted", Hit(id))
        /\ modules' = ModuleAdded(id)
        /\ memorySize' = SizeAdded

-----------------------------------------------------------------------------
(* Calls.                                                                  *)

(* The message that jit.currentMsg points to.  Behind null or a message    *)
(* that is gone anything may be found; call() does not read its kind.      *)
CurrentMessages ==
    IF currentMsg \in 1..Depth THEN {frames[currentMsg].msg}
    ELSE {m \in Messages : m.kind = "call"}

(* The depth of a callee.  The sum of the largest int32 and 1, undefined   *)
(* in C++, is what the machine's addition gives.                           *)
Deeper(depth) == IF depth = MaxDepth THEN -MaxDepth - 1 ELSE depth + 1

(* Mutant: a DELEGATECALL has the sender of a CALL.                        *)
SentAsCall(cur, kind, addr) ==
    [kind   |-> IF kind = "static" THEN "call" ELSE kind,
     depth  |-> Deeper(cur.depth),
     dest   |-> IF kind \in {"callcode", "delegate"} THEN Top.msg.dest
                ELSE addr,
     sender |-> cur.dest,
     static |-> cur.static \/ kind = "static"]

(* Mutant: only the frame that a STATICCALL enters is static.              *)
SentStaticOnce(cur, kind, addr) ==
    [kind   |-> IF kind = "static" THEN "call" ELSE kind,
     depth  |-> Deeper(cur.depth),
     dest   |-> IF kind \in {"callcode", "delegate"} THEN Top.msg.dest
                ELSE addr,
     sender |-> IF kind = "delegate" THEN cur.sender ELSE cur.dest,
     static |-> kind = "static"]

(* call() derives the message from *currentMsg.  The host executes a       *)
(* CALLCODE and a DELEGATECALL on the caller's own account.                *)
SentMsg(cur, kind, addr) ==
    [kind   |-> IF kind = "static" THEN "call" ELSE kind,
     depth  |-> Deeper(cur.depth),
     dest   |-> IF kind \in {"callcode", "delegate"} THEN Top.msg.dest
                ELSE addr,
     sender |-> IF kind = "delegate" THEN cur.sender ELSE cur.dest,
     static |-> cur.static \/ kind = "static"]

(* resetReturnBuf() at every call.                                         *)
RetKept == frames                                               \* mutant
RetForgotten == [frames EXCEPT ![Depth].ret = NoData]

(* The state of the host changes, or with it the balance of an account.    *)
Write == writes < MaxWrites /\ writes' = writes + 1

(* The flag that the compiler baked into the code of the frame: invalid    *)
(* instruction, or infinite penalty for a CALL that transfers value.       *)
CodeWrites == Running("jit") /\ ~Top.func.of[2]

(* SSTORE and LOG0..LOG4.                                                  *)
JitWrite ==
    /\ CodeWrites
    /\ Write
    /\ UNCHANGED <<frames, currentMsg, returnBuffer, codeMap, modules,
                   memorySize, hitThreshold>>

(* Mutant: the wrapper does not look at the depth.                         *)
EnterAnyDepth(kind, addr) ==
    /\ Running("jit")
    /\ Depth < MaxFrames
    /\ \E cur \in CurrentMessages :
         frames' = Append(RetForgotten,
                          HostFrame(SentMsg(cur, kind, addr), kind, addr))
    /\ UNCHANGED <<currentMsg, returnBuffer, codeMap, modules, memorySize,
                   hitThreshold>>

Enter(kind, addr) ==
    /\ Running("jit")
    /\ Top.msg.depth < DepthLimit
    /\ Depth < MaxFrames
    /\ \E cur \in CurrentMessages :
         frames' = Append(RetForgotten,
                          HostFrame(SentMsg(cur, kind, addr), kind, addr))
    /\ UNCHANGED <<currentMsg, returnBuffer, codeMap, modules, memorySize,
                   hitThreshold>>

JitCall(kind, addr) == Enter(kind, addr) /\ UNCHANGED writes

(* CREATE, or a CALL that transfers value: the host takes the nonce or the *)
(* balance before the callee runs.                                         *)
JitTransfer(addr) ==
    /\ CodeWrites
    /\ Write
    /\ Enter("call", addr)

(* The wrapper of evm.call refuses: too deep, or the balance is too low.   *)
JitCallFails ==
    /\ Running("jit")
    /\ frames' = RetForgotten
    /\ UNCHANGED <<currentMsg, returnBuffer, codeMap, modules, memorySize,
                   hitThreshold, writes>>

(* A pointer to the message of the top frame dangles when it returns.      *)
Freed(pointer) == IF pointer = Depth THEN Dangling ELSE pointer

(* A frame has returned data to its caller.  In a compiled caller call()   *)
(* fills the shared buffer.                                                *)
Return(data) ==
    LET rest == SubSeq(frames, 1, Depth - 1)
    IN  IF rest = <<>>
        THEN frames' = rest /\ UNCHANGED returnBuffer
        ELSE /\ frames' = [rest EXCEPT ![Depth - 1].ret = data]
             /\ returnBuffer' = IF rest[Depth - 1].mode = "jit" THEN data
                                ELSE returnBuffer

(* Mutant: the message of the frame below is not restored.                 *)
LeaveStale(data) ==
    /\ Running("jit")
    /\ Return(data)
    /\ currentMsg' = Freed(currentMsg)
    /\ UNCHANGED <<codeMap, modules, memorySize, hitThreshold>>

(* The end of execute(): the message of the frame below is current again.  *)
Leave(data) ==
    /\ Running("jit")
    /\ Return(data)
    /\ currentMsg' = Freed(Top.prevMsg)
    /\ UNCHANGED <<codeMap, modules, memorySize, hitThreshold>>

JitReturn(data) == Leave(data) /\ UNCHANGED writes

JitSelfdestruct ==
    /\ CodeWrites
    /\ Write
    /\ Leave(NoData)

-----------------------------------------------------------------------------
(* The host.                                                               *)

Begin(msg) ==
    /\ frames = <<>>
    /\ 0 < MaxFrames
    /\ frames' = <<HostFrame(msg, "top", msg.dest)>>
    /\ UNCHANGED <<currentMsg, returnBuffer, codeMap, modules, memorySize,
                   hitThreshold, writes>>

(* Not every frame is given to execute(): there are precompiled contracts, *)
(* and other virtual machines.                                             *)
HostInterprets ==
    /\ Running("host")
    /\ frames' = [frames EXCEPT ![Depth].mode = "interpreted"]
    /\ UNCHANGED <<currentMsg, returnBuffer, codeMap, modules, memorySize,
                   hitThreshold, writes>>

InterpretedCall(kind, addr) ==
    /\ Running("interpreted")
    /\ Top.msg.depth < DepthLimit
    /\ Depth < MaxFrames
    /\ frames' = Append(RetForgotten,
                      HostFrame(SentMsg(Top.msg, kind, addr), kind, addr))
    /\ UNCHANGED <<currentMsg, returnBuffer, codeMap, modules, memorySize,
                   hitThreshold, writes>>

(* The host's own interpreter looks at the message.                        *)
InterpretedWrite ==
    /\ Running("interpreted")
    /\ ~Top.msg.static
    /\ Write
    /\ UNCHANGED <<frames, currentMsg, returnBuffer, codeMap, modules,
                   memorySize, hitThreshold>>

InterpretedReturn(data) ==
    /\ Running("interpreted")
    /\ Return(data)
    /\ currentMsg' = Freed(currentMsg)
    /\ UNCHANGED <<codeMap, modules, memorySize, hitThreshold, writes>>

(* setOption("hits-threshold", value), between executions.                 *)
SetOption(value) ==
    /\ frames = <<>>
    /\ hitThreshold' = value
    /\ UNCHANGED <<frames, currentMsg, returnBuffer, codeMap, modules,
                   memorySize, writes>>

TopMessages == {m \in Messages : m.depth = 0 /\ m.kind = "call"}

Next ==
    \/ \E msg \in TopMessages : Begin(msg)
    \/ \E code \in Code :
         \/ ExecuteCached(code)
         \/ ExecuteRejected(code)
         \/ ExecuteCompiled(code)
         \/ ExecuteCompileFails(code)
    \/ \E kind \in Kinds, addr \in Addr :
         JitCall(kind, addr) \/ InterpretedCall(kind, addr)
    \/ \E addr \in Addr : JitTransfer(addr)
    \/ JitCallFails \/ JitWrite \/ JitSelfdestruct \/ InterpretedWrite
    \/ \E data \in Results : JitReturn(data) \/ InterpretedReturn(data)
    \/ HostInterprets
    \/ \E value \in Thresholds : SetOption(value)

Spec == Init /\ [][Next]_vars

-----------------------------------------------------------------------------
(* The properties.                                                         *)

JitFrames == {i \in 1..Depth : frames[i].mode = "jit"}

(* The code of a running function is never unmapped, and no entry of the   *)
(* map leads to unmapped code: the engine is replaced only at depth 0, and *)
(* depth 0 must mean that no frame is below (JIT.cpp:408, 584).            *)
FunctionsAlive ==
    /\ \A i \in JitFrames : frames[i].func.state = "live"
    /\ \A id \in Ids : codeMap[id].func.state # "dead"

(* A frame runs the code it was given, compiled for a static call exactly  *)
(* when its message is static: the compiler bakes the flag into the code   *)
(* (JIT.cpp:76, 441).                                                      *)
RunsOwnCode ==
    \A i \in JitFrames :
        frames[i].func.of = <<frames[i].code, frames[i].msg.static>>

(* The engine holds at most one module of a code, and one exactly when the *)
(* map has its function: nothing is compiled twice, nothing mapped outlives*)
(* its engine, and the size that triggers a reset is the number of modules *)
(* (JIT.cpp:441-465, 584).                                                 *)
CompiledOnce ==
    /\ \A id \in Ids :
         modules[id] = IF codeMap[id].func.state = "live" THEN 1 ELSE 0
    /\ (memorySize = 0) <=> (\A id \in Ids : modules[id] = 0)

(* The buffer is shared by all frames, yet only the frame that runs has a  *)
(* view of it, and sees what its own last call returned: a suspended frame *)
(* never keeps a view that the calls below it overwrite                    *)
(* (JIT.cpp:210, RuntimeManager.cpp:271).                                  *)
ReturnDataFresh ==
    \A i \in JitFrames :
        frames[i].ret # NoData => i = Depth /\ frames[i].ret = returnBuffer

(* "Temporary keep track of the current message" (JIT.cpp:415): while      *)
(* compiled code runs, currentMsg is the message of its frame.             *)
CurrentMsgIsCurrent == Running("jit") => currentMsg = Depth

(* Nothing below a STATICCALL changes the state of the host, at any        *)
(* distance, although the code looks at no message: the flag is inherited  *)
(* through the shared pointer, keys the code map and is baked into the     *)
(* code that runs (JIT.cpp:189, 441; Compiler.cpp:592, 795, 864, 949, 984).*)
StaticChangesNothing ==
    [][writes' # writes => \A i \in 1..Depth : ~frames[i].msg.static]_vars

(* The frames of the machine as they must look: compiled code reads return *)
(* data from the buffer, when the size it keeps is not zero.               *)
Seen ==
    [i \in 1..Depth |->
       [msg    |-> frames[i].msg,
        origin |-> frames[i].origin,
        data   |-> IF frames[i].mode = "jit" /\ frames[i].ret # NoData
                   THEN returnBuffer ELSE frames[i].ret]]

Calls == INSTANCE EvmCalls WITH frames <- Seen

(* The messages of callees derive from the messages of their callers, and  *)
(* RETURNDATA shows the result of the frame's own last call, although the  *)
(* instance keeps one pointer and one buffer for all of them               *)
(* (JIT.cpp:174-223, 403-510).                                             *)
ImplementsEvmCalls == Calls!Spec
=============================================================================
