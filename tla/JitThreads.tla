------------------------------ MODULE JitThreads ------------------------------
(***************************************************************************)
(* Several threads in the one JIT instance (src/libevmjit/JIT.cpp).        *)
(*                                                                         *)
(* evmjit_create() always returns the same instance, so that threads of a  *)
(* host meet in it.  A mutex guards the accesses to the code map, but not  *)
(* what lies between them: a miss is compiled and mapped later ("FIXME: We *)
(* have a race condition here!"), the engine is replaced under the feet of *)
(* whoever runs its code, and there is one current message and one buffer  *)
(* for return data.  Steps of execute() between two accesses to shared     *)
(* state are one action.  Where threads meet in something that is not made *)
(* for it, the behaviour is undefined from then on, and the model ends.    *)
(***************************************************************************)
EXTENDS Integers, Sequences, FiniteSets

CONSTANTS
    Thread,         \* threads of the host
    NoThread,       \* who holds a mutex that is free
    Id,             \* code identifiers: code, revision and static flag
    HitThresholds,  \* values that the host may give the option hits-threshold
    MemoryLimit,    \* modules an engine may hold before it is replaced
    MaxExecutions,  \* bound on the executions that the host begins
    MaxDepth        \* bound on the frames of a thread

ASSUME ThreadsAssumption ==
    /\ NoThread \notin Thread
    /\ HitThresholds \in SUBSET Nat
    /\ MemoryLimit \in Nat
    /\ MaxExecutions \in Nat
    /\ MaxDepth \in Nat \ {0}

VARIABLES
    frames,         \* the frames of each thread, outermost first
    codeMap,        \* m_codeMap
    mutex,          \* x_codeMap: who holds it beyond a step
    engine,         \* m_engine: "up", or "gone" while it is replaced
    modules,        \* how many modules of each code the engine has
    currentMsg,     \* jit.currentMsg: the frame whose message it points to
    returnBuffer,   \* jit.returnBuffer: the frame whose call filled it
    hitThreshold,   \* jit.hitThreshold, set before the first execution
    undefined,      \* what made the behaviour undefined, or "no"
    begun,          \* executions that the host has begun
    rejected,       \* history: rejections of each code since the last reset
    shared,         \* history: two threads were in execute() at once
    resetShared,    \* history: ... when one of them replaced the engine
    refused,        \* history: an execution ended without running
    failed          \* history: ... because its code did not compile

machine == <<codeMap, mutex, engine, modules, currentMsg, returnBuffer,
             hitThreshold>>
history == <<begun, rejected, shared, resetShared, refused, failed>>
vars == <<frames, machine, undefined, history>>

(* A frame is known by its thread and its depth there.  A pointer to the   *)
(* message of a frame that has ended dangles.                              *)
FrameIds == Thread \X (1..MaxDepth)
Null == <<NoThread, 0>>
Dangling == <<NoThread, 1>>
Pointers == FrameIds \cup {Null, Dangling}

(* A function is dead once the engine that owns it is gone.                *)
NoFunc == [state |-> "none", of |-> "none"]
Live(id) == [state |-> "live", of |-> id]
Funcs == {NoFunc} \cup [state : {"live", "dead"}, of : Id]
Killed(func) == IF func = NoFunc THEN func ELSE [func EXCEPT !.state = "dead"]

(* seesData: whether the frame keeps a pointer to the buffer.              *)
Frames == [id : Id,
           pc : {"check", "reset", "recreate", "message", "lookup", "compile",
                 "compiling", "map", "run"},
           func : Funcs, prevMsg : Pointers, called : BOOLEAN,
           seesData : BOOLEAN]

NewFrame(id, pc) ==
    [id |-> id, pc |-> pc, func |-> NoFunc, prevMsg |-> Null,
     called |-> FALSE, seesData |-> FALSE]

NoEntry == [func |-> NoFunc, hits |-> 0]

TypeOK ==
    /\ frames \in [Thread -> Seq(Frames)]
    /\ codeMap \in [Id -> [func : Funcs, hits : Nat]]
    /\ mutex \in Thread \cup {NoThread}
    /\ engine \in {"up", "gone"}
    /\ modules \in [Id -> Nat]
    /\ currentMsg \in Pointers
    /\ returnBuffer \in Pointers
    /\ undefined \in {"no", "llvm", "engine", "code"}
    /\ begun \in 0..MaxExecutions
    /\ rejected \in [Id -> Nat]
    /\ hitThreshold \in HitThresholds
    /\ {shared, resetShared, refused, failed} \subseteq BOOLEAN
    /\ mutex # NoThread <=> engine = "gone"

Init ==
    /\ frames = [t \in Thread |-> <<>>]
    /\ codeMap = [id \in Id |-> NoEntry]
    /\ mutex = NoThread
    /\ engine = "up"
    /\ modules = [id \in Id |-> 0]
    /\ currentMsg = Null
    /\ returnBuffer = Null
    /\ undefined = "no"
    /\ begun = 0
    /\ rejected = [id \in Id |-> 0]
    /\ shared = FALSE
    /\ resetShared = FALSE
    /\ refused = FALSE
    /\ failed = FALSE
    /\ hitThreshold \in HitThresholds

-----------------------------------------------------------------------------
Depth(t) == Len(frames[t])
Top(t) == frames[t][Depth(t)]
Self(t) == <<t, Depth(t)>>
Others(t) == {u \in Thread \ {t} : frames[u] # <<>>}

(* A thread takes a step while nothing is undefined yet.                   *)
At(t, pc) == undefined = "no" /\ frames[t] # <<>> /\ Top(t).pc = pc
Goto(t, pc) == frames' = [frames EXCEPT ![t][Depth(t)].pc = pc]

Undefined(cause) ==
    /\ undefined' = cause
    /\ UNCHANGED <<frames, machine>>

(* One thread replaces the engine while another is in execute().           *)
MeetsReset ==
    /\ resetShared' = TRUE
    /\ UNCHANGED <<begun, rejected, shared, refused, failed>>

(* A frame ends, and pointers to its message dangle.                       *)
Freed(t, pointer) == IF pointer = Self(t) THEN Dangling ELSE pointer
Popped(t) ==
    [u \in Thread |->
       [i \in 1..(IF u = t THEN Depth(t) - 1 ELSE Depth(u)) |->
          [frames[u][i] EXCEPT !.prevMsg = Freed(t, @)]]]

Modules == LET sum[S \in SUBSET Id] ==
                 IF S = {} THEN 0
                 ELSE LET id == CHOOSE id \in S : TRUE
                      IN  modules[id] + sum[S \ {id}]
           IN  sum[Id]

-----------------------------------------------------------------------------
(* The host begins an execution at depth 0.                                *)
Begin(t, id) ==
    /\ undefined = "no"
    /\ frames[t] = <<>>
    /\ begun < MaxExecutions
    /\ frames' = [frames EXCEPT ![t] = <<NewFrame(id, "check")>>]
    /\ begun' = begun + 1
    /\ shared' = (shared \/ Others(t) # {})
    /\ UNCHANGED <<machine, undefined, rejected, resetShared, refused,
                   failed>>

(* checkMemorySize() reads the size without the mutex, from an engine that *)
(* another thread may just be replacing.                                   *)
CheckMemory(t) ==
    /\ At(t, "check")
    /\ engine = "up"
    /\ Goto(t, IF Modules > MemoryLimit THEN "reset" ELSE "message")
    /\ UNCHANGED <<machine, undefined, history>>

CheckGoneEngine(t) ==
    /\ At(t, "check")
    /\ engine = "gone"
    /\ Undefined("engine")
    /\ MeetsReset

(* The map is cleared and the engine destroyed under the mutex.            *)
ResetKeepsMap(t) ==                                             \* mutant
    /\ At(t, "reset")
    /\ mutex = NoThread
    /\ \A u \in Others(t) : Top(u).pc # "compiling"
    /\ mutex' = t
    /\ engine' = "gone"
    /\ codeMap' = [id \in Id |-> [codeMap[id] EXCEPT !.func = Killed(@)]]
    /\ modules' = [id \in Id |-> 0]
    /\ rejected' = [id \in Id |-> 0]
    /\ frames' = [u \in Thread |-> [i \in 1..Depth(u) |->
                    [frames[u][i] EXCEPT
                       !.func = Killed(@),
                       !.pc = IF <<u, i>> = Self(t) THEN "recreate" ELSE @]]]
    /\ resetShared' = (resetShared \/ Others(t) # {})
    /\ UNCHANGED <<currentMsg, returnBuffer, hitThreshold, undefined, begun,
                   shared, refused, failed>>

Reset(t) ==
    /\ At(t, "reset")
    /\ mutex = NoThread
    /\ \A u \in Others(t) : Top(u).pc # "compiling"
    /\ mutex' = t
    /\ engine' = "gone"
    /\ codeMap' = [id \in Id |-> NoEntry]
    /\ modules' = [id \in Id |-> 0]
    /\ rejected' = [id \in Id |-> 0]
    /\ frames' = [u \in Thread |-> [i \in 1..Depth(u) |->
                    [frames[u][i] EXCEPT
                       !.func = Killed(@),
                       !.pc = IF <<u, i>> = Self(t) THEN "recreate" ELSE @]]]
    /\ resetShared' = (resetShared \/ Others(t) # {})
    /\ UNCHANGED <<currentMsg, returnBuffer, hitThreshold, undefined, begun,
                   shared, refused, failed>>

ResetUnderCompiler(t) ==
    /\ At(t, "reset")
    /\ mutex = NoThread
    /\ \E u \in Others(t) : Top(u).pc = "compiling"
    /\ Undefined("engine")
    /\ MeetsReset

RecreateLocked(t) ==                                            \* mutant
    /\ At(t, "recreate")
    /\ engine' = "up"
    /\ Goto(t, "message")
    /\ UNCHANGED <<codeMap, mutex, modules, currentMsg, returnBuffer,
                   hitThreshold, undefined, history>>

(* createEngine(), still under the mutex.                                  *)
Recreate(t) ==
    /\ At(t, "recreate")
    /\ engine' = "up"
    /\ mutex' = NoThread
    /\ Goto(t, "message")
    /\ UNCHANGED <<codeMap, modules, currentMsg, returnBuffer, hitThreshold,
                   undefined, history>>

TakeMessage(t) ==
    /\ At(t, "message")
    /\ frames' = [frames EXCEPT ![t][Depth(t)].prevMsg = currentMsg,
                                ![t][Depth(t)].pc = "lookup"]
    /\ currentMsg' = Self(t)
    /\ UNCHANGED <<codeMap, mutex, engine, modules, returnBuffer,
                   hitThreshold, undefined, history>>

-----------------------------------------------------------------------------
(* getExecFunc() steps the counter and copies the entry, under the mutex.  *)
HitsOf(id) == codeMap[id].hits + 1

(* Mutant: the counter of the copy is stepped.                             *)
CountedInCopy(t) ==
    /\ At(t, "lookup")
    /\ mutex = NoThread
    /\ UNCHANGED codeMap

Counted(t) ==
    /\ At(t, "lookup")
    /\ mutex = NoThread
    /\ codeMap' = [codeMap EXCEPT ![Top(t).id].hits = @ + 1]

LookUpFinds(t) ==
    LET entry == codeMap[Top(t).id]
    IN  /\ Counted(t)
        /\ entry.func # NoFunc
        /\ frames' = [frames EXCEPT ![t][Depth(t)].func = entry.func,
                                    ![t][Depth(t)].pc = "run"]
        /\ UNCHANGED <<mutex, engine, modules, currentMsg, returnBuffer,
                       hitThreshold, undefined, history>>

(* Mutant: the mutex is kept until the code is mapped.                     *)
LookUpMissesLocked(t) ==
    LET id == Top(t).id
    IN  /\ Counted(t)
        /\ codeMap[id].func = NoFunc
        /\ HitsOf(id) > hitThreshold
        /\ mutex' = t
        /\ Goto(t, "compile")
        /\ UNCHANGED <<engine, modules, currentMsg, returnBuffer,
                       hitThreshold, undefined, history>>

LookUpMisses(t) ==
    LET id == Top(t).id
    IN  /\ Counted(t)
        /\ codeMap[id].func = NoFunc
        /\ HitsOf(id) > hitThreshold
        /\ Goto(t, "compile")
        /\ UNCHANGED <<mutex, engine, modules, currentMsg, returnBuffer,
                       hitThreshold, undefined, history>>

(* EVMC_REJECTED: currentMsg is left as it is.  The host interprets the    *)
(* code; neither that nor the result that call() of a frame below puts in  *)
(* the buffer is modelled (JIT.cpp:204-212).                               *)
LookUpRejects(t) ==
    LET id == Top(t).id
    IN  /\ Counted(t)
        /\ codeMap[id].func = NoFunc
        /\ HitsOf(id) <= hitThreshold
        /\ frames' = Popped(t)
        /\ currentMsg' = Freed(t, currentMsg)
        /\ rejected' = [rejected EXCEPT ![id] = @ + 1]
        /\ refused' = TRUE
        /\ UNCHANGED <<mutex, engine, modules, returnBuffer, hitThreshold,
                       undefined, begun, shared, resetShared, failed>>

(* compile() uses LLVM's context and the engine without a lock.            *)
Compiling == {t \in Thread : frames[t] # <<>> /\ Top(t).pc = "compiling"}

CompileBegins(t) ==
    /\ At(t, "compile")
    /\ Compiling = {}
    /\ engine = "up"
    /\ Goto(t, "compiling")
    /\ UNCHANGED <<machine, undefined, history>>

CompileTogether(t) ==
    /\ At(t, "compile")
    /\ Compiling # {}
    /\ Undefined("llvm")
    /\ UNCHANGED history

CompileWithoutEngine(t) ==
    /\ At(t, "compile")
    /\ engine = "gone"
    /\ Undefined("engine")
    /\ UNCHANGED history

CompileEnds(t) ==
    LET id == Top(t).id
    IN  /\ At(t, "compiling")
        /\ modules' = [modules EXCEPT ![id] = @ + 1]
        /\ frames' = [frames EXCEPT ![t][Depth(t)].func = Live(id),
                                    ![t][Depth(t)].pc = "map"]
        /\ UNCHANGED <<codeMap, mutex, engine, currentMsg, returnBuffer,
                       hitThreshold, undefined, history>>

(* getFunctionAddress() returns null: EVMC_INTERNAL_ERROR.  What the host  *)
(* does instead is left out, as for EVMC_REJECTED.                         *)
CompileFails(t) ==
    /\ At(t, "compiling")
    /\ modules' = [modules EXCEPT ![Top(t).id] = @ + 1]
    /\ frames' = Popped(t)
    /\ currentMsg' = Freed(t, currentMsg)
    /\ refused' = TRUE
    /\ failed' = TRUE
    /\ UNCHANGED <<codeMap, mutex, engine, returnBuffer, hitThreshold,
                   undefined, begun, rejected, shared, resetShared>>

(* Mutant: nothing is mapped.                                              *)
MapNothing(t) ==
    /\ At(t, "map")
    /\ mutex = NoThread
    /\ Goto(t, "run")
    /\ UNCHANGED <<machine, undefined, history>>

(* Mutant: the code of the current message is mapped.                      *)
MapCurrent(t) ==
    LET owner == currentMsg
        id == IF owner[1] \in Thread /\ owner[2] <= Depth(owner[1])
              THEN frames[owner[1]][owner[2]].id ELSE Top(t).id
    IN  /\ At(t, "map")
        /\ mutex = NoThread
        /\ codeMap' = [codeMap EXCEPT ![id].func = Top(t).func]
        /\ Goto(t, "run")
        /\ UNCHANGED <<mutex, engine, modules, currentMsg, returnBuffer,
                       hitThreshold, undefined, history>>

(* mapExecFunc(), under the mutex.                                         *)
Map(t) ==
    /\ At(t, "map")
    /\ mutex = NoThread
    /\ codeMap' = [codeMap EXCEPT ![Top(t).id].func = Top(t).func]
    /\ Goto(t, "run")
    /\ UNCHANGED <<mutex, engine, modules, currentMsg, returnBuffer,
                   hitThreshold, undefined, history>>

-----------------------------------------------------------------------------
(* The function runs, when its code is still there.                        *)
RunsDead(t) ==
    /\ At(t, "run")
    /\ Top(t).func.state = "dead"
    /\ Undefined("code")
    /\ UNCHANGED history

Running(t) == At(t, "run") /\ Top(t).func.state = "live"

(* call() derives the message of a callee from *currentMsg; the host       *)
(* executes the callee in the same thread.  Gas bounds the number of calls,*)
(* here to one for each frame.                                             *)
Call(t, id) ==
    /\ Running(t)
    /\ ~Top(t).called
    /\ Depth(t) < MaxDepth
    /\ frames' =
         [frames EXCEPT ![t] =
            Append([@ EXCEPT ![Depth(t)].called = TRUE,
                             ![Depth(t)].seesData = FALSE],
                   NewFrame(id, "message"))]
    /\ UNCHANGED <<machine, undefined, history>>

(* Mutant: the message before is not restored.                             *)
ReturnStale(t) ==
    LET rest == Popped(t)
    IN  /\ Running(t)
        /\ frames' = IF Depth(t) = 1 THEN rest
                     ELSE [rest EXCEPT ![t][Depth(t) - 1].seesData = TRUE]
        /\ returnBuffer' = IF Depth(t) = 1 THEN Freed(t, returnBuffer)
                           ELSE <<t, Depth(t) - 1>>
        /\ currentMsg' = Freed(t, currentMsg)
        /\ UNCHANGED <<codeMap, mutex, engine, modules, hitThreshold,
                       undefined, history>>

(* The end of execute(), and of call() in the frame below, which fills the *)
(* buffer: two accesses, to currentMsg and then to the buffer, in one step *)
(* (JIT.cpp:508, 210).                                                     *)
Return(t) ==
    LET rest == Popped(t)
    IN  /\ Running(t)
        /\ frames' = IF Depth(t) = 1 THEN rest
                     ELSE [rest EXCEPT ![t][Depth(t) - 1].seesData = TRUE]
        /\ returnBuffer' = IF Depth(t) = 1 THEN Freed(t, returnBuffer)
                           ELSE <<t, Depth(t) - 1>>
        /\ currentMsg' = Freed(t, Top(t).prevMsg)
        /\ UNCHANGED <<codeMap, mutex, engine, modules, hitThreshold,
                       undefined, history>>

Step(t) ==
    \/ CheckMemory(t)
    \/ CheckGoneEngine(t)
    \/ Reset(t)
    \/ ResetUnderCompiler(t)
    \/ Recreate(t)
    \/ TakeMessage(t)
    \/ LookUpFinds(t)
    \/ LookUpMisses(t)
    \/ LookUpRejects(t)
    \/ CompileBegins(t)
    \/ CompileTogether(t)
    \/ CompileWithoutEngine(t)
    \/ CompileEnds(t)
    \/ CompileFails(t)
    \/ Map(t)
    \/ RunsDead(t)
    \/ \E id \in Id : Call(t, id)
    \/ Return(t)

Next == \E t \in Thread : Step(t) \/ \E id \in Id : Begin(t, id)

(* A thread that is in execute() runs; the host need not begin anything.   *)
Spec == Init /\ [][Next]_vars /\ \A t \in Thread : WF_vars(Step(t))

-----------------------------------------------------------------------------
(* The properties.                                                         *)

AllFrames == {f \in FrameIds : f[2] <= Depth(f[1])}
FrameOf(f) == frames[f[1]][f[2]]

(* Whatever threads do to the map between each other's lookup and mapping, *)
(* a frame runs, and an entry leads to, a function of its own code         *)
(* (JIT.cpp:441-466).                                                      *)
OwnCode ==
    /\ \A f \in AllFrames : FrameOf(f).func.of \in {"none", FrameOf(f).id}
    /\ \A id \in Id : codeMap[id].func.of \in {"none", id}

(* The race at JIT.cpp:446 is bounded: code that every thread has missed   *)
(* is compiled by each of them, but an engine never gets more modules of   *)
(* it than there are threads, unless compilations fail.                    *)
DuplicatesBounded ==
    ~failed => \A id \in Id : modules[id] <= Cardinality(Thread)

(* The counter loses no hit: between two resets a code is rejected no more *)
(* often than the threshold says, by all threads together                  *)
(* (JIT.cpp:316-322, 448).                                                 *)
RejectedAtMost == \A id \in Id : rejected[id] <= hitThreshold

(* Code dies only under a reset that meets an execution of another thread: *)
(* else neither a frame nor the map holds a function whose engine is gone, *)
(* not even one that was compiled before and mapped after (JIT.cpp:595).   *)
AliveUnlessReset ==
    ~resetShared =>
        /\ undefined \notin {"engine", "code"}
        /\ \A f \in AllFrames : FrameOf(f).func.state # "dead"
        /\ \A id \in Id : codeMap[id].func.state # "dead"

(* A host that lets one thread at a time into execute() is safe: nothing   *)
(* is undefined, a frame that keeps a pointer to the buffer for return     *)
(* data finds its own data in it, and call() derives the message of a      *)
(* callee from that of the running frame, unless a refused execution left  *)
(* its own behind (JIT.cpp:166, 200, 417, 448-463).                        *)
OneAtATimeIsSafe ==
    ~shared =>
        /\ undefined = "no"
        /\ \A f \in AllFrames :
             FrameOf(f).seesData => returnBuffer = f
        /\ ~refused =>
             \A t \in Thread : Running(t) => currentMsg = Self(t)

(* No thread waits for ever for the mutex or for another thread: every     *)
(* execution ends, if the behaviour stays defined (JIT.cpp:316-328, 594).  *)
ExecutionsEnd ==
    \A t \in Thread :
        frames[t] # <<>> ~> (frames[t] = <<>> \/ undefined # "no")
=============================================================================
