----------------------------- MODULE ObjectCache -----------------------------
(***************************************************************************)
(* The cache of compiled objects on disk (src/libevmjit/Cache.cpp) as      *)
(* JITImpl::compile() and LLVM drive it.                                   *)
(*                                                                         *)
(* Processes share a directory with one file for every code identifier.    *)
(* A thread that misses a code in the code map compiles it.  compile()     *)
(* asks Cache::getObject(); an object that was found waits in the global   *)
(* g_lastObject, under a fake module, until LLVM asks for the object of    *)
(* that module, which it does only for code the engine has not linked.     *)
(* LLVM reports the objects it generates itself, and the cache writes them *)
(* to their files, in place.  A write that fails ends the process, which   *)
(* may crash at any other time as well; the files stay.                    *)
(***************************************************************************)
EXTENDS Integers

CONSTANTS
    Process,        \* processes that share the cache directory
    Thread,         \* threads that execute code
    Home,           \* the process of each thread
    Id,             \* code identifiers
    NoObject,       \* no object, or no file
    Options,        \* values given to the option "cache"
    MayCrash        \* whether processes crash

ASSUME CacheAssumption ==
    /\ Home \in [Thread -> Process]
    /\ MayCrash \in BOOLEAN
    /\ Options \subseteq {"off", "on", "read", "write", "clear", "preload"}

VARIABLES
    files,          \* the content of the directory
    phase,          \* "down", "clearing", "blocked" or "up", by process
    option,         \* g_cache, the option "cache" of each process
    lastObject,     \* g_lastObject of each process
    writing,        \* whether x_cacheMutex is held by a thread that writes
    loaded,         \* what each engine has linked for a code
    codeMap,        \* the codes that m_codeMap of each process has
    pc,             \* where each thread is in execute()
    job,            \* the module it compiles
    cut,            \* history: files whose last writer died over them
    mixed,          \* history: two threads of a process waited for LLVM
    raced           \* history: two threads of a process missed one code

engine == <<loaded, codeMap>>
history == <<cut, mixed, raced>>
vars == <<files, phase, option, lastObject, writing, engine, pc, job, history>>

(* An object was generated from the code of an identifier or from a fake   *)
(* module; a torn one is what a write leaves that did not end.             *)
Objects == [of : Id, sort : {"real", "fake", "torn"}]
Object(id, sort) == [of |-> id, sort |-> sort]
Nothing == [id \in Id |-> NoObject]
NoJob == [id |-> NoObject, sort |-> "real"]

ASSUME NoObjectAssumption == NoObject \notin Objects

TypeOK ==
    /\ files \in [Id -> Objects \cup {NoObject}]
    /\ phase \in [Process -> {"down", "clearing", "blocked", "up"}]
    /\ option \in [Process -> {"off", "on", "read", "write", "clear"}]
    /\ lastObject \in [Process -> Objects \cup {NoObject}]
    /\ writing \in [Process -> BOOLEAN]
    /\ loaded \in [Process -> [Id -> Objects \cup {NoObject}]]
    /\ codeMap \in [Process -> SUBSET Id]
    /\ pc \in [Thread -> {"idle", "missed", "lookedUp", "generated", "storing",
                          "clobbered", "orphan", "linked"}]
    /\ job \in [Thread -> [id : Id \cup {NoObject}, sort : {"real", "fake"}]]
    /\ cut \subseteq Id
    /\ mixed \in BOOLEAN
    /\ raced \in BOOLEAN

Init ==
    /\ files = Nothing
    /\ phase = [p \in Process |-> "down"]
    /\ option = [p \in Process |-> "off"]
    /\ lastObject = [p \in Process |-> NoObject]
    /\ writing = [p \in Process |-> FALSE]
    /\ loaded = [p \in Process |-> Nothing]
    /\ codeMap = [p \in Process |-> {}]
    /\ pc = [t \in Thread |-> "idle"]
    /\ job = [t \in Thread |-> NoJob]
    /\ cut = {}
    /\ mixed = FALSE
    /\ raced = FALSE

(* g_mode: init() turns "clear" into "off".                                *)
Mode(p) == IF option[p] = "clear" THEN "off" ELSE option[p]

-----------------------------------------------------------------------------
(* createEngine() and init(): in clear mode it takes x_cacheMutex and then *)
(* calls clear().                                                          *)
Phase(cache) == IF cache = "clear" THEN "clearing" ELSE "up"

(* Mutant: the option "preload" stays as it is.                            *)
StartUnmapped(p, opt) ==
    /\ phase[p] = "down"
    /\ option' = [option EXCEPT ![p] = opt]
    /\ phase' = [phase EXCEPT ![p] = Phase(opt)]
    /\ UNCHANGED <<files, lastObject, writing, engine, pc, job, history>>

(* A process makes its instance, which turns "preload" into "on".          *)
Start(p, opt) ==
    /\ phase[p] = "down"
    /\ option' = [option EXCEPT ![p] = IF opt = "preload" THEN "on" ELSE opt]
    /\ phase' = [phase EXCEPT ![p] = Phase(opt)]
    /\ UNCHANGED <<files, lastObject, writing, engine, pc, job, history>>

(* The engine is replaced and the code map cleared, between executions.    *)
Restart(p) ==
    /\ phase[p] = "up"
    /\ \A t \in Thread : Home[t] = p => pc[t] = "idle"
    /\ phase' = [phase EXCEPT ![p] = Phase(option[p])]
    /\ loaded' = [loaded EXCEPT ![p] = Nothing]
    /\ codeMap' = [codeMap EXCEPT ![p] = {}]
    /\ UNCHANGED <<files, option, lastObject, writing, pc, job, history>>

(* clear() takes the mutex again: undefined behaviour.  It blocks for ever *)
(* when std::mutex is backed by a thread library, and else does nothing.   *)
ClearBlocks(p) ==
    /\ phase[p] = "clearing"
    /\ phase' = [phase EXCEPT ![p] = "blocked"]
    /\ UNCHANGED <<files, option, lastObject, writing, engine, pc, job,
                   history>>

(* The files are removed; who was writing one writes to no file any more.  *)
Clear(p) ==
    /\ phase[p] = "clearing"
    /\ phase' = [phase EXCEPT ![p] = "up"]
    /\ files' = Nothing
    /\ cut' = {}
    /\ pc' = [t \in Thread |->
                IF pc[t] \in {"storing", "clobbered"} THEN "orphan" ELSE pc[t]]
    /\ UNCHANGED <<option, lastObject, writing, engine, job, mixed, raced>>

(* A process is gone, with its threads and its memory.                     *)
Died(p) ==
    /\ phase' = [phase EXCEPT ![p] = "down"]
    /\ option' = [option EXCEPT ![p] = "off"]
    /\ lastObject' = [lastObject EXCEPT ![p] = NoObject]
    /\ writing' = [writing EXCEPT ![p] = FALSE]
    /\ loaded' = [loaded EXCEPT ![p] = Nothing]
    /\ codeMap' = [codeMap EXCEPT ![p] = {}]
    /\ pc' = [t \in Thread |-> IF Home[t] = p THEN "idle" ELSE pc[t]]
    /\ job' = [t \in Thread |-> IF Home[t] = p THEN NoJob ELSE job[t]]
    /\ UNCHANGED <<files, mixed, raced>>

(* The files that a process was the last to truncate and has not written.  *)
Unwritten(p) ==
    {job[t].id : t \in {u \in Thread : Home[u] = p /\ pc[u] = "storing"}}

(* It is killed from outside.                                              *)
Crash(p) ==
    /\ MayCrash
    /\ phase[p] # "down"
    /\ Died(p)
    /\ cut' = cut \cup Unwritten(p)

-----------------------------------------------------------------------------
(* execute() of code that is not mapped, and its compilation.              *)
Locked(t) == phase[Home[t]] = "up" /\ ~writing[Home[t]]

(* The other threads of t's process, and those that wait for LLVM to take  *)
(* an object.                                                              *)
Others(t) == {u \in Thread \ {t} : Home[u] = Home[t]}
Waiting(t) == {u \in Others(t) : pc[u] = "lookedUp"}

(* getExecFunc() finds no function.  The map is unlocked again, and others *)
(* may miss the same code before this thread maps it.                      *)
Misses(t, id) ==
    /\ pc[t] = "idle"
    /\ phase[Home[t]] = "up"
    /\ id \notin codeMap[Home[t]]
    /\ pc' = [pc EXCEPT ![t] = "missed"]
    /\ job' = [job EXCEPT ![t] = [id |-> id, sort |-> "real"]]
    /\ raced' = (raced \/ \E u \in Others(t) :
                            pc[u] # "idle" /\ job[u].id = id)
    /\ UNCHANGED <<files, phase, option, lastObject, writing, engine, cut,
                   mixed>>

Reads(p) == Mode(p) \in {"on", "read"}
Found(t) == IF Reads(Home[t]) THEN files[job[t].id] ELSE NoObject

(* Mutant: the object is kept for LLVM in mode "read" only, but the module *)
(* is a fake one in mode "on" as well.                                     *)
LookUpUnkept(t) ==
    /\ pc[t] = "missed"
    /\ Locked(t)
    /\ lastObject' = IF Mode(Home[t]) = "read"
                     THEN [lastObject EXCEPT ![Home[t]] = Found(t)]
                     ELSE lastObject
    /\ job' = [job EXCEPT ![t].sort = IF Found(t) = NoObject THEN "real"
                                      ELSE "fake"]
    /\ pc' = [pc EXCEPT ![t] = "lookedUp"]
    /\ mixed' = (mixed \/ Waiting(t) # {})
    /\ UNCHANGED <<files, phase, option, writing, engine, cut, raced>>

(* Cache::getObject(), whether the engine has the code by now or not; the  *)
(* module it returns, or else a compiled one, is added to the engine.      *)
LookUp(t) ==
    /\ pc[t] = "missed"
    /\ Locked(t)
    /\ lastObject' = IF Reads(Home[t])
                     THEN [lastObject EXCEPT ![Home[t]] = Found(t)]
                     ELSE lastObject
    /\ job' = [job EXCEPT ![t].sort = IF Found(t) = NoObject THEN "real"
                                      ELSE "fake"]
    /\ pc' = [pc EXCEPT ![t] = "lookedUp"]
    /\ mixed' = (mixed \/ Waiting(t) # {})
    /\ UNCHANGED <<files, phase, option, writing, engine, cut, raced>>

(* getFunctionAddress() holds the lock of the engine until the code of a   *)
(* module is generated and stored.                                         *)
EngineFree(t) == \A u \in Others(t) : pc[u] \in {"idle", "missed", "lookedUp",
                                                 "linked"}

(* It finds the code that another thread has linked; the module, and the   *)
(* object in g_lastObject, stay where they are.                            *)
FindsLinked(t) ==
    /\ pc[t] = "lookedUp"
    /\ EngineFree(t)
    /\ loaded[Home[t]][job[t].id] # NoObject
    /\ pc' = [pc EXCEPT ![t] = "linked"]
    /\ UNCHANGED <<files, phase, option, lastObject, writing, engine, job,
                   history>>

(* ObjectCache::getObject(): for code that is not linked LLVM takes        *)
(* whatever lies in g_lastObject.                                          *)
Takes(t, object) ==
    /\ pc[t] = "lookedUp"
    /\ EngineFree(t)
    /\ loaded[Home[t]][job[t].id] = NoObject
    /\ Locked(t)
    /\ lastObject[Home[t]] = object

(* There is none: LLVM generates code from the module, fake or not.        *)
Generate(t) ==
    /\ Takes(t, NoObject)
    /\ pc' = [pc EXCEPT ![t] = "generated"]
    /\ UNCHANGED <<files, phase, option, lastObject, writing, engine, job,
                   history>>

(* The engine runs the object it takes.  The thread has its function, or   *)
(* the object is another's and getFunctionAddress() returns null.          *)
Returns(t, object) ==
    IF object.of = job[t].id
    THEN pc' = [pc EXCEPT ![t] = "linked"] /\ UNCHANGED job
    ELSE pc' = [pc EXCEPT ![t] = "idle"] /\ job' = [job EXCEPT ![t] = NoJob]

(* Mutant: LLVM takes a copy.                                              *)
LinkCopy(t) ==
    LET object == lastObject[Home[t]]
    IN  /\ object # NoObject
        /\ Takes(t, object)
        /\ object.sort # "torn"
        /\ loaded' = [loaded EXCEPT ![Home[t]][object.of] = object]
        /\ Returns(t, object)
        /\ UNCHANGED <<files, phase, option, lastObject, writing, codeMap,
                       history>>

Link(t) ==
    LET object == lastObject[Home[t]]
    IN  /\ object # NoObject
        /\ Takes(t, object)
        /\ object.sort # "torn"
        /\ loaded' = [loaded EXCEPT ![Home[t]][object.of] = object]
        /\ lastObject' = [lastObject EXCEPT ![Home[t]] = NoObject]
        /\ Returns(t, object)
        /\ UNCHANGED <<files, phase, option, writing, codeMap, history>>

(* LLVM cannot read a torn object, and ends the process.                   *)
LinkTorn(t) ==
    LET object == lastObject[Home[t]]
    IN  /\ object # NoObject
        /\ Takes(t, object)
        /\ object.sort = "torn"
        /\ Died(Home[t])
        /\ UNCHANGED cut

(* mapExecFunc(), and the execution.                                       *)
Maps(t) ==
    /\ pc[t] = "linked"
    /\ codeMap' = [codeMap EXCEPT ![Home[t]] = @ \cup {job[t].id}]
    /\ pc' = [pc EXCEPT ![t] = "idle"]
    /\ job' = [job EXCEPT ![t] = NoJob]
    /\ UNCHANGED <<files, phase, option, lastObject, writing, loaded, history>>

-----------------------------------------------------------------------------
(* notifyObjectCompiled().                                                 *)
Generated(t) == Object(job[t].id, job[t].sort)
Writes(p) == Mode(p) \in {"on", "write"}
Writer(t) == pc[t] \in {"storing", "clobbered", "orphan"}

Ended(t) ==
    /\ pc' = [pc EXCEPT ![t] = "linked"]
    /\ loaded' = [loaded EXCEPT ![Home[t]][job[t].id] = Generated(t)]

(* The mode does not store, or the directory cannot be made.               *)
NotStored(t) ==
    /\ pc[t] = "generated"
    /\ Locked(t)
    /\ Ended(t)
    /\ UNCHANGED <<files, phase, option, lastObject, writing, codeMap, job,
                   history>>

(* The file is truncated, also under another process that writes it.       *)
Clobbers(t, u) == pc[u] = "storing" /\ job[u].id = job[t].id

StoreBegins(t) ==
    /\ pc[t] = "generated"
    /\ Locked(t)
    /\ Writes(Home[t])
    /\ files' = [files EXCEPT ![job[t].id] = Object(job[t].id, "torn")]
    /\ cut' = cut \ {job[t].id}
    /\ writing' = [writing EXCEPT ![Home[t]] = TRUE]
    /\ pc' = [u \in Thread |-> IF u = t THEN "storing"
                               ELSE IF Clobbers(t, u) THEN "clobbered"
                               ELSE pc[u]]
    /\ UNCHANGED <<phase, option, lastObject, engine, job, mixed, raced>>

(* It cannot be opened.  Nobody reads the error, and the stream, which has *)
(* nothing to write to, ends the process.                                  *)
StoreNotOpened(t) ==
    /\ pc[t] = "generated"
    /\ Locked(t)
    /\ Writes(Home[t])
    /\ Died(Home[t])
    /\ UNCHANGED cut

(* Mutant: one write, which may be short.                                  *)
LeftByOne(t) ==
    LET file == files[job[t].id]
    IN  CASE pc[t] = "storing" -> {Generated(t), file}
          [] pc[t] = "clobbered" -> {Generated(t), file}
          [] pc[t] = "orphan" -> {file}

(* What the file holds when the last byte is written: the start of the     *)
(* object may have been cut off, and not written again by the other.       *)
LeftBy(t) ==
    LET file == files[job[t].id]
    IN  CASE pc[t] = "storing" -> {Generated(t)}
          [] pc[t] = "clobbered" -> {Generated(t), file}
          [] pc[t] = "orphan" -> {file}

StoreEnds(t) ==
    /\ Writer(t)
    /\ \E content \in LeftBy(t) :
         files' = [files EXCEPT ![job[t].id] = content]
    /\ writing' = [writing EXCEPT ![Home[t]] = FALSE]
    /\ Ended(t)
    /\ UNCHANGED <<phase, option, lastObject, codeMap, job, history>>

(* A write fails.  The file stays as it is, and the stream, whose error    *)
(* nobody reads, ends the process.                                         *)
StoreFails(t) ==
    /\ Writer(t)
    /\ Died(Home[t])
    /\ cut' = cut \cup Unwritten(Home[t])

Next ==
    \/ \E p \in Process :
         \/ \E opt \in Options : Start(p, opt)
         \/ Restart(p)
         \/ ClearBlocks(p)
         \/ Clear(p)
         \/ Crash(p)
    \/ \E t \in Thread :
         \/ \E id \in Id : Misses(t, id)
         \/ LookUp(t)
         \/ FindsLinked(t)
         \/ Generate(t)
         \/ Link(t)
         \/ LinkTorn(t)
         \/ Maps(t)
         \/ NotStored(t)
         \/ StoreBegins(t)
         \/ StoreNotOpened(t)
         \/ StoreEnds(t)
         \/ StoreFails(t)

Spec == Init /\ [][Next]_vars

(* A process that is starting goes on.                                     *)
FairSpec == Spec /\ \A p \in Process : WF_vars(ClearBlocks(p) \/ Clear(p))

-----------------------------------------------------------------------------
(* The properties.                                                         *)

(* An engine runs, for every code, an object generated from that code, and *)
(* no file that is whole holds anything else: no fake module is ever       *)
(* compiled or stored, and no object reaches another's module, whatever    *)
(* processes do to each other's files, as long as no two threads of one    *)
(* process are between lookup and hand-over (Cache.cpp:129, 172).          *)
RunsRealCode ==
    ~mixed =>
        /\ \A p \in Process, id \in Id :
             loaded[p][id] \in {NoObject, Object(id, "real")}
        /\ \A id \in Id :
             files[id] \in {NoObject, Object(id, "real"), Object(id, "torn")}

(* A torn file is being written by the process that truncated it last, or  *)
(* that process was killed or met an error while it wrote: a write that    *)
(* ends leaves a whole file, although processes truncate what others write *)
(* and die when they load a torn file or cannot open one                   *)
(* (Cache.cpp:144-170).                                                    *)
TornIsWritten ==
    \A id \in Id :
        files[id] = Object(id, "torn") =>
            \/ \E t \in Thread : pc[t] = "storing" /\ job[t].id = id
            \/ id \in cut

(* CHECK(!g_lastObject) (Cache.cpp:118): when an object is looked up while *)
(* no other thread of the process waits for one, the one looked up before  *)
(* has been handed over, unless two threads have missed the same code (the *)
(* FIXME at JIT.cpp:446): the second finds it linked, and leaves an object *)
(* that nobody takes.                                                      *)
HandedOver ==
    [][\A t \in Thread :
         LookUp(t) /\ Reads(Home[t]) /\ Waiting(t) = {} /\ ~raced =>
             lastObject[Home[t]] = NoObject]_vars

(* "Clear the cache storage. Cache is disabled." (JIT.cpp:113): a process  *)
(* that starts in clear mode gets through, or is killed.                   *)
ClearEnds ==
    \A p \in Process :
        phase[p] = "clearing" ~> phase[p] \in {"up", "down"}
=============================================================================
