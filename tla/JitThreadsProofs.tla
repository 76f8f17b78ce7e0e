--------------------------- MODULE JitThreadsProofs ---------------------------
(***************************************************************************)
(* Proofs about JitThreads, for any threads, codes and limits.             *)
(***************************************************************************)
EXTENDS JitThreads, SequenceTheorems, FiniteSetTheorems, TLAPS

Busy(t) == frames[t] # <<>>

(* Only the top frame of a thread is not yet, or no longer, in compiled    *)
(* code, only it sees return data, and only the first frame resets.        *)
FrameOk(t, i) ==
    /\ i < Depth(t) => frames[t][i].pc = "run" /\ ~frames[t][i].seesData
    /\ frames[t][i].pc \in {"check", "reset", "recreate"} => i = 1
    /\ frames[t][i].pc \in {"map", "run"} <=> frames[t][i].func # NoFunc
    /\ frames[t][i].func.of \in {"none", frames[t][i].id}

Stacks ==
    \A t \in Thread :
        Depth(t) <= MaxDepth /\ \A i \in 1..Depth(t) : FrameOk(t, i)

MapOwn == \A id \in Id : codeMap[id].func.of \in {"none", id}

(* The mutex is held beyond a step exactly by who replaces the engine.     *)
Locking ==
    \A t \in Thread : mutex = t <=> (Busy(t) /\ Top(t).pc = "recreate")

Counting ==
    \A id \in Id :
        rejected[id] <= codeMap[id].hits /\ rejected[id] <= hitThreshold

(* While a thread replaces the engine and nobody was in execute() when it  *)
(* began, others have at most entered since.                               *)
Alive ==
    ~resetShared =>
        /\ undefined \notin {"engine", "code"}
        /\ \A t \in Thread : \A i \in 1..Depth(t) :
             frames[t][i].func.state # "dead"
        /\ \A id \in Id : codeMap[id].func.state # "dead"
        /\ \A t, u \in Thread :
             mutex = t /\ u # t /\ Busy(u) => Top(u).pc = "check"

IInv == TypeOK /\ Stacks /\ MapOwn /\ Locking /\ Counting /\ Alive

(* One thread at a time.                                                   *)
Alone == \A t, u \in Thread : Busy(t) /\ Busy(u) => t = u

(* A pointer to the message of the frame below, if there is one.           *)
Below(pointer, t, i) ==
    IF i > 1 THEN pointer = <<t, i - 1>> ELSE pointer \in {Null, Dangling}

Entered == {"lookup", "compile", "compiling", "map", "run"}

(* The current message is that of the running frame once it has entered,   *)
(* and each frame that has remembers the one below.                        *)
Pointing ==
    /\ \A t \in Thread :
         Busy(t) => IF Top(t).pc \in Entered THEN currentMsg = Self(t)
                    ELSE Below(currentMsg, t, Depth(t))
    /\ \A t \in Thread : \A i \in 1..Depth(t) :
         frames[t][i].pc \in Entered => Below(frames[t][i].prevMsg, t, i)
    /\ (\A t \in Thread : ~Busy(t)) => currentMsg \in {Null, Dangling}

Safe ==
    ~shared =>
        /\ Alone
        /\ ~resetShared
        /\ undefined = "no"
        /\ \A t \in Thread : \A i \in 1..Depth(t) :
             frames[t][i].seesData => returnBuffer = <<t, i>>
        /\ ~refused => Pointing

(* The threads that compile a code, or are about to, and those that have   *)
(* compiled it and not yet mapped it.                                      *)
AtWork(id, pcs) ==
    {t \in Thread : Busy(t) /\ Top(t).id = id /\ Top(t).pc \in pcs}
ToCompile(id) == AtWork(id, {"compile", "compiling"})
ToMap(id) == AtWork(id, {"map"})

Duplicates ==
    ~failed =>
        \A id \in Id :
            /\ modules[id] + Cardinality(ToCompile(id)) <= Cardinality(Thread)
            /\ codeMap[id].func = NoFunc =>
                 modules[id] <= Cardinality(ToMap(id))

-----------------------------------------------------------------------------
(* What the actions do to the frames of the threads.                       *)

LEMMA ConstantFacts ==
    /\ MaxDepth \in Nat /\ MaxDepth > 0 /\ MaxExecutions \in Nat
    /\ MemoryLimit \in Nat /\ NoThread \notin Thread
    /\ \A threshold \in HitThresholds : threshold \in Nat
    /\ NoFunc \in Funcs /\ NoFunc.of = "none" /\ NoFunc.state = "none"
    /\ Null \in Pointers /\ Dangling \in Pointers
    /\ NoEntry \in [func : Funcs, hits : Nat]
    /\ NoEntry.func = NoFunc /\ NoEntry.hits = 0
  BY ThreadsAssumption DEF ThreadsAssumption, NoFunc, Funcs, Pointers, NoEntry

LEMMA PointerFacts ==
    ASSUME NEW t \in Thread, NEW i \in 1..MaxDepth
    PROVE  /\ <<t, i>> \in Pointers /\ <<t, i>> \in FrameIds
           /\ <<t, i>> # Null /\ <<t, i>> # Dangling
  BY ConstantFacts DEF FrameIds, Pointers, Null, Dangling

LEMMA StackFacts ==
    ASSUME TypeOK, NEW t \in Thread
    PROVE  /\ Depth(t) \in Nat /\ frames[t] \in Seq(Frames)
           /\ Busy(t) <=> Depth(t) > 0
           /\ Busy(t) => Depth(t) \in 1..Depth(t)
           /\ Top(t) = frames[t][Depth(t)]
           /\ \A i \in 1..Depth(t) : frames[t][i] \in Frames
<1>1. frames[t] \in Seq(Frames)
  BY DEF TypeOK
<1>2. QED
  BY <1>1 DEF Depth, Busy, Top

LEMMA FuncFacts ==
    ASSUME NEW id \in Id
    PROVE  /\ Live(id) \in Funcs /\ Live(id) # NoFunc
           /\ Live(id).of = id /\ Live(id).state = "live"
  BY DEF Live, Funcs, NoFunc

LEMMA KilledFacts ==
    ASSUME NEW func \in Funcs
    PROVE  /\ Killed(func) \in Funcs
           /\ Killed(func).of = func.of
           /\ Killed(func) = NoFunc <=> func = NoFunc
           /\ Killed(NoFunc) = NoFunc
  BY DEF Killed, Funcs, NoFunc

LEMMA NewFrameFacts ==
    ASSUME NEW id \in Id, NEW pc \in {"check", "message"}
    PROVE  /\ NewFrame(id, pc) \in Frames
           /\ NewFrame(id, pc).id = id /\ NewFrame(id, pc).pc = pc
           /\ NewFrame(id, pc).func = NoFunc
           /\ NewFrame(id, pc).seesData = FALSE
  BY ConstantFacts DEF NewFrame, Frames

(* Two frames that differ at most in the message they remember.            *)
Same(new, old) ==
    /\ new.id = old.id /\ new.pc = old.pc /\ new.func = old.func
    /\ new.seesData = old.seesData

(* Other threads do not move.                                              *)
OthersSame(t) ==
    \A u \in Thread \ {t} :
        Depth(u)' = Depth(u) /\ \A i \in 1..Depth(u) : Same(frames'[u][i], frames[u][i])

(* The top frame of a thread becomes another.                              *)
LEMMA TopFacts ==
    ASSUME TypeOK, NEW t \in Thread, Busy(t), NEW new \in Frames,
           frames' = [frames EXCEPT ![t] = [frames[t] EXCEPT ![Depth(t)] = new]]
    PROVE  /\ frames' \in [Thread -> Seq(Frames)]
           /\ \A u \in Thread : u # t => frames'[u] = frames[u]
           /\ OthersSame(t)
           /\ Depth(t)' = Depth(t) /\ Depth(t) > 0
           /\ \A i \in 1..Depth(t) : i # Depth(t) => frames'[t][i] = frames[t][i]
           /\ frames'[t][Depth(t)] = new
<1>1. /\ frames[t] \in Seq(Frames) /\ Len(frames[t]) = Depth(t)
      /\ Depth(t) \in Nat /\ Depth(t) \in 1..Depth(t)
  BY StackFacts DEF Depth
<1> DEFINE stack == [frames[t] EXCEPT ![Depth(t)] = new]
<1>2. /\ stack \in Seq(Frames) /\ Len(stack) = Depth(t)
      /\ \A i \in 1..Depth(t) : i # Depth(t) => stack[i] = frames[t][i]
      /\ stack[Depth(t)] = new
  BY <1>1
<1>3. frames \in [Thread -> Seq(Frames)] /\ frames' = [frames EXCEPT ![t] = stack]
  BY DEF TypeOK
<1> HIDE DEF stack
<1>4. /\ frames' \in [Thread -> Seq(Frames)] /\ frames'[t] = stack
      /\ \A u \in Thread : u # t => frames'[u] = frames[u]
  BY <1>2, <1>3
<1>5. OthersSame(t)
  BY <1>4 DEF OthersSame, Same, Depth
<1>6. Depth(t)' = Depth(t)
  BY <1>2, <1>4 DEF Depth
<1>7. QED
  BY <1>1, <1>2, <1>4, <1>5, <1>6

LEMMA FreedFacts ==
    ASSUME TypeOK, NEW t \in Thread, NEW pointer \in Pointers
    PROVE  Freed(t, pointer) \in Pointers
  BY ConstantFacts DEF Freed

(* A frame ends.                                                           *)
LEMMA PoppedFacts ==
    ASSUME TypeOK, NEW t \in Thread, Busy(t)
    PROVE  /\ Popped(t) \in [Thread -> Seq(Frames)]
           /\ Len(Popped(t)[t]) = Depth(t) - 1
           /\ \A u \in Thread : u # t => Len(Popped(t)[u]) = Depth(u)
           /\ \A u \in Thread : \A i \in 1..Len(Popped(t)[u]) :
                /\ Same(Popped(t)[u][i], frames[u][i])
                /\ Popped(t)[u][i].prevMsg = Freed(t, frames[u][i].prevMsg)
<1> DEFINE n(u) == IF u = t THEN Depth(t) - 1 ELSE Depth(u)
<1> DEFINE g(u, i) == [frames[u][i] EXCEPT !.prevMsg = Freed(t, @)]
<1>1. \A u \in Thread : n(u) \in Nat /\ n(u) <= Depth(u) /\ Depth(u) \in Nat
  BY StackFacts
<1>2. ASSUME NEW u \in Thread, NEW i \in 1..n(u)
      PROVE  /\ g(u, i) \in Frames /\ Same(g(u, i), frames[u][i])
             /\ g(u, i).prevMsg = Freed(t, frames[u][i].prevMsg)
  <2>1. i \in 1..Depth(u)
    BY <1>1, <1>2
  <2>2. frames[u][i] \in Frames
    BY <2>1, StackFacts
  <2>3. frames[u][i].prevMsg \in Pointers
    BY <2>2 DEF Frames
  <2>4. Freed(t, frames[u][i].prevMsg) \in Pointers
    BY <2>3, FreedFacts
  <2>5. QED
    BY <2>2, <2>4 DEF Frames, Same
<1>3. Popped(t) = [u \in Thread |-> [i \in 1..n(u) |-> g(u, i)]]
  BY DEF Popped
<1> HIDE DEF n, g
<1>4. ASSUME NEW u \in Thread
      PROVE  /\ Popped(t)[u] = [i \in 1..n(u) |-> g(u, i)]
             /\ Popped(t)[u] \in Seq(Frames) /\ Len(Popped(t)[u]) = n(u)
             /\ \A i \in 1..n(u) : Popped(t)[u][i] = g(u, i)
  <2>1. Popped(t)[u] = [i \in 1..n(u) |-> g(u, i)]
    BY <1>3
  <2>2. QED
    BY <1>1, <1>2, <2>1
<1>5. Popped(t) \in [Thread -> Seq(Frames)]
  BY <1>3, <1>4
<1>6. n(t) = Depth(t) - 1 /\ \A u \in Thread : u # t => n(u) = Depth(u)
  BY DEF n
<1>7. QED
  BY <1>2, <1>4, <1>5, <1>6

-----------------------------------------------------------------------------
(* The inductive invariant.                                                *)

LEMMA InitInvariant == Init => IInv
<1> SUFFICES ASSUME Init PROVE IInv
  OBVIOUS
<1>1. \A t \in Thread : frames[t] = <<>> /\ Depth(t) = 0
  BY DEF Init, Depth
<1>2. TypeOK
  <2>1. frames \in [Thread -> Seq(Frames)]
    BY DEF Init
  <2>2. codeMap \in [Id -> [func : Funcs, hits : Nat]]
    BY ConstantFacts DEF Init
  <2>3. /\ modules \in [Id -> Nat] /\ rejected \in [Id -> Nat]
        /\ begun \in 0..MaxExecutions /\ hitThreshold \in HitThresholds
    BY ConstantFacts DEF Init
  <2>4. /\ mutex = NoThread /\ engine = "up" /\ undefined = "no"
        /\ currentMsg = Null /\ returnBuffer = Null
        /\ shared = FALSE /\ resetShared = FALSE /\ refused = FALSE
        /\ failed = FALSE
    BY DEF Init
  <2>5. QED
    BY <2>1, <2>2, <2>3, <2>4, ConstantFacts DEF TypeOK
<1>3. Stacks
  BY <1>1, ConstantFacts DEF Stacks
<1>4. MapOwn /\ Counting
  BY ConstantFacts DEF Init, MapOwn, Counting
<1>5. Locking
  BY <1>1, ConstantFacts DEF Init, Locking, Busy
<1>6. Alive
  BY <1>1, ConstantFacts DEF Init, Alive, Busy
<1>7. QED
  BY <1>2, <1>3, <1>4, <1>5, <1>6 DEF IInv

(* The threads that do not move stay where they are.                       *)
LEMMA OthersFacts ==
    ASSUME TypeOK, TypeOK', NEW t \in Thread, OthersSame(t),
           NEW u \in Thread, u # t
    PROVE  /\ Depth(u)' = Depth(u) /\ (Busy(u)' <=> Busy(u))
           /\ Busy(u) => Top(u)'.pc = Top(u).pc /\ Top(u)'.id = Top(u).id
           /\ \A i \in 1..Depth(u) : Same(frames'[u][i], frames[u][i])
<1>1. Depth(u)' = Depth(u) /\ \A i \in 1..Depth(u) : Same(frames'[u][i], frames[u][i])
  BY DEF OthersSame
<1>2. /\ Depth(u) \in Nat /\ (Busy(u) <=> Depth(u) > 0)
      /\ Top(u) = frames[u][Depth(u)]
  BY StackFacts
<1>3. frames'[u] \in Seq(Frames)
  BY DEF TypeOK
<1>4. (Busy(u)' <=> Depth(u)' > 0) /\ Top(u)' = frames'[u][Depth(u)']
  BY <1>3 DEF Busy, Depth, Top
<1>5. Busy(u) => Same(frames'[u][Depth(u)], frames[u][Depth(u)])
  BY <1>1, <1>2
<1>6. QED
  BY <1>1, <1>2, <1>4, <1>5 DEF Same

(* A step of one thread, that neither takes nor gives the mutex.           *)
LEMMA MoverKeeps ==
    ASSUME IInv, NEW t \in Thread, OthersSame(t), TypeOK', MapOwn', Counting',
           Depth(t)' <= MaxDepth, \A i \in 1..Depth(t)' : FrameOk(t, i)',
           mutex' = mutex, undefined' = undefined, resetShared' = resetShared,
           mutex # t, Busy(t)' => Top(t)'.pc # "recreate",
           \/ ~Busy(t)'
           \/ Top(t)'.pc = "check"
           \/ Busy(t) /\ Top(t).pc # "check"
           \/ mutex = NoThread,
           ~resetShared =>
             /\ \A i \in 1..Depth(t)' : frames'[t][i].func.state # "dead"
             /\ \A id \in Id : codeMap'[id].func.state # "dead"
    PROVE  IInv'
<1>1. TypeOK /\ Stacks /\ Locking /\ Alive
  BY DEF IInv
<1>2. ASSUME NEW u \in Thread, u # t
      PROVE  /\ Depth(u)' = Depth(u) /\ (Busy(u)' <=> Busy(u))
             /\ Busy(u) => Top(u)'.pc = Top(u).pc
             /\ \A i \in 1..Depth(u) : Same(frames'[u][i], frames[u][i])
  BY <1>1, <1>2, OthersFacts
<1>3. Stacks'
  <2>1. ASSUME NEW u \in Thread, u # t
        PROVE  Depth(u)' <= MaxDepth /\ \A i \in 1..Depth(u)' : FrameOk(u, i)'
    BY <1>1, <1>2, <2>1 DEF Stacks, FrameOk, Same
  <2>2. QED
    BY <2>1 DEF Stacks
<1>4. Locking'
  BY <1>1, <1>2 DEF Locking
<1>5. Alive'
  <2> SUFFICES ASSUME ~resetShared PROVE Alive'
    BY DEF Alive
  <2>1. undefined' \notin {"engine", "code"}
    BY <1>1 DEF Alive
  <2>2. \A u \in Thread : \A i \in 1..Depth(u)' :
          frames'[u][i].func.state # "dead"
    BY <1>1, <1>2 DEF Alive, Same
  <2>3. ASSUME NEW v \in Thread, NEW u \in Thread, mutex' = v, u # v, Busy(u)'
        PROVE  Top(u)'.pc = "check"
    <3>1. CASE u # t
      BY <1>1, <1>2, <2>3, <3>1 DEF Alive
    <3>2. CASE u = t
      <4>1. Busy(t) => Top(t).pc = "check"
        BY <1>1, <2>3, <3>2 DEF Alive
      <4>2. mutex # NoThread
        BY <2>3, ConstantFacts
      <4>3. QED
        BY <2>3, <3>2, <4>1, <4>2
    <3>3. QED
      BY <3>1, <3>2
  <2>4. QED
    BY <2>1, <2>2, <2>3 DEF Alive
<1>6. QED
  BY <1>3, <1>4, <1>5 DEF IInv

(* ... by which only the top frame of the thread changes.                  *)
LEMMA TopKeeps ==
    ASSUME IInv, NEW t \in Thread, Busy(t), Top(t).pc # "recreate",
           NEW new \in Frames,
           frames' = [frames EXCEPT ![t] = [frames[t] EXCEPT ![Depth(t)] = new]],
           TypeOK', MapOwn', Counting',
           mutex' = mutex, undefined' = undefined, resetShared' = resetShared,
           new.id = Top(t).id, new.pc # "recreate",
           new.pc \in {"check", "reset"} => Top(t).pc \in {"check", "reset"},
           new.pc \in {"map", "run"} <=> new.func # NoFunc,
           new.func.of \in {"none", new.id},
           Top(t).pc # "check" \/ mutex = NoThread,
           ~resetShared =>
             /\ new.func.state # "dead"
             /\ \A id \in Id : codeMap'[id].func.state # "dead"
    PROVE  IInv'
<1>1. TypeOK /\ Stacks /\ Locking /\ Alive
  BY DEF IInv
<1>2. /\ OthersSame(t) /\ frames' \in [Thread -> Seq(Frames)]
      /\ Depth(t)' = Depth(t) /\ Depth(t) > 0
      /\ \A i \in 1..Depth(t) : i # Depth(t) => frames'[t][i] = frames[t][i]
      /\ frames'[t][Depth(t)] = new
  BY <1>1, TopFacts
<1>3. /\ Depth(t) \in Nat /\ Depth(t) \in 1..Depth(t)
      /\ Top(t) = frames[t][Depth(t)]
  BY <1>1, StackFacts
<1>4. Top(t)' = new
  BY <1>2 DEF Top
<1>5. Depth(t)' <= MaxDepth
  BY <1>1, <1>2 DEF Stacks
<1>6. ASSUME NEW i \in 1..Depth(t)' PROVE FrameOk(t, i)'
  <2>1. i \in 1..Depth(t) /\ FrameOk(t, i) /\ FrameOk(t, Depth(t))
    BY <1>1, <1>2, <1>3 DEF Stacks
  <2>2. CASE i # Depth(t)
    BY <1>2, <2>1, <2>2 DEF FrameOk
  <2>3. CASE i = Depth(t)
    BY <1>2, <1>3, <2>1, <2>3 DEF FrameOk
  <2>4. QED
    BY <2>2, <2>3
<1>7. mutex # t
  BY <1>1 DEF Locking
<1>8. ~resetShared => \A i \in 1..Depth(t)' : frames'[t][i].func.state # "dead"
  BY <1>1, <1>2 DEF Alive
<1>9. QED
  BY <1>2, <1>4, <1>5, <1>6, <1>7, <1>8, MoverKeeps

(* ... by which the top frame of the thread ends.  The frame below may     *)
(* find data.                                                              *)
LEMMA PoppedKeeps ==
    ASSUME IInv, NEW t \in Thread, Busy(t), Top(t).pc \notin {"recreate", "check"},
           OthersSame(t), Depth(t)' = Depth(t) - 1,
           \A i \in 1..Depth(t) - 1 :
             /\ frames'[t][i].id = frames[t][i].id
             /\ frames'[t][i].pc = frames[t][i].pc
             /\ frames'[t][i].func = frames[t][i].func
             /\ i < Depth(t) - 1 => frames'[t][i].seesData = frames[t][i].seesData,
           TypeOK', MapOwn', Counting',
           mutex' = mutex, undefined' = undefined, resetShared' = resetShared,
           ~resetShared => \A id \in Id : codeMap'[id].func.state # "dead"
    PROVE  IInv'
<1>1. TypeOK /\ Stacks /\ Locking /\ Alive
  BY DEF IInv
<1>2. Depth(t) \in Nat /\ Depth(t) > 0 /\ Depth(t) <= MaxDepth
  BY <1>1, StackFacts DEF Stacks
<1>3. ASSUME NEW i \in 1..Depth(t)' PROVE FrameOk(t, i)'
  <2>1. i \in 1..Depth(t) - 1 /\ i \in 1..Depth(t) /\ FrameOk(t, i)
    BY <1>1, <1>2 DEF Stacks
  <2>2. QED
    BY <1>2, <2>1 DEF FrameOk
<1>4. frames'[t] \in Seq(Frames)
  BY DEF TypeOK
<1>5. Busy(t)' => Top(t)'.pc = "run"
  <2> SUFFICES ASSUME Busy(t)' PROVE Top(t)'.pc = "run"
    OBVIOUS
  <2>1. Depth(t)' > 0 /\ Top(t)' = frames'[t][Depth(t)']
    BY <1>4 DEF Busy, Depth, Top
  <2>2. Depth(t) - 1 \in 1..Depth(t) - 1 /\ Depth(t) - 1 \in 1..Depth(t)
    BY <1>2, <2>1
  <2>3. frames[t][Depth(t) - 1].pc = "run"
    BY <1>1, <1>2, <2>2 DEF Stacks, FrameOk
  <2>4. QED
    BY <2>1, <2>2, <2>3
<1>6. mutex # t
  BY <1>1 DEF Locking
<1>7. ~resetShared => \A i \in 1..Depth(t)' : frames'[t][i].func.state # "dead"
  <2>1. \A i \in 1..Depth(t)' : i \in 1..Depth(t) - 1 /\ i \in 1..Depth(t)
    BY <1>2
  <2>2. QED
    BY <1>1, <2>1 DEF Alive
<1>8. Depth(t)' <= MaxDepth
  BY <1>2, ConstantFacts
<1>9. QED
  BY <1>3, <1>5, <1>6, <1>7, <1>8, MoverKeeps

(* The step of the counter leaves the functions of the map alone.          *)
LEMMA CountedFacts ==
    ASSUME TypeOK, NEW t \in Thread, Counted(t)
    PROVE  /\ Busy(t) /\ Top(t).pc = "lookup" /\ mutex = NoThread
           /\ Top(t) \in Frames /\ Top(t).id \in Id
           /\ codeMap' \in [Id -> [func : Funcs, hits : Nat]]
           /\ \A id \in Id : /\ codeMap'[id].func = codeMap[id].func
                             /\ codeMap'[id].hits >= codeMap[id].hits
           /\ codeMap'[Top(t).id].hits = HitsOf(Top(t).id)
<1>1. /\ Busy(t) /\ Top(t).pc = "lookup" /\ mutex = NoThread
      /\ codeMap' = [codeMap EXCEPT ![Top(t).id].hits = @ + 1]
  BY DEF Counted, At, Busy
<1>2. Top(t) \in Frames /\ Top(t).id \in Id
  BY <1>1, StackFacts DEF Frames
<1>3. codeMap \in [Id -> [func : Funcs, hits : Nat]]
  BY DEF TypeOK
<1>4. QED
  BY <1>1, <1>2, <1>3 DEF HitsOf

LEMMA CheckMemoryKeeps ==
    ASSUME IInv, NEW t \in Thread, CheckMemory(t) PROVE IInv'
<1>1. TypeOK /\ MapOwn /\ Counting /\ Alive /\ Stacks
  BY DEF IInv
<1>2. PICK pc \in {"reset", "message"} : Goto(t, pc)
  BY DEF CheckMemory
<1>3. /\ Busy(t) /\ Top(t).pc = "check" /\ engine = "up"
      /\ UNCHANGED <<machine, undefined, history>>
  BY DEF CheckMemory, At, Busy
<1>4. Top(t) \in Frames /\ Top(t) = frames[t][Depth(t)]
      /\ Depth(t) \in 1..Depth(t)
  BY <1>1, <1>3, StackFacts
<1> DEFINE new == [Top(t) EXCEPT !.pc = pc]
<1>5. /\ new \in Frames /\ new.pc = pc /\ new.id = Top(t).id
      /\ new.func = Top(t).func
  BY <1>4 DEF Frames
<1>6. frames' = [frames EXCEPT ![t] = [frames[t] EXCEPT ![Depth(t)] = new]]
  BY <1>1, <1>2, <1>4 DEF Goto, TypeOK
<1> HIDE DEF new
<1>7. FrameOk(t, Depth(t))
  BY <1>1, <1>4 DEF Stacks
<1>8. TypeOK'
  BY <1>1, <1>3, <1>5, <1>6, TopFacts DEF TypeOK, machine, history
<1>9. MapOwn' /\ Counting'
  BY <1>1, <1>3 DEF MapOwn, Counting, machine, history
<1>10. mutex = NoThread
  BY <1>1, <1>3 DEF TypeOK
<1>11. new.func = NoFunc /\ new.func.of \in {"none", new.id}
  BY <1>3, <1>4, <1>5, <1>7 DEF FrameOk
<1>12. ~resetShared => \A id \in Id : codeMap'[id].func.state # "dead"
  BY <1>1, <1>3 DEF Alive, machine
<1>13. /\ mutex' = mutex /\ undefined' = undefined
       /\ resetShared' = resetShared
  BY <1>3 DEF machine, history
<1>14. QED
  BY <1>3, <1>5, <1>6, <1>8, <1>9, <1>10, <1>11, <1>12, <1>13,
     TopKeeps, ConstantFacts

LEMMA TakeMessageKeeps ==
    ASSUME IInv, NEW t \in Thread, TakeMessage(t) PROVE IInv'
<1>1. TypeOK /\ MapOwn /\ Counting /\ Alive /\ Stacks
  BY DEF IInv
<1>2. /\ Busy(t) /\ Top(t).pc = "message" /\ currentMsg' = Self(t)
      /\ UNCHANGED <<codeMap, mutex, engine, modules, returnBuffer,
                     hitThreshold, undefined, history>>
  BY DEF TakeMessage, At, Busy
<1>3. Top(t) \in Frames /\ Top(t) = frames[t][Depth(t)]
      /\ Depth(t) \in 1..Depth(t) /\ Depth(t) <= MaxDepth /\ Depth(t) \in Nat
  BY <1>1, <1>2, StackFacts DEF Stacks
<1> DEFINE new == [Top(t) EXCEPT !.prevMsg = currentMsg, !.pc = "lookup"]
<1>4. /\ new \in Frames /\ new.pc = "lookup" /\ new.id = Top(t).id
      /\ new.func = Top(t).func
  BY <1>1, <1>3 DEF Frames, TypeOK
<1>5. frames' = [frames EXCEPT ![t] = [frames[t] EXCEPT ![Depth(t)] = new]]
  BY <1>1, <1>3 DEF TakeMessage, TypeOK
<1> HIDE DEF new
<1>6. FrameOk(t, Depth(t))
  BY <1>1, <1>3 DEF Stacks
<1>7. currentMsg' \in Pointers
  BY <1>2, <1>3, PointerFacts, ConstantFacts DEF Self
<1>8. TypeOK'
  BY <1>1, <1>2, <1>4, <1>5, <1>7, TopFacts DEF TypeOK, history
<1>9. MapOwn' /\ Counting'
  BY <1>1, <1>2 DEF MapOwn, Counting, history
<1>10. new.func = NoFunc /\ new.func.of \in {"none", new.id}
  BY <1>2, <1>3, <1>4, <1>6 DEF FrameOk
<1>11. ~resetShared => \A id \in Id : codeMap'[id].func.state # "dead"
  BY <1>1, <1>2 DEF Alive
<1>12. /\ mutex' = mutex /\ undefined' = undefined
       /\ resetShared' = resetShared
  BY <1>2 DEF history
<1>13. QED
  BY <1>2, <1>4, <1>5, <1>8, <1>9, <1>10, <1>11, <1>12, TopKeeps, ConstantFacts

LEMMA LookUpFindsKeeps ==
    ASSUME IInv, NEW t \in Thread, LookUpFinds(t) PROVE IInv'
<1>1. TypeOK /\ MapOwn /\ Counting /\ Alive /\ Stacks
  BY DEF IInv
<1> DEFINE func == codeMap[Top(t).id].func
<1>2. /\ Counted(t) /\ func # NoFunc
      /\ UNCHANGED <<mutex, engine, modules, currentMsg, returnBuffer,
                     hitThreshold, undefined, history>>
  BY DEF LookUpFinds
<1>3. /\ Busy(t) /\ Top(t).pc = "lookup" /\ mutex = NoThread
      /\ Top(t) \in Frames /\ Top(t).id \in Id
      /\ codeMap' \in [Id -> [func : Funcs, hits : Nat]]
      /\ \A id \in Id : /\ codeMap'[id].func = codeMap[id].func
                        /\ codeMap'[id].hits >= codeMap[id].hits
  BY <1>1, <1>2, CountedFacts
<1>4. Top(t) = frames[t][Depth(t)] /\ Depth(t) \in 1..Depth(t)
  BY <1>1, <1>3, StackFacts
<1>5. func \in Funcs /\ func.of \in {"none", Top(t).id}
      /\ (~resetShared => func.state # "dead")
  BY <1>1, <1>3 DEF TypeOK, MapOwn, Alive
<1> DEFINE new == [Top(t) EXCEPT !.func = func, !.pc = "run"]
<1>6. frames' = [frames EXCEPT ![t] = [frames[t] EXCEPT ![Depth(t)] = new]]
  BY <1>1, <1>4 DEF LookUpFinds, TypeOK
<1> HIDE DEF func
<1>7. /\ new \in Frames /\ new.pc = "run" /\ new.id = Top(t).id
      /\ new.func = func
  BY <1>3, <1>5 DEF Frames
<1> HIDE DEF new
<1>8. TypeOK'
  BY <1>1, <1>2, <1>3, <1>6, <1>7, TopFacts DEF TypeOK, history
<1>9. MapOwn' /\ Counting'
  <2>1. MapOwn'
    BY <1>1, <1>3 DEF MapOwn
  <2>2. rejected' = rejected /\ hitThreshold' = hitThreshold
    BY <1>2 DEF history
  <2>3. Counting'
    BY <1>1, <1>3, <2>2 DEF Counting, TypeOK
  <2>4. QED
    BY <2>1, <2>3
<1>10. ~resetShared => \A id \in Id : codeMap'[id].func.state # "dead"
  BY <1>1, <1>3 DEF Alive
<1>11. /\ mutex' = mutex /\ undefined' = undefined
       /\ resetShared' = resetShared
  BY <1>2 DEF history
<1>12. QED
  BY <1>2, <1>3, <1>5, <1>6, <1>7, <1>8, <1>9, <1>10, <1>11, TopKeeps,
     ConstantFacts

LEMMA LookUpMissesKeeps ==
    ASSUME IInv, NEW t \in Thread, LookUpMisses(t) PROVE IInv'
<1>1. TypeOK /\ MapOwn /\ Counting /\ Alive /\ Stacks
  BY DEF IInv
<1>2. /\ Counted(t) /\ Goto(t, "compile")
      /\ UNCHANGED <<mutex, engine, modules, currentMsg, returnBuffer,
                     hitThreshold, undefined, history>>
  BY DEF LookUpMisses
<1>3. /\ Busy(t) /\ Top(t).pc = "lookup" /\ mutex = NoThread
      /\ Top(t) \in Frames /\ Top(t).id \in Id
      /\ codeMap' \in [Id -> [func : Funcs, hits : Nat]]
      /\ \A id \in Id : /\ codeMap'[id].func = codeMap[id].func
                        /\ codeMap'[id].hits >= codeMap[id].hits
  BY <1>1, <1>2, CountedFacts
<1>4. Top(t) = frames[t][Depth(t)] /\ Depth(t) \in 1..Depth(t)
  BY <1>1, <1>3, StackFacts
<1> DEFINE new == [Top(t) EXCEPT !.pc = "compile"]
<1>5. /\ new \in Frames /\ new.pc = "compile" /\ new.id = Top(t).id
      /\ new.func = Top(t).func
  BY <1>3 DEF Frames
<1>6. frames' = [frames EXCEPT ![t] = [frames[t] EXCEPT ![Depth(t)] = new]]
  BY <1>1, <1>2, <1>4 DEF Goto, TypeOK
<1> HIDE DEF new
<1>7. FrameOk(t, Depth(t))
  BY <1>1, <1>4 DEF Stacks
<1>8. TypeOK'
  BY <1>1, <1>2, <1>3, <1>5, <1>6, TopFacts DEF TypeOK, history
<1>9. MapOwn' /\ Counting'
  <2>1. MapOwn'
    BY <1>1, <1>3 DEF MapOwn
  <2>2. rejected' = rejected /\ hitThreshold' = hitThreshold
    BY <1>2 DEF history
  <2>3. Counting'
    BY <1>1, <1>3, <2>2 DEF Counting, TypeOK
  <2>4. QED
    BY <2>1, <2>3
<1>10. new.func = NoFunc /\ new.func.of \in {"none", new.id}
  BY <1>3, <1>4, <1>5, <1>7 DEF FrameOk
<1>11. ~resetShared => \A id \in Id : codeMap'[id].func.state # "dead"
  BY <1>1, <1>3 DEF Alive
<1>12. /\ mutex' = mutex /\ undefined' = undefined
       /\ resetShared' = resetShared
  BY <1>2 DEF history
<1>13. QED
  BY <1>3, <1>5, <1>6, <1>8, <1>9, <1>10, <1>11, <1>12, TopKeeps, ConstantFacts

LEMMA CompileBeginsKeeps ==
    ASSUME IInv, NEW t \in Thread, CompileBegins(t) PROVE IInv'
<1>1. TypeOK /\ MapOwn /\ Counting /\ Alive /\ Stacks
  BY DEF IInv
<1>2. /\ Busy(t) /\ Top(t).pc = "compile" /\ Goto(t, "compiling")
      /\ UNCHANGED <<machine, undefined, history>>
  BY DEF CompileBegins, At, Busy
<1>3. Top(t) \in Frames /\ Top(t) = frames[t][Depth(t)]
      /\ Depth(t) \in 1..Depth(t)
  BY <1>1, <1>2, StackFacts
<1> DEFINE new == [Top(t) EXCEPT !.pc = "compiling"]
<1>4. /\ new \in Frames /\ new.pc = "compiling" /\ new.id = Top(t).id
      /\ new.func = Top(t).func
  BY <1>3 DEF Frames
<1>5. frames' = [frames EXCEPT ![t] = [frames[t] EXCEPT ![Depth(t)] = new]]
  BY <1>1, <1>2, <1>3 DEF Goto, TypeOK
<1> HIDE DEF new
<1>6. FrameOk(t, Depth(t))
  BY <1>1, <1>3 DEF Stacks
<1>7. TypeOK'
  BY <1>1, <1>2, <1>4, <1>5, TopFacts DEF TypeOK, machine, history
<1>8. MapOwn' /\ Counting'
  BY <1>1, <1>2 DEF MapOwn, Counting, machine, history
<1>9. new.func = NoFunc /\ new.func.of \in {"none", new.id}
  BY <1>2, <1>3, <1>4, <1>6 DEF FrameOk
<1>10. ~resetShared => \A id \in Id : codeMap'[id].func.state # "dead"
  BY <1>1, <1>2 DEF Alive, machine
<1>11. /\ mutex' = mutex /\ undefined' = undefined
       /\ resetShared' = resetShared
  BY <1>2 DEF machine, history
<1>12. QED
  BY <1>2, <1>4, <1>5, <1>7, <1>8, <1>9, <1>10, <1>11, TopKeeps, ConstantFacts

(* The function of a compiler that met no reset is of the engine that is.  *)
LEMMA CompileEndsKeeps ==
    ASSUME IInv, NEW t \in Thread, CompileEnds(t) PROVE IInv'
<1>1. TypeOK /\ MapOwn /\ Counting /\ Alive /\ Stacks
  BY DEF IInv
<1> DEFINE func == Live(Top(t).id)
<1>2. /\ Busy(t) /\ Top(t).pc = "compiling"
      /\ modules' = [modules EXCEPT ![Top(t).id] = @ + 1]
      /\ UNCHANGED <<codeMap, mutex, engine, currentMsg, returnBuffer,
                     hitThreshold, undefined, history>>
  BY DEF CompileEnds, At, Busy
<1>3. Top(t) \in Frames /\ Top(t) = frames[t][Depth(t)] /\ Top(t).id \in Id
      /\ Depth(t) \in 1..Depth(t)
  BY <1>1, <1>2, StackFacts DEF Frames
<1> DEFINE new == [Top(t) EXCEPT !.func = func, !.pc = "map"]
<1>4. frames' = [frames EXCEPT ![t] = [frames[t] EXCEPT ![Depth(t)] = new]]
  BY <1>1, <1>3 DEF CompileEnds, TypeOK
<1>5. /\ func \in Funcs /\ func # NoFunc /\ func.of = Top(t).id
      /\ func.state = "live"
  BY <1>3, FuncFacts
<1> HIDE DEF func
<1>6. /\ new \in Frames /\ new.pc = "map" /\ new.id = Top(t).id
      /\ new.func = func
  BY <1>3, <1>5 DEF Frames
<1> HIDE DEF new
<1>7. modules' \in [Id -> Nat]
  BY <1>1, <1>2, <1>3 DEF TypeOK
<1>8. TypeOK'
  BY <1>1, <1>2, <1>4, <1>6, <1>7, TopFacts DEF TypeOK, history
<1>9. MapOwn' /\ Counting'
  BY <1>1, <1>2 DEF MapOwn, Counting, history
<1>10. ~resetShared => \A id \in Id : codeMap'[id].func.state # "dead"
  BY <1>1, <1>2 DEF Alive
<1>11. /\ mutex' = mutex /\ undefined' = undefined
       /\ resetShared' = resetShared
  BY <1>2 DEF history
<1>12. QED
  BY <1>2, <1>4, <1>5, <1>6, <1>8, <1>9, <1>10, <1>11, TopKeeps, ConstantFacts

LEMMA MapKeeps ==
    ASSUME IInv, NEW t \in Thread, Map(t) PROVE IInv'
<1>1. TypeOK /\ MapOwn /\ Counting /\ Alive /\ Stacks
  BY DEF IInv
<1>2. /\ Busy(t) /\ Top(t).pc = "map" /\ Goto(t, "run")
      /\ codeMap' = [codeMap EXCEPT ![Top(t).id].func = Top(t).func]
      /\ UNCHANGED <<mutex, engine, modules, currentMsg, returnBuffer,
                     hitThreshold, undefined, history>>
  BY DEF Map, At, Busy
<1>3. Top(t) \in Frames /\ Top(t) = frames[t][Depth(t)]
      /\ Top(t).id \in Id /\ Top(t).func \in Funcs
      /\ Depth(t) \in 1..Depth(t)
  BY <1>1, <1>2, StackFacts DEF Frames
<1> DEFINE new == [Top(t) EXCEPT !.pc = "run"]
<1>4. /\ new \in Frames /\ new.pc = "run" /\ new.id = Top(t).id
      /\ new.func = Top(t).func
  BY <1>3 DEF Frames
<1>5. frames' = [frames EXCEPT ![t] = [frames[t] EXCEPT ![Depth(t)] = new]]
  BY <1>1, <1>2, <1>3 DEF Goto, TypeOK
<1> HIDE DEF new
<1>6. FrameOk(t, Depth(t))
  BY <1>1, <1>3 DEF Stacks
<1>7. /\ Top(t).func # NoFunc /\ Top(t).func.of \in {"none", Top(t).id}
      /\ ~resetShared => Top(t).func.state # "dead"
  BY <1>1, <1>2, <1>3, <1>6 DEF FrameOk, Alive
<1>8. /\ codeMap' \in [Id -> [func : Funcs, hits : Nat]]
      /\ codeMap'[Top(t).id].func = Top(t).func
      /\ \A id \in Id : /\ codeMap'[id].hits = codeMap[id].hits
                        /\ id # Top(t).id => codeMap'[id] = codeMap[id]
  BY <1>1, <1>2, <1>3 DEF TypeOK
<1>9. TypeOK'
  BY <1>1, <1>2, <1>4, <1>5, <1>8, TopFacts DEF TypeOK, history
<1>10. MapOwn'
  BY <1>1, <1>7, <1>8 DEF MapOwn
<1>11. Counting'
  BY <1>1, <1>2, <1>8 DEF Counting, history
<1>12. ~resetShared => \A id \in Id : codeMap'[id].func.state # "dead"
  BY <1>1, <1>7, <1>8 DEF Alive
<1>13. /\ mutex' = mutex /\ undefined' = undefined
       /\ resetShared' = resetShared
  BY <1>2 DEF history
<1>14. QED
  BY <1>2, <1>4, <1>5, <1>7, <1>9, <1>10, <1>11, <1>12, <1>13, TopKeeps,
     ConstantFacts

(* A frame that ends, as the lemma above needs it.                         *)
LEMMA EndedFacts ==
    ASSUME TypeOK, NEW t \in Thread, Busy(t), frames' = Popped(t)
    PROVE  /\ frames' \in [Thread -> Seq(Frames)]
           /\ OthersSame(t) /\ Depth(t)' = Depth(t) - 1
           /\ \A i \in 1..Depth(t) - 1 : Same(frames'[t][i], frames[t][i])
<1>1. /\ Popped(t) \in [Thread -> Seq(Frames)]
      /\ Len(Popped(t)[t]) = Depth(t) - 1
      /\ \A u \in Thread : u # t => Len(Popped(t)[u]) = Depth(u)
      /\ \A u \in Thread : \A i \in 1..Len(Popped(t)[u]) :
           Same(Popped(t)[u][i], frames[u][i])
  BY PoppedFacts
<1>2. Depth(t)' = Depth(t) - 1 /\ \A u \in Thread : u # t => Depth(u)' = Depth(u)
  BY <1>1 DEF Depth
<1>3. QED
  BY <1>1, <1>2 DEF OthersSame

LEMMA LookUpRejectsKeeps ==
    ASSUME IInv, NEW t \in Thread, LookUpRejects(t) PROVE IInv'
<1>1. TypeOK /\ MapOwn /\ Counting /\ Alive
  BY DEF IInv
<1> DEFINE id == Top(t).id
<1>2. /\ Counted(t) /\ HitsOf(id) <= hitThreshold /\ frames' = Popped(t)
      /\ currentMsg' = Freed(t, currentMsg)
      /\ rejected' = [rejected EXCEPT ![id] = @ + 1] /\ refused' = TRUE
      /\ UNCHANGED <<mutex, engine, modules, returnBuffer, hitThreshold,
                     undefined, begun, shared, resetShared, failed>>
  BY DEF LookUpRejects
<1>3. /\ Busy(t) /\ Top(t).pc = "lookup" /\ id \in Id
      /\ codeMap' \in [Id -> [func : Funcs, hits : Nat]]
      /\ \A i \in Id : /\ codeMap'[i].func = codeMap[i].func
                       /\ codeMap'[i].hits >= codeMap[i].hits
      /\ codeMap'[id].hits = HitsOf(id)
  BY <1>1, <1>2, CountedFacts
<1> HIDE DEF id
<1>4. /\ frames' \in [Thread -> Seq(Frames)]
      /\ OthersSame(t) /\ Depth(t)' = Depth(t) - 1
      /\ \A i \in 1..Depth(t) - 1 : Same(frames'[t][i], frames[t][i])
  BY <1>1, <1>2, <1>3, EndedFacts
<1>5. rejected' \in [Id -> Nat] /\ currentMsg' \in Pointers
  BY <1>1, <1>2, <1>3, FreedFacts DEF TypeOK
<1>6. TypeOK'
  BY <1>1, <1>2, <1>3, <1>4, <1>5 DEF TypeOK
<1>7. MapOwn'
  BY <1>1, <1>3 DEF MapOwn
<1>8. Counting'
  <2>1. hitThreshold \in Nat
    BY <1>1, ConstantFacts DEF TypeOK
  <2>2. rejected \in [Id -> Nat]
        /\ \A i \in Id : codeMap[i].hits \in Nat /\ codeMap'[i].hits \in Nat
    BY <1>1, <1>3 DEF TypeOK
  <2>3. ASSUME NEW i \in Id
        PROVE  rejected'[i] <= codeMap'[i].hits /\ rejected'[i] <= hitThreshold
    <3>1. /\ rejected[i] <= codeMap[i].hits /\ rejected[i] <= hitThreshold
          /\ rejected[i] \in Nat
      BY <1>1, <2>2 DEF Counting
    <3>2. CASE i = id
      <4>1. rejected'[i] = rejected[i] + 1
        BY <1>2, <2>2, <3>2
      <4>2. /\ codeMap'[i].hits = codeMap[i].hits + 1
            /\ codeMap[i].hits + 1 <= hitThreshold
        BY <1>2, <1>3, <3>2 DEF HitsOf
      <4>3. QED
        BY <2>1, <2>2, <3>1, <4>1, <4>2
    <3>3. CASE i # id
      <4>1. rejected'[i] = rejected[i] /\ codeMap'[i].hits >= codeMap[i].hits
        BY <1>2, <1>3, <2>2, <3>3
      <4>2. QED
        BY <2>2, <3>1, <4>1
    <3>4. QED
      BY <3>2, <3>3
  <2>4. QED
    BY <1>2, <2>3 DEF Counting
<1>9. ~resetShared => \A i \in Id : codeMap'[i].func.state # "dead"
  BY <1>1, <1>3 DEF Alive
<1>10. /\ mutex' = mutex /\ undefined' = undefined
       /\ resetShared' = resetShared
  BY <1>2
<1>11. QED
  BY <1>3, <1>4, <1>6, <1>7, <1>8, <1>9, <1>10, PoppedKeeps DEF Same

LEMMA CompileFailsKeeps ==
    ASSUME IInv, NEW t \in Thread, CompileFails(t) PROVE IInv'
<1>1. TypeOK /\ MapOwn /\ Counting /\ Alive
  BY DEF IInv
<1>2. /\ Busy(t) /\ Top(t).pc = "compiling" /\ frames' = Popped(t)
      /\ modules' = [modules EXCEPT ![Top(t).id] = @ + 1]
      /\ currentMsg' = Freed(t, currentMsg) /\ refused' = TRUE /\ failed' = TRUE
      /\ UNCHANGED <<codeMap, mutex, engine, returnBuffer, hitThreshold,
                     undefined, begun, rejected, shared, resetShared>>
  BY DEF CompileFails, At, Busy
<1>3. Top(t).id \in Id
  BY <1>1, <1>2, StackFacts DEF Frames
<1>4. /\ frames' \in [Thread -> Seq(Frames)]
      /\ OthersSame(t) /\ Depth(t)' = Depth(t) - 1
      /\ \A i \in 1..Depth(t) - 1 : Same(frames'[t][i], frames[t][i])
  BY <1>1, <1>2, EndedFacts
<1>5. modules' \in [Id -> Nat] /\ currentMsg' \in Pointers
  BY <1>1, <1>2, <1>3, FreedFacts DEF TypeOK
<1>6. TypeOK'
  BY <1>1, <1>2, <1>4, <1>5 DEF TypeOK
<1>7. MapOwn' /\ Counting'
  BY <1>1, <1>2 DEF MapOwn, Counting
<1>8. ~resetShared => \A i \in Id : codeMap'[i].func.state # "dead"
  BY <1>1, <1>2 DEF Alive
<1>9. QED
  BY <1>2, <1>4, <1>6, <1>7, <1>8, PoppedKeeps DEF Same

(* A frame returns, and call() gives data to the frame below.              *)
LEMMA ReturnedFacts ==
    ASSUME TypeOK, NEW t \in Thread, Return(t)
    PROVE  /\ frames' \in [Thread -> Seq(Frames)]
           /\ OthersSame(t) /\ Depth(t)' = Depth(t) - 1
           /\ \A i \in 1..Depth(t) - 1 :
                /\ frames'[t][i].id = frames[t][i].id
                /\ frames'[t][i].pc = frames[t][i].pc
                /\ frames'[t][i].func = frames[t][i].func
                /\ i < Depth(t) - 1 =>
                     frames'[t][i].seesData = frames[t][i].seesData
                /\ frames'[t][i].prevMsg = Freed(t, frames[t][i].prevMsg)
<1> DEFINE rest == Popped(t)
<1>1. Busy(t) /\ frames' = IF Depth(t) = 1 THEN rest
                           ELSE [rest EXCEPT ![t][Depth(t) - 1].seesData = TRUE]
  BY DEF Return, Running, At, Busy
<1>2. /\ rest \in [Thread -> Seq(Frames)]
      /\ Len(rest[t]) = Depth(t) - 1
      /\ \A u \in Thread : u # t => Len(rest[u]) = Depth(u)
      /\ \A u \in Thread : \A i \in 1..Len(rest[u]) :
           /\ Same(rest[u][i], frames[u][i])
           /\ rest[u][i].prevMsg = Freed(t, frames[u][i].prevMsg)
  BY <1>1, PoppedFacts
<1>3. Depth(t) \in Nat /\ Depth(t) > 0
  BY <1>1, StackFacts
<1> HIDE DEF rest
<1>4. CASE Depth(t) = 1
  <2>1. frames' = rest
    BY <1>1, <1>4
  <2>2. Depth(t)' = Depth(t) - 1
        /\ \A u \in Thread : u # t => Depth(u)' = Depth(u)
    BY <1>2, <2>1 DEF Depth
  <2>3. OthersSame(t)
    BY <1>2, <2>1, <2>2 DEF OthersSame
  <2>4. \A i \in 1..Depth(t) - 1 : FALSE
    BY <1>4
  <2>5. QED
    BY <1>2, <2>1, <2>2, <2>3, <2>4
<1>5. CASE Depth(t) # 1
  <2> DEFINE d == Depth(t) - 1
  <2> DEFINE new == [rest[t][d] EXCEPT !.seesData = TRUE]
  <2>1. d \in Nat /\ d \in 1..d /\ Len(rest[t]) = d /\ rest[t] \in Seq(Frames)
    BY <1>2, <1>3, <1>5
  <2> HIDE DEF d
  <2>2. rest[t][d] \in Frames
    BY <2>1
  <2>3. /\ new \in Frames
        /\ new.id = rest[t][d].id /\ new.pc = rest[t][d].pc
        /\ new.func = rest[t][d].func /\ new.prevMsg = rest[t][d].prevMsg
    BY <2>2 DEF Frames
  <2>4. frames' = [rest EXCEPT ![t] = [rest[t] EXCEPT ![d] = new]]
    BY <1>1, <1>2, <1>5, <2>1 DEF d
  <2> HIDE DEF new
  <2> DEFINE stack == [rest[t] EXCEPT ![d] = new]
  <2>5. /\ stack \in Seq(Frames) /\ Len(stack) = d /\ stack[d] = new
        /\ \A i \in 1..d : i # d => stack[i] = rest[t][i]
    BY <2>1, <2>3
  <2> HIDE DEF stack
  <2>6. /\ frames' \in [Thread -> Seq(Frames)] /\ frames'[t] = stack
        /\ \A u \in Thread : u # t => frames'[u] = rest[u]
    BY <1>2, <2>4, <2>5 DEF stack
  <2>7. Depth(t)' = d /\ \A u \in Thread : u # t => Depth(u)' = Depth(u)
    BY <1>2, <2>5, <2>6 DEF Depth
  <2>8. OthersSame(t)
    BY <1>2, <2>6, <2>7 DEF OthersSame
  <2>9. \A i \in 1..d :
          /\ frames'[t][i].id = frames[t][i].id
          /\ frames'[t][i].pc = frames[t][i].pc
          /\ frames'[t][i].func = frames[t][i].func
          /\ i < d => frames'[t][i].seesData = frames[t][i].seesData
          /\ frames'[t][i].prevMsg = Freed(t, frames[t][i].prevMsg)
    <3> TAKE i \in 1..d
    <3>1. /\ Same(rest[t][i], frames[t][i])
          /\ rest[t][i].prevMsg = Freed(t, frames[t][i].prevMsg)
      BY <1>2, <2>1
    <3>2. CASE i = d
      BY <2>1, <2>3, <2>5, <2>6, <3>1, <3>2 DEF Same
    <3>3. CASE i # d
      BY <2>5, <2>6, <3>1, <3>3 DEF Same
    <3>4. QED
      BY <3>2, <3>3
  <2>10. QED
    BY <2>6, <2>7, <2>8, <2>9 DEF d
<1>6. QED
  BY <1>4, <1>5

LEMMA ReturnKeeps ==
    ASSUME IInv, NEW t \in Thread, Return(t) PROVE IInv'
<1>1. TypeOK /\ MapOwn /\ Counting /\ Alive /\ Stacks
  BY DEF IInv
<1>2. /\ Busy(t) /\ Top(t).pc = "run"
      /\ returnBuffer' = IF Depth(t) = 1 THEN Freed(t, returnBuffer)
                         ELSE <<t, Depth(t) - 1>>
      /\ currentMsg' = Freed(t, Top(t).prevMsg)
      /\ UNCHANGED <<codeMap, mutex, engine, modules, hitThreshold,
                     undefined, history>>
  BY DEF Return, Running, At, Busy
<1>3. /\ frames' \in [Thread -> Seq(Frames)]
      /\ OthersSame(t) /\ Depth(t)' = Depth(t) - 1
      /\ \A i \in 1..Depth(t) - 1 :
           /\ frames'[t][i].id = frames[t][i].id
           /\ frames'[t][i].pc = frames[t][i].pc
           /\ frames'[t][i].func = frames[t][i].func
           /\ i < Depth(t) - 1 => frames'[t][i].seesData = frames[t][i].seesData
  BY <1>1, ReturnedFacts
<1>4. /\ Depth(t) \in Nat /\ Depth(t) > 0 /\ Depth(t) <= MaxDepth
      /\ Top(t).prevMsg \in Pointers
  BY <1>1, <1>2, StackFacts DEF Frames, Stacks
<1>5. currentMsg' \in Pointers
  BY <1>1, <1>2, <1>4, FreedFacts
<1>6. returnBuffer' \in Pointers
  <2>1. CASE Depth(t) = 1
    BY <1>1, <1>2, <2>1, FreedFacts DEF TypeOK
  <2>2. CASE Depth(t) # 1
    <3>1. Depth(t) - 1 \in 1..MaxDepth
      BY <1>4, <2>2, ConstantFacts
    <3>2. QED
      BY <1>2, <2>2, <3>1, PointerFacts
  <2>3. QED
    BY <2>1, <2>2
<1>7. TypeOK'
  BY <1>1, <1>2, <1>3, <1>5, <1>6 DEF TypeOK, history
<1>8. MapOwn' /\ Counting'
  BY <1>1, <1>2 DEF MapOwn, Counting, history
<1>9. ~resetShared => \A i \in Id : codeMap'[i].func.state # "dead"
  BY <1>1, <1>2 DEF Alive
<1>10. /\ mutex' = mutex /\ undefined' = undefined
       /\ resetShared' = resetShared
  BY <1>2 DEF history
<1>11. QED
  BY <1>2, <1>3, <1>7, <1>8, <1>9, <1>10, PoppedKeeps

(* A frame calls.                                                          *)
LEMMA CalledFacts ==
    ASSUME TypeOK, NEW t \in Thread, NEW id \in Id, Call(t, id)
    PROVE  /\ frames' \in [Thread -> Seq(Frames)]
           /\ \A u \in Thread : u # t => frames'[u] = frames[u]
           /\ OthersSame(t) /\ Depth(t)' = Depth(t) + 1
           /\ \A i \in 1..Depth(t) :
                /\ frames'[t][i].id = frames[t][i].id
                /\ frames'[t][i].pc = frames[t][i].pc
                /\ frames'[t][i].func = frames[t][i].func
                /\ frames'[t][i].prevMsg = frames[t][i].prevMsg
                /\ i < Depth(t) => frames'[t][i].seesData = frames[t][i].seesData
           /\ ~frames'[t][Depth(t)].seesData
           /\ frames'[t][Depth(t) + 1] = NewFrame(id, "message")
<1>1. Busy(t) /\ frames \in [Thread -> Seq(Frames)]
  BY DEF Call, Running, At, Busy, TypeOK
<1>2. /\ Depth(t) \in Nat /\ Depth(t) \in 1..Depth(t)
      /\ frames[t] \in Seq(Frames) /\ Len(frames[t]) = Depth(t)
      /\ frames[t][Depth(t)] \in Frames
  BY <1>1, StackFacts DEF Depth
<1> DEFINE old == [frames[t][Depth(t)] EXCEPT !.called = TRUE,
                                              !.seesData = FALSE]
<1> DEFINE stack == [frames[t] EXCEPT ![Depth(t)] = old]
<1> DEFINE new == NewFrame(id, "message")
<1>3. [frames[t] EXCEPT ![Depth(t)].called = TRUE,
                        ![Depth(t)].seesData = FALSE] = stack
  BY <1>2
<1>4. frames' = [frames EXCEPT ![t] = Append(stack, new)]
  BY <1>1, <1>3 DEF Call
<1>5. /\ old \in Frames /\ ~old.seesData
      /\ old.id = frames[t][Depth(t)].id /\ old.pc = frames[t][Depth(t)].pc
      /\ old.func = frames[t][Depth(t)].func
      /\ old.prevMsg = frames[t][Depth(t)].prevMsg
  BY <1>2 DEF Frames
<1> HIDE DEF old
<1>6. /\ stack \in Seq(Frames) /\ Len(stack) = Depth(t)
      /\ stack[Depth(t)] = old
      /\ \A i \in 1..Depth(t) : i # Depth(t) => stack[i] = frames[t][i]
  BY <1>2, <1>5
<1> HIDE DEF stack
<1>7. new \in Frames
  BY NewFrameFacts
<1> HIDE DEF new
<1>8. /\ Append(stack, new) \in Seq(Frames)
      /\ Len(Append(stack, new)) = Depth(t) + 1
      /\ Append(stack, new)[Depth(t) + 1] = new
      /\ \A i \in 1..Depth(t) : Append(stack, new)[i] = stack[i]
  BY <1>2, <1>6, <1>7
<1>9. /\ frames' \in [Thread -> Seq(Frames)] /\ frames'[t] = Append(stack, new)
      /\ \A u \in Thread : u # t => frames'[u] = frames[u]
  BY <1>1, <1>4, <1>8
<1>10. Depth(t)' = Depth(t) + 1
  BY <1>8, <1>9 DEF Depth
<1>11. OthersSame(t)
  BY <1>9 DEF OthersSame, Same, Depth
<1>12. ASSUME NEW i \in 1..Depth(t)
       PROVE  /\ frames'[t][i].id = frames[t][i].id
              /\ frames'[t][i].pc = frames[t][i].pc
              /\ frames'[t][i].func = frames[t][i].func
              /\ frames'[t][i].prevMsg = frames[t][i].prevMsg
              /\ i < Depth(t) => frames'[t][i].seesData = frames[t][i].seesData
  <2>1. frames'[t][i] = IF i = Depth(t) THEN old ELSE frames[t][i]
    BY <1>6, <1>8, <1>9
  <2>2. QED
    BY <1>2, <1>5, <2>1
<1>13. frames'[t][Depth(t)] = old /\ frames'[t][Depth(t) + 1] = new
  BY <1>2, <1>6, <1>8, <1>9
<1>14. QED
  BY <1>5, <1>9, <1>10, <1>11, <1>12, <1>13 DEF new

LEMMA CallKeeps ==
    ASSUME IInv, NEW t \in Thread, NEW id \in Id, Call(t, id) PROVE IInv'
<1>1. TypeOK /\ MapOwn /\ Counting /\ Alive /\ Stacks /\ Locking
  BY DEF IInv
<1>2. /\ Busy(t) /\ Top(t).pc = "run" /\ Depth(t) < MaxDepth
      /\ UNCHANGED <<machine, undefined, history>>
  BY DEF Call, Running, At, Busy
<1>3. /\ frames' \in [Thread -> Seq(Frames)]
      /\ OthersSame(t) /\ Depth(t)' = Depth(t) + 1
      /\ \A i \in 1..Depth(t) :
           /\ frames'[t][i].id = frames[t][i].id
           /\ frames'[t][i].pc = frames[t][i].pc
           /\ frames'[t][i].func = frames[t][i].func
           /\ i < Depth(t) => frames'[t][i].seesData = frames[t][i].seesData
      /\ ~frames'[t][Depth(t)].seesData
      /\ frames'[t][Depth(t) + 1] = NewFrame(id, "message")
  BY <1>1, CalledFacts
<1> DEFINE new == NewFrame(id, "message")
<1>4. /\ new.id = id /\ new.pc = "message" /\ new.func = NoFunc
      /\ new.seesData = FALSE
  BY NewFrameFacts
<1>5. frames'[t][Depth(t) + 1] = new
  BY <1>3
<1> HIDE DEF new
<1>6. /\ Depth(t) \in Nat /\ Depth(t) \in 1..Depth(t)
      /\ Top(t) = frames[t][Depth(t)]
  BY <1>1, <1>2, StackFacts
<1>7. TypeOK'
  BY <1>1, <1>2, <1>3 DEF TypeOK, machine, history
<1>8. MapOwn' /\ Counting'
  BY <1>1, <1>2 DEF MapOwn, Counting, machine, history
<1>9. Depth(t)' <= MaxDepth
  BY <1>2, <1>3, <1>6, ConstantFacts
<1>10. ASSUME NEW i \in 1..Depth(t)' PROVE FrameOk(t, i)'
  <2>1. CASE i = Depth(t) + 1
    BY <1>3, <1>4, <1>5, <1>6, <2>1, ConstantFacts DEF FrameOk
  <2>2. CASE i = Depth(t)
    <3>1. FrameOk(t, i)
      BY <1>1, <1>6, <2>2 DEF Stacks
    <3>2. QED
      BY <1>2, <1>3, <1>6, <2>2, <3>1 DEF FrameOk
  <2>3. CASE i < Depth(t)
    <3>1. i \in 1..Depth(t) /\ FrameOk(t, i)
      BY <1>1, <1>3, <1>6, <2>3 DEF Stacks
    <3>2. QED
      BY <1>3, <1>6, <2>3, <3>1 DEF FrameOk
  <2>4. QED
    BY <1>3, <1>6, <2>1, <2>2, <2>3
<1>11. Top(t)'.pc = "message"
  <2>1. Top(t)' = new
    BY <1>3, <1>5 DEF Top
  <2>2. QED
    BY <1>4, <2>1
<1>12. mutex # t
  BY <1>1, <1>2 DEF Locking
<1>13. ~resetShared =>
         /\ \A i \in 1..Depth(t)' : frames'[t][i].func.state # "dead"
         /\ \A i \in Id : codeMap'[i].func.state # "dead"
  <2>1. \A i \in 1..Depth(t)' : i = Depth(t) + 1 \/ i \in 1..Depth(t)
    BY <1>3, <1>6
  <2>2. codeMap' = codeMap
    BY <1>2 DEF machine
  <2>3. ~resetShared =>
          /\ \A i \in 1..Depth(t) : frames[t][i].func.state # "dead"
          /\ \A i \in Id : codeMap[i].func.state # "dead"
    BY <1>1, ConstantFacts DEF Alive
  <2>4. frames'[t][Depth(t) + 1].func.state # "dead"
    BY <1>4, <1>5, ConstantFacts
  <2>5. \A i \in 1..Depth(t) :
          frames'[t][i].func.state = frames[t][i].func.state
    BY <1>3
  <2>6. QED
    BY <2>1, <2>2, <2>3, <2>4, <2>5
<1>14. /\ mutex' = mutex /\ undefined' = undefined
       /\ resetShared' = resetShared
  BY <1>2 DEF machine, history
<1>15. QED
  BY <1>2, <1>3, <1>7, <1>8, <1>9, <1>10, <1>11, <1>12, <1>13, <1>14, MoverKeeps

(* The replacement of the engine kills every function that a frame holds.  *)
LEMMA ResetFacts ==
    ASSUME TypeOK, NEW t \in Thread, Reset(t)
    PROVE  /\ frames' \in [Thread -> Seq(Frames)]
           /\ \A u \in Thread : Depth(u)' = Depth(u)
           /\ \A u \in Thread : \A i \in 1..Depth(u) :
                /\ frames'[u][i].id = frames[u][i].id
                /\ frames'[u][i].func = Killed(frames[u][i].func)
                /\ frames'[u][i].prevMsg = frames[u][i].prevMsg
                /\ frames'[u][i].seesData = frames[u][i].seesData
                /\ frames'[u][i].pc = IF u = t /\ i = Depth(t) THEN "recreate"
                                      ELSE frames[u][i].pc
<1> DEFINE n(u) == Depth(u)
<1> DEFINE g(u, i) == [frames[u][i] EXCEPT
                         !.func = Killed(@),
                         !.pc = IF <<u, i>> = Self(t) THEN "recreate" ELSE @]
<1>1. \A u \in Thread : n(u) \in Nat /\ n(u) = Depth(u)
  BY StackFacts
<1>2. ASSUME NEW u \in Thread, NEW i \in 1..n(u)
      PROVE  /\ g(u, i) \in Frames
             /\ g(u, i).id = frames[u][i].id
             /\ g(u, i).func = Killed(frames[u][i].func)
             /\ g(u, i).prevMsg = frames[u][i].prevMsg
             /\ g(u, i).seesData = frames[u][i].seesData
             /\ g(u, i).pc = IF u = t /\ i = Depth(t) THEN "recreate"
                             ELSE frames[u][i].pc
  <2> DEFINE old == frames[u][i]
  <2> DEFINE pc == IF <<u, i>> = Self(t) THEN "recreate" ELSE old.pc
  <2>1. old \in Frames
    BY <1>1, StackFacts
  <2>2. pc = IF u = t /\ i = Depth(t) THEN "recreate" ELSE old.pc
    BY DEF Self
  <2>3. g(u, i) = [old EXCEPT !.func = Killed(old.func), !.pc = pc]
    BY <2>1 DEF Frames
  <2> HIDE DEF old, pc, g
  <2>4. Killed(old.func) \in Funcs
    BY <2>1, KilledFacts DEF Frames
  <2>5. pc \in {"check", "reset", "recreate", "message", "lookup", "compile",
                "compiling", "map", "run"}
    BY <2>1, <2>2 DEF Frames
  <2>6. /\ g(u, i) \in Frames /\ g(u, i).id = old.id
        /\ g(u, i).func = Killed(old.func) /\ g(u, i).prevMsg = old.prevMsg
        /\ g(u, i).seesData = old.seesData /\ g(u, i).pc = pc
    BY <2>1, <2>3, <2>4, <2>5 DEF Frames
  <2>7. QED
    BY <2>2, <2>6 DEF old
<1>3. frames' = [u \in Thread |-> [i \in 1..n(u) |-> g(u, i)]]
  BY DEF Reset
<1> HIDE DEF n, g
<1>4. ASSUME NEW u \in Thread
      PROVE  /\ frames'[u] = [i \in 1..n(u) |-> g(u, i)]
             /\ frames'[u] \in Seq(Frames) /\ Len(frames'[u]) = n(u)
             /\ \A i \in 1..n(u) : frames'[u][i] = g(u, i)
  <2>1. frames'[u] = [i \in 1..n(u) |-> g(u, i)]
    BY <1>3
  <2>2. QED
    BY <1>1, <1>2, <2>1
<1>5. frames' \in [Thread -> Seq(Frames)]
  BY <1>3, <1>4
<1>6. \A u \in Thread : Depth(u)' = Depth(u)
  BY <1>1, <1>4 DEF Depth
<1>7. QED
  BY <1>1, <1>2, <1>4, <1>5, <1>6

LEMMA ResetKeeps ==
    ASSUME IInv, NEW t \in Thread, Reset(t) PROVE IInv'
<1>1. TypeOK /\ MapOwn /\ Counting /\ Alive /\ Stacks /\ Locking
  BY DEF IInv
<1>2. /\ Busy(t) /\ Top(t).pc = "reset" /\ mutex = NoThread
      /\ mutex' = t /\ engine' = "gone"
      /\ codeMap' = [id \in Id |-> NoEntry]
      /\ modules' = [id \in Id |-> 0] /\ rejected' = [id \in Id |-> 0]
      /\ resetShared' = (resetShared \/ Others(t) # {})
      /\ UNCHANGED <<currentMsg, returnBuffer, hitThreshold, undefined, begun,
                     shared, refused, failed>>
  BY DEF Reset, At, Busy
<1>3. /\ frames' \in [Thread -> Seq(Frames)]
      /\ \A u \in Thread : Depth(u)' = Depth(u)
      /\ \A u \in Thread : \A i \in 1..Depth(u) :
           /\ frames'[u][i].id = frames[u][i].id
           /\ frames'[u][i].func = Killed(frames[u][i].func)
           /\ frames'[u][i].seesData = frames[u][i].seesData
           /\ frames'[u][i].pc = IF u = t /\ i = Depth(t) THEN "recreate"
                                 ELSE frames[u][i].pc
  BY <1>1, ResetFacts
<1>4. \A u \in Thread : /\ Depth(u) \in Nat /\ (Busy(u) <=> Depth(u) > 0)
                        /\ Top(u) = frames[u][Depth(u)]
                        /\ Depth(u) <= MaxDepth
                        /\ \A i \in 1..Depth(u) :
                             FrameOk(u, i) /\ frames[u][i].func \in Funcs
  BY <1>1, StackFacts DEF Stacks, Frames
<1>5. \A u \in Thread : (Busy(u)' <=> Depth(u) > 0)
                        /\ Top(u)' = frames'[u][Depth(u)]
  <2>1. \A u \in Thread : frames'[u] \in Seq(Frames)
    BY <1>3
  <2>2. QED
    BY <1>3, <2>1 DEF Busy, Top, Depth
<1>6. Depth(t) = 1 /\ frames[t][1].func = NoFunc /\ frames[t][1].pc = "reset"
  <2>1. Depth(t) \in 1..Depth(t)
    BY <1>2, <1>4
  <2>2. FrameOk(t, Depth(t)) /\ frames[t][Depth(t)].pc = "reset"
    BY <1>2, <1>4, <2>1
  <2>3. QED
    BY <2>2 DEF FrameOk
<1>7. TypeOK'
  <2>1. codeMap' \in [Id -> [func : Funcs, hits : Nat]]
    BY <1>2, ConstantFacts
  <2>2. modules' \in [Id -> Nat] /\ rejected' \in [Id -> Nat]
    BY <1>2
  <2>3. resetShared' \in BOOLEAN
    BY <1>1, <1>2 DEF TypeOK
  <2>4. mutex' # NoThread
    BY <1>2, ConstantFacts
  <2>5. QED
    BY <1>1, <1>2, <1>3, <2>1, <2>2, <2>3, <2>4 DEF TypeOK
<1>8. Stacks'
  <2>1. ASSUME NEW u \in Thread, NEW i \in 1..Depth(u) PROVE FrameOk(u, i)'
    <3>1. FrameOk(u, i) /\ frames[u][i].func \in Funcs
      BY <1>4
    <3>2. /\ Killed(frames[u][i].func).of = frames[u][i].func.of
          /\ Killed(frames[u][i].func) = NoFunc <=> frames[u][i].func = NoFunc
      BY <3>1, KilledFacts
    <3>3. CASE u = t
      <4>1. i = 1 /\ i = Depth(t)
        BY <1>6, <3>3
      <4>2. QED
        BY <1>3, <1>6, <3>1, <3>2, <3>3, <4>1 DEF FrameOk
    <3>4. CASE u # t
      BY <1>3, <3>1, <3>2, <3>4 DEF FrameOk
    <3>5. QED
      BY <3>3, <3>4
  <2>2. QED
    BY <1>3, <1>4, <2>1 DEF Stacks
<1>9. MapOwn'
  BY <1>2, ConstantFacts DEF MapOwn
<1>10. Counting'
  <2>1. hitThreshold \in Nat
    BY <1>1, ConstantFacts DEF TypeOK
  <2>2. QED
    BY <1>2, <2>1, ConstantFacts DEF Counting
<1>11. Locking'
  <2>1. ASSUME NEW u \in Thread
        PROVE  mutex' = u <=> (Busy(u)' /\ Top(u)'.pc = "recreate")
    <3>1. CASE u = t
      BY <1>2, <1>3, <1>5, <1>6, <3>1
    <3>2. CASE u # t
      <4>1. ~(Busy(u) /\ Top(u).pc = "recreate")
        BY <1>1, <1>2, ConstantFacts DEF Locking
      <4>2. Busy(u) => Depth(u) \in 1..Depth(u)
        BY <1>4
      <4>3. QED
        BY <1>2, <1>3, <1>4, <1>5, <3>2, <4>1, <4>2
    <3>3. QED
      BY <3>1, <3>2
  <2>2. QED
    BY <2>1 DEF Locking
<1>12. Alive'
  <2> SUFFICES ASSUME ~resetShared' PROVE Alive'
    BY DEF Alive
  <2>1. ~resetShared /\ Others(t) = {}
    BY <1>2
  <2>2. ASSUME NEW u \in Thread, u # t PROVE ~Busy(u) /\ Depth(u) = 0
    BY <1>4, <2>1, <2>2 DEF Others, Busy
  <2>3. undefined' \notin {"engine", "code"}
    BY <1>1, <1>2, <2>1 DEF Alive
  <2>4. ASSUME NEW u \in Thread, NEW i \in 1..Depth(u)'
        PROVE  frames'[u][i].func.state # "dead"
    <3>1. u = t /\ i = 1
      BY <1>3, <1>4, <1>6, <2>2
    <3>2. frames'[u][i].func = NoFunc
      BY <1>3, <1>6, <3>1, KilledFacts, ConstantFacts
    <3>3. QED
      BY <3>2, ConstantFacts
  <2>5. \A id \in Id : codeMap'[id].func.state # "dead"
    BY <1>2, ConstantFacts
  <2>6. \A u \in Thread : u # t => ~Busy(u)'
    BY <1>4, <1>5, <2>2
  <2>7. QED
    BY <1>2, <2>3, <2>4, <2>5, <2>6 DEF Alive
<1>13. QED
  BY <1>7, <1>8, <1>9, <1>10, <1>11, <1>12 DEF IInv

(* The mutex is free again, and the engine is up.                          *)
LEMMA RecreateKeeps ==
    ASSUME IInv, NEW t \in Thread, Recreate(t) PROVE IInv'
<1>1. TypeOK /\ MapOwn /\ Counting /\ Alive /\ Stacks /\ Locking
  BY DEF IInv
<1>2. /\ Busy(t) /\ Top(t).pc = "recreate" /\ Goto(t, "message")
      /\ engine' = "up" /\ mutex' = NoThread
      /\ UNCHANGED <<codeMap, modules, currentMsg, returnBuffer, hitThreshold,
                     undefined, history>>
  BY DEF Recreate, At, Busy
<1>3. Top(t) \in Frames /\ Top(t) = frames[t][Depth(t)]
      /\ Depth(t) \in 1..Depth(t) /\ Depth(t) \in Nat
  BY <1>1, <1>2, StackFacts
<1> DEFINE new == [Top(t) EXCEPT !.pc = "message"]
<1>4. /\ new \in Frames /\ new.pc = "message" /\ new.id = Top(t).id
      /\ new.func = Top(t).func
  BY <1>3 DEF Frames
<1>5. frames' = [frames EXCEPT ![t] = [frames[t] EXCEPT ![Depth(t)] = new]]
  BY <1>1, <1>2, <1>3 DEF Goto, TypeOK
<1> HIDE DEF new
<1>6. /\ OthersSame(t) /\ frames' \in [Thread -> Seq(Frames)]
      /\ Depth(t)' = Depth(t)
      /\ \A i \in 1..Depth(t) : i # Depth(t) => frames'[t][i] = frames[t][i]
      /\ frames'[t][Depth(t)] = new
  BY <1>1, <1>2, <1>4, <1>5, TopFacts
<1>7. TypeOK'
  BY <1>1, <1>2, <1>6 DEF TypeOK, history
<1>8. ASSUME NEW u \in Thread, u # t
      PROVE  /\ Depth(u)' = Depth(u) /\ (Busy(u)' <=> Busy(u))
             /\ Busy(u) => Top(u)'.pc = Top(u).pc
             /\ \A i \in 1..Depth(u) : Same(frames'[u][i], frames[u][i])
  BY <1>1, <1>6, <1>7, <1>8, OthersFacts
<1>9. MapOwn' /\ Counting'
  BY <1>1, <1>2 DEF MapOwn, Counting, history
<1>10. FrameOk(t, Depth(t)) /\ Depth(t) = 1
  BY <1>1, <1>2, <1>3 DEF Stacks, FrameOk
<1>11. Stacks'
  <2>1. ASSUME NEW u \in Thread, u # t
        PROVE  Depth(u)' <= MaxDepth /\ \A i \in 1..Depth(u)' : FrameOk(u, i)'
    BY <1>1, <1>8, <2>1 DEF Stacks, FrameOk, Same
  <2>2. FrameOk(t, 1)'
    BY <1>2, <1>3, <1>4, <1>6, <1>10 DEF FrameOk
  <2>3. Depth(t)' <= MaxDepth
    BY <1>1, <1>6 DEF Stacks
  <2>4. \A i \in 1..Depth(t)' : FrameOk(t, i)'
    <3>1. \A i \in 1..Depth(t)' : i = 1
      BY <1>6, <1>10
    <3>2. QED
      BY <2>2, <3>1
  <2>5. QED
    BY <2>1, <2>3, <2>4 DEF Stacks
<1>12. Locking'
  <2>1. Top(t)' = new
    BY <1>6 DEF Top
  <2>2. \A u \in Thread : u # t => ~(Busy(u) /\ Top(u).pc = "recreate")
    BY <1>1, <1>2 DEF Locking
  <2>3. QED
    BY <1>2, <1>4, <1>8, <2>1, <2>2, ConstantFacts DEF Locking
<1>13. Alive'
  <2> SUFFICES ASSUME ~resetShared PROVE Alive'
    BY <1>2 DEF Alive, history
  <2>1. undefined' \notin {"engine", "code"}
    BY <1>1, <1>2 DEF Alive
  <2>2. \A u \in Thread : \A i \in 1..Depth(u)' :
          frames'[u][i].func.state # "dead"
    <3>1. frames[t][1].func.state # "dead"
      BY <1>1, <1>3, <1>10 DEF Alive
    <3>2. frames'[t][1].func = frames[t][1].func
      BY <1>3, <1>4, <1>6, <1>10
    <3>3. \A i \in 1..Depth(t)' : i = 1
      BY <1>6, <1>10
    <3>4. QED
      BY <1>1, <1>8, <3>1, <3>2, <3>3 DEF Alive, Same
  <2>3. \A id \in Id : codeMap'[id].func.state # "dead"
    BY <1>1, <1>2 DEF Alive
  <2>4. QED
    BY <1>2, <2>1, <2>2, <2>3, ConstantFacts DEF Alive
<1>14. QED
  BY <1>7, <1>9, <1>11, <1>12, <1>13 DEF IInv

(* The host begins.  Who replaces the engine has the mutex, and a thread   *)
(* that enters waits at the check.                                         *)
LEMMA BeginKeeps ==
    ASSUME IInv, NEW t \in Thread, NEW id \in Id, Begin(t, id) PROVE IInv'
<1>1. TypeOK /\ MapOwn /\ Counting /\ Alive /\ Stacks /\ Locking
  BY DEF IInv
<1> DEFINE new == NewFrame(id, "check")
<1>2. /\ ~Busy(t) /\ begun < MaxExecutions /\ begun' = begun + 1
      /\ frames' = [frames EXCEPT ![t] = <<new>>]
      /\ shared' = (shared \/ Others(t) # {})
      /\ UNCHANGED <<machine, undefined, rejected, resetShared, refused,
                     failed>>
  BY DEF Begin, Busy
<1>3. /\ new \in Frames /\ new.pc = "check" /\ new.func = NoFunc
      /\ new.seesData = FALSE
  BY NewFrameFacts
<1> HIDE DEF new
<1>4. /\ frames' \in [Thread -> Seq(Frames)] /\ frames'[t] = <<new>>
      /\ \A u \in Thread : u # t => frames'[u] = frames[u]
  BY <1>1, <1>2, <1>3 DEF TypeOK
<1>5. /\ Depth(t)' = 1 /\ frames'[t][1] = new /\ Top(t)' = new
      /\ OthersSame(t)
  BY <1>4 DEF Depth, Top, OthersSame, Same
<1>6. begun' \in 0..MaxExecutions /\ shared' \in BOOLEAN
  BY <1>1, <1>2, ConstantFacts DEF TypeOK
<1>7. TypeOK'
  BY <1>1, <1>2, <1>4, <1>6 DEF TypeOK, machine
<1>8. MapOwn' /\ Counting'
  BY <1>1, <1>2 DEF MapOwn, Counting, machine
<1>9. Depth(t)' <= MaxDepth
  BY <1>5, ConstantFacts
<1>10. \A i \in 1..Depth(t)' : i = 1
  BY <1>5
<1>11. FrameOk(t, 1)'
  BY <1>3, <1>5, ConstantFacts DEF FrameOk
<1>12. \A i \in 1..Depth(t)' : FrameOk(t, i)'
  BY <1>10, <1>11
<1>13. mutex # t
  BY <1>1, <1>2 DEF Locking
<1>14. ~resetShared =>
         /\ \A i \in 1..Depth(t)' : frames'[t][i].func.state # "dead"
         /\ \A i \in Id : codeMap'[i].func.state # "dead"
  BY <1>1, <1>2, <1>3, <1>5, <1>10, ConstantFacts DEF Alive, machine
<1>15. mutex' = mutex /\ undefined' = undefined /\ resetShared' = resetShared
  BY <1>2 DEF machine
<1>16. QED
  BY <1>3, <1>5, <1>7, <1>8, <1>9, <1>12, <1>13, <1>14, <1>15, MoverKeeps

(* A step that makes the behaviour undefined: only that is new.            *)
LEMMA UndefinedKeeps ==
    ASSUME IInv, NEW cause \in {"llvm", "engine", "code"}, Undefined(cause),
           begun' = begun, rejected' = rejected, shared' = shared,
           refused' = refused, failed' = failed, resetShared' \in BOOLEAN,
           ~resetShared' => ~resetShared /\ cause = "llvm"
    PROVE  IInv'
<1>1. TypeOK /\ MapOwn /\ Counting /\ Alive /\ Stacks /\ Locking
  BY DEF IInv
<1>2. undefined' = cause /\ UNCHANGED <<frames, machine>>
  BY DEF Undefined
<1>3. TypeOK'
  BY <1>1, <1>2 DEF TypeOK, machine
<1>4. MapOwn' /\ Counting' /\ Stacks' /\ Locking'
  BY <1>1, <1>2
     DEF MapOwn, Counting, Stacks, Locking, FrameOk, Depth, Top, Busy, machine
<1>5. Alive'
  BY <1>1, <1>2 DEF Alive, Depth, Top, Busy, machine
<1>6. QED
  BY <1>3, <1>4, <1>5 DEF IInv

LEMMA MeetsResetKeeps ==
    ASSUME IInv, NEW t \in Thread, CheckGoneEngine(t) \/ ResetUnderCompiler(t)
    PROVE  IInv'
<1>1. Undefined("engine") /\ MeetsReset
  BY DEF CheckGoneEngine, ResetUnderCompiler
<1>2. QED
  BY <1>1, UndefinedKeeps DEF MeetsReset

LEMMA CompileTogetherKeeps ==
    ASSUME IInv, NEW t \in Thread, CompileTogether(t) PROVE IInv'
<1>1. Undefined("llvm") /\ UNCHANGED history
  BY DEF CompileTogether
<1>2. resetShared \in BOOLEAN
  BY DEF IInv, TypeOK
<1>3. QED
  BY <1>1, <1>2, UndefinedKeeps DEF history

(* The engine that a compiler misses is one that met it.                   *)
LEMMA CompileWithoutEngineKeeps ==
    ASSUME IInv, NEW t \in Thread, CompileWithoutEngine(t) PROVE IInv'
<1>1. TypeOK /\ Alive /\ Locking
  BY DEF IInv
<1>2. /\ Undefined("engine") /\ UNCHANGED history
      /\ Busy(t) /\ Top(t).pc = "compile" /\ engine = "gone"
  BY DEF CompileWithoutEngine, At, Busy
<1>3. mutex \in Thread
  BY <1>1, <1>2 DEF TypeOK
<1>4. mutex # t
  BY <1>1, <1>2 DEF Locking
<1>5. resetShared = TRUE
  BY <1>1, <1>2, <1>3, <1>4 DEF Alive, TypeOK
<1>6. QED
  BY <1>2, <1>5, UndefinedKeeps DEF history

LEMMA RunsDeadKeeps ==
    ASSUME IInv, NEW t \in Thread, RunsDead(t) PROVE IInv'
<1>1. TypeOK /\ Alive
  BY DEF IInv
<1>2. /\ Undefined("code") /\ UNCHANGED history
      /\ Busy(t) /\ Top(t).func.state = "dead"
  BY DEF RunsDead, At, Busy
<1>3. Top(t) = frames[t][Depth(t)] /\ Depth(t) \in 1..Depth(t)
  BY <1>1, <1>2, StackFacts
<1>4. resetShared = TRUE
  BY <1>1, <1>2, <1>3 DEF Alive, TypeOK
<1>5. QED
  BY <1>2, <1>4, UndefinedKeeps DEF history

LEMMA NextInvariant == IInv /\ [Next]_vars => IInv'
<1> SUFFICES ASSUME IInv, [Next]_vars PROVE IInv'
  OBVIOUS
<1>1. CASE UNCHANGED vars
  <2>1. TypeOK /\ Stacks /\ MapOwn /\ Locking /\ Counting /\ Alive
    BY DEF IInv
  <2>2. UNCHANGED <<frames, codeMap, mutex, engine, modules, currentMsg,
                    returnBuffer, hitThreshold, undefined, begun, rejected,
                    shared, resetShared, refused, failed>>
    BY <1>1 DEF vars, machine, history
  <2>3. TypeOK'
    BY <2>1, <2>2 DEF TypeOK
  <2>4. MapOwn' /\ Counting' /\ Stacks' /\ Locking'
    BY <2>1, <2>2 DEF MapOwn, Counting, Stacks, Locking, FrameOk, Depth, Top, Busy
  <2>5. Alive'
    BY <2>1, <2>2 DEF Alive, Depth, Top, Busy
  <2>6. QED
    BY <2>3, <2>4, <2>5 DEF IInv
<1>2. ASSUME NEW t \in Thread, NEW id \in Id, Begin(t, id) PROVE IInv'
  BY <1>2, BeginKeeps
<1>3. ASSUME NEW t \in Thread, Step(t) PROVE IInv'
  <2>1. CASE CheckMemory(t)
    BY <2>1, CheckMemoryKeeps
  <2>2. CASE CheckGoneEngine(t) \/ ResetUnderCompiler(t)
    BY <2>2, MeetsResetKeeps
  <2>3. CASE Reset(t)
    BY <2>3, ResetKeeps
  <2>4. CASE Recreate(t)
    BY <2>4, RecreateKeeps
  <2>5. CASE TakeMessage(t)
    BY <2>5, TakeMessageKeeps
  <2>6. CASE LookUpFinds(t)
    BY <2>6, LookUpFindsKeeps
  <2>7. CASE LookUpMisses(t)
    BY <2>7, LookUpMissesKeeps
  <2>8. CASE LookUpRejects(t)
    BY <2>8, LookUpRejectsKeeps
  <2>9. CASE CompileBegins(t)
    BY <2>9, CompileBeginsKeeps
  <2>10. CASE CompileTogether(t)
    BY <2>10, CompileTogetherKeeps
  <2>11. CASE CompileWithoutEngine(t)
    BY <2>11, CompileWithoutEngineKeeps
  <2>12. CASE CompileEnds(t)
    BY <2>12, CompileEndsKeeps
  <2>13. CASE CompileFails(t)
    BY <2>13, CompileFailsKeeps
  <2>14. CASE Map(t)
    BY <2>14, MapKeeps
  <2>15. CASE RunsDead(t)
    BY <2>15, RunsDeadKeeps
  <2>16. CASE \E id \in Id : Call(t, id)
    BY <2>16, CallKeeps
  <2>17. CASE Return(t)
    BY <2>17, ReturnKeeps
  <2>18. QED
    BY <1>3, <2>1, <2>2, <2>3, <2>4, <2>5, <2>6, <2>7, <2>8, <2>9, <2>10,
       <2>11, <2>12, <2>13, <2>14, <2>15, <2>16, <2>17 DEF Step
<1>4. QED
  BY <1>1, <1>2, <1>3 DEF Next

LEMMA InvariantHolds == Spec => []IInv
  BY InitInvariant, NextInvariant, PTL DEF Spec

-----------------------------------------------------------------------------
(* What holds however the host uses its threads.                           *)

(* Every variable keeps the type of what it stands for, and the engine is  *)
(* gone exactly while a thread holds the mutex to replace it               *)
(* (JIT.cpp:316-328, 594-605).                                             *)
THEOREM TypeCorrect == Spec => []TypeOK
<1>1. IInv => TypeOK
  BY DEF IInv
<1>2. QED
  BY <1>1, InvariantHolds, PTL

LEMMA AllFramesFacts ==
    ASSUME TypeOK, NEW f \in AllFrames
    PROVE  /\ f[1] \in Thread /\ f[2] \in 1..Depth(f[1])
           /\ FrameOf(f) = frames[f[1]][f[2]] /\ f = <<f[1], f[2]>>
  BY ConstantFacts, StackFacts DEF AllFrames, FrameIds, FrameOf

(* Whatever the threads do between each other's lookup and mapping of      *)
(* code, a frame runs, and an entry of the map leads to, a function of its *)
(* own code (JIT.cpp:441-466).                                             *)
THEOREM OwnCodeOnly == Spec => []OwnCode
<1>1. IInv => OwnCode
  <2> SUFFICES ASSUME IInv PROVE OwnCode
    OBVIOUS
  <2>1. TypeOK /\ Stacks /\ MapOwn
    BY DEF IInv
  <2>2. ASSUME NEW f \in AllFrames
        PROVE  FrameOf(f).func.of \in {"none", FrameOf(f).id}
    <3>1. f[1] \in Thread /\ f[2] \in 1..Depth(f[1])
          /\ FrameOf(f) = frames[f[1]][f[2]]
      BY <2>1, AllFramesFacts
    <3>2. FrameOk(f[1], f[2])
      BY <2>1, <3>1 DEF Stacks
    <3>3. QED
      BY <3>1, <3>2 DEF FrameOk
  <2>3. QED
    BY <2>1, <2>2 DEF OwnCode, MapOwn
<1>2. QED
  BY <1>1, InvariantHolds, PTL

(* The counter of the map loses no hit: between two replacements of the    *)
(* engine a code is rejected no more often than the threshold says, by all *)
(* threads together (JIT.cpp:316-322, 448).                                *)
THEOREM NoHitIsLost == Spec => []RejectedAtMost
<1>1. IInv => RejectedAtMost
  BY DEF IInv, Counting, RejectedAtMost
<1>2. QED
  BY <1>1, InvariantHolds, PTL

(* Code dies only when the engine is replaced while another thread is in   *)
(* execute(): else neither a frame nor the map holds a function whose      *)
(* engine is gone, and none is run (JIT.cpp:595).                          *)
THEOREM CodeDiesOnlyByReset == Spec => []AliveUnlessReset
<1>1. IInv => AliveUnlessReset
  <2> SUFFICES ASSUME IInv, ~resetShared
               PROVE  /\ undefined \notin {"engine", "code"}
                      /\ \A f \in AllFrames : FrameOf(f).func.state # "dead"
                      /\ \A id \in Id : codeMap[id].func.state # "dead"
    BY DEF AliveUnlessReset
  <2>1. TypeOK /\ Alive
    BY DEF IInv
  <2>2. ASSUME NEW f \in AllFrames PROVE FrameOf(f).func.state # "dead"
    <3>1. f[1] \in Thread /\ f[2] \in 1..Depth(f[1])
          /\ FrameOf(f) = frames[f[1]][f[2]]
      BY <2>1, AllFramesFacts
    <3>2. QED
      BY <2>1, <3>1 DEF Alive
  <2>3. QED
    BY <2>1, <2>2 DEF Alive
<1>2. QED
  BY <1>1, InvariantHolds, PTL

-----------------------------------------------------------------------------
(* What the steps between entering and leaving do to the top frame.        *)

PCs == {"check", "reset", "recreate", "message", "lookup", "compile",
        "compiling", "map", "run"}

(* The top frame goes to another place in execute(), perhaps with another  *)
(* function.                                                               *)
Moved(t, pc) ==
    /\ OthersSame(t)
    /\ Depth(t)' = Depth(t) /\ Busy(t) /\ Busy(t)'
    /\ \A i \in 1..Depth(t) :
         /\ frames'[t][i].id = frames[t][i].id
         /\ frames'[t][i].seesData = frames[t][i].seesData
         /\ frames'[t][i].prevMsg = frames[t][i].prevMsg
         /\ frames'[t][i].pc = IF i = Depth(t) THEN pc ELSE frames[t][i].pc
    /\ Top(t)'.id = Top(t).id /\ Top(t)'.pc = pc

LEMMA MovedFacts ==
    ASSUME TypeOK, NEW t \in Thread, Busy(t), NEW pc \in PCs, NEW func \in Funcs,
           \/ Goto(t, pc)
           \/ frames' = [frames EXCEPT ![t][Depth(t)].func = func,
                                       ![t][Depth(t)].pc = pc]
    PROVE  Moved(t, pc)
<1>1. Top(t) \in Frames /\ Top(t) = frames[t][Depth(t)]
      /\ Depth(t) \in 1..Depth(t)
  BY StackFacts
<1>2. PICK new \in Frames :
        /\ frames' = [frames EXCEPT ![t] = [frames[t] EXCEPT ![Depth(t)] = new]]
        /\ new.id = Top(t).id /\ new.seesData = Top(t).seesData
        /\ new.prevMsg = Top(t).prevMsg /\ new.pc = pc
  <2>1. CASE Goto(t, pc)
    <3> DEFINE to == [Top(t) EXCEPT !.pc = pc]
    <3>1. /\ to \in Frames /\ to.id = Top(t).id /\ to.seesData = Top(t).seesData
          /\ to.prevMsg = Top(t).prevMsg /\ to.pc = pc
      BY <1>1 DEF Frames, PCs
    <3>2. frames' = [frames EXCEPT ![t] = [frames[t] EXCEPT ![Depth(t)] = to]]
      BY <1>1, <2>1 DEF Goto, TypeOK
    <3> HIDE DEF to
    <3>3. QED
      BY <3>1, <3>2
  <2>2. CASE frames' = [frames EXCEPT ![t][Depth(t)].func = func,
                                      ![t][Depth(t)].pc = pc]
    <3> DEFINE to == [Top(t) EXCEPT !.func = func, !.pc = pc]
    <3>1. /\ to \in Frames /\ to.id = Top(t).id /\ to.seesData = Top(t).seesData
          /\ to.prevMsg = Top(t).prevMsg /\ to.pc = pc
      BY <1>1 DEF Frames, PCs
    <3>2. frames' = [frames EXCEPT ![t] = [frames[t] EXCEPT ![Depth(t)] = to]]
      BY <1>1, <2>2 DEF TypeOK
    <3> HIDE DEF to
    <3>3. QED
      BY <3>1, <3>2
  <2>3. QED
    BY <2>1, <2>2
<1>3. /\ frames' \in [Thread -> Seq(Frames)]
      /\ OthersSame(t) /\ Depth(t)' = Depth(t) /\ Depth(t) > 0
      /\ \A i \in 1..Depth(t) : i # Depth(t) => frames'[t][i] = frames[t][i]
      /\ frames'[t][Depth(t)] = new
  BY <1>2, TopFacts
<1>4. Top(t)' = new
  BY <1>3 DEF Top
<1>5. Busy(t)'
  BY <1>3 DEF Busy, Depth
<1>6. ASSUME NEW i \in 1..Depth(t)
      PROVE  /\ frames'[t][i].id = frames[t][i].id
             /\ frames'[t][i].seesData = frames[t][i].seesData
             /\ frames'[t][i].prevMsg = frames[t][i].prevMsg
             /\ frames'[t][i].pc = IF i = Depth(t) THEN pc ELSE frames[t][i].pc
  <2>1. CASE i = Depth(t)
    BY <1>1, <1>2, <1>3, <2>1
  <2>2. CASE i # Depth(t)
    BY <1>3, <2>2
  <2>3. QED
    BY <2>1, <2>2
<1>7. QED
  BY <1>2, <1>3, <1>4, <1>5, <1>6 DEF Moved

LEMMA CheckMemoryMoves ==
    ASSUME TypeOK, NEW t \in Thread, CheckMemory(t)
    PROVE  Moved(t, "reset") \/ Moved(t, "message")
<1>1. Busy(t) /\ (Goto(t, "reset") \/ Goto(t, "message"))
  BY DEF CheckMemory, At, Busy
<1>2. "reset" \in PCs /\ "message" \in PCs
  BY DEF PCs
<1>3. QED
  BY <1>1, <1>2, MovedFacts, ConstantFacts

LEMMA RecreateMoves ==
    ASSUME TypeOK, NEW t \in Thread, Recreate(t) PROVE Moved(t, "message")
<1>1. Busy(t) /\ Goto(t, "message") /\ "message" \in PCs
  BY DEF Recreate, At, Busy, PCs
<1>2. QED
  BY <1>1, MovedFacts, ConstantFacts

LEMMA LookUpFindsMoves ==
    ASSUME TypeOK, NEW t \in Thread, LookUpFinds(t) PROVE Moved(t, "run")
<1>1. /\ Counted(t) /\ "run" \in PCs
      /\ frames' = [frames EXCEPT ![t][Depth(t)].func = codeMap[Top(t).id].func,
                                  ![t][Depth(t)].pc = "run"]
  BY DEF LookUpFinds, PCs
<1>2. Busy(t) /\ codeMap[Top(t).id].func \in Funcs
  BY <1>1, CountedFacts DEF TypeOK
<1>3. QED
  BY <1>1, <1>2, MovedFacts

LEMMA LookUpMissesMoves ==
    ASSUME TypeOK, NEW t \in Thread, LookUpMisses(t) PROVE Moved(t, "compile")
<1>1. Counted(t) /\ Goto(t, "compile") /\ "compile" \in PCs
  BY DEF LookUpMisses, PCs
<1>2. Busy(t)
  BY <1>1, CountedFacts
<1>3. QED
  BY <1>1, <1>2, MovedFacts, ConstantFacts

LEMMA CompileBeginsMoves ==
    ASSUME TypeOK, NEW t \in Thread, CompileBegins(t) PROVE Moved(t, "compiling")
<1>1. Busy(t) /\ Goto(t, "compiling") /\ "compiling" \in PCs
  BY DEF CompileBegins, At, Busy, PCs
<1>2. QED
  BY <1>1, MovedFacts, ConstantFacts

LEMMA CompileEndsMoves ==
    ASSUME TypeOK, NEW t \in Thread, CompileEnds(t) PROVE Moved(t, "map")
<1>1. /\ Busy(t) /\ "map" \in PCs
      /\ frames' = [frames EXCEPT ![t][Depth(t)].func = Live(Top(t).id),
                                  ![t][Depth(t)].pc = "map"]
  BY DEF CompileEnds, At, Busy, PCs
<1>2. Top(t).id \in Id
  BY <1>1, StackFacts DEF Frames
<1>3. Live(Top(t).id) \in Funcs
  BY <1>2, FuncFacts
<1>4. QED
  BY <1>1, <1>3, MovedFacts

LEMMA MapMoves ==
    ASSUME TypeOK, NEW t \in Thread, Map(t) PROVE Moved(t, "run")
<1>1. Busy(t) /\ Goto(t, "run") /\ "run" \in PCs
  BY DEF Map, At, Busy, PCs
<1>2. QED
  BY <1>1, MovedFacts, ConstantFacts

-----------------------------------------------------------------------------
(* One thread at a time.                                                   *)

(* Pointing, for a thread that is alone.                                   *)
PointingAt(t) ==
    /\ Busy(t) => IF Top(t).pc \in Entered THEN currentMsg = Self(t)
                  ELSE Below(currentMsg, t, Depth(t))
    /\ \A i \in 1..Depth(t) :
         frames[t][i].pc \in Entered => Below(frames[t][i].prevMsg, t, i)
    /\ ~Busy(t) => currentMsg \in {Null, Dangling}

SafeAt(t) ==
    /\ ~shared /\ ~resetShared /\ undefined = "no"
    /\ \A i \in 1..Depth(t) : frames[t][i].seesData => returnBuffer = <<t, i>>
    /\ ~refused => PointingAt(t)

Only(t) == \A u \in Thread : u # t => ~Busy(u)

LEMMA OnlyFacts ==
    ASSUME TypeOK, NEW t \in Thread, Only(t), NEW u \in Thread, u # t
    PROVE  ~Busy(u) /\ Depth(u) = 0
  BY DEF Only, Busy, Depth

(* Whoever takes a step is in execute(), and alone.                        *)
LEMMA AloneFacts ==
    ASSUME IInv, Safe, ~shared, NEW t \in Thread, Busy(t)
    PROVE  Only(t) /\ SafeAt(t) /\ Others(t) = {}
<1>1. Only(t)
  BY DEF Safe, Alone, Only
<1>2. Others(t) = {}
  BY <1>1 DEF Only, Others, Busy
<1>3. ~refused => PointingAt(t)
  BY DEF Safe, Pointing, PointingAt
<1>4. QED
  BY <1>1, <1>2, <1>3 DEF Safe, SafeAt

(* What is safe for the only thread is safe.                               *)
LEMMA SafeFromOnly ==
    ASSUME TypeOK, NEW t \in Thread, Only(t), SafeAt(t) PROVE Safe
<1>1. \A u \in Thread : u # t => ~Busy(u) /\ Depth(u) = 0
  BY OnlyFacts
<1>2. Alone
  BY <1>1 DEF Alone
<1>3. \A u \in Thread : \A i \in 1..Depth(u) :
        frames[u][i].seesData => returnBuffer = <<u, i>>
  BY <1>1 DEF SafeAt
<1>4. ~refused => Pointing
  <2> SUFFICES ASSUME ~refused PROVE Pointing
    OBVIOUS
  <2>1. PointingAt(t)
    BY DEF SafeAt
  <2>2. \A u \in Thread :
          Busy(u) => IF Top(u).pc \in Entered THEN currentMsg = Self(u)
                     ELSE Below(currentMsg, u, Depth(u))
    BY <1>1, <2>1 DEF PointingAt
  <2>3. \A u \in Thread : \A i \in 1..Depth(u) :
          frames[u][i].pc \in Entered => Below(frames[u][i].prevMsg, u, i)
    BY <1>1, <2>1 DEF PointingAt
  <2>4. (\A u \in Thread : ~Busy(u)) => currentMsg \in {Null, Dangling}
    BY <2>1 DEF PointingAt
  <2>5. QED
    BY <2>2, <2>3, <2>4 DEF Pointing
<1>5. QED
  BY <1>2, <1>3, <1>4 DEF Safe, SafeAt

LEMMA SafeFromOnlyNext ==
    ASSUME NEW t \in Thread
    PROVE  TypeOK' /\ Only(t)' /\ SafeAt(t)' => Safe'
<1>1. TypeOK /\ Only(t) /\ SafeAt(t) => Safe
  BY SafeFromOnly
<1>2. QED
  BY <1>1, PTL

LEMMA OnlyStays ==
    ASSUME TypeOK, TypeOK', NEW t \in Thread, OthersSame(t), Only(t)
    PROVE  Only(t)'
  BY OthersFacts DEF Only

(* The top frame of the only thread moves, on one side of the message.     *)
LEMMA MovedIsSafe ==
    ASSUME TypeOK, TypeOK', NEW t \in Thread, NEW pc \in PCs, Moved(t, pc),
           Only(t), SafeAt(t), Top(t).pc \in Entered <=> pc \in Entered,
           UNCHANGED <<currentMsg, returnBuffer, undefined, shared, refused>>,
           resetShared' = resetShared
    PROVE  Safe'
<1>1. /\ OthersSame(t) /\ Depth(t)' = Depth(t) /\ Busy(t) /\ Busy(t)'
      /\ \A i \in 1..Depth(t) :
           /\ frames'[t][i].seesData = frames[t][i].seesData
           /\ frames'[t][i].prevMsg = frames[t][i].prevMsg
           /\ frames'[t][i].pc = IF i = Depth(t) THEN pc ELSE frames[t][i].pc
      /\ Top(t)'.pc = pc
  BY DEF Moved
<1>2. Top(t) = frames[t][Depth(t)] /\ Depth(t) \in 1..Depth(t)
  BY <1>1, StackFacts
<1>3. Only(t)'
  BY <1>1, OnlyStays
<1>4. ~refused => PointingAt(t)'
  <2> SUFFICES ASSUME ~refused PROVE PointingAt(t)'
    OBVIOUS
  <2>1. PointingAt(t)
    BY DEF SafeAt
  <2>2. Self(t)' = Self(t)
    BY <1>1 DEF Self
  <2>3. IF Top(t)'.pc \in Entered THEN currentMsg' = Self(t)'
        ELSE Below(currentMsg', t, Depth(t)')
    BY <1>1, <2>1, <2>2 DEF PointingAt
  <2>4. \A i \in 1..Depth(t)' :
          frames'[t][i].pc \in Entered => Below(frames'[t][i].prevMsg, t, i)
    BY <1>1, <1>2, <2>1 DEF PointingAt
  <2>5. QED
    BY <1>1, <2>3, <2>4 DEF PointingAt
<1>5. \A i \in 1..Depth(t)' :
        frames'[t][i].seesData => returnBuffer' = <<t, i>>
  BY <1>1 DEF SafeAt
<1>6. SafeAt(t)'
  BY <1>4, <1>5 DEF SafeAt
<1>7. QED
  BY <1>3, <1>6, SafeFromOnlyNext

(* Nothing that several threads do to each other happens to one.           *)
LEMMA NobodyMeets ==
    ASSUME IInv, NEW t \in Thread, Only(t), SafeAt(t),
           \/ CheckGoneEngine(t) \/ ResetUnderCompiler(t)
           \/ CompileTogether(t) \/ CompileWithoutEngine(t) \/ RunsDead(t)
    PROVE  FALSE
<1>1. TypeOK /\ Locking /\ Alive /\ ~resetShared
  BY DEF IInv, SafeAt
<1>2. engine = "gone" => Busy(t) /\ Top(t).pc = "recreate"
  BY <1>1 DEF TypeOK, Locking, Only
<1>3. CASE CheckGoneEngine(t)
  BY <1>2, <1>3 DEF CheckGoneEngine, At
<1>4. CASE ResetUnderCompiler(t)
  BY <1>4 DEF ResetUnderCompiler, Others, Only, Busy
<1>5. CASE CompileTogether(t)
  BY <1>5 DEF CompileTogether, Compiling, Only, Busy, At
<1>6. CASE CompileWithoutEngine(t)
  BY <1>2, <1>6 DEF CompileWithoutEngine, At
<1>7. CASE RunsDead(t)
  <2>1. Busy(t) /\ Top(t).func.state = "dead"
    BY <1>7 DEF RunsDead, At, Busy
  <2>2. Top(t) = frames[t][Depth(t)] /\ Depth(t) \in 1..Depth(t)
    BY <1>1, <2>1, StackFacts
  <2>3. QED
    BY <1>1, <2>1, <2>2 DEF Alive
<1>8. QED
  BY <1>3, <1>4, <1>5, <1>6, <1>7

LEMMA MovesAreSafe ==
    ASSUME IInv, TypeOK', NEW t \in Thread, Only(t), SafeAt(t),
           \/ CheckMemory(t) \/ Recreate(t) \/ LookUpFinds(t)
           \/ LookUpMisses(t) \/ CompileBegins(t) \/ CompileEnds(t) \/ Map(t)
    PROVE  Safe'
<1>1. TypeOK
  BY DEF IInv
<1>2. CASE CheckMemory(t)
  <2>1. /\ Top(t).pc = "check"
        /\ UNCHANGED <<currentMsg, returnBuffer, undefined, shared, refused,
                       resetShared>>
    BY <1>2 DEF CheckMemory, At, machine, history
  <2>2. Moved(t, "reset") \/ Moved(t, "message")
    BY <1>1, <1>2, CheckMemoryMoves
  <2>3. QED
    BY <1>1, <2>1, <2>2, MovedIsSafe DEF Entered, PCs
<1>3. CASE Recreate(t)
  <2>1. /\ Top(t).pc = "recreate"
        /\ UNCHANGED <<currentMsg, returnBuffer, undefined, shared, refused,
                       resetShared>>
    BY <1>3 DEF Recreate, At, history
  <2>2. QED
    BY <1>1, <1>3, <2>1, RecreateMoves, MovedIsSafe DEF Entered, PCs
<1>4. CASE LookUpFinds(t)
  <2>1. /\ Top(t).pc = "lookup"
        /\ UNCHANGED <<currentMsg, returnBuffer, undefined, shared, refused,
                       resetShared>>
    BY <1>4 DEF LookUpFinds, Counted, At, history
  <2>2. QED
    BY <1>1, <1>4, <2>1, LookUpFindsMoves, MovedIsSafe DEF Entered, PCs
<1>5. CASE LookUpMisses(t)
  <2>1. /\ Top(t).pc = "lookup"
        /\ UNCHANGED <<currentMsg, returnBuffer, undefined, shared, refused,
                       resetShared>>
    BY <1>5 DEF LookUpMisses, Counted, At, history
  <2>2. QED
    BY <1>1, <1>5, <2>1, LookUpMissesMoves, MovedIsSafe DEF Entered, PCs
<1>6. CASE CompileBegins(t)
  <2>1. /\ Top(t).pc = "compile"
        /\ UNCHANGED <<currentMsg, returnBuffer, undefined, shared, refused,
                       resetShared>>
    BY <1>6 DEF CompileBegins, At, machine, history
  <2>2. QED
    BY <1>1, <1>6, <2>1, CompileBeginsMoves, MovedIsSafe DEF Entered, PCs
<1>7. CASE CompileEnds(t)
  <2>1. /\ Top(t).pc = "compiling"
        /\ UNCHANGED <<currentMsg, returnBuffer, undefined, shared, refused,
                       resetShared>>
    BY <1>7 DEF CompileEnds, At, history
  <2>2. QED
    BY <1>1, <1>7, <2>1, CompileEndsMoves, MovedIsSafe DEF Entered, PCs
<1>8. CASE Map(t)
  <2>1. /\ Top(t).pc = "map"
        /\ UNCHANGED <<currentMsg, returnBuffer, undefined, shared, refused,
                       resetShared>>
    BY <1>8 DEF Map, At, history
  <2>2. QED
    BY <1>1, <1>8, <2>1, MapMoves, MovedIsSafe DEF Entered, PCs
<1>9. QED
  BY <1>2, <1>3, <1>4, <1>5, <1>6, <1>7, <1>8

LEMMA ResetIsSafe ==
    ASSUME IInv, TypeOK', NEW t \in Thread, Only(t), SafeAt(t), Reset(t)
    PROVE  Safe'
<1>1. TypeOK /\ Stacks
  BY DEF IInv
<1>2. /\ Busy(t) /\ Top(t).pc = "reset"
      /\ resetShared' = (resetShared \/ Others(t) # {})
      /\ UNCHANGED <<currentMsg, returnBuffer, undefined, shared, refused>>
  BY DEF Reset, At, Busy
<1>3. /\ \A u \in Thread : Depth(u)' = Depth(u)
      /\ \A i \in 1..Depth(t) :
           /\ frames'[t][i].prevMsg = frames[t][i].prevMsg
           /\ frames'[t][i].seesData = frames[t][i].seesData
           /\ frames'[t][i].pc = IF i = Depth(t) THEN "recreate"
                                 ELSE frames[t][i].pc
  BY <1>1, ResetFacts
<1>4. Top(t) = frames[t][Depth(t)] /\ Depth(t) \in 1..Depth(t)
  BY <1>1, <1>2, StackFacts
<1>5. \A u \in Thread : (Busy(u)' <=> Busy(u))
  <2>1. \A u \in Thread : Busy(u) <=> Depth(u) > 0
    BY <1>1, StackFacts
  <2>2. \A u \in Thread : frames'[u] \in Seq(Frames)
    BY DEF TypeOK
  <2>3. \A u \in Thread : Busy(u)' <=> Depth(u)' > 0
    BY <2>2 DEF Busy, Depth
  <2>4. QED
    BY <1>3, <2>1, <2>3
<1>6. Only(t)'
  BY <1>5 DEF Only
<1>7. ~resetShared'
  BY <1>2 DEF SafeAt, Only, Others, Busy
<1>8. Top(t)' = frames'[t][Depth(t)]
  BY <1>3 DEF Top
<1>9. ~refused => PointingAt(t)'
  <2> SUFFICES ASSUME ~refused PROVE PointingAt(t)'
    OBVIOUS
  <2>1. PointingAt(t)
    BY DEF SafeAt
  <2>2. Top(t)'.pc = "recreate"
    BY <1>3, <1>4, <1>8
  <2>3. Below(currentMsg', t, Depth(t)')
    BY <1>2, <1>3, <2>1 DEF PointingAt, Entered
  <2>4. \A i \in 1..Depth(t)' :
          frames'[t][i].pc \in Entered => Below(frames'[t][i].prevMsg, t, i)
    BY <1>3, <2>1 DEF PointingAt, Entered
  <2>5. QED
    BY <1>2, <1>5, <2>2, <2>3, <2>4 DEF PointingAt, Entered
<1>10. SafeAt(t)'
  BY <1>2, <1>3, <1>7, <1>9 DEF SafeAt
<1>11. QED
  BY <1>6, <1>10, SafeFromOnlyNext

(* The frame enters, and remembers the message of the one below.           *)
LEMMA TakeMessageIsSafe ==
    ASSUME IInv, TypeOK', NEW t \in Thread, Only(t), SafeAt(t), TakeMessage(t)
    PROVE  Safe'
<1>1. TypeOK
  BY DEF IInv
<1>2. /\ Busy(t) /\ Top(t).pc = "message" /\ currentMsg' = Self(t)
      /\ UNCHANGED <<returnBuffer, undefined, shared, resetShared, refused>>
  BY DEF TakeMessage, At, Busy, history
<1>3. Top(t) \in Frames /\ Top(t) = frames[t][Depth(t)]
      /\ Depth(t) \in 1..Depth(t)
  BY <1>1, <1>2, StackFacts
<1> DEFINE new == [Top(t) EXCEPT !.prevMsg = currentMsg, !.pc = "lookup"]
<1>4. /\ new \in Frames /\ new.pc = "lookup" /\ new.prevMsg = currentMsg
      /\ new.seesData = Top(t).seesData
  BY <1>1, <1>3 DEF Frames, TypeOK
<1>5. frames' = [frames EXCEPT ![t] = [frames[t] EXCEPT ![Depth(t)] = new]]
  <2>1. frames' = [frames EXCEPT ![t][Depth(t)].prevMsg = currentMsg,
                                 ![t][Depth(t)].pc = "lookup"]
    BY DEF TakeMessage
  <2>2. frames \in [Thread -> Seq(Frames)] /\ frames[t] \in Seq(Frames)
    BY <1>1 DEF TypeOK
  <2>3. QED
    BY <1>3, <2>1, <2>2
<1> HIDE DEF new
<1>6. /\ OthersSame(t) /\ Depth(t)' = Depth(t) /\ Depth(t) > 0
      /\ \A i \in 1..Depth(t) : i # Depth(t) => frames'[t][i] = frames[t][i]
      /\ frames'[t][Depth(t)] = new
  BY <1>1, <1>2, <1>4, <1>5, TopFacts
<1>7. Only(t)'
  BY <1>1, <1>6, OnlyStays
<1>8. Busy(t)' /\ Top(t)' = new /\ Self(t)' = Self(t)
  BY <1>6 DEF Busy, Depth, Top, Self
<1>9. ~refused => PointingAt(t)'
  <2> SUFFICES ASSUME ~refused PROVE PointingAt(t)'
    OBVIOUS
  <2>1. PointingAt(t)
    BY DEF SafeAt
  <2>2. Below(currentMsg, t, Depth(t))
    BY <1>2, <2>1 DEF PointingAt, Entered
  <2>3. ASSUME NEW i \in 1..Depth(t), frames'[t][i].pc \in Entered
        PROVE  Below(frames'[t][i].prevMsg, t, i)
    <3>1. CASE i = Depth(t)
      BY <1>4, <1>6, <2>2, <3>1
    <3>2. CASE i # Depth(t)
      BY <1>6, <2>1, <2>3, <3>2 DEF PointingAt
    <3>3. QED
      BY <3>1, <3>2
  <2>4. QED
    BY <1>2, <1>4, <1>6, <1>8, <2>3 DEF PointingAt, Entered
<1>10. \A i \in 1..Depth(t)' : frames'[t][i].seesData => returnBuffer' = <<t, i>>
  <2>1. \A i \in 1..Depth(t) : frames'[t][i].seesData = frames[t][i].seesData
    BY <1>3, <1>4, <1>6
  <2>2. QED
    BY <1>2, <1>6, <2>1 DEF SafeAt
<1>11. SafeAt(t)'
  BY <1>2, <1>9, <1>10 DEF SafeAt
<1>12. QED
  BY <1>7, <1>11, SafeFromOnlyNext

(* The frame that calls is the one whose message is current.               *)
LEMMA CallIsSafe ==
    ASSUME IInv, TypeOK', NEW t \in Thread, NEW id \in Id, Only(t), SafeAt(t),
           Call(t, id)
    PROVE  Safe'
<1>1. TypeOK /\ Stacks
  BY DEF IInv
<1>2. /\ Busy(t) /\ Top(t).pc = "run"
      /\ UNCHANGED <<currentMsg, returnBuffer, undefined, shared, resetShared,
                     refused>>
  BY DEF Call, Running, At, Busy, machine, history
<1> DEFINE new == NewFrame(id, "message")
<1>3. /\ OthersSame(t) /\ Depth(t)' = Depth(t) + 1
      /\ \A i \in 1..Depth(t) :
           /\ frames'[t][i].pc = frames[t][i].pc
           /\ frames'[t][i].prevMsg = frames[t][i].prevMsg
           /\ i < Depth(t) => frames'[t][i].seesData = frames[t][i].seesData
      /\ ~frames'[t][Depth(t)].seesData
      /\ frames'[t][Depth(t) + 1] = new
  BY <1>1, CalledFacts
<1>4. new.pc = "message" /\ new.seesData = FALSE
  BY NewFrameFacts
<1> HIDE DEF new
<1>5. Depth(t) \in Nat /\ Depth(t) > 0
  BY <1>1, <1>2, StackFacts
<1>6. Only(t)'
  BY <1>1, <1>3, OnlyStays
<1>7. Top(t)' = new /\ \A i \in 1..Depth(t)' : i = Depth(t) + 1 \/ i \in 1..Depth(t)
  BY <1>3, <1>5 DEF Top
<1>8. ASSUME NEW i \in 1..Depth(t)' PROVE ~frames'[t][i].seesData
  <2>1. CASE i = Depth(t) + 1
    BY <1>3, <1>4, <2>1
  <2>2. CASE i = Depth(t)
    BY <1>3, <2>2
  <2>3. CASE i \in 1..Depth(t) /\ i < Depth(t)
    BY <1>1, <1>3, <2>3 DEF Stacks, FrameOk
  <2>4. QED
    BY <1>5, <1>7, <2>1, <2>2, <2>3
<1>9. ~refused => PointingAt(t)'
  <2> SUFFICES ASSUME ~refused PROVE PointingAt(t)'
    OBVIOUS
  <2>1. PointingAt(t)
    BY DEF SafeAt
  <2>2. currentMsg = <<t, Depth(t)>>
    BY <1>2, <2>1 DEF PointingAt, Entered, Self
  <2>3. Below(currentMsg', t, Depth(t)')
    BY <1>2, <1>3, <1>5, <2>2 DEF Below
  <2>4. ASSUME NEW i \in 1..Depth(t)', frames'[t][i].pc \in Entered
        PROVE  Below(frames'[t][i].prevMsg, t, i)
    <3>1. CASE i = Depth(t) + 1
      BY <1>3, <1>4, <2>4, <3>1 DEF Entered
    <3>2. CASE i \in 1..Depth(t)
      BY <1>3, <2>1, <2>4, <3>2 DEF PointingAt
    <3>3. QED
      BY <1>7, <3>1, <3>2
  <2>5. Busy(t)'
    BY <1>3, <1>5 DEF Busy, Depth
  <2>6. QED
    BY <1>4, <1>7, <2>3, <2>4, <2>5 DEF PointingAt, Entered
<1>10. SafeAt(t)'
  BY <1>2, <1>8, <1>9 DEF SafeAt
<1>11. QED
  BY <1>6, <1>10, SafeFromOnlyNext

(* The message before is restored, and it is that of the frame below.      *)
LEMMA ReturnIsSafe ==
    ASSUME IInv, TypeOK', NEW t \in Thread, Only(t), SafeAt(t), Return(t)
    PROVE  Safe'
<1>1. TypeOK /\ Stacks
  BY DEF IInv
<1>2. /\ Busy(t) /\ Top(t).pc = "run"
      /\ returnBuffer' = IF Depth(t) = 1 THEN Freed(t, returnBuffer)
                         ELSE <<t, Depth(t) - 1>>
      /\ currentMsg' = Freed(t, Top(t).prevMsg)
      /\ UNCHANGED <<undefined, shared, resetShared, refused>>
  BY DEF Return, Running, At, Busy, history
<1>3. /\ OthersSame(t) /\ Depth(t)' = Depth(t) - 1
      /\ \A i \in 1..Depth(t) - 1 :
           /\ frames'[t][i].pc = frames[t][i].pc
           /\ i < Depth(t) - 1 => frames'[t][i].seesData = frames[t][i].seesData
           /\ frames'[t][i].prevMsg = Freed(t, frames[t][i].prevMsg)
  BY <1>1, ReturnedFacts
<1>4. /\ Depth(t) \in Nat /\ Depth(t) > 0 /\ Depth(t) \in 1..Depth(t)
      /\ Top(t) = frames[t][Depth(t)]
  BY <1>1, <1>2, StackFacts
<1>5. Only(t)'
  BY <1>1, <1>3, OnlyStays
<1>6. /\ Busy(t)' => Depth(t) > 1
      /\ ~Busy(t)' => Depth(t) = 1
  <2>1. frames'[t] \in Seq(Frames)
    BY DEF TypeOK
  <2>2. Busy(t)' <=> Depth(t)' > 0
    BY <2>1 DEF Busy, Depth
  <2>3. QED
    BY <1>3, <1>4, <2>2
<1>7. ASSUME NEW i \in 1..Depth(t) - 1
      PROVE  /\ i \in 1..Depth(t) /\ i < Depth(t) /\ frames[t][i].pc = "run"
             /\ ~frames[t][i].seesData
  <2>1. i \in 1..Depth(t) /\ i < Depth(t)
    BY <1>4
  <2>2. QED
    BY <1>1, <2>1 DEF Stacks, FrameOk
<1>8. ASSUME NEW i \in 1..Depth(t)', frames'[t][i].seesData
      PROVE  returnBuffer' = <<t, i>>
  <2>1. i \in 1..Depth(t) - 1
    BY <1>3
  <2>2. i = Depth(t) - 1
    BY <1>3, <1>4, <1>7, <1>8, <2>1
  <2>3. Depth(t) # 1
    BY <1>4, <2>1
  <2>4. QED
    BY <1>2, <2>2, <2>3
<1>9. ASSUME NEW pointer, NEW i \in 1..Depth(t), Below(pointer, t, i)
      PROVE  Below(Freed(t, pointer), t, i)
  <2>1. CASE i > 1
    <3>1. pointer = <<t, i - 1>> /\ i - 1 # Depth(t)
      BY <1>4, <1>9, <2>1 DEF Below
    <3>2. pointer # Self(t)
      BY <3>1 DEF Self
    <3>3. QED
      BY <1>9, <3>2 DEF Freed
  <2>2. CASE ~(i > 1)
    BY <1>9, <2>2 DEF Below, Freed
  <2>3. QED
    BY <2>1, <2>2
<1>10. ~refused => PointingAt(t)'
  <2> SUFFICES ASSUME ~refused PROVE PointingAt(t)'
    OBVIOUS
  <2>1. PointingAt(t)
    BY DEF SafeAt
  <2>2. Below(Top(t).prevMsg, t, Depth(t))
    BY <1>2, <1>4, <2>1 DEF PointingAt, Entered
  <2>3. Below(currentMsg', t, Depth(t))
    BY <1>2, <1>4, <1>9, <2>2
  <2>4. ASSUME NEW i \in 1..Depth(t)'
        PROVE  Below(frames'[t][i].prevMsg, t, i)
    <3>1. i \in 1..Depth(t) - 1
      BY <1>3
    <3>2. i \in 1..Depth(t) /\ frames[t][i].pc = "run"
      BY <1>7, <3>1
    <3>3. Below(frames[t][i].prevMsg, t, i)
      BY <2>1, <3>2 DEF PointingAt, Entered
    <3>4. QED
      BY <1>3, <1>9, <3>1, <3>2, <3>3
  <2>5. CASE Busy(t)'
    <3>1. Depth(t) - 1 \in 1..Depth(t) - 1 /\ Depth(t) > 1
      BY <1>4, <1>6, <2>5
    <3>2. Top(t)' = frames'[t][Depth(t) - 1] /\ Self(t)' = <<t, Depth(t) - 1>>
      BY <1>3 DEF Top, Self
    <3>3. Top(t)'.pc = "run"
      BY <1>3, <1>7, <3>1, <3>2
    <3>4. currentMsg' = Self(t)'
      BY <2>3, <3>1, <3>2 DEF Below
    <3>5. QED
      BY <2>4, <2>5, <3>3, <3>4 DEF PointingAt, Entered
  <2>6. CASE ~Busy(t)'
    BY <1>6, <2>3, <2>4, <2>6 DEF PointingAt, Below
  <2>7. QED
    BY <2>5, <2>6
<1>11. SafeAt(t)'
  BY <1>2, <1>8, <1>10 DEF SafeAt
<1>12. QED
  BY <1>5, <1>11, SafeFromOnlyNext

(* A refused execution leaves its message behind, but no data.             *)
LEMMA RefusedIsSafe ==
    ASSUME IInv, TypeOK', NEW t \in Thread, Only(t), SafeAt(t),
           LookUpRejects(t) \/ CompileFails(t)
    PROVE  Safe'
<1>1. TypeOK /\ Stacks
  BY DEF IInv
<1>2. /\ frames' = Popped(t) /\ refused' = TRUE
      /\ UNCHANGED <<undefined, shared, resetShared>> /\ Busy(t)
  BY DEF LookUpRejects, CompileFails, Counted, At, Busy
<1>3. /\ OthersSame(t) /\ Depth(t)' = Depth(t) - 1
      /\ \A i \in 1..Depth(t) - 1 : Same(frames'[t][i], frames[t][i])
  BY <1>1, <1>2, EndedFacts
<1>4. Depth(t) \in Nat
  BY <1>1, StackFacts
<1>5. Only(t)'
  BY <1>1, <1>3, OnlyStays
<1>6. ASSUME NEW i \in 1..Depth(t)' PROVE ~frames'[t][i].seesData
  <2>1. i \in 1..Depth(t) - 1 /\ i \in 1..Depth(t) /\ i < Depth(t)
    BY <1>3, <1>4
  <2>2. ~frames[t][i].seesData
    BY <1>1, <2>1 DEF Stacks, FrameOk
  <2>3. QED
    BY <1>3, <2>1, <2>2 DEF Same
<1>7. SafeAt(t)'
  BY <1>2, <1>6 DEF SafeAt
<1>8. QED
  BY <1>5, <1>7, SafeFromOnlyNext

(* A thread that begins while nobody is in execute() is alone.             *)
LEMMA BeginIsSafe ==
    ASSUME IInv, TypeOK', Safe, NEW t \in Thread, NEW id \in Id, Begin(t, id),
           ~shared'
    PROVE  Safe'
<1>1. TypeOK
  BY DEF IInv
<1> DEFINE new == NewFrame(id, "check")
<1>2. /\ ~Busy(t) /\ ~shared /\ Others(t) = {}
      /\ frames' = [frames EXCEPT ![t] = <<new>>]
      /\ UNCHANGED <<currentMsg, returnBuffer, undefined, resetShared, refused>>
  BY DEF Begin, Busy, machine
<1>3. new.pc = "check" /\ new.seesData = FALSE
  BY NewFrameFacts
<1> HIDE DEF new
<1>4. frames'[t] = <<new>> /\ \A u \in Thread : u # t => frames'[u] = frames[u]
  BY <1>1, <1>2 DEF TypeOK
<1>5. \A u \in Thread : ~Busy(u)
  BY <1>2 DEF Others, Busy
<1>6. Only(t)'
  BY <1>4, <1>5 DEF Only, Busy
<1>7. Depth(t)' = 1 /\ frames'[t][1] = new /\ Top(t)' = new
  BY <1>4 DEF Depth, Top
<1>8. \A i \in 1..Depth(t)' : i = 1
  BY <1>7
<1>9. ~refused => PointingAt(t)'
  <2> SUFFICES ASSUME ~refused PROVE PointingAt(t)'
    OBVIOUS
  <2>1. currentMsg' \in {Null, Dangling}
    BY <1>2, <1>5 DEF Safe, Pointing
  <2>2. Below(currentMsg', t, Depth(t)')
    BY <1>7, <2>1 DEF Below
  <2>3. \A i \in 1..Depth(t)' : frames'[t][i].pc \notin Entered
    BY <1>3, <1>7, <1>8 DEF Entered
  <2>4. QED
    BY <1>3, <1>7, <2>1, <2>2, <2>3 DEF PointingAt, Entered
<1>10. SafeAt(t)'
  BY <1>2, <1>3, <1>7, <1>8, <1>9 DEF SafeAt, Safe
<1>11. QED
  BY <1>6, <1>10, SafeFromOnlyNext

(* Only a thread in execute() takes a step, and only the host begins.      *)
LEMMA StepFacts ==
    ASSUME NEW t \in Thread, Step(t) PROVE Busy(t) /\ shared' = shared
<1>1. CASE CheckMemory(t) \/ CompileBegins(t)
  BY <1>1 DEF CheckMemory, CompileBegins, At, Busy, history
<1>2. CASE CheckGoneEngine(t) \/ ResetUnderCompiler(t)
  BY <1>2 DEF CheckGoneEngine, ResetUnderCompiler, MeetsReset, At, Busy
<1>3. CASE Reset(t)
  BY <1>3 DEF Reset, At, Busy
<1>4. CASE Recreate(t) \/ TakeMessage(t)
  BY <1>4 DEF Recreate, TakeMessage, At, Busy, history
<1>5. CASE LookUpFinds(t) \/ LookUpMisses(t)
  BY <1>5 DEF LookUpFinds, LookUpMisses, Counted, At, Busy, history
<1>6. CASE LookUpRejects(t)
  BY <1>6 DEF LookUpRejects, Counted, At, Busy
<1>7. CASE CompileTogether(t) \/ CompileWithoutEngine(t) \/ RunsDead(t)
  BY <1>7 DEF CompileTogether, CompileWithoutEngine, RunsDead, At, Busy, history
<1>8. CASE CompileEnds(t) \/ Map(t)
  BY <1>8 DEF CompileEnds, Map, At, Busy, history
<1>9. CASE CompileFails(t)
  BY <1>9 DEF CompileFails, At, Busy
<1>10. CASE (\E id \in Id : Call(t, id)) \/ Return(t)
  BY <1>10 DEF Call, Return, Running, At, Busy, history
<1>11. QED
  BY <1>1, <1>2, <1>3, <1>4, <1>5, <1>6, <1>7, <1>8, <1>9, <1>10 DEF Step

LEMMA NextIsSafe == IInv /\ Safe /\ IInv' /\ [Next]_vars => Safe'
<1> SUFFICES ASSUME IInv, Safe, IInv', [Next]_vars, ~shared' PROVE Safe'
  BY DEF Safe
<1>1. TypeOK' /\ TypeOK
  BY DEF IInv
<1>2. CASE UNCHANGED vars
  BY <1>2 DEF Safe, Alone, Busy, Depth, Pointing, Top, Self, vars, machine,
     history
<1>3. ASSUME NEW t \in Thread, NEW id \in Id, Begin(t, id) PROVE Safe'
  BY <1>1, <1>3, BeginIsSafe
<1>4. ASSUME NEW t \in Thread, Step(t) PROVE Safe'
  <2>1. ~shared /\ Busy(t)
    BY <1>4, StepFacts
  <2>2. Only(t) /\ SafeAt(t)
    BY <2>1, AloneFacts
  <2>3. CASE \/ CheckMemory(t) \/ Recreate(t) \/ LookUpFinds(t)
             \/ LookUpMisses(t) \/ CompileBegins(t) \/ CompileEnds(t) \/ Map(t)
    BY <1>1, <2>2, <2>3, MovesAreSafe
  <2>4. CASE \/ CheckGoneEngine(t) \/ ResetUnderCompiler(t)
             \/ CompileTogether(t) \/ CompileWithoutEngine(t) \/ RunsDead(t)
    BY <2>2, <2>4, NobodyMeets
  <2>5. CASE Reset(t)
    BY <1>1, <2>2, <2>5, ResetIsSafe
  <2>6. CASE TakeMessage(t)
    BY <1>1, <2>2, <2>6, TakeMessageIsSafe
  <2>7. CASE \E id \in Id : Call(t, id)
    BY <1>1, <2>2, <2>7, CallIsSafe
  <2>8. CASE Return(t)
    BY <1>1, <2>2, <2>8, ReturnIsSafe
  <2>9. CASE LookUpRejects(t) \/ CompileFails(t)
    BY <1>1, <2>2, <2>9, RefusedIsSafe
  <2>10. QED
    BY <1>4, <2>3, <2>4, <2>5, <2>6, <2>7, <2>8, <2>9 DEF Step
<1>5. QED
  BY <1>2, <1>3, <1>4 DEF Next

LEMMA SafeHolds == Spec => []Safe
<1>1. Init => Safe
  <2> SUFFICES ASSUME Init PROVE Safe
    OBVIOUS
  <2>1. \A t \in Thread : ~Busy(t) /\ Depth(t) = 0
    BY DEF Init, Busy, Depth
  <2>2. Pointing
    BY <2>1 DEF Init, Pointing
  <2>3. QED
    BY <2>1, <2>2 DEF Init, Safe, Alone
<1>2. QED
  BY <1>1, NextIsSafe, InvariantHolds, PTL DEF Spec

(* A host that lets one thread at a time into execute() is safe: nothing   *)
(* is undefined, a frame that keeps a pointer to the buffer for return     *)
(* data finds its own data in it, and call() derives the message of a      *)
(* callee from that of the running frame, unless a refused execution left  *)
(* its own behind (JIT.cpp:166, 200, 417, 448-463).                        *)
THEOREM OneThreadAtATime == Spec => []OneAtATimeIsSafe
<1>1. IInv /\ Safe => OneAtATimeIsSafe
  <2> SUFFICES ASSUME IInv, Safe, ~shared
               PROVE  /\ undefined = "no"
                      /\ \A f \in AllFrames :
                           FrameOf(f).seesData => returnBuffer = f
                      /\ ~refused =>
                           \A t \in Thread : Running(t) => currentMsg = Self(t)
    BY DEF OneAtATimeIsSafe
  <2>1. TypeOK
    BY DEF IInv
  <2>2. ASSUME NEW f \in AllFrames, FrameOf(f).seesData PROVE returnBuffer = f
    <3>1. f[1] \in Thread /\ f[2] \in 1..Depth(f[1])
          /\ FrameOf(f) = frames[f[1]][f[2]] /\ f = <<f[1], f[2]>>
      BY <2>1, AllFramesFacts
    <3>2. returnBuffer = <<f[1], f[2]>>
      BY <2>2, <3>1 DEF Safe
    <3>3. QED
      BY <3>1, <3>2
  <2>3. ASSUME ~refused, NEW t \in Thread, Running(t) PROVE currentMsg = Self(t)
    BY <2>3 DEF Safe, Pointing, Running, At, Busy, Entered
  <2>4. QED
    BY <2>2, <2>3 DEF Safe
<1>2. QED
  BY <1>1, InvariantHolds, SafeHolds, PTL

-----------------------------------------------------------------------------
(* How often a code is compiled.                                           *)

AtWorkOn(t, id, pcs) == Busy(t) /\ Top(t).id = id /\ Top(t).pc \in pcs

DuplicatesOf(id) ==
    /\ modules[id] + Cardinality(ToCompile(id)) <= Cardinality(Thread)
    /\ codeMap[id].func = NoFunc => modules[id] <= Cardinality(ToMap(id))

LEMMA WorkFacts ==
    ASSUME NEW id, NEW pcs
    PROVE  /\ AtWork(id, pcs) \subseteq Thread
           /\ \A t \in Thread : t \in AtWork(id, pcs) <=> AtWorkOn(t, id, pcs)
  BY DEF AtWork, AtWorkOn

(* A step of a thread changes at most what that thread is at work on.      *)
LEMMA WorkSteps ==
    ASSUME TypeOK, TypeOK', NEW t \in Thread, OthersSame(t), NEW id \in Id,
           NEW pcs
    PROVE  AtWork(id, pcs)' = IF AtWorkOn(t, id, pcs)'
                              THEN AtWork(id, pcs) \cup {t}
                              ELSE AtWork(id, pcs) \ {t}
<1>1. \A u \in Thread : u # t =>
        (AtWorkOn(u, id, pcs)' <=> AtWorkOn(u, id, pcs))
  BY OthersFacts DEF AtWorkOn
<1>2. /\ AtWork(id, pcs)' \subseteq Thread
      /\ \A u \in Thread : u \in AtWork(id, pcs)' <=> AtWorkOn(u, id, pcs)'
  BY DEF AtWork, AtWorkOn
<1>3. /\ AtWork(id, pcs) \subseteq Thread
      /\ \A u \in Thread : u \in AtWork(id, pcs) <=> AtWorkOn(u, id, pcs)
  BY WorkFacts
<1>4. QED
  BY <1>1, <1>2, <1>3

LEMMA CardinalFacts ==
    ASSUME IsFiniteSet(Thread), NEW S \in SUBSET Thread, NEW t \in Thread
    PROVE  /\ IsFiniteSet(S) /\ Cardinality(S) \in Nat
           /\ Cardinality(S) <= Cardinality(Thread)
           /\ Cardinality(Thread) \in Nat
           /\ t \notin S => Cardinality(S \cup {t}) = Cardinality(S) + 1
           /\ t \in S => Cardinality(S \ {t}) = Cardinality(S) - 1
<1>1. IsFiniteSet(S) /\ Cardinality(S) <= Cardinality(Thread)
  BY FS_Subset
<1>2. Cardinality(S) \in Nat /\ Cardinality(Thread) \in Nat
  BY <1>1, FS_CardinalityType
<1>3. t \notin S => Cardinality(S \cup {t}) = Cardinality(S) + 1
  BY <1>1, FS_AddElement
<1>4. t \in S => Cardinality(S \ {t}) = Cardinality(S) - 1
  BY <1>1, FS_RemoveElement
<1>5. QED
  BY <1>1, <1>2, <1>3, <1>4

(* A step of a thread that neither was at work on a code nor is.           *)
LEMMA IdleKeepsDuplicates ==
    ASSUME TypeOK, TypeOK', Duplicates, NEW t \in Thread, OthersSame(t),
           Busy(t) => Top(t).pc \notin {"compile", "compiling", "map"},
           Busy(t)' => Top(t)'.pc \notin {"compile", "compiling", "map"},
           modules' = modules, failed' = failed,
           \A id \in Id : codeMap'[id].func = codeMap[id].func
    PROVE  Duplicates'
<1> SUFFICES ASSUME ~failed, NEW id \in Id PROVE DuplicatesOf(id)'
  BY DEF Duplicates, DuplicatesOf
<1>1. DuplicatesOf(id)
  BY DEF Duplicates, DuplicatesOf
<1>2. ASSUME NEW pcs \in SUBSET {"compile", "compiling", "map"}
      PROVE  AtWork(id, pcs)' = AtWork(id, pcs)
  <2>1. ~AtWorkOn(t, id, pcs) /\ ~AtWorkOn(t, id, pcs)'
    BY DEF AtWorkOn
  <2>2. t \notin AtWork(id, pcs)
    BY <2>1, WorkFacts
  <2>3. AtWork(id, pcs)' = AtWork(id, pcs) \ {t}
    BY <2>1, WorkSteps
  <2>4. QED
    BY <2>2, <2>3
<1>3. ToCompile(id)' = ToCompile(id)
  BY <1>2 DEF ToCompile
<1>4. ToMap(id)' = ToMap(id)
  BY <1>2 DEF ToMap
<1>5. QED
  BY <1>1, <1>3, <1>4 DEF DuplicatesOf

(* Every thread may have missed the code, and be compiling it or about to  *)
(* map it: the next that misses it is one more of them.                    *)
LEMMA LookUpMissesDuplicates ==
    ASSUME IInv, TypeOK', Duplicates, IsFiniteSet(Thread), NEW t \in Thread,
           LookUpMisses(t)
    PROVE  Duplicates'
<1>1. TypeOK
  BY DEF IInv
<1> DEFINE missed == Top(t).id
<1>2. /\ Counted(t) /\ codeMap[missed].func = NoFunc
      /\ modules' = modules /\ failed' = failed
  BY DEF LookUpMisses, history
<1>3. /\ Busy(t) /\ Top(t).pc = "lookup"
      /\ \A id \in Id : codeMap'[id].func = codeMap[id].func
  BY <1>1, <1>2, CountedFacts
<1>4. /\ OthersSame(t) /\ Busy(t)' /\ Top(t)'.id = missed
      /\ Top(t)'.pc = "compile"
  BY <1>1, LookUpMissesMoves DEF Moved
<1> SUFFICES ASSUME ~failed, NEW id \in Id PROVE DuplicatesOf(id)'
  BY <1>2 DEF Duplicates, DuplicatesOf
<1>5. DuplicatesOf(id)
  BY DEF Duplicates, DuplicatesOf
<1>6. /\ t \notin ToCompile(id) /\ t \notin ToMap(id)
      /\ ToCompile(id) \subseteq Thread /\ ToMap(id) \subseteq Thread
      /\ ToCompile(id) \cap ToMap(id) = {}
  BY <1>3 DEF ToCompile, ToMap, AtWork
<1>7. ToMap(id)' = ToMap(id)
  <2>1. ~AtWorkOn(t, id, {"map"})'
    BY <1>4 DEF AtWorkOn
  <2>2. AtWork(id, {"map"})' = AtWork(id, {"map"}) \ {t}
    BY <1>1, <1>4, <2>1, WorkSteps
  <2>3. QED
    BY <1>6, <2>2 DEF ToMap
<1>8. CASE id # missed
  <2>1. ~AtWorkOn(t, id, {"compile", "compiling"})'
    BY <1>4, <1>8 DEF AtWorkOn
  <2>2. AtWork(id, {"compile", "compiling"})' =
          AtWork(id, {"compile", "compiling"}) \ {t}
    BY <1>1, <1>4, <2>1, WorkSteps
  <2>3. ToCompile(id)' = ToCompile(id)
    BY <1>6, <2>2 DEF ToCompile
  <2>4. QED
    BY <1>2, <1>3, <1>5, <1>7, <2>3 DEF DuplicatesOf
<1>9. CASE id = missed
  <2>1. AtWorkOn(t, id, {"compile", "compiling"})'
    BY <1>4, <1>9 DEF AtWorkOn
  <2>2. AtWork(id, {"compile", "compiling"})' =
          AtWork(id, {"compile", "compiling"}) \cup {t}
    BY <1>1, <1>4, <2>1, WorkSteps
  <2>3. ToCompile(id)' = ToCompile(id) \cup {t}
    BY <2>2 DEF ToCompile
  <2> DEFINE all == (ToCompile(id) \cup {t}) \cup ToMap(id)
  <2>4. /\ IsFiniteSet(ToCompile(id) \cup {t}) /\ IsFiniteSet(ToMap(id))
        /\ Cardinality(ToCompile(id) \cup {t}) \in Nat
        /\ Cardinality(ToMap(id)) \in Nat
        /\ Cardinality(Thread) \in Nat
        /\ Cardinality(all) <= Cardinality(Thread)
    <3>1. (ToCompile(id) \cup {t}) \subseteq Thread /\ all \subseteq Thread
      BY <1>6
    <3>2. QED
      BY <1>6, <3>1, CardinalFacts
  <2>5. (ToCompile(id) \cup {t}) \cap ToMap(id) = {}
    BY <1>6
  <2>6. Cardinality(all) =
          Cardinality(ToCompile(id) \cup {t}) + Cardinality(ToMap(id))
    <3>1. Cardinality((ToCompile(id) \cup {t}) \cap ToMap(id)) = 0
      BY <2>5, FS_EmptySet
    <3>2. Cardinality(all) =
            Cardinality(ToCompile(id) \cup {t}) + Cardinality(ToMap(id))
              - Cardinality((ToCompile(id) \cup {t}) \cap ToMap(id))
      BY <2>4, FS_Union
    <3> HIDE DEF all
    <3>3. QED
      BY <2>4, <3>1, <3>2
  <2>7. modules[id] <= Cardinality(ToMap(id)) /\ modules[id] \in Nat
    BY <1>1, <1>2, <1>5, <1>9 DEF DuplicatesOf, TypeOK
  <2> HIDE DEF all
  <2>8. modules[id] + Cardinality(ToCompile(id) \cup {t}) <= Cardinality(Thread)
    BY <2>4, <2>6, <2>7
  <2>9. QED
    BY <1>2, <1>3, <1>5, <1>7, <2>3, <2>8 DEF DuplicatesOf
<1>10. QED
  BY <1>8, <1>9

LEMMA CompileBeginsDuplicates ==
    ASSUME IInv, TypeOK', Duplicates, NEW t \in Thread, CompileBegins(t)
    PROVE  Duplicates'
<1>1. TypeOK
  BY DEF IInv
<1>2. /\ Top(t).pc = "compile" /\ codeMap' = codeMap /\ modules' = modules
      /\ failed' = failed
  BY DEF CompileBegins, At, machine, history
<1>3. /\ OthersSame(t) /\ Busy(t) /\ Busy(t)' /\ Top(t)'.id = Top(t).id
      /\ Top(t)'.pc = "compiling"
  BY <1>1, CompileBeginsMoves DEF Moved
<1> SUFFICES ASSUME ~failed, NEW id \in Id PROVE DuplicatesOf(id)'
  BY <1>2 DEF Duplicates, DuplicatesOf
<1>4. DuplicatesOf(id)
  BY DEF Duplicates, DuplicatesOf
<1>5. ASSUME NEW pcs \in {{"compile", "compiling"}, {"map"}}
      PROVE  AtWork(id, pcs)' = AtWork(id, pcs)
  <2>1. AtWorkOn(t, id, pcs)' <=> AtWorkOn(t, id, pcs)
    BY <1>2, <1>3 DEF AtWorkOn
  <2>2. t \in AtWork(id, pcs) <=> AtWorkOn(t, id, pcs)
    BY WorkFacts
  <2>3. AtWork(id, pcs)' = IF AtWorkOn(t, id, pcs)'
                           THEN AtWork(id, pcs) \cup {t}
                           ELSE AtWork(id, pcs) \ {t}
    BY <1>1, <1>3, WorkSteps
  <2>4. QED
    BY <2>1, <2>2, <2>3
<1>6. ToCompile(id)' = ToCompile(id) /\ ToMap(id)' = ToMap(id)
  BY <1>5 DEF ToCompile, ToMap
<1>7. QED
  BY <1>2, <1>4, <1>6 DEF DuplicatesOf

(* A thread compiles the code, and it has yet to map it.                   *)
LEMMA CompileEndsDuplicates ==
    ASSUME IInv, TypeOK', Duplicates, IsFiniteSet(Thread), NEW t \in Thread,
           CompileEnds(t)
    PROVE  Duplicates'
<1>1. TypeOK
  BY DEF IInv
<1> DEFINE made == Top(t).id
<1>2. /\ Top(t).pc = "compiling" /\ codeMap' = codeMap /\ failed' = failed
      /\ modules' = [modules EXCEPT ![made] = @ + 1]
  BY DEF CompileEnds, At, history
<1>3. /\ OthersSame(t) /\ Busy(t) /\ Busy(t)' /\ Top(t)'.id = made
      /\ Top(t)'.pc = "map"
  BY <1>1, CompileEndsMoves DEF Moved
<1> SUFFICES ASSUME ~failed, NEW id \in Id PROVE DuplicatesOf(id)'
  BY <1>2 DEF Duplicates, DuplicatesOf
<1>4. DuplicatesOf(id)
  BY DEF Duplicates, DuplicatesOf
<1>5. /\ AtWork(id, {"compile", "compiling"})' =
           AtWork(id, {"compile", "compiling"}) \ {t}
      /\ AtWork(id, {"map"})' = IF id = made THEN AtWork(id, {"map"}) \cup {t}
                                ELSE AtWork(id, {"map"}) \ {t}
  <2>1. ~AtWorkOn(t, id, {"compile", "compiling"})'
    BY <1>3 DEF AtWorkOn
  <2>2. AtWorkOn(t, id, {"map"})' <=> id = made
    BY <1>3 DEF AtWorkOn
  <2>3. QED
    BY <1>1, <1>3, <2>1, <2>2, WorkSteps
<1>6. /\ ToCompile(id) \subseteq Thread /\ ToMap(id) \subseteq Thread
      /\ t \notin ToMap(id) /\ (t \in ToCompile(id) <=> id = made)
  BY <1>2, <1>3 DEF ToCompile, ToMap, AtWork
<1>7. CASE id # made
  <2>1. ToCompile(id)' = ToCompile(id) /\ ToMap(id)' = ToMap(id)
    BY <1>5, <1>6, <1>7 DEF ToCompile, ToMap
  <2>2. modules'[id] = modules[id]
    BY <1>1, <1>2, <1>7 DEF TypeOK
  <2>3. QED
    BY <1>2, <1>4, <2>1, <2>2 DEF DuplicatesOf
<1>8. CASE id = made
  <2>1. ToCompile(id)' = ToCompile(id) \ {t} /\ ToMap(id)' = ToMap(id) \cup {t}
    BY <1>5, <1>8 DEF ToCompile, ToMap
  <2>2. modules'[id] = modules[id] + 1 /\ modules[id] \in Nat
    BY <1>1, <1>2, <1>8 DEF TypeOK
  <2>3. /\ Cardinality(ToCompile(id) \ {t}) = Cardinality(ToCompile(id)) - 1
        /\ Cardinality(ToCompile(id)) \in Nat
        /\ Cardinality(Thread) \in Nat
    BY <1>6, <1>8, CardinalFacts
  <2>4. /\ Cardinality(ToMap(id) \cup {t}) = Cardinality(ToMap(id)) + 1
        /\ Cardinality(ToMap(id)) \in Nat
    BY <1>6, CardinalFacts
  <2>5. modules'[id] + Cardinality(ToCompile(id))' <= Cardinality(Thread)
    BY <1>4, <2>1, <2>2, <2>3 DEF DuplicatesOf
  <2>6. codeMap'[id].func = NoFunc => modules'[id] <= Cardinality(ToMap(id))'
    BY <1>2, <1>4, <2>1, <2>2, <2>4 DEF DuplicatesOf
  <2>7. QED
    BY <2>5, <2>6 DEF DuplicatesOf
<1>9. QED
  BY <1>7, <1>8

(* Once one of them has mapped the code, no lookup misses it.              *)
LEMMA MapDuplicates ==
    ASSUME IInv, TypeOK', Duplicates, NEW t \in Thread, Map(t)
    PROVE  Duplicates'
<1>1. TypeOK /\ Stacks
  BY DEF IInv
<1> DEFINE made == Top(t).id
<1>2. /\ Busy(t) /\ Top(t).pc = "map" /\ modules' = modules
      /\ failed' = failed
      /\ codeMap' = [codeMap EXCEPT ![made].func = Top(t).func]
  BY DEF Map, At, Busy, history
<1>3. /\ OthersSame(t) /\ Busy(t)' /\ Top(t)'.id = made /\ Top(t)'.pc = "run"
  BY <1>1, MapMoves DEF Moved
<1>4. Top(t).func # NoFunc
  <2>1. Top(t) = frames[t][Depth(t)] /\ Depth(t) \in 1..Depth(t)
    BY <1>1, <1>2, StackFacts
  <2>2. FrameOk(t, Depth(t))
    BY <1>1, <2>1 DEF Stacks
  <2>3. QED
    BY <1>2, <2>1, <2>2 DEF FrameOk
<1> SUFFICES ASSUME ~failed, NEW id \in Id PROVE DuplicatesOf(id)'
  BY <1>2 DEF Duplicates, DuplicatesOf
<1>5. DuplicatesOf(id)
  BY DEF Duplicates, DuplicatesOf
<1>6. /\ AtWork(id, {"compile", "compiling"})' =
           AtWork(id, {"compile", "compiling"}) \ {t}
      /\ AtWork(id, {"map"})' = AtWork(id, {"map"}) \ {t}
  <2>1. /\ ~AtWorkOn(t, id, {"compile", "compiling"})'
        /\ ~AtWorkOn(t, id, {"map"})'
    BY <1>3 DEF AtWorkOn
  <2>2. QED
    BY <1>1, <1>3, <2>1, WorkSteps
<1>7. t \notin ToCompile(id) /\ (id # made => t \notin ToMap(id))
  BY <1>2 DEF ToCompile, ToMap, AtWork
<1>8. ToCompile(id)' = ToCompile(id) /\ (id # made => ToMap(id)' = ToMap(id))
  BY <1>6, <1>7 DEF ToCompile, ToMap
<1>9. codeMap'[id].func = IF id = made THEN Top(t).func ELSE codeMap[id].func
  BY <1>1, <1>2 DEF TypeOK
<1>10. QED
  BY <1>2, <1>4, <1>5, <1>8, <1>9 DEF DuplicatesOf

LEMMA ResetDuplicates ==
    ASSUME IInv, TypeOK', IsFiniteSet(Thread), NEW t \in Thread, Reset(t)
    PROVE  Duplicates'
<1> SUFFICES ASSUME NEW id \in Id PROVE DuplicatesOf(id)'
  BY DEF Duplicates, DuplicatesOf
<1>1. modules'[id] = 0
  BY DEF Reset
<1>2. ToCompile(id)' \in SUBSET Thread /\ ToMap(id)' \in SUBSET Thread
  BY DEF ToCompile, ToMap, AtWork
<1>3. /\ Cardinality(ToCompile(id)') \in Nat /\ Cardinality(ToMap(id)') \in Nat
      /\ Cardinality(ToCompile(id)') <= Cardinality(Thread)
      /\ Cardinality(Thread) \in Nat
  BY <1>2, CardinalFacts
<1>4. QED
  BY <1>1, <1>3 DEF DuplicatesOf

(* The frame below one that ends is in compiled code.                      *)
LEMMA BelowRuns ==
    ASSUME TypeOK, Stacks, TypeOK', NEW t \in Thread, Busy(t),
           Depth(t)' = Depth(t) - 1,
           \A i \in 1..Depth(t) - 1 : frames'[t][i].pc = frames[t][i].pc,
           Busy(t)'
    PROVE  Top(t)'.pc = "run"
<1>1. Depth(t) \in Nat /\ Depth(t) > 0
  BY StackFacts
<1>2. frames'[t] \in Seq(Frames)
  BY DEF TypeOK
<1>3. Depth(t)' > 0 /\ Top(t)' = frames'[t][Depth(t)']
  BY <1>2 DEF Busy, Depth, Top
<1>4. Depth(t) - 1 \in 1..Depth(t) - 1 /\ Depth(t) - 1 \in 1..Depth(t)
  BY <1>1, <1>3
<1>5. frames[t][Depth(t) - 1].pc = "run"
  BY <1>1, <1>4 DEF Stacks, FrameOk
<1>6. QED
  BY <1>3, <1>4, <1>5

LEMMA IdleStepsKeepDuplicates ==
    ASSUME IInv, TypeOK', Duplicates, NEW t \in Thread,
           \/ CheckMemory(t) \/ Recreate(t) \/ TakeMessage(t) \/ LookUpFinds(t)
           \/ LookUpRejects(t) \/ Return(t) \/ \E id \in Id : Call(t, id)
    PROVE  Duplicates'
<1>1. TypeOK /\ Stacks
  BY DEF IInv
<1>2. CASE CheckMemory(t)
  <2>1. /\ Top(t).pc = "check" /\ modules' = modules /\ failed' = failed
        /\ codeMap' = codeMap
    BY <1>2 DEF CheckMemory, At, machine, history
  <2>2. Moved(t, "reset") \/ Moved(t, "message")
    BY <1>1, <1>2, CheckMemoryMoves
  <2>3. OthersSame(t) /\ Top(t)'.pc \in {"reset", "message"}
    BY <2>2 DEF Moved
  <2>4. QED
    BY <1>1, <2>1, <2>3, IdleKeepsDuplicates
<1>3. CASE Recreate(t)
  <2>1. /\ Top(t).pc = "recreate" /\ modules' = modules /\ failed' = failed
        /\ codeMap' = codeMap
    BY <1>3 DEF Recreate, At, history
  <2>2. OthersSame(t) /\ Top(t)'.pc = "message"
    BY <1>1, <1>3, RecreateMoves DEF Moved
  <2>3. QED
    BY <1>1, <2>1, <2>2, IdleKeepsDuplicates
<1>4. CASE TakeMessage(t)
  <2>1. /\ Busy(t) /\ Top(t).pc = "message" /\ modules' = modules
        /\ failed' = failed /\ codeMap' = codeMap
    BY <1>4 DEF TakeMessage, At, Busy, history
  <2>2. Top(t) \in Frames /\ Top(t) = frames[t][Depth(t)]
        /\ Depth(t) \in 1..Depth(t)
    BY <1>1, <2>1, StackFacts
  <2> DEFINE new == [Top(t) EXCEPT !.prevMsg = currentMsg, !.pc = "lookup"]
  <2>3. new \in Frames /\ new.pc = "lookup"
    BY <1>1, <2>2 DEF Frames, TypeOK
  <2>4. frames' = [frames EXCEPT ![t] = [frames[t] EXCEPT ![Depth(t)] = new]]
    <3>1. frames' = [frames EXCEPT ![t][Depth(t)].prevMsg = currentMsg,
                                   ![t][Depth(t)].pc = "lookup"]
      BY <1>4 DEF TakeMessage
    <3>2. frames \in [Thread -> Seq(Frames)] /\ frames[t] \in Seq(Frames)
      BY <1>1 DEF TypeOK
    <3>3. QED
      BY <2>2, <3>1, <3>2
  <2> HIDE DEF new
  <2>5. OthersSame(t) /\ Depth(t)' = Depth(t) /\ frames'[t][Depth(t)] = new
    BY <1>1, <2>1, <2>3, <2>4, TopFacts
  <2>6. Top(t)'.pc = "lookup"
    BY <2>3, <2>5 DEF Top
  <2>7. QED
    BY <1>1, <2>1, <2>5, <2>6, IdleKeepsDuplicates
<1>5. CASE LookUpFinds(t)
  <2>1. Counted(t) /\ modules' = modules /\ failed' = failed
    BY <1>5 DEF LookUpFinds, history
  <2>2. /\ Top(t).pc = "lookup"
        /\ \A id \in Id : codeMap'[id].func = codeMap[id].func
    BY <1>1, <2>1, CountedFacts
  <2>3. OthersSame(t) /\ Top(t)'.pc = "run"
    BY <1>1, <1>5, LookUpFindsMoves DEF Moved
  <2>4. QED
    BY <1>1, <2>1, <2>2, <2>3, IdleKeepsDuplicates
<1>6. CASE LookUpRejects(t)
  <2>1. /\ Counted(t) /\ modules' = modules /\ failed' = failed
        /\ frames' = Popped(t)
    BY <1>6 DEF LookUpRejects
  <2>2. /\ Busy(t) /\ Top(t).pc = "lookup"
        /\ \A id \in Id : codeMap'[id].func = codeMap[id].func
    BY <1>1, <2>1, CountedFacts
  <2>3. /\ OthersSame(t) /\ Depth(t)' = Depth(t) - 1
        /\ \A i \in 1..Depth(t) - 1 : Same(frames'[t][i], frames[t][i])
    BY <1>1, <2>1, <2>2, EndedFacts
  <2>4. Busy(t)' => Top(t)'.pc = "run"
    BY <1>1, <2>2, <2>3, BelowRuns DEF Same
  <2>5. QED
    BY <1>1, <2>1, <2>2, <2>3, <2>4, IdleKeepsDuplicates
<1>7. CASE Return(t)
  <2>1. /\ Busy(t) /\ Top(t).pc = "run" /\ codeMap' = codeMap
        /\ modules' = modules /\ failed' = failed
    BY <1>7 DEF Return, Running, At, Busy, history
  <2>2. /\ OthersSame(t) /\ Depth(t)' = Depth(t) - 1
        /\ \A i \in 1..Depth(t) - 1 : frames'[t][i].pc = frames[t][i].pc
    BY <1>1, <1>7, ReturnedFacts
  <2>3. Busy(t)' => Top(t)'.pc = "run"
    BY <1>1, <2>1, <2>2, BelowRuns
  <2>4. QED
    BY <1>1, <2>1, <2>2, <2>3, IdleKeepsDuplicates
<1>8. ASSUME NEW id \in Id, Call(t, id) PROVE Duplicates'
  <2>1. /\ Busy(t) /\ Top(t).pc = "run" /\ codeMap' = codeMap
        /\ modules' = modules /\ failed' = failed
    BY <1>8 DEF Call, Running, At, Busy, machine, history
  <2>2. /\ OthersSame(t) /\ Depth(t)' = Depth(t) + 1
        /\ frames'[t][Depth(t) + 1] = NewFrame(id, "message")
    BY <1>1, <1>8, CalledFacts
  <2>3. Top(t)'.pc = "message"
    <3>1. Top(t)' = NewFrame(id, "message")
      BY <2>2 DEF Top
    <3>2. QED
      BY <3>1, NewFrameFacts
  <2>4. QED
    BY <1>1, <2>1, <2>2, <2>3, IdleKeepsDuplicates
<1>9. QED
  BY <1>2, <1>3, <1>4, <1>5, <1>6, <1>7, <1>8

LEMMA BeginDuplicates ==
    ASSUME IInv, TypeOK', Duplicates, NEW t \in Thread, NEW id \in Id,
           Begin(t, id)
    PROVE  Duplicates'
<1>1. TypeOK
  BY DEF IInv
<1>2. /\ ~Busy(t) /\ frames' = [frames EXCEPT ![t] = <<NewFrame(id, "check")>>]
      /\ codeMap' = codeMap /\ modules' = modules /\ failed' = failed
  BY DEF Begin, Busy, machine
<1>3. /\ frames'[t] = <<NewFrame(id, "check")>>
      /\ \A u \in Thread : u # t => frames'[u] = frames[u]
  BY <1>1, <1>2 DEF TypeOK
<1>4. OthersSame(t)
  BY <1>3 DEF OthersSame, Same, Depth
<1>5. Top(t)' = NewFrame(id, "check")
  BY <1>3 DEF Top, Depth
<1>6. Top(t)'.pc = "check"
  BY <1>5, NewFrameFacts
<1>7. QED
  BY <1>1, <1>2, <1>4, <1>6, IdleKeepsDuplicates

(* The behaviour becomes undefined, or nothing happens.                    *)
LEMMA StillKeepsDuplicates ==
    ASSUME Duplicates, UNCHANGED <<frames, codeMap, modules, failed>>
    PROVE  Duplicates'
  BY DEF Duplicates, ToCompile, ToMap, AtWork, Busy, Top, Depth

LEMMA NextKeepsDuplicates ==
    ASSUME IsFiniteSet(Thread)
    PROVE  IInv /\ Duplicates /\ IInv' /\ [Next]_vars => Duplicates'
<1> SUFFICES ASSUME IInv, Duplicates, IInv', [Next]_vars PROVE Duplicates'
  OBVIOUS
<1>1. TypeOK /\ TypeOK'
  BY DEF IInv
<1>2. CASE UNCHANGED vars
  BY <1>2, StillKeepsDuplicates DEF vars, machine, history
<1>3. ASSUME NEW t \in Thread, NEW id \in Id, Begin(t, id) PROVE Duplicates'
  BY <1>1, <1>3, BeginDuplicates
<1>4. ASSUME NEW t \in Thread, Step(t) PROVE Duplicates'
  <2>1. CASE \/ CheckMemory(t) \/ Recreate(t) \/ TakeMessage(t) \/ LookUpFinds(t)
             \/ LookUpRejects(t) \/ Return(t) \/ \E id \in Id : Call(t, id)
    BY <1>1, <2>1, IdleStepsKeepDuplicates
  <2>2. CASE CheckGoneEngine(t) \/ ResetUnderCompiler(t)
    BY <2>2, StillKeepsDuplicates
       DEF CheckGoneEngine, ResetUnderCompiler, Undefined, MeetsReset, machine
  <2>3. CASE CompileTogether(t) \/ CompileWithoutEngine(t) \/ RunsDead(t)
    BY <2>3, StillKeepsDuplicates
       DEF CompileTogether, CompileWithoutEngine, RunsDead, Undefined, machine,
           history
  <2>4. CASE Reset(t)
    BY <1>1, <2>4, ResetDuplicates
  <2>5. CASE LookUpMisses(t)
    BY <1>1, <2>5, LookUpMissesDuplicates
  <2>6. CASE CompileBegins(t)
    BY <1>1, <2>6, CompileBeginsDuplicates
  <2>7. CASE CompileEnds(t)
    BY <1>1, <2>7, CompileEndsDuplicates
  <2>8. CASE CompileFails(t)
    BY <2>8 DEF CompileFails, Duplicates
  <2>9. CASE Map(t)
    BY <1>1, <2>9, MapDuplicates
  <2>10. QED
    BY <1>4, <2>1, <2>2, <2>3, <2>4, <2>5, <2>6, <2>7, <2>8, <2>9 DEF Step
<1>5. QED
  BY <1>2, <1>3, <1>4 DEF Next

(* The race between lookup and mapping is bounded: code that every thread  *)
(* has missed is compiled by each of them, but an engine never gets more   *)
(* modules of it than there are threads, unless compilations fail          *)
(* (JIT.cpp:446).                                                          *)
THEOREM DuplicatesAreBounded ==
    ASSUME IsFiniteSet(Thread)
    PROVE  Spec => []DuplicatesBounded
<1>1. Init => Duplicates
  <2> SUFFICES ASSUME Init, NEW id \in Id PROVE DuplicatesOf(id)
    BY DEF Duplicates, DuplicatesOf
  <2>1. ToCompile(id) = {} /\ ToMap(id) = {} /\ modules[id] = 0
    BY DEF Init, ToCompile, ToMap, AtWork, Busy
  <2>2. Cardinality({}) = 0 /\ Cardinality(Thread) \in Nat
    BY FS_EmptySet, FS_CardinalityType
  <2>3. QED
    BY <2>1, <2>2 DEF DuplicatesOf
<1>2. IInv /\ Duplicates => DuplicatesBounded
  <2> SUFFICES ASSUME IInv, Duplicates, ~failed, NEW id \in Id
               PROVE  modules[id] <= Cardinality(Thread)
    BY DEF DuplicatesBounded
  <2>1. modules[id] \in Nat
    BY DEF IInv, TypeOK
  <2>2. ToCompile(id) \in SUBSET Thread
    BY DEF ToCompile, AtWork
  <2>3. Cardinality(ToCompile(id)) \in Nat /\ Cardinality(Thread) \in Nat
    BY <2>2, FS_Subset, FS_CardinalityType
  <2>4. modules[id] + Cardinality(ToCompile(id)) <= Cardinality(Thread)
    BY DEF Duplicates
  <2>5. QED
    BY <2>1, <2>3, <2>4
<1>3. QED
  BY <1>1, <1>2, NextKeepsDuplicates, InvariantHolds, PTL DEF Spec
=============================================================================
