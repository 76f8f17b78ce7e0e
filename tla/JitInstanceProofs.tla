-------------------------- MODULE JitInstanceProofs --------------------------
(***************************************************************************)
(* Proofs about JitInstance, for all accounts, codes, data and limits.     *)
(***************************************************************************)
EXTENDS JitInstance, SequenceTheorems, TLAPS

(* Only the top frame is still the host's, it has seen no return data yet, *)
(* and a frame that made a call was not too deep for it.                   *)
Nesting ==
    \A i \in 1..Depth :
        /\ frames[i].mode = "host" => i = Depth /\ frames[i].ret = NoData
        /\ i < Depth => frames[i].msg.depth < DepthLimit

(* An entry of the map leads to a function of its own key, that is still   *)
(* there.                                                                  *)
MapOwn ==
    \A id \in Ids :
        \/ codeMap[id].func = NoFunc
        \/ codeMap[id].func.of = id /\ codeMap[id].func.state = "live"

(* Two frames that differ at most in the data they see.                    *)
SameButRet(new, old) ==
    /\ new.mode = old.mode /\ new.msg = old.msg /\ new.origin = old.origin
    /\ new.code = old.code /\ new.func = old.func
    /\ new.prevMsg = old.prevMsg

(* The step of the stack when a frame makes a call.                        *)
Called(msg, kind, addr) ==
    frames' = Append(RetForgotten, HostFrame(msg, kind, addr))

IInv == Types /\ Nesting /\ MapOwn /\ RunsOwnCode /\ ReturnDataFresh

(* Where execute() never refuses a frame: no code is cold, and what was    *)
(* compiled is found.                                                      *)
NeverRefuses == Thresholds \subseteq {0} /\ ~CompileMayFail

(* Among the first n frames, a pointer is to the innermost compiled one;   *)
(* to no frame when none of them is compiled.                              *)
Innermost(stack, pointer, n) ==
    \/ /\ pointer \in 1..n
       /\ stack[pointer].mode = "jit"
       /\ \A j \in pointer + 1..n : stack[j].mode # "jit"
    \/ /\ pointer \in {Null, Dangling}
       /\ \A j \in 1..n : stack[j].mode # "jit"

(* The current message is that of the innermost compiled frame, and each   *)
(* compiled frame remembers the one below it.                              *)
Pointing ==
    /\ Innermost(frames, currentMsg, Depth)
    /\ \A i \in 1..Depth :
         frames[i].mode = "jit" => Innermost(frames, frames[i].prevMsg, i - 1)

(* The depth of a message counts the frames below.                         *)
Depths == \A i \in 1..Depth : frames[i].msg.depth = i - 1

(* All frames above a static frame are static.                             *)
StaticInherited ==
    \A i, j \in 1..Depth :
        i <= j /\ frames[i].msg.static => frames[j].msg.static

Linked ==
    /\ hitThreshold = 0
    /\ Pointing
    /\ Depths
    /\ StaticInherited
    /\ FunctionsAlive

PInv == IInv /\ Linked

-----------------------------------------------------------------------------
(* What the operators of the model do to the stack of frames.              *)

LEMMA ConstantFacts ==
    /\ DepthLimit \in Nat /\ MaxThreshold \in Nat /\ MemoryLimit \in Nat
    /\ MaxDepth \in Nat /\ DepthLimit < MaxDepth
    /\ MaxFrames \in Nat /\ MaxWrites \in Nat
    /\ Thresholds \subseteq 0..MaxThreshold
    /\ NoFunc \in Funcs /\ NoEntry \in Entries /\ NoData \in Results
    /\ NoModules \in [Ids -> 0..2]
  BY InstanceAssumption DEF InstanceAssumption, NoFunc, Funcs, NoEntry,
     Entries, Results, NoModules, Ids

(* The stack and its top, when it is not empty.                            *)
LEMMA DepthFacts ==
    ASSUME Types
    PROVE  /\ Depth \in Nat /\ Depth <= MaxFrames
           /\ \A i \in 1..Depth : frames[i] \in Frames
           /\ frames # <<>> => Depth \in 1..Depth /\ Top = frames[Depth]
           /\ frames = <<>> <=> Depth = 0
  BY DEF Types, Depth, Top

(* Frames with one field changed.                                          *)
LEMMA FrameFacts ==
    ASSUME NEW frame \in Frames
    PROVE  /\ [frame EXCEPT !.func = frame.func] = frame
           /\ \A func \in Funcs : [frame EXCEPT !.func = func] \in Frames
           /\ \A data \in Results :
                /\ [frame EXCEPT !.ret = data] \in Frames
                /\ [frame EXCEPT !.ret = data].ret = data
                /\ SameButRet([frame EXCEPT !.ret = data], frame)
  BY DEF Frames, SameButRet

LEMMA HostFrameFacts ==
    ASSUME NEW msg \in Messages, NEW kind \in Kinds \cup {"top"},
           NEW addr \in Addr
    PROVE  /\ HostFrame(msg, kind, addr) \in Frames
           /\ HostFrame(msg, kind, addr).mode = "host"
           /\ HostFrame(msg, kind, addr).msg = msg
           /\ HostFrame(msg, kind, addr).ret = NoData
           /\ HostFrame(msg, kind, addr).origin
                = [kind |-> kind, addr |-> addr]
<1>1. NoFunc \in Funcs /\ NoData \in Results /\ Null \in Pointers
  BY ConstantFacts DEF Pointers, Null, Dangling
<1>2. [kind |-> kind, addr |-> addr] \in Origins
  BY DEF Origins
<1>3. HostFrame(msg, kind, addr) \in Frames
  BY <1>1, <1>2 DEF HostFrame, Frames
<1>4. QED
  BY <1>3 DEF HostFrame

(* A function that is unmapped keeps what it was compiled from.            *)
LEMMA KilledFacts ==
    ASSUME NEW func \in Funcs
    PROVE  /\ Killed(func) \in Funcs
           /\ Killed(func).of = func.of
           /\ Killed(func).state # "live"
           /\ Killed(func).state = "none" <=> func.state = "none"
  BY DEF Killed, Funcs

(* The replacement of the engine changes nothing but the functions.        *)
LEMMA FramesNowFacts ==
    ASSUME Types
    PROVE  /\ FramesNow \in Seq(Frames)
           /\ Len(FramesNow) = Depth
           /\ \A i \in 1..Depth :
                /\ FramesNow[i] = [frames[i] EXCEPT !.func = FramesNow[i].func]
                /\ FramesNow[i].func \in Funcs
                /\ FramesNow[i].func.of = frames[i].func.of
                /\ ~ResetNow => FramesNow[i].func = frames[i].func
<1>1. Depth \in Nat /\ Len(frames) = Depth /\ frames \in Seq(Frames)
  BY DEF Types, Depth
<1>2. \A i \in 1..Depth : frames[i] \in Frames /\ frames[i].func \in Funcs
  BY DepthFacts DEF Frames
<1>3. CASE ~ResetNow
  <2>1. FramesNow = frames
    BY <1>3 DEF FramesNow
  <2>2. \A i \in 1..Depth : frames[i] = [frames[i] EXCEPT !.func = frames[i].func]
    BY <1>2, FrameFacts
  <2>3. QED
    BY <1>1, <1>2, <2>1, <2>2
<1>4. CASE ResetNow
  <2> DEFINE f(i) == [frames[i] EXCEPT !.func = Killed(@)]
  <2>1. FramesNow = [i \in 1..Depth |-> f(i)]
    BY <1>4 DEF FramesNow
  <2>2. \A i \in 1..Depth : f(i) \in Frames /\ f(i).func = Killed(frames[i].func)
                            /\ f(i) = [frames[i] EXCEPT !.func = f(i).func]
    BY <1>2, KilledFacts DEF Frames
  <2> HIDE DEF f
  <2>3. QED
    BY <1>1, <1>2, <1>4, <2>1, <2>2, KilledFacts
<1>5. QED
  BY <1>3, <1>4

(* execute() changes the top frame, and functions.                         *)
LEMMA ExecuteFacts ==
    ASSUME Types, Running("host"), NEW code \in Code, NEW func \in Funcs,
           NEW mode \in {"jit", "interpreted"}, NEW entry \in Entries,
           Execute(code, func, mode, entry)
    PROVE  /\ frames' \in Seq(Frames)
           /\ Depth' = Depth /\ Depth \in 1..MaxFrames
           /\ \A i \in 1..Depth :
                /\ frames'[i].msg = frames[i].msg
                /\ frames'[i].origin = frames[i].origin
                /\ frames'[i].ret = frames[i].ret
                /\ i # Depth =>
                     /\ frames'[i].mode = frames[i].mode
                     /\ frames'[i].code = frames[i].code
                     /\ frames'[i].func.of = frames[i].func.of
                     /\ frames'[i].prevMsg = frames[i].prevMsg
                     /\ ~ResetNow => frames'[i].func = frames[i].func
           /\ frames'[Depth].mode = mode
           /\ frames'[Depth].code = code
           /\ frames'[Depth].func = func
           /\ frames'[Depth].prevMsg = currentMsg
<1>1. /\ Depth \in 1..Depth /\ Depth \in Nat /\ Depth <= MaxFrames
      /\ \A i \in 1..Depth : frames[i] \in Frames
  BY DepthFacts DEF Running
<1>2. /\ FramesNow \in Seq(Frames) /\ Len(FramesNow) = Depth
      /\ \A i \in 1..Depth :
           /\ FramesNow[i] = [frames[i] EXCEPT !.func = FramesNow[i].func]
           /\ FramesNow[i].func \in Funcs
           /\ FramesNow[i].func.of = frames[i].func.of
           /\ ~ResetNow => FramesNow[i].func = frames[i].func
  BY FramesNowFacts
<1> DEFINE new == Entered(FramesNow[Depth], code, func, mode)
<1>3. frames' = [FramesNow EXCEPT ![Depth] = new]
  BY DEF Execute
<1>4. FramesNow[Depth] \in Frames /\ currentMsg \in Pointers
  BY <1>1, <1>2 DEF Types
<1>5. /\ new \in Frames /\ new.mode = mode /\ new.code = code
      /\ new.func = func /\ new.prevMsg = currentMsg
      /\ new.msg = FramesNow[Depth].msg /\ new.ret = FramesNow[Depth].ret
      /\ new.origin = FramesNow[Depth].origin
  BY <1>4 DEF Entered, Frames
<1> HIDE DEF new
<1>6. /\ frames' \in Seq(Frames) /\ Len(frames') = Depth
      /\ frames'[Depth] = new
      /\ \A i \in 1..Depth : i # Depth => frames'[i] = FramesNow[i]
  BY <1>1, <1>2, <1>3, <1>5
<1>7. \A i \in 1..Depth :
        /\ FramesNow[i].msg = frames[i].msg
        /\ FramesNow[i].origin = frames[i].origin
        /\ FramesNow[i].ret = frames[i].ret
        /\ FramesNow[i].mode = frames[i].mode
        /\ FramesNow[i].code = frames[i].code
        /\ FramesNow[i].prevMsg = frames[i].prevMsg
  BY <1>1, <1>2 DEF Frames
<1>8. Depth' = Depth
  BY <1>6 DEF Depth
<1>9. QED
  BY <1>1, <1>2, <1>5, <1>6, <1>7, <1>8

(* A callee comes on top, and its caller forgets the data it had.          *)
LEMMA CallFacts ==
    ASSUME Types, frames # <<>>, Depth < MaxFrames,
           NEW msg \in Messages, NEW kind \in Kinds, NEW addr \in Addr,
           Called(msg, kind, addr)
    PROVE  /\ frames' \in Seq(Frames)
           /\ Depth' = Depth + 1 /\ Depth \in 1..MaxFrames
           /\ \A i \in 1..Depth : SameButRet(frames'[i], frames[i])
           /\ \A i \in 1..Depth - 1 : frames'[i].ret = frames[i].ret
           /\ frames'[Depth].ret = NoData
           /\ frames'[Depth + 1] = HostFrame(msg, kind, addr)
<1>1. /\ Depth \in 1..Depth /\ Depth \in Nat /\ Depth <= MaxFrames
      /\ \A i \in 1..Depth : frames[i] \in Frames
      /\ frames \in Seq(Frames) /\ Len(frames) = Depth
  BY DepthFacts DEF Types, Depth
<1> DEFINE new == HostFrame(msg, kind, addr)
<1> DEFINE old == [frames[Depth] EXCEPT !.ret = NoData]
<1>2. new \in Frames /\ old \in Frames
  BY <1>1, ConstantFacts, FrameFacts, HostFrameFacts
<1>3. RetForgotten = [frames EXCEPT ![Depth] = old]
  BY <1>1 DEF RetForgotten
<1> HIDE DEF new, old
<1>4. /\ RetForgotten \in Seq(Frames) /\ Len(RetForgotten) = Depth
      /\ RetForgotten[Depth] = old
      /\ \A i \in 1..Depth - 1 : RetForgotten[i] = frames[i]
  BY <1>1, <1>2, <1>3
<1>5. frames' = Append(RetForgotten, new)
  BY DEF new, Called
<1>6. /\ frames' \in Seq(Frames) /\ Len(frames') = Depth + 1
      /\ frames'[Depth + 1] = new
      /\ \A i \in 1..Depth : frames'[i] = RetForgotten[i]
  BY <1>1, <1>2, <1>4, <1>5
<1>7. SameButRet(old, frames[Depth]) /\ old.ret = NoData
  BY <1>1, ConstantFacts, FrameFacts DEF old
<1>8. \A i \in 1..Depth : i = Depth \/ i \in 1..Depth - 1
  BY <1>1
<1>9. \A i \in 1..Depth : SameButRet(frames'[i], frames[i])
  BY <1>1, <1>4, <1>6, <1>7, <1>8 DEF SameButRet
<1>10. QED
  BY <1>1, <1>4, <1>6, <1>7, <1>9 DEF Depth, new

(* A call that the wrapper refuses changes the data of the top frame.      *)
LEMMA ForgetFacts ==
    ASSUME Types, frames # <<>>, frames' = RetForgotten
    PROVE  /\ frames' \in Seq(Frames)
           /\ Depth' = Depth /\ Depth \in 1..MaxFrames
           /\ \A i \in 1..Depth : SameButRet(frames'[i], frames[i])
           /\ \A i \in 1..Depth - 1 : frames'[i].ret = frames[i].ret
           /\ frames'[Depth].ret = NoData
<1>1. /\ Depth \in 1..Depth /\ Depth \in Nat /\ Depth <= MaxFrames
      /\ \A i \in 1..Depth : frames[i] \in Frames
      /\ frames \in Seq(Frames) /\ Len(frames) = Depth
  BY DepthFacts DEF Types, Depth
<1> DEFINE old == [frames[Depth] EXCEPT !.ret = NoData]
<1>2. old \in Frames
  BY <1>1, ConstantFacts DEF Frames
<1>3. frames' = [frames EXCEPT ![Depth] = old]
  BY <1>1 DEF RetForgotten
<1> HIDE DEF old
<1>4. /\ frames' \in Seq(Frames) /\ Len(frames') = Depth
      /\ frames'[Depth] = old
      /\ \A i \in 1..Depth - 1 : frames'[i] = frames[i]
  BY <1>1, <1>2, <1>3
<1>5. SameButRet(old, frames[Depth]) /\ old.ret = NoData
  BY <1>1, ConstantFacts, FrameFacts DEF old
<1>6. \A i \in 1..Depth : i = Depth \/ i \in 1..Depth - 1
  BY <1>1
<1>7. \A i \in 1..Depth : SameButRet(frames'[i], frames[i])
  BY <1>1, <1>4, <1>5, <1>6 DEF SameButRet
<1>8. QED
  BY <1>1, <1>4, <1>5, <1>7 DEF Depth

(* A frame goes, and its caller sees the data that it returned.            *)
LEMMA ReturnFacts ==
    ASSUME Types, frames # <<>>, NEW data \in Results, Return(data)
    PROVE  /\ frames' \in Seq(Frames)
           /\ Depth' = Depth - 1 /\ Depth \in 1..MaxFrames
           /\ \A i \in 1..Depth - 1 : SameButRet(frames'[i], frames[i])
           /\ \A i \in 1..Depth - 2 : frames'[i].ret = frames[i].ret
           /\ Depth > 1 =>
                /\ frames'[Depth - 1].ret = data
                /\ returnBuffer' = IF frames[Depth - 1].mode = "jit" THEN data
                                   ELSE returnBuffer
           /\ Depth = 1 => returnBuffer' = returnBuffer
<1>1. /\ Depth \in 1..Depth /\ Depth \in Nat /\ Depth <= MaxFrames
      /\ \A i \in 1..Depth : frames[i] \in Frames
      /\ frames \in Seq(Frames) /\ Len(frames) = Depth
  BY DepthFacts DEF Types, Depth
<1> DEFINE rest == SubSeq(frames, 1, Depth - 1)
<1>2. /\ rest \in Seq(Frames) /\ Len(rest) = Depth - 1
      /\ \A i \in 1..Depth - 1 : rest[i] = frames[i]
  BY <1>1
<1> HIDE DEF rest
<1>3. rest = <<>> <=> Depth = 1
  BY <1>1, <1>2
<1>4. IF rest = <<>>
      THEN frames' = rest /\ UNCHANGED returnBuffer
      ELSE /\ frames' = [rest EXCEPT ![Depth - 1].ret = data]
           /\ returnBuffer' = IF rest[Depth - 1].mode = "jit" THEN data
                              ELSE returnBuffer
  BY DEF Return, rest
<1>5. CASE Depth = 1
  BY <1>1, <1>2, <1>3, <1>4, <1>5 DEF Depth
<1>6. CASE Depth > 1
  <2> DEFINE new == [rest[Depth - 1] EXCEPT !.ret = data]
  <2>1. Depth - 1 \in 1..Depth - 1
    BY <1>1, <1>6
  <2>2. rest[Depth - 1] = frames[Depth - 1] /\ frames[Depth - 1] \in Frames
    BY <1>1, <1>2, <1>6
  <2>3. new \in Frames /\ new.ret = data /\ SameButRet(new, frames[Depth - 1])
    BY <2>2, FrameFacts
  <2>4. frames' = [rest EXCEPT ![Depth - 1] = new]
    BY <1>3, <1>4, <1>6
  <2> HIDE DEF new
  <2>5. /\ frames' \in Seq(Frames) /\ Len(frames') = Depth - 1
        /\ frames'[Depth - 1] = new
        /\ \A i \in 1..Depth - 2 : frames'[i] = rest[i]
    BY <1>1, <1>2, <2>1, <2>3, <2>4
  <2>6. \A i \in 1..Depth - 1 : i = Depth - 1 \/ i \in 1..Depth - 2
    BY <1>1
  <2>7. \A i \in 1..Depth - 1 : SameButRet(frames'[i], frames[i])
    BY <1>1, <1>2, <2>3, <2>5, <2>6 DEF SameButRet
  <2>8. /\ \A i \in 1..Depth - 2 : frames'[i].ret = frames[i].ret
        /\ frames'[Depth - 1].ret = data
    BY <1>1, <1>2, <2>3, <2>5
  <2>9. returnBuffer' = IF frames[Depth - 1].mode = "jit" THEN data
                        ELSE returnBuffer
    BY <1>3, <1>4, <1>6, <2>2
  <2>10. QED
    BY <1>1, <1>6, <2>5, <2>7, <2>8, <2>9 DEF Depth
<1>7. QED
  BY <1>1, <1>5, <1>6

-----------------------------------------------------------------------------
(* The inductive invariant.                                                *)

(* The map and the engine as execute() finds them.                         *)
LEMMA NowFacts ==
    ASSUME Types, NEW id \in Ids
    PROVE  /\ MapNow \in [Ids -> Entries] /\ Hit(id) \in Entries
           /\ Hit(id).func = MapNow[id].func
           /\ ModulesNow \in [Ids -> 0..2]
           /\ SizeNow \in 0..MemoryLimit + 1
           /\ ModuleAdded(id) \in [Ids -> 0..2]
           /\ SizeAdded \in 0..MemoryLimit + 1
<1>1. MapNow \in [Ids -> Entries] /\ ModulesNow \in [Ids -> 0..2]
  BY ConstantFacts DEF Types, MapNow, ModulesNow
<1>2. SizeNow \in 0..MemoryLimit + 1 /\ SizeAdded \in 0..MemoryLimit + 1
  BY ConstantFacts DEF Types, SizeNow, SizeAdded, Lesser
<1>3. ModuleAdded(id) \in [Ids -> 0..2]
  <2>1. Lesser(ModulesNow[id] + 1, 2) \in 0..2
    BY <1>1 DEF Lesser
  <2>2. QED
    BY <1>1, <2>1 DEF ModuleAdded
<1>4. Hit(id) \in Entries /\ Hit(id).func = MapNow[id].func
  <2>1. MapNow[id] \in Entries
    BY <1>1
  <2>2. Lesser(MapNow[id].hits + 1, MaxThreshold + 1) \in 0..MaxThreshold + 1
    BY <2>1, ConstantFacts DEF Entries, Lesser
  <2>3. QED
    BY <2>1, <2>2 DEF Hit, Entries
<1>5. QED
  BY <1>1, <1>2, <1>3, <1>4

LEMMA InitInvariant == Init => IInv
  BY ConstantFacts DEF Init, IInv, Types, Nesting, MapOwn, RunsOwnCode,
     ReturnDataFresh, JitFrames, Depth, NoEntry, Pointers, Null, Dangling

(* The key of the code of a frame is what the compiler takes it for.       *)
LEMMA CodeIdFacts ==
    ASSUME NEW code \in Code, NEW msg \in Messages
    PROVE  /\ CodeId(code, msg) \in Ids
           /\ Compiled(code, msg) \in Funcs
           /\ Compiled(code, msg).of = CodeId(code, msg)
           /\ Compiled(code, msg).state = "live"
           /\ Compiled(code, msg) # NoFunc
  BY DEF CodeId, Ids, Messages, Compiled, Funcs, NoFunc

(* Whatever execute() decides, it gives the frame a function of its own    *)
(* code, and stores an entry of its own key.                               *)
LEMMA ExecuteKeeps ==
    ASSUME IInv, Running("host"), NEW code \in Code, NEW func \in Funcs,
           NEW mode \in {"jit", "interpreted"}, NEW entry \in Entries,
           Execute(code, func, mode, entry),
           modules' \in [Ids -> 0..2], memorySize' \in 0..MemoryLimit + 1,
           mode = "jit" => func.of = CodeId(code, Top.msg),
           \/ entry.func = NoFunc
           \/ entry.func.of = CodeId(code, Top.msg) /\ entry.func.state = "live"
    PROVE  IInv'
<1>1. Types /\ Nesting /\ MapOwn /\ RunsOwnCode /\ ReturnDataFresh
  BY DEF IInv
<1>2. /\ frames' \in Seq(Frames)
      /\ Depth' = Depth /\ Depth \in 1..MaxFrames
      /\ \A i \in 1..Depth :
           /\ frames'[i].msg = frames[i].msg
           /\ frames'[i].ret = frames[i].ret
           /\ i # Depth =>
                /\ frames'[i].mode = frames[i].mode
                /\ frames'[i].code = frames[i].code
                /\ frames'[i].func.of = frames[i].func.of
      /\ frames'[Depth].mode = mode
      /\ frames'[Depth].code = code
      /\ frames'[Depth].func = func
  BY <1>1, ExecuteFacts
<1>3. /\ Top = frames[Depth] /\ Top.mode = "host" /\ Top.msg \in Messages
      /\ Depth \in Nat
  BY <1>1, DepthFacts DEF Running, Frames
<1>4. /\ currentMsg' = Depth /\ returnBuffer' = returnBuffer
      /\ codeMap' = [MapNow EXCEPT ![CodeId(code, Top.msg)] = entry]
      /\ hitThreshold' = hitThreshold /\ writes' = writes
  BY DEF Execute
<1>5. MapNow \in [Ids -> Entries] /\ CodeId(code, Top.msg) \in Ids
  BY <1>1, <1>3, NowFacts, CodeIdFacts
<1>6. Types'
  <2>1. Len(frames') <= MaxFrames
    BY <1>2, ConstantFacts DEF Depth
  <2>2. currentMsg' \in Pointers
    BY <1>2, <1>4, ConstantFacts DEF Pointers, Null, Dangling
  <2>3. codeMap' \in [Ids -> Entries]
    BY <1>4, <1>5
  <2>4. QED
    BY <1>1, <1>2, <1>4, <2>1, <2>2, <2>3 DEF Types
<1>7. Nesting'
  BY <1>1, <1>2, <1>3 DEF Nesting
<1>8. MapOwn'
  <2>1. \A id \in Ids :
          \/ MapNow[id].func = NoFunc
          \/ MapNow[id].func.of = id /\ MapNow[id].func.state = "live"
    BY <1>1 DEF MapOwn, MapNow, NoEntry
  <2>2. QED
    BY <1>4, <1>5, <2>1 DEF MapOwn
<1>9. RunsOwnCode'
  <2>1. \A i \in 1..Depth : i # Depth /\ frames[i].mode = "jit" =>
          frames[i].func.of = <<frames[i].code, frames[i].msg.static>>
    BY <1>1 DEF RunsOwnCode, JitFrames
  <2>2. mode = "jit" => func.of = <<code, frames[Depth].msg.static>>
    BY <1>3 DEF CodeId
  <2>3. QED
    BY <1>2, <2>1, <2>2 DEF RunsOwnCode, JitFrames
<1>10. ReturnDataFresh'
  <2>1. \A i \in 1..Depth : i # Depth /\ frames[i].mode = "jit" =>
          frames[i].ret = NoData
    BY <1>1 DEF ReturnDataFresh, JitFrames
  <2>2. frames[Depth].ret = NoData
    BY <1>1, <1>2, <1>3 DEF Nesting
  <2>3. QED
    BY <1>2, <2>1, <2>2 DEF ReturnDataFresh, JitFrames
<1>11. QED
  BY <1>6, <1>7, <1>8, <1>9, <1>10 DEF IInv

(* A caller that is suspended keeps no view of the buffer.                 *)
LEMMA CallKeeps ==
    ASSUME IInv, frames # <<>>, Depth < MaxFrames, Top.mode # "host",
           Top.msg.depth < DepthLimit,
           NEW msg \in Messages, NEW kind \in Kinds, NEW addr \in Addr,
           Called(msg, kind, addr),
           UNCHANGED <<currentMsg, returnBuffer, codeMap, modules, memorySize,
                       hitThreshold>>,
           writes' \in 0..MaxWrites
    PROVE  IInv'
<1>1. Types /\ Nesting /\ MapOwn /\ RunsOwnCode /\ ReturnDataFresh
  BY DEF IInv
<1>2. /\ frames' \in Seq(Frames)
      /\ Depth' = Depth + 1 /\ Depth \in 1..MaxFrames
      /\ \A i \in 1..Depth : SameButRet(frames'[i], frames[i])
      /\ \A i \in 1..Depth - 1 : frames'[i].ret = frames[i].ret
      /\ frames'[Depth].ret = NoData
      /\ frames'[Depth + 1] = HostFrame(msg, kind, addr)
  BY <1>1, CallFacts
<1>3. Top = frames[Depth] /\ frames[Depth] \in Frames /\ Depth \in Nat
  BY <1>1, DepthFacts
<1>4. \A i \in 1..Depth + 1 :
        i = Depth + 1 \/ (i \in 1..Depth /\ (i = Depth \/ i \in 1..Depth - 1))
  BY <1>3
<1>5. frames'[Depth + 1].mode = "host" /\ frames'[Depth + 1].ret = NoData
  <2>1. kind \in Kinds \cup {"top"}
    OBVIOUS
  <2> DEFINE new == HostFrame(msg, kind, addr)
  <2>2. new.mode = "host" /\ new.ret = NoData
    BY <2>1, HostFrameFacts
  <2> HIDE DEF new
  <2>3. frames'[Depth + 1] = new
    BY <1>2 DEF new
  <2>4. QED
    BY <2>2, <2>3
<1>6. Types'
  <2>1. Depth + 1 <= MaxFrames
    BY <1>3, ConstantFacts
  <2>2. Len(frames') <= MaxFrames
    BY <1>2, <2>1 DEF Depth
  <2>3. QED
    BY <1>1, <1>2, <2>2 DEF Types
<1>7. Nesting'
  BY <1>1, <1>2, <1>3, <1>4, <1>5 DEF Nesting, SameButRet
<1>8. MapOwn'
  BY <1>1 DEF MapOwn
<1>9. RunsOwnCode'
  BY <1>1, <1>2, <1>3, <1>4, <1>5 DEF RunsOwnCode, JitFrames, SameButRet
<1>10. ReturnDataFresh'
  BY <1>1, <1>2, <1>3, <1>4, <1>5 DEF ReturnDataFresh, JitFrames, SameButRet
<1>11. QED
  BY <1>6, <1>7, <1>8, <1>9, <1>10 DEF IInv

LEMMA ForgetKeeps ==
    ASSUME IInv, frames # <<>>, frames' = RetForgotten,
           UNCHANGED <<currentMsg, returnBuffer, codeMap, modules, memorySize,
                       hitThreshold, writes>>
    PROVE  IInv'
<1>1. Types /\ Nesting /\ MapOwn /\ RunsOwnCode /\ ReturnDataFresh
  BY DEF IInv
<1>2. /\ frames' \in Seq(Frames)
      /\ Depth' = Depth /\ Depth \in 1..MaxFrames
      /\ \A i \in 1..Depth : SameButRet(frames'[i], frames[i])
      /\ \A i \in 1..Depth - 1 : frames'[i].ret = frames[i].ret
      /\ frames'[Depth].ret = NoData
  BY <1>1, ForgetFacts
<1>3. frames[Depth] \in Frames /\ Depth \in Nat
  BY <1>1, DepthFacts
<1>4. \A i \in 1..Depth : i = Depth \/ i \in 1..Depth - 1
  BY <1>3
<1>5. Types'
  <2>1. Len(frames') <= MaxFrames
    BY <1>2, ConstantFacts DEF Depth
  <2>2. QED
    BY <1>1, <1>2, <2>1 DEF Types
<1>6. Nesting'
  BY <1>1, <1>2, <1>3, <1>4 DEF Nesting, SameButRet
<1>7. MapOwn'
  BY <1>1 DEF MapOwn
<1>8. RunsOwnCode'
  BY <1>1, <1>2, <1>3, <1>4 DEF RunsOwnCode, JitFrames, SameButRet
<1>9. ReturnDataFresh'
  BY <1>1, <1>2, <1>3, <1>4 DEF ReturnDataFresh, JitFrames, SameButRet
<1>10. QED
  BY <1>5, <1>6, <1>7, <1>8, <1>9 DEF IInv

(* A compiled caller that resumes sees the buffer that call() filled.      *)
LEMMA ReturnKeeps ==
    ASSUME IInv, frames # <<>>, NEW data \in Results, Return(data),
           currentMsg' \in Pointers,
           UNCHANGED <<codeMap, modules, memorySize, hitThreshold>>,
           writes' \in 0..MaxWrites
    PROVE  IInv'
<1>1. Types /\ Nesting /\ MapOwn /\ RunsOwnCode /\ ReturnDataFresh
  BY DEF IInv
<1>2. /\ frames' \in Seq(Frames)
      /\ Depth' = Depth - 1 /\ Depth \in 1..MaxFrames
      /\ \A i \in 1..Depth - 1 : SameButRet(frames'[i], frames[i])
      /\ \A i \in 1..Depth - 2 : frames'[i].ret = frames[i].ret
      /\ Depth > 1 =>
           /\ frames'[Depth - 1].ret = data
           /\ returnBuffer' = IF frames[Depth - 1].mode = "jit" THEN data
                              ELSE returnBuffer
      /\ Depth = 1 => returnBuffer' = returnBuffer
  BY <1>1, ReturnFacts
<1>4. /\ Depth \in Nat
      /\ \A i \in 1..Depth - 1 : i = Depth - 1 \/ i \in 1..Depth - 2
  BY <1>2
<1>5. Types'
  <2>1. Len(frames') <= MaxFrames
    BY <1>2, ConstantFacts DEF Depth
  <2>2. returnBuffer' \in Results
    BY <1>1, <1>2 DEF Types
  <2>3. QED
    BY <1>1, <1>2, <2>1, <2>2 DEF Types
<1>6. Nesting'
  BY <1>1, <1>2, <1>4 DEF Nesting, SameButRet
<1>7. MapOwn'
  BY <1>1 DEF MapOwn
<1>8. RunsOwnCode'
  BY <1>1, <1>2, <1>4 DEF RunsOwnCode, JitFrames, SameButRet
<1>9. ReturnDataFresh'
  BY <1>1, <1>2, <1>4 DEF ReturnDataFresh, JitFrames, SameButRet
<1>10. QED
  BY <1>5, <1>6, <1>7, <1>8, <1>9 DEF IInv

(* A message that a frame sends is a message, whatever is found behind     *)
(* currentMsg.                                                             *)
LEMMA SentFacts ==
    ASSUME Types, frames # <<>>,
           NEW cur \in CurrentMessages \cup {Top.msg},
           NEW kind \in Kinds, NEW addr \in Addr
    PROVE  SentMsg(cur, kind, addr) \in Messages
<1>1. /\ Depth \in Nat /\ Depth \in 1..Depth /\ Top = frames[Depth]
      /\ \A i \in 1..Depth : frames[i].msg \in Messages
  BY DepthFacts DEF Frames
<1>2. \A msg \in Messages : /\ msg.depth \in DepthsOfInt32
                           /\ msg.dest \in Addr /\ msg.sender \in Addr
                           /\ msg.static \in BOOLEAN
  BY DEF Messages
<1>3. cur \in Messages
  BY <1>1 DEF CurrentMessages
<1>4. Deeper(cur.depth) \in DepthsOfInt32
  <2>1. cur.depth \in -MaxDepth - 1..MaxDepth
    BY <1>2, <1>3 DEF DepthsOfInt32
  <2>2. QED
    BY <2>1, ConstantFacts DEF Deeper, DepthsOfInt32
<1>5. (IF kind = "static" THEN "call" ELSE kind) \in Kinds \ {"static"}
  BY DEF Kinds
<1>6. (IF kind \in {"callcode", "delegate"} THEN Top.msg.dest ELSE addr) \in Addr
  BY <1>1, <1>2
<1>7. (IF kind = "delegate" THEN cur.sender ELSE cur.dest) \in Addr
  BY <1>2, <1>3
<1>8. (cur.static \/ kind = "static") \in BOOLEAN
  OBVIOUS
<1>9. QED
  BY <1>4, <1>5, <1>6, <1>7, <1>8 DEF SentMsg, Messages

(* The depth of a frame that may make a call does not wrap.                *)
LEMMA DeeperFacts ==
    ASSUME Types, frames # <<>>, Top.msg.depth < DepthLimit
    PROVE  Deeper(Top.msg.depth) = Top.msg.depth + 1
<1>1. Top.msg \in Messages
  BY DepthFacts DEF Frames
<1>2. Top.msg.depth \in -MaxDepth - 1..MaxDepth
  BY <1>1 DEF Messages, DepthsOfInt32
<1>3. QED
  BY <1>2, ConstantFacts DEF Deeper

LEMMA WriteFacts == Types /\ Write => writes' \in 0..MaxWrites
  BY ConstantFacts DEF Types, Write

LEMMA UnchangedKeeps ==
    ASSUME IInv, frames' = frames, currentMsg' = currentMsg,
           returnBuffer' = returnBuffer, codeMap' = codeMap,
           modules' = modules, memorySize' = memorySize,
           hitThreshold' \in 0..MaxThreshold, writes' \in 0..MaxWrites
    PROVE  IInv'
<1>1. Depth' = Depth
  BY DEF Depth
<1>2. Types'
  BY DEF IInv, Types
<1>3. Nesting' /\ MapOwn'
  BY <1>1 DEF IInv, Nesting, MapOwn
<1>4. RunsOwnCode' /\ ReturnDataFresh'
  BY <1>1 DEF IInv, RunsOwnCode, ReturnDataFresh, JitFrames
<1>5. QED
  BY <1>2, <1>3, <1>4 DEF IInv

(* The four outcomes of execute().                                         *)
LEMMA AnyExecuteKeeps ==
    ASSUME IInv, NEW code \in Code,
           \/ ExecuteCached(code) \/ ExecuteRejected(code)
           \/ ExecuteCompiled(code) \/ ExecuteCompileFails(code)
    PROVE  IInv'
<1> DEFINE id == CodeId(code, Top.msg)
<1> DEFINE fn == Compiled(code, Top.msg)
<1>1. Types /\ MapOwn /\ Running("host")
  BY DEF IInv, ExecuteCached, ExecuteRejected, ExecuteCompiled, ExecuteCompileFails
<1>2. Top.msg \in Messages
  BY <1>1, DepthFacts DEF Running, Frames
<1>3. /\ id \in Ids /\ fn \in Funcs /\ fn.of = id /\ fn.state = "live"
  BY <1>2, CodeIdFacts
<1>4. /\ Hit(id) \in Entries /\ Hit(id).func = MapNow[id].func
      /\ ModulesNow \in [Ids -> 0..2] /\ SizeNow \in 0..MemoryLimit + 1
      /\ ModuleAdded(id) \in [Ids -> 0..2]
      /\ SizeAdded \in 0..MemoryLimit + 1
  BY <1>1, <1>3, NowFacts
<1>5. \/ Hit(id).func = NoFunc
      \/ Hit(id).func.of = id /\ Hit(id).func.state = "live"
  BY <1>1, <1>3, <1>4 DEF MapOwn, MapNow, NoEntry
<1>6. NoFunc \in Funcs /\ Hit(id).func \in Funcs
  BY <1>4, ConstantFacts DEF Entries
<1>7. CASE ExecuteCached(code)
  <2>1. /\ Hit(id).func # NoFunc /\ Execute(code, Hit(id).func, "jit", Hit(id))
        /\ modules' = ModulesNow /\ memorySize' = SizeNow
    BY <1>7 DEF ExecuteCached
  <2>2. QED
    BY <1>1, <1>4, <1>5, <1>6, <2>1, ExecuteKeeps
<1>8. CASE ExecuteRejected(code)
  <2>1. /\ Execute(code, NoFunc, "interpreted", Hit(id))
        /\ modules' = ModulesNow /\ memorySize' = SizeNow
    BY <1>8 DEF ExecuteRejected
  <2>2. QED
    BY <1>1, <1>4, <1>5, <1>6, <2>1, ExecuteKeeps
<1>9. CASE ExecuteCompiled(code)
  <2> DEFINE entry == [Hit(id) EXCEPT !.func = fn]
  <2>1. /\ Execute(code, fn, "jit", entry)
        /\ modules' = ModuleAdded(id) /\ memorySize' = SizeAdded
    BY <1>9 DEF ExecuteCompiled
  <2>2. entry \in Entries /\ entry.func = fn
    BY <1>3, <1>4 DEF Entries
  <2> HIDE DEF entry, fn
  <2>3. QED
    BY <1>1, <1>3, <1>4, <2>1, <2>2, ExecuteKeeps
<1>10. CASE ExecuteCompileFails(code)
  <2>1. /\ Execute(code, NoFunc, "interpreted", Hit(id))
        /\ modules' = ModuleAdded(id) /\ memorySize' = SizeAdded
    BY <1>10 DEF ExecuteCompileFails
  <2>2. QED
    BY <1>1, <1>4, <1>5, <1>6, <2>1, ExecuteKeeps
<1>11. QED
  BY <1>7, <1>8, <1>9, <1>10

(* A call of compiled code, that may change the host's state.              *)
LEMMA EnterKeeps ==
    ASSUME IInv, NEW kind \in Kinds, NEW addr \in Addr, Enter(kind, addr),
           writes' \in 0..MaxWrites
    PROVE  IInv'
<1>1. /\ frames # <<>> /\ Top.mode # "host" /\ Top.msg.depth < DepthLimit
      /\ Depth < MaxFrames
  BY DEF Enter, Running
<1>2. PICK cur \in CurrentMessages :
        Called(SentMsg(cur, kind, addr), kind, addr)
  BY DEF Enter, Called
<1>3. SentMsg(cur, kind, addr) \in Messages
  BY <1>1, SentFacts DEF IInv
<1>4. UNCHANGED <<currentMsg, returnBuffer, codeMap, modules, memorySize,
                  hitThreshold>>
  BY DEF Enter
<1>5. QED
  BY <1>1, <1>2, <1>3, <1>4, CallKeeps

LEMMA InterpretedCallKeeps ==
    ASSUME IInv, NEW kind \in Kinds, NEW addr \in Addr,
           InterpretedCall(kind, addr)
    PROVE  IInv'
<1>1. /\ frames # <<>> /\ Top.mode # "host" /\ Top.msg.depth < DepthLimit
      /\ Depth < MaxFrames
  BY DEF InterpretedCall, Running
<1>2. Called(SentMsg(Top.msg, kind, addr), kind, addr)
  BY DEF InterpretedCall, Called
<1>3. SentMsg(Top.msg, kind, addr) \in Messages
  BY <1>1, SentFacts DEF IInv
<1>4. /\ UNCHANGED <<currentMsg, returnBuffer, codeMap, modules, memorySize,
                     hitThreshold>>
      /\ writes' \in 0..MaxWrites
  BY DEF InterpretedCall, IInv, Types
<1>5. QED
  BY <1>1, <1>2, <1>3, <1>4, CallKeeps

(* A frame returns; its message may be the current one.                    *)
LEMMA FreedFacts ==
    ASSUME NEW pointer \in Pointers
    PROVE  Freed(pointer) \in Pointers
  BY ConstantFacts DEF Freed, Pointers, Null, Dangling

LEMMA LeaveKeeps ==
    ASSUME IInv, NEW data \in Results, Leave(data), writes' \in 0..MaxWrites
    PROVE  IInv'
<1>1. frames # <<>> /\ Return(data) /\ currentMsg' = Freed(Top.prevMsg)
  BY DEF Leave, Running
<1>2. Top.prevMsg \in Pointers
  BY <1>1, DepthFacts DEF IInv, Frames
<1>3. UNCHANGED <<codeMap, modules, memorySize, hitThreshold>>
  BY DEF Leave
<1>4. QED
  BY <1>1, <1>2, <1>3, FreedFacts, ReturnKeeps

LEMMA InterpretedReturnKeeps ==
    ASSUME IInv, NEW data \in Results, InterpretedReturn(data)
    PROVE  IInv'
<1>1. frames # <<>> /\ Return(data) /\ currentMsg' = Freed(currentMsg)
  BY DEF InterpretedReturn, Running
<1>2. currentMsg \in Pointers /\ writes' \in 0..MaxWrites
  BY DEF InterpretedReturn, IInv, Types
<1>3. UNCHANGED <<codeMap, modules, memorySize, hitThreshold>>
  BY DEF InterpretedReturn
<1>4. QED
  BY <1>1, <1>2, <1>3, FreedFacts, ReturnKeeps

(* The first frame.                                                        *)
LEMMA BeginKeeps ==
    ASSUME IInv, NEW msg \in TopMessages, Begin(msg)
    PROVE  IInv'
<1>1. msg \in Messages /\ msg.dest \in Addr /\ "top" \in Kinds \cup {"top"}
  BY DEF TopMessages, Messages
<1> DEFINE new == HostFrame(msg, "top", msg.dest)
<1>2. new \in Frames /\ new.mode = "host" /\ new.ret = NoData
  BY <1>1, HostFrameFacts
<1>3. frames' = <<new>> /\ 0 < MaxFrames
  BY DEF Begin
<1> HIDE DEF new
<1>4. frames' \in Seq(Frames) /\ Len(frames') = 1 /\ frames'[1] = new
  BY <1>2, <1>3
<1>5. Depth' = 1
  BY <1>4 DEF Depth
<1>6. UNCHANGED <<currentMsg, returnBuffer, codeMap, modules, memorySize,
                  hitThreshold, writes>>
  BY DEF Begin
<1>7. Types'
  BY <1>3, <1>4, <1>6, ConstantFacts DEF IInv, Types
<1>8. Nesting' /\ MapOwn'
  BY <1>2, <1>4, <1>5, <1>6 DEF IInv, Nesting, MapOwn
<1>9. RunsOwnCode' /\ ReturnDataFresh'
  BY <1>2, <1>4, <1>5 DEF RunsOwnCode, ReturnDataFresh, JitFrames
<1>10. QED
  BY <1>7, <1>8, <1>9 DEF IInv

(* The frame that the host keeps for itself.                               *)
LEMMA HostInterpretsFacts ==
    ASSUME Types, HostInterprets
    PROVE  /\ frames' \in Seq(Frames)
           /\ Depth' = Depth /\ Depth \in 1..MaxFrames
           /\ \A i \in 1..Depth :
                /\ frames'[i].msg = frames[i].msg
                /\ frames'[i].ret = frames[i].ret
                /\ frames'[i].origin = frames[i].origin
                /\ i # Depth => frames'[i] = frames[i]
           /\ frames'[Depth].mode = "interpreted"
<1>1. /\ Depth \in 1..Depth /\ Depth \in Nat /\ Depth <= MaxFrames
      /\ frames[Depth] \in Frames
      /\ frames \in Seq(Frames) /\ Len(frames) = Depth
  BY DepthFacts DEF HostInterprets, Running, Types, Depth
<1> DEFINE new == [frames[Depth] EXCEPT !.mode = "interpreted"]
<1>2. /\ new \in Frames /\ new.mode = "interpreted"
      /\ new.msg = frames[Depth].msg /\ new.ret = frames[Depth].ret
      /\ new.origin = frames[Depth].origin
  BY <1>1 DEF Frames
<1>3. frames' = [frames EXCEPT ![Depth] = new]
  BY <1>1 DEF HostInterprets
<1> HIDE DEF new
<1>4. /\ frames' \in Seq(Frames) /\ Len(frames') = Depth
      /\ frames'[Depth] = new
      /\ \A i \in 1..Depth : i # Depth => frames'[i] = frames[i]
  BY <1>1, <1>2, <1>3
<1>5. QED
  BY <1>1, <1>2, <1>4 DEF Depth

LEMMA HostInterpretsKeeps ==
    ASSUME IInv, HostInterprets
    PROVE  IInv'
<1>1. Types /\ Nesting /\ MapOwn /\ RunsOwnCode /\ ReturnDataFresh
  BY DEF IInv
<1>2. /\ frames' \in Seq(Frames)
      /\ Depth' = Depth /\ Depth \in 1..MaxFrames
      /\ \A i \in 1..Depth :
           /\ frames'[i].msg = frames[i].msg
           /\ frames'[i].ret = frames[i].ret
           /\ i # Depth => frames'[i] = frames[i]
      /\ frames'[Depth].mode = "interpreted"
  BY <1>1, HostInterpretsFacts
<1>3. UNCHANGED <<currentMsg, returnBuffer, codeMap, modules, memorySize,
                  hitThreshold, writes>>
  BY DEF HostInterprets
<1>4. Types'
  <2>1. Len(frames') <= MaxFrames
    BY <1>2, ConstantFacts DEF Depth
  <2>2. QED
    BY <1>1, <1>2, <1>3, <2>1 DEF Types
<1>5. Nesting' /\ MapOwn'
  BY <1>1, <1>2, <1>3 DEF Nesting, MapOwn
<1>6. RunsOwnCode'
  BY <1>1, <1>2 DEF RunsOwnCode, JitFrames
<1>7. ReturnDataFresh'
  BY <1>1, <1>2, <1>3 DEF ReturnDataFresh, JitFrames
<1>8. QED
  BY <1>4, <1>5, <1>6, <1>7 DEF IInv

LEMMA NextInvariant == IInv /\ [Next]_vars => IInv'
<1> SUFFICES ASSUME IInv, [Next]_vars PROVE IInv'
  OBVIOUS
<1>1. Types /\ hitThreshold \in 0..MaxThreshold /\ writes \in 0..MaxWrites
  BY DEF IInv, Types
<1>2. ASSUME NEW msg \in TopMessages, Begin(msg) PROVE IInv'
  BY <1>2, BeginKeeps
<1>3. ASSUME NEW code \in Code,
             \/ ExecuteCached(code) \/ ExecuteRejected(code)
             \/ ExecuteCompiled(code) \/ ExecuteCompileFails(code)
      PROVE  IInv'
  BY <1>3, AnyExecuteKeeps
<1>4. ASSUME NEW kind \in Kinds, NEW addr \in Addr, JitCall(kind, addr)
      PROVE  IInv'
  BY <1>1, <1>4, EnterKeeps DEF JitCall
<1>5. ASSUME NEW kind \in Kinds, NEW addr \in Addr, InterpretedCall(kind, addr)
      PROVE  IInv'
  BY <1>5, InterpretedCallKeeps
<1>6. ASSUME NEW addr \in Addr, JitTransfer(addr) PROVE IInv'
  BY <1>1, <1>6, EnterKeeps, WriteFacts DEF JitTransfer, Kinds
<1>7. CASE JitCallFails
  BY <1>7, ForgetKeeps DEF JitCallFails, Running
<1>8. CASE JitWrite
  BY <1>1, <1>8, UnchangedKeeps, WriteFacts DEF JitWrite
<1>9. CASE JitSelfdestruct
  BY <1>1, <1>9, LeaveKeeps, WriteFacts, ConstantFacts DEF JitSelfdestruct
<1>10. CASE InterpretedWrite
  BY <1>1, <1>10, UnchangedKeeps, WriteFacts DEF InterpretedWrite
<1>11. ASSUME NEW data \in Results, JitReturn(data) PROVE IInv'
  BY <1>1, <1>11, LeaveKeeps DEF JitReturn
<1>12. ASSUME NEW data \in Results, InterpretedReturn(data) PROVE IInv'
  BY <1>12, InterpretedReturnKeeps
<1>13. CASE HostInterprets
  BY <1>13, HostInterpretsKeeps
<1>14. ASSUME NEW value \in Thresholds, SetOption(value) PROVE IInv'
  BY <1>1, <1>14, UnchangedKeeps, ConstantFacts DEF SetOption
<1>15. CASE UNCHANGED vars
  BY <1>1, <1>15, UnchangedKeeps DEF vars
<1>16. QED
  BY <1>2, <1>3, <1>4, <1>5, <1>6, <1>7, <1>8, <1>9, <1>10, <1>11, <1>12,
     <1>13, <1>14, <1>15 DEF Next

LEMMA InvariantHolds == Spec => []IInv
  BY InitInvariant, NextInvariant, PTL DEF Spec

(* The state of the instance has its type for all codes, limits and hosts. *)
(* The depth of a message stays within its bounds although call() counts   *)
(* it from a pointer that may be stale (JIT.cpp:174-199).                  *)
THEOREM TypeCorrect == Spec => []TypeOK
<1>1. ASSUME IInv PROVE TypeOK
  <2>1. Types /\ Nesting
    BY <1>1 DEF IInv
  <2>2. Depth \in Nat /\ Len(frames) = Depth
    BY <2>1, DepthFacts DEF Depth
  <2>3. \A i \in 1..Depth - 1 : i \in 1..Depth /\ i < Depth
    BY <2>2
  <2>4. QED
    BY <2>1, <2>2, <2>3 DEF TypeOK, Nesting
<1>2. QED
  BY <1>1, InvariantHolds, PTL

(* A frame runs the code it was given, compiled for a static call exactly  *)
(* when its message is static, also where executions are rejected, the     *)
(* compiler fails and engines are replaced (JIT.cpp:76, 441).              *)
THEOREM OwnCode == Spec => []RunsOwnCode
<1>1. IInv => RunsOwnCode
  BY DEF IInv
<1>2. QED
  BY <1>1, InvariantHolds, PTL

(* Only the frame that runs sees the shared return buffer, and it sees what*)
(* its own last call returned (JIT.cpp:210, RuntimeManager.cpp:271).       *)
THEOREM ReturnDataIsFresh == Spec => []ReturnDataFresh
<1>1. IInv => ReturnDataFresh
  BY DEF IInv
<1>2. QED
  BY <1>1, InvariantHolds, PTL

-----------------------------------------------------------------------------
(* Nothing is compiled twice.                                              *)

LEMMA CompiledOnceStep ==
    ASSUME ~CompileMayFail, IInv, CompiledOnce, [Next]_vars
    PROVE  CompiledOnce'
<1>1. Types
  BY DEF IInv
<1>2. /\ MapNow \in [Ids -> Entries] /\ ModulesNow \in [Ids -> 0..2]
      /\ SizeNow \in 0..MemoryLimit + 1
      /\ \A id \in Ids :
           ModulesNow[id] = IF MapNow[id].func.state = "live" THEN 1 ELSE 0
      /\ (SizeNow = 0) <=> (\A id \in Ids : ModulesNow[id] = 0)
  <2>1. CASE ResetNow
    BY <2>1, ConstantFacts DEF MapNow, ModulesNow, SizeNow, NoModules, NoEntry, NoFunc
  <2>2. CASE ~ResetNow
    BY <1>1, <2>2 DEF MapNow, ModulesNow, SizeNow, CompiledOnce, Types
  <2>3. QED
    BY <2>1, <2>2
<1>3. ASSUME NEW code \in Code, Running("host")
      PROVE  /\ CodeId(code, Top.msg) \in Ids
             /\ Hit(CodeId(code, Top.msg)) \in Entries
             /\ Hit(CodeId(code, Top.msg)).func
                  = MapNow[CodeId(code, Top.msg)].func
             /\ Compiled(code, Top.msg).state = "live"
             /\ Compiled(code, Top.msg) \in Funcs
  <2>1. Top.msg \in Messages
    BY <1>1, <1>3, DepthFacts DEF Running, Frames
  <2>2. QED
    BY <1>1, <2>1, CodeIdFacts, NowFacts
<1>4. ASSUME NEW code \in Code, ExecuteCached(code) \/ ExecuteRejected(code)
      PROVE  CompiledOnce'
  <2> DEFINE id == CodeId(code, Top.msg)
  <2>1. /\ Running("host") /\ codeMap' = [MapNow EXCEPT ![id] = Hit(id)]
        /\ modules' = ModulesNow /\ memorySize' = SizeNow
    BY <1>4 DEF ExecuteCached, ExecuteRejected, Execute
  <2>2. \A i \in Ids : codeMap'[i].func = MapNow[i].func
    BY <1>2, <1>3, <2>1
  <2>3. QED
    BY <1>2, <2>1, <2>2 DEF CompiledOnce
<1>5. ASSUME NEW code \in Code, ExecuteCompiled(code) PROVE CompiledOnce'
  <2> DEFINE id == CodeId(code, Top.msg)
  <2> DEFINE fn == Compiled(code, Top.msg)
  <2> DEFINE entry == [Hit(id) EXCEPT !.func = fn]
  <2>1. /\ Running("host") /\ codeMap' = [MapNow EXCEPT ![id] = entry]
        /\ modules' = ModuleAdded(id) /\ memorySize' = SizeAdded
        /\ Hit(id).func = NoFunc
    BY <1>5 DEF ExecuteCompiled, Execute
  <2>2. /\ id \in Ids /\ Hit(id) \in Entries /\ Hit(id).func = MapNow[id].func
        /\ fn.state = "live" /\ fn \in Funcs
    BY <1>3, <2>1
  <2>3. entry.func = fn
    BY <2>2 DEF Entries
  <2> HIDE DEF id, fn, entry
  <2>4. ModulesNow[id] = 0
    BY <1>2, <2>1, <2>2 DEF NoFunc
  <2>5. modules' = [ModulesNow EXCEPT ![id] = 1]
    BY <1>2, <2>1, <2>2, <2>4 DEF ModuleAdded, Lesser
  <2>6. \A i \in Ids :
          modules'[i] = IF codeMap'[i].func.state = "live" THEN 1 ELSE 0
    BY <1>2, <2>1, <2>2, <2>3, <2>5
  <2>7. memorySize' # 0 /\ modules'[id] # 0
    BY <1>2, <2>1, <2>2, <2>5, ConstantFacts DEF SizeAdded, Lesser
  <2>8. QED
    BY <2>2, <2>6, <2>7 DEF CompiledOnce
<1>6. CASE UNCHANGED <<codeMap, modules, memorySize>>
  BY <1>6 DEF CompiledOnce
<1>7. QED
  BY <1>4, <1>5, <1>6 DEF Next, vars, Begin, ExecuteCompileFails, JitCall,
     InterpretedCall, JitTransfer, Enter, JitCallFails, JitWrite,
     JitSelfdestruct, Leave, InterpretedWrite, JitReturn, InterpretedReturn,
     HostInterprets, SetOption

(* Where the compiler finds the functions that it adds, no code is compiled*)
(* twice for one engine, nothing mapped outlives its engine, and the size  *)
(* that triggers a reset is zero only for an empty engine                  *)
(* (JIT.cpp:441-465, 584).                                                 *)
THEOREM CompilesOnce ==
    ASSUME ~CompileMayFail PROVE Spec => []CompiledOnce
<1>1. Init => CompiledOnce
  BY ConstantFacts DEF Init, CompiledOnce, NoEntry, NoFunc, NoModules
<1>2. CompiledOnce /\ IInv /\ [Next]_vars => CompiledOnce'
  BY CompiledOnceStep
<1>3. QED
  BY <1>1, <1>2, InvariantHolds, PTL DEF Spec

-----------------------------------------------------------------------------
(* Where execute() never refuses a frame.                                  *)

(* A pointer to the innermost compiled frame, as frames come and go.       *)
LEMMA InnermostFacts ==
    ASSUME NEW stack, NEW pointer, NEW n \in Nat, n <= MaxFrames
    PROVE  /\ \A other :
                /\ \A i \in 1..n :
                     (other[i].mode = "jit") <=> (stack[i].mode = "jit")
                /\ Innermost(stack, pointer, n)
                => Innermost(other, pointer, n)
           /\ Innermost(stack, pointer, n) /\ stack[n + 1].mode # "jit"
                => Innermost(stack, pointer, n + 1)
           /\ n > 0 /\ Innermost(stack, pointer, n) /\ stack[n].mode # "jit"
                => Innermost(stack, pointer, n - 1) /\ pointer # n
           /\ n > 0 /\ Innermost(stack, pointer, n) /\ stack[n].mode = "jit"
                => pointer = n
           /\ n > 0 /\ Innermost(stack, pointer, n - 1) => pointer # n
           /\ n > 0 /\ stack[n].mode = "jit" => Innermost(stack, n, n)
<1> USE ConstantFacts DEF Innermost, Null, Dangling
<1>1. ASSUME NEW other,
             \A i \in 1..n :
               (other[i].mode = "jit") <=> (stack[i].mode = "jit"),
             Innermost(stack, pointer, n)
      PROVE  Innermost(other, pointer, n)
  BY <1>1
<1>2. ASSUME Innermost(stack, pointer, n), stack[n + 1].mode # "jit"
      PROVE  Innermost(stack, pointer, n + 1)
  BY <1>2
<1>3. ASSUME n > 0, Innermost(stack, pointer, n), stack[n].mode # "jit"
      PROVE  Innermost(stack, pointer, n - 1) /\ pointer # n
  BY <1>3
<1>4. ASSUME n > 0, Innermost(stack, pointer, n), stack[n].mode = "jit"
      PROVE  pointer = n
  BY <1>4
<1>5. ASSUME n > 0, Innermost(stack, pointer, n - 1) PROVE pointer # n
  BY <1>5
<1>6. ASSUME n > 0, stack[n].mode = "jit" PROVE Innermost(stack, n, n)
  BY <1>6
<1> HIDE DEF Innermost
<1>7. QED
  BY <1>1, <1>2, <1>3, <1>4, <1>5, <1>6

(* Compiled code that runs finds its own message behind the pointer.       *)
LEMMA RunningFacts ==
    ASSUME PInv, Running("jit")
    PROVE  currentMsg = Depth /\ CurrentMessages = {Top.msg}
<1>1. /\ Types /\ Pointing
      /\ frames # <<>> /\ Top.mode = "jit"
  BY DEF PInv, IInv, Linked, Running
<1>2. /\ Depth \in Nat /\ Depth \in 1..Depth /\ Depth <= MaxFrames
      /\ Top = frames[Depth]
  BY <1>1, DepthFacts
<1>3. Innermost(frames, currentMsg, Depth)
  BY <1>1 DEF Pointing
<1>4. currentMsg = Depth
  BY <1>1, <1>2, <1>3, InnermostFacts
<1>5. QED
  BY <1>2, <1>4 DEF CurrentMessages

(* execute() saves the pointer to the frame below.                         *)
LEMMA ExecuteLinks ==
    ASSUME PInv, Running("host"), NEW code \in Code, NEW func \in Funcs,
           NEW entry \in Entries, func.state = "live",
           Execute(code, func, "jit", entry), MapOwn'
    PROVE  Linked'
<1>1. /\ Types /\ hitThreshold = 0 /\ Pointing /\ Depths
      /\ StaticInherited /\ FunctionsAlive
  BY DEF PInv, IInv, Linked
<1>2. /\ Depth \in Nat /\ Depth \in 1..Depth /\ Depth <= MaxFrames
      /\ frames[Depth].mode = "host" /\ Top = frames[Depth]
  BY <1>1, DepthFacts DEF Running
<1>3. /\ Depth' = Depth
      /\ \A i \in 1..Depth :
           /\ frames'[i].msg = frames[i].msg
           /\ i # Depth =>
                /\ frames'[i].mode = frames[i].mode
                /\ frames'[i].prevMsg = frames[i].prevMsg
                /\ ~ResetNow => frames'[i].func = frames[i].func
      /\ frames'[Depth].mode = "jit"
      /\ frames'[Depth].func = func
      /\ frames'[Depth].prevMsg = currentMsg
  BY <1>1, ExecuteFacts
<1>4. currentMsg' = Depth /\ hitThreshold' = hitThreshold
  BY DEF Execute
<1>5. Pointing'
  <2>1. Innermost(frames', currentMsg', Depth')
    BY <1>2, <1>3, <1>4, InnermostFacts
  <2>2. Innermost(frames', frames'[Depth].prevMsg, Depth - 1)
    <3>1. Innermost(frames, currentMsg, Depth - 1)
      BY <1>1, <1>2, InnermostFacts DEF Pointing
    <3>2. Depth - 1 \in Nat /\ Depth - 1 <= MaxFrames
      BY <1>2, ConstantFacts
    <3>3. \A i \in 1..Depth - 1 :
            (frames'[i].mode = "jit") <=> (frames[i].mode = "jit")
      BY <1>2, <1>3
    <3>4. QED
      BY <1>3, <3>1, <3>2, <3>3, InnermostFacts
  <2>3. ASSUME NEW i \in 1..Depth, i # Depth, frames'[i].mode = "jit"
        PROVE  Innermost(frames', frames'[i].prevMsg, i - 1)
    <3>1. Innermost(frames, frames[i].prevMsg, i - 1)
      BY <1>1, <1>3, <2>3 DEF Pointing
    <3>2. i - 1 \in Nat /\ i - 1 <= MaxFrames
      BY <1>2, ConstantFacts
    <3>3. \A j \in 1..i - 1 :
            (frames'[j].mode = "jit") <=> (frames[j].mode = "jit")
      BY <1>2, <1>3
    <3>4. QED
      BY <1>3, <2>3, <3>1, <3>2, <3>3, InnermostFacts
  <2>4. QED
    BY <1>3, <2>1, <2>2, <2>3 DEF Pointing
<1>6. Depths' /\ StaticInherited'
  BY <1>1, <1>3 DEF Depths, StaticInherited
<1>7. FunctionsAlive'
  <2>1. ResetNow => Depth = 1
    BY <1>1, <1>2 DEF Depths, ResetNow
  <2>2. \A i \in 1..Depth :
          i # Depth /\ frames'[i].mode = "jit" => frames'[i].func.state = "live"
    BY <1>1, <1>2, <1>3, <2>1 DEF FunctionsAlive, JitFrames
  <2>3. \A id \in Ids : codeMap'[id].func.state # "dead"
    BY DEF MapOwn, NoFunc
  <2>4. QED
    BY <1>3, <2>2, <2>3 DEF FunctionsAlive, JitFrames
<1>8. QED
  BY <1>1, <1>4, <1>5, <1>6, <1>7 DEF Linked

(* The message of a callee derives from that of its caller.                *)
LEMMA CallLinks ==
    ASSUME PInv, frames # <<>>, Depth < MaxFrames, Top.mode # "host",
           Top.msg.depth < DepthLimit, NEW kind \in Kinds, NEW addr \in Addr,
           SentMsg(Top.msg, kind, addr) \in Messages,
           Called(SentMsg(Top.msg, kind, addr), kind, addr),
           UNCHANGED <<currentMsg, codeMap, hitThreshold>>
    PROVE  Linked'
<1>1. /\ Types /\ hitThreshold = 0 /\ Pointing /\ Depths
      /\ StaticInherited /\ FunctionsAlive
  BY DEF PInv, IInv, Linked
<1> DEFINE sent == SentMsg(Top.msg, kind, addr)
<1>2. /\ Depth \in Nat /\ Depth \in 1..Depth /\ Depth <= MaxFrames
      /\ Top = frames[Depth] /\ Top.msg \in Messages
  BY <1>1, DepthFacts DEF Frames
<1>3. /\ Depth' = Depth + 1
      /\ \A i \in 1..Depth : SameButRet(frames'[i], frames[i])
      /\ frames'[Depth + 1] = HostFrame(sent, kind, addr)
  BY <1>1, CallFacts
<1>4. frames'[Depth + 1].mode = "host" /\ frames'[Depth + 1].msg = sent
  <2>1. kind \in Kinds \cup {"top"} /\ sent \in Messages
    OBVIOUS
  <2> DEFINE new == HostFrame(sent, kind, addr)
  <2> HIDE DEF sent
  <2>2. new.mode = "host" /\ new.msg = sent
    BY <2>1, HostFrameFacts
  <2>3. frames'[Depth + 1] = new
    BY <1>3
  <2> HIDE DEF new
  <2>4. QED
    BY <2>2, <2>3
<1>5. sent.depth = Top.msg.depth + 1 /\ (Top.msg.static => sent.static)
  BY <1>1, DeeperFacts DEF SentMsg
<1> HIDE DEF sent
<1>6. \A i \in 1..Depth + 1 : i = Depth + 1 \/ i \in 1..Depth
  BY <1>2
<1>7. Pointing'
  <2>1. \A i \in 1..Depth :
          (frames'[i].mode = "jit") <=> (frames[i].mode = "jit")
    BY <1>3 DEF SameButRet
  <2>2. Innermost(frames', currentMsg', Depth + 1)
    <3>1. Innermost(frames', currentMsg, Depth)
      BY <1>1, <1>2, <2>1, InnermostFacts DEF Pointing
    <3>2. frames'[Depth + 1].mode # "jit"
      BY <1>4
    <3>3. QED
      BY <1>2, <3>1, <3>2, InnermostFacts
  <2>3. ASSUME NEW i \in 1..Depth, frames'[i].mode = "jit"
        PROVE  Innermost(frames', frames'[i].prevMsg, i - 1)
    <3>1. Innermost(frames, frames[i].prevMsg, i - 1)
      BY <1>1, <2>1, <2>3 DEF Pointing
    <3>2. i - 1 \in Nat /\ i - 1 <= MaxFrames
      BY <1>2, ConstantFacts
    <3>3. \A j \in 1..i - 1 :
            (frames'[j].mode = "jit") <=> (frames[j].mode = "jit")
      BY <1>2, <2>1
    <3>4. frames'[i].prevMsg = frames[i].prevMsg
      BY <1>3 DEF SameButRet
    <3>5. QED
      BY <3>1, <3>2, <3>3, <3>4, InnermostFacts
  <2>4. QED
    BY <1>3, <1>4, <1>6, <2>2, <2>3 DEF Pointing
<1>8. Depths'
  BY <1>1, <1>2, <1>3, <1>4, <1>5, <1>6 DEF Depths, SameButRet
<1>9. StaticInherited'
  <2>1. \A i \in 1..Depth : frames[i].msg.static => sent.static
    BY <1>1, <1>2, <1>5 DEF StaticInherited
  <2>2. QED
    BY <1>1, <1>2, <1>3, <1>4, <1>6, <2>1 DEF StaticInherited, SameButRet
<1>10. FunctionsAlive'
  BY <1>1, <1>3, <1>4, <1>6 DEF FunctionsAlive, JitFrames, SameButRet
<1>11. QED
  BY <1>1, <1>7, <1>8, <1>9, <1>10 DEF Linked

(* The frames below the one that goes stay linked.                         *)
LEMMA ReturnLinks ==
    ASSUME PInv, frames # <<>>, NEW data \in Results, Return(data),
           Innermost(frames, currentMsg', Depth - 1),
           UNCHANGED <<codeMap, hitThreshold>>
    PROVE  Linked'
<1>1. /\ Types /\ hitThreshold = 0 /\ Pointing /\ Depths
      /\ StaticInherited /\ FunctionsAlive
  BY DEF PInv, IInv, Linked
<1>2. /\ Depth \in Nat /\ Depth \in 1..Depth /\ Depth <= MaxFrames
      /\ Depth - 1 \in Nat /\ Depth - 1 <= MaxFrames
  BY <1>1, DepthFacts, ConstantFacts
<1>3. /\ Depth' = Depth - 1
      /\ \A i \in 1..Depth - 1 : SameButRet(frames'[i], frames[i])
  BY <1>1, ReturnFacts
<1>4. Pointing'
  <2>1. \A i \in 1..Depth - 1 :
          (frames'[i].mode = "jit") <=> (frames[i].mode = "jit")
    BY <1>3 DEF SameButRet
  <2>2. Innermost(frames', currentMsg', Depth - 1)
    BY <1>2, <2>1, InnermostFacts
  <2>3. ASSUME NEW i \in 1..Depth - 1, frames'[i].mode = "jit"
        PROVE  Innermost(frames', frames'[i].prevMsg, i - 1)
    <3>1. Innermost(frames, frames[i].prevMsg, i - 1)
      BY <1>1, <1>2, <2>1, <2>3 DEF Pointing
    <3>2. i - 1 \in Nat /\ i - 1 <= MaxFrames
      BY <1>2, ConstantFacts
    <3>3. \A j \in 1..i - 1 :
            (frames'[j].mode = "jit") <=> (frames[j].mode = "jit")
      BY <1>2, <2>1
    <3>4. frames'[i].prevMsg = frames[i].prevMsg
      BY <1>3 DEF SameButRet
    <3>5. QED
      BY <3>1, <3>2, <3>3, <3>4, InnermostFacts
  <2>4. QED
    BY <1>3, <2>2, <2>3 DEF Pointing
<1>5. Depths' /\ StaticInherited'
  <2>1. \A i \in 1..Depth - 1 :
          i \in 1..Depth /\ frames'[i].msg = frames[i].msg
    BY <1>2, <1>3 DEF SameButRet
  <2>2. Depths'
    BY <1>1, <1>3, <2>1 DEF Depths
  <2>3. StaticInherited'
    BY <1>1, <1>3, <2>1 DEF StaticInherited
  <2>4. QED
    BY <2>2, <2>3
<1>6. FunctionsAlive'
  BY <1>1, <1>2, <1>3 DEF FunctionsAlive, JitFrames, SameButRet
<1>7. QED
  BY <1>1, <1>4, <1>5, <1>6 DEF Linked

(* Steps that leave the depth and the modes of the frames alone.           *)
LEMMA SameLinks ==
    ASSUME PInv, Depth' = Depth,
           \A i \in 1..Depth :
             /\ frames'[i].msg = frames[i].msg
             /\ (frames'[i].mode = "jit") <=> (frames[i].mode = "jit")
             /\ frames[i].mode = "jit" =>
                  /\ frames'[i].func = frames[i].func
                  /\ frames'[i].prevMsg = frames[i].prevMsg,
           currentMsg' = currentMsg, codeMap' = codeMap, hitThreshold' = 0
    PROVE  Linked'
<1>1. /\ Types /\ Pointing /\ Depths /\ StaticInherited /\ FunctionsAlive
  BY DEF PInv, IInv, Linked
<1>2. Depth \in Nat /\ Depth <= MaxFrames
  BY <1>1, DepthFacts
<1>3. Pointing'
  <2>1. Innermost(frames', currentMsg', Depth')
    BY <1>1, <1>2, InnermostFacts DEF Pointing
  <2>2. ASSUME NEW i \in 1..Depth, frames'[i].mode = "jit"
        PROVE  Innermost(frames', frames'[i].prevMsg, i - 1)
    <3>1. Innermost(frames, frames[i].prevMsg, i - 1)
      BY <1>1, <2>2 DEF Pointing
    <3>2. i - 1 \in Nat /\ i - 1 <= MaxFrames
      BY <1>2, ConstantFacts
    <3>3. \A j \in 1..i - 1 :
            (frames'[j].mode = "jit") <=> (frames[j].mode = "jit")
      BY <1>2
    <3>4. QED
      BY <2>2, <3>1, <3>2, <3>3, InnermostFacts
  <2>3. QED
    BY <2>1, <2>2 DEF Pointing
<1>4. Depths' /\ StaticInherited'
  BY <1>1 DEF Depths, StaticInherited
<1>5. FunctionsAlive'
  BY <1>1 DEF FunctionsAlive, JitFrames
<1>6. QED
  BY <1>3, <1>4, <1>5 DEF Linked

LEMMA BeginLinks ==
    ASSUME PInv, NEW msg \in TopMessages, Begin(msg)
    PROVE  Linked'
<1>1. /\ Types /\ hitThreshold = 0 /\ Pointing /\ FunctionsAlive
      /\ frames = <<>> /\ Depth = 0
  BY DepthFacts DEF PInv, IInv, Linked, Begin
<1>2. /\ msg \in Messages /\ msg.dest \in Addr /\ msg.depth = 0
      /\ "top" \in Kinds \cup {"top"}
  BY DEF TopMessages, Messages
<1> DEFINE new == HostFrame(msg, "top", msg.dest)
<1>3. new.mode = "host" /\ new.msg = msg
  BY <1>2, HostFrameFacts
<1>4. frames' = <<new>>
  BY DEF Begin
<1> HIDE DEF new
<1>5. Depth' = 1 /\ frames'[1] = new
  BY <1>4 DEF Depth
<1>6. /\ currentMsg' = currentMsg /\ codeMap' = codeMap
      /\ hitThreshold' = hitThreshold
  BY DEF Begin
<1>7. currentMsg \in {Null, Dangling}
  BY <1>1 DEF Pointing, Innermost
<1>8. Pointing'
  BY <1>3, <1>5, <1>6, <1>7 DEF Pointing, Innermost
<1>9. Depths' /\ StaticInherited'
  BY <1>2, <1>3, <1>5 DEF Depths, StaticInherited
<1>10. FunctionsAlive'
  BY <1>1, <1>3, <1>5, <1>6 DEF FunctionsAlive, JitFrames
<1>11. QED
  BY <1>1, <1>6, <1>8, <1>9, <1>10 DEF Linked

(* No frame is refused: every counter is above the threshold of zero.      *)
LEMMA NeverRejected ==
    ASSUME Types, hitThreshold = 0, NEW code \in Code
    PROVE  ~ExecuteRejected(code)
<1> SUFFICES ASSUME ExecuteRejected(code) PROVE FALSE
  OBVIOUS
<1> DEFINE id == CodeId(code, Top.msg)
<1>1. Running("host") /\ Hit(id).hits <= 0
  BY DEF ExecuteRejected
<1>2. Top.msg \in Messages
  BY <1>1, DepthFacts DEF Running, Frames
<1>3. MapNow[id] \in Entries
  BY <1>2, CodeIdFacts, NowFacts
<1> HIDE DEF id
<1>4. Hit(id).hits = Lesser(MapNow[id].hits + 1, MaxThreshold + 1)
  BY <1>3 DEF Hit, Entries
<1>5. Hit(id).hits > 0
  BY <1>3, <1>4, ConstantFacts DEF Lesser, Entries
<1>6. QED
  BY <1>1, <1>3, <1>4, <1>5, ConstantFacts DEF Entries, Lesser

LEMMA AnyExecuteLinks ==
    ASSUME ~CompileMayFail, PInv, NEW code \in Code,
           \/ ExecuteCached(code) \/ ExecuteRejected(code)
           \/ ExecuteCompiled(code) \/ ExecuteCompileFails(code)
    PROVE  Linked'
<1> DEFINE id == CodeId(code, Top.msg)
<1> DEFINE fn == Compiled(code, Top.msg)
<1>1. Types /\ MapOwn /\ hitThreshold = 0 /\ IInv
  BY DEF PInv, IInv, Linked
<1>2. ExecuteCached(code) \/ ExecuteCompiled(code)
  BY <1>1, NeverRejected DEF ExecuteCompileFails
<1>3. Running("host")
  BY <1>2 DEF ExecuteCached, ExecuteCompiled
<1>4. Top.msg \in Messages
  BY <1>1, <1>3, DepthFacts DEF Running, Frames
<1>5. /\ id \in Ids /\ fn \in Funcs /\ fn.state = "live"
      /\ Hit(id) \in Entries /\ Hit(id).func = MapNow[id].func
  BY <1>1, <1>4, CodeIdFacts, NowFacts
<1>6. MapOwn'
  BY <1>1, AnyExecuteKeeps DEF IInv
<1>7. CASE ExecuteCached(code)
  <2>1. Hit(id).func # NoFunc /\ Execute(code, Hit(id).func, "jit", Hit(id))
    BY <1>7 DEF ExecuteCached
  <2>2. Hit(id).func.state = "live"
    BY <1>1, <1>5, <2>1 DEF MapOwn, MapNow, NoEntry
  <2>3. Hit(id).func \in Funcs
    BY <1>5 DEF Entries
  <2>4. QED
    BY <1>3, <1>5, <1>6, <2>1, <2>2, <2>3, ExecuteLinks
<1>8. CASE ExecuteCompiled(code)
  <2> DEFINE entry == [Hit(id) EXCEPT !.func = fn]
  <2>1. Execute(code, fn, "jit", entry)
    BY <1>8 DEF ExecuteCompiled
  <2>2. entry \in Entries
    BY <1>5 DEF Entries
  <2> HIDE DEF entry, fn
  <2>3. QED
    BY <1>3, <1>5, <1>6, <2>1, <2>2, ExecuteLinks
<1>9. QED
  BY <1>2, <1>7, <1>8

LEMMA EnterLinks ==
    ASSUME PInv, NEW kind \in Kinds, NEW addr \in Addr, Enter(kind, addr)
    PROVE  Linked'
<1>1. /\ frames # <<>> /\ Top.mode # "host" /\ Top.msg.depth < DepthLimit
      /\ Depth < MaxFrames /\ Running("jit") /\ IInv
  BY DEF Enter, Running, PInv
<1>2. PICK cur \in CurrentMessages :
        Called(SentMsg(cur, kind, addr), kind, addr)
  BY DEF Enter, Called
<1>3. cur = Top.msg
  BY <1>1, <1>2, RunningFacts
<1>4. SentMsg(Top.msg, kind, addr) \in Messages
  BY <1>1, SentFacts DEF IInv
<1>5. UNCHANGED <<currentMsg, codeMap, hitThreshold>>
  BY DEF Enter
<1>6. QED
  BY <1>1, <1>2, <1>3, <1>4, <1>5, CallLinks

LEMMA InterpretedCallLinks ==
    ASSUME PInv, NEW kind \in Kinds, NEW addr \in Addr,
           InterpretedCall(kind, addr)
    PROVE  Linked'
<1>1. /\ frames # <<>> /\ Top.mode # "host" /\ Top.msg.depth < DepthLimit
      /\ Depth < MaxFrames /\ IInv
  BY DEF InterpretedCall, Running, PInv
<1>2. Called(SentMsg(Top.msg, kind, addr), kind, addr)
  BY DEF InterpretedCall, Called
<1>3. SentMsg(Top.msg, kind, addr) \in Messages
  BY <1>1, SentFacts DEF IInv
<1>4. UNCHANGED <<currentMsg, codeMap, hitThreshold>>
  BY DEF InterpretedCall
<1>5. QED
  BY <1>1, <1>2, <1>3, <1>4, CallLinks

(* The message that execute() saved is that of the frame below.            *)
LEMMA LeaveLinks ==
    ASSUME PInv, NEW data \in Results, Leave(data)
    PROVE  Linked'
<1>1. /\ frames # <<>> /\ Top.mode = "jit" /\ Return(data) /\ Types /\ Pointing
      /\ currentMsg' = Freed(Top.prevMsg) /\ UNCHANGED <<codeMap, hitThreshold>>
  BY DEF Leave, Running, PInv, IInv, Linked
<1>2. /\ Depth \in Nat /\ Depth > 0 /\ Depth \in 1..Depth /\ Depth <= MaxFrames
      /\ Top = frames[Depth]
  BY <1>1, DepthFacts
<1>3. Innermost(frames, Top.prevMsg, Depth - 1)
  BY <1>1, <1>2 DEF Pointing
<1>4. Top.prevMsg # Depth
  BY <1>2, <1>3, InnermostFacts
<1>5. Innermost(frames, currentMsg', Depth - 1)
  BY <1>1, <1>3, <1>4 DEF Freed
<1>6. QED
  BY <1>1, <1>5, ReturnLinks

LEMMA InterpretedReturnLinks ==
    ASSUME PInv, NEW data \in Results, InterpretedReturn(data)
    PROVE  Linked'
<1>1. /\ frames # <<>> /\ Top.mode # "jit" /\ Return(data) /\ Types /\ Pointing
      /\ currentMsg' = Freed(currentMsg) /\ UNCHANGED <<codeMap, hitThreshold>>
  BY DEF InterpretedReturn, Running, PInv, IInv, Linked
<1>2. /\ Depth \in Nat /\ Depth > 0 /\ Depth <= MaxFrames
      /\ Top = frames[Depth]
  BY <1>1, DepthFacts
<1>3. Innermost(frames, currentMsg, Depth - 1) /\ currentMsg # Depth
  BY <1>1, <1>2, InnermostFacts DEF Pointing
<1>4. Innermost(frames, currentMsg', Depth - 1)
  BY <1>1, <1>3 DEF Freed
<1>5. QED
  BY <1>1, <1>4, ReturnLinks

LEMMA ForgetLinks ==
    ASSUME PInv, JitCallFails
    PROVE  Linked'
<1>1. /\ frames # <<>> /\ frames' = RetForgotten /\ Types /\ hitThreshold = 0
      /\ UNCHANGED <<currentMsg, codeMap, hitThreshold>>
  BY DEF JitCallFails, Running, PInv, IInv, Linked
<1>2. Depth' = Depth /\ \A i \in 1..Depth : SameButRet(frames'[i], frames[i])
  BY <1>1, ForgetFacts
<1>3. QED
  BY <1>1, <1>2, SameLinks DEF SameButRet

LEMMA HostInterpretsLinks ==
    ASSUME PInv, HostInterprets
    PROVE  Linked'
<1>1. /\ Types /\ hitThreshold = 0 /\ Running("host")
      /\ UNCHANGED <<currentMsg, codeMap, hitThreshold>>
  BY DEF HostInterprets, PInv, IInv, Linked
<1>2. Depth \in Nat /\ frames[Depth].mode = "host"
  BY <1>1, DepthFacts DEF Running
<1>3. /\ Depth' = Depth
      /\ \A i \in 1..Depth :
           /\ frames'[i].msg = frames[i].msg
           /\ i # Depth => frames'[i] = frames[i]
      /\ frames'[Depth].mode = "interpreted"
  BY <1>1, HostInterpretsFacts
<1>4. QED
  BY <1>1, <1>2, <1>3, SameLinks

LEMMA NextLinks ==
    ASSUME NeverRefuses, PInv, [Next]_vars
    PROVE  PInv'
<1> USE DEF NeverRefuses
<1>1. IInv /\ hitThreshold = 0
  BY DEF PInv, Linked
<1>2. IInv'
  BY <1>1, NextInvariant
<1> SUFFICES Linked'
  BY <1>2 DEF PInv
<1>3. ASSUME NEW msg \in TopMessages, Begin(msg) PROVE Linked'
  BY <1>3, BeginLinks
<1>4. ASSUME NEW code \in Code,
             \/ ExecuteCached(code) \/ ExecuteRejected(code)
             \/ ExecuteCompiled(code) \/ ExecuteCompileFails(code)
      PROVE  Linked'
  BY <1>4, AnyExecuteLinks
<1>5. ASSUME NEW kind \in Kinds, NEW addr \in Addr, JitCall(kind, addr)
      PROVE  Linked'
  BY <1>5, EnterLinks DEF JitCall
<1>6. ASSUME NEW kind \in Kinds, NEW addr \in Addr, InterpretedCall(kind, addr)
      PROVE  Linked'
  BY <1>6, InterpretedCallLinks
<1>7. ASSUME NEW addr \in Addr, JitTransfer(addr) PROVE Linked'
  BY <1>7, EnterLinks DEF JitTransfer, Kinds
<1>8. CASE JitCallFails
  BY <1>8, ForgetLinks
<1>9. CASE JitSelfdestruct
  BY <1>9, LeaveLinks, ConstantFacts DEF JitSelfdestruct
<1>10. ASSUME NEW data \in Results, JitReturn(data) PROVE Linked'
  BY <1>10, LeaveLinks DEF JitReturn
<1>11. ASSUME NEW data \in Results, InterpretedReturn(data) PROVE Linked'
  BY <1>11, InterpretedReturnLinks
<1>12. CASE HostInterprets
  BY <1>12, HostInterpretsLinks
<1>13. ASSUME frames' = frames, currentMsg' = currentMsg, codeMap' = codeMap,
              hitThreshold' = 0
       PROVE  Linked'
  BY <1>13, SameLinks DEF Depth
<1>14. CASE JitWrite \/ InterpretedWrite \/ UNCHANGED vars
  BY <1>1, <1>13, <1>14 DEF JitWrite, InterpretedWrite, vars
<1>15. ASSUME NEW value \in Thresholds, SetOption(value) PROVE Linked'
  BY <1>13, <1>15 DEF SetOption
<1>16. QED
  BY <1>3, <1>4, <1>5, <1>6, <1>7, <1>8, <1>9, <1>10, <1>11, <1>12, <1>14,
     <1>15 DEF Next

LEMMA LinkedHolds == ASSUME NeverRefuses PROVE Spec => []PInv
<1>1. Init => PInv
  <2> SUFFICES ASSUME Init PROVE PInv
    OBVIOUS
  <2>1. Depth = 0 /\ currentMsg = Null /\ hitThreshold = 0
    BY DEF Init, Depth
  <2>2. Pointing /\ Depths /\ StaticInherited
    BY <2>1 DEF Pointing, Innermost, Depths, StaticInherited
  <2>3. FunctionsAlive
    BY <2>1 DEF Init, FunctionsAlive, JitFrames, NoEntry, NoFunc
  <2>4. QED
    BY <2>1, <2>2, <2>3, InitInvariant DEF PInv, Linked
<1>2. PInv /\ [Next]_vars => PInv'
  BY NextLinks
<1>3. QED
  BY <1>1, <1>2, PTL DEF Spec

(* The code of a running function is never unmapped, where execute() never *)
(* refuses a frame: the depth at which the engine is replaced is then that *)
(* of the only frame (JIT.cpp:408, 584).                                   *)
THEOREM CodeStaysMapped ==
    ASSUME NeverRefuses PROVE Spec => []FunctionsAlive
<1>1. PInv => FunctionsAlive
  BY DEF PInv, Linked
<1>2. QED
  BY <1>1, LinkedHolds, PTL

(* While compiled code runs, currentMsg is the message of its frame, where *)
(* execute() never refuses a frame (JIT.cpp:415, 450, 510).                *)
THEOREM CurrentMsgStays ==
    ASSUME NeverRefuses PROVE Spec => []CurrentMsgIsCurrent
<1>1. PInv => CurrentMsgIsCurrent
  BY RunningFacts DEF CurrentMsgIsCurrent
<1>2. QED
  BY <1>1, LinkedHolds, PTL

(* Nothing below a STATICCALL changes the state of the host, at any depth  *)
(* of nesting and through compiled and interpreted frames, where execute() *)
(* never refuses a frame (JIT.cpp:189, 441; Compiler.cpp:592, 795).        *)
THEOREM StaticIsStatic ==
    ASSUME NeverRefuses PROVE Spec => StaticChangesNothing
<1> DEFINE NoneStatic == \A i \in 1..Depth : ~frames[i].msg.static
<1>1. ASSUME PInv, frames # <<>>, ~Top.msg.static PROVE NoneStatic
  <2>1. StaticInherited /\ Types
    BY <1>1 DEF PInv, IInv, Linked
  <2>2. Depth \in Nat /\ Depth \in 1..Depth /\ Top = frames[Depth]
    BY <1>1, <2>1, DepthFacts
  <2>3. QED
    BY <1>1, <2>1, <2>2 DEF StaticInherited
<1>2. ASSUME PInv, CodeWrites PROVE NoneStatic
  <2>1. /\ frames # <<>> /\ Top.mode = "jit" /\ ~Top.func.of[2]
        /\ RunsOwnCode /\ Types
    BY <1>2 DEF CodeWrites, Running, PInv, IInv
  <2>2. Depth \in 1..Depth /\ Top = frames[Depth]
    BY <2>1, DepthFacts
  <2>3. Top.func.of = <<Top.code, Top.msg.static>>
    BY <2>1, <2>2 DEF RunsOwnCode, JitFrames
  <2>4. QED
    BY <1>1, <1>2, <2>1, <2>3
<1>3. ASSUME PInv, InterpretedWrite PROVE NoneStatic
  BY <1>1, <1>3 DEF InterpretedWrite, Running
<1>4. PInv /\ [Next]_vars => [writes' # writes => NoneStatic]_vars
  <2> SUFFICES ASSUME PInv, Next, writes' # writes PROVE NoneStatic
    BY DEF vars
  <2>1. CASE InterpretedWrite
    BY <1>3, <2>1
  <2>2. CASE JitWrite \/ JitSelfdestruct \/ \E addr \in Addr : JitTransfer(addr)
    BY <1>2, <2>2 DEF JitWrite, JitSelfdestruct, JitTransfer
  <2>3. QED
    BY <2>1, <2>2 DEF Next, Begin, ExecuteCached, ExecuteRejected,
       ExecuteCompiled, ExecuteCompileFails, Execute, JitCall, InterpretedCall,
       JitCallFails, JitReturn, InterpretedReturn, HostInterprets, SetOption
<1>5. QED
  BY <1>4, LinkedHolds, PTL DEF Spec, StaticChangesNothing

-----------------------------------------------------------------------------
(* The calls of the machine.                                               *)

Views == [msg : Messages, origin : Origins, data : Results]
View(frame) == [msg |-> frame.msg, origin |-> frame.origin, data |-> frame.ret]

(* What a frame sees in the buffer is what it was given.                   *)
SeenIsGiven ==
    /\ Depth \in Nat
    /\ Seen \in Seq(Views) /\ Len(Seen) = Depth
    /\ \A i \in 1..Depth :
         Seen[i] = View(frames[i]) /\ View(frames[i]) \in Views

LEMMA SeenFacts == IInv => SeenIsGiven
<1> SUFFICES ASSUME IInv PROVE SeenIsGiven
  OBVIOUS
<1>1. Types /\ ReturnDataFresh
  BY DEF IInv
<1>2. Depth \in Nat /\ \A i \in 1..Depth : frames[i] \in Frames
  BY <1>1, DepthFacts
<1>3. \A i \in 1..Depth :
        (IF frames[i].mode = "jit" /\ frames[i].ret # NoData
         THEN returnBuffer ELSE frames[i].ret) = frames[i].ret
  BY <1>1 DEF ReturnDataFresh, JitFrames
<1>4. Seen = [i \in 1..Depth |-> View(frames[i])]
  BY <1>3 DEF Seen, View
<1>5. \A i \in 1..Depth : View(frames[i]) \in Views
  BY <1>2 DEF View, Views, Frames
<1> HIDE DEF Seen, View
<1>6. QED
  BY <1>2, <1>4, <1>5 DEF SeenIsGiven

LEMMA SeenFactsNext == IInv' => SeenIsGiven'
  BY SeenFacts, PTL

(* The frames that a step leaves as they look.                             *)
LEMMA SeenStutters ==
    ASSUME IInv, IInv', Depth' = Depth,
           \A i \in 1..Depth : View(frames'[i]) = View(frames[i])
    PROVE  Seen' = Seen
<1>1. SeenIsGiven /\ SeenIsGiven'
  BY SeenFacts, SeenFactsNext
<1>2. /\ Depth \in Nat
      /\ Seen \in Seq(Views) /\ Len(Seen) = Depth
      /\ Seen' \in Seq(Views) /\ Len(Seen') = Depth
      /\ \A i \in 1..Depth : Seen'[i] = Seen[i]
  BY <1>1 DEF SeenIsGiven
<1>3. QED
  BY <1>2, SeqEqual

(* The top frame without the data of its last call.                        *)
LEMMA ForgottenFacts ==
    ASSUME IInv, frames # <<>>
    PROVE  /\ Calls!Forgotten \in Seq(Views) /\ Len(Calls!Forgotten) = Depth
           /\ \A i \in 1..Depth - 1 : Calls!Forgotten[i] = View(frames[i])
           /\ Calls!Forgotten[Depth]
                = [msg |-> frames[Depth].msg, origin |-> frames[Depth].origin,
                   data |-> NoData]
<1>1. SeenIsGiven /\ Depth \in 1..Depth
  BY SeenFacts, DepthFacts DEF IInv
<1>2. Seen[Depth] = View(frames[Depth]) /\ View(frames[Depth]) \in Views
  BY <1>1 DEF SeenIsGiven
<1> DEFINE new == [msg |-> frames[Depth].msg, origin |-> frames[Depth].origin,
                   data |-> NoData]
<1>3. new = [Seen[Depth] EXCEPT !.data = NoData] /\ new \in Views
  BY <1>2, ConstantFacts DEF View, Views
<1>4. Calls!Forgotten = [Seen EXCEPT ![Depth] = [Seen[Depth] EXCEPT !.data = NoData]]
  BY <1>1 DEF SeenIsGiven, Calls!Forgotten
<1> HIDE DEF new
<1>5. Calls!Forgotten = [Seen EXCEPT ![Depth] = new]
  BY <1>3, <1>4
<1> HIDE DEF Calls!Forgotten
<1>6. /\ Calls!Forgotten \in Seq(Views) /\ Len(Calls!Forgotten) = Depth
      /\ \A i \in 1..Depth - 1 : Calls!Forgotten[i] = Seen[i]
      /\ Calls!Forgotten[Depth] = new
  BY <1>1, <1>3, <1>5 DEF SeenIsGiven
<1>7. QED
  BY <1>1, <1>6 DEF SeenIsGiven, new

(* The message that call() derives is the one the machine derives.         *)
LEMMA CallSim ==
    ASSUME IInv, IInv', frames # <<>>, Depth < MaxFrames,
           Top.msg.depth < DepthLimit, NEW kind \in Kinds, NEW addr \in Addr,
           SentMsg(Top.msg, kind, addr) \in Messages,
           Called(SentMsg(Top.msg, kind, addr), kind, addr)
    PROVE  Calls!Call
<1> DEFINE sent == SentMsg(Top.msg, kind, addr)
<1> DEFINE new == [msg |-> sent, origin |-> [kind |-> kind, addr |-> addr],
                   data |-> NoData]
<1>1. /\ SeenIsGiven /\ SeenIsGiven' /\ Types
      /\ Depth \in Nat /\ Depth \in 1..Depth /\ Top = frames[Depth]
  BY SeenFacts, SeenFactsNext, DepthFacts DEF IInv
<1>top. Calls!Top.msg = Top.msg
  <2>1. Seen[Depth] = View(frames[Depth]) /\ Len(Seen) = Depth
    BY <1>1 DEF SeenIsGiven
  <2>2. Seen[Depth].msg = frames[Depth].msg
    BY <2>1 DEF View
  <2>3. Calls!Top = Seen[Depth]
    BY <2>1 DEF Calls!Top
  <2>4. QED
    BY <1>1, <2>2, <2>3
<1>2. /\ Depth' = Depth + 1
      /\ \A i \in 1..Depth : SameButRet(frames'[i], frames[i])
      /\ \A i \in 1..Depth - 1 : frames'[i].ret = frames[i].ret
      /\ frames'[Depth].ret = NoData
      /\ frames'[Depth + 1] = HostFrame(sent, kind, addr)
  BY <1>1, CallFacts
<1>3. View(frames'[Depth + 1]) = new
  <2>1. kind \in Kinds \cup {"top"} /\ sent \in Messages
    OBVIOUS
  <2> DEFINE host == HostFrame(sent, kind, addr)
  <2> HIDE DEF sent
  <2>2. host.msg = sent /\ host.ret = NoData
        /\ host.origin = [kind |-> kind, addr |-> addr]
    BY <2>1, HostFrameFacts
  <2>3. frames'[Depth + 1] = host
    BY <1>2
  <2> HIDE DEF host
  <2>4. QED
    BY <2>2, <2>3 DEF View
<1>4. new \in Views
  BY ConstantFacts DEF Views, Origins
<1>5. new = Calls!Frame(Calls!Derived(Calls!Top.msg, kind, addr), kind, addr)
  BY <1>1, <1>top, DeeperFacts DEF Calls!Frame, Calls!Derived, SentMsg
<1> HIDE DEF new, sent
<1>6. /\ Calls!Forgotten \in Seq(Views) /\ Len(Calls!Forgotten) = Depth
      /\ \A i \in 1..Depth : Calls!Forgotten[i] = View(frames'[i])
  <2>1. \A i \in 1..Depth - 1 :
          i \in 1..Depth /\ View(frames'[i]) = View(frames[i])
    BY <1>1, <1>2 DEF SameButRet, View
  <2>2. View(frames'[Depth]) = [msg |-> frames[Depth].msg,
                                origin |-> frames[Depth].origin,
                                data |-> NoData]
    BY <1>1, <1>2 DEF SameButRet, View
  <2>3. \A i \in 1..Depth : i = Depth \/ i \in 1..Depth - 1
    BY <1>1
  <2>4. QED
    BY <2>1, <2>2, <2>3, ForgottenFacts
<1>7. Seen' = Append(Calls!Forgotten, new)
  <2> DEFINE next == Append(Calls!Forgotten, new)
  <2> HIDE DEF Calls!Forgotten
  <2>1. /\ next \in Seq(Views) /\ Len(next) = Depth + 1
        /\ \A i \in 1..Depth : next[i] = Calls!Forgotten[i]
        /\ next[Depth + 1] = new
    BY <1>1, <1>4, <1>6
  <2> HIDE DEF next
  <2>2. /\ Seen' \in Seq(Views) /\ Len(Seen') = Depth + 1
        /\ \A i \in 1..Depth + 1 : Seen'[i] = View(frames'[i])
    BY <1>1, <1>2 DEF SeenIsGiven
  <2>3. \A i \in 1..Depth + 1 : Seen'[i] = next[i]
    <3>1. \A i \in 1..Depth + 1 : i = Depth + 1 \/ i \in 1..Depth
      BY <1>1
    <3>2. QED
      BY <1>3, <1>6, <2>1, <2>2, <3>1
  <2>4. Seen' = next
    BY <2>1, <2>2, <2>3, SeqEqual
  <2>5. QED
    BY <2>4 DEF next
<1>8. Seen # <<>>
  BY <1>1 DEF SeenIsGiven
<1>9. Calls!Top.msg.depth < DepthLimit
  BY <1>top
<1>10. kind \in Calls!Kinds
  BY DEF Kinds, Calls!Kinds
<1>11. QED
  BY <1>5, <1>7, <1>8, <1>9, <1>10 DEF Calls!Call

LEMMA ForgetSim ==
    ASSUME IInv, IInv', frames # <<>>, frames' = RetForgotten
    PROVE  Calls!CallFails
<1>1. /\ SeenIsGiven /\ SeenIsGiven' /\ Types
      /\ Depth \in Nat /\ Depth \in 1..Depth
  BY SeenFacts, SeenFactsNext, DepthFacts DEF IInv
<1>2. /\ Depth' = Depth
      /\ \A i \in 1..Depth : SameButRet(frames'[i], frames[i])
      /\ \A i \in 1..Depth - 1 : frames'[i].ret = frames[i].ret
      /\ frames'[Depth].ret = NoData
  BY <1>1, ForgetFacts
<1>3. /\ Calls!Forgotten \in Seq(Views) /\ Len(Calls!Forgotten) = Depth
      /\ \A i \in 1..Depth : Calls!Forgotten[i] = View(frames'[i])
  <2>1. \A i \in 1..Depth - 1 :
          i \in 1..Depth /\ View(frames'[i]) = View(frames[i])
    BY <1>1, <1>2 DEF SameButRet, View
  <2>2. View(frames'[Depth]) = [msg |-> frames[Depth].msg,
                                origin |-> frames[Depth].origin,
                                data |-> NoData]
    BY <1>1, <1>2 DEF SameButRet, View
  <2>3. \A i \in 1..Depth : i = Depth \/ i \in 1..Depth - 1
    BY <1>1
  <2>4. QED
    BY <2>1, <2>2, <2>3, ForgottenFacts
<1>4. /\ Seen' \in Seq(Views) /\ Len(Seen') = Depth
      /\ \A i \in 1..Depth : Seen'[i] = View(frames'[i])
  BY <1>1, <1>2 DEF SeenIsGiven
<1>5. Seen' = Calls!Forgotten
  <2> HIDE DEF Calls!Forgotten
  <2>1. QED
    BY <1>3, <1>4, SeqEqual
<1>6. Seen # <<>>
  BY <1>1 DEF SeenIsGiven
<1>7. QED
  BY <1>5, <1>6 DEF Calls!CallFails

LEMMA ReturnSim ==
    ASSUME IInv, IInv', frames # <<>>, NEW data \in Results, Return(data)
    PROVE  Calls!Return
<1>1. /\ SeenIsGiven /\ SeenIsGiven' /\ Types
      /\ Depth \in Nat /\ Depth \in 1..Depth /\ Depth > 0
  BY SeenFacts, SeenFactsNext, DepthFacts DEF IInv
<1>2. /\ Depth' = Depth - 1
      /\ \A i \in 1..Depth - 1 : SameButRet(frames'[i], frames[i])
      /\ \A i \in 1..Depth - 2 : frames'[i].ret = frames[i].ret
      /\ Depth > 1 => frames'[Depth - 1].ret = data
  BY <1>1, ReturnFacts
<1>3. Seen # <<>> /\ Len(Seen) = Depth /\ Seen \in Seq(Views)
  BY <1>1 DEF SeenIsGiven
<1> DEFINE rest == SubSeq(Seen, 1, Depth - 1)
<1>4. /\ rest \in Seq(Views) /\ Len(rest) = Depth - 1
      /\ \A i \in 1..Depth - 1 : rest[i] = Seen[i]
  BY <1>1, <1>3
<1> HIDE DEF rest
<1>5. \A i \in 1..Depth - 1 :
        /\ rest[i] = View(frames[i]) /\ View(frames[i]) \in Views
        /\ Seen'[i] = View(frames'[i])
  BY <1>1, <1>2, <1>4 DEF SeenIsGiven
<1>6. Seen' \in Seq(Views) /\ Len(Seen') = Depth - 1
  BY <1>1, <1>2 DEF SeenIsGiven
<1>7. CASE Depth = 1
  <2>1. rest = <<>> /\ Seen' = <<>>
    BY <1>4, <1>6, <1>7
  <2>2. QED
    BY <1>3, <2>1 DEF Calls!Return, rest
<1>8. CASE Depth > 1
  <2> DEFINE new == [rest[Depth - 1] EXCEPT !.data = data]
  <2> DEFINE next == [rest EXCEPT ![Depth - 1] = new]
  <2>1. Depth - 1 \in 1..Depth - 1
    BY <1>1, <1>8
  <2>2. rest[Depth - 1] = View(frames[Depth - 1])
        /\ View(frames[Depth - 1]) \in Views
    BY <1>5, <2>1
  <2>3. new \in Views /\ new = View(frames'[Depth - 1])
    BY <1>2, <1>8, <2>1, <2>2 DEF View, Views, SameButRet
  <2> HIDE DEF new
  <2>4. /\ next \in Seq(Views) /\ Len(next) = Depth - 1
        /\ next[Depth - 1] = new
        /\ \A i \in 1..Depth - 2 : next[i] = rest[i]
    BY <1>1, <1>4, <2>1, <2>3
  <2> HIDE DEF next
  <2>5. \A i \in 1..Depth - 1 : Seen'[i] = next[i]
    <3>1. \A i \in 1..Depth - 1 : i = Depth - 1 \/ i \in 1..Depth - 2
      BY <1>1
    <3>2. \A i \in 1..Depth - 2 :
            i \in 1..Depth - 1 /\ View(frames'[i]) = View(frames[i])
      BY <1>1, <1>2 DEF View, SameButRet
    <3>3. QED
      BY <1>5, <2>3, <2>4, <3>1, <3>2
  <2>6. Seen' = next
    BY <1>6, <2>4, <2>5, SeqEqual
  <2>7. rest # <<>> /\ Len(rest) = Depth - 1
    BY <1>1, <1>4, <1>8
  <2>8. Seen' = [rest EXCEPT ![Len(rest)].data = data]
    BY <2>6, <2>7 DEF next, new
  <2>9. data \in Calls!Results
    BY DEF Results, Calls!Results
  <2>10. QED
    BY <1>3, <2>7, <2>8, <2>9 DEF Calls!Return, rest
<1>9. QED
  BY <1>1, <1>7, <1>8

LEMMA BeginSim ==
    ASSUME IInv, IInv', NEW msg \in TopMessages, Begin(msg)
    PROVE  Calls!Begin
<1>1. SeenIsGiven /\ SeenIsGiven' /\ frames = <<>> /\ Depth = 0
  BY SeenFacts, SeenFactsNext, DepthFacts DEF IInv, Begin
<1>2. /\ msg \in Messages /\ msg.depth = 0 /\ msg.kind = "call"
      /\ msg.dest \in Addr /\ msg.sender \in Addr /\ msg.static \in BOOLEAN
      /\ "top" \in Kinds \cup {"top"}
  BY DEF TopMessages, Messages
<1>3. msg = [kind |-> "call", depth |-> 0, dest |-> msg.dest,
             sender |-> msg.sender, static |-> msg.static]
  BY <1>2 DEF Messages
<1> DEFINE new == HostFrame(msg, "top", msg.dest)
<1>4. new.msg = msg /\ new.ret = NoData
      /\ new.origin = [kind |-> "top", addr |-> msg.dest]
  BY <1>2, HostFrameFacts
<1>5. frames' = <<new>>
  BY DEF Begin
<1> HIDE DEF new
<1>6. Depth' = 1 /\ frames'[1] = new
  BY <1>5 DEF Depth
<1>7. Seen' \in Seq(Views) /\ Len(Seen') = 1 /\ Seen'[1] = View(new)
  BY <1>1, <1>6 DEF SeenIsGiven
<1>8. Seen' = <<View(new)>>
  BY <1>7
<1>9. View(new) = Calls!Frame(msg, "top", msg.dest)
  BY <1>4 DEF View, Calls!Frame
<1>10. Seen = <<>>
  BY <1>1 DEF SeenIsGiven
<1>11. Seen' = <<Calls!Frame([kind |-> "call", depth |-> 0, dest |-> msg.dest,
                              sender |-> msg.sender, static |-> msg.static],
                             "top", msg.dest)>>
  BY <1>3, <1>8, <1>9
<1>12. QED
  BY <1>2, <1>10, <1>11 DEF Calls!Begin

LEMMA StepSim ==
    ASSUME PInv, IInv', Next
    PROVE  Calls!Next \/ Seen' = Seen
<1>1. IInv /\ Types
  BY DEF PInv, IInv
<1>2. ASSUME NEW msg \in TopMessages, Begin(msg) PROVE Calls!Next
  BY <1>1, <1>2, BeginSim DEF Calls!Next
<1>3. ASSUME NEW code \in Code,
             \/ ExecuteCached(code) \/ ExecuteRejected(code)
             \/ ExecuteCompiled(code) \/ ExecuteCompileFails(code)
      PROVE  Seen' = Seen
  <2> DEFINE id == CodeId(code, Top.msg)
  <2>1. Running("host")
    BY <1>3 DEF ExecuteCached, ExecuteRejected, ExecuteCompiled, ExecuteCompileFails
  <2>2. Top.msg \in Messages
    BY <1>1, <2>1, DepthFacts DEF Running, Frames
  <2>3. /\ Hit(id) \in Entries /\ Hit(id).func \in Funcs /\ NoFunc \in Funcs
        /\ Compiled(code, Top.msg) \in Funcs
        /\ [Hit(id) EXCEPT !.func = Compiled(code, Top.msg)] \in Entries
    BY <1>1, <2>2, CodeIdFacts, NowFacts, ConstantFacts DEF Entries
  <2>4. PICK func \in Funcs, mode \in {"jit", "interpreted"}, entry \in Entries :
          Execute(code, func, mode, entry)
    BY <1>3, <2>3 DEF ExecuteCached, ExecuteRejected, ExecuteCompiled,
       ExecuteCompileFails
  <2>5. /\ Depth' = Depth
        /\ \A i \in 1..Depth : /\ frames'[i].msg = frames[i].msg
                               /\ frames'[i].origin = frames[i].origin
                               /\ frames'[i].ret = frames[i].ret
    BY <1>1, <2>1, <2>4, ExecuteFacts
  <2>6. QED
    BY <1>1, <2>5, SeenStutters DEF View
<1>4. ASSUME NEW kind \in Kinds, NEW addr \in Addr, Enter(kind, addr)
      PROVE  Calls!Next
  <2>1. /\ frames # <<>> /\ Depth < MaxFrames /\ Top.msg.depth < DepthLimit
        /\ CurrentMessages = {Top.msg}
    BY <1>4, RunningFacts DEF Enter, Running
  <2>2. Called(SentMsg(Top.msg, kind, addr), kind, addr)
    BY <1>4, <2>1 DEF Enter, Called
  <2>3. SentMsg(Top.msg, kind, addr) \in Messages
    BY <1>1, <2>1, SentFacts
  <2>4. QED
    BY <1>1, <2>1, <2>2, <2>3, CallSim DEF Calls!Next
<1>5. ASSUME NEW kind \in Kinds, NEW addr \in Addr, InterpretedCall(kind, addr)
      PROVE  Calls!Next
  <2>1. /\ frames # <<>> /\ Depth < MaxFrames /\ Top.msg.depth < DepthLimit
        /\ Called(SentMsg(Top.msg, kind, addr), kind, addr)
    BY <1>5 DEF InterpretedCall, Running, Called
  <2>2. SentMsg(Top.msg, kind, addr) \in Messages
    BY <1>1, <2>1, SentFacts
  <2>3. QED
    BY <1>1, <2>1, <2>2, CallSim DEF Calls!Next
<1>6. ASSUME NEW addr \in Addr, JitTransfer(addr) PROVE Calls!Next
  BY <1>4, <1>6 DEF JitTransfer, Kinds
<1>7. CASE JitCallFails
  BY <1>1, <1>7, ForgetSim DEF JitCallFails, Running, Calls!Next
<1>8. ASSUME NEW data \in Results, Leave(data) \/ InterpretedReturn(data)
      PROVE  Calls!Next
  BY <1>1, <1>8, ReturnSim DEF Leave, InterpretedReturn, Running, Calls!Next
<1>9. CASE JitSelfdestruct
  BY <1>8, <1>9, ConstantFacts DEF JitSelfdestruct
<1>10. CASE HostInterprets
  <2>1. /\ Depth' = Depth
        /\ \A i \in 1..Depth : /\ frames'[i].msg = frames[i].msg
                               /\ frames'[i].origin = frames[i].origin
                               /\ frames'[i].ret = frames[i].ret
    BY <1>1, <1>10, HostInterpretsFacts
  <2>2. QED
    BY <1>1, <2>1, SeenStutters DEF View
<1>11. CASE frames' = frames
  BY <1>1, <1>11, SeenStutters DEF Depth
<1>12. QED
  BY <1>2, <1>3, <1>4, <1>5, <1>6, <1>7, <1>8, <1>9, <1>10, <1>11
     DEF Next, JitCall, JitReturn, JitWrite, InterpretedWrite, SetOption

(* The calls of the instance are those of the machine, for any nesting of  *)
(* compiled and interpreted frames, where execute() never refuses a frame: *)
(* a callee's message derives from its caller's, and RETURNDATA shows the  *)
(* result of the frame's own last call (JIT.cpp:174-223, 403-510).         *)
THEOREM CallsRefinement ==
    ASSUME NeverRefuses PROVE Spec => ImplementsEvmCalls
<1>1. Init => Calls!Init
  BY DEF Init, Calls!Init, Seen, Depth
<1>2. PInv /\ IInv' /\ [Next]_vars => [Calls!Next]_Seen
  <2> SUFFICES ASSUME PInv, IInv', [Next]_vars
               PROVE  Calls!Next \/ Seen' = Seen
    OBVIOUS
  <2>1. CASE Next
    BY <2>1, StepSim
  <2>2. CASE UNCHANGED vars
    BY <2>2 DEF vars, Seen, Depth
  <2>3. QED
    BY <2>1, <2>2
<1>3. PInv => IInv
  BY DEF PInv
<1>4. QED
  BY <1>1, <1>2, <1>3, LinkedHolds, InvariantHolds, PTL
     DEF Spec, Calls!Spec, ImplementsEvmCalls
=============================================================================
