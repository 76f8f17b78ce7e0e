------------------------- MODULE ObjectCacheProofs -------------------------
(***************************************************************************)
(* Theorems about the object cache, for every set of processes, threads    *)
(* and code identifiers, every option and with crashes or without.         *)
(***************************************************************************)
EXTENDS ObjectCache, TLAPS

(* A thread works only while its process is up, and knows for which code.  *)
Working ==
    \A t \in Thread :
        pc[t] # "idle" => phase[Home[t]] = "up" /\ job[t].id \in Id

(* x_cacheMutex is held while a file is written, so that a process writes  *)
(* one at a time.                                                          *)
OneWriter ==
    \A t \in Thread :
        Writer(t) => /\ writing[Home[t]]
                     /\ \A u \in Thread :
                          Writer(u) /\ Home[u] = Home[t] => u = t

(* Objects wait only in processes that look for them.                      *)
KeptByReaders ==
    \A p \in Process :
        lastObject[p] # NoObject => phase[p] # "down" /\ Reads(p)

(* A file is named after the code its object is of.                        *)
FilesOwn == \A id \in Id : files[id] # NoObject => files[id].of = id

(* Unless two threads of a process waited at once: the one that waits has  *)
(* a fake module if and only if its own object waits for it, and only real *)
(* modules get any further.                                                *)
OneWaits ==
    \A t, u \in Thread :
        pc[t] = "lookedUp" /\ pc[u] = "lookedUp" /\ Home[t] = Home[u] => t = u

WaitsForOwn ==
    \A t \in Thread :
        pc[t] = "lookedUp" =>
            \/ job[t].sort = "real" /\ lastObject[Home[t]] = NoObject
            \/ lastObject[Home[t]] \in {Object(job[t].id, "real"),
                                        Object(job[t].id, "torn")}

RealGoesOn ==
    \A t \in Thread : pc[t] = "generated" \/ Writer(t) => job[t].sort = "real"

Unmixed ==
    ~mixed => OneWaits /\ WaitsForOwn /\ RealGoesOn

(* Unless two threads of a process missed the same code: threads compile   *)
(* different codes, a code that is missed is not linked, and one that is   *)
(* linked is mapped or about to be.  An object waits for a thread, whose   *)
(* code is not linked, so that LLVM will take it.                          *)
OneMisses ==
    \A t, u \in Thread :
        /\ pc[t] # "idle" /\ pc[u] # "idle"
        /\ Home[t] = Home[u] /\ job[t].id = job[u].id
        => t = u

MissedIsNotLinked ==
    \A t \in Thread :
        pc[t] = "missed" => loaded[Home[t]][job[t].id] = NoObject

LinkedIsMapped ==
    \A p \in Process, id \in Id :
        loaded[p][id] # NoObject =>
            \/ id \in codeMap[p]
            \/ \E t \in Thread : /\ Home[t] = p /\ job[t].id = id
                                 /\ pc[t] \notin {"idle", "missed"}

SomeoneWaits ==
    \A p \in Process :
        lastObject[p] # NoObject =>
            \E t \in Thread :
                /\ Home[t] = p /\ pc[t] = "lookedUp"
                /\ job[t].id = lastObject[p].of
                /\ loaded[p][job[t].id] = NoObject

Unraced ==
    ~raced => OneMisses /\ MissedIsNotLinked /\ LinkedIsMapped /\ SomeoneWaits

IInv ==
    /\ TypeOK
    /\ Working
    /\ OneWriter
    /\ KeptByReaders
    /\ FilesOwn
    /\ TornIsWritten
    /\ Unmixed
    /\ Unraced
    /\ RunsRealCode

-----------------------------------------------------------------------------
(* Lemmas about objects and modes.                                         *)

LEMMA ObjectFields ==
    ASSUME NEW id \in Id, NEW sort \in {"real", "fake", "torn"}
    PROVE  /\ Object(id, sort) \in Objects
           /\ Object(id, sort) # NoObject
           /\ Object(id, sort).of = id
           /\ Object(id, sort).sort = sort
  BY NoObjectAssumption DEF Object, Objects

(* An object is one of three with its name.                                *)
LEMMA ObjectCases ==
    ASSUME NEW object \in Objects
    PROVE  /\ object.of \in Id
           /\ object \in {Object(object.of, "real"), Object(object.of, "fake"),
                          Object(object.of, "torn")}
  <1>1. PICK id \in Id, sort \in {"real", "fake", "torn"} :
             object = [of |-> id, sort |-> sort]
    BY DEF Objects
  <1>2. object.of = id
    BY <1>1
  <1> QED
    BY <1>1, <1>2 DEF Object

(* Objects with different names or of different sorts differ.              *)
LEMMA ObjectsDiffer ==
    ASSUME NEW i \in Id, NEW j \in Id,
           NEW r \in {"real", "fake", "torn"}, NEW s \in {"real", "fake", "torn"},
           Object(i, r) = Object(j, s)
    PROVE  i = j /\ r = s
  BY ObjectFields

(* What a thread generates has the name of its code and is not torn.       *)
LEMMA GeneratedObject ==
    ASSUME TypeOK, NEW t \in Thread, job[t].id \in Id
    PROVE  /\ Generated(t) \in Objects
           /\ Generated(t) # NoObject
           /\ Generated(t).of = job[t].id
           /\ \A id \in Id : Generated(t) # Object(id, "torn")
           /\ job[t].sort = "real" => Generated(t) = Object(job[t].id, "real")
  <1>1. job[t].sort \in {"real", "fake"}
    BY DEF TypeOK
  <1> QED
    BY <1>1, ObjectFields, ObjectsDiffer DEF Generated

(* Who gets the mutex meets no writer in its process.                      *)
LEMMA LockedMeansNoWriter ==
    ASSUME OneWriter, NEW t \in Thread, Locked(t)
    PROVE  \A u \in Thread : Home[u] = Home[t] => ~Writer(u)
  BY DEF OneWriter, Locked

LEMMA HomeIsProcess ==
    \A t \in Thread : Home[t] \in Process
  BY CacheAssumption

(* What the invariant says of threads that wait for LLVM, and of threads   *)
(* that compile, concerns nobody when nothing of it changes.               *)
LEMMA UnmixedStays ==
    ASSUME Unmixed, UNCHANGED <<lastObject, mixed>>,
           \A u \in Thread :
             /\ pc'[u] = "lookedUp" => pc[u] = "lookedUp"
             /\ (pc'[u] = "generated" \/ Writer(u)') => pc[u] = "generated" \/ Writer(u)
             /\ pc'[u] # "idle" => job'[u] = job[u]
    PROVE  Unmixed'
  <1> SUFFICES ASSUME ~mixed PROVE OneWaits' /\ WaitsForOwn' /\ RealGoesOn'
    BY DEF Unmixed
  <1>1. OneWaits /\ WaitsForOwn /\ RealGoesOn
    BY DEF Unmixed
  <1>2. OneWaits' /\ WaitsForOwn'
    BY <1>1 DEF OneWaits, WaitsForOwn
  <1>3. RealGoesOn'
    BY <1>1 DEF RealGoesOn, Writer
  <1> QED
    BY <1>2, <1>3

LEMMA UnracedStays ==
    ASSUME Unraced, UNCHANGED <<lastObject, engine, job, raced>>,
           \A u \in Thread :
             /\ pc'[u] = "idle" <=> pc[u] = "idle"
             /\ pc'[u] = "missed" <=> pc[u] = "missed"
             /\ pc[u] = "lookedUp" =>
                  \/ pc'[u] = "lookedUp"
                  \/ lastObject[Home[u]] = NoObject
                  \/ loaded[Home[u]][job[u].id] # NoObject
    PROVE  Unraced'
  <1> SUFFICES ASSUME ~raced
               PROVE  OneMisses' /\ MissedIsNotLinked' /\ LinkedIsMapped' /\ SomeoneWaits'
    BY DEF Unraced
  <1>1. OneMisses /\ MissedIsNotLinked /\ LinkedIsMapped /\ SomeoneWaits
    BY DEF Unraced
  <1>2. OneMisses' /\ MissedIsNotLinked'
    BY <1>1 DEF OneMisses, MissedIsNotLinked, engine
  <1>3. LinkedIsMapped'
    BY <1>1 DEF LinkedIsMapped, engine
  <1>4. SomeoneWaits'
    BY <1>1 DEF SomeoneWaits, engine
  <1> QED
    BY <1>2, <1>3, <1>4

-----------------------------------------------------------------------------
(* Initially the invariant holds.                                          *)

LEMMA InitIInv == Init => IInv
  <1> SUFFICES ASSUME Init PROVE IInv
    OBVIOUS
  <1>1. TypeOK
    BY DEF Init, TypeOK, Nothing, NoJob
  <1>2. FilesOwn /\ RunsRealCode
    BY DEF Init, FilesOwn, RunsRealCode, Nothing
  <1>3. TornIsWritten
    BY ObjectFields DEF Init, TornIsWritten, Nothing
  <1>4. Working /\ OneWriter /\ KeptByReaders /\ Unmixed
    BY HomeIsProcess DEF Init, Working, OneWriter, KeptByReaders, Unmixed,
       OneWaits, WaitsForOwn, RealGoesOn, Writer
  <1>5. Unraced
    BY HomeIsProcess DEF Init, Unraced, OneMisses, MissedIsNotLinked,
       LinkedIsMapped, SomeoneWaits, Nothing
  <1> QED
    BY <1>1, <1>2, <1>3, <1>4, <1>5 DEF IInv

-----------------------------------------------------------------------------
(* A process starts, or gets another engine: no thread of it works.        *)

LEMMA StartStep ==
    ASSUME IInv, NEW p \in Process, NEW opt \in Options, Start(p, opt)
    PROVE  IInv'
  <1> USE DEF IInv, Start, history, engine
  <1>1. TypeOK'
    BY CacheAssumption DEF TypeOK, Phase
  <1>2. Working'
    BY HomeIsProcess DEF Working, TypeOK
  <1>3. KeptByReaders'
    BY DEF KeptByReaders, Reads, Mode, TypeOK
  <1>4. OneWriter' /\ FilesOwn' /\ TornIsWritten' /\ RunsRealCode'
    BY DEF OneWriter, FilesOwn, TornIsWritten, RunsRealCode, Writer
  <1>5. Unmixed' /\ Unraced'
    BY UnmixedStays, UnracedStays DEF Writer
  <1> QED
    BY <1>1, <1>2, <1>3, <1>4, <1>5

LEMMA RestartStep ==
    ASSUME IInv, NEW p \in Process, Restart(p)
    PROVE  IInv'
  <1> USE DEF IInv, Restart, history
  <1>1. TypeOK'
    BY DEF TypeOK, Phase, Nothing
  <1>2. Working'
    BY HomeIsProcess DEF Working, TypeOK
  <1>3. KeptByReaders'
    BY DEF KeptByReaders, Reads, Mode, TypeOK, Phase
  <1>4. OneWriter' /\ FilesOwn' /\ TornIsWritten'
    BY DEF OneWriter, FilesOwn, TornIsWritten, Writer
  <1>5. Unmixed'
    BY UnmixedStays DEF Writer
  <1>6. /\ \A id \in Id : loaded'[p][id] = NoObject
        /\ \A q \in Process \ {p} : loaded'[q] = loaded[q] /\ codeMap'[q] = codeMap[q]
    BY DEF TypeOK, Nothing
  <1>7. RunsRealCode'
    BY <1>6 DEF RunsRealCode
  <1>8. Unraced'
    <2> SUFFICES ASSUME ~raced PROVE Unraced'
      BY DEF Unraced
    <2>1. OneMisses /\ MissedIsNotLinked /\ LinkedIsMapped /\ SomeoneWaits
      BY DEF Unraced
    <2>2. OneMisses' /\ MissedIsNotLinked'
      BY <1>6, <2>1, HomeIsProcess DEF OneMisses, MissedIsNotLinked
    <2>3. LinkedIsMapped'
      BY <1>6, <2>1 DEF LinkedIsMapped
    <2>4. SomeoneWaits'
      BY <1>6, <2>1 DEF SomeoneWaits
    <2> QED
      BY <2>2, <2>3, <2>4 DEF Unraced
  <1> QED
    BY <1>1, <1>2, <1>3, <1>4, <1>5, <1>7, <1>8

LEMMA ClearBlocksStep ==
    ASSUME IInv, NEW p \in Process, ClearBlocks(p)
    PROVE  IInv'
  <1> USE DEF IInv, ClearBlocks, history, engine
  <1>1. TypeOK'
    BY DEF TypeOK
  <1>2. Working'
    BY HomeIsProcess DEF Working, TypeOK
  <1>3. KeptByReaders'
    BY DEF KeptByReaders, Reads, Mode, TypeOK
  <1>4. OneWriter' /\ FilesOwn' /\ TornIsWritten' /\ RunsRealCode'
    BY DEF OneWriter, FilesOwn, TornIsWritten, RunsRealCode, Writer
  <1>5. Unmixed' /\ Unraced'
    BY UnmixedStays, UnracedStays DEF Writer
  <1> QED
    BY <1>1, <1>2, <1>3, <1>4, <1>5

(* No file is left, and who was writing is a writer still.                 *)
LEMMA ClearStep ==
    ASSUME IInv, NEW p \in Process, Clear(p)
    PROVE  IInv'
  <1> USE DEF IInv, Clear, engine
  <1>1. TypeOK'
    BY DEF TypeOK, Nothing
  <1>2. Working'
    BY HomeIsProcess DEF Working, TypeOK
  <1>3. \A t \in Thread :
          /\ Writer(t)' <=> Writer(t)
          /\ \A at \in {"idle", "missed", "lookedUp", "generated"} :
               pc'[t] = at <=> pc[t] = at
    BY DEF Writer, TypeOK
  <1>4. OneWriter'
    BY <1>3 DEF OneWriter
  <1>5. KeptByReaders'
    BY DEF KeptByReaders, Reads, Mode, TypeOK
  <1>6. Unmixed' /\ Unraced'
    BY <1>3, UnmixedStays, UnracedStays
  <1>7. FilesOwn' /\ TornIsWritten'
    BY ObjectFields DEF FilesOwn, TornIsWritten, Nothing
  <1>8. RunsRealCode'
    BY DEF RunsRealCode, Nothing
  <1> QED
    BY <1>1, <1>2, <1>4, <1>5, <1>6, <1>7, <1>8
-----------------------------------------------------------------------------
(* A process dies.  The files that it was the last to truncate stay torn,  *)
(* and are cut.                                                            *)

LEMMA DiedStep ==
    ASSUME IInv, NEW p \in Process, Died(p), cut' \subseteq Id,
           cut \subseteq cut',
           \A t \in Thread :
             Home[t] = p /\ pc[t] = "storing" => job[t].id \in cut'
    PROVE  IInv'
  <1> USE DEF IInv, Died
  <1>1. TypeOK'
    BY DEF TypeOK, Nothing, NoJob
  <1>2. \A t \in Thread :
          /\ Home[t] = p => pc'[t] = "idle"
          /\ Home[t] # p => pc'[t] = pc[t] /\ job'[t] = job[t]
    BY DEF TypeOK
  <1>3. \A q \in Process \ {p} :
          /\ phase'[q] = phase[q]
          /\ option'[q] = option[q]
          /\ lastObject'[q] = lastObject[q]
          /\ writing'[q] = writing[q]
          /\ loaded'[q] = loaded[q]
          /\ codeMap'[q] = codeMap[q]
    BY DEF TypeOK
  <1>4. /\ lastObject'[p] = NoObject
        /\ \A id \in Id : loaded'[p][id] = NoObject
    BY DEF TypeOK, Nothing
  <1>5. Working' /\ OneWriter'
    BY <1>2, <1>3, HomeIsProcess DEF Working, OneWriter, Writer
  <1>6. KeptByReaders'
    BY <1>3, <1>4 DEF KeptByReaders, Reads, Mode
  <1>7. FilesOwn'
    BY DEF FilesOwn
  <1>8. TornIsWritten'
    <2> SUFFICES ASSUME NEW id \in Id, files[id] = Object(id, "torn"), id \notin cut'
                 PROVE  \E t \in Thread : pc'[t] = "storing" /\ job'[t].id = id
      BY DEF TornIsWritten
    <2>1. PICK t \in Thread : pc[t] = "storing" /\ job[t].id = id
      BY DEF TornIsWritten
    <2>2. Home[t] # p
      BY <2>1
    <2> QED
      BY <1>2, <2>1, <2>2
  <1>9. Unmixed'
    BY <1>2, <1>3, HomeIsProcess
    DEF Unmixed, OneWaits, WaitsForOwn, RealGoesOn, Writer
  <1>10. RunsRealCode'
    BY <1>3, <1>4 DEF RunsRealCode
  <1>11. Unraced'
    <2> SUFFICES ASSUME ~raced PROVE Unraced'
      BY DEF Unraced
    <2>1. OneMisses /\ MissedIsNotLinked /\ LinkedIsMapped /\ SomeoneWaits
      BY DEF Unraced
    <2>2. OneMisses'
      BY <1>2, <2>1 DEF OneMisses
    <2>3. MissedIsNotLinked'
      BY <1>2, <1>3, <2>1, HomeIsProcess DEF MissedIsNotLinked
    <2>4. LinkedIsMapped'
      BY <1>2, <1>3, <1>4, <2>1 DEF LinkedIsMapped
    <2>5. SomeoneWaits'
      BY <1>2, <1>3, <1>4, <2>1 DEF SomeoneWaits
    <2> QED
      BY <2>2, <2>3, <2>4, <2>5 DEF Unraced
  <1> QED
    BY <1>1, <1>5, <1>6, <1>7, <1>8, <1>9, <1>10, <1>11

(* It is killed, or an error of a write ends it.                           *)
LEMMA CutStep ==
    ASSUME IInv, NEW p \in Process, Died(p), cut' = cut \cup Unwritten(p)
    PROVE  IInv'
  <1>1. Unwritten(p) \subseteq Id
    BY DEF IInv, Working, Unwritten
  <1>2. cut' \subseteq Id
    BY <1>1 DEF IInv, TypeOK
  <1>3. \A t \in Thread :
          Home[t] = p /\ pc[t] = "storing" => job[t].id \in cut'
    BY DEF Unwritten
  <1> QED
    BY <1>2, <1>3, DiedStep

(* A thread of it ends it while none of them writes.                       *)
LEMMA UncutStep ==
    ASSUME IInv, NEW t \in Thread, Locked(t), Died(Home[t]), UNCHANGED cut
    PROVE  IInv'
  <1>1. \A u \in Thread : Home[u] = Home[t] => pc[u] # "storing"
    BY LockedMeansNoWriter DEF IInv, Writer
  <1>2. cut' \subseteq Id
    BY DEF IInv, TypeOK
  <1> QED
    BY <1>1, <1>2, HomeIsProcess, DiedStep

-----------------------------------------------------------------------------
(* A thread misses a code, and looks it up.  What it finds is the object   *)
(* of that code.                                                           *)

LEMMA MissesStep ==
    ASSUME IInv, NEW t \in Thread, NEW id \in Id, Misses(t, id)
    PROVE  IInv'
  <1> USE DEF IInv
  <1>1. /\ pc[t] = "idle"
        /\ phase[Home[t]] = "up"
        /\ id \notin codeMap[Home[t]]
        /\ pc' = [pc EXCEPT ![t] = "missed"]
        /\ job' = [job EXCEPT ![t] = [id |-> id, sort |-> "real"]]
        /\ raced' = (raced \/ \E u \in Others(t) : pc[u] # "idle" /\ job[u].id = id)
        /\ UNCHANGED <<files, phase, option, lastObject, writing, loaded,
                       codeMap, cut, mixed>>
    BY DEF Misses, engine
  <1>2. /\ pc'[t] = "missed"
        /\ job'[t].id = id
        /\ \A u \in Thread \ {t} : pc'[u] = pc[u] /\ job'[u] = job[u]
    BY <1>1 DEF TypeOK
  <1>3. ~Writer(t)' /\ \A u \in Thread : Writer(u)' <=> Writer(u)
    BY <1>1, <1>2 DEF Writer
  <1>4. TypeOK'
    BY <1>1 DEF TypeOK
  <1>5. Working'
    BY <1>1, <1>2 DEF Working
  <1>6. OneWriter'
    BY <1>1, <1>3 DEF OneWriter
  <1>7. KeptByReaders' /\ FilesOwn' /\ RunsRealCode'
    BY <1>1 DEF KeptByReaders, FilesOwn, RunsRealCode, Reads, Mode
  <1>8. TornIsWritten'
    BY <1>1, <1>2 DEF TornIsWritten
  <1>9. Unmixed'
    BY <1>1, <1>2, <1>3, HomeIsProcess
    DEF Unmixed, OneWaits, WaitsForOwn, RealGoesOn
  <1>10. Unraced'
    <2> SUFFICES ASSUME ~raced' PROVE Unraced'
      BY DEF Unraced
    <2>1. OneMisses /\ MissedIsNotLinked /\ LinkedIsMapped /\ SomeoneWaits
      BY <1>1 DEF Unraced
    <2>2. \A u \in Thread \ {t} :
            Home[u] = Home[t] /\ pc[u] # "idle" => job[u].id # id
      BY <1>1 DEF Others, TypeOK
    <2>3. OneMisses'
      BY <1>1, <1>2, <2>1, <2>2 DEF OneMisses
    <2>4. loaded[Home[t]][id] = NoObject
      BY <1>1, <2>1, <2>2, HomeIsProcess DEF LinkedIsMapped
    <2>5. MissedIsNotLinked'
      BY <1>1, <1>2, <2>1, <2>4 DEF MissedIsNotLinked
    <2>6. LinkedIsMapped'
      BY <1>1, <1>2, <2>1 DEF LinkedIsMapped
    <2>7. SomeoneWaits'
      BY <1>1, <1>2, <2>1 DEF SomeoneWaits
    <2> QED
      BY <2>3, <2>5, <2>6, <2>7 DEF Unraced
  <1> QED
    BY <1>4, <1>5, <1>6, <1>7, <1>8, <1>9, <1>10

LEMMA LookUpStep ==
    ASSUME IInv, NEW t \in Thread, LookUp(t)
    PROVE  IInv'
  <1> USE DEF IInv
  <1> DEFINE p == Home[t]
             i == job[t].id
             sort == IF Found(t) = NoObject THEN "real" ELSE "fake"
  <1>1. /\ pc[t] = "missed"
        /\ Locked(t)
        /\ lastObject' = IF Reads(p)
                         THEN [lastObject EXCEPT ![p] = Found(t)] ELSE lastObject
        /\ job' = [job EXCEPT ![t].sort = sort]
        /\ pc' = [pc EXCEPT ![t] = "lookedUp"]
        /\ mixed' = (mixed \/ Waiting(t) # {})
        /\ UNCHANGED <<files, phase, option, writing, loaded, codeMap, cut, raced>>
    BY DEF LookUp, engine
  <1>2. /\ p \in Process
        /\ i \in Id
        /\ sort \in {"real", "fake"}
    BY <1>1, HomeIsProcess DEF Working
  <1>3. /\ Found(t) \in Objects \cup {NoObject}
        /\ Found(t) # NoObject => /\ Reads(p)
                                  /\ Found(t) = files[i]
                                  /\ Found(t).of = i
    BY <1>2 DEF TypeOK, Found, FilesOwn
  <1>4. sort = "real" => Found(t) = NoObject
    OBVIOUS
  <1> HIDE DEF p, i, sort
  <1>5. TypeOK'
    BY <1>1, <1>2, <1>3 DEF TypeOK
  <1>6. /\ pc'[t] = "lookedUp"
        /\ job'[t].id = i
        /\ job'[t].sort = sort
        /\ \A u \in Thread \ {t} : pc'[u] = pc[u] /\ job'[u] = job[u]
        /\ \A q \in Process \ {p} : lastObject'[q] = lastObject[q]
    BY <1>1, <1>2 DEF TypeOK, i
  <1>7. lastObject'[p] = IF Reads(p) THEN Found(t) ELSE lastObject[p]
    BY <1>1, <1>2 DEF TypeOK
  <1>8. Working'
    BY <1>1, <1>2, <1>6 DEF Working, Locked
  <1>9. ~Writer(t)' /\ \A u \in Thread : Writer(u)' <=> Writer(u)
    BY <1>1, <1>6 DEF Writer
  <1>10. OneWriter'
    BY <1>1, <1>9 DEF OneWriter
  <1>11. KeptByReaders'
    <2>1. /\ phase[p] # "down"
          /\ \A q \in Process : Reads(q)' <=> Reads(q)
      BY <1>1 DEF Locked, Reads, Mode, p
    <2> QED
      BY <1>1, <1>2, <1>3, <1>6, <1>7, <2>1 DEF KeptByReaders
  <1>12. FilesOwn' /\ RunsRealCode'
    BY <1>1 DEF FilesOwn, RunsRealCode, TypeOK
  <1>13. TornIsWritten'
    BY <1>1, <1>6 DEF TornIsWritten
  <1>14. Unmixed'
    <2> SUFFICES ASSUME ~mixed' PROVE OneWaits' /\ WaitsForOwn' /\ RealGoesOn'
      BY DEF Unmixed
    <2>1. ~mixed /\ \A u \in Thread \ {t} : Home[u] = p => pc[u] # "lookedUp"
      BY <1>1 DEF Waiting, Others, p, TypeOK
    <2>2. OneWaits'
      BY <1>6, <2>1 DEF Unmixed, OneWaits, p
    <2>3. lastObject'[p] = Found(t)
      BY <1>2, <1>3, <1>7 DEF KeptByReaders
    <2>4. Found(t) # NoObject =>
            Found(t) \in {Object(i, "real"), Object(i, "torn")}
      BY <1>2, <1>3, <2>1 DEF RunsRealCode
    <2>5. WaitsForOwn'
      BY <1>2, <1>4, <1>6, <2>1, <2>3, <2>4, HomeIsProcess
      DEF Unmixed, WaitsForOwn, p, sort
    <2>6. RealGoesOn'
      BY <1>6, <1>9, <2>1 DEF Unmixed, RealGoesOn
    <2> QED
      BY <2>2, <2>5, <2>6
  <1>15. Unraced'
    <2> SUFFICES ASSUME ~raced PROVE Unraced'
      BY <1>1 DEF Unraced
    <2>1. OneMisses /\ MissedIsNotLinked /\ LinkedIsMapped /\ SomeoneWaits
      BY DEF Unraced
    <2>2. loaded[p][i] = NoObject
      BY <1>1, <2>1 DEF MissedIsNotLinked, p, i
    <2>3. OneMisses'
      BY <1>1, <1>6, <2>1 DEF OneMisses, i
    <2>4. MissedIsNotLinked'
      BY <1>1, <1>6, <2>1 DEF MissedIsNotLinked
    <2>5. LinkedIsMapped'
      BY <1>1, <1>6, <2>1 DEF LinkedIsMapped
    <2>6. SomeoneWaits'
      <3> SUFFICES ASSUME NEW q \in Process, lastObject'[q] # NoObject
                   PROVE  \E u \in Thread :
                            /\ Home[u] = q /\ pc'[u] = "lookedUp"
                            /\ job'[u].id = lastObject'[q].of
                            /\ loaded[q][job'[u].id] = NoObject
        BY <1>1 DEF SomeoneWaits
      <3>1. CASE q = p /\ Reads(p)
        BY <1>3, <1>6, <1>7, <2>2, <3>1 DEF p
      <3>2. CASE ~(q = p /\ Reads(p))
        <4>1. lastObject'[q] = lastObject[q]
          BY <1>6, <1>7, <3>2
        <4>2. PICK u \in Thread : /\ Home[u] = q /\ pc[u] = "lookedUp"
                                  /\ job[u].id = lastObject[q].of
                                  /\ loaded[q][job[u].id] = NoObject
          BY <2>1, <4>1 DEF SomeoneWaits
        <4> QED
          BY <1>1, <1>6, <4>1, <4>2
      <3> QED
        BY <3>1, <3>2
    <2> QED
      BY <2>3, <2>4, <2>5, <2>6 DEF Unraced
  <1> QED
    BY <1>5, <1>8, <1>10, <1>11, <1>12, <1>13, <1>14, <1>15
-----------------------------------------------------------------------------
(* LLVM looks for the code of a module, and maps it.                       *)

(* The code is linked: whatever object lies there is another thread's.     *)
LEMMA FindsLinkedStep ==
    ASSUME IInv, NEW t \in Thread, FindsLinked(t)
    PROVE  IInv'
  <1> USE DEF IInv
  <1>1. /\ pc[t] = "lookedUp"
        /\ loaded[Home[t]][job[t].id] # NoObject
        /\ pc' = [pc EXCEPT ![t] = "linked"]
        /\ UNCHANGED <<files, phase, option, lastObject, writing, loaded,
                       codeMap, job, cut, mixed, raced>>
    BY DEF FindsLinked, engine, history
  <1>2. pc'[t] = "linked" /\ \A u \in Thread \ {t} : pc'[u] = pc[u]
    BY <1>1 DEF TypeOK
  <1>3. \A u \in Thread : Writer(u)' <=> Writer(u)
    BY <1>1, <1>2 DEF Writer
  <1>4. TypeOK'
    BY <1>1 DEF TypeOK
  <1>5. Working'
    BY <1>1, <1>2 DEF Working
  <1>6. OneWriter'
    BY <1>1, <1>3 DEF OneWriter
  <1>7. KeptByReaders' /\ FilesOwn' /\ RunsRealCode'
    BY <1>1 DEF KeptByReaders, FilesOwn, RunsRealCode, Reads, Mode
  <1>8. TornIsWritten'
    BY <1>1, <1>2 DEF TornIsWritten
  <1>9. Unmixed'
    BY <1>1, <1>2, <1>3, UnmixedStays
  <1>10. Unraced'
    BY <1>1, <1>2, UnracedStays DEF engine
  <1> QED
    BY <1>4, <1>5, <1>6, <1>7, <1>8, <1>9, <1>10

(* None waits: the module that goes on is a real one.                      *)
LEMMA GenerateStep ==
    ASSUME IInv, NEW t \in Thread, Generate(t)
    PROVE  IInv'
  <1> USE DEF IInv
  <1>1. /\ pc[t] = "lookedUp"
        /\ lastObject[Home[t]] = NoObject
        /\ pc' = [pc EXCEPT ![t] = "generated"]
        /\ UNCHANGED <<files, phase, option, lastObject, writing, loaded,
                       codeMap, job, cut, mixed, raced>>
    BY DEF Generate, Takes, engine, history
  <1>2. pc'[t] = "generated" /\ \A u \in Thread \ {t} : pc'[u] = pc[u]
    BY <1>1 DEF TypeOK
  <1>3. ~Writer(t) /\ \A u \in Thread : Writer(u)' <=> Writer(u)
    BY <1>1, <1>2 DEF Writer
  <1>4. TypeOK'
    BY <1>1 DEF TypeOK
  <1>5. Working'
    BY <1>1, <1>2 DEF Working
  <1>6. OneWriter'
    BY <1>1, <1>3 DEF OneWriter
  <1>7. KeptByReaders' /\ FilesOwn' /\ RunsRealCode'
    BY <1>1 DEF KeptByReaders, FilesOwn, RunsRealCode, Reads, Mode
  <1>8. TornIsWritten'
    BY <1>1, <1>2 DEF TornIsWritten
  <1>9. Unmixed'
    <2> SUFFICES ASSUME ~mixed PROVE OneWaits' /\ WaitsForOwn' /\ RealGoesOn'
      BY <1>1 DEF Unmixed
    <2>1. OneWaits /\ WaitsForOwn /\ RealGoesOn
      BY DEF Unmixed
    <2>2. job[t].id \in Id
      BY <1>1 DEF Working
    <2>3. job[t].sort = "real"
      BY <1>1, <2>1, <2>2, ObjectFields DEF WaitsForOwn
    <2>4. OneWaits' /\ WaitsForOwn'
      BY <1>1, <1>2, <2>1 DEF OneWaits, WaitsForOwn
    <2>5. RealGoesOn'
      BY <1>1, <1>2, <1>3, <2>1, <2>3 DEF RealGoesOn
    <2> QED
      BY <2>4, <2>5
  <1>10. Unraced'
    BY <1>1, <1>2, UnracedStays DEF engine
  <1> QED
    BY <1>4, <1>5, <1>6, <1>7, <1>8, <1>9, <1>10

(* One waits: LLVM takes it, and nobody waits for another.                 *)
LEMMA LinkStep ==
    ASSUME IInv, NEW t \in Thread, Link(t)
    PROVE  IInv'
  <1> USE DEF IInv
  <1> DEFINE p == Home[t]
             object == lastObject[p]
             i == object.of
  <1>1. /\ object # NoObject
        /\ pc[t] = "lookedUp"
        /\ loaded[p][job[t].id] = NoObject
        /\ object.sort # "torn"
        /\ loaded' = [loaded EXCEPT ![p][i] = object]
        /\ lastObject' = [lastObject EXCEPT ![p] = NoObject]
        /\ Returns(t, object)
        /\ UNCHANGED <<files, phase, option, writing, codeMap, cut, mixed, raced>>
    BY DEF Link, Takes, history
  <1>2. p \in Process /\ object \in Objects /\ i \in Id /\ job[t].id \in Id
    BY <1>1, HomeIsProcess, ObjectCases DEF TypeOK, Working
  <1> HIDE DEF p, object, i
  <1>3. /\ pc' \in [Thread -> {"idle", "missed", "lookedUp", "generated",
                               "storing", "clobbered", "orphan", "linked"}]
        /\ job' \in [Thread -> [id : Id \cup {NoObject}, sort : {"real", "fake"}]]
        /\ \/ i = job[t].id /\ pc'[t] = "linked" /\ job'[t] = job[t]
           \/ i # job[t].id /\ pc'[t] = "idle"
        /\ \A u \in Thread \ {t} : pc'[u] = pc[u] /\ job'[u] = job[u]
    <2>1. CASE i = job[t].id
      <3>1. pc' = [pc EXCEPT ![t] = "linked"] /\ job' = job
        BY <1>1, <2>1 DEF Returns, i
      <3> QED
        BY <2>1, <3>1 DEF TypeOK
    <2>2. CASE i # job[t].id
      <3>1. pc' = [pc EXCEPT ![t] = "idle"] /\ job' = [job EXCEPT ![t] = NoJob]
        BY <1>1, <2>2 DEF Returns, i
      <3> QED
        BY <2>2, <3>1 DEF TypeOK, NoJob
    <2> QED
      BY <2>1, <2>2
  <1>4. /\ lastObject'[p] = NoObject
        /\ \A q \in Process \ {p} : lastObject'[q] = lastObject[q]
        /\ loaded'[p][i] = object
        /\ \A q \in Process, id \in Id :
             q # p \/ id # i => loaded'[q][id] = loaded[q][id]
    BY <1>1, <1>2 DEF TypeOK
  <1>5. ~Writer(t)' /\ \A u \in Thread : Writer(u)' <=> Writer(u)
    BY <1>1, <1>3 DEF Writer
  <1>6. TypeOK'
    BY <1>1, <1>2, <1>3 DEF TypeOK
  <1>7. Working'
    BY <1>1, <1>3 DEF Working
  <1>8. OneWriter'
    BY <1>1, <1>5 DEF OneWriter
  <1>9. KeptByReaders' /\ FilesOwn'
    BY <1>1, <1>4 DEF KeptByReaders, FilesOwn, Reads, Mode
  <1>10. TornIsWritten'
    BY <1>1, <1>3 DEF TornIsWritten
  <1>11. ASSUME ~mixed
         PROVE  /\ OneWaits' /\ WaitsForOwn' /\ RealGoesOn'
                /\ object = Object(i, "real")
    <2>1. OneWaits /\ WaitsForOwn /\ RealGoesOn
      BY <1>11 DEF Unmixed
    <2>2. object = Object(i, "real")
      BY <1>1, <1>2, <2>1, ObjectFields DEF WaitsForOwn, object, i, p
    <2>3. OneWaits'
      BY <1>3, <2>1 DEF OneWaits
    <2>4. WaitsForOwn'
      <3>1. \A u \in Thread : pc'[u] = "lookedUp" =>
              /\ u # t /\ pc[u] = "lookedUp" /\ job'[u] = job[u] /\ Home[u] # p
        BY <1>1, <1>3, <2>1 DEF OneWaits, p
      <3> QED
        BY <1>4, <2>1, <3>1, HomeIsProcess DEF WaitsForOwn
    <2>5. RealGoesOn'
      BY <1>1, <1>3, <1>5, <2>1 DEF RealGoesOn
    <2> QED
      BY <2>2, <2>3, <2>4, <2>5
  <1>12. Unmixed'
    BY <1>1, <1>11 DEF Unmixed
  <1>13. RunsRealCode'
    BY <1>1, <1>4, <1>11 DEF RunsRealCode
  <1>14. Unraced'
    <2> SUFFICES ASSUME ~raced PROVE Unraced'
      BY <1>1 DEF Unraced
    <2>1. OneMisses /\ MissedIsNotLinked /\ LinkedIsMapped /\ SomeoneWaits
      BY DEF Unraced
    <2>2. PICK w \in Thread : Home[w] = p /\ pc[w] = "lookedUp" /\ job[w].id = i
      BY <1>1, <1>2, <2>1 DEF SomeoneWaits, object, i
    <2>3. /\ pc'[w] \notin {"idle", "missed"}
          /\ job'[w].id = i
      BY <1>3, <2>2
    <2>4. OneMisses'
      BY <1>1, <1>3, <2>1 DEF OneMisses
    <2>5. \A u \in Thread : Home[u] = p /\ pc[u] = "missed" => job[u].id # i
      BY <2>1, <2>2 DEF OneMisses
    <2>6. MissedIsNotLinked'
      <3> SUFFICES ASSUME NEW u \in Thread, pc'[u] = "missed"
                   PROVE  loaded'[Home[u]][job'[u].id] = NoObject
        BY DEF MissedIsNotLinked
      <3>1. u # t /\ pc[u] = "missed" /\ job'[u] = job[u]
        BY <1>3
      <3>2. loaded[Home[u]][job[u].id] = NoObject /\ job[u].id \in Id
        BY <2>1, <3>1 DEF MissedIsNotLinked, Working
      <3> QED
        BY <1>4, <2>5, <3>1, <3>2, HomeIsProcess
    <2>7. LinkedIsMapped'
      <3> SUFFICES ASSUME NEW q \in Process, NEW id \in Id,
                          loaded'[q][id] # NoObject, id \notin codeMap[q]
                   PROVE  \E u \in Thread : /\ Home[u] = q /\ job'[u].id = id
                                            /\ pc'[u] \notin {"idle", "missed"}
        BY <1>1 DEF LinkedIsMapped
      <3>1. CASE q = p /\ id = i
        BY <2>2, <2>3, <3>1
      <3>2. CASE ~(q = p /\ id = i)
        <4>1. loaded[q][id] # NoObject
          BY <1>4, <3>2
        <4>2. PICK u \in Thread : /\ Home[u] = q /\ job[u].id = id
                                  /\ pc[u] \notin {"idle", "missed"}
          BY <2>1, <4>1 DEF LinkedIsMapped
        <4>3. u # t
          BY <1>1, <4>1, <4>2 DEF p
        <4> QED
          BY <1>3, <4>2, <4>3
      <3> QED
        BY <3>1, <3>2
    <2>8. SomeoneWaits'
      <3> SUFFICES ASSUME NEW q \in Process, lastObject'[q] # NoObject
                   PROVE  \E u \in Thread :
                            /\ Home[u] = q /\ pc'[u] = "lookedUp"
                            /\ job'[u].id = lastObject'[q].of
                            /\ loaded'[q][job'[u].id] = NoObject
        BY DEF SomeoneWaits
      <3>1. q # p /\ lastObject'[q] = lastObject[q]
        BY <1>4
      <3>2. PICK u \in Thread : /\ Home[u] = q /\ pc[u] = "lookedUp"
                                /\ job[u].id = lastObject[q].of
                                /\ loaded[q][job[u].id] = NoObject
        BY <2>1, <3>1 DEF SomeoneWaits
      <3>3. u # t /\ job[u].id \in Id
        BY <3>1, <3>2 DEF p, Working
      <3> QED
        BY <1>3, <1>4, <3>1, <3>2, <3>3
    <2> QED
      BY <2>4, <2>6, <2>7, <2>8 DEF Unraced
  <1> QED
    BY <1>6, <1>7, <1>8, <1>9, <1>10, <1>12, <1>13, <1>14

(* The code that the thread has linked, or found, is mapped.               *)
LEMMA MapsStep ==
    ASSUME IInv, NEW t \in Thread, Maps(t)
    PROVE  IInv'
  <1> USE DEF IInv
  <1>1. /\ pc[t] = "linked"
        /\ codeMap' = [codeMap EXCEPT ![Home[t]] = @ \cup {job[t].id}]
        /\ pc' = [pc EXCEPT ![t] = "idle"]
        /\ job' = [job EXCEPT ![t] = NoJob]
        /\ UNCHANGED <<files, phase, option, lastObject, writing, loaded,
                       cut, mixed, raced>>
    BY DEF Maps, history
  <1>2. /\ pc'[t] = "idle"
        /\ \A u \in Thread \ {t} : pc'[u] = pc[u] /\ job'[u] = job[u]
    BY <1>1 DEF TypeOK
  <1>3. /\ job[t].id \in Id /\ Home[t] \in Process
        /\ job[t].id \in codeMap'[Home[t]]
        /\ \A q \in Process : codeMap[q] \subseteq codeMap'[q]
    BY <1>1, HomeIsProcess DEF Working, TypeOK
  <1>4. ~Writer(t)' /\ \A u \in Thread : Writer(u)' <=> Writer(u)
    BY <1>1, <1>2 DEF Writer
  <1>5. TypeOK'
    BY <1>1, <1>3 DEF TypeOK, NoJob
  <1>6. Working'
    BY <1>1, <1>2 DEF Working
  <1>7. OneWriter'
    BY <1>1, <1>4 DEF OneWriter
  <1>8. KeptByReaders' /\ FilesOwn' /\ RunsRealCode'
    BY <1>1 DEF KeptByReaders, FilesOwn, RunsRealCode, Reads, Mode
  <1>9. TornIsWritten'
    BY <1>1, <1>2 DEF TornIsWritten
  <1>10. Unmixed'
    BY <1>1, <1>2, <1>4, UnmixedStays
  <1>11. Unraced'
    <2> SUFFICES ASSUME ~raced PROVE Unraced'
      BY <1>1 DEF Unraced
    <2>1. OneMisses /\ MissedIsNotLinked /\ LinkedIsMapped /\ SomeoneWaits
      BY DEF Unraced
    <2>2. OneMisses'
      BY <1>1, <1>2, <2>1 DEF OneMisses
    <2>3. MissedIsNotLinked'
      BY <1>1, <1>2, <2>1 DEF MissedIsNotLinked
    <2>4. LinkedIsMapped'
      BY <1>1, <1>2, <1>3, <2>1 DEF LinkedIsMapped
    <2>5. SomeoneWaits'
      BY <1>1, <1>2, <2>1 DEF SomeoneWaits
    <2> QED
      BY <2>2, <2>3, <2>4, <2>5 DEF Unraced
  <1> QED
    BY <1>5, <1>6, <1>7, <1>8, <1>9, <1>10, <1>11
-----------------------------------------------------------------------------
(* LLVM reports an object, which is stored or not.                         *)

(* The engine has what the thread generated.                               *)
LEMMA EndedFacts ==
    ASSUME IInv, NEW t \in Thread, pc[t] # "idle", Ended(t)
    PROVE  /\ pc' \in [Thread -> {"idle", "missed", "lookedUp", "generated",
                                  "storing", "clobbered", "orphan", "linked"}]
           /\ pc'[t] = "linked"
           /\ \A u \in Thread \ {t} : pc'[u] = pc[u]
           /\ loaded' \in [Process -> [Id -> Objects \cup {NoObject}]]
           /\ \A q \in Process, id \in Id :
                \/ loaded'[q][id] = loaded[q][id]
                \/ /\ q = Home[t] /\ id = job[t].id
                   /\ loaded'[q][id] = Generated(t)
  <1>1. job[t].id \in Id /\ Home[t] \in Process
    BY HomeIsProcess DEF IInv, Working
  <1>2. Generated(t) \in Objects
    BY <1>1, GeneratedObject DEF IInv
  <1> QED
    BY <1>1, <1>2 DEF IInv, TypeOK, Ended

(* What the end of a thread's work keeps, whatever it leaves in its file.  *)
LEMMA EndedStep ==
    ASSUME IInv, NEW t \in Thread, pc[t] = "generated" \/ Writer(t), Ended(t),
           UNCHANGED <<phase, option, lastObject, codeMap, job, history>>
    PROVE  /\ Working'
           /\ KeptByReaders'
           /\ Unmixed'
           /\ Unraced'
           /\ ~mixed => \A p \in Process, id \in Id :
                          loaded'[p][id] \in {NoObject, Object(id, "real")}
  <1> USE DEF IInv, history
  <1>1. pc[t] \notin {"idle", "missed", "lookedUp"}
    BY DEF Writer
  <1>2. /\ pc'[t] = "linked"
        /\ \A u \in Thread \ {t} : pc'[u] = pc[u]
        /\ \A q \in Process, id \in Id :
             \/ loaded'[q][id] = loaded[q][id]
             \/ /\ q = Home[t] /\ id = job[t].id
                /\ loaded'[q][id] = Generated(t)
    BY <1>1, EndedFacts
  <1>3. \A u \in Thread : Writer(u)' => Writer(u)
    BY <1>2 DEF Writer
  <1>4. Working'
    BY <1>1, <1>2 DEF Working
  <1>5. KeptByReaders'
    BY DEF KeptByReaders, Reads, Mode
  <1>6. Unmixed'
    BY <1>2, <1>3, UnmixedStays
  <1>7. Unraced'
    <2> SUFFICES ASSUME ~raced PROVE Unraced'
      BY DEF Unraced
    <2>1. OneMisses /\ MissedIsNotLinked /\ LinkedIsMapped /\ SomeoneWaits
      BY DEF Unraced
    <2>2. \A u \in Thread :
            u # t /\ pc[u] # "idle" /\ Home[u] = Home[t] => job[u].id # job[t].id
      BY <1>1, <2>1 DEF OneMisses
    <2>3. OneMisses'
      BY <1>1, <1>2, <2>1 DEF OneMisses
    <2>4. \A u \in Thread :
            u # t /\ pc[u] # "idle" =>
              loaded'[Home[u]][job[u].id] = loaded[Home[u]][job[u].id]
      BY <1>2, <2>2, HomeIsProcess DEF Working
    <2>5. MissedIsNotLinked'
      BY <1>2, <2>1, <2>4 DEF MissedIsNotLinked
    <2>6. LinkedIsMapped'
      BY <1>1, <1>2, <2>1 DEF LinkedIsMapped
    <2>7. SomeoneWaits'
      BY <1>1, <1>2, <2>1, <2>4 DEF SomeoneWaits
    <2> QED
      BY <2>3, <2>5, <2>6, <2>7 DEF Unraced
  <1>8. ASSUME ~mixed
        PROVE  \A p \in Process, id \in Id :
                 loaded'[p][id] \in {NoObject, Object(id, "real")}
    <2>1. job[t].sort = "real" /\ job[t].id \in Id
      BY <1>1, <1>8 DEF Unmixed, RealGoesOn, Working
    <2>2. Generated(t) = Object(job[t].id, "real")
      BY <2>1, GeneratedObject
    <2> QED
      BY <1>2, <1>8, <2>2 DEF RunsRealCode
  <1> QED
    BY <1>4, <1>5, <1>6, <1>7, <1>8

LEMMA NotStoredStep ==
    ASSUME IInv, NEW t \in Thread, NotStored(t)
    PROVE  IInv'
  <1> USE DEF IInv
  <1>1. /\ pc[t] = "generated"
        /\ Ended(t)
        /\ UNCHANGED <<files, phase, option, lastObject, writing, codeMap, job,
                       history>>
    BY DEF NotStored
  <1>2. /\ Working' /\ KeptByReaders' /\ Unmixed' /\ Unraced'
        /\ ~mixed => \A p \in Process, id \in Id :
                       loaded'[p][id] \in {NoObject, Object(id, "real")}
    BY <1>1, EndedStep
  <1>3. /\ pc'[t] = "linked"
        /\ \A u \in Thread \ {t} : pc'[u] = pc[u]
    BY <1>1, EndedFacts
  <1>4. TypeOK'
    BY <1>1, EndedFacts DEF TypeOK, history
  <1>5. OneWriter'
    BY <1>1, <1>3 DEF OneWriter, Writer
  <1>6. FilesOwn' /\ RunsRealCode'
    BY <1>1, <1>2 DEF FilesOwn, RunsRealCode, history
  <1>7. TornIsWritten'
    BY <1>1, <1>3 DEF TornIsWritten, history
  <1> QED
    BY <1>2, <1>4, <1>5, <1>6, <1>7

(* The file is torn, and of all that write it this thread is the last that *)
(* truncated it.                                                           *)
LEMMA StoreBeginsStep ==
    ASSUME IInv, NEW t \in Thread, StoreBegins(t)
    PROVE  IInv'
  <1> USE DEF IInv
  <1> DEFINE i == job[t].id
             p == Home[t]
  <1>1. /\ pc[t] = "generated"
        /\ Locked(t)
        /\ files' = [files EXCEPT ![i] = Object(i, "torn")]
        /\ cut' = cut \ {i}
        /\ writing' = [writing EXCEPT ![p] = TRUE]
        /\ pc' = [u \in Thread |-> IF u = t THEN "storing"
                                   ELSE IF Clobbers(t, u) THEN "clobbered"
                                   ELSE pc[u]]
        /\ UNCHANGED <<phase, option, lastObject, loaded, codeMap, job,
                       mixed, raced>>
    BY DEF StoreBegins, engine
  <1>2. i \in Id /\ p \in Process
    BY <1>1, HomeIsProcess DEF Working
  <1>3. /\ Object(i, "torn") \in Objects
        /\ Object(i, "torn").of = i
    BY <1>2, ObjectFields
  <1>4. /\ files'[i] = Object(i, "torn")
        /\ \A id \in Id \ {i} : files'[id] = files[id]
        /\ writing'[p]
        /\ \A q \in Process \ {p} : writing'[q] = writing[q]
    BY <1>1, <1>2 DEF TypeOK
  <1>5. /\ pc'[t] = "storing"
        /\ \A u \in Thread \ {t} :
             \/ pc'[u] = pc[u]
             \/ pc[u] = "storing" /\ pc'[u] = "clobbered" /\ job[u].id = i
    BY <1>1 DEF Clobbers
  <1>6. /\ Writer(t)'
        /\ \A u \in Thread \ {t} : Writer(u)' <=> Writer(u)
    BY <1>5 DEF Writer
  <1>7. TypeOK'
    BY <1>1, <1>2, <1>3 DEF TypeOK, Clobbers
  <1>8. Working'
    BY <1>1, <1>2, <1>5 DEF Working
  <1>9. OneWriter'
    <2>1. \A u \in Thread : Home[u] = p => ~Writer(u)
      BY <1>1, LockedMeansNoWriter
    <2> QED
      BY <1>4, <1>6, <2>1, HomeIsProcess DEF OneWriter
  <1>10. KeptByReaders'
    BY <1>1 DEF KeptByReaders, Reads, Mode
  <1>11. FilesOwn'
    BY <1>3, <1>4 DEF FilesOwn
  <1>12. TornIsWritten'
    BY <1>1, <1>2, <1>4, <1>5 DEF TornIsWritten
  <1>13. Unmixed'
    BY <1>1, <1>5, <1>6, UnmixedStays
  <1>14. Unraced'
    BY <1>1, <1>5, UnracedStays DEF engine
  <1>15. RunsRealCode'
    BY <1>1, <1>4 DEF RunsRealCode
  <1> QED
    BY <1>7, <1>8, <1>9, <1>10, <1>11, <1>12, <1>13, <1>14, <1>15

(* The last byte is written.  If it leaves the file torn, another thread   *)
(* has truncated it since.                                                 *)
LEMMA StoreEndsStep ==
    ASSUME IInv, NEW t \in Thread, StoreEnds(t)
    PROVE  IInv'
  <1> USE DEF IInv
  <1> DEFINE i == job[t].id
             p == Home[t]
  <1>1. PICK content \in LeftBy(t) : files' = [files EXCEPT ![i] = content]
    BY DEF StoreEnds
  <1>2. /\ Writer(t)
        /\ writing' = [writing EXCEPT ![p] = FALSE]
        /\ Ended(t)
        /\ UNCHANGED <<phase, option, lastObject, codeMap, job, history>>
    BY DEF StoreEnds
  <1>3. i \in Id /\ p \in Process
    BY <1>2, HomeIsProcess DEF Working, Writer
  <1>4. \/ content = Generated(t)
        \/ content = files[i] /\ pc[t] # "storing"
    BY <1>2 DEF LeftBy, Writer
  <1>5. /\ Generated(t) \in Objects
        /\ Generated(t).of = i
        /\ \A id \in Id : Generated(t) # Object(id, "torn")
        /\ job[t].sort = "real" => Generated(t) = Object(i, "real")
    BY <1>3, GeneratedObject
  <1> HIDE DEF i, p
  <1>6. /\ Working' /\ KeptByReaders' /\ Unmixed' /\ Unraced'
        /\ ~mixed => \A q \in Process, id \in Id :
                       loaded'[q][id] \in {NoObject, Object(id, "real")}
    BY <1>2, EndedStep
  <1>7. /\ pc'[t] = "linked"
        /\ \A u \in Thread \ {t} : pc'[u] = pc[u]
    BY <1>2, EndedFacts DEF Writer
  <1>8. content \in Objects \cup {NoObject}
    BY <1>3, <1>4, <1>5 DEF TypeOK
  <1>9. /\ files'[i] = content
        /\ \A id \in Id \ {i} : files'[id] = files[id]
        /\ \A q \in Process \ {p} : writing'[q] = writing[q]
    BY <1>1, <1>2, <1>3 DEF TypeOK
  <1>10. TypeOK'
    <2>1. pc' \in [Thread -> {"idle", "missed", "lookedUp", "generated",
                              "storing", "clobbered", "orphan", "linked"}]
          /\ loaded' \in [Process -> [Id -> Objects \cup {NoObject}]]
      BY <1>2, EndedFacts DEF Writer
    <2> QED
      BY <1>1, <1>2, <1>3, <1>8, <2>1 DEF TypeOK, history
  <1>11. OneWriter'
    <2>1. \A u \in Thread : Writer(u)' => Writer(u) /\ u # t
      BY <1>7 DEF Writer
    <2>2. \A u \in Thread \ {t} : Home[u] = p => ~Writer(u)
      BY <1>2 DEF OneWriter, p
    <2> QED
      BY <1>9, <2>1, <2>2, HomeIsProcess DEF OneWriter
  <1>12. FilesOwn'
    BY <1>3, <1>4, <1>5, <1>9 DEF FilesOwn
  <1>13. TornIsWritten'
    <2> SUFFICES ASSUME NEW id \in Id, files'[id] = Object(id, "torn"), id \notin cut
                 PROVE  \E u \in Thread : pc'[u] = "storing" /\ job[u].id = id
      BY <1>2 DEF TornIsWritten, history
    <2>1. files[id] = Object(id, "torn") /\ (id = i => pc[t] # "storing")
      BY <1>3, <1>4, <1>5, <1>9
    <2>2. PICK u \in Thread : pc[u] = "storing" /\ job[u].id = id
      BY <2>1 DEF TornIsWritten
    <2>3. u # t
      BY <2>1, <2>2 DEF i
    <2> QED
      BY <1>7, <2>2, <2>3
  <1>14. RunsRealCode'
    <2> SUFFICES ASSUME ~mixed
                 PROVE  \A id \in Id : files'[id] \in
                          {NoObject, Object(id, "real"), Object(id, "torn")}
      BY <1>2, <1>6 DEF RunsRealCode, history
    <2>1. job[t].sort = "real"
      BY <1>2 DEF Unmixed, RealGoesOn
    <2> QED
      BY <1>3, <1>4, <1>5, <1>9, <2>1 DEF RunsRealCode
  <1> QED
    BY <1>6, <1>10, <1>11, <1>12, <1>13, <1>14

-----------------------------------------------------------------------------
(* The invariant, and what follows from it.                                *)

LEMMA StutterStep ==
    ASSUME IInv, UNCHANGED vars
    PROVE  IInv'
  <1> USE DEF IInv, vars, history, engine
  <1>1. TypeOK'
    BY DEF TypeOK
  <1>2. Working' /\ OneWriter' /\ KeptByReaders' /\ FilesOwn'
    BY DEF Working, OneWriter, KeptByReaders, FilesOwn, Writer, Reads, Mode
  <1>3. TornIsWritten' /\ RunsRealCode'
    BY DEF TornIsWritten, RunsRealCode
  <1>4. Unmixed' /\ Unraced'
    BY UnmixedStays, UnracedStays DEF Writer
  <1> QED
    BY <1>1, <1>2, <1>3, <1>4

LEMMA NextIInv == IInv /\ [Next]_vars => IInv'
  <1> SUFFICES ASSUME IInv, [Next]_vars PROVE IInv'
    OBVIOUS
  <1>1. ASSUME NEW p \in Process, NEW opt \in Options, Start(p, opt)
        PROVE  IInv'
    BY <1>1, StartStep
  <1>2. CASE \E p \in Process : Restart(p)
    BY <1>2, RestartStep
  <1>3. CASE \E p \in Process : ClearBlocks(p)
    BY <1>3, ClearBlocksStep
  <1>4. CASE \E p \in Process : Clear(p)
    BY <1>4, ClearStep
  <1>5. CASE \E p \in Process : Crash(p)
    BY <1>5, CutStep DEF Crash
  <1>6. ASSUME NEW t \in Thread, NEW id \in Id, Misses(t, id)
        PROVE  IInv'
    BY <1>6, MissesStep
  <1>7. CASE \E t \in Thread : LookUp(t) \/ FindsLinked(t)
    BY <1>7, LookUpStep, FindsLinkedStep
  <1>8. CASE \E t \in Thread : Generate(t)
    BY <1>8, GenerateStep
  <1>9. CASE \E t \in Thread : Link(t)
    BY <1>9, LinkStep
  <1>10. CASE \E t \in Thread : LinkTorn(t)
    BY <1>10, UncutStep DEF LinkTorn, Takes
  <1>11. CASE \E t \in Thread : Maps(t)
    BY <1>11, MapsStep
  <1>12. CASE \E t \in Thread : NotStored(t)
    BY <1>12, NotStoredStep
  <1>13. CASE \E t \in Thread : StoreBegins(t)
    BY <1>13, StoreBeginsStep
  <1>14. CASE \E t \in Thread : StoreNotOpened(t)
    BY <1>14, UncutStep DEF StoreNotOpened
  <1>15. CASE \E t \in Thread : StoreEnds(t)
    BY <1>15, StoreEndsStep
  <1>16. CASE \E t \in Thread : StoreFails(t)
    BY <1>16, CutStep, HomeIsProcess DEF StoreFails
  <1>17. CASE UNCHANGED vars
    BY <1>17, StutterStep
  <1> QED
    BY <1>1, <1>2, <1>3, <1>4, <1>5, <1>6, <1>7, <1>8, <1>9, <1>10, <1>11,
       <1>12, <1>13, <1>14, <1>15, <1>16, <1>17 DEF Next

LEMMA Invariance == Spec => []IInv
  BY InitIInv, NextIInv, PTL DEF Spec

(* The variables of Cache.cpp, the directory, the code map and the threads *)
(* of execute() stay what they are declared as (Cache.cpp:30-34,           *)
(* JIT.cpp:330-359, 442-465).                                              *)
THEOREM TypeCorrect == Spec => []TypeOK
  <1>1. IInv => TypeOK
    BY DEF IInv
  <1> QED
    BY <1>1, Invariance, PTL

(* No fake module is compiled or stored, and no object reaches another's   *)
(* module, unless two threads of a process are between the lookup and the  *)
(* hand-over (Cache.cpp:118-172): what getObject() finds is handed to the  *)
(* module it was found for, or to none.                                    *)
THEOREM RealCodeRuns == Spec => []RunsRealCode
  <1>1. IInv => RunsRealCode
    BY DEF IInv
  <1> QED
    BY <1>1, Invariance, PTL

(* Writes in place leave a file torn only when the process that truncated  *)
(* it last is killed, or meets an error, before it has written everything  *)
(* (Cache.cpp:144-170), although several processes write the same one.     *)
THEOREM TornFilesAreWritten == Spec => []TornIsWritten
  <1>1. IInv => TornIsWritten
    BY DEF IInv
  <1> QED
    BY <1>1, Invariance, PTL

(* CHECK(!g_lastObject) (Cache.cpp:118) holds when no other thread of the  *)
(* process waits for an object and no two threads missed the same code     *)
(* before either mapped it (JIT.cpp:446).                                  *)
THEOREM ObjectsAreHandedOver == Spec => HandedOver
  <1>1. ASSUME IInv, NEW t \in Thread, LookUp(t), Waiting(t) = {}, ~raced
        PROVE  lastObject[Home[t]] = NoObject
    <2>1. pc[t] = "missed"
      BY <1>1 DEF LookUp
    <2>2. \A u \in Thread : Home[u] = Home[t] => pc[u] # "lookedUp"
      BY <1>1, <2>1 DEF Waiting, Others
    <2> QED
      BY <1>1, <2>2, HomeIsProcess DEF IInv, Unraced, SomeoneWaits
  <1>2. IInv /\ [Next]_vars =>
          [\A t \in Thread :
             LookUp(t) /\ Reads(Home[t]) /\ Waiting(t) = {} /\ ~raced =>
                 lastObject[Home[t]] = NoObject]_vars
    BY <1>1
  <1> QED
    BY <1>2, Invariance, PTL DEF Spec, HandedOver
=============================================================================
