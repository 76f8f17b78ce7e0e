-------------------------- MODULE LocalStackProofs --------------------------
(***************************************************************************)
(* Proofs about LocalStack, for every word set, stack limit and block.     *)
(***************************************************************************)
EXTENDS LocalStack, SequenceTheorems, TLAPS

(* What the input items and the least size owe each other at any moment    *)
(* between two get() calls.                                                *)
InputOK(in, min) ==
    /\ in \in Seq(Items \cup {None})
    /\ min \in Int
    /\ Len(in) > 0 => in[Len(in)] # None
    /\ \A k \in 1..Len(in) : in[k] # None => min <= -k
    /\ \A k \in 1..Len(in) : in[k].kind = "slot" => min <= -in[k].of

LocalOK(lo, min) ==
    /\ lo \in Seq(Items)
    /\ \A k \in 1..Len(lo) : lo[k].kind = "slot" => min <= -lo[k].of

IInv == TypeOK /\ Bookkeeping

-----------------------------------------------------------------------------
(* Fetching an item keeps what is there, and the fetched item is there.    *)
LEMMA FetchAtFacts ==
    ASSUME NEW in \in Seq(Items \cup {None}), NEW k \in Nat \ {0}
    PROVE  /\ FetchAt(k, in) \in Seq(Items \cup {None})
           /\ Len(FetchAt(k, in)) = Greater(Len(in), k)
           /\ FetchAt(k, in)[k] = IF Fetched(k, in) THEN in[k] ELSE Slot(k)
           /\ \A j \in 1..Len(FetchAt(k, in)) : j # k =>
                FetchAt(k, in)[j] = IF j <= Len(in) THEN in[j] ELSE None
<1>1. Slot(k) \in Items
  BY DEF Slot, Items, Slots
<1>2. Len(in) \in Nat /\ \A j \in 1..Len(in) : in[j] \in Items \cup {None}
  OBVIOUS
<1>3. CASE Fetched(k, in)
  BY <1>2, <1>3 DEF FetchAt, Fetched, Greater
<1>4. CASE ~Fetched(k, in)
  <2> DEFINE n == Greater(Len(in), k)
  <2> DEFINE item(j) ==
        IF j = k THEN Slot(k) ELSE IF j <= Len(in) THEN in[j] ELSE None
  <2>1. n \in Nat /\ k \in 1..n
    BY <1>2 DEF Greater
  <2>2. FetchAt(k, in) = [j \in 1..n |-> item(j)]
    BY <1>4 DEF FetchAt
  <2>3. \A j \in 1..n : item(j) \in Items \cup {None}
    BY <1>1, <1>2, <2>1
  <2> HIDE DEF n, item
  <2>4. [j \in 1..n |-> item(j)] \in Seq(Items \cup {None})
    BY <2>1, <2>3
  <2>5. Len([j \in 1..n |-> item(j)]) = n
    BY <2>1
  <2>6. QED
    BY <1>4, <2>1, <2>2, <2>4, <2>5 DEF item, n
<1>5. QED
  BY <1>3, <1>4

(* After get(i) the item i is there, and it only asks for stack items that *)
(* the least size counts.                                                  *)
LEMMA GetFacts ==
    ASSUME NEW in, NEW min, InputOK(in, min), LocalOK(local, min),
           globalPops \in Nat, NEW i \in Nat
    PROVE  /\ InputOK(InputAfterGet(i, in), MinAfterGet(i, in, min))
           /\ MinAfterGet(i, in, min) <= min
           /\ ItemAt(i, InputAfterGet(i, in)) \in Items
           /\ ItemAt(i, InputAfterGet(i, in)).kind = "slot" =>
                MinAfterGet(i, in, min) <= -ItemAt(i, InputAfterGet(i, in)).of
           /\ Len(in) <= Len(InputAfterGet(i, in))
           /\ ~InLocal(i) => InputIdx(i) \in 1..Len(InputAfterGet(i, in))
           /\ \A j \in 1..Len(in) : in[j] # None => InputAfterGet(i, in)[j] = in[j]
<1> USE DEF InputOK, LocalOK
<1>1. CASE InLocal(i)
  <2>1. Len(local) - i \in 1..Len(local)
    BY <1>1 DEF InLocal
  <2>2. local[Len(local) - i] \in Items
    BY <2>1
  <2>3. QED
    BY <1>1, <2>1, <2>2 DEF InputAfterGet, MinAfterGet, ItemAt
<1>2. CASE ~InLocal(i)
  <2> DEFINE k == InputIdx(i)
  <2> DEFINE out == FetchAt(k, in)
  <2>1. k \in Nat \ {0}
    BY <1>2 DEF InLocal, InputIdx
  <2>2. InputAfterGet(i, in) = out /\ ItemAt(i, out) = out[k]
    BY <1>2 DEF InputAfterGet, ItemAt
  <2>3. MinAfterGet(i, in, min) = IF Fetched(k, in) THEN min ELSE Lesser(min, -k)
    BY <1>2 DEF MinAfterGet
  <2> HIDE DEF k
  <2>4. /\ out \in Seq(Items \cup {None})
        /\ Len(out) = Greater(Len(in), k)
        /\ out[k] = IF Fetched(k, in) THEN in[k] ELSE Slot(k)
        /\ \A j \in 1..Len(out) : j # k =>
             out[j] = IF j <= Len(in) THEN in[j] ELSE None
    BY <2>1, FetchAtFacts
  <2>5. Len(in) \in Nat
    OBVIOUS
  <2> HIDE DEF out
  <2>6. CASE Fetched(k, in)
    <3>1. Len(out) = Len(in) /\ \A j \in 1..Len(in) : out[j] = in[j]
      BY <2>1, <2>4, <2>5, <2>6 DEF Fetched, Greater
    <3>2. out[k] \in Items
      BY <2>1, <2>4, <2>6, <3>1, <2>5 DEF Fetched
    <3>3. QED
      BY <1>2, <2>1, <2>2, <2>3, <2>4, <2>5, <2>6, <3>1, <3>2 DEF Fetched, k
  <2>7. CASE ~Fetched(k, in)
    <3> DEFINE m == Lesser(min, -k)
    <3>1. m \in Int /\ m <= min /\ m <= -k
      BY <2>1 DEF Lesser
    <3>2. out[k] = Slot(k) /\ Slot(k) \in Items /\ Slot(k) # None
      BY <2>1, <2>4, <2>7 DEF Slot, Items, Slots, None
    <3>3. Slot(k).kind = "slot" /\ Slot(k).of = k
      BY DEF Slot
    <3>4. None.kind # "slot"
      BY DEF None
    <3> HIDE DEF m
    <3>5. Len(out) >= Len(in) /\ Len(out) >= k /\ Len(out) \in Nat
      BY <2>1, <2>4, <2>5 DEF Greater
    <3>6. Len(out) > 0 => out[Len(out)] # None
      BY <2>1, <2>4, <2>5, <3>2, <3>5 DEF Greater
    <3>7. \A j \in 1..Len(out) : out[j] # None => m <= -j
      BY <2>1, <2>4, <2>5, <3>1, <3>2, <3>5
    <3>8. \A j \in 1..Len(out) : out[j].kind = "slot" => m <= -out[j].of
      <4> SUFFICES ASSUME NEW j \in 1..Len(out), out[j].kind = "slot"
                   PROVE  m <= -out[j].of
        OBVIOUS
      <4>1. CASE j = k
        BY <4>1, <3>1, <3>2, <3>3
      <4>2. CASE j # k
        <5>1. j <= Len(in) /\ out[j] = in[j]
          BY <4>2, <2>4, <2>5, <3>4
        <5>2. out[j] \in Items
          BY <5>1, <2>5, <2>4, <3>4
        <5>3. out[j].of \in Int
          BY <5>2 DEF Items, Slots, Values
        <5>4. QED
          BY <5>1, <5>3, <3>1, <2>5
      <4>3. QED
        BY <4>1, <4>2
    <3>9. MinAfterGet(i, in, min) = m
      BY <2>3, <2>7 DEF m
    <3>10. \A j \in 1..Len(in) : in[j] # None => out[j] = in[j]
      BY <2>1, <2>4, <2>5, <2>7, <3>5 DEF Fetched
    <3>11. k \in 1..Len(out)
      BY <2>1, <3>5
    <3>12. QED
      BY <1>2, <2>2, <2>4, <3>1, <3>2, <3>3, <3>5, <3>6, <3>7, <3>8, <3>9, <3>10, <3>11 DEF k
  <2>8. QED
    BY <2>6, <2>7
<1>3. QED
  BY <1>1, <1>2

-----------------------------------------------------------------------------
(* The inductive invariant in the terms of GetFacts.                       *)
LEMMA InvParts ==
    ASSUME IInv
    PROVE  InputOK(input, minSize) /\ LocalOK(local, minSize)
BY DEF IInv, TypeOK, Bookkeeping, InputOK, LocalOK

(* A smaller least size asks for no less.                                  *)
LEMMA Weaken ==
    ASSUME NEW in, NEW lo, NEW min \in Int, NEW m \in Int, m <= min
    PROVE  /\ InputOK(in, min) => InputOK(in, m)
           /\ LocalOK(lo, min) => LocalOK(lo, m)
<1>1. \A item \in Items : item.kind = "slot" => item.of \in Nat
  BY DEF Items, Slots, Values
<1>2. None.kind # "slot"
  BY DEF None
<1>3. ASSUME InputOK(in, min) PROVE InputOK(in, m)
  <2>1. \A k \in 1..Len(in) : in[k] \in Items \cup {None}
    BY <1>3 DEF InputOK
  <2>2. \A k \in 1..Len(in) : in[k].kind = "slot" => m <= -in[k].of
    BY <1>1, <1>2, <1>3, <2>1 DEF InputOK
  <2>3. QED
    BY <1>3, <2>1, <2>2 DEF InputOK
<1>4. ASSUME LocalOK(lo, min) PROVE LocalOK(lo, m)
  BY <1>1, <1>4 DEF LocalOK
<1>5. QED
  BY <1>3, <1>4

(* A block that passes the check of stack.prepare only touches the slots   *)
(* it may, so the invariant implies the safety of its accesses.            *)
LEMMA BoundsFromInv == IInv => AccessInBounds
<1> SUFFICES ASSUME IInv, PrepareOk
             PROVE  /\ \A item \in SlotsLoaded : item.kind = "slot" => item.of <= size
                    /\ Len(input) <= size
                    /\ size + LocalSize \in 0..StackLimit
  BY DEF AccessInBounds
<1> USE StackLimitAssumption DEF IInv, TypeOK, Bookkeeping, PrepareOk
<1>1. \A item \in Items : item.kind = "slot" => item.of \in Nat
  BY DEF Items, Slots, Values
<1>2. None.kind # "slot"
  BY DEF None
<1>3. \A k \in 1..Len(local) : local[k].kind = "slot" => local[k].of <= size
  BY <1>1
<1>4. \A k \in 1..Len(input) : input[k].kind = "slot" => input[k].of <= size
  BY <1>1, <1>2
<1>5. \A item \in SlotsLoaded : item.kind = "slot" => item.of <= size
  BY <1>3, <1>4 DEF SlotsLoaded
<1>6. Len(input) <= size
  OBVIOUS
<1>7. size + LocalSize \in 0..StackLimit
  BY DEF LocalSize
<1>8. QED
  BY <1>5, <1>6, <1>7

(* Each slot of the global stack holds a word after the block has run.     *)
LEMMA FlushedWord ==
    ASSUME IInv, PrepareOk, NEW p \in 1..StackLimit
    PROVE  Flushed(p) \in Word
<1> USE StackLimitAssumption DEF IInv, TypeOK
<1>1. ASSUME NEW item \in Items, item.kind = "slot" => item.of <= size
      PROVE  Eval(item) \in Word
  BY <1>1 DEF Eval, Items, Slots, Values
<1>2. CASE ~Stored(p)
  BY <1>2 DEF Flushed
<1>3. CASE Stored(p)
  <2>1. AccessInBounds
    BY BoundsFromInv
  <2>2. CASE Stays(p)
    <3>1. Depth(p) \in 1..Len(input) /\ input[Depth(p)] # None
      BY <1>3, <2>2 DEF Stored, Stays, Depth
    <3>2. StoredItem(p) = input[Depth(p)]
      BY <2>2 DEF StoredItem
    <3>3. StoredItem(p) \in Items /\ StoredItem(p) \in SlotsLoaded
      BY <3>1, <3>2 DEF SlotsLoaded
    <3>4. QED
      BY <1>1, <1>3, <2>1, <3>3 DEF Flushed, AccessInBounds
  <2>3. CASE ~Stays(p)
    <3>1. globalPops + 1 - Depth(p) \in 1..Len(local)
      BY <1>3, <2>3 DEF Stored, Stays, Depth, LocalSize
    <3>2. StoredItem(p) = local[globalPops + 1 - Depth(p)]
      BY <2>3 DEF StoredItem
    <3>3. StoredItem(p) \in Items /\ StoredItem(p) \in SlotsLoaded
      BY <3>1, <3>2 DEF SlotsLoaded
    <3>4. QED
      BY <1>1, <1>3, <2>1, <3>3 DEF Flushed, AccessInBounds
  <2>4. QED
    BY <2>2, <2>3
<1>4. QED
  BY <1>2, <1>3

-----------------------------------------------------------------------------
LEMMA InitInv == Init => IInv
BY StackLimitAssumption DEF Init, IInv, TypeOK, Bookkeeping, LocalSize

LEMMA PushInv ==
    ASSUME IInv, NEW w \in Word, Push(w)
    PROVE  IInv'
<1> USE DEF Push, PushItem, runVars, IInv
<1>1. Value(w) \in Items /\ Value(w).kind # "slot"
  BY DEF Value, Items, Values
<1>2. TypeOK'
  BY <1>1 DEF TypeOK, Greater, LocalSize
<1>3. local' = Append(local, Value(w)) /\ Len(local') = Len(local) + 1
  BY DEF TypeOK
<1>4. \A k \in 1..Len(local') : local'[k].kind = "slot" => minSize' <= -local'[k].of
  BY <1>1, <1>3 DEF TypeOK, Bookkeeping
<1>5. QED
  BY <1>2, <1>3, <1>4 DEF TypeOK, Bookkeeping, Greater, LocalSize

(* A vector after pop_back().                                              *)
LEMMA FrontFacts ==
    ASSUME NEW S, NEW s \in Seq(S), Len(s) > 0
    PROVE  LET front == SubSeq(s, 1, Len(s) - 1)
           IN  /\ front \in Seq(S)
               /\ Len(front) = Len(s) - 1
               /\ \A k \in 1..Len(front) : front[k] = s[k]
<1> DEFINE n == Len(s) - 1
<1> DEFINE front == SubSeq(s, 1, n)
<1>1. n \in Nat /\ n \in Int /\ 1 \in Int
  OBVIOUS
<1>2. \A k \in 1..n : s[k] \in S
  OBVIOUS
<1> HIDE DEF n
<1>3. /\ front \in Seq(S)
      /\ Len(front) = IF 1 <= n THEN n - 1 + 1 ELSE 0
      /\ \A k \in 1..(n - 1 + 1) : front[k] = s[1 + k - 1]
  BY <1>1, <1>2, SubSeqProperties
<1> HIDE DEF front
<1>4. Len(front) = n
  BY <1>1, <1>3
<1>5. \A k \in 1..n : k \in 1..(n - 1 + 1) /\ 1 + k - 1 = k
  BY <1>1
<1>6. \A k \in 1..n : front[k] = s[k]
  BY <1>3, <1>5
<1>7. QED
  BY <1>3, <1>4, <1>6 DEF front, n

LEMMA PopInv ==
    ASSUME IInv, Pop
    PROVE  IInv'
<1> DEFINE in == InputAfterGet(0, input)
<1> DEFINE min == MinAfterGet(0, input, minSize)
<1>1. /\ InputOK(in, min) /\ min <= minSize
      /\ Len(input) <= Len(in)
      /\ ~InLocal(0) => InputIdx(0) \in 1..Len(in)
  BY InvParts, GetFacts DEF IInv, TypeOK
<1> HIDE DEF in, min
<1>2. input' = in /\ minSize' = Lesser(min, LocalSize - 1)
  BY DEF Pop, in, min
<1>3. min \in Int /\ minSize \in Int /\ LocalSize \in Int
  BY <1>1 DEF InputOK, IInv, TypeOK, LocalSize
<1>4. minSize' \in Int /\ minSize' <= min /\ minSize' <= LocalSize - 1
  BY <1>2, <1>3 DEF Lesser
<1>5. InputOK(input', minSize')
  BY <1>1, <1>2, <1>3, <1>4, Weaken
<1>6. LocalOK(local, minSize')
  BY <1>1, <1>3, <1>4, InvParts, Weaken
<1>7. /\ local' \in Seq(Items) /\ globalPops' \in Nat
      /\ LocalSize' = LocalSize - 1
      /\ \A k \in 1..Len(local') : k \in 1..Len(local) /\ local'[k] = local[k]
  <2>1. local \in Seq(Items) /\ globalPops \in Nat
    BY DEF IInv, TypeOK
  <2>2. CASE Len(local) > 0
    <3>1. local' = SubSeq(local, 1, Len(local) - 1) /\ globalPops' = globalPops
      BY <2>2 DEF Pop
    <3>2. /\ local' \in Seq(Items) /\ Len(local') = Len(local) - 1
          /\ \A k \in 1..Len(local') : local'[k] = local[k]
      BY <2>1, <2>2, <3>1, FrontFacts
    <3>3. QED
      BY <2>1, <3>1, <3>2 DEF LocalSize
  <2>3. CASE Len(local) = 0
    BY <2>1, <2>3 DEF Pop, LocalSize
  <2>4. QED
    BY <2>1, <2>2, <2>3
<1>8. globalPops' <= Len(input')
  BY <1>1, <1>2 DEF Pop, IInv, TypeOK, Bookkeeping, InLocal, InputIdx
<1>9. TypeOK'
  BY <1>4, <1>5, <1>7 DEF Pop, IInv, TypeOK, InputOK, runVars
<1>10. Bookkeeping'
  <2>1. minSize' <= 0 /\ maxSize' >= 0 /\ maxSize' >= LocalSize'
    BY <1>1, <1>3, <1>4, <1>7 DEF Pop, IInv, TypeOK, Bookkeeping
  <2>2. \A k \in 1..Len(local') : local'[k].kind = "slot" => minSize' <= -local'[k].of
    BY <1>6, <1>7 DEF LocalOK
  <2>3. QED
    BY <1>4, <1>5, <1>7, <1>8, <2>1, <2>2 DEF Bookkeeping, InputOK
<1>11. QED
  BY <1>9, <1>10 DEF IInv

LEMMA DupInv ==
    ASSUME IInv, NEW i \in Nat, Dup(i)
    PROVE  IInv'
<1> DEFINE in == InputAfterGet(i, input)
<1> DEFINE min == MinAfterGet(i, input, minSize)
<1> DEFINE item == ItemAt(i, in)
<1>1. /\ InputOK(in, min) /\ min <= minSize
      /\ Len(input) <= Len(in)
      /\ item \in Items
      /\ item.kind = "slot" => min <= -item.of
  BY InvParts, GetFacts DEF IInv, TypeOK
<1>2. input' = in /\ minSize' = min /\ local' = Append(local, item)
  BY DEF Dup, PushItem, in, min, item
<1> HIDE DEF in, min, item
<1>3. min \in Int /\ minSize \in Int /\ LocalSize \in Int /\ maxSize \in Int
  BY <1>1 DEF InputOK, IInv, TypeOK, LocalSize
<1>4. InputOK(input', minSize') /\ LocalOK(local, minSize')
  BY <1>1, <1>2, <1>3, InvParts, Weaken
<1>5. /\ local' \in Seq(Items) /\ Len(local') = Len(local) + 1
      /\ LocalSize' = LocalSize + 1
      /\ \A k \in 1..Len(local) : local'[k] = local[k]
      /\ local'[Len(local')] = item
  BY <1>1, <1>2 DEF Dup, IInv, TypeOK, LocalSize
<1>6. maxSize' \in Int /\ maxSize' >= maxSize /\ maxSize' >= LocalSize'
  BY <1>3, <1>5 DEF Dup, PushItem, Greater
<1>7. TypeOK'
  BY <1>4, <1>5, <1>6 DEF Dup, IInv, TypeOK, InputOK, runVars
<1>8. Bookkeeping'
  <2>1. minSize' <= 0 /\ minSize' <= LocalSize' /\ maxSize' >= 0
    BY <1>1, <1>2, <1>3, <1>5, <1>6 DEF IInv, TypeOK, Bookkeeping
  <2>2. globalPops' <= Len(input')
    BY <1>1, <1>2 DEF Dup, IInv, TypeOK, Bookkeeping, InputOK
  <2>3. \A k \in 1..Len(local') : local'[k].kind = "slot" => minSize' <= -local'[k].of
    <3>1. \A k \in 1..Len(local') : k \in 1..Len(local) \/ k = Len(local')
      BY <1>5 DEF IInv, TypeOK
    <3>2. QED
      BY <1>1, <1>2, <1>4, <1>5, <3>1 DEF LocalOK
  <2>4. QED
    BY <1>4, <1>6, <2>1, <2>2, <2>3 DEF Bookkeeping, InputOK
<1>9. QED
  BY <1>7, <1>8 DEF IInv

(* set(i, item) with an item the least size counts.                        *)
LEMMA SetFacts ==
    ASSUME NEW in, NEW lo, NEW min, InputOK(in, min), LocalOK(lo, min),
           Len(lo) = Len(local), Len(local) \in Nat, NEW i \in Nat,
           ~InLocal(i) => InputIdx(i) \in 1..Len(in) /\ in[InputIdx(i)] # None,
           NEW item \in Items, item.kind = "slot" => min <= -item.of
    PROVE  /\ InputOK(SetInput(i, item, in), min)
           /\ LocalOK(SetLocal(i, item, lo), min)
           /\ Len(SetInput(i, item, in)) = Len(in)
           /\ Len(SetLocal(i, item, lo)) = Len(local)
           /\ \A k \in 1..Len(in) :
                in[k] # None => SetInput(i, item, in)[k] # None
<1> USE DEF InputOK, LocalOK
<1>1. item # None
  BY DEF Items, Slots, Values, None
<1>2. CASE InLocal(i)
  <2>1. Len(local) - i \in 1..Len(lo)
    BY <1>2 DEF InLocal
  <2>2. SetLocal(i, item, lo) = [lo EXCEPT ![Len(local) - i] = item]
    BY <1>2 DEF SetLocal
  <2>3. SetInput(i, item, in) = in
    BY <1>2 DEF SetInput
  <2> DEFINE k == Len(local) - i
  <2> DEFINE out == [lo EXCEPT ![k] = item]
  <2>4. k \in 1..Len(lo) /\ lo \in Seq(Items)
    BY <2>1
  <2> HIDE DEF k
  <2>5. /\ out \in Seq(Items) /\ Len(out) = Len(lo)
        /\ \A j \in 1..Len(lo) : out[j] = IF j = k THEN item ELSE lo[j]
    BY <2>4
  <2> HIDE DEF out
  <2>6. \A j \in 1..Len(out) : out[j].kind = "slot" => min <= -out[j].of
    BY <2>5
  <2>7. QED
    BY <2>2, <2>3, <2>5, <2>6 DEF k, out
<1>3. CASE ~InLocal(i)
  <2> DEFINE k == InputIdx(i)
  <2> DEFINE out == [in EXCEPT ![k] = item]
  <2>1. k \in 1..Len(in) /\ in[k] # None /\ in \in Seq(Items \cup {None})
    BY <1>3
  <2>2. SetLocal(i, item, lo) = lo /\ SetInput(i, item, in) = out
    BY <1>3 DEF SetLocal, SetInput
  <2> HIDE DEF k
  <2>3. /\ out \in Seq(Items \cup {None}) /\ Len(out) = Len(in)
        /\ \A j \in 1..Len(in) : out[j] = IF j = k THEN item ELSE in[j]
    BY <2>1
  <2> HIDE DEF out
  <2>4. \A j \in 1..Len(out) : out[j].kind = "slot" => min <= -out[j].of
    BY <2>3
  <2>5. \A j \in 1..Len(out) : out[j] # None => min <= -j
    BY <2>1, <2>3
  <2>6. \A j \in 1..Len(in) : in[j] # None => out[j] # None
    BY <1>1, <2>3
  <2>7. InputOK(out, min)
    BY <2>3, <2>4, <2>5, <2>6
  <2>8. QED
    BY <2>2, <2>3, <2>6, <2>7
<1>4. QED
  BY <1>2, <1>3

LEMMA SwapInv ==
    ASSUME IInv, NEW i \in Nat, Swap(i)
    PROVE  IInv'
<1> DEFINE in1 == InputAfterGet(i, input)
<1> DEFINE in2 == InputAfterGet(0, in1)
<1> DEFINE min1 == MinAfterGet(i, input, minSize)
<1> DEFINE min2 == MinAfterGet(0, in1, min1)
<1> DEFINE val == ItemAt(i, in2)
<1> DEFINE tos == ItemAt(0, in2)
<1>1. InputOK(input, minSize) /\ LocalOK(local, minSize) /\ globalPops \in Nat
      /\ Len(local) \in Nat /\ minSize \in Int /\ 0 \in Nat
  BY InvParts DEF IInv, TypeOK
<1>2. /\ InputOK(in1, min1) /\ min1 <= minSize
      /\ ItemAt(i, in1) \in Items
      /\ ItemAt(i, in1).kind = "slot" => min1 <= -ItemAt(i, in1).of
      /\ Len(input) <= Len(in1)
      /\ ~InLocal(i) => InputIdx(i) \in 1..Len(in1)
  BY <1>1, GetFacts
<1>3. min1 \in Int /\ LocalOK(local, min1)
  BY <1>1, <1>2, Weaken DEF InputOK
<1>4. /\ InputOK(in2, min2) /\ min2 <= min1
      /\ tos \in Items
      /\ tos.kind = "slot" => min2 <= -tos.of
      /\ Len(in1) <= Len(in2)
      /\ ~InLocal(0) => InputIdx(0) \in 1..Len(in2)
      /\ \A j \in 1..Len(in1) : in1[j] # None => in2[j] = in1[j]
  BY <1>1, <1>2, <1>3, GetFacts
<1>5. min2 \in Int /\ LocalOK(local, min2)
  BY <1>3, <1>4, Weaken DEF InputOK
<1>6. /\ local' = SetLocal(0, val, SetLocal(i, tos, local))
      /\ input' = SetInput(0, val, SetInput(i, tos, in2))
      /\ minSize' = min2
  BY DEF Swap
<1>7. \A item \in Items : item # None /\ (item.kind = "slot" => item.of \in Int)
  BY DEF Items, Slots, Values, None
<1>8. ~InLocal(i) => /\ ItemAt(i, in1) = in1[InputIdx(i)]
                     /\ ItemAt(i, in2) = in2[InputIdx(i)]
  BY DEF ItemAt
<1>9. InLocal(i) => ItemAt(i, in1) = ItemAt(i, in2)
  BY DEF ItemAt
<1>10. ~InLocal(0) => tos = in2[InputIdx(0)]
  BY DEF ItemAt
<1> HIDE DEF in1, in2, min1, min2, val, tos
<1>11. val = ItemAt(i, in1)
  BY <1>2, <1>4, <1>7, <1>8, <1>9 DEF val
<1>12. val \in Items /\ (val.kind = "slot" => min2 <= -val.of)
  BY <1>2, <1>3, <1>4, <1>5, <1>7, <1>11
<1>13. Len(in1) \in Nat /\ Len(in2) \in Nat /\ Len(input) \in Nat
  BY <1>1, <1>2, <1>4 DEF InputOK
<1>14. ~InLocal(i) => InputIdx(i) \in 1..Len(in2) /\ in2[InputIdx(i)] # None
  BY <1>2, <1>4, <1>7, <1>8, <1>13
<1>15. ~InLocal(0) => InputIdx(0) \in 1..Len(in2) /\ in2[InputIdx(0)] # None
  BY <1>4, <1>7, <1>10
<1> DEFINE in3 == SetInput(i, tos, in2)
<1> DEFINE lo3 == SetLocal(i, tos, local)
<1>16. /\ InputOK(in3, min2) /\ LocalOK(lo3, min2)
       /\ Len(in3) = Len(in2) /\ Len(lo3) = Len(local)
       /\ \A k \in 1..Len(in2) : in2[k] # None => in3[k] # None
  BY <1>1, <1>4, <1>5, <1>14, SetFacts
<1>17. ~InLocal(0) => InputIdx(0) \in 1..Len(in3) /\ in3[InputIdx(0)] # None
  BY <1>15, <1>16
<1> HIDE DEF in3, lo3
<1>18. /\ InputOK(SetInput(0, val, in3), min2)
       /\ LocalOK(SetLocal(0, val, lo3), min2)
       /\ Len(SetInput(0, val, in3)) = Len(in3)
       /\ Len(SetLocal(0, val, lo3)) = Len(local)
  BY <1>1, <1>12, <1>16, <1>17, SetFacts
<1>19. /\ InputOK(input', minSize') /\ LocalOK(local', minSize')
       /\ Len(input') >= Len(input) /\ Len(local') = Len(local)
  BY <1>2, <1>4, <1>6, <1>13, <1>16, <1>18 DEF in3, lo3
<1>20. minSize' \in Int /\ minSize' <= minSize
  BY <1>1, <1>2, <1>3, <1>4, <1>5, <1>6
<1>21. TypeOK'
  BY <1>19, <1>20 DEF Swap, IInv, TypeOK, InputOK, LocalOK, runVars
<1>22. Bookkeeping'
  <2>1. LocalSize' = LocalSize /\ LocalSize \in Int
    BY <1>19 DEF Swap, LocalSize, IInv, TypeOK
  <2>2. maxSize' = maxSize /\ globalPops' = globalPops
    BY DEF Swap
  <2>3. /\ minSize' <= 0 /\ minSize' <= LocalSize'
        /\ maxSize' >= 0 /\ maxSize' >= LocalSize'
        /\ globalPops' <= Len(input')
    <3>1. Len(input') \in Nat
      BY <1>21 DEF TypeOK
    <3>2. QED
    BY <1>13, <1>19, <1>20, <2>1, <2>2, <3>1 DEF IInv, TypeOK, Bookkeeping
  <2>4. QED
    BY <1>19, <2>3 DEF Bookkeeping, InputOK, LocalOK
<1>23. QED
  BY <1>21, <1>22 DEF IInv

LEMMA RunInv ==
    ASSUME IInv, RunBlock \/ AbortBlock
    PROVE  IInv'
<1>1. CASE RunBlock
  <2>1. mem' \in [1..StackLimit -> Word]
    BY <1>1, FlushedWord DEF RunBlock
  <2>2. size' \in 0..StackLimit
    BY <1>1, BoundsFromInv DEF RunBlock, AccessInBounds
  <2>3. QED
    BY <1>1, <2>1, <2>2
       DEF RunBlock, FreshLocalStack, IInv, TypeOK, Bookkeeping, LocalSize
<1>2. CASE AbortBlock
  BY <1>2 DEF AbortBlock, blockVars, IInv, TypeOK, Bookkeeping, LocalSize
<1>3. QED
  BY <1>1, <1>2

-----------------------------------------------------------------------------
LEMMA NextInv == IInv /\ [Next]_vars => IInv'
<1> SUFFICES ASSUME IInv, [Next]_vars PROVE IInv'
  OBVIOUS
<1> USE ReachAssumption
<1>1. CASE \E w \in Word : Push(w)
  BY <1>1, PushInv
<1>2. CASE Pop
  BY <1>2, PopInv
<1>3. CASE \E i \in 0..Reach-1 : Dup(i)
  <2>1. 0..Reach-1 \subseteq Nat
    OBVIOUS
  <2>2. QED
    BY <1>3, <2>1, DupInv
<1>4. CASE \E i \in 1..Reach : Swap(i)
  <2>1. 1..Reach \subseteq Nat
    OBVIOUS
  <2>2. QED
    BY <1>4, <2>1, SwapInv
<1>5. CASE RunBlock \/ AbortBlock
  BY <1>5, RunInv
<1>6. CASE UNCHANGED vars
  BY <1>6 DEF vars, IInv, TypeOK, Bookkeeping, LocalSize
<1>7. QED
  BY <1>1, <1>2, <1>3, <1>4, <1>5, <1>6 DEF Next

(* The types and the bookkeeping of the compiled stack are kept by every   *)
(* call of every block.                                                    *)
THEOREM InvHolds == Spec => []IInv
<1>1. QED
  BY InitInv, NextInv, PTL DEF Spec

(* The vectors of LocalStack and the slots of the global stack always hold *)
(* what their declarations promise.                                        *)
THEOREM TypeCorrect == Spec => []TypeOK
<1>1. IInv => TypeOK
  BY DEF IInv
<1>2. QED
  BY <1>1, InvHolds, PTL

(* m_minSize and m_maxSize bound all a block does to the global stack.     *)
THEOREM BookkeepingCorrect == Spec => []Bookkeeping
<1>1. IInv => Bookkeeping
  BY DEF IInv
<1>2. QED
  BY <1>1, InvHolds, PTL

(* No block that stack.prepare lets through loads a slot above the global  *)
(* stack or stores outside the buffer.                                     *)
THEOREM AccessSafe == Spec => []AccessInBounds
<1>1. QED
  BY BoundsFromInv, InvHolds, PTL

-----------------------------------------------------------------------------
(* The refinement of EvmStack.                                             *)

(* Where the item of the slot p comes from when a block ends with the      *)
(* local items lo, the input items in and gp pops of the global stack.     *)
FlushOf(lo, in, gp, p) ==
    IF Depth(p) <= gp
    THEN Eval(lo[gp + 1 - Depth(p)])
    ELSE IF Fetched(Depth(p), in) THEN Eval(in[Depth(p)]) ELSE mem[p]

LEMMA FlushedCases ==
    ASSUME IInv, NEW p \in 1..(size + LocalSize)
    PROVE  Flushed(p) = FlushOf(local, input, globalPops, p)
<1> USE DEF IInv, TypeOK, Bookkeeping
<1>1. Depth(p) \in Int /\ p <= size + LocalSize
  BY DEF Depth, LocalSize
<1>2. CASE Depth(p) <= globalPops
  <2>1. ~Stays(p) /\ Stored(p)
    BY <1>1, <1>2 DEF Stays, Stored
  <2>2. QED
    BY <1>2, <2>1 DEF Flushed, StoredItem, FlushOf
<1>3. CASE ~(Depth(p) <= globalPops)
  <2>1. Stays(p)
    BY <1>1, <1>3 DEF Stays
  <2>2. Stored(p) <=> Fetched(Depth(p), input)
    BY <1>1, <2>1 DEF Stored, Fetched
  <2>3. QED
    BY <1>3, <2>1, <2>2 DEF Flushed, StoredItem, FlushOf
<1>4. QED
  BY <1>2, <1>3

LEMMA FlushedCasesNext ==
    ASSUME IInv', NEW p \in 1..(size' + LocalSize'), mem' = mem, size' = size
    PROVE  Flushed(p)' = FlushOf(local', input', globalPops', p)
<1> USE DEF IInv, TypeOK, Bookkeeping
<1>0. Depth(p)' = Depth(p) /\ \A item : Eval(item)' = Eval(item)
  BY DEF Depth, Eval
<1>1. Depth(p) \in Int /\ p <= size' + LocalSize'
  BY DEF Depth, LocalSize
<1>2. CASE Depth(p) <= globalPops'
  <2>1. ~Stays(p)' /\ Stored(p)'
    BY <1>0, <1>1, <1>2 DEF Stays, Stored
  <2>2. Flushed(p)' = Eval(local'[globalPops' + 1 - Depth(p)])
    BY <1>0, <2>1 DEF Flushed, StoredItem
  <2>3. QED
    BY <1>2, <2>2 DEF FlushOf
<1>3. CASE ~(Depth(p) <= globalPops')
  <2>1. Stays(p)'
    BY <1>0, <1>1, <1>3 DEF Stays
  <2>2. Stored(p)' <=> Fetched(Depth(p), input')
    BY <1>0, <1>1, <2>1 DEF Stored, Fetched
  <2>3. CASE Fetched(Depth(p), input')
    <3>1. Flushed(p)' = Eval(input'[Depth(p)])
      BY <1>0, <2>1, <2>2, <2>3 DEF Flushed, StoredItem
    <3>2. QED
      BY <1>3, <2>3, <3>1 DEF FlushOf
  <2>4. CASE ~Fetched(Depth(p), input')
    BY <1>3, <2>2, <2>4 DEF FlushOf, Flushed
  <2>5. QED
    BY <2>3, <2>4
<1>4. QED
  BY <1>2, <1>3

(* Slots and items from the top: the item i below the top is in the slot   *)
(* Top - i, whose depth is the index that get(i) uses.                     *)
Top == size + LocalSize

LEMMA TopFacts ==
    ASSUME IInv, NEW i \in Nat
    PROVE  /\ Top \in Int
           /\ Depth(Top - i) = InputIdx(i)
           /\ globalPops + 1 - Depth(Top - i) = Len(local) - i
           /\ InLocal(i) <=> Depth(Top - i) <= globalPops
           /\ InputIdx(i) \in Int
           /\ InputIdx(i) <= size <=> i < Top
           /\ \A p \in 1..Top : Depth(p) \in Int /\ Depth(p) <= size
           /\ \A p \in 1..Top : Depth(p) = Depth(Top - i) => p = Top - i
BY DEF IInv, TypeOK, Top, LocalSize, Depth, InputIdx, InLocal

(* get(i) succeeds on the EVM's stack exactly when stack.prepare will let  *)
(* it through, reads the item the EVM's DUP and SWAP read, and leaves what *)
(* the block will store as it was.                                         *)
LEMMA GetReads ==
    ASSUME IInv, NEW in, NEW min, InputOK(in, min), NEW i \in Nat,
           globalPops <= Len(in), min <= 0, size + min >= 0
    PROVE  /\ size + MinAfterGet(i, in, min) >= 0 <=> i < Top
           /\ i < Top =>
                Eval(ItemAt(i, InputAfterGet(i, in))) =
                    FlushOf(local, InputAfterGet(i, in), globalPops, Top - i)
           /\ \A p \in 1..Top :
                FlushOf(local, InputAfterGet(i, in), globalPops, p) =
                    FlushOf(local, in, globalPops, p)
<1> DEFINE k == InputIdx(i)
<1> DEFINE out == InputAfterGet(i, in)
<1>1. /\ Top \in Int /\ size \in Nat /\ min \in Int /\ Len(in) \in Nat
      /\ globalPops \in Nat /\ k \in Int
  <2>1. Top \in Int /\ k \in Int
    BY TopFacts
  <2>2. size \in Nat /\ globalPops \in Nat
    BY DEF IInv, TypeOK
  <2>3. min \in Int /\ Len(in) \in Nat
    BY DEF InputOK
  <2>4. QED
    BY <2>1, <2>2, <2>3
<1>2. CASE InLocal(i)
  <2>1. out = in /\ ItemAt(i, out) = local[Len(local) - i]
        /\ MinAfterGet(i, in, min) = min
    BY <1>2 DEF InputAfterGet, ItemAt, MinAfterGet
  <2>2. min <= -globalPops
    BY <1>1 DEF InputOK
  <2>3. i < Top
    BY <1>1, <1>2, <2>2 DEF Top, LocalSize, InLocal, IInv, TypeOK
  <2>4. FlushOf(local, out, globalPops, Top - i) = Eval(local[Len(local) - i])
    BY <1>2, TopFacts DEF FlushOf
  <2>5. QED
    BY <2>1, <2>3, <2>4
<1>3. CASE ~InLocal(i)
  <2>1. k \in Nat \ {0} /\ Depth(Top - i) = k /\ ~(Depth(Top - i) <= globalPops)
    <3>1. Depth(Top - i) = k /\ ~(Depth(Top - i) <= globalPops)
      BY <1>3, TopFacts
    <3>2. k > globalPops
      BY <1>1, <3>1
    <3>3. QED
      BY <1>1, <3>1, <3>2
  <2>2. out = FetchAt(k, in) /\ ItemAt(i, out) = out[k]
    BY <1>3 DEF InputAfterGet, ItemAt
  <2>3. MinAfterGet(i, in, min) = IF Fetched(k, in) THEN min ELSE Lesser(min, -k)
    BY <1>3 DEF MinAfterGet
  <2>4. k <= size <=> i < Top
    BY TopFacts
  <2> HIDE DEF k
  <2>5. /\ Len(out) = Greater(Len(in), k)
        /\ out[k] = IF Fetched(k, in) THEN in[k] ELSE Slot(k)
        /\ \A j \in 1..Len(out) : j # k =>
             out[j] = IF j <= Len(in) THEN in[j] ELSE None
    BY <2>1, <2>2, FetchAtFacts DEF InputOK
  <2> HIDE DEF out
  <2>6. Fetched(k, out)
    <3>1. in[k] # None \/ ~Fetched(k, in)
      BY DEF Fetched
    <3>2. Slot(k) # None
      BY DEF Slot, None
    <3>3. k <= Len(out)
      BY <1>1, <2>1, <2>5 DEF Greater
    <3>4. QED
      BY <2>5, <3>1, <3>2, <3>3 DEF Fetched
  <2>7. size + MinAfterGet(i, in, min) >= 0 <=> i < Top
    <3>1. CASE Fetched(k, in)
      <4>1. min <= -k
        BY <1>1, <2>1, <3>1 DEF InputOK, Fetched
      <4>2. QED
        BY <1>1, <2>1, <2>3, <2>4, <3>1, <4>1
    <3>2. CASE ~Fetched(k, in)
      BY <1>1, <2>1, <2>3, <2>4, <3>2 DEF Lesser
    <3>3. QED
      BY <3>1, <3>2
  <2>8. Eval(ItemAt(i, out)) = FlushOf(local, out, globalPops, Top - i)
    BY <2>1, <2>2, <2>6 DEF FlushOf
  <2>9. ASSUME NEW p \in 1..Top
        PROVE  FlushOf(local, out, globalPops, p) = FlushOf(local, in, globalPops, p)
    <3>1. Depth(p) \in Int /\ p = size + 1 - Depth(p)
      BY <1>1 DEF Depth
    <3>2. CASE Depth(p) <= globalPops
      BY <3>2 DEF FlushOf
    <3>3. CASE ~(Depth(p) <= globalPops)
      <4>1. Depth(p) \in Nat \ {0}
        BY <1>1, <3>1, <3>3
      <4>2. CASE Depth(p) # k
        <5>1. Fetched(Depth(p), out) <=> Fetched(Depth(p), in)
          BY <1>1, <2>1, <2>5, <4>1, <4>2 DEF Fetched, Greater
        <5>2. Fetched(Depth(p), in) => out[Depth(p)] = in[Depth(p)]
          BY <1>1, <2>1, <2>5, <4>1, <4>2 DEF Fetched, Greater
        <5>3. QED
          BY <3>3, <5>1, <5>2 DEF FlushOf
      <4>3. CASE Depth(p) = k /\ Fetched(k, in)
        BY <2>5, <2>6, <3>3, <4>3 DEF FlushOf
      <4>4. CASE Depth(p) = k /\ ~Fetched(k, in)
        <5>1. FlushOf(local, out, globalPops, p) = Eval(Slot(k))
          BY <2>5, <2>6, <3>3, <4>4 DEF FlushOf
        <5>2. Eval(Slot(k)) = mem[size + 1 - k]
          BY DEF Eval, Slot
        <5>3. size + 1 - k = p
          BY <3>1, <4>4
        <5>4. QED
          BY <3>3, <4>4, <5>1, <5>2, <5>3 DEF FlushOf
      <4>5. QED
        BY <4>2, <4>3, <4>4
    <3>4. QED
      BY <3>2, <3>3
  <2>10. QED
    BY <2>7, <2>8, <2>9 DEF out
<1>4. QED
  BY <1>2, <1>3

(* set(i, item) changes what the block will store in one slot.             *)
LEMMA SetReads ==
    ASSUME IInv, NEW in \in Seq(Items \cup {None}), NEW lo \in Seq(Items),
           Len(lo) = Len(local), NEW i \in Nat, i < Top, NEW item \in Items,
           ~InLocal(i) => InputIdx(i) \in 1..Len(in), NEW p \in 1..Top
    PROVE  FlushOf(SetLocal(i, item, lo), SetInput(i, item, in), globalPops, p) =
             IF p = Top - i THEN Eval(item) ELSE FlushOf(lo, in, globalPops, p)
<1> DEFINE k == InputIdx(i)
<1>1. /\ Top \in Int /\ size \in Nat /\ Len(in) \in Nat
      /\ globalPops \in Nat /\ k \in Int /\ Len(local) \in Nat
  BY TopFacts DEF IInv, TypeOK
<1>2. /\ Depth(Top - i) = k
      /\ globalPops + 1 - Depth(Top - i) = Len(local) - i
      /\ InLocal(i) <=> Depth(Top - i) <= globalPops
      /\ Depth(p) \in Int
      /\ Depth(p) = Depth(Top - i) => p = Top - i
  BY TopFacts
<1>3. Depth(p) <= globalPops => globalPops + 1 - Depth(p) \in 1..Len(local)
  BY <1>1 DEF Depth, Top, LocalSize
<1>4. item # None
  BY DEF Items, Slots, Values, None
<1> HIDE DEF k
<1>5. CASE InLocal(i)
  <2>1. SetInput(i, item, in) = in
    BY <1>5 DEF SetInput
  <2>2. \A j \in 1..Len(local) : SetLocal(i, item, lo)[j] =
            IF j = Len(local) - i THEN item ELSE lo[j]
    BY <1>5 DEF SetLocal
  <2>3. CASE p = Top - i
    BY <1>2, <1>3, <1>5, <2>2, <2>3 DEF FlushOf
  <2>4. CASE p # Top - i
    <3>1. CASE Depth(p) <= globalPops
      <4>1. globalPops + 1 - Depth(p) # Len(local) - i
        BY <1>1, <1>2, <2>4
      <4>2. SetLocal(i, item, lo)[globalPops + 1 - Depth(p)] =
               lo[globalPops + 1 - Depth(p)]
        BY <1>3, <2>2, <3>1, <4>1
      <4>3. QED
        BY <2>4, <3>1, <4>2 DEF FlushOf
    <3>2. CASE ~(Depth(p) <= globalPops)
      BY <2>1, <2>4, <3>2 DEF FlushOf
    <3>3. QED
      BY <3>1, <3>2
  <2>5. QED
    BY <2>3, <2>4
<1>6. CASE ~InLocal(i)
  <2>1. SetLocal(i, item, lo) = lo /\ SetInput(i, item, in) = [in EXCEPT ![k] = item]
    BY <1>6 DEF SetLocal, SetInput, k
  <2>2. k \in 1..Len(in)
    BY <1>6 DEF k
  <2> DEFINE out == [in EXCEPT ![k] = item]
  <2>3. /\ Len(out) = Len(in)
        /\ \A j \in 1..Len(in) : out[j] = IF j = k THEN item ELSE in[j]
    BY <2>2
  <2> HIDE DEF out
  <2>4. CASE p = Top - i
    <3>1. Fetched(Depth(p), out) /\ out[Depth(p)] = item
      BY <1>1, <1>2, <1>4, <2>2, <2>3, <2>4 DEF Fetched
    <3>2. QED
      BY <1>2, <1>6, <2>1, <2>4, <3>1 DEF FlushOf, out
  <2>5. CASE p # Top - i
    <3>1. CASE Depth(p) <= globalPops
      BY <2>1, <2>5, <3>1 DEF FlushOf
    <3>2. CASE ~(Depth(p) <= globalPops)
      <4>1. Depth(p) # k /\ Depth(p) >= 1
        BY <1>1, <1>2, <2>5, <3>2
      <4>2. Fetched(Depth(p), out) <=> Fetched(Depth(p), in)
        BY <1>1, <1>2, <2>3, <4>1 DEF Fetched
      <4>3. Fetched(Depth(p), in) => out[Depth(p)] = in[Depth(p)]
        BY <1>1, <1>2, <2>3, <4>1 DEF Fetched
      <4>4. QED
        BY <2>1, <2>5, <3>2, <4>2, <4>3 DEF FlushOf, out
    <3>3. QED
      BY <3>1, <3>2
  <2>6. QED
    BY <2>4, <2>5
<1>7. QED
  BY <1>5, <1>6

-----------------------------------------------------------------------------
(* A call of LocalStack that keeps the run-time state implements the call  *)
(* of EvmStack it stands for, or changes nothing once the block is         *)
(* condemned.                                                              *)
LEMMA CallSim ==
    ASSUME NEW STATE can, NEW STATE result, can \in BOOLEAN, status = "running",
           UNCHANGED runVars,
           PrepareOk => (PrepareOk' <=> can),
           PrepareOk /\ can => WorkNow' = result,
           ~PrepareOk => ~PrepareOk'
    PROVE  IF PrepareOk THEN Evm!Call(can, result) ELSE UNCHANGED Evm!vars
<1>1. StackNow' = StackNow /\ status' = status
  BY DEF StackNow, runVars
<1>2. PrepareOk \in BOOLEAN /\ PrepareOk' \in BOOLEAN
  BY DEF PrepareOk
<1>3. ~PrepareOk => WorkNow = <<>>
  BY DEF WorkNow
<1>4. ~PrepareOk' => WorkNow' = <<>>
  BY DEF WorkNow
<1>5. CASE PrepareOk
  <2>1. CASE can
    BY <1>1, <1>5, <2>1 DEF Evm!Call
  <2>2. CASE ~can
    BY <1>1, <1>4, <1>5, <2>2 DEF Evm!Call
  <2>3. QED
    BY <2>1, <2>2
<1>6. CASE ~PrepareOk
  <2>1. PrepareOk' = PrepareOk
    BY <1>2, <1>6
  <2>2. WorkNow' = WorkNow
    BY <1>3, <1>4, <1>6, <2>1
  <2>3. QED
    BY <1>1, <1>6, <2>1, <2>2 DEF Evm!vars
<1>7. QED
  BY <1>5, <1>6

LEMMA WorkFacts ==
    ASSUME IInv, PrepareOk
    PROVE  /\ WorkNow = [p \in 1..Top |-> FlushOf(local, input, globalPops, p)]
           /\ Len(WorkNow) = Top
           /\ Top \in 0..StackLimit
           /\ globalPops <= Len(input) /\ minSize <= 0 /\ size + minSize >= 0
<1>1. Top \in 0..StackLimit
  BY BoundsFromInv DEF AccessInBounds, Top
<1>2. WorkNow = [p \in 1..Top |-> FlushOf(local, input, globalPops, p)]
  BY FlushedCases DEF WorkNow, Top
<1>3. Len(WorkNow) = Top
  BY <1>1, <1>2
<1>4. QED
  BY <1>1, <1>2, <1>3 DEF IInv, Bookkeeping, PrepareOk

LEMMA WorkNext ==
    ASSUME IInv', PrepareOk', mem' = mem, size' = size
    PROVE  WorkNow' = [p \in 1..(size + LocalSize') |->
                          FlushOf(local', input', globalPops', p)]
BY FlushedCasesNext DEF WorkNow

LEMMA PushSim ==
    ASSUME IInv, IInv', NEW w \in Word, Push(w)
    PROVE  IF PrepareOk THEN Evm!Push(w) ELSE UNCHANGED Evm!vars
<1> DEFINE can == Len(WorkNow) < StackLimit
<1> DEFINE result == Append(WorkNow, w)
<1>1. /\ status = "running" /\ UNCHANGED runVars /\ mem' = mem /\ size' = size
      /\ local' = Append(local, Value(w)) /\ input' = input
      /\ globalPops' = globalPops /\ minSize' = minSize
      /\ maxSize' = Greater(maxSize, LocalSize + 1)
  BY DEF Push, PushItem, runVars
<1>2. /\ size \in 0..StackLimit /\ StackLimit \in Nat /\ LocalSize \in Int
      /\ maxSize \in Int /\ minSize \in Int /\ Len(local) \in Nat
      /\ globalPops \in Nat
  BY StackLimitAssumption DEF IInv, TypeOK, LocalSize
<1>3. ~PrepareOk => ~PrepareOk'
  BY <1>1, <1>2 DEF PrepareOk, Greater
<1>4. PrepareOk => (PrepareOk' <=> can)
  BY <1>1, <1>2, WorkFacts DEF PrepareOk, Greater, Top
<1>5. ASSUME PrepareOk, can PROVE WorkNow' = result
  <2>1. PrepareOk'
    BY <1>4, <1>5
  <2>2. LocalSize' = LocalSize + 1 /\ Top \in Nat
    BY <1>1, <1>2, <1>5, WorkFacts DEF LocalSize, IInv, TypeOK
  <2>3. WorkNow' = [p \in 1..(Top + 1) |->
                       FlushOf(local', input, globalPops, p)]
    <3>1. size + LocalSize' = Top + 1
      BY <1>2, <2>2 DEF Top
    <3>2. QED
      BY <1>1, <2>1, <3>1, WorkNext
  <2>4. FlushOf(local', input, globalPops, Top + 1) = w
    <3>1. Depth(Top + 1) <= globalPops
          /\ globalPops + 1 - Depth(Top + 1) = Len(local) + 1
      BY <1>2 DEF Depth, Top, LocalSize
    <3>2. local'[Len(local) + 1] = Value(w)
      BY <1>1 DEF IInv, TypeOK
    <3>3. QED
      BY <3>1, <3>2 DEF FlushOf, Eval, Value
  <2>5. ASSUME NEW p \in 1..Top
        PROVE  FlushOf(local', input, globalPops, p) = FlushOf(local, input, globalPops, p)
    <3>1. Depth(p) <= globalPops => globalPops + 1 - Depth(p) \in 1..Len(local)
      BY <1>2 DEF Depth, Top, LocalSize
    <3>2. \A j \in 1..Len(local) : local'[j] = local[j]
      BY <1>1 DEF IInv, TypeOK
    <3>3. QED
      BY <3>1, <3>2 DEF FlushOf
  <2>6. WorkNow = [p \in 1..Top |-> FlushOf(local, input, globalPops, p)]
        /\ Len(WorkNow) = Top
    BY <1>5, WorkFacts
  <2> DEFINE f(p) == FlushOf(local', input, globalPops, p)
  <2> DEFINE g(p) == FlushOf(local, input, globalPops, p)
  <2>7. f(Top + 1) = w /\ \A p \in 1..Top : f(p) = g(p)
    BY <2>4, <2>5
  <2>8. WorkNow' = [p \in 1..(Top + 1) |-> f(p)] /\ WorkNow = [p \in 1..Top |-> g(p)]
    BY <2>3, <2>6
  <2> HIDE DEF f, g
  <2>9. Append(WorkNow, w) = [p \in 1..(Top + 1) |-> IF p = Top + 1 THEN w ELSE g(p)]
    BY <2>2, <2>6, <2>8
  <2>10. [p \in 1..(Top + 1) |-> f(p)] = [p \in 1..(Top + 1) |-> IF p = Top + 1 THEN w ELSE g(p)]
    BY <2>2, <2>7
  <2>11. QED
    BY <2>8, <2>9, <2>10
<1>6. can \in BOOLEAN
  OBVIOUS
<1> HIDE DEF can, result
<1>7. IF PrepareOk THEN Evm!Call(can, result) ELSE UNCHANGED Evm!vars
  BY <1>1, <1>3, <1>4, <1>5, <1>6, CallSim
<1>8. QED
  BY <1>7 DEF Evm!Push, can, result

LEMMA PopSim ==
    ASSUME IInv, IInv', Pop
    PROVE  IF PrepareOk THEN Evm!Pop ELSE UNCHANGED Evm!vars
<1> DEFINE can == Len(WorkNow) > 0
<1> DEFINE result == [p \in 1..Len(WorkNow) - 1 |-> WorkNow[p]]
<1> DEFINE in == InputAfterGet(0, input)
<1> DEFINE min == MinAfterGet(0, input, minSize)
<1>1. /\ status = "running" /\ UNCHANGED runVars /\ mem' = mem /\ size' = size
      /\ input' = in /\ minSize' = Lesser(min, LocalSize - 1)
      /\ maxSize' = maxSize
  BY DEF Pop, runVars
<1>2. /\ size \in 0..StackLimit /\ StackLimit \in Nat /\ LocalSize \in Int
      /\ maxSize \in Int /\ minSize \in Int /\ Len(local) \in Nat
      /\ globalPops \in Nat
  BY StackLimitAssumption DEF IInv, TypeOK, LocalSize
<1>3. min \in Int /\ min <= minSize
  BY InvParts, GetFacts DEF IInv, TypeOK, InputOK
<1>4. LocalSize' = LocalSize - 1
      /\ \/ Len(local') = Len(local) - 1 /\ globalPops' = globalPops
         \/ Len(local) = 0 /\ local' = local /\ globalPops' = globalPops + 1
  <2>1. Len(local) > 0 => Len(SubSeq(local, 1, Len(local) - 1)) = Len(local) - 1
    BY FrontFacts DEF IInv, TypeOK
  <2>2. QED
    BY <1>2, <2>1 DEF Pop, LocalSize
<1>5. ~PrepareOk => ~PrepareOk'
  BY <1>1, <1>2, <1>3 DEF PrepareOk, Lesser
<1>6. PrepareOk => (size + min >= 0 <=> 0 < Top)
  <2>1. SUFFICES ASSUME PrepareOk PROVE size + min >= 0 <=> 0 < Top
    OBVIOUS
  <2>2. InputOK(input, minSize) /\ 0 \in Nat
    BY InvParts
  <2>3. QED
    BY <2>1, <2>2, WorkFacts, GetReads
<1>7. PrepareOk => (PrepareOk' <=> can)
  BY <1>1, <1>2, <1>3, <1>6, WorkFacts DEF PrepareOk, Lesser, Top
<1>8. ASSUME PrepareOk, can PROVE WorkNow' = result
  <2>1. PrepareOk'
    BY <1>7, <1>8
  <2>2. Top \in Nat /\ Len(WorkNow) = Top /\ size + LocalSize' = Top - 1
        /\ WorkNow = [p \in 1..Top |-> FlushOf(local, input, globalPops, p)]
    BY <1>2, <1>4, <1>8, WorkFacts DEF Top
  <2>3. WorkNow' = [p \in 1..(Top - 1) |-> FlushOf(local', in, globalPops', p)]
    BY <1>1, <2>1, <2>2, WorkNext
  <2>4. ASSUME NEW p \in 1..(Top - 1)
        PROVE  FlushOf(local', in, globalPops', p) = FlushOf(local, in, globalPops, p)
    <3>1. Depth(p) >= 2 - LocalSize /\ Depth(p) \in Int
      BY <1>2, <2>2 DEF Depth, Top
    <3>2. CASE Len(local) = 0 /\ local' = local /\ globalPops' = globalPops + 1
      <4>1. Depth(p) > globalPops'
        BY <1>2, <3>1, <3>2 DEF LocalSize
      <4>2. QED
        BY <1>2, <3>1, <3>2, <4>1 DEF FlushOf
    <3>3. CASE Len(local') = Len(local) - 1 /\ globalPops' = globalPops
      <4>1. Len(local) > 0
        BY <3>3 DEF IInv, TypeOK
      <4>2. \A j \in 1..(Len(local) - 1) : local'[j] = local[j]
        BY <3>3, <4>1, FrontFacts DEF Pop, IInv, TypeOK
      <4>3. Depth(p) <= globalPops =>
              globalPops + 1 - Depth(p) \in 1..(Len(local) - 1)
        BY <1>2, <3>1 DEF LocalSize
      <4>4. QED
        BY <3>3, <4>2, <4>3 DEF FlushOf
    <3>4. QED
      BY <1>4, <3>2, <3>3
  <2>5. \A p \in 1..Top :
          FlushOf(local, in, globalPops, p) = FlushOf(local, input, globalPops, p)
    <3>1. InputOK(input, minSize) /\ 0 \in Nat
      BY InvParts
    <3>2. QED
      BY <1>8, <3>1, WorkFacts, GetReads
  <2>6. \A p \in 1..(Top - 1) : p \in 1..Top
    BY <2>2
  <2>7. result = [p \in 1..(Top - 1) |-> FlushOf(local, input, globalPops, p)]
    BY <2>2, <2>6
  <2>8. QED
    BY <2>3, <2>4, <2>5, <2>6, <2>7
<1>9. can \in BOOLEAN
  OBVIOUS
<1> HIDE DEF can, result
<1>10. IF PrepareOk THEN Evm!Call(can, result) ELSE UNCHANGED Evm!vars
  BY <1>1, <1>5, <1>7, <1>8, <1>9, CallSim
<1>11. QED
  BY <1>10 DEF Evm!Pop, can, result

LEMMA DupSim ==
    ASSUME IInv, IInv', NEW i \in Nat, Dup(i)
    PROVE  IF PrepareOk THEN Evm!Dup(i) ELSE UNCHANGED Evm!vars
<1> DEFINE can == i < Len(WorkNow) /\ Len(WorkNow) < StackLimit
<1> DEFINE result == Append(WorkNow, WorkNow[Len(WorkNow) - i])
<1> DEFINE in == InputAfterGet(i, input)
<1> DEFINE min == MinAfterGet(i, input, minSize)
<1> DEFINE item == ItemAt(i, in)
<1>1. /\ status = "running" /\ UNCHANGED runVars /\ mem' = mem /\ size' = size
      /\ input' = in /\ minSize' = min /\ local' = Append(local, item)
      /\ maxSize' = Greater(maxSize, LocalSize + 1) /\ globalPops' = globalPops
  BY DEF Dup, PushItem, runVars
<1>2. /\ size \in 0..StackLimit /\ StackLimit \in Nat /\ LocalSize \in Int
      /\ maxSize \in Int /\ minSize \in Int /\ Len(local) \in Nat
      /\ globalPops \in Nat /\ local \in Seq(Items)
  BY StackLimitAssumption DEF IInv, TypeOK, LocalSize
<1>3. min \in Int /\ min <= minSize /\ item \in Items
  BY InvParts, GetFacts DEF IInv, TypeOK, InputOK
<1> HIDE DEF in, min, item
<1>4. ~PrepareOk => ~PrepareOk'
  BY <1>1, <1>2, <1>3 DEF PrepareOk, Greater
<1>5. ASSUME PrepareOk
      PROVE  /\ size + min >= 0 <=> i < Top
             /\ i < Top => Eval(item) = FlushOf(local, in, globalPops, Top - i)
             /\ \A p \in 1..Top : FlushOf(local, in, globalPops, p) =
                                    FlushOf(local, input, globalPops, p)
  <2>1. InputOK(input, minSize)
    BY InvParts
  <2>2. QED
    BY <1>5, <2>1, WorkFacts, GetReads DEF in, min, item
<1>6. PrepareOk => (PrepareOk' <=> can)
  BY <1>1, <1>2, <1>3, <1>5, WorkFacts DEF PrepareOk, Greater, Top
<1>7. ASSUME PrepareOk, can PROVE WorkNow' = result
  <2>1. PrepareOk'
    BY <1>6, <1>7
  <2>2. Top \in Nat /\ Len(WorkNow) = Top
        /\ WorkNow = [p \in 1..Top |-> FlushOf(local, input, globalPops, p)]
    BY <1>7, WorkFacts
  <2>3. Len(local') = Len(local) + 1 /\ local'[Len(local) + 1] = item
        /\ \A j \in 1..Len(local) : local'[j] = local[j]
    BY <1>1, <1>2, <1>3
  <2>4. size + LocalSize' = Top + 1
    BY <1>1, <1>2, <2>3 DEF Top, LocalSize
  <2> DEFINE f(p) == FlushOf(local', in, globalPops, p)
  <2> DEFINE g(p) == FlushOf(local, input, globalPops, p)
  <2>5. WorkNow' = [p \in 1..(Top + 1) |-> f(p)]
    BY <1>1, <2>1, <2>4, WorkNext
  <2>6. Top - i \in 1..Top /\ i < Top
    BY <1>7, <2>2
  <2>7. f(Top + 1) = g(Top - i)
    <3>1. Depth(Top + 1) <= globalPops
          /\ globalPops + 1 - Depth(Top + 1) = Len(local) + 1
      BY <1>2 DEF Depth, Top, LocalSize
    <3>2. f(Top + 1) = Eval(item)
      BY <2>3, <3>1 DEF FlushOf
    <3>3. QED
      BY <1>5, <1>7, <2>6, <3>2
  <2>8. \A p \in 1..Top : f(p) = g(p)
    <3>1. SUFFICES ASSUME NEW p \in 1..Top PROVE f(p) = g(p)
      OBVIOUS
    <3>2. Depth(p) <= globalPops => globalPops + 1 - Depth(p) \in 1..Len(local)
      BY <1>2 DEF Depth, Top, LocalSize
    <3>3. f(p) = FlushOf(local, in, globalPops, p)
      BY <2>3, <3>2 DEF FlushOf
    <3>4. QED
      BY <1>5, <1>7, <3>3
  <2>9. WorkNow = [p \in 1..Top |-> g(p)] /\ WorkNow[Len(WorkNow) - i] = g(Top - i)
    BY <2>2, <2>6
  <2> HIDE DEF f, g
  <2>10. result = [p \in 1..(Top + 1) |-> IF p = Top + 1 THEN g(Top - i) ELSE g(p)]
    BY <2>2, <2>9
  <2>11. [p \in 1..(Top + 1) |-> f(p)] =
           [p \in 1..(Top + 1) |-> IF p = Top + 1 THEN g(Top - i) ELSE g(p)]
    BY <2>2, <2>7, <2>8
  <2>12. QED
    BY <2>5, <2>10, <2>11
<1>8. can \in BOOLEAN
  OBVIOUS
<1> HIDE DEF can, result
<1>9. IF PrepareOk THEN Evm!Call(can, result) ELSE UNCHANGED Evm!vars
  BY <1>1, <1>4, <1>6, <1>7, <1>8, CallSim
<1>10. QED
  BY <1>9 DEF Evm!Dup, Evm!Nth, can, result

LEMMA SwapSim ==
    ASSUME IInv, IInv', NEW i \in Nat \ {0}, Swap(i)
    PROVE  IF PrepareOk THEN Evm!Swap(i) ELSE UNCHANGED Evm!vars
<1> DEFINE can == i < Len(WorkNow)
<1> DEFINE result == Evm!Swapped(i)
<1> DEFINE in1 == InputAfterGet(i, input)
<1> DEFINE in2 == InputAfterGet(0, in1)
<1> DEFINE min1 == MinAfterGet(i, input, minSize)
<1> DEFINE min2 == MinAfterGet(0, in1, min1)
<1> DEFINE val == ItemAt(i, in2)
<1> DEFINE tos == ItemAt(0, in2)
<1> DEFINE in3 == SetInput(i, tos, in2)
<1> DEFINE lo3 == SetLocal(i, tos, local)
<1>1. /\ status = "running" /\ UNCHANGED runVars /\ mem' = mem /\ size' = size
      /\ input' = SetInput(0, val, in3) /\ local' = SetLocal(0, val, lo3)
      /\ minSize' = min2 /\ maxSize' = maxSize /\ globalPops' = globalPops
  BY DEF Swap, runVars
<1>2. /\ size \in 0..StackLimit /\ StackLimit \in Nat /\ LocalSize \in Int
      /\ maxSize \in Int /\ minSize \in Int /\ Len(local) \in Nat
      /\ globalPops \in Nat /\ local \in Seq(Items) /\ 0 \in Nat /\ i \in Nat
      /\ InputOK(input, minSize) /\ LocalOK(local, minSize)
  BY StackLimitAssumption, InvParts DEF IInv, TypeOK, LocalSize
<1>3. /\ InputOK(in1, min1) /\ min1 <= minSize
      /\ ItemAt(i, in1) \in Items /\ Len(input) <= Len(in1)
      /\ ~InLocal(i) => InputIdx(i) \in 1..Len(in1)
  BY <1>2, GetFacts
<1>4. min1 \in Int /\ LocalOK(local, min1)
  BY <1>2, <1>3, Weaken DEF InputOK
<1>5. /\ InputOK(in2, min2) /\ min2 <= min1
      /\ tos \in Items /\ Len(in1) <= Len(in2)
      /\ ~InLocal(0) => InputIdx(0) \in 1..Len(in2)
      /\ \A j \in 1..Len(in1) : in1[j] # None => in2[j] = in1[j]
  BY <1>2, <1>3, <1>4, GetFacts
<1>6. min2 \in Int /\ in2 \in Seq(Items \cup {None}) /\ Len(in2) \in Nat
      /\ Len(in1) \in Nat /\ Len(input) \in Nat
  BY <1>2, <1>3, <1>5 DEF InputOK
<1>7. \A it \in Items : it # None
  BY DEF Items, Slots, Values, None
<1>8. IF InLocal(i) THEN val = ItemAt(i, in1)
      ELSE val = in2[InputIdx(i)] /\ ItemAt(i, in1) = in1[InputIdx(i)]
  BY DEF ItemAt
<1> HIDE DEF in1, in2, min1, min2, val, tos
<1>9. val = ItemAt(i, in1) /\ val \in Items
  BY <1>3, <1>5, <1>7, <1>8
<1>10. ~InLocal(i) => InputIdx(i) \in 1..Len(in2)
  BY <1>3, <1>5, <1>6
<1>11. ~PrepareOk => ~PrepareOk'
  BY <1>1, <1>2, <1>3, <1>4, <1>5, <1>6 DEF PrepareOk
<1>12. ASSUME PrepareOk
       PROVE  /\ size + min1 >= 0 <=> i < Top
              /\ \A p \in 1..Top : FlushOf(local, in1, globalPops, p) =
                                     FlushOf(local, input, globalPops, p)
              /\ i < Top => Eval(ItemAt(i, in1)) =
                               FlushOf(local, in1, globalPops, Top - i)
  BY <1>2, <1>12, WorkFacts, GetReads DEF in1, min1
<1>13. ASSUME PrepareOk, i < Top
       PROVE  /\ size + min2 >= 0
              /\ \A p \in 1..Top : FlushOf(local, in2, globalPops, p) =
                                     FlushOf(local, in1, globalPops, p)
              /\ Eval(tos) = FlushOf(local, in2, globalPops, Top)
  <2>1. globalPops <= Len(in1) /\ min1 <= 0 /\ size + min1 >= 0
    BY <1>2, <1>3, <1>4, <1>6, <1>12, <1>13, WorkFacts
  <2>2. 0 < Top /\ Top - 0 = Top
    BY <1>2, <1>13 DEF Top
  <2>3. QED
    BY <1>2, <1>3, <2>1, <2>2, GetReads DEF in2, min2, tos
<1>14. PrepareOk => (PrepareOk' <=> can)
  <2>1. SUFFICES ASSUME PrepareOk PROVE PrepareOk' <=> can
    OBVIOUS
  <2>2. can <=> i < Top
    BY <2>1, WorkFacts
  <2>3. PrepareOk' <=> size + min2 >= 0
    BY <1>1, <2>1 DEF PrepareOk
  <2>4. size + min2 >= 0 => size + min1 >= 0
    BY <1>2, <1>4, <1>5, <1>6
  <2>5. QED
    BY <1>12, <1>13, <2>1, <2>2, <2>3, <2>4
<1>15. ASSUME PrepareOk, can PROVE WorkNow' = result
  <2>1. PrepareOk'
    BY <1>14, <1>15
  <2>2. Top \in Nat /\ Len(WorkNow) = Top /\ i < Top
        /\ WorkNow = [p \in 1..Top |-> FlushOf(local, input, globalPops, p)]
    BY <1>15, WorkFacts
  <2>3. /\ in3 \in Seq(Items \cup {None}) /\ lo3 \in Seq(Items)
        /\ Len(in3) = Len(in2) /\ Len(lo3) = Len(local)
    <3>1. CASE InLocal(i)
      BY <1>2, <1>5, <1>6, <3>1 DEF SetInput, SetLocal, InLocal
    <3>2. CASE ~InLocal(i)
      BY <1>2, <1>5, <1>6, <1>10, <3>2 DEF SetInput, SetLocal
    <3>3. QED
      BY <3>1, <3>2
  <2> DEFINE f(p) == FlushOf(local', input', globalPops, p)
  <2> DEFINE g(p) == FlushOf(local, input, globalPops, p)
  <2>4. \A p \in 1..Top : FlushOf(local, in2, globalPops, p) = g(p)
    BY <1>12, <1>13, <1>15, <2>2
  <2>5. \A p \in 1..Top : FlushOf(lo3, in3, globalPops, p) =
           IF p = Top - i THEN Eval(tos) ELSE FlushOf(local, in2, globalPops, p)
    BY <1>2, <1>5, <1>6, <1>10, <2>2, SetReads
  <2>6. \A p \in 1..Top : f(p) =
           IF p = Top - 0 THEN Eval(val) ELSE FlushOf(lo3, in3, globalPops, p)
    <3>1. ~InLocal(0) => InputIdx(0) \in 1..Len(in3)
      BY <1>5, <2>3
    <3>2. 0 < Top
      BY <2>2
    <3> HIDE DEF in3, lo3
    <3>3. QED
      BY <1>1, <1>2, <1>9, <2>3, <3>1, <3>2, SetReads
  <2>7. Top \in 1..Top /\ Top - i \in 1..Top /\ Top - i # Top /\ Top - 0 = Top
    BY <2>2
  <2>8. Eval(tos) = g(Top)
    BY <1>13, <1>15, <2>2, <2>4, <2>7
  <2>9. Eval(val) = g(Top - i)
    BY <1>9, <1>12, <1>15, <2>2, <2>7
  <2>10. \A p \in 1..Top : f(p) = CASE p = Top - i -> g(Top)
                                    [] p = Top     -> g(Top - i)
                                    [] OTHER       -> g(p)
    BY <2>4, <2>5, <2>6, <2>7, <2>8, <2>9
  <2>11. LocalSize' = LocalSize
    <3>1. Len(local') = Len(local)
      <4> HIDE DEF lo3
      <4>1. CASE InLocal(0)
        BY <1>1, <2>3, <4>1 DEF SetLocal
      <4>2. CASE ~InLocal(0)
        BY <1>1, <2>3, <4>2 DEF SetLocal
      <4>3. QED
        BY <4>1, <4>2
    <3>2. QED
      BY <1>1, <3>1 DEF LocalSize
  <2>12. WorkNow' = [p \in 1..Top |-> f(p)]
    BY <1>1, <2>1, <2>11, WorkNext DEF Top
  <2>13. WorkNow = [p \in 1..Top |-> g(p)]
    BY <2>2
  <2> HIDE DEF f, g
  <2>14. result = [p \in 1..Top |-> CASE p = Top - i -> g(Top)
                                      [] p = Top     -> g(Top - i)
                                      [] OTHER       -> g(p)]
    BY <2>2, <2>7, <2>13 DEF Evm!Swapped, Evm!Nth
  <2>15. QED
    BY <2>10, <2>12, <2>14
<1>16. can \in BOOLEAN
  OBVIOUS
<1> HIDE DEF can, result
<1>17. IF PrepareOk THEN Evm!Call(can, result) ELSE UNCHANGED Evm!vars
  BY <1>1, <1>11, <1>14, <1>15, <1>16, CallSim
<1>18. QED
  BY <1>17 DEF Evm!Swap, can, result

LEMMA RunSim ==
    ASSUME IInv, IInv', RunBlock \/ AbortBlock
    PROVE  Evm!EndBlock
<1>1. CASE RunBlock
  <2>1. /\ status = "running" /\ PrepareOk /\ status' = status
        /\ size' = Top /\ mem' = [p \in 1..StackLimit |-> Flushed(p)]
        /\ local' = <<>> /\ input' = <<>> /\ globalPops' = 0
        /\ minSize' = 0 /\ maxSize' = 0
    BY <1>1 DEF RunBlock, FreshLocalStack, Top
  <2>2. Top \in 0..StackLimit /\ StackLimit \in Nat
    BY <2>1, WorkFacts, StackLimitAssumption
  <2>3. \A p \in 1..Top : p \in 1..StackLimit
    BY <2>2
  <2>4. WorkNow = [p \in 1..Top |-> Flushed(p)]
    BY <2>1 DEF WorkNow, Top
  <2>5. StackNow' = [p \in 1..Top |-> mem'[p]]
    BY <2>1 DEF StackNow
  <2>6. StackNow' = WorkNow
    BY <2>1, <2>3, <2>4, <2>5
  <2>7. PrepareOk' /\ LocalSize' = 0
    BY <2>1, <2>2 DEF PrepareOk, LocalSize
  <2>8. \A p : Flushed(p)' = mem'[p] \/ ~(p \in 1..size')
    <3>1. ASSUME NEW p \in 1..size' PROVE ~Stored(p)'
      <4>1. p \in Int /\ p <= Top
        BY <2>1, <2>2
      <4>2. Depth(p)' = Top + 1 - p /\ Len(input') = 0
        BY <2>1 DEF Depth
      <4>3. ~(Depth(p)' <= Len(input'))
        BY <2>2, <4>1, <4>2
      <4>4. QED
        BY <4>3 DEF Stored
    <3>2. QED
      BY <3>1 DEF Flushed
  <2>9. WorkNow' = StackNow'
    <3>1. size' + LocalSize' = size'
      BY <2>1, <2>2, <2>7
    <3>2. WorkNow' = [p \in 1..size' |-> Flushed(p)']
      BY <2>7, <3>1 DEF WorkNow
    <3>3. QED
      BY <2>8, <3>2 DEF StackNow
  <2>10. PrepareOk' = PrepareOk
    <3>1. PrepareOk \in BOOLEAN /\ PrepareOk' \in BOOLEAN
      BY DEF PrepareOk
    <3>2. QED
      BY <2>1, <2>7, <3>1
  <2>11. QED
    BY <2>1, <2>6, <2>9, <2>10 DEF Evm!EndBlock
<1>2. CASE AbortBlock
  <2>1. /\ status = "running" /\ ~PrepareOk /\ status' = "aborted"
        /\ UNCHANGED <<mem, size>> /\ UNCHANGED blockVars
    BY <1>2 DEF AbortBlock
  <2>2. StackNow' = StackNow /\ WorkNow = <<>>
    BY <2>1 DEF StackNow, WorkNow
  <2>3. PrepareOk' <=> PrepareOk
    BY <2>1 DEF PrepareOk, blockVars
  <2>4. WorkNow' = <<>>
    BY <2>1, <2>3 DEF WorkNow
  <2>5. PrepareOk' = PrepareOk
    <3>1. PrepareOk \in BOOLEAN /\ PrepareOk' \in BOOLEAN
      BY DEF PrepareOk
    <3>2. QED
      BY <2>3, <3>1
  <2>6. QED
    BY <2>1, <2>2, <2>4, <2>5 DEF Evm!EndBlock
<1>3. QED
  BY <1>1, <1>2

LEMMA InitSim == Init => Evm!Init
<1> SUFFICES ASSUME Init PROVE Evm!Init
  OBVIOUS
<1>1. /\ size = 0 /\ LocalSize = 0 /\ minSize = 0 /\ maxSize = 0
      /\ status = "running"
  BY DEF Init, LocalSize
<1>2. PrepareOk
  BY <1>1, StackLimitAssumption DEF PrepareOk
<1>3. \A f : [p \in 1..0 |-> f[p]] = <<>>
  OBVIOUS
<1>4. StackNow = <<>>
  BY <1>1, <1>3 DEF StackNow
<1>5. WorkNow = <<>>
  <2>1. 1..(size + LocalSize) = {}
    BY <1>1
  <2>2. WorkNow = [p \in {} |-> Flushed(p)]
    BY <1>2, <2>1 DEF WorkNow
  <2>3. QED
    BY <2>2
<1>6. PrepareOk = TRUE
  <2>1. PrepareOk \in BOOLEAN
    BY DEF PrepareOk
  <2>2. QED
    BY <1>2, <2>1
<1>7. QED
  BY <1>1, <1>4, <1>5, <1>6 DEF Evm!Init

LEMMA StepSim ==
    IInv /\ IInv' /\ [Next]_vars => [Evm!Next]_(Evm!vars)
<1> SUFFICES ASSUME IInv, IInv', [Next]_vars
             PROVE  Evm!Next \/ UNCHANGED Evm!vars
  OBVIOUS
<1> USE ReachAssumption
<1>1. ASSUME NEW w \in Word, Push(w) PROVE Evm!Next \/ UNCHANGED Evm!vars
  BY <1>1, PushSim DEF Evm!Next
<1>2. CASE Pop
  BY <1>2, PopSim DEF Evm!Next
<1>3. ASSUME NEW i \in 0..Reach-1, Dup(i) PROVE Evm!Next \/ UNCHANGED Evm!vars
  <2>1. i \in Nat
    OBVIOUS
  <2>2. QED
    BY <1>3, <2>1, DupSim DEF Evm!Next
<1>4. ASSUME NEW i \in 1..Reach, Swap(i) PROVE Evm!Next \/ UNCHANGED Evm!vars
  <2>1. i \in Nat \ {0}
    OBVIOUS
  <2>2. QED
    BY <1>4, <2>1, SwapSim DEF Evm!Next
<1>5. CASE RunBlock \/ AbortBlock
  BY <1>5, RunSim DEF Evm!Next
<1>6. CASE UNCHANGED vars
  <2>1. StackNow' = StackNow /\ PrepareOk' = PrepareOk /\ status' = status
    BY <1>6 DEF vars, StackNow, PrepareOk
  <2>2. WorkNow' = WorkNow
    BY <1>6 DEF vars, WorkNow, PrepareOk, LocalSize, Flushed, Stored,
                StoredItem, Stays, Depth, Eval
  <2>3. QED
    BY <2>1, <2>2 DEF Evm!vars
<1>7. QED
  BY <1>1, <1>2, <1>3, <1>4, <1>5, <1>6 DEF Next

(* For every stack limit and every block, the stack that evmjit compiles   *)
(* is the stack of the EVM, and stack.prepare aborts a block exactly when  *)
(* some call of it under- or overflows.                                    *)
THEOREM Refinement == Spec => ImplementsEvmStack
<1>1. Init => Evm!Init
  BY InitSim
<1>2. IInv /\ IInv' /\ [Next]_vars => [Evm!Next]_(Evm!vars)
  BY StepSim
<1>3. QED
  BY <1>1, <1>2, InvHolds, PTL DEF Spec, Evm!Spec, ImplementsEvmStack

(* The theorem that the runs check as OperationsAgree: each call does what *)
(* the instruction of the same name and index does to the EVM's stack.     *)
THEOREM Agreement == Spec => OperationsAgree
<1>1. IInv /\ IInv' /\ [Next]_vars =>
        [PrepareOk =>
           /\ \A w \in Word : Push(w) => Evm!Push(w)
           /\ Pop => Evm!Pop
           /\ \A i \in 0..Reach-1 : Dup(i) => Evm!Dup(i)
           /\ \A i \in 1..Reach : Swap(i) => Evm!Swap(i)]_vars
  <2> SUFFICES ASSUME IInv, IInv', PrepareOk
               PROVE  /\ \A w \in Word : Push(w) => Evm!Push(w)
                      /\ Pop => Evm!Pop
                      /\ \A i \in 0..Reach-1 : Dup(i) => Evm!Dup(i)
                      /\ \A i \in 1..Reach : Swap(i) => Evm!Swap(i)
    OBVIOUS
  <2> USE ReachAssumption
  <2>1. ASSUME NEW w \in Word, Push(w) PROVE Evm!Push(w)
    BY <2>1, PushSim
  <2>2. ASSUME Pop PROVE Evm!Pop
    BY <2>2, PopSim
  <2>3. ASSUME NEW i \in 0..Reach-1, Dup(i) PROVE Evm!Dup(i)
    <3>1. i \in Nat
      OBVIOUS
    <3>2. QED
      BY <2>3, <3>1, DupSim
  <2>4. ASSUME NEW i \in 1..Reach, Swap(i) PROVE Evm!Swap(i)
    <3>1. i \in Nat \ {0}
      OBVIOUS
    <3>2. QED
      BY <2>4, <3>1, SwapSim
  <2>5. QED
    BY <2>1, <2>2, <2>3, <2>4
<1>2. QED
  BY <1>1, InvHolds, PTL DEF Spec, OperationsAgree
=============================================================================
