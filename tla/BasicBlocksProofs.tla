------------------------- MODULE BasicBlocksProofs -------------------------
(***************************************************************************)
(* Theorems about the compiled control flow, for every instruction set of  *)
(* the kind that Bytecode assumes and all codes of any length.             *)
(***************************************************************************)
EXTENDS BasicBlocks, WellFoundedInduction, TLAPS

(* Behind the instruction at i, and where the EVM finds instructions: the  *)
(* least set that has 0 and what is behind its members.                    *)
Over(c, i) == i + 1 + DataLength(At(c, i))

Closed(c, C) ==
    0 \in C /\ \A j \in C : Over(c, j) < Len(c) => Over(c, j) \in C

StartsOf(c) ==
    {i \in 0..Len(c) - 1 :
        \A C \in SUBSET (0..Len(c) - 1) : Closed(c, C) => i \in C}

(* Where the instructions of the code are, and where one may end.          *)
Starts == StartsOf(code)
Ends == Starts \cup {Len(code)}

(* The instructions of a block; whether none before i ends its flow.       *)
In(b) == {i \in Starts : blocks[b].first <= i /\ i < blocks[b].end}
Clean(b, i) == \A j \in In(b) : j < i => ~EndsFlow(At(code, j))

LeavesBlock(i) == At(code, i) \in {JUMP, JUMPI, STOP}

(* Types that TypeOK leaves open.                                          *)
Terms == {NoTerm, Exit("stopped"), Exit("aborted")}
         \cup [kind : {"jump", "branch"}, dest : Nat \cup {Any}, to : Int]

Shapes ==
    /\ code \in Codes
    /\ blocks \in Seq([first : Nat, end : Nat])
    /\ terms \in Seq(Terms)

(* A block begins and ends at instructions, is entered at its start only   *)
(* and left at its end only.                                               *)
Blocks ==
    \A b \in 1..Len(blocks) :
        /\ blocks[b].first \in Starts /\ blocks[b].end \in Ends
        /\ blocks[b].first < blocks[b].end /\ blocks[b].end <= curr
        /\ \A i \in In(b) :
             /\ At(code, i) = JUMPDEST => i = blocks[b].first
             /\ LeavesBlock(i) => skipPushDataAndGetNext(i) = blocks[b].end

(* Control may run over the end of a block, and finds the next one there.  *)
Falls(b) ==
    \A i \in In(b) :
        skipPushDataAndGetNext(i) = blocks[b].end => ~DeadBehind(At(code, i))

Contiguous ==
    /\ blocks # <<>> => blocks[1].first = 0
    /\ \A b \in 1..Len(blocks) :
         Falls(b) => IF b < Len(blocks)
                     THEN blocks[b + 1].first = blocks[b].end
                     ELSE ~isDead /\ begin = blocks[b].end

(* The loop of createBasicBlocks(): the block under way has the form of a  *)
(* block, and no JUMPDEST was passed that did not begin one.               *)
Splitting ==
    /\ curr \in Ends
    /\ phase # "split" => curr = Len(code)
    /\ blocks = <<>> => ~isDead /\ begin = 0
    /\ ~isDead => begin \in Ends
    /\ ~isDead /\ begin < curr =>
         /\ curr < Len(code) /\ At(code, curr) # JUMPDEST
         /\ \A i \in Starts :
              begin <= i /\ i < curr =>
                  ~LeavesBlock(i) /\ (At(code, i) = JUMPDEST => i = begin)
    /\ \A i \in Starts :
         i < curr /\ At(code, i) = JUMPDEST =>
             \/ \E b \in 1..Len(blocks) : blocks[b].first = i
             \/ ~isDead /\ i = begin

(* The jump table leads to the blocks of JUMPDESTs, and to all of them     *)
(* that are compiled.                                                      *)
Compiled(b) ==
    \/ phase \in {"resolve", "run"}
    \/ phase = "compile" /\ (b < k \/ (b = k /\ it > blocks[b].first))

Table ==
    /\ \A d \in DOMAIN jumpTable :
         /\ d \in Starts /\ At(code, d) = JUMPDEST
         /\ jumpTable[d] \in 1..Len(blocks)
         /\ blocks[jumpTable[d]].first = d
    /\ \A b \in 1..Len(blocks) :
         Compiled(b) /\ At(code, blocks[b].first) = JUMPDEST =>
             blocks[b].first \in DOMAIN jumpTable

(* d was pushed in block b, by the instruction in front of i.              *)
Constant(b, i, d) ==
    \E j \in In(b) : /\ skipPushDataAndGetNext(j) = i
                     /\ IsPush(At(code, j)) /\ d = PushValue(code, j)

(* A terminator does what an instruction at i of block b does.             *)
Fits(term, b, i) ==
    /\ term.kind = CASE At(code, i) = JUMP -> "jump"
                     [] At(code, i) = JUMPI -> "branch"
                     [] At(code, i) = STOP -> "stopped"
                     [] OTHER -> "aborted"
    /\ term.kind \in {"jump", "branch"} =>
         term.dest = Any \/ Constant(b, i, term.dest)

(* The terminator of a block is that of the first instruction that ends    *)
(* the flow, if there is one.                                              *)
TermRight(b) ==
    /\ Clean(b, blocks[b].end) => terms[b].kind = "none"
    /\ \A i \in In(b) :
         EndsFlow(At(code, i)) /\ Clean(b, i) => Fits(terms[b], b, i)

Terminated ==
    \A b \in 1..Len(blocks) :
        /\ phase \in {"resolve", "run"} => TermRight(b)
        /\ phase = "compile" /\ b < k => TermRight(b)
        /\ phase = "split" => terms[b] = NoTerm
        /\ phase = "compile" /\ b > k => terms[b] = NoTerm
        /\ terms[b].kind \in {"jump", "branch"} =>
             terms[b].to = IF /\ phase = "run" \/ (phase = "resolve" /\ b < k)
                              /\ terms[b].dest # Any
                           THEN CaseOf(terms[b].dest) ELSE TableBlock

(* The compiler and the compiled code are at an instruction of their block *)
(* or at its end.                                                          *)
AtInstruction ==
    it \in Ends /\ blocks[k].first <= it /\ it <= blocks[k].end

Compilation ==
    phase = "compile" /\ k # StopBlock =>
        /\ AtInstruction
        /\ \/ /\ Clean(k, it) /\ terms[k] = NoTerm
              /\ top = Any \/ Constant(k, it, top)
           \/ it = blocks[k].end /\ TermRight(k)

(* What the block has just pushed is on top of the stack.                  *)
Run ==
    phase = "run" =>
        IF k = StopBlock THEN it = Len(code)
        ELSE /\ AtInstruction
             /\ Clean(k, it)
             /\ \A j \in In(k) :
                  skipPushDataAndGetNext(j) = it /\ IsPush(At(code, j)) =>
                      top = PushValue(code, j)

(* A jump has just led to a JUMPDEST, or has failed.                       *)
Landed ==
    /\ phase # "run" => status = "running"
    /\ target # Any =>
         /\ phase = "run"
         /\ \/ status = "aborted"
            \/ k # StopBlock /\ it < blocks[k].end /\ Inst = JUMPDEST

IInv ==
    /\ TypeOK
    /\ Shapes
    /\ Blocks
    /\ Contiguous
    /\ Splitting
    /\ Table
    /\ Terminated
    /\ Compilation
    /\ Run
    /\ Landed

-----------------------------------------------------------------------------
(* Induction over the natural numbers, for sets.                           *)

LEMMA MinimalElement ==
    \A R, S, T : IsWellFoundedOn(R, S) /\ T \subseteq S /\ T # {} =>
        \E x \in T : \A y \in T : ~(<<y, x>> \in R)
  BY WFMin

LEMMA LessThanIsWellFounded ==
    \E R : /\ IsWellFoundedOn(R, Nat)
           /\ \A x, y \in Nat : x < y => <<x, y>> \in R
  <1>1. \A x, y \in Nat : x < y => <<x, y>> \in OpToRel(<, Nat)
    BY DEF OpToRel
  <1> QED
    BY <1>1, NatLessThanWellFounded

LEMMA LeastNumber ==
    ASSUME NEW T, T \subseteq Nat, T # {}
    PROVE  \E x \in T : \A y \in T : x <= y
  <1>1. PICK R : /\ IsWellFoundedOn(R, Nat)
                 /\ \A x, y \in Nat : x < y => <<x, y>> \in R
    BY LessThanIsWellFounded
  <1>2. \E x \in T : \A y \in T : ~(<<y, x>> \in R)
    <2>1. IsWellFoundedOn(R, Nat) /\ T \subseteq Nat /\ T # {}
      BY <1>1
    <2> QED
      BY <2>1, MinimalElement, Zenon
  <1>3. PICK x \in T : \A y \in T : ~(<<y, x>> \in R)
    BY <1>2
  <1>4. \A y \in T : ~(y < x)
    BY <1>1, <1>3
  <1> QED
    BY <1>4

LEMMA SetInduction ==
    ASSUME NEW S, 0 \in S, \A n \in Nat : n \in S => n + 1 \in S
    PROVE  Nat \subseteq S
  <1> SUFFICES ASSUME Nat \ S # {} PROVE FALSE
    OBVIOUS
  <1>1. PICK x \in Nat \ S : \A y \in Nat \ S : x <= y
    BY LeastNumber
  <1>2. x - 1 \in Nat
    BY <1>1
  <1>3. x - 1 \in S
    BY <1>1, <1>2
  <1>4. (x - 1) + 1 = x
    BY <1>1
  <1> QED
    BY <1>1, <1>2, <1>3, <1>4

-----------------------------------------------------------------------------
(* Where instructions start.                                               *)

LEMMA DataLengthIsNatural == \A b : DataLength(b) \in Nat
  BY BytecodeAssumption DEF DataLength, IsPush

LEMMA OverFacts ==
    \A c : \A i \in Nat : Over(c, i) \in Nat /\ i < Over(c, i)
  <1> SUFFICES ASSUME NEW c, NEW i \in Nat
               PROVE  Over(c, i) \in Nat /\ i < Over(c, i)
    OBVIOUS
  <1>1. DataLength(At(c, i)) \in Nat
    BY DataLengthIsNatural
  <1> QED
    BY <1>1 DEF Over

LEMMA CodeFacts ==
    ASSUME NEW c \in Codes
    PROVE  c \in Seq(0..ByteMod - 1) /\ Len(c) \in Nat
  BY BytecodeAssumption

(* An instruction starts at 0, and behind instructions.                    *)
LEMMA StartsEquation ==
    ASSUME NEW c \in Codes, NEW i \in 0..Len(c) - 1
    PROVE  i \in StartsOf(c) <=> i = 0 \/ \E j \in StartsOf(c) : Over(c, j) = i
  <1> DEFINE L == Len(c)
             S == StartsOf(c)
  <1>1. L \in Nat /\ 0 \in 0..L - 1
    BY CodeFacts
  <1> HIDE DEF L
  <1>2. 0 \in S
    BY <1>1 DEF StartsOf, Closed, L
  <1>3. ASSUME NEW j \in S, Over(c, j) < L
        PROVE  Over(c, j) \in S
    <2>1. j \in Nat /\ j \in 0..L - 1
      BY <1>1, <1>3 DEF StartsOf, L
    <2>2. Over(c, j) \in 0..L - 1
      BY <1>1, <1>3, <2>1, OverFacts
    <2> QED
      BY <1>3, <2>2 DEF StartsOf, Closed, L
  <1>4. ASSUME i \in S, i # 0, \A j \in S : Over(c, j) # i
        PROVE  FALSE
    <2> DEFINE C == S \ {i}
    <2>1. C \in SUBSET (0..L - 1)
      BY DEF StartsOf, L
    <2>2. Closed(c, C)
      BY <1>2, <1>3, <1>4 DEF Closed, L
    <2> QED
      BY <1>4, <2>1, <2>2 DEF StartsOf, L
  <1> QED
    BY <1>2, <1>3, <1>4 DEF L

(* No instruction starts inside of another.                                *)
LEMMA NothingBetween ==
    ASSUME NEW c \in Codes, NEW i \in StartsOf(c), NEW j \in StartsOf(c), i < j
    PROVE  Over(c, i) <= j
  <1> DEFINE L == Len(c)
             S == StartsOf(c)
             Bad == {m \in S : \E n \in S : n < m /\ m < Over(c, n)}
  <1>1. L \in Nat /\ S \subseteq 0..L - 1 /\ S \subseteq Nat
    BY CodeFacts DEF StartsOf
  <1>2. Bad = {}
    <2> SUFFICES ASSUME Bad # {} PROVE FALSE
      OBVIOUS
    <2>1. PICK m \in Bad : \A y \in Bad : m <= y
      BY <1>1, LeastNumber
    <2>2. PICK n \in S : n < m /\ m < Over(c, n)
      BY <2>1
    <2>3. m \in S /\ m \in 0..L - 1 /\ m # 0
      BY <1>1, <2>1, <2>2
    <2>4. PICK p \in S : Over(c, p) = m
      BY <2>3, StartsEquation
    <2>5. p < m
      BY <1>1, <2>4, OverFacts
    <2>6. CASE p < n
      <3>1. n \in Bad
        BY <2>2, <2>4, <2>6
      <3> QED
        BY <1>1, <2>1, <2>2, <3>1
    <2>7. CASE p = n
      BY <1>1, <2>2, <2>3, <2>4, <2>7
    <2>8. CASE n < p
      <3>1. p \in Bad
        BY <1>1, <2>2, <2>3, <2>5, <2>8, OverFacts
      <3> QED
        BY <1>1, <2>1, <2>5, <3>1
    <2> QED
      BY <1>1, <2>6, <2>7, <2>8
  <1>3. i \in Nat /\ j \in Nat /\ Over(c, i) \in Nat
    BY <1>1, OverFacts
  <1> QED
    BY <1>2, <1>3

-----------------------------------------------------------------------------
(* Positions in the code.                                                  *)

LEMMA PositionFacts ==
    ASSUME code \in Codes
    PROVE  /\ Len(code) \in Nat
           /\ Starts \subseteq Nat /\ Ends \subseteq Nat
           /\ \A i \in Starts : i < Len(code)
           /\ \A i \in Ends : i <= Len(code) /\ (i < Len(code) => i \in Starts)
           /\ Starts \subseteq Ends /\ Len(code) \in Ends
           /\ 0 \in Ends
  <1>1. Len(code) \in Nat
    BY CodeFacts
  <1>2. Starts \subseteq 0..Len(code) - 1
    BY DEF Starts, StartsOf
  <1>3. 0 \in Ends
    <2>1. CASE Len(code) = 0
      BY <2>1 DEF Ends
    <2>2. CASE Len(code) # 0
      BY <1>1, <2>2, StartsEquation DEF Starts, Ends
    <2> QED
      BY <2>1, <2>2
  <1>4. \A i \in Starts : i \in Nat /\ i < Len(code)
    BY <1>1, <1>2
  <1>5. \A i \in Ends : i \in Nat /\ i <= Len(code)
                       /\ (i < Len(code) => i \in Starts)
    BY <1>1, <1>4 DEF Ends
  <1>6. Starts \subseteq Ends /\ Len(code) \in Ends
    BY DEF Ends
  <1> QED
    BY <1>1, <1>3, <1>4, <1>5, <1>6

(* Behind an instruction is the next one, or the end of the code.          *)
LEMMA SkipFacts ==
    ASSUME code \in Codes, NEW i \in Starts
    PROVE  /\ skipPushDataAndGetNext(i) \in Ends
           /\ i < skipPushDataAndGetNext(i)
           /\ \A j \in Ends : i < j => skipPushDataAndGetNext(i) <= j
           /\ \A j \in Starts :
                skipPushDataAndGetNext(j) = skipPushDataAndGetNext(i) => j = i
           /\ skipPushDataAndGetNext(i) = IF Over(code, i) < Len(code)
                                          THEN Over(code, i) ELSE Len(code)
           /\ ~IsPush(At(code, i)) => skipPushDataAndGetNext(i) = i + 1
  <1> DEFINE L == Len(code)
             next(j) == IF Over(code, j) < L THEN Over(code, j) ELSE L
  <1>1. /\ L \in Nat
        /\ Starts \subseteq Nat /\ Ends \subseteq Nat
        /\ \A j \in Starts : j < L
        /\ \A j \in Ends : j <= L /\ (j < L => j \in Starts)
        /\ L \in Ends
    BY PositionFacts
  <1>2. ASSUME NEW j \in Starts
        PROVE  /\ skipPushDataAndGetNext(j) = next(j)
               /\ Over(code, j) \in Nat /\ j < Over(code, j)
    <2>1. DataLength(At(code, j)) \in Nat
      BY DataLengthIsNatural
    <2>2. j \in Nat /\ j < L
      BY <1>1
    <2> QED
      BY <1>1, <2>1, <2>2 DEF skipPushDataAndGetNext, Over
  <1> HIDE DEF L
  <1>3. ASSUME NEW j \in Starts
        PROVE  /\ next(j) \in Nat /\ j < next(j)
               /\ next(j) \in Ends
               /\ \A m \in Starts : j < m => next(j) <= m
    <2>1. next(j) \in Nat /\ j < next(j)
      BY <1>1, <1>2
    <2>2. next(j) \in Ends
      <3>1. CASE Over(code, j) < L
        <4>1. Over(code, j) \in 0..Len(code) - 1
          BY <1>1, <1>2, <3>1 DEF L
        <4>2. Over(code, j) \in Starts
          BY <4>1, StartsEquation DEF Starts
        <4> QED
          BY <3>1, <4>2 DEF Ends
      <3>2. CASE ~(Over(code, j) < L)
        BY <1>1, <3>2
      <3> QED
        BY <3>1, <3>2
    <2>3. ASSUME NEW m \in Starts, j < m
          PROVE  next(j) <= m
      <3>1. Over(code, j) <= m
        BY <2>3, NothingBetween DEF Starts
      <3>2. m \in Nat /\ m < L
        BY <1>1
      <3> QED
        BY <1>1, <1>2, <3>1, <3>2
    <2> QED
      BY <2>1, <2>2, <2>3
  <1> HIDE DEF next
  <1>4. \A j \in Ends : i < j => next(i) <= j
    <2> SUFFICES ASSUME NEW j \in Ends, i < j PROVE next(i) <= j
      OBVIOUS
    <2>1. CASE j < L
      BY <1>1, <1>3, <2>1
    <2>2. CASE j = L
      BY <1>1, <1>3, <2>2
    <2> QED
      BY <1>1, <2>1, <2>2
  <1>5. \A j \in Starts : next(j) = next(i) => j = i
    <2> SUFFICES ASSUME NEW j \in Starts, next(j) = next(i), j # i
                 PROVE  FALSE
      OBVIOUS
    <2>1. j \in Nat /\ i \in Nat
      BY <1>1
    <2>2. CASE i < j
      BY <1>3, <2>1, <2>2
    <2>3. CASE j < i
      BY <1>3, <2>1, <2>3
    <2> QED
      BY <2>1, <2>2, <2>3
  <1>6. ~IsPush(At(code, i)) => next(i) = i + 1
    <2> SUFFICES ASSUME ~IsPush(At(code, i)) PROVE next(i) = i + 1
      OBVIOUS
    <2>1. i \in Nat /\ i < L
      BY <1>1
    <2>2. Over(code, i) = i + 1
      BY <2>1 DEF Over, DataLength
    <2> QED
      BY <1>1, <2>1, <2>2 DEF next
  <1> QED
    BY <1>2, <1>3, <1>4, <1>5, <1>6 DEF next, L

(* What the next step sees of the same code.                               *)
LEMMA SameCode ==
    ASSUME UNCHANGED code
    PROVE  /\ Starts' = Starts /\ Ends' = Ends
           /\ \A i : skipPushDataAndGetNext(i)' = skipPushDataAndGetNext(i)
  BY DEF Starts, Ends, skipPushDataAndGetNext

-----------------------------------------------------------------------------
(* The constant of a PUSH is a number: the recursive function that         *)
(* computes it exists.                                                     *)

LEMMA ProductIsNatural == \A a, b \in Nat : a * b \in Nat
  OBVIOUS

UpTo(f, n, d) ==
    /\ f \in [0..n -> Nat]
    /\ f[0] = 0
    /\ \A m \in 1..n : f[m] = f[m - 1] * ByteMod + d[m]

LEMMA SumsUpTo ==
    ASSUME NEW d \in [Nat -> Nat]
    PROVE  \A n \in Nat : \E f : UpTo(f, n, d)
  <1> DEFINE S == {n \in Nat : \E f : UpTo(f, n, d)}
  <1>1. 0 \in S
    <2>1. UpTo([m \in 0..0 |-> 0], 0, d)
      BY DEF UpTo
    <2> QED
      BY <2>1
  <1>2. ASSUME NEW n \in Nat, n \in S
        PROVE  n + 1 \in S
    <2>1. PICK f : UpTo(f, n, d)
      BY <1>2
    <2> DEFINE x == f[n] * ByteMod + d[n + 1]
               g == [m \in 0..n + 1 |-> IF m = n + 1 THEN x ELSE f[m]]
    <2>2. x \in Nat
      <3>1. f[n] \in Nat /\ d[n + 1] \in Nat
        BY <2>1 DEF UpTo
      <3>2. f[n] * ByteMod \in Nat
        BY <3>1, ProductIsNatural, BytecodeAssumption
      <3> QED
        BY <3>1, <3>2
    <2>3. g[n + 1] = g[n] * ByteMod + d[n + 1]
      OBVIOUS
    <2> HIDE DEF x
    <2>4. g \in [0..n + 1 -> Nat] /\ g[0] = 0
      <3>1. \A m \in 0..n + 1 : m = n + 1 \/ m \in 0..n
        OBVIOUS
      <3>2. \A m \in 0..n : f[m] \in Nat
        BY <2>1 DEF UpTo
      <3>3. \A m \in 0..n + 1 : g[m] \in Nat
        BY <2>2, <3>1, <3>2
      <3>4. g[0] = f[0]
        OBVIOUS
      <3> QED
        BY <2>1, <3>3, <3>4 DEF UpTo
    <2>5. \A m \in 1..n : g[m] = g[m - 1] * ByteMod + d[m]
      BY <2>1 DEF UpTo
    <2> HIDE DEF g
    <2>6. UpTo(g, n + 1, d)
      <3>1. \A m \in 1..n + 1 : m = n + 1 \/ m \in 1..n
        OBVIOUS
      <3>2. (n + 1) - 1 = n
        OBVIOUS
      <3> QED
        BY <2>3, <2>4, <2>5, <3>1, <3>2 DEF UpTo
    <2> QED
      BY <2>6
  <1> HIDE DEF S
  <1>3. Nat \subseteq S
    BY <1>1, <1>2, SetInduction
  <1> QED
    BY <1>3 DEF S

(* Two of them agree as far as both go.                                    *)
LEMMA SumsAgree ==
    ASSUME NEW d \in [Nat -> Nat],
           NEW m \in Nat, NEW n \in Nat, m <= n, NEW f, NEW g,
           UpTo(f, m, d), UpTo(g, n, d)
    PROVE  f[m] = g[m]
  <1> DEFINE S == {i \in Nat : i <= m => f[i] = g[i]}
  <1>1. 0 \in S
    BY DEF UpTo
  <1>2. ASSUME NEW i \in Nat, i \in S
        PROVE  i + 1 \in S
    <2> SUFFICES ASSUME i + 1 <= m PROVE f[i + 1] = g[i + 1]
      OBVIOUS
    <2>1. i + 1 \in 1..m /\ i + 1 \in 1..n /\ (i + 1) - 1 = i
      OBVIOUS
    <2>2. f[i + 1] = f[i] * ByteMod + d[i + 1]
      BY <2>1 DEF UpTo
    <2>3. g[i + 1] = g[i] * ByteMod + d[i + 1]
      BY <2>1 DEF UpTo
    <2>4. f[i] = g[i]
      BY <1>2
    <2> QED
      BY <2>2, <2>3, <2>4
  <1> HIDE DEF S
  <1>3. Nat \subseteq S
    BY <1>1, <1>2, SetInduction
  <1> QED
    BY <1>3 DEF S

LEMMA SumExists ==
    ASSUME NEW d \in [Nat -> Nat]
    PROVE  \E f \in [Nat -> Nat] :
             f = [n \in Nat |-> IF n = 0 THEN 0 ELSE f[n - 1] * ByteMod + d[n]]
  <1> DEFINE part(n) == CHOOSE f : UpTo(f, n, d)
             sum == [n \in Nat |-> part(n)[n]]
  <1>1. ASSUME NEW n \in Nat
        PROVE  UpTo(part(n), n, d)
    BY SumsUpTo
  <1> HIDE DEF part
  <1>2. sum \in [Nat -> Nat]
    BY <1>1 DEF UpTo
  <1>3. ASSUME NEW n \in Nat
        PROVE  sum[n] = IF n = 0 THEN 0 ELSE sum[n - 1] * ByteMod + d[n]
    <2>1. CASE n = 0
      BY <1>1, <2>1 DEF UpTo
    <2>2. CASE n # 0
      <3>1. n - 1 \in Nat /\ n \in 1..n
        BY <2>2
      <3>2. part(n)[n] = part(n)[n - 1] * ByteMod + d[n]
        BY <1>1, <3>1 DEF UpTo
      <3>3. part(n - 1)[n - 1] = part(n)[n - 1]
        BY <1>1, <3>1, SumsAgree
      <3> QED
        BY <2>2, <3>1, <3>2, <3>3
    <2> QED
      BY <2>1, <2>2
  <1> HIDE DEF sum
  <1>4. sum = [n \in Nat |-> IF n = 0 THEN 0 ELSE sum[n - 1] * ByteMod + d[n]]
    BY <1>2, <1>3
  <1> QED
    BY <1>2, <1>4

LEMMA PushValueIsNatural ==
    ASSUME NEW c \in Codes, NEW i \in Nat
    PROVE  PushValue(c, i) \in Nat
  <1> DEFINE data(n) == IF i + n < Len(c) THEN At(c, i + n) ELSE 0
             d == [n \in Nat |-> data(n)]
             F(v) == [n \in Nat |-> IF n = 0 THEN 0
                                    ELSE v[n - 1] * ByteMod + data(n)]
             value == CHOOSE v : v = F(v)
  <1>1. PushValue(c, i) = value[DataLength(At(c, i))]
    BY DEF PushValue
  <1>2. \A n \in Nat : data(n) \in Nat
    BY CodeFacts, BytecodeAssumption DEF At
  <1>3. d \in [Nat -> Nat]
    BY <1>2
  <1>4. \E f \in [Nat -> Nat] : f = F(f)
    <2>1. PICK f \in [Nat -> Nat] :
            f = [n \in Nat |-> IF n = 0 THEN 0 ELSE f[n - 1] * ByteMod + d[n]]
      BY <1>3, SumExists
    <2>2. \A n \in Nat : d[n] = data(n)
      OBVIOUS
    <2> HIDE DEF d, data
    <2>3. f = F(f)
      BY <2>1, <2>2
    <2> QED
      BY <2>3
  <1> HIDE DEF data, d
  <1>5. value = F(value)
    BY <1>4
  <1> HIDE DEF value
  <1> DEFINE S == {n \in Nat : value[n] \in Nat}
  <1>6. 0 \in S
    BY <1>5
  <1>7. ASSUME NEW n \in Nat, n \in S
        PROVE  n + 1 \in S
    <2>1. value[n + 1] = value[n] * ByteMod + data(n + 1)
      BY <1>5
    <2>2. value[n] * ByteMod \in Nat
      BY <1>7, ProductIsNatural, BytecodeAssumption
    <2>3. data(n + 1) \in Nat
      BY <1>2
    <2> QED
      BY <2>1, <2>2, <2>3
  <1> HIDE DEF S
  <1>8. Nat \subseteq S
    BY <1>6, <1>7, SetInduction
  <1> QED
    BY <1>1, <1>8, DataLengthIsNatural DEF S

-----------------------------------------------------------------------------
(* Initially the invariant holds.                                          *)

LEMMA InitIInv == Init => IInv
  <1> SUFFICES ASSUME Init PROVE IInv
    OBVIOUS
  <1> USE DEF Init
  <1>1. /\ Len(code) \in Nat /\ 0 \in Ends
        /\ Starts \subseteq Nat
    BY PositionFacts
  <1>2. TypeOK
    <2>1. Len(blocks) = 0 /\ Len(terms) = 0
      OBVIOUS
    <2>2. k \in 1..StopBlock
      BY <2>1 DEF StopBlock
    <2>3. \A b \in 1..Len(blocks) : blocks[b].first \in 0..blocks[b].end - 1
      BY <2>1
    <2> HIDE DEF Init
    <2>4. /\ phase = "split" /\ curr = 0 /\ begin = 0 /\ isDead = FALSE
          /\ it = 0 /\ top = Any /\ target = Any /\ status = "running"
      BY DEF Init
    <2>5. isDead \in BOOLEAN
      BY <2>4
    <2>6. curr \in 0..Len(code) /\ begin \in 0..curr /\ it \in 0..Len(code)
      BY <1>1, <2>4
    <2>7. Len(terms) = Len(blocks)
      BY <2>1
    <2> QED
      BY <2>2, <2>3, <2>4, <2>5, <2>6, <2>7 DEF TypeOK
  <1>3. Shapes
    BY DEF Shapes
  <1>4. Splitting
    BY <1>1 DEF Splitting
  <1>5. Blocks /\ Contiguous /\ Terminated
    BY DEF Blocks, Contiguous, Terminated
  <1>6. Table
    BY DEF Table
  <1>7. Compilation /\ Run /\ Landed
    BY DEF Compilation, Run, Landed
  <1> QED
    BY <1>2, <1>3, <1>4, <1>5, <1>6, <1>7 DEF IInv

-----------------------------------------------------------------------------
(* Steps that leave the blocks alone.                                      *)

LEMMA SameBlocks ==
    ASSUME UNCHANGED <<code, blocks>>
    PROVE  /\ Starts' = Starts /\ Ends' = Ends /\ StopBlock' = StopBlock
           /\ \A i : skipPushDataAndGetNext(i)' = skipPushDataAndGetNext(i)
           /\ \A b : In(b)' = In(b)
           /\ \A b : Falls(b)' <=> Falls(b)
           /\ \A b, i : Clean(b, i)' <=> Clean(b, i)
           /\ \A b, i, d : Constant(b, i, d)' <=> Constant(b, i, d)
           /\ \A term, b, i : Fits(term, b, i)' <=> Fits(term, b, i)
  <1>1. code' = code /\ blocks' = blocks
    OBVIOUS
  <1>2. /\ Starts' = Starts /\ Ends' = Ends
        /\ \A i : skipPushDataAndGetNext(i)' = skipPushDataAndGetNext(i)
    BY SameCode
  <1>3. \A b : In(b)' = In(b)
    BY <1>1, <1>2 DEF In
  <1>4. \A b, i : Clean(b, i)' <=> Clean(b, i)
    BY <1>1, <1>3 DEF Clean
  <1>5. \A b : Falls(b)' <=> Falls(b)
    BY <1>1, <1>2, <1>3 DEF Falls
  <1>6. \A b, i, d : Constant(b, i, d)' <=> Constant(b, i, d)
    BY <1>1, <1>2, <1>3 DEF Constant
  <1>7. \A term, b, i : Fits(term, b, i)' <=> Fits(term, b, i)
    BY <1>1, <1>6 DEF Fits
  <1> QED
    BY <1>1, <1>2, <1>3, <1>4, <1>5, <1>6, <1>7 DEF StopBlock

LEMMA BlocksStay ==
    ASSUME Blocks, Contiguous, Splitting, curr = Len(code),
           UNCHANGED <<code, splitVars>>
    PROVE  Blocks' /\ Contiguous' /\ Splitting'
  <1>1. /\ code' = code /\ blocks' = blocks /\ curr' = curr
        /\ begin' = begin /\ isDead' = isDead
    BY DEF splitVars
  <1>2. /\ Starts' = Starts /\ Ends' = Ends
        /\ \A i : skipPushDataAndGetNext(i)' = skipPushDataAndGetNext(i)
        /\ \A b : In(b)' = In(b)
        /\ \A b : Falls(b)' <=> Falls(b)
    BY <1>1, SameBlocks
  <1>3. Blocks'
    BY <1>1, <1>2 DEF Blocks, LeavesBlock
  <1>4. Contiguous'
    BY <1>1, <1>2 DEF Contiguous
  <1>5. Splitting'
    BY <1>1, <1>2 DEF Splitting, LeavesBlock
  <1> QED
    BY <1>3, <1>4, <1>5

(* What a block that is compiled or run looks like.                        *)
LEMMA BlockFacts ==
    ASSUME IInv, NEW b \in 1..Len(blocks)
    PROVE  /\ blocks[b].first \in Nat /\ blocks[b].end \in Nat
           /\ blocks[b].first \in Starts /\ blocks[b].end \in Ends
           /\ blocks[b].first < blocks[b].end
           /\ blocks[b].end <= Len(code)
           /\ blocks[b].first \in In(b)
           /\ In(b) \subseteq Starts
           /\ terms[b] \in Terms
           /\ \A i \in Ends :
                blocks[b].first <= i /\ i < blocks[b].end => i \in In(b)
  <1>1. /\ Len(code) \in Nat
        /\ Starts \subseteq Nat /\ Ends \subseteq Nat
        /\ \A i \in Ends : i <= Len(code) /\ (i < Len(code) => i \in Starts)
    BY PositionFacts DEF IInv, Shapes
  <1>2. /\ blocks[b].first \in Starts /\ blocks[b].end \in Ends
        /\ blocks[b].first < blocks[b].end
    BY DEF IInv, Blocks
  <1>3. terms[b] \in Terms
    BY DEF IInv, Shapes, TypeOK
  <1>4. /\ blocks[b].first \in Nat /\ blocks[b].end \in Nat
        /\ blocks[b].end <= Len(code)
    BY <1>1, <1>2
  <1>5. \A i \in Ends :
          blocks[b].first <= i /\ i < blocks[b].end => i \in In(b)
    BY <1>1, <1>4 DEF In
  <1> QED
    BY <1>2, <1>3, <1>4, <1>5 DEF In

-----------------------------------------------------------------------------
(* An iteration of the loop of createBasicBlocks().                        *)

LEMMA SplitFacts ==
    ASSUME IInv, Split
    PROVE  LET next == skipPushDataAndGetNext(curr)
           IN  /\ curr \in Starts /\ curr \in Nat
               /\ next \in Nat /\ next \in Ends
               /\ curr < next /\ next <= Len(code)
               /\ \A i \in Starts : i < next => i < curr \/ i = curr
  <1>1. /\ Len(code) \in Nat
        /\ Starts \subseteq Nat /\ Ends \subseteq Nat
        /\ \A i \in Ends : i <= Len(code) /\ (i < Len(code) => i \in Starts)
    BY PositionFacts DEF IInv, Shapes
  <1>2. curr \in Starts
    BY <1>1 DEF Split, IInv, Splitting
  <1>3. /\ skipPushDataAndGetNext(curr) \in Ends
        /\ curr < skipPushDataAndGetNext(curr)
        /\ \A j \in Ends : curr < j => skipPushDataAndGetNext(curr) <= j
    BY <1>2, SkipFacts DEF IInv, Shapes
  <1> DEFINE next == skipPushDataAndGetNext(curr)
  <1>4. curr \in Nat /\ next \in Nat /\ next <= Len(code)
    BY <1>1, <1>2, <1>3
  <1>5. ASSUME NEW i \in Starts, i < next
        PROVE  i < curr \/ i = curr
    <2>1. i \in Nat /\ i \in Ends
      BY <1>1 DEF Ends
    <2>2. curr < i => next <= i
      BY <1>3, <2>1
    <2> QED
      BY <1>4, <1>5, <2>1, <2>2
  <1> QED
    BY <1>2, <1>3, <1>4, <1>5

(* The block under way with the current instruction.                       *)
LEMMA FirstFacts ==
    ASSUME IInv, Split, ~Skipped
    PROVE  /\ First \in Starts /\ First \in Nat /\ First <= curr
           /\ ~isDead => First = begin
           /\ At(code, curr) = JUMPDEST => First = curr
           /\ \A i \in Starts :
                First <= i /\ i < curr =>
                    ~LeavesBlock(i) /\ (At(code, i) = JUMPDEST => i = First)
  <1>1. curr \in Starts /\ curr \in Nat
    BY SplitFacts
  <1>2. /\ Len(code) \in Nat
        /\ Starts \subseteq Nat /\ Ends \subseteq Nat
        /\ \A i \in Ends : i < Len(code) => i \in Starts
    BY PositionFacts DEF IInv, Shapes
  <1>3. CASE isDead
    <2>1. First = curr
      BY <1>3 DEF First
    <2> QED
      BY <1>1, <1>2, <1>3, <2>1
  <1>4. CASE ~isDead
    <2>1. First = begin
      BY <1>4 DEF First
    <2>2. begin \in Ends /\ begin <= curr /\ begin \in Nat
      BY <1>1, <1>2, <1>4 DEF IInv, Splitting, TypeOK
    <2>3. begin \in Starts
      BY <1>1, <1>2, <2>2 DEF Split
    <2>4. begin < curr =>
            /\ At(code, curr) # JUMPDEST
            /\ \A i \in Starts :
                 begin <= i /\ i < curr =>
                     ~LeavesBlock(i) /\ (At(code, i) = JUMPDEST => i = begin)
      BY <1>4 DEF IInv, Splitting
    <2>5. CASE begin < curr
      BY <1>4, <2>1, <2>2, <2>3, <2>4, <2>5
    <2>6. CASE begin = curr
      BY <1>1, <1>2, <1>4, <2>1, <2>2, <2>3, <2>6
    <2> QED
      BY <1>1, <2>2, <2>5, <2>6
  <1> QED
    BY <1>3, <1>4

(* What the steps of the loop have in common.                              *)
LEMMA SplitFrame ==
    ASSUME IInv, Split, target' = Any
    PROVE  /\ Compilation' /\ Run' /\ Landed'
           /\ \A d \in DOMAIN jumpTable :
                /\ d \in Starts /\ At(code, d) = JUMPDEST
                /\ jumpTable[d] \in 1..Len(blocks)
                /\ blocks[jumpTable[d]].first = d
  <1>1. /\ phase = "split" /\ phase' = "split" /\ status' = status
    BY DEF Split
  <1>2. Compilation' /\ Run' /\ Landed'
    BY <1>1 DEF Compilation, Run, Landed, IInv
  <1> QED
    BY <1>2 DEF IInv, Table

LEMMA SplitSkips ==
    ASSUME IInv, Split, target' = Any, Skipped
    PROVE  IInv'
  <1> DEFINE next == skipPushDataAndGetNext(curr)
  <1>1. /\ code' = code /\ phase = "split" /\ phase' = "split" /\ curr' = next
        /\ UNCHANGED <<begin, isDead, blocks, terms>>
        /\ UNCHANGED <<k, it, top, jumpTable, status>>
        /\ isDead /\ At(code, curr) # JUMPDEST
    BY DEF Split, Skipped
  <1>2. /\ curr \in Starts /\ curr \in Nat
        /\ next \in Nat /\ next \in Ends
        /\ curr < next /\ next <= Len(code)
        /\ \A i \in Starts : i < next => i < curr \/ i = curr
    BY SplitFacts
  <1> HIDE DEF next
  <1>3. /\ Starts' = Starts /\ Ends' = Ends /\ StopBlock' = StopBlock
        /\ \A i : skipPushDataAndGetNext(i)' = skipPushDataAndGetNext(i)
        /\ \A b : In(b)' = In(b)
        /\ \A b : Falls(b)' <=> Falls(b)
    BY <1>1, SameBlocks
  <1>4. Len(code) \in Nat
    BY CodeFacts DEF IInv, Shapes
  <1>5. TypeOK'
    BY <1>1, <1>2, <1>3, <1>4 DEF IInv, TypeOK
  <1>6. Shapes'
    BY <1>1 DEF IInv, Shapes
  <1>7. Blocks'
    <2>1. \A b \in 1..Len(blocks) : blocks[b].end <= next
      BY <1>2, BlockFacts DEF IInv, Blocks
    <2> QED
      BY <1>1, <1>3, <2>1 DEF IInv, Blocks, LeavesBlock
  <1>8. Contiguous'
    BY <1>1, <1>3 DEF IInv, Contiguous
  <1>9. Splitting'
    BY <1>1, <1>2, <1>3 DEF IInv, Splitting
  <1>10. Table'
    BY <1>1, <1>3 DEF IInv, Table, Compiled
  <1>11. Terminated'
    BY <1>1 DEF IInv, Terminated
  <1> QED
    BY <1>5, <1>6, <1>7, <1>8, <1>9, <1>10, <1>11, SplitFrame DEF IInv

(* A block ends: it has the form of a block, and the next one, if control  *)
(* may run on, begins right behind it.                                     *)
LEMMA SplitAppends ==
    ASSUME IInv, Split, target' = Any, ~Skipped,
           EndsBlock(curr, skipPushDataAndGetNext(curr))
    PROVE  IInv'
  <1> DEFINE next == skipPushDataAndGetNext(curr)
             first == First
             new == [first |-> first, end |-> next]
  <1>0. PICK n, here : n = Len(blocks) + 1 /\ here = curr
    OBVIOUS
  <1>1. /\ code' = code /\ phase = "split" /\ phase' = "split" /\ curr' = next
        /\ isDead' = DeadBehind(At(code, curr))
        /\ blocks' = Append(blocks, new) /\ terms' = Append(terms, NoTerm)
        /\ begin' = next
        /\ UNCHANGED <<k, it, top, jumpTable, status>>
    BY DEF Split
  <1>2. /\ curr \in Starts /\ curr \in Nat
        /\ next \in Nat /\ next \in Ends
        /\ curr < next /\ next <= Len(code)
        /\ \A i \in Starts : i < next => i < curr \/ i = curr
    BY SplitFacts
  <1>3. /\ first \in Starts /\ first \in Nat /\ first <= curr
        /\ ~isDead => first = begin
        /\ At(code, curr) = JUMPDEST => first = curr
        /\ \A i \in Starts :
             first <= i /\ i < curr =>
                 ~LeavesBlock(i) /\ (At(code, i) = JUMPDEST => i = first)
    BY FirstFacts
  <1>4. next = skipPushDataAndGetNext(curr)
    OBVIOUS
  <1> HIDE DEF next, first
  <1>5. /\ Len(code) \in Nat
        /\ Starts \subseteq Nat
    BY PositionFacts DEF IInv, Shapes
  <1>6. /\ blocks \in Seq([first : Nat, end : Nat]) /\ terms \in Seq(Terms)
        /\ Len(blocks) \in Nat /\ Len(terms) = Len(blocks)
    BY DEF IInv, Shapes, TypeOK
  <1>7. new \in [first : Nat, end : Nat] /\ new.first = first /\ new.end = next
    BY <1>2, <1>3
  <1> HIDE DEF new
  <1>8. /\ Len(blocks') = n /\ blocks'[n] = new
        /\ \A b \in 1..Len(blocks) : blocks'[b] = blocks[b]
        /\ blocks' \in Seq([first : Nat, end : Nat])
    BY <1>0, <1>1, <1>6, <1>7
  <1>9. /\ Len(terms') = n /\ terms'[n] = NoTerm
        /\ \A b \in 1..Len(blocks) : terms'[b] = terms[b]
        /\ terms' \in Seq(Terms)
    <2>1. NoTerm \in Terms
      BY DEF Terms
    <2> QED
      BY <1>0, <1>1, <1>6, <2>1
  <1>10. \A b \in 1..n : b = n \/ b \in 1..Len(blocks)
    BY <1>0, <1>6
  <1>11. n \in 1..n /\ n \in Nat
    BY <1>0, <1>6
  <1>12. /\ Starts' = Starts /\ Ends' = Ends
         /\ \A i : skipPushDataAndGetNext(i)' = skipPushDataAndGetNext(i)
    BY <1>1, SameCode
  <1>13. /\ \A b \in 1..Len(blocks) : In(b)' = In(b)
         /\ In(n)' = {i \in Starts : first <= i /\ i < next}
    <2>1. \A b \in 1..Len(blocks) : In(b)' = In(b)
      BY <1>8, <1>12 DEF In
    <2>2. In(n)' = {i \in Starts : first <= i /\ i < next}
      BY <1>7, <1>8, <1>12 DEF In
    <2> QED
      BY <2>1, <2>2
  <1>14. \A b \in 1..Len(blocks) : Falls(b)' <=> Falls(b)
    BY <1>1, <1>8, <1>12, <1>13 DEF Falls
  <1>15. \A i \in In(n)' : i \in Starts /\ (i = curr \/ (first <= i /\ i < curr))
    BY <1>2, <1>13
  <1>16. TypeOK'
    <2>1. \A b \in 1..n : blocks'[b].first \in 0..blocks'[b].end - 1
      <3>1. new.first \in 0..new.end - 1
        BY <1>2, <1>3, <1>7
      <3>2. \A b \in 1..Len(blocks) : blocks'[b].first \in 0..blocks'[b].end - 1
        BY <1>8 DEF IInv, TypeOK
      <3> QED
        BY <1>8, <1>10, <3>1, <3>2
    <2>2. k \in 1..StopBlock'
      BY <1>6, <1>8, <1>0 DEF IInv, TypeOK, StopBlock
    <2>3. isDead' \in BOOLEAN
      BY <1>1 DEF DeadBehind
    <2>4. curr' \in 0..Len(code) /\ begin' \in 0..curr' /\ it \in 0..Len(code)
      BY <1>1, <1>2, <1>5 DEF IInv, TypeOK
    <2> QED
      BY <1>1, <1>8, <1>9, <2>1, <2>2, <2>3, <2>4 DEF IInv, TypeOK
  <1>17. Shapes'
    BY <1>1, <1>8, <1>9 DEF IInv, Shapes
  <1>18. Blocks'
    <2>1. ASSUME NEW b \in 1..Len(blocks)
          PROVE  /\ blocks'[b].first \in Starts /\ blocks'[b].end \in Ends
                 /\ blocks'[b].first < blocks'[b].end /\ blocks'[b].end <= next
                 /\ \A i \in In(b)' :
                      /\ At(code, i) = JUMPDEST => i = blocks'[b].first
                      /\ LeavesBlock(i) =>
                           skipPushDataAndGetNext(i) = blocks'[b].end
      <3>1. blocks[b].end <= next
        BY <1>2, BlockFacts DEF IInv, Blocks
      <3> QED
        BY <1>8, <1>13, <3>1 DEF IInv, Blocks
    <2>2. /\ new.first \in Starts /\ new.end \in Ends
          /\ new.first < new.end /\ new.end <= next
          /\ \A i \in In(n)' :
               /\ At(code, i) = JUMPDEST => i = new.first
               /\ LeavesBlock(i) => skipPushDataAndGetNext(i) = new.end
      <3>1. /\ new.first \in Starts /\ new.end \in Ends
            /\ new.first < new.end /\ new.end <= next
        BY <1>2, <1>3, <1>7
      <3>2. ASSUME NEW i \in In(n)'
            PROVE  /\ At(code, i) = JUMPDEST => i = first
                   /\ LeavesBlock(i) => i = curr
        BY <1>3, <1>15
      <3> QED
        BY <1>4, <1>7, <3>1, <3>2
    <2> QED
      <3>1. ASSUME NEW b \in 1..n
            PROVE  /\ blocks'[b].first \in Starts /\ blocks'[b].end \in Ends
                   /\ blocks'[b].first < blocks'[b].end /\ blocks'[b].end <= next
                   /\ \A i \in In(b)' :
                        /\ At(code, i) = JUMPDEST => i = blocks'[b].first
                        /\ LeavesBlock(i) =>
                             skipPushDataAndGetNext(i) = blocks'[b].end
        <4>1. CASE b = n
          BY <1>8, <2>2, <4>1
        <4>2. CASE b \in 1..Len(blocks)
          BY <2>1, <4>2
        <4> QED
          BY <1>10, <4>1, <4>2
      <3> QED
        BY <1>1, <1>8, <1>12, <3>1 DEF Blocks, LeavesBlock
  <1>19. Contiguous'
    <2>1. blocks'[1].first = 0
      <3>1. CASE blocks = <<>>
        BY <1>0, <1>3, <1>7, <1>8, <3>1 DEF IInv, Splitting
      <3>2. CASE blocks # <<>>
        BY <1>6, <1>8, <3>2 DEF IInv, Contiguous
      <3> QED
        BY <3>1, <3>2
    <2>2. ASSUME NEW b \in 1..Len(blocks), Falls(b)
          PROVE  b < n /\ blocks'[b + 1].first = blocks'[b].end
      <3>1. CASE b < Len(blocks)
        <4>1. b + 1 \in 1..Len(blocks)
          BY <1>6, <3>1
        <4> QED
          <5>1. blocks[b + 1].first = blocks[b].end
            BY <2>2, <3>1 DEF IInv, Contiguous
          <5>2. blocks'[b + 1] = blocks[b + 1] /\ blocks'[b] = blocks[b]
            BY <1>8, <4>1
          <5>3. b < n
            BY <1>0, <1>6
          <5> QED
            BY <5>1, <5>2, <5>3
      <3>2. CASE b = Len(blocks)
        <4>1. ~isDead /\ begin = blocks[b].end
          BY <1>6, <2>2, <3>2 DEF IInv, Contiguous
        <4> QED
          BY <1>0, <1>3, <1>6, <1>7, <1>8, <3>2, <4>1
      <3> QED
        BY <1>6, <3>1, <3>2
    <2>3. Falls(n)' => ~isDead' /\ begin' = blocks'[n].end
      <3>1. here \in In(n)'
        BY <1>0, <1>2, <1>3, <1>13
      <3>2. skipPushDataAndGetNext(here)' = blocks'[n].end
        BY <1>0, <1>4, <1>7, <1>8, <1>12
      <3>3. Falls(n)' => ~DeadBehind(At(code, here))
        BY <1>1, <3>1, <3>2 DEF Falls
      <3> QED
        BY <1>0, <1>1, <1>7, <1>8, <3>3
    <2> QED
      <3>1. ASSUME NEW b \in 1..n, Falls(b)'
            PROVE  IF b < n THEN blocks'[b + 1].first = blocks'[b].end
                   ELSE ~isDead' /\ begin' = blocks'[b].end
        <4>1. CASE b = n
          <5>1. Falls(n)'
            BY <3>1, <4>1
          <5>2. ~(b < n)
            BY <1>11, <4>1
          <5> QED
            BY <2>3, <4>1, <5>1, <5>2
        <4>2. CASE b \in 1..Len(blocks)
          BY <1>14, <2>2, <3>1, <4>2
        <4> QED
          BY <1>10, <4>1, <4>2
      <3> QED
        BY <1>8, <2>1, <3>1 DEF Contiguous
  <1>20. Splitting'
    <2>1. blocks' # <<>>
      BY <1>0, <1>6, <1>8
    <2>2. ASSUME NEW i \in Starts, i < next, At(code, i) = JUMPDEST
          PROVE  \E b \in 1..n : blocks'[b].first = i
      <3>1. CASE i = curr
        BY <1>3, <1>7, <1>8, <1>11, <2>2, <3>1
      <3>2. CASE i < curr
        <4>1. \/ \E b \in 1..Len(blocks) : blocks[b].first = i
              \/ ~isDead /\ i = begin
          BY <2>2, <3>2 DEF IInv, Splitting
        <4>2. \A b \in 1..Len(blocks) : b \in 1..n
          BY <1>0, <1>6
        <4> QED
          BY <1>3, <1>7, <1>8, <1>11, <4>1, <4>2
      <3> QED
        BY <1>2, <2>2, <3>1, <3>2
    <2> QED
      <3>1. ~(begin' < curr') /\ begin' = next /\ curr' = next
        BY <1>1, <1>2
      <3>2. next \in Ends' /\ phase' = "split"
        BY <1>1, <1>2, <1>12
      <3>3. \A i \in Starts' :
              i < curr' /\ At(code', i) = JUMPDEST =>
                  \E b \in 1..Len(blocks') : blocks'[b].first = i
        BY <1>1, <1>8, <1>12, <2>2
      <3> QED
        BY <2>1, <3>1, <3>2, <3>3 DEF Splitting
  <1>21. Table'
    <2>1. \A b \in 1..Len(blocks) : b \in 1..n
      BY <1>0, <1>6
    <2> QED
      BY <1>1, <1>8, <1>12, <2>1, SplitFrame DEF Table, Compiled
  <1>22. Terminated'
    <2>1. \A b \in 1..n : terms'[b] = NoTerm
      BY <1>1, <1>9, <1>10 DEF IInv, Terminated
    <2>2. NoTerm.kind = "none"
      BY DEF NoTerm
    <2> QED
      BY <1>1, <1>8, <2>1, <2>2 DEF Terminated
  <1> QED
    BY <1>16, <1>17, <1>18, <1>19, <1>20, <1>21, <1>22, SplitFrame DEF IInv

(* The block goes on.                                                      *)
LEMMA SplitGoesOn ==
    ASSUME IInv, Split, target' = Any, ~Skipped,
           ~EndsBlock(curr, skipPushDataAndGetNext(curr))
    PROVE  IInv'
  <1> DEFINE next == skipPushDataAndGetNext(curr)
             first == First
  <1>1. /\ code' = code /\ phase = "split" /\ phase' = "split" /\ curr' = next
        /\ isDead' = DeadBehind(At(code, curr))
        /\ begin' = first
        /\ UNCHANGED <<blocks, terms>>
        /\ UNCHANGED <<k, it, top, jumpTable, status>>
    BY DEF Split
  <1>2. /\ curr \in Starts /\ curr \in Nat
        /\ next \in Nat /\ next \in Ends
        /\ curr < next /\ next <= Len(code)
        /\ \A i \in Starts : i < next => i < curr \/ i = curr
    BY SplitFacts
  <1>3. /\ first \in Starts /\ first \in Nat /\ first <= curr
        /\ ~isDead => first = begin
        /\ At(code, curr) = JUMPDEST => first = curr
        /\ \A i \in Starts :
             first <= i /\ i < curr =>
                 ~LeavesBlock(i) /\ (At(code, i) = JUMPDEST => i = first)
    BY FirstFacts
  <1>4. /\ ~DeadBehind(At(code, curr)) /\ ~LeavesBlock(curr)
        /\ next # Len(code) /\ At(code, next) # JUMPDEST
    BY DEF EndsBlock, DeadBehind, LeavesBlock
  <1> HIDE DEF next, first
  <1>5. /\ Len(code) \in Nat
        /\ Starts \subseteq Nat
    BY PositionFacts DEF IInv, Shapes
  <1>6. /\ Starts' = Starts /\ Ends' = Ends /\ StopBlock' = StopBlock
        /\ \A i : skipPushDataAndGetNext(i)' = skipPushDataAndGetNext(i)
        /\ \A b : In(b)' = In(b)
        /\ \A b : Falls(b)' <=> Falls(b)
    BY <1>1, SameBlocks
  <1>7. ~isDead'
    BY <1>1, <1>4
  <1>8. TypeOK'
    <2>1. isDead' \in BOOLEAN
      BY <1>1 DEF DeadBehind
    <2>2. curr' \in 0..Len(code) /\ begin' \in 0..curr' /\ it \in 0..Len(code)
      BY <1>1, <1>2, <1>3, <1>5 DEF IInv, TypeOK
    <2> QED
      BY <1>1, <1>6, <2>1, <2>2 DEF IInv, TypeOK
  <1>9. Shapes'
    BY <1>1 DEF IInv, Shapes
  <1>10. Blocks'
    <2>1. \A b \in 1..Len(blocks) : blocks[b].end <= next
      BY <1>2, BlockFacts DEF IInv, Blocks
    <2> QED
      BY <1>1, <1>6, <2>1 DEF IInv, Blocks, LeavesBlock
  <1>11. Contiguous'
    BY <1>1, <1>3, <1>6, <1>7 DEF IInv, Contiguous
  <1>12. Splitting'
    <2>1. blocks = <<>> => first = 0
      BY <1>3 DEF IInv, Splitting
    <2>2. first \in Ends
      BY <1>3 DEF Ends
    <2>3. next < Len(code)
      BY <1>2, <1>4, <1>5
    <2>4. ASSUME NEW i \in Starts, first <= i, i < next
          PROVE  ~LeavesBlock(i) /\ (At(code, i) = JUMPDEST => i = first)
      BY <1>2, <1>3, <1>4, <2>4
    <2>5. ASSUME NEW i \in Starts, i < next, At(code, i) = JUMPDEST
          PROVE  \/ \E b \in 1..Len(blocks) : blocks[b].first = i
                 \/ i = first
      BY <1>2, <1>3, <2>5 DEF IInv, Splitting
    <2> QED
      BY <1>1, <1>2, <1>4, <1>6, <1>7, <2>1, <2>2, <2>3, <2>4, <2>5
      DEF Splitting, LeavesBlock
  <1>13. Table'
    BY <1>1, <1>6 DEF IInv, Table, Compiled
  <1>14. Terminated'
    BY <1>1 DEF IInv, Terminated
  <1> QED
    BY <1>8, <1>9, <1>10, <1>11, <1>12, <1>13, <1>14, SplitFrame DEF IInv

LEMMA SplitStep ==
    ASSUME IInv, Split, target' = Any
    PROVE  IInv'
  BY SplitSkips, SplitAppends, SplitGoesOn

-----------------------------------------------------------------------------
(* The steps behind the loop.                                              *)

LEMMA LaterFacts ==
    ASSUME IInv, phase' \in {"compile", "resolve", "run"},
           phase # "split" \/ curr = Len(code),
           UNCHANGED <<code, splitVars>>
    PROVE  /\ code' = code /\ blocks' = blocks
           /\ Blocks' /\ Contiguous' /\ Splitting'
           /\ Len(blocks) \in Nat /\ Len(code) \in Nat
           /\ StopBlock' = StopBlock /\ StopBlock = Len(blocks) + 1
  <1>1. code' = code /\ blocks' = blocks
    BY DEF splitVars
  <1>2. curr = Len(code)
    BY DEF IInv, Splitting
  <1>3. Len(blocks) \in Nat /\ Len(code) \in Nat
    BY CodeFacts DEF IInv, Shapes
  <1> QED
    BY <1>1, <1>2, <1>3, BlocksStay DEF IInv, StopBlock

LEMMA LaterTyped ==
    ASSUME IInv, phase' \in {"compile", "resolve", "run"},
           UNCHANGED <<code, splitVars>>,
           it' \in 0..Len(code), k' \in 1..StopBlock,
           top' \in Nat \cup {Any}, Len(terms') = Len(blocks),
           target' \in Nat \cup {Any},
           status' \in {"running", "stopped", "aborted"}
    PROVE  TypeOK'
  <1>1. /\ code' = code /\ blocks' = blocks /\ curr' = curr
        /\ begin' = begin /\ isDead' = isDead
    BY DEF splitVars
  <1>2. StopBlock' = StopBlock
    BY <1>1 DEF StopBlock
  <1> QED
    BY <1>1, <1>2 DEF IInv, TypeOK

(* The current block, and the current instruction in it.                   *)
LEMMA CurrentBlock ==
    ASSUME IInv, k # StopBlock
    PROVE  k \in 1..Len(blocks) /\ k + 1 \in 1..StopBlock /\ k \in Nat
  <1>1. Len(blocks) \in Nat /\ k \in 1..StopBlock
    BY DEF IInv, TypeOK, Shapes
  <1> QED
    BY <1>1 DEF StopBlock

LEMMA InBlock ==
    ASSUME IInv, phase \in {"compile", "run"}, k # StopBlock,
           it < blocks[k].end
    PROVE  LET next == skipPushDataAndGetNext(it)
           IN  /\ it \in In(k) /\ it \in Starts /\ it \in Nat
               /\ blocks[k].first <= it
               /\ next \in Ends /\ it < next /\ next <= blocks[k].end
               /\ next \in 0..Len(code)
               /\ readPushData(it) = next
               /\ ~IsPush(Inst) => next = it + 1
               /\ \A j \in In(k) : j < next => j < it \/ j = it
               /\ \A j \in In(k) : skipPushDataAndGetNext(j) = next => j = it
               /\ Inst = JUMPDEST => it = blocks[k].first
               /\ LeavesBlock(it) => next = blocks[k].end
  <1> DEFINE next == skipPushDataAndGetNext(it)
             end == blocks[k].end
  <1>1. k \in 1..Len(blocks)
    BY CurrentBlock
  <1>2. it \in Ends /\ blocks[k].first <= it
    BY DEF IInv, Compilation, Run, AtInstruction
  <1>3. /\ end \in Ends /\ end \in Nat /\ end <= Len(code)
        /\ it \in In(k) /\ it \in Starts /\ In(k) \subseteq Starts
    BY <1>1, <1>2, BlockFacts
  <1>4. /\ Len(code) \in Nat
        /\ Starts \subseteq Nat /\ Ends \subseteq Nat /\ Starts \subseteq Ends
        /\ \A i \in Ends : i <= Len(code)
    BY PositionFacts DEF IInv, Shapes
  <1>5. /\ next \in Ends /\ it < next
        /\ \A j \in Ends : it < j => next <= j
        /\ \A j \in Starts : skipPushDataAndGetNext(j) = next => j = it
        /\ next = IF Over(code, it) < Len(code)
                  THEN Over(code, it) ELSE Len(code)
        /\ ~IsPush(At(code, it)) => next = it + 1
    BY <1>3, SkipFacts DEF IInv, Shapes
  <1>6. Over(code, it) \in Nat /\ it \in Nat
    BY <1>3, <1>4, OverFacts
  <1>7. readPushData(it) = IF Over(code, it) < end THEN Over(code, it) ELSE end
    BY DEF readPushData, Over
  <1>8. /\ Inst = JUMPDEST => it = blocks[k].first
        /\ LeavesBlock(it) => next = end
    BY <1>1, <1>3 DEF IInv, Blocks, Inst
  <1> HIDE DEF next, end
  <1>9. next <= end /\ next \in Nat /\ next <= Len(code)
    BY <1>3, <1>4, <1>5 DEF end
  <1>10. readPushData(it) = next
    BY <1>3, <1>4, <1>5, <1>6, <1>7, <1>9
  <1>11. ASSUME NEW j \in In(k), j < next
         PROVE  j < it \/ j = it
    <2>1. j \in Ends /\ j \in Nat
      BY <1>3, <1>4, <1>11
    <2>2. it < j => next <= j
      BY <1>5, <2>1
    <2> QED
      BY <1>6, <1>9, <1>11, <2>1, <2>2
  <1> QED
    BY <1>2, <1>3, <1>4, <1>5, <1>6, <1>8, <1>9, <1>10, <1>11
    DEF next, end, Inst

LEMMA CleanNext ==
    ASSUME IInv, phase \in {"compile", "run"}, k # StopBlock,
           it < blocks[k].end, Clean(k, it), ~EndsFlow(Inst)
    PROVE  Clean(k, skipPushDataAndGetNext(it))
  BY InBlock DEF Clean, Inst

(* The beginning of a block.                                               *)
LEMMA BlockBegins ==
    ASSUME IInv, NEW b \in 1..Len(blocks)
    PROVE  /\ blocks[b].first \in Ends /\ blocks[b].first \in 0..Len(code)
           /\ blocks[b].first < blocks[b].end
           /\ Clean(b, blocks[b].first)
           /\ \A j \in In(b) : skipPushDataAndGetNext(j) # blocks[b].first
  <1>1. /\ Len(code) \in Nat
        /\ Starts \subseteq Nat /\ Starts \subseteq Ends
        /\ \A i \in Starts : i < Len(code)
    BY PositionFacts DEF IInv, Shapes
  <1>2. /\ blocks[b].first \in Starts /\ blocks[b].first < blocks[b].end
        /\ blocks[b].first \in Nat
        /\ In(b) \subseteq Starts
    BY BlockFacts
  <1>3. ASSUME NEW j \in In(b)
        PROVE  ~(j < blocks[b].first) /\ j \in Nat
    <2>1. blocks[b].first <= j
      BY DEF In
    <2>2. j \in Nat
      BY <1>1, <1>2
    <2> QED
      BY <1>2, <2>1, <2>2
  <1>4. \A j \in In(b) : j < skipPushDataAndGetNext(j)
    BY <1>2, SkipFacts DEF IInv, Shapes
  <1> QED
    BY <1>1, <1>2, <1>3, <1>4 DEF Clean

LEMMA TableStays ==
    ASSUME IInv, UNCHANGED <<code, blocks, jumpTable>>,
           \A b \in 1..Len(blocks) :
             Compiled(b)' /\ At(code, blocks[b].first) = JUMPDEST => Compiled(b)
    PROVE  Table'
  <1>1. code' = code /\ blocks' = blocks /\ jumpTable' = jumpTable
        /\ Starts' = Starts
    BY SameBlocks
  <1>2. Table
    BY DEF IInv
  <1>3. ASSUME NEW b \in 1..Len(blocks), Compiled(b)',
               At(code, blocks[b].first) = JUMPDEST
        PROVE  blocks[b].first \in DOMAIN jumpTable
    BY <1>2, <1>3 DEF Table
  <1> QED
    BY <1>1, <1>2, <1>3 DEF Table

LEMMA TermRightStays ==
    ASSUME UNCHANGED <<code, blocks>>, NEW b, terms'[b] = terms[b]
    PROVE  TermRight(b)' <=> TermRight(b)
  BY SameBlocks DEF TermRight

(* What is left to show of a step that compiles.                           *)
LEMMA CompilesOn ==
    ASSUME UNCHANGED <<code, blocks>>,
           NEW b, NEW i, NEW t, k' = b, it' = i, top' = t,
           i \in Ends, blocks[b].first <= i, i <= blocks[b].end,
           \/ Clean(b, i) /\ terms'[b] = NoTerm /\ (t = Any \/ Constant(b, i, t))
           \/ i = blocks[b].end /\ TermRight(b)'
    PROVE  Compilation'
  <1>1. /\ blocks' = blocks /\ Ends' = Ends /\ StopBlock' = StopBlock
        /\ Clean(b, i)' <=> Clean(b, i)
        /\ Constant(b, i, t)' <=> Constant(b, i, t)
    BY SameBlocks
  <1>2. AtInstruction'
    BY <1>1 DEF AtInstruction
  <1>3. CASE Clean(b, i) /\ terms'[b] = NoTerm /\ (t = Any \/ Constant(b, i, t))
    <2>1. Clean(k, it)' /\ (top' = Any \/ Constant(k, it, top)')
      BY <1>1, <1>3
    <2> QED
      BY <1>2, <1>3, <2>1 DEF Compilation
  <1>4. CASE i = blocks[b].end /\ TermRight(b)'
    <2>1. TermRight(k)'
      BY <1>4
    <2> QED
      BY <1>1, <1>2, <1>4, <2>1 DEF Compilation
  <1> QED
    BY <1>3, <1>4

LEMMA TerminatedStays ==
    ASSUME IInv, phase = "compile", phase' = "compile",
           UNCHANGED <<code, blocks, k, terms>>
    PROVE  Terminated'
  <1>1. \A b : TermRight(b)' <=> TermRight(b)
    BY TermRightStays
  <1> QED
    BY <1>1 DEF IInv, Terminated

LEMMA CompileFrame ==
    ASSUME IInv, phase = "compile", phase' = "compile", target' = Any,
           UNCHANGED <<code, splitVars, status>>
    PROVE  /\ Blocks' /\ Contiguous' /\ Splitting' /\ Run' /\ Landed'
           /\ code' = code /\ blocks' = blocks
           /\ target' \in Nat \cup {Any} /\ phase # "split"
           /\ phase' \in {"compile", "resolve", "run"}
           /\ status' \in {"running", "stopped", "aborted"}
  <1>1. Blocks' /\ Contiguous' /\ Splitting' /\ code' = code /\ blocks' = blocks
    BY LaterFacts
  <1>2. Run' /\ Landed'
    BY DEF Run, Landed, IInv
  <1> QED
    BY <1>1, <1>2 DEF IInv, TypeOK

(* An instruction that does not end the flow.                              *)
LEMMA CompileGoesOn ==
    ASSUME IInv, Compiling, phase' = phase, target' = Any,
           UNCHANGED <<code, splitVars, k, terms, status>>,
           ~EndsFlow(Inst), it' = skipPushDataAndGetNext(it),
           top' = Any \/ (IsPush(Inst) /\ top' = PushValue(code, it)),
           Table'
    PROVE  IInv'
  <1> DEFINE next == skipPushDataAndGetNext(it)
  <1>1. phase = "compile" /\ k # StopBlock /\ it < blocks[k].end
    BY DEF Compiling
  <1>2. /\ it \in In(k) /\ it \in Nat /\ blocks[k].first <= it
        /\ next \in Ends /\ it < next /\ next <= blocks[k].end
        /\ next \in 0..Len(code)
    BY <1>1, InBlock
  <1>3. /\ Blocks' /\ Contiguous' /\ Splitting' /\ Run' /\ Landed'
        /\ code' = code /\ blocks' = blocks
    BY <1>1, CompileFrame
  <1>4. k \in 1..Len(blocks) /\ blocks[k].first \in Nat /\ blocks[k].end \in Nat
    BY <1>1, CurrentBlock, BlockFacts
  <1>5. Clean(k, it) /\ terms[k] = NoTerm
    BY <1>1, <1>4 DEF IInv, Compilation
  <1>6. Clean(k, next)
    BY <1>1, <1>5, CleanNext
  <1>7. top' = Any \/ Constant(k, next, top')
    BY <1>2 DEF Constant, Inst
  <1>8. top' \in Nat \cup {Any}
    BY <1>2, PushValueIsNatural DEF IInv, Shapes
  <1> HIDE DEF next
  <1>9. Compilation'
    <2>1. PICK b, i, t : b = k /\ i = next /\ t = top'
      OBVIOUS
    <2>2. i \in Ends /\ blocks[b].first <= i /\ i <= blocks[b].end
      BY <1>2, <1>4, <2>1
    <2>3. Clean(b, i) /\ terms'[b] = NoTerm /\ (t = Any \/ Constant(b, i, t))
      BY <1>5, <1>6, <1>7, <2>1
    <2>4. k' = b /\ it' = i /\ top' = t
      BY <2>1 DEF next
    <2> QED
      BY <1>3, <2>2, <2>3, <2>4, CompilesOn
  <1>10. Shapes'
    BY <1>3 DEF IInv, Shapes
  <1>11. TypeOK'
    <2>1. /\ it' \in 0..Len(code) /\ k' \in 1..StopBlock
          /\ Len(terms') = Len(blocks)
      BY <1>2 DEF IInv, TypeOK, next
    <2>2. /\ target' \in Nat \cup {Any}
          /\ phase' \in {"compile", "resolve", "run"}
          /\ status' \in {"running", "stopped", "aborted"}
      BY <1>1, CompileFrame
    <2> QED
      BY <1>8, <2>1, <2>2, LaterTyped
  <1>12. Terminated'
    BY <1>1, <1>3, TerminatedStays
  <1> QED
    BY <1>3, <1>9, <1>10, <1>11, <1>12 DEF IInv

(* The jump table stays, and has no case that the block needs later.       *)
LEMMA TableWaits ==
    ASSUME IInv, Compiling, phase' = phase, Inst # JUMPDEST,
           UNCHANGED <<code, splitVars, k, jumpTable>>
    PROVE  Table'
  <1>1. phase = "compile" /\ k # StopBlock /\ it < blocks[k].end
    BY DEF Compiling
  <1>2. k \in 1..Len(blocks) /\ blocks[k].first \in Nat
    BY <1>1, CurrentBlock, BlockFacts
  <1>3. it \in Nat /\ blocks[k].first <= it
    BY <1>1, InBlock
  <1>4. ASSUME NEW b \in 1..Len(blocks), Compiled(b)',
               At(code, blocks[b].first) = JUMPDEST
        PROVE  Compiled(b)
    <2>1. blocks[k].first < it \/ blocks[k].first = it
      BY <1>2, <1>3
    <2>2. b < k \/ b = k
      BY <1>1, <1>4 DEF Compiled
    <2>3. b = k => it > blocks[b].first
      BY <1>3, <1>4, <2>1 DEF Inst
    <2> QED
      BY <1>1, <2>2, <2>3 DEF Compiled
  <1> QED
    BY <1>4, TableStays DEF splitVars

LEMMA CompilePushStep ==
    ASSUME IInv, CompilePush, target' = Any
    PROVE  IInv'
  <1>1. ~EndsFlow(Inst) /\ Inst # JUMPDEST
    BY BytecodeAssumption DEF CompilePush, EndsFlow, IsPush
  <1>2. it' = skipPushDataAndGetNext(it)
    BY InBlock DEF CompilePush, Compiling
  <1>3. Table'
    BY <1>1, TableWaits DEF CompilePush
  <1> QED
    BY <1>1, <1>2, <1>3, CompileGoesOn DEF CompilePush

LEMMA CompilePopStep ==
    ASSUME IInv, CompilePop, target' = Any
    PROVE  IInv'
  <1>1. ~EndsFlow(Inst) /\ Inst # JUMPDEST /\ ~IsPush(Inst)
    BY BytecodeAssumption DEF CompilePop, EndsFlow, IsPush
  <1>2. it' = skipPushDataAndGetNext(it)
    BY <1>1, InBlock DEF CompilePop, Compiling
  <1>3. Table'
    BY <1>1, TableWaits DEF CompilePop
  <1> QED
    BY <1>1, <1>2, <1>3, CompileGoesOn DEF CompilePop

LEMMA CompileJumpDestStep ==
    ASSUME IInv, CompileJumpDest, target' = Any
    PROVE  IInv'
  <1>1. /\ phase = "compile" /\ phase' = phase /\ k # StopBlock
        /\ it < blocks[k].end /\ Inst = JUMPDEST
        /\ UNCHANGED <<code, blocks, k>>
    BY DEF CompileJumpDest, Compiling, splitVars
  <1>2. ~EndsFlow(Inst) /\ ~IsPush(Inst)
    BY <1>1, BytecodeAssumption DEF EndsFlow, IsPush
  <1>3. it' = skipPushDataAndGetNext(it) /\ it = blocks[k].first
    BY <1>1, <1>2, InBlock DEF CompileJumpDest
  <1>4. k \in 1..Len(blocks)
    BY <1>1, CurrentBlock
  <1>5. top = Any
    <2>1. top = Any \/ Constant(k, it, top)
      <3>1. it # blocks[k].end
        BY <1>1, <1>4, BlockFacts
      <3> QED
        BY <1>1, <3>1 DEF IInv, Compilation
    <2>2. \A j \in In(k) : skipPushDataAndGetNext(j) # it
      BY <1>3, <1>4, BlockBegins
    <2> QED
      BY <2>1, <2>2 DEF Constant
  <1>6. Table'
    <2>1. /\ DOMAIN jumpTable' = DOMAIN jumpTable \cup {it}
          /\ jumpTable'[it] = k
          /\ \A d \in DOMAIN jumpTable : d # it => jumpTable'[d] = jumpTable[d]
      BY <1>3 DEF CompileJumpDest
    <2>2. Starts' = Starts
      BY <1>1, SameBlocks
    <2>3. it \in Starts
      BY <1>1, InBlock
    <2>4. \A d \in DOMAIN jumpTable :
            /\ d \in Starts /\ At(code, d) = JUMPDEST
            /\ jumpTable[d] \in 1..Len(blocks)
            /\ blocks[jumpTable[d]].first = d
      BY DEF IInv, Table
    <2>5. \A d \in DOMAIN jumpTable' :
            /\ d \in Starts /\ At(code, d) = JUMPDEST
            /\ jumpTable'[d] \in 1..Len(blocks)
            /\ blocks[jumpTable'[d]].first = d
      BY <1>1, <1>3, <1>4, <2>1, <2>3, <2>4 DEF Inst
    <2>6. ASSUME NEW b \in 1..Len(blocks), Compiled(b)',
                 At(code, blocks[b].first) = JUMPDEST
          PROVE  blocks[b].first \in DOMAIN jumpTable'
      <3>1. CASE b = k
        BY <1>3, <2>1, <3>1
      <3>2. CASE b # k
        <4>1. Compiled(b)
          BY <1>1, <2>6, <3>2 DEF Compiled
        <4>2. blocks[b].first \in DOMAIN jumpTable
          BY <2>6, <4>1 DEF IInv, Table
        <4> QED
          BY <2>1, <4>2
      <3> QED
        BY <3>1, <3>2
    <2> QED
      BY <1>1, <2>2, <2>5, <2>6 DEF Table
  <1> QED
    BY <1>2, <1>3, <1>5, <1>6, CompileGoesOn DEF CompileJumpDest

LEMMA ExitFits ==
    ASSUME NEW b, NEW i, At(code, i) \notin {JUMP, JUMPI},
           NEW how,
           how = IF At(code, i) = STOP THEN "stopped" ELSE "aborted"
    PROVE  /\ Exit(how) \in Terms /\ Fits(Exit(how), b, i)
           /\ Exit(how).kind \notin {"jump", "branch"}
  <1>1. Exit(how) \in Terms
    BY DEF Terms
  <1>2. Exit(how).kind = how
    BY DEF Exit
  <1>3. how \notin {"jump", "branch"}
    OBVIOUS
  <1>4. how = CASE At(code, i) = JUMP -> "jump"
                [] At(code, i) = JUMPI -> "branch"
                [] At(code, i) = STOP -> "stopped"
                [] OTHER -> "aborted"
    OBVIOUS
  <1> QED
    BY <1>1, <1>2, <1>3, <1>4 DEF Fits

LEMMA TermFits ==
    ASSUME IInv, Compiling, EndsFlow(Inst)
    PROVE  TermOf(Inst) \in Terms /\ Fits(TermOf(Inst), k, it)
           /\ (TermOf(Inst).kind \in {"jump", "branch"} =>
                   TermOf(Inst).to = TableBlock)
  <1>1. top \in Nat \cup {Any}
    BY DEF IInv, TypeOK
  <1>2. top = Any \/ Constant(k, it, top)
    <2>1. k \in 1..Len(blocks)
      BY CurrentBlock DEF Compiling
    <2>2. it # blocks[k].end
      BY <2>1, BlockFacts DEF Compiling
    <2> QED
      BY <2>2 DEF IInv, Compilation, Compiling
  <1>3. CASE Inst = JUMP
    <2>1. Inst # JUMPI /\ Inst # STOP
      BY <1>3, BytecodeAssumption
    <2>2. TermOf(Inst) = JumpTo("jump", top)
      BY <1>3, <2>1, Zenon DEF TermOf
    <2>3. Fits(JumpTo("jump", top), k, it)
      <3>1. "jump" = CASE At(code, it) = JUMP -> "jump"
                     [] At(code, it) = JUMPI -> "branch"
                     [] At(code, it) = STOP -> "stopped"
                     [] OTHER -> "aborted"
        BY <1>3, <2>1 DEF Inst
      <3> QED
        BY <1>2, <3>1 DEF Fits, JumpTo
    <2> QED
      BY <1>1, <2>2, <2>3 DEF Terms, JumpTo, TableBlock
  <1>4. CASE Inst = JUMPI
    <2>1. Inst # JUMP /\ Inst # STOP
      BY <1>4, BytecodeAssumption
    <2>2. TermOf(Inst) = JumpTo("branch", top)
      BY <1>4, <2>1, Zenon DEF TermOf
    <2>3. Fits(JumpTo("branch", top), k, it)
      <3>1. "branch" = CASE At(code, it) = JUMP -> "jump"
                       [] At(code, it) = JUMPI -> "branch"
                       [] At(code, it) = STOP -> "stopped"
                       [] OTHER -> "aborted"
        BY <1>4, <2>1 DEF Inst
      <3> QED
        BY <1>2, <3>1 DEF Fits, JumpTo
    <2> QED
      BY <1>1, <2>2, <2>3 DEF Terms, JumpTo, TableBlock
  <1>5. CASE Inst = STOP
    <2>1. Inst # JUMP /\ Inst # JUMPI
      BY <1>5, BytecodeAssumption
    <2>2. TermOf(Inst) = Exit("stopped")
      BY <1>5, <2>1, Zenon DEF TermOf
    <2> QED
      BY <1>5, <2>1, <2>2, ExitFits DEF Inst
  <1>6. CASE Inst \notin {JUMP, JUMPI, STOP}
    <2>1. Inst # JUMP /\ Inst # JUMPI /\ Inst # STOP
      BY <1>6
    <2>2. TermOf(Inst) = Exit("aborted")
      BY <2>1, Zenon DEF TermOf
    <2> QED
      BY <2>1, <2>2, ExitFits DEF Inst
  <1> QED
    BY <1>3, <1>4, <1>5, <1>6

(* The first instruction that ends the flow gives its block its terminator. *)
LEMMA CompileTermStep ==
    ASSUME IInv, CompileTerm, target' = Any
    PROVE  IInv'
  <1> DEFINE term == TermOf(Inst)
  <1>1. /\ phase = "compile" /\ phase' = "compile" /\ k # StopBlock
        /\ it < blocks[k].end /\ EndsFlow(Inst) /\ Compiling
        /\ terms' = [terms EXCEPT ![k] = term]
        /\ it' = blocks[k].end
        /\ UNCHANGED <<code, splitVars, k, top, jumpTable, status>>
    BY DEF CompileTerm, Compiling
  <1>2. /\ term \in Terms /\ Fits(term, k, it)
        /\ term.kind \in {"jump", "branch"} => term.to = TableBlock
    BY <1>1, TermFits
  <1> HIDE DEF term
  <1>3. /\ Blocks' /\ Contiguous' /\ Splitting' /\ Run' /\ Landed'
        /\ code' = code /\ blocks' = blocks
    BY <1>1, CompileFrame
  <1>4. /\ k \in 1..Len(blocks) /\ blocks[k].first \in Nat
        /\ blocks[k].end \in Nat /\ blocks[k].end <= Len(code)
        /\ blocks[k].end \in Ends /\ blocks[k].first < blocks[k].end
        /\ In(k) \subseteq Starts
    BY <1>1, CurrentBlock, BlockFacts
  <1>5. it \in In(k) /\ it \in Nat
    BY <1>1, InBlock
  <1>6. Clean(k, it)
    BY <1>1, <1>4 DEF IInv, Compilation
  <1>7. /\ Starts \subseteq Nat /\ Len(code) \in Nat
    BY PositionFacts DEF IInv, Shapes
  <1>8. /\ terms \in Seq(Terms) /\ Len(terms) = Len(blocks)
    BY DEF IInv, Shapes, TypeOK
  <1>9. /\ terms' \in Seq(Terms) /\ Len(terms') = Len(blocks)
        /\ terms'[k] = term
        /\ \A b \in 1..Len(blocks) : b # k => terms'[b] = terms[b]
    BY <1>1, <1>2, <1>4, <1>8
  <1>10. /\ \A b, i : Clean(b, i)' <=> Clean(b, i)
         /\ \A t, b, i : Fits(t, b, i)' <=> Fits(t, b, i)
         /\ \A b : In(b)' = In(b)
    BY <1>3, SameBlocks
  <1>11. TermRight(k)'
    <2>1. PICK b : b = k
      OBVIOUS
    <2>2. ~Clean(b, blocks[b].end)
      BY <1>1, <1>5, <2>1 DEF Clean, Inst
    <2>3. ASSUME NEW i \in In(b), EndsFlow(At(code, i)), Clean(b, i)
          PROVE  i = it
      <3>1. i \in Nat
        BY <1>4, <1>7, <2>1
      <3>2. ~(i < it)
        BY <1>6, <2>1, <2>3 DEF Clean
      <3>3. ~(it < i)
        BY <1>1, <1>5, <2>1, <2>3 DEF Clean, Inst
      <3> QED
        BY <1>5, <3>1, <3>2, <3>3
    <2>4. TermRight(b)'
      BY <1>2, <1>3, <1>9, <1>10, <2>1, <2>2, <2>3 DEF TermRight
    <2> QED
      BY <1>1, <2>1, <2>4
  <1>12. Compilation'
    <2>1. PICK b, i, t : b = k /\ i = blocks[k].end /\ t = top
      OBVIOUS
    <2>2. /\ i \in Ends /\ blocks[b].first <= i /\ i <= blocks[b].end
      BY <1>4, <2>1
    <2>3. k' = b /\ it' = i /\ top' = t
      BY <1>1, <2>1
    <2>4. TermRight(b)'
      BY <1>11, <2>3
    <2> QED
      BY <1>3, <2>1, <2>2, <2>3, <2>4, CompilesOn
  <1>13. Shapes'
    BY <1>3, <1>9 DEF IInv, Shapes
  <1>14. TypeOK'
    <2>1. it' \in 0..Len(code)
      BY <1>1, <1>4, <1>7
    <2>2. k' \in 1..StopBlock /\ top' \in Nat \cup {Any}
      BY <1>1 DEF IInv, TypeOK
    <2>3. /\ target' \in Nat \cup {Any}
          /\ phase' \in {"compile", "resolve", "run"}
          /\ status' \in {"running", "stopped", "aborted"}
      BY <1>1, CompileFrame
    <2> QED
      BY <1>1, <1>9, <2>1, <2>2, <2>3, LaterTyped
  <1>15. Table'
    <2>1. Inst # JUMPDEST
      BY <1>1 DEF EndsFlow
    <2> QED
      BY <1>1, <2>1, TableWaits
  <1>16. Terminated'
    <2>1. ASSUME NEW b \in 1..Len(blocks)
          PROVE  /\ b < k => TermRight(b)'
                 /\ b > k => terms'[b] = NoTerm
                 /\ terms'[b].kind \in {"jump", "branch"} =>
                      terms'[b].to = TableBlock
      <3>1. CASE b = k
        BY <1>2, <1>4, <1>9, <3>1
      <3>2. CASE b # k
        <4>1. terms'[b] = terms[b]
          BY <1>9, <3>2
        <4>2. b < k => TermRight(b)
          BY <1>1 DEF IInv, Terminated
        <4>3. TermRight(b)' <=> TermRight(b)
          BY <1>3, <4>1, TermRightStays
        <4>4. /\ b > k => terms[b] = NoTerm
              /\ terms[b].kind \in {"jump", "branch"} =>
                   terms[b].to = TableBlock
          BY <1>1 DEF IInv, Terminated
        <4> QED
          BY <4>1, <4>2, <4>3, <4>4
      <3> QED
        BY <3>1, <3>2
    <2> QED
      BY <1>1, <1>3, <2>1 DEF Terminated, TableBlock
  <1> QED
    BY <1>3, <1>11, <1>12, <1>13, <1>14, <1>15, <1>16 DEF IInv

-----------------------------------------------------------------------------
(* From block to block and from pass to pass.                              *)

LEMMA FirstBlockBegins ==
    ASSUME IInv, curr = Len(code)
    PROVE  /\ StopBlock = 1 => Len(code) = 0
           /\ StopBlock # 1 => 1 \in 1..Len(blocks) /\ blocks[1].first = 0
           /\ 1 \in 1..StopBlock /\ 0 \in 0..Len(code)
  <1>1. /\ Len(blocks) \in Nat /\ Len(code) \in Nat
        /\ blocks \in Seq([first : Nat, end : Nat])
    BY CodeFacts DEF IInv, Shapes
  <1>2. CASE Len(blocks) = 0
    <2>1. blocks = <<>>
      BY <1>1, <1>2
    <2>2. ~isDead /\ begin = 0
      BY <2>1 DEF IInv, Splitting
    <2>3. ~(0 < Len(code))
      BY <1>1, <2>2 DEF IInv, Splitting
    <2> QED
      BY <1>1, <1>2, <2>3 DEF StopBlock
  <1>3. CASE Len(blocks) # 0
    <2>1. blocks # <<>>
      BY <1>1, <1>3
    <2> QED
      BY <1>1, <1>3, <2>1 DEF StopBlock, IInv, Contiguous
  <1> QED
    BY <1>2, <1>3

LEMMA SplitDoneStep ==
    ASSUME IInv, SplitDone, target' = Any
    PROVE  IInv'
  <1>1. /\ phase = "split" /\ phase' = "compile" /\ curr = Len(code)
        /\ k' = 1 /\ it' = 0 /\ top' = Any
        /\ UNCHANGED <<code, splitVars, terms, jumpTable, status>>
    BY DEF SplitDone, Entered
  <1>2. /\ Blocks' /\ Contiguous' /\ Splitting'
        /\ code' = code /\ blocks' = blocks /\ StopBlock' = StopBlock
    BY <1>1, LaterFacts
  <1>3. /\ StopBlock # 1 => 1 \in 1..Len(blocks) /\ blocks[1].first = 0
        /\ 1 \in 1..StopBlock /\ 0 \in 0..Len(code)
    BY <1>1, FirstBlockBegins
  <1>4. \A b \in 1..Len(blocks) : b >= 1 /\ blocks[b].first \in Nat
    BY BlockFacts
  <1>5. \A b \in 1..Len(blocks) : terms[b] = NoTerm
    BY <1>1 DEF IInv, Terminated
  <1>6. Run' /\ Landed'
    BY <1>1 DEF Run, Landed, IInv
  <1>7. Compilation'
    <2>1. CASE StopBlock = 1
      BY <1>1, <1>2, <2>1 DEF Compilation
    <2>2. CASE StopBlock # 1
      <3>1. PICK b, i, t : b = 1 /\ i = 0 /\ t = Any
        OBVIOUS
      <3>2. /\ b \in 1..Len(blocks) /\ i = blocks[b].first
        BY <1>3, <2>2, <3>1
      <3>3. i \in Ends /\ i < blocks[b].end /\ Clean(b, i) /\ i \in Nat
            /\ blocks[b].end \in Nat
        BY <3>2, BlockBegins, BlockFacts
      <3>4. terms'[b] = NoTerm
        BY <1>1, <1>5, <3>2
      <3> QED
        BY <1>1, <1>2, <3>1, <3>2, <3>3, <3>4, CompilesOn
    <2> QED
      BY <2>1, <2>2
  <1>8. Shapes'
    BY <1>1, <1>2 DEF IInv, Shapes
  <1>9. TypeOK'
    <2>1. Len(terms') = Len(blocks) /\ status' \in {"running", "stopped", "aborted"}
      BY <1>1 DEF IInv, TypeOK
    <2> QED
      BY <1>1, <1>3, <2>1, LaterTyped
  <1>10. Table'
    <2>1. \A b \in 1..Len(blocks) : ~Compiled(b)'
      BY <1>1, <1>2, <1>4 DEF Compiled
    <2> QED
      BY <1>1, <1>2, <2>1, TableStays
  <1>11. Terminated'
    <2>1. NoTerm.kind = "none"
      BY DEF NoTerm
    <2> QED
      BY <1>1, <1>2, <1>4, <1>5, <2>1 DEF Terminated
  <1> QED
    BY <1>2, <1>6, <1>7, <1>8, <1>9, <1>10, <1>11 DEF IInv

LEMMA NextBlockFacts ==
    ASSUME IInv, k # StopBlock, NextBlock(k + 1)
    PROVE  /\ k' = k + 1 /\ k' \in 1..StopBlock /\ it' \in 0..Len(code)
           /\ k + 1 # StopBlock => /\ k + 1 \in 1..Len(blocks)
                                   /\ it' = blocks[k + 1].first
  <1>1. Len(blocks) \in Nat /\ Len(code) \in Nat
    BY CodeFacts DEF IInv, Shapes
  <1>2. k \in 1..Len(blocks) /\ k + 1 \in 1..StopBlock
    BY CurrentBlock
  <1>3. k + 1 # StopBlock => k + 1 \in 1..Len(blocks)
    BY <1>1, <1>2 DEF StopBlock
  <1>4. CASE k + 1 = StopBlock
    BY <1>1, <1>2, <1>4 DEF NextBlock
  <1>5. CASE k + 1 # StopBlock
    BY <1>2, <1>3, <1>5, BlockBegins DEF NextBlock
  <1> QED
    BY <1>4, <1>5

(* A block whose flow no instruction ends runs on.                         *)
LEMMA BlockDoneStep ==
    ASSUME IInv, BlockDone, target' = Any
    PROVE  IInv'
  <1>1. /\ phase = "compile" /\ phase' = "compile" /\ k # StopBlock
        /\ it = blocks[k].end /\ NextBlock(k + 1) /\ top' = Any
        /\ UNCHANGED <<code, splitVars, terms, jumpTable, status>>
    BY DEF BlockDone
  <1>2. /\ Blocks' /\ Contiguous' /\ Splitting' /\ Run' /\ Landed'
        /\ code' = code /\ blocks' = blocks
    BY <1>1, CompileFrame
  <1>3. /\ k' = k + 1 /\ k' \in 1..StopBlock /\ it' \in 0..Len(code)
        /\ k + 1 # StopBlock => /\ k + 1 \in 1..Len(blocks)
                                /\ it' = blocks[k + 1].first
    BY <1>1, NextBlockFacts
  <1>4. /\ k \in 1..Len(blocks) /\ k \in Nat
        /\ blocks[k].first \in Nat /\ blocks[k].end \in Nat
        /\ blocks[k].first < blocks[k].end
    BY <1>1, CurrentBlock, BlockFacts
  <1>5. StopBlock' = StopBlock
    BY <1>2, SameBlocks
  <1>6. Compilation'
    <2>1. CASE k + 1 = StopBlock
      BY <1>3, <1>5, <2>1 DEF Compilation
    <2>2. CASE k + 1 # StopBlock
      <3>1. PICK b, i, t : b = k + 1 /\ i = blocks[k + 1].first /\ t = Any
        OBVIOUS
      <3>2. b \in 1..Len(blocks) /\ i = blocks[b].first
        BY <1>3, <2>2, <3>1
      <3>3. /\ i \in Ends /\ i < blocks[b].end /\ Clean(b, i) /\ i \in Nat
            /\ blocks[b].end \in Nat
        BY <3>2, BlockBegins, BlockFacts
      <3>4. b > k
        BY <1>4, <3>1
      <3>5. terms'[b] = NoTerm
        BY <1>1, <3>2, <3>4 DEF IInv, Terminated
      <3> QED
        BY <1>1, <1>2, <1>3, <2>2, <3>1, <3>2, <3>3, <3>5, CompilesOn
    <2> QED
      BY <2>1, <2>2
  <1>7. TermRight(k)
    <2>1. PICK b : b = k
      OBVIOUS
    <2>2. \/ Clean(b, it) /\ terms[b] = NoTerm
          \/ TermRight(b)
      BY <1>1, <2>1 DEF IInv, Compilation
    <2>3. CASE Clean(b, it) /\ terms[b] = NoTerm
      <3>1. \A i \in In(b) : i < blocks[b].end
        BY DEF In
      <3>2. \A i \in In(b) : ~EndsFlow(At(code, i))
        BY <1>1, <2>1, <2>3, <3>1 DEF Clean
      <3>3. terms[b].kind = "none"
        BY <2>3 DEF NoTerm
      <3> QED
        BY <2>1, <3>2, <3>3 DEF TermRight
    <2> QED
      BY <2>1, <2>2, <2>3
  <1>8. Shapes'
    BY <1>1, <1>2 DEF IInv, Shapes
  <1>9. TypeOK'
    <2>1. Len(terms') = Len(blocks)
      BY <1>1 DEF IInv, TypeOK
    <2>2. /\ target' \in Nat \cup {Any}
          /\ phase' \in {"compile", "resolve", "run"}
          /\ status' \in {"running", "stopped", "aborted"}
      BY <1>1, CompileFrame
    <2> QED
      BY <1>1, <1>3, <2>1, <2>2, LaterTyped
  <1>10. Table'
    <2>1. ASSUME NEW b \in 1..Len(blocks), Compiled(b)'
          PROVE  Compiled(b)
      <3>1. b < k + 1 \/ (b = k + 1 /\ it' > blocks[b].first)
        BY <1>1, <1>2, <1>3, <2>1 DEF Compiled
      <3>2. k + 1 = b => k + 1 # StopBlock
        BY <1>4 DEF IInv, Shapes, StopBlock
      <3>3. ~(b = k + 1 /\ it' > blocks[b].first)
        <4>1. blocks[b].first \in Nat
          BY BlockFacts
        <4> QED
          BY <1>3, <3>2, <4>1
      <3>4. b < k \/ b = k
        BY <1>4, <3>1, <3>3
      <3> QED
        BY <1>1, <1>4, <3>4 DEF Compiled
    <2> QED
      BY <1>1, <1>2, <2>1, TableStays
  <1>11. Terminated'
    <2>1. ASSUME NEW b \in 1..Len(blocks)
          PROVE  /\ b < k + 1 => TermRight(b)'
                 /\ b > k + 1 => terms'[b] = NoTerm
                 /\ terms'[b].kind \in {"jump", "branch"} =>
                      terms'[b].to = TableBlock
      <3>1. b < k + 1 => b < k \/ b = k
        BY <1>4
      <3>2. b < k => TermRight(b)
        BY <1>1 DEF IInv, Terminated
      <3>3. b < k + 1 => TermRight(b)
        BY <1>7, <3>1, <3>2
      <3>4. TermRight(b)' <=> TermRight(b)
        BY <1>1, <1>2, TermRightStays
      <3>5. b > k + 1 => b > k
        BY <1>4
      <3>6. /\ b > k => terms[b] = NoTerm
            /\ terms[b].kind \in {"jump", "branch"} => terms[b].to = TableBlock
        BY <1>1 DEF IInv, Terminated
      <3> QED
        BY <1>1, <3>3, <3>4, <3>5, <3>6
    <2> QED
      BY <1>1, <1>2, <1>3, <2>1 DEF Terminated, TableBlock
  <1> QED
    BY <1>2, <1>6, <1>8, <1>9, <1>10, <1>11 DEF IInv

LEMMA CompileDoneStep ==
    ASSUME IInv, CompileDone, target' = Any
    PROVE  IInv'
  <1>1. /\ phase = "compile" /\ phase' = "resolve" /\ k = StopBlock
        /\ k' = 1 /\ it' = 0 /\ top' = Any
        /\ UNCHANGED <<code, splitVars, terms, jumpTable, status>>
    BY DEF CompileDone, Entered
  <1>2. /\ Blocks' /\ Contiguous' /\ Splitting'
        /\ code' = code /\ blocks' = blocks
        /\ Len(blocks) \in Nat /\ StopBlock = Len(blocks) + 1
    BY <1>1, LaterFacts
  <1>3. 1 \in 1..StopBlock /\ 0 \in 0..Len(code)
    BY <1>1, FirstBlockBegins DEF IInv, Splitting
  <1>4. \A b \in 1..Len(blocks) : b < k /\ ~(b < 1)
    BY <1>1, <1>2
  <1>5. Compilation' /\ Run' /\ Landed'
    BY <1>1 DEF Compilation, Run, Landed, IInv
  <1>6. Shapes'
    BY <1>1, <1>2 DEF IInv, Shapes
  <1>7. TypeOK'
    <2>1. Len(terms') = Len(blocks) /\ status' \in {"running", "stopped", "aborted"}
      BY <1>1 DEF IInv, TypeOK
    <2> QED
      BY <1>1, <1>3, <2>1, LaterTyped
  <1>8. Table'
    <2>1. \A b \in 1..Len(blocks) : Compiled(b)
      BY <1>1, <1>4 DEF Compiled
    <2> QED
      BY <1>1, <1>2, <2>1, TableStays
  <1>9. Terminated'
    <2>1. ASSUME NEW b \in 1..Len(blocks)
          PROVE  /\ TermRight(b)'
                 /\ terms'[b].kind \in {"jump", "branch"} =>
                      terms'[b].to = TableBlock
      <3>1. TermRight(b)
        BY <1>1, <1>4 DEF IInv, Terminated
      <3>2. TermRight(b)' <=> TermRight(b)
        BY <1>1, <1>2, TermRightStays
      <3>3. terms[b].kind \in {"jump", "branch"} => terms[b].to = TableBlock
        BY <1>1 DEF IInv, Terminated
      <3> QED
        BY <1>1, <3>1, <3>2, <3>3
    <2> QED
      BY <1>1, <1>2, <1>4, <2>1 DEF Terminated, TableBlock
  <1> QED
    BY <1>2, <1>5, <1>6, <1>7, <1>8, <1>9 DEF IInv

(* Where a value goes to is a block or abort.                              *)
LEMMA CaseFacts ==
    ASSUME IInv, NEW d
    PROVE  /\ CaseOf(d) \in Int
           /\ CaseOf(d) = AbortBlock
              \/ /\ d \in DOMAIN jumpTable /\ CaseOf(d) = jumpTable[d]
                 /\ CaseOf(d) \in 1..Len(blocks)
                 /\ d \in Starts /\ At(code, d) = JUMPDEST
                 /\ blocks[CaseOf(d)].first = d
  BY DEF CaseOf, AbortBlock, IInv, Table

LEMMA ResolvedFacts ==
    ASSUME IInv, NEW term \in Terms
    PROVE  /\ Resolved(term) \in Terms
           /\ Resolved(term).kind = term.kind
           /\ term.kind \in {"jump", "branch"} =>
                /\ Resolved(term).dest = term.dest
                /\ Resolved(term).to = IF term.dest # Any THEN CaseOf(term.dest)
                                       ELSE term.to
  <1>1. CASE term.kind \in {"jump", "branch"}
    <2>1. term \in [kind : {"jump", "branch"}, dest : Nat \cup {Any}, to : Int]
      <3>1. NoTerm.kind = "none" /\ Exit("stopped").kind = "stopped"
            /\ Exit("aborted").kind = "aborted"
        BY DEF NoTerm, Exit
      <3>2. term \notin {NoTerm, Exit("stopped"), Exit("aborted")}
        BY <1>1, <3>1
      <3> QED
        BY <3>2 DEF Terms
    <2>2. CaseOf(term.dest) \in Int
      BY CaseFacts
    <2> QED
      BY <1>1, <2>1, <2>2 DEF Resolved, Terms
  <1>2. CASE term.kind \notin {"jump", "branch"}
    BY <1>2 DEF Resolved
  <1> QED
    BY <1>1, <1>2

(* A terminator that is resolved still fits.                               *)
LEMMA ResolvedFits ==
    ASSUME IInv, NEW term \in Terms, NEW b, NEW i, Fits(term, b, i)
    PROVE  Fits(Resolved(term), b, i)
  BY ResolvedFacts DEF Fits

LEMMA ResolveStep ==
    ASSUME IInv, Resolve, target' = Any
    PROVE  IInv'
  <1> DEFINE term == Resolved(terms[k])
  <1>1. /\ phase = "resolve" /\ phase' = "resolve" /\ k # StopBlock
        /\ NextBlock(k + 1)
        /\ terms' = [terms EXCEPT ![k] = term]
        /\ UNCHANGED <<code, splitVars, top, jumpTable, status>>
    BY DEF Resolve
  <1>2. /\ Blocks' /\ Contiguous' /\ Splitting'
        /\ code' = code /\ blocks' = blocks
    BY <1>1, LaterFacts
  <1>3. k' = k + 1 /\ k' \in 1..StopBlock /\ it' \in 0..Len(code)
    BY <1>1, NextBlockFacts
  <1>4. k \in 1..Len(blocks) /\ k \in Nat /\ terms[k] \in Terms
    BY <1>1, CurrentBlock, BlockFacts
  <1>5. /\ term \in Terms
        /\ term.kind = terms[k].kind
        /\ terms[k].kind \in {"jump", "branch"} =>
             /\ term.dest = terms[k].dest
             /\ term.to = IF terms[k].dest # Any THEN CaseOf(terms[k].dest)
                          ELSE terms[k].to
    BY <1>4, ResolvedFacts
  <1>6. \A b, i : Fits(terms[k], b, i) => Fits(term, b, i)
    BY <1>4, ResolvedFits
  <1> HIDE DEF term
  <1>7. /\ terms \in Seq(Terms) /\ Len(terms) = Len(blocks)
    BY DEF IInv, Shapes, TypeOK
  <1>8. /\ terms' \in Seq(Terms) /\ Len(terms') = Len(blocks)
        /\ terms'[k] = term
        /\ \A b \in 1..Len(blocks) : b # k => terms'[b] = terms[b]
    BY <1>1, <1>4, <1>5, <1>7
  <1>9. Compilation' /\ Run' /\ Landed'
    BY <1>1 DEF Compilation, Run, Landed, IInv
  <1>10. Shapes'
    BY <1>2, <1>8 DEF IInv, Shapes
  <1>11. TypeOK'
    <2>1. top' \in Nat \cup {Any} /\ status' \in {"running", "stopped", "aborted"}
      BY <1>1 DEF IInv, TypeOK
    <2> QED
      BY <1>1, <1>3, <1>8, <2>1, LaterTyped
  <1>12. Table'
    <2>1. \A b \in 1..Len(blocks) : Compiled(b)
      BY <1>1 DEF Compiled
    <2> QED
      BY <1>1, <1>2, <2>1, TableStays
  <1>13. Terminated'
    <2>1. \A d : CaseOf(d)' = CaseOf(d)
      BY <1>1 DEF CaseOf, AbortBlock
    <2>2. ASSUME NEW b \in 1..Len(blocks)
          PROVE  /\ TermRight(b)'
                 /\ terms'[b].kind \in {"jump", "branch"} =>
                      terms'[b].to = IF b < k + 1 /\ terms'[b].dest # Any
                                     THEN CaseOf(terms'[b].dest) ELSE TableBlock
      <3>1. /\ TermRight(b)
            /\ terms[b].kind \in {"jump", "branch"} =>
                 terms[b].to = IF b < k /\ terms[b].dest # Any
                               THEN CaseOf(terms[b].dest) ELSE TableBlock
        BY <1>1 DEF IInv, Terminated
      <3>2. CASE b # k
        <4>1. b < k + 1 <=> b < k
          BY <1>4, <3>2
        <4>2. terms'[b] = terms[b]
          BY <1>8, <3>2
        <4>3. TermRight(b)' <=> TermRight(b)
          BY <1>2, <4>2, TermRightStays
        <4> QED
          BY <3>1, <4>1, <4>2, <4>3
      <3>3. CASE b = k
        <4>1. terms'[b] = term /\ terms[b] = terms[k]
          BY <1>8, <3>3
        <4>2. b < k + 1 /\ ~(b < k)
          BY <1>4, <3>3
        <4>3. TermRight(b)'
          <5>1. /\ \A c, i : Clean(c, i)' <=> Clean(c, i)
                /\ \A t, c, i : Fits(t, c, i)' <=> Fits(t, c, i)
                /\ \A c : In(c)' = In(c)
            BY <1>2, SameBlocks
          <5>2. Clean(b, blocks[b].end) => term.kind = "none"
            BY <1>5, <3>1, <4>1 DEF TermRight
          <5>3. ASSUME NEW i \in In(b), EndsFlow(At(code, i)), Clean(b, i)
                PROVE  Fits(term, b, i)
            BY <1>6, <3>1, <4>1, <5>3 DEF TermRight
          <5> QED
            BY <1>2, <4>1, <5>1, <5>2, <5>3 DEF TermRight
        <4> QED
          BY <1>5, <3>1, <4>1, <4>2, <4>3
      <3> QED
        BY <3>2, <3>3
    <2> QED
      BY <1>1, <1>2, <1>3, <2>1, <2>2 DEF Terminated, TableBlock
  <1> QED
    BY <1>2, <1>9, <1>10, <1>11, <1>12, <1>13 DEF IInv

(* A block that is entered at its start.                                   *)
LEMMA RunBegins ==
    ASSUME IInv, UNCHANGED <<code, blocks>>,
           NEW b \in 1..Len(blocks), k' = b, it' = blocks[b].first
    PROVE  Run' /\ it' < blocks'[k'].end /\ k' # StopBlock'
  <1>1. /\ code' = code /\ blocks' = blocks /\ Ends' = Ends
        /\ StopBlock' = StopBlock
        /\ \A i : skipPushDataAndGetNext(i)' = skipPushDataAndGetNext(i)
        /\ In(b)' = In(b)
        /\ \A i : Clean(b, i)' <=> Clean(b, i)
    BY SameBlocks
  <1>2. PICK i : i = blocks[b].first
    OBVIOUS
  <1>3. /\ i \in Ends /\ i \in Nat /\ i < blocks[b].end /\ Clean(b, i)
        /\ blocks[b].end \in Nat
        /\ \A j \in In(b) : skipPushDataAndGetNext(j) # i
    BY <1>2, BlockBegins, BlockFacts
  <1>4. b # StopBlock
    BY DEF StopBlock, IInv, Shapes
  <1>5. AtInstruction'
    BY <1>1, <1>2, <1>3 DEF AtInstruction
  <1>6. Clean(k, it)'
    BY <1>1, <1>2, <1>3
  <1>7. \A j \in In(k)' : skipPushDataAndGetNext(j)' # it'
    BY <1>1, <1>2, <1>3
  <1> QED
    BY <1>1, <1>2, <1>3, <1>4, <1>5, <1>6, <1>7 DEF Run

LEMMA ResolveDoneStep ==
    ASSUME IInv, ResolveDone, target' = Any
    PROVE  IInv'
  <1>1. /\ phase = "resolve" /\ phase' = "run" /\ k = StopBlock
        /\ k' = 1 /\ it' = 0 /\ top' = Any
        /\ UNCHANGED <<code, splitVars, terms, jumpTable, status>>
    BY DEF ResolveDone, Entered
  <1>2. /\ Blocks' /\ Contiguous' /\ Splitting'
        /\ code' = code /\ blocks' = blocks /\ StopBlock' = StopBlock
        /\ Len(blocks) \in Nat /\ StopBlock = Len(blocks) + 1
    BY <1>1, LaterFacts
  <1>3. /\ StopBlock = 1 => Len(code) = 0
        /\ StopBlock # 1 => 1 \in 1..Len(blocks) /\ blocks[1].first = 0
        /\ 1 \in 1..StopBlock /\ 0 \in 0..Len(code)
    BY <1>1, FirstBlockBegins DEF IInv, Splitting
  <1>4. \A b \in 1..Len(blocks) : b < k
    BY <1>1, <1>2
  <1>5. Compilation' /\ Landed'
    BY <1>1 DEF Compilation, Landed, IInv
  <1>6. Run'
    <2>1. CASE StopBlock = 1
      BY <1>1, <1>2, <1>3, <2>1 DEF Run
    <2>2. CASE StopBlock # 1
      <3>1. PICK b : b = 1
        OBVIOUS
      <3>2. b \in 1..Len(blocks) /\ blocks[b].first = 0
        BY <1>3, <2>2, <3>1
      <3> QED
        BY <1>1, <1>2, <2>2, <3>1, <3>2, RunBegins
    <2> QED
      BY <2>1, <2>2
  <1>7. Shapes'
    BY <1>1, <1>2 DEF IInv, Shapes
  <1>8. TypeOK'
    <2>1. Len(terms') = Len(blocks) /\ status' \in {"running", "stopped", "aborted"}
      BY <1>1 DEF IInv, TypeOK
    <2> QED
      BY <1>1, <1>3, <2>1, LaterTyped
  <1>9. Table'
    <2>1. \A b \in 1..Len(blocks) : Compiled(b)
      BY <1>1 DEF Compiled
    <2> QED
      BY <1>1, <1>2, <2>1, TableStays
  <1>10. Terminated'
    <2>1. \A d : CaseOf(d)' = CaseOf(d)
      BY <1>1 DEF CaseOf, AbortBlock
    <2>2. ASSUME NEW b \in 1..Len(blocks)
          PROVE  /\ TermRight(b)'
                 /\ terms'[b].kind \in {"jump", "branch"} =>
                      terms'[b].to = IF terms'[b].dest # Any
                                     THEN CaseOf(terms'[b].dest) ELSE TableBlock
      <3>1. /\ TermRight(b)
            /\ terms[b].kind \in {"jump", "branch"} =>
                 terms[b].to = IF terms[b].dest # Any
                               THEN CaseOf(terms[b].dest) ELSE TableBlock
        BY <1>1, <1>4 DEF IInv, Terminated
      <3>2. TermRight(b)' <=> TermRight(b)
        BY <1>1, <1>2, TermRightStays
      <3> QED
        BY <1>1, <3>1, <3>2
    <2> QED
      BY <1>1, <1>2, <2>1, <2>2 DEF Terminated, TableBlock
  <1> QED
    BY <1>2, <1>5, <1>6, <1>7, <1>8, <1>9, <1>10 DEF IInv

-----------------------------------------------------------------------------
(* The compiled code.                                                      *)

LEMMA RunFrame ==
    ASSUME IInv, phase = "run", k' \in 1..StopBlock, it' \in 0..Len(code),
           top' \in Nat \cup {Any}, target' \in Nat \cup {Any},
           status' \in {"running", "stopped", "aborted"},
           UNCHANGED <<code, phase, splitVars, terms, jumpTable>>,
           Run', Landed'
    PROVE  IInv'
  <1>1. /\ Blocks' /\ Contiguous' /\ Splitting'
        /\ code' = code /\ blocks' = blocks
        /\ phase' = "run" /\ terms' = terms /\ jumpTable' = jumpTable
    BY LaterFacts
  <1>2. Compilation'
    BY <1>1 DEF Compilation
  <1>3. Shapes'
    BY <1>1 DEF IInv, Shapes
  <1>4. TypeOK'
    <2>1. Len(terms') = Len(blocks)
      BY <1>1 DEF IInv, TypeOK
    <2> QED
      BY <1>1, <2>1, LaterTyped
  <1>5. Table'
    <2>1. \A b \in 1..Len(blocks) : Compiled(b)
      BY DEF Compiled
    <2> QED
      BY <1>1, <2>1, TableStays
  <1>6. Terminated'
    <2>1. \A d : CaseOf(d)' = CaseOf(d)
      BY <1>1 DEF CaseOf, AbortBlock
    <2>2. ASSUME NEW b \in 1..Len(blocks)
          PROVE  /\ TermRight(b)'
                 /\ terms'[b].kind \in {"jump", "branch"} =>
                      terms'[b].to = IF terms'[b].dest # Any
                                     THEN CaseOf(terms'[b].dest) ELSE TableBlock
      <3>1. /\ TermRight(b)
            /\ terms[b].kind \in {"jump", "branch"} =>
                 terms[b].to = IF terms[b].dest # Any
                               THEN CaseOf(terms[b].dest) ELSE TableBlock
        BY DEF IInv, Terminated
      <3>2. TermRight(b)' <=> TermRight(b)
        BY <1>1, TermRightStays
      <3> QED
        BY <1>1, <3>1, <3>2
    <2> QED
      BY <1>1, <2>1, <2>2 DEF Terminated, TableBlock
  <1> QED
    BY <1>1, <1>2, <1>3, <1>4, <1>5, <1>6 DEF IInv

(* The end of the code, and the terminators that leave it.                 *)
LEMMA RunEnds ==
    ASSUME IInv, phase = "run", NEW how \in {"stopped", "aborted"}, Ended(how),
           target' \in Nat \cup {Any}, target' # Any => how = "aborted"
    PROVE  IInv'
  <1>1. /\ UNCHANGED <<code, phase, splitVars, k, it, top, terms, jumpTable>>
        /\ status' = how
    BY DEF Ended
  <1>2. code' = code /\ blocks' = blocks /\ phase' = "run" /\ k' = k /\ it' = it
        /\ top' = top
    BY <1>1 DEF splitVars
  <1>3. Run'
    <2>1. Run
      BY DEF IInv
    <2>2. /\ Ends' = Ends /\ StopBlock' = StopBlock
          /\ \A i : skipPushDataAndGetNext(i)' = skipPushDataAndGetNext(i)
          /\ \A b : In(b)' = In(b)
          /\ \A b, i : Clean(b, i)' <=> Clean(b, i)
      BY <1>2, SameBlocks
    <2>3. CASE k = StopBlock
      BY <1>2, <2>1, <2>2, <2>3 DEF Run
    <2>4. CASE k # StopBlock
      <3>1. AtInstruction'
        BY <1>2, <2>1, <2>2, <2>4 DEF Run, AtInstruction
      <3>2. Clean(k, it)'
        BY <1>2, <2>1, <2>2, <2>4 DEF Run
      <3>3. PICK b, i : b = k /\ i = it
        OBVIOUS
      <3>4. \A j \in In(b) :
              skipPushDataAndGetNext(j) = i /\ IsPush(At(code, j)) =>
                  top = PushValue(code, j)
        BY <2>1, <2>4, <3>3 DEF Run
      <3>5. \A j \in In(k)' :
              skipPushDataAndGetNext(j)' = i /\ IsPush(At(code, j)) =>
                  top = PushValue(code, j)
        BY <1>2, <2>2, <3>3, <3>4
      <3> QED
        BY <1>2, <2>2, <2>4, <3>1, <3>2, <3>3, <3>5 DEF Run
    <2> QED
      BY <2>3, <2>4
  <1>4. Landed'
    BY <1>1, <1>2 DEF Landed
  <1>5. /\ k' \in 1..StopBlock /\ it' \in 0..Len(code) /\ top' \in Nat \cup {Any}
    BY <1>2 DEF IInv, TypeOK
  <1> QED
    BY <1>1, <1>3, <1>4, <1>5, RunFrame

(* An instruction that does not end the flow.                              *)
LEMMA RunGoesOn ==
    ASSUME IInv, Running, it < blocks[k].end, ~EndsFlow(Inst), target' = Any,
           UNCHANGED <<code, phase, splitVars, k, terms, jumpTable, status>>,
           it' = skipPushDataAndGetNext(it),
           top' \in Nat \cup {Any},
           IsPush(Inst) => top' = PushValue(code, it)
    PROVE  IInv'
  <1>1. /\ phase = "run" /\ k # StopBlock /\ status = "running"
        /\ code' = code /\ blocks' = blocks
    BY DEF Running, splitVars
  <1>2. PICK b, here, next : /\ b = k /\ here = it
                             /\ next = skipPushDataAndGetNext(it)
    OBVIOUS
  <1>3. /\ here \in Nat /\ blocks[b].first <= here
        /\ next \in Ends /\ here < next /\ next <= blocks[b].end
        /\ next \in 0..Len(code)
        /\ \A j \in In(b) : skipPushDataAndGetNext(j) = next => j = here
    BY <1>1, <1>2, InBlock
  <1>4. b \in 1..Len(blocks) /\ blocks[b].first \in Nat
    BY <1>1, <1>2, CurrentBlock, BlockFacts
  <1>5. Clean(b, next)
    BY <1>1, <1>2, CleanNext DEF IInv, Run
  <1>6. /\ Ends' = Ends /\ StopBlock' = StopBlock
        /\ \A i : skipPushDataAndGetNext(i)' = skipPushDataAndGetNext(i)
        /\ In(b)' = In(b)
        /\ Clean(b, next)' <=> Clean(b, next)
    BY <1>1, SameBlocks
  <1>7. Run'
    <2>1. AtInstruction'
      BY <1>1, <1>2, <1>3, <1>4, <1>6 DEF AtInstruction
    <2>2. Clean(k, it)'
      BY <1>2, <1>5, <1>6
    <2>3. \A j \in In(k)' :
            skipPushDataAndGetNext(j)' = next /\ IsPush(At(code, j)) =>
                top' = PushValue(code, j)
      BY <1>2, <1>3, <1>6 DEF Inst
    <2> QED
      BY <1>1, <1>2, <1>6, <2>1, <2>2, <2>3 DEF Run
  <1>8. Landed'
    BY <1>1 DEF Landed
  <1>9. k' \in 1..StopBlock /\ status' \in {"running", "stopped", "aborted"}
    BY DEF IInv, TypeOK
  <1> QED
    BY <1>1, <1>2, <1>3, <1>7, <1>8, <1>9, RunFrame

LEMMA RunPushStep ==
    ASSUME IInv, RunPush, target' = Any
    PROVE  IInv'
  <1>1. ~EndsFlow(Inst)
    BY DEF RunPush, EndsFlow
  <1>2. it' = skipPushDataAndGetNext(it) /\ it \in Nat
    BY InBlock DEF RunPush, Running
  <1>3. top' \in Nat
    BY <1>2, PushValueIsNatural DEF RunPush, IInv, Shapes
  <1> QED
    BY <1>1, <1>2, <1>3, RunGoesOn DEF RunPush

LEMMA RunPopStep ==
    ASSUME IInv, RunPop, target' = Any
    PROVE  IInv'
  <1>1. ~EndsFlow(Inst) /\ ~IsPush(Inst)
    BY BytecodeAssumption DEF RunPop, EndsFlow, IsPush
  <1>2. it' = skipPushDataAndGetNext(it)
    BY <1>1, InBlock DEF RunPop, Running
  <1> QED
    BY <1>1, <1>2, RunGoesOn DEF RunPop

LEMMA RunJumpDestStep ==
    ASSUME IInv, RunJumpDest, target' = Any
    PROVE  IInv'
  <1>1. ~EndsFlow(Inst) /\ ~IsPush(Inst)
    BY BytecodeAssumption DEF RunJumpDest, EndsFlow, IsPush
  <1>2. it' = skipPushDataAndGetNext(it)
    BY <1>1, InBlock DEF RunJumpDest, Running
  <1>3. top' \in Nat \cup {Any}
    BY DEF RunJumpDest, IInv, TypeOK
  <1> QED
    BY <1>1, <1>2, <1>3, RunGoesOn DEF RunJumpDest

LEMMA RunStopStep ==
    ASSUME IInv, RunStop, target' = Any
    PROVE  IInv'
  BY RunEnds DEF RunStop

LEMMA RunExitStep ==
    ASSUME IInv, RunExit, target' = Any
    PROVE  IInv'
  BY RunEnds DEF RunExit, AtTerm, Running

(* A terminator is reached at its instruction, or at the end of a block     *)
(* that has none.                                                          *)
LEMMA TermFacts ==
    ASSUME IInv, AtTerm
    PROVE  /\ phase = "run" /\ status = "running" /\ k # StopBlock
           /\ k \in 1..Len(blocks) /\ Clean(k, it)
           /\ terms[k].kind = "none" => it = blocks[k].end
           /\ terms[k].kind # "none" =>
                /\ it < blocks[k].end /\ EndsFlow(Inst)
                /\ Fits(terms[k], k, it)
  <1>1. /\ phase = "run" /\ status = "running" /\ k # StopBlock
        /\ it < blocks[k].end => EndsFlow(Inst)
    BY DEF AtTerm, Running
  <1>2. k \in 1..Len(blocks)
    BY <1>1, CurrentBlock
  <1>3. Clean(k, it) /\ AtInstruction
    BY <1>1 DEF IInv, Run
  <1>4. TermRight(k)
    BY <1>1, <1>2 DEF IInv, Terminated
  <1>5. CASE it = blocks[k].end
    <2>1. terms[k].kind = "none"
      BY <1>3, <1>4, <1>5 DEF TermRight
    <2> QED
      BY <1>1, <1>2, <1>3, <1>5, <2>1
  <1>6. CASE it < blocks[k].end
    <2>1. it \in In(k)
      BY <1>1, <1>6, InBlock
    <2>2. Fits(terms[k], k, it)
      BY <1>1, <1>3, <1>4, <1>6, <2>1 DEF TermRight, Inst
    <2>3. terms[k].kind # "none"
      <3>1. terms[k].kind = CASE At(code, it) = JUMP -> "jump"
                              [] At(code, it) = JUMPI -> "branch"
                              [] At(code, it) = STOP -> "stopped"
                              [] OTHER -> "aborted"
        BY <2>2 DEF Fits
      <3> QED
        BY <3>1
    <2> QED
      BY <1>1, <1>2, <1>3, <1>6, <2>2, <2>3
  <1>7. it < blocks[k].end \/ it = blocks[k].end
    <2>1. it \in Nat /\ blocks[k].end \in Nat
      BY <1>2, BlockFacts DEF IInv, TypeOK
    <2> QED
      BY <1>3, <2>1 DEF AtInstruction
  <1> QED
    BY <1>5, <1>6, <1>7

(* Control that runs over the end of its block arrives right behind it.    *)
LEMMA RunsInto ==
    ASSUME IInv, Running, Clean(k, it), NextBlock(k + 1),
           \/ it = blocks[k].end
           \/ it < blocks[k].end /\ Inst = JUMPI
    PROVE  it' = blocks[k].end
  <1>1. phase = "run" /\ k # StopBlock
    BY DEF Running
  <1>2. /\ k \in 1..Len(blocks) /\ k \in Nat
        /\ blocks[k].end \in Nat /\ In(k) \subseteq Starts
        /\ blocks[k].end <= Len(code)
    BY <1>1, CurrentBlock, BlockFacts
  <1>3. /\ Len(blocks) \in Nat /\ Len(code) \in Nat /\ curr = Len(code)
        /\ begin \in 0..curr
    BY <1>1, CodeFacts DEF IInv, Shapes, Splitting, TypeOK
  <1>4. Falls(k)
    <2>1. PICK b : b = k
      OBVIOUS
    <2>2. ASSUME NEW i \in In(b), skipPushDataAndGetNext(i) = blocks[b].end
          PROVE  ~DeadBehind(At(code, i))
      <3>1. CASE it = blocks[k].end
        <4>1. i < blocks[b].end
          BY <2>2 DEF In
        <4>2. ~EndsFlow(At(code, i))
          BY <2>1, <3>1, <4>1 DEF Clean
        <4> QED
          BY <4>2, BytecodeAssumption DEF EndsFlow, DeadBehind, IsPush
      <3>2. CASE it < blocks[k].end /\ Inst = JUMPI
        <4>1. LeavesBlock(it)
          BY <3>2 DEF LeavesBlock, Inst
        <4>2. /\ skipPushDataAndGetNext(it) = blocks[k].end
              /\ \A j \in In(k) :
                   skipPushDataAndGetNext(j) = skipPushDataAndGetNext(it) =>
                       j = it
          BY <1>1, <3>2, <4>1, InBlock
        <4>3. i = it
          BY <2>1, <2>2, <4>2
        <4>4. At(code, i) = JUMPI
          BY <3>2, <4>3 DEF Inst
        <4> QED
          BY <4>4, BytecodeAssumption DEF DeadBehind
      <3> QED
        BY <3>1, <3>2
    <2> QED
      BY <2>1, <2>2 DEF Falls
  <1>5. CASE k < Len(blocks)
    <2>1. k + 1 # StopBlock
      BY <1>2, <1>3, <1>5 DEF StopBlock
    <2>2. blocks[k + 1].first = blocks[k].end
      BY <1>2, <1>4, <1>5 DEF IInv, Contiguous
    <2> QED
      BY <2>1, <2>2 DEF NextBlock
  <1>6. CASE k = Len(blocks)
    <2>1. ~isDead /\ begin = blocks[k].end
      BY <1>2, <1>3, <1>4, <1>6 DEF IInv, Contiguous
    <2>2. ~(begin < curr)
      BY <1>3, <2>1 DEF IInv, Splitting
    <2>3. blocks[k].end = Len(code)
      BY <1>2, <1>3, <2>1, <2>2
    <2>4. k + 1 = StopBlock
      BY <1>6 DEF StopBlock
    <2> QED
      BY <2>3, <2>4 DEF NextBlock
  <1> QED
    BY <1>2, <1>3, <1>5, <1>6

(* To the next block, or to the one behind the code.                       *)
LEMMA RunIntoNext ==
    ASSUME IInv, Running, NextBlock(k + 1), target' = Any,
           UNCHANGED <<code, phase, splitVars, terms, jumpTable, status>>,
           top' \in Nat \cup {Any}
    PROVE  IInv'
  <1>1. /\ phase = "run" /\ k # StopBlock /\ status = "running"
        /\ code' = code /\ blocks' = blocks /\ phase' = "run"
        /\ StopBlock' = StopBlock
    BY DEF Running, splitVars, StopBlock
  <1>2. /\ k' = k + 1 /\ k' \in 1..StopBlock /\ it' \in 0..Len(code)
        /\ k + 1 # StopBlock => /\ k + 1 \in 1..Len(blocks)
                                /\ it' = blocks[k + 1].first
    BY <1>1, NextBlockFacts
  <1>3. Run'
    <2>1. CASE k + 1 = StopBlock
      <3>1. it' = Len(code)
        BY <2>1 DEF NextBlock
      <3> QED
        BY <1>1, <1>2, <2>1, <3>1 DEF Run
    <2>2. CASE k + 1 # StopBlock
      <3>1. PICK b : b = k + 1
        OBVIOUS
      <3>2. b \in 1..Len(blocks) /\ k' = b /\ it' = blocks[b].first
        BY <1>2, <2>2, <3>1
      <3> QED
        BY <1>1, <3>2, RunBegins
    <2> QED
      BY <2>1, <2>2
  <1>4. Landed'
    BY <1>1 DEF Landed
  <1>5. status' \in {"running", "stopped", "aborted"}
    BY DEF IInv, TypeOK
  <1> QED
    BY <1>1, <1>2, <1>3, <1>4, <1>5, RunFrame

LEMMA ArrivesNext ==
    ASSUME IInv, k # StopBlock, Arrive(k + 1)
    PROVE  NextBlock(k + 1)
           /\ UNCHANGED <<code, phase, splitVars, terms, jumpTable, status>>
  <1>1. k + 1 # AbortBlock
    BY CurrentBlock DEF AbortBlock
  <1> QED
    BY <1>1 DEF Arrive

LEMMA RunOnStep ==
    ASSUME IInv, RunOn, target' = Any
    PROVE  IInv'
  <1>1. /\ Running /\ top' \in Nat \cup {Any}
        /\ NextBlock(k + 1)
        /\ UNCHANGED <<code, phase, splitVars, terms, jumpTable, status>>
    BY ArrivesNext DEF RunOn, AtTerm, Running, IInv, TypeOK
  <1> QED
    BY <1>1, RunIntoNext

LEMMA RunNotTakenStep ==
    ASSUME IInv, RunNotTaken, target' = Any
    PROVE  IInv'
  <1>1. /\ Running /\ top' = Any
        /\ NextBlock(k + 1)
        /\ UNCHANGED <<code, phase, splitVars, terms, jumpTable, status>>
    BY ArrivesNext DEF RunNotTaken, AtTerm, Running
  <1> QED
    BY <1>1, RunIntoNext

(* A jump to a value leads to the block of the JUMPDEST there, or aborts.   *)
LEMMA JumpsTo ==
    ASSUME IInv, Running, NEW d, Arrive(CaseOf(d))
    PROVE  \/ CaseOf(d) = AbortBlock /\ Ended("aborted")
           \/ /\ d \in DOMAIN jumpTable /\ d \in Starts
              /\ At(code, d) = JUMPDEST
              /\ CaseOf(d) \in 1..Len(blocks) /\ blocks[CaseOf(d)].first = d
              /\ k' = CaseOf(d) /\ it' = d
              /\ UNCHANGED <<code, phase, splitVars, terms, jumpTable, status>>
  <1>1. CASE CaseOf(d) = AbortBlock
    BY <1>1 DEF Arrive
  <1>2. CASE CaseOf(d) # AbortBlock
    <2>1. /\ d \in DOMAIN jumpTable /\ CaseOf(d) \in 1..Len(blocks)
          /\ d \in Starts /\ At(code, d) = JUMPDEST
          /\ blocks[CaseOf(d)].first = d
      BY <1>2, CaseFacts
    <2>2. CaseOf(d) # StopBlock
      BY <2>1 DEF StopBlock, IInv, Shapes
    <2>3. /\ NextBlock(CaseOf(d))
          /\ UNCHANGED <<code, phase, splitVars, terms, jumpTable, status>>
      BY <1>2 DEF Arrive
    <2> QED
      BY <2>1, <2>2, <2>3 DEF NextBlock
  <1> QED
    BY <1>1, <1>2

(* Where a jump may go: to its constant, or to what the stack says.        *)
LEMMA JumpFacts ==
    ASSUME IInv, RunJump
    PROVE  \E d \in Nat :
             /\ target' = d /\ Arrive(CaseOf(d))
             /\ \/ terms[k].dest = d
                \/ terms[k].dest = Any
                   /\ d \in IF top = Any THEN 0..Len(code) ELSE {top}
  <1>1. AtTerm /\ terms[k].kind \in {"jump", "branch"}
    BY DEF RunJump
  <1>2. /\ phase = "run" /\ k \in 1..Len(blocks)
    BY <1>1, TermFacts
  <1>3. /\ terms[k].to = IF terms[k].dest # Any THEN CaseOf(terms[k].dest)
                         ELSE TableBlock
    BY <1>1, <1>2 DEF IInv, Terminated
  <1>4. terms[k].dest \in Nat \cup {Any}
    <2>1. terms[k] \in Terms
      BY <1>2, BlockFacts
    <2>2. NoTerm.kind = "none" /\ Exit("stopped").kind = "stopped"
          /\ Exit("aborted").kind = "aborted"
      BY DEF NoTerm, Exit
    <2> QED
      BY <1>1, <2>1, <2>2 DEF Terms
  <1>5. \A d : CaseOf(d) # TableBlock
    <2>1. \A b \in 1..Len(blocks) : b # TableBlock
      BY DEF TableBlock
    <2> QED
      BY <2>1, CaseFacts DEF TableBlock, AbortBlock
  <1>6. CASE terms[k].dest # Any
    BY <1>3, <1>4, <1>5, <1>6 DEF RunJump
  <1>7. CASE terms[k].dest = Any
    <2>1. PICK d \in IF top = Any THEN 0..Len(code) ELSE {top} :
            Arrive(CaseOf(d)) /\ target' = d
      BY <1>3, <1>7 DEF RunJump
    <2>2. d \in Nat
      BY <2>1 DEF IInv, TypeOK
    <2> QED
      BY <1>7, <2>1, <2>2
  <1> QED
    BY <1>6, <1>7

LEMMA RunJumpStep ==
    ASSUME IInv, RunJump
    PROVE  IInv'
  <1>1. PICK d \in Nat : target' = d /\ Arrive(CaseOf(d))
    BY JumpFacts
  <1>2. /\ AtTerm /\ Running /\ phase = "run" /\ status = "running"
        /\ top' = IF status' = "aborted" THEN top ELSE Any
    BY DEF RunJump, AtTerm, Running
  <1>3. CASE Ended("aborted")
    BY <1>1, <1>2, <1>3, RunEnds
  <1>4. CASE /\ d \in DOMAIN jumpTable /\ d \in Starts
             /\ At(code, d) = JUMPDEST
             /\ CaseOf(d) \in 1..Len(blocks) /\ blocks[CaseOf(d)].first = d
             /\ k' = CaseOf(d) /\ it' = d
             /\ UNCHANGED <<code, phase, splitVars, terms, jumpTable, status>>
    <2>1. code' = code /\ blocks' = blocks /\ phase' = "run" /\ top' = Any
      BY <1>2, <1>4 DEF splitVars
    <2>2. PICK b : b = CaseOf(d)
      OBVIOUS
    <2>3. Run' /\ it' < blocks'[k'].end /\ k' # StopBlock'
      BY <1>4, <2>1, <2>2, RunBegins
    <2>4. Landed'
      <3>1. Inst' = JUMPDEST
        BY <1>4, <2>1 DEF Inst
      <3> QED
        BY <2>1, <2>3, <3>1 DEF Landed
    <2>5. k' \in 1..StopBlock /\ it' \in 0..Len(code)
      <3>1. StopBlock = Len(blocks) + 1 /\ Len(blocks) \in Nat
        BY DEF StopBlock, IInv, Shapes
      <3> QED
        BY <1>4, <2>2, <3>1, BlockBegins
    <2>6. status' \in {"running", "stopped", "aborted"}
      BY <1>2, <1>4
    <2> QED
      BY <1>1, <1>2, <1>4, <2>1, <2>3, <2>4, <2>5, <2>6, RunFrame
  <1> QED
    BY <1>1, <1>2, <1>3, <1>4, JumpsTo

-----------------------------------------------------------------------------
(* The invariant holds for ever.                                           *)

LEMMA StutterIInv == IInv /\ UNCHANGED vars => IInv'
  <1> SUFFICES ASSUME IInv, UNCHANGED vars PROVE IInv'
    OBVIOUS
  <1>1. /\ code' = code /\ phase' = phase /\ curr' = curr /\ begin' = begin
        /\ isDead' = isDead /\ blocks' = blocks /\ k' = k /\ it' = it
        /\ top' = top /\ terms' = terms /\ jumpTable' = jumpTable
        /\ target' = target /\ status' = status
    BY DEF vars
  <1> QED
    BY <1>1 DEF IInv, TypeOK, Shapes, Blocks, Contiguous, Splitting, Table,
       Terminated, Compilation, Run, Landed, StopBlock, Starts, Ends, In,
       Clean, LeavesBlock, Falls, Compiled, Constant, Fits, TermRight, CaseOf,
       AtInstruction, Inst, skipPushDataAndGetNext

LEMMA NextIInv == IInv /\ [Next]_vars => IInv'
  <1> SUFFICES ASSUME IInv, [Next]_vars PROVE IInv'
    OBVIOUS
  <1>1. CASE RunJump
    BY <1>1, RunJumpStep
  <1>2. CASE target' = Any /\ Split
    BY <1>2, SplitStep
  <1>3. CASE target' = Any /\ SplitDone
    BY <1>3, SplitDoneStep
  <1>4. CASE target' = Any /\ CompilePush
    BY <1>4, CompilePushStep
  <1>5. CASE target' = Any /\ CompilePop
    BY <1>5, CompilePopStep
  <1>6. CASE target' = Any /\ CompileJumpDest
    BY <1>6, CompileJumpDestStep
  <1>7. CASE target' = Any /\ CompileTerm
    BY <1>7, CompileTermStep
  <1>8. CASE target' = Any /\ BlockDone
    BY <1>8, BlockDoneStep
  <1>9. CASE target' = Any /\ CompileDone
    BY <1>9, CompileDoneStep
  <1>10. CASE target' = Any /\ Resolve
    BY <1>10, ResolveStep
  <1>11. CASE target' = Any /\ ResolveDone
    BY <1>11, ResolveDoneStep
  <1>12. CASE target' = Any /\ RunStop
    BY <1>12, RunStopStep
  <1>13. CASE target' = Any /\ RunPush
    BY <1>13, RunPushStep
  <1>14. CASE target' = Any /\ RunPop
    BY <1>14, RunPopStep
  <1>15. CASE target' = Any /\ RunJumpDest
    BY <1>15, RunJumpDestStep
  <1>16. CASE target' = Any /\ RunExit
    BY <1>16, RunExitStep
  <1>17. CASE target' = Any /\ RunOn
    BY <1>17, RunOnStep
  <1>18. CASE target' = Any /\ RunNotTaken
    BY <1>18, RunNotTakenStep
  <1>19. CASE UNCHANGED vars
    BY <1>19, StutterIInv
  <1> QED
    BY <1>1, <1>2, <1>3, <1>4, <1>5, <1>6, <1>7, <1>8, <1>9, <1>10, <1>11,
       <1>12, <1>13, <1>14, <1>15, <1>16, <1>17, <1>18, <1>19 DEF Next

LEMMA Invariance == Spec => []IInv
  BY InitIInv, NextIInv, PTL DEF Spec

(* The loop of createBasicBlocks() stays inside the code, every block has  *)
(* at least one instruction, and there is a terminator for every block.    *)
THEOREM TypeCorrect == Spec => []TypeOK
  <1>1. IInv => TypeOK
    BY DEF IInv
  <1> QED
    BY <1>1, Invariance, PTL

(* "JUMPDEST must be the first instruction of a basic block"               *)
(* (Compiler.cpp:621): for all codes, whatever was dropped as unreachable   *)
(* in front of it and whatever it looks like as data of a PUSH.            *)
THEOREM JumpDestsComeFirst == Spec => []JumpDestIsFirst
  <1>1. IInv => JumpDestIsFirst
    BY InBlock DEF JumpDestIsFirst, Compiling
  <1> QED
    BY <1>1, Invariance, PTL

-----------------------------------------------------------------------------
(* The EVM's own account of where instructions start: a recursive function *)
(* from positions to truth values.                                         *)

StartsStep(c, v) ==
    [i \in Nat |-> \/ i = 0
                   \/ \E j \in 0..i - 1 : v[j] /\ Over(c, j) = i]

LEMMA StartsStepHasValue ==
    ASSUME NEW c
    PROVE  \E v : v = StartsStep(c, v)
  <1> DEFINE Forward(C) == 0 \in C /\ \A j \in C : Over(c, j) \in C
             S == {i \in Nat : \A C \in SUBSET Nat : Forward(C) => i \in C}
             v == [i \in Nat |-> i \in S]
  <1>1. 0 \in S
    OBVIOUS
  <1>2. ASSUME NEW j \in S
        PROVE  Over(c, j) \in S
    <2>1. Over(c, j) \in Nat
      BY OverFacts
    <2> QED
      BY <2>1
  <1>3. ASSUME NEW i \in S, i # 0
        PROVE  \E j \in S : Over(c, j) = i
    <2> SUFFICES ASSUME \A j \in S : Over(c, j) # i PROVE FALSE
      OBVIOUS
    <2>1. S \ {i} \in SUBSET Nat
      OBVIOUS
    <2>2. Forward(S \ {i})
      BY <1>1, <1>2, <1>3
    <2> QED
      BY <2>1, <2>2
  <1>4. S \subseteq Nat
    OBVIOUS
  <1> HIDE DEF S
  <1>5. ASSUME NEW i \in Nat
        PROVE  i \in S <=> \/ i = 0
                           \/ \E j \in 0..i - 1 : v[j] /\ Over(c, j) = i
    <2>1. \A j \in 0..i - 1 : j \in Nat /\ (v[j] <=> j \in S)
      <3>1. \A j \in Nat : v[j] <=> j \in S
        BY Zenon
      <3>2. \A j \in 0..i - 1 : j \in Nat
        OBVIOUS
      <3> QED
        BY <3>1, <3>2, Zenon
    <2>2. \A j \in S : Over(c, j) = i => j \in 0..i - 1
      <3> SUFFICES ASSUME NEW j \in S, Over(c, j) = i PROVE j \in 0..i - 1
        OBVIOUS
      <3>1. j \in Nat /\ j < i
        BY <1>4, OverFacts
      <3> QED
        BY <3>1
    <2> QED
      BY <1>1, <1>2, <1>3, <2>1, <2>2
  <1> HIDE DEF v
  <1>6. v = [i \in Nat |-> i \in S]
    BY DEF v
  <1>7. v = StartsStep(c, v)
    <2>1. \A i \in Nat :
            (i \in S) = (\/ i = 0
                         \/ \E j \in 0..i - 1 : v[j] /\ Over(c, j) = i)
      <3>1. ASSUME NEW i \in Nat
            PROVE  (i \in S) = (\/ i = 0
                                \/ \E j \in 0..i - 1 : v[j] /\ Over(c, j) = i)
        <4>1. i \in S <=> \/ i = 0
                          \/ \E j \in 0..i - 1 : v[j] /\ Over(c, j) = i
          BY <1>5
        <4>2. CASE i \in S
          <5>1. (i \in S) = TRUE
            BY <4>2
          <5>2. (\/ i = 0
                 \/ \E j \in 0..i - 1 : v[j] /\ Over(c, j) = i) = TRUE
            BY <4>1, <4>2
          <5> QED
            BY <5>1, <5>2
        <4>3. CASE i \notin S
          <5>1. (i \in S) = FALSE
            BY <4>3
          <5>2. (\/ i = 0
                 \/ \E j \in 0..i - 1 : v[j] /\ Over(c, j) = i) = FALSE
            BY <4>1, <4>3
          <5> QED
            BY <5>1, <5>2
        <4> QED
          BY <4>2, <4>3, Zenon
      <3> QED
        BY <3>1
    <2> QED
      BY <1>6, <2>1, Zenon DEF StartsStep
  <1> QED
    BY <1>7

LEMMA StartsStepAgrees ==
    ASSUME NEW c \in Codes, NEW v, v = StartsStep(c, v)
    PROVE  \A i \in 0..Len(c) - 1 : v[i] <=> i \in StartsOf(c)
  <1> DEFINE Bad == {i \in 0..Len(c) - 1 : ~(v[i] <=> i \in StartsOf(c))}
  <1> SUFFICES ASSUME Bad # {} PROVE FALSE
    OBVIOUS
  <1>1. Len(c) \in Nat /\ Bad \subseteq Nat
    BY CodeFacts
  <1>2. PICK i \in Bad : \A y \in Bad : i <= y
    BY <1>1, LeastNumber
  <1>3. /\ i \in 0..Len(c) - 1 /\ i \in Nat
        /\ \A j \in 0..i - 1 : v[j] <=> j \in StartsOf(c)
    BY <1>1, <1>2
  <1>4. v[i] <=> \/ i = 0
                 \/ \E j \in 0..i - 1 : v[j] /\ Over(c, j) = i
    BY <1>3 DEF StartsStep
  <1>5. i \in StartsOf(c) <=> i = 0 \/ \E j \in StartsOf(c) : Over(c, j) = i
    BY <1>3, StartsEquation
  <1>6. \A j \in StartsOf(c) : Over(c, j) = i => j \in 0..i - 1
    <2> SUFFICES ASSUME NEW j \in StartsOf(c), Over(c, j) = i
                 PROVE  j \in 0..i - 1
      OBVIOUS
    <2>1. j \in Nat
      BY <1>1 DEF StartsOf
    <2>2. j < i
      BY <2>1, OverFacts
    <2> QED
      BY <1>3, <2>1, <2>2
  <1>7. ~(v[i] <=> i \in StartsOf(c))
    BY <1>2
  <1> QED
    BY <1>3, <1>4, <1>5, <1>6, <1>7

LEMMA SameStarts ==
    ASSUME code \in Codes
    PROVE  Evm!Starts = Starts
  <1> DEFINE v == CHOOSE w : w = StartsStep(code, w)
  <1>1. v = StartsStep(code, v)
    BY StartsStepHasValue
  <1>2. Evm!Starts = {i \in 0..Len(code) - 1 : v[i]}
    BY DEF Evm!Starts, StartsStep, Over, Evm!At, At, Evm!DataLength, DataLength,
       Evm!IsPush, IsPush
  <1> HIDE DEF v
  <1>3. \A i \in 0..Len(code) - 1 : v[i] <=> i \in StartsOf(code)
    BY <1>1, StartsStepAgrees
  <1> QED
    BY <1>2, <1>3 DEF Starts, StartsOf

LEMMA SameValues ==
    /\ \A c, i : Evm!At(c, i) = At(c, i) /\ Evm!PushValue(c, i) = PushValue(c, i)
    /\ \A b : /\ Evm!IsPush(b) <=> IsPush(b)
              /\ Evm!IsKnown(b) <=> IsKnown(b)
              /\ Evm!DataLength(b) = DataLength(b)
  <1>1. \A c, i : Evm!At(c, i) = At(c, i) /\ Evm!PushValue(c, i) = PushValue(c, i)
    BY DEF Evm!At, At, Evm!PushValue, PushValue, Evm!DataLength, DataLength,
       Evm!IsPush, IsPush
  <1>2. \A b : /\ Evm!IsPush(b) <=> IsPush(b)
               /\ Evm!IsKnown(b) <=> IsKnown(b)
               /\ Evm!DataLength(b) = DataLength(b)
    BY DEF Evm!IsPush, IsPush, Evm!IsKnown, IsKnown, Evm!DataLength, DataLength
  <1> QED
    BY <1>1, <1>2

-----------------------------------------------------------------------------
(* The compiled control flow is the EVM's.                                 *)

(* The jump table finds the EVM's destinations and no other.               *)
LEMMA SameDests ==
    ASSUME IInv, phase = "run", NEW d
    PROVE  d \in Evm!Dests <=> CaseOf(d) # AbortBlock
  <1>1. Evm!Dests = {i \in Starts : At(code, i) = JUMPDEST}
    <2>1. Evm!Starts = Starts
      BY SameStarts DEF IInv, Shapes
    <2> QED
      BY <2>1, SameValues DEF Evm!Dests
  <1>2. CaseOf(d) # AbortBlock => d \in Starts /\ At(code, d) = JUMPDEST
    BY CaseFacts
  <1>3. ASSUME d \in Starts, At(code, d) = JUMPDEST
        PROVE  CaseOf(d) # AbortBlock
    <2>1. /\ Len(code) \in Nat /\ Starts \subseteq Nat
          /\ \A i \in Starts : i < Len(code)
      BY PositionFacts DEF IInv, Shapes
    <2>2. curr = Len(code) /\ begin \in Nat
      BY <2>1 DEF IInv, Splitting, TypeOK
    <2>3. \/ \E b \in 1..Len(blocks) : blocks[b].first = d
          \/ ~isDead /\ d = begin
      BY <1>3, <2>1, <2>2 DEF IInv, Splitting
    <2>4. ~(~isDead /\ d = begin)
      BY <1>3, <2>1, <2>2 DEF IInv, Splitting
    <2>5. PICK b \in 1..Len(blocks) : blocks[b].first = d
      BY <2>3, <2>4
    <2>6. d \in DOMAIN jumpTable
      BY <1>3, <2>5 DEF IInv, Table, Compiled
    <2>7. CaseOf(d) \in 1..Len(blocks)
      BY <2>6 DEF CaseOf, IInv, Table
    <2> QED
      BY <2>7 DEF AbortBlock
  <1> QED
    BY <1>1, <1>2, <1>3

LEMMA InitRefines == Init => Evm!Init
  BY DEF Init, Evm!Init

(* Steps that the EVM does not take.                                       *)
LEMMA CompilerStutters ==
    ASSUME IInv, phase # "run", target' = Any, UNCHANGED <<code, status>>,
           phase' # "run" \/ (it' = 0 /\ top' = Any)
    PROVE  UNCHANGED Evm!vars
  BY DEF Evm!vars, IInv, Landed

(* What the EVM sees while the compiled code runs.                         *)
LEMMA RunView ==
    ASSUME IInv, phase = "run", k # StopBlock, it < blocks[k].end
    PROVE  /\ it < Len(code) /\ Evm!Inst = Inst
           /\ skipPushDataAndGetNext(it) =
                LET over == it + 1 + DataLength(Inst)
                IN  IF over > Len(code) THEN Len(code) ELSE over
  <1>1. it \in Starts
    BY InBlock
  <1>2. /\ Len(code) \in Nat /\ it \in Nat /\ it < Len(code)
    BY <1>1, PositionFacts DEF IInv, Shapes
  <1>3. Evm!Inst = Inst
    BY SameValues DEF Evm!Inst, Inst
  <1>4. skipPushDataAndGetNext(it) = IF Over(code, it) < Len(code)
                                     THEN Over(code, it) ELSE Len(code)
    BY <1>1, SkipFacts DEF IInv, Shapes
  <1>5. Over(code, it) \in Nat /\ Over(code, it) = it + 1 + DataLength(Inst)
    BY <1>2, OverFacts DEF Over, Inst
  <1> QED
    BY <1>2, <1>3, <1>4, <1>5

LEMMA StopRefines ==
    ASSUME IInv, RunStop, target' = Any
    PROVE  Evm!Next
  <1>1. phase = "run" /\ phase' = "run" /\ status = "running"
        /\ it = Len(code) /\ status' = "stopped"
        /\ code' = code /\ it' = it /\ top' = top
    BY DEF RunStop, Ended, IInv, Run
  <1>2. Evm!Ended("stopped")
    BY <1>1 DEF Evm!Ended
  <1>3. Evm!Stop
    BY <1>1, <1>2 DEF Evm!Stop
  <1> QED
    BY <1>1, <1>3 DEF Evm!Next

LEMMA PushRefines ==
    ASSUME IInv, RunPush, target' = Any
    PROVE  Evm!Next
  <1>1. /\ phase = "run" /\ phase' = "run" /\ status = "running"
        /\ k # StopBlock /\ it < blocks[k].end /\ IsPush(Inst)
        /\ code' = code /\ status' = status
        /\ top' = PushValue(code, it)
    BY DEF RunPush, Running
  <1>2. /\ it < Len(code) /\ Evm!Inst = Inst
        /\ skipPushDataAndGetNext(it) =
             LET over == it + 1 + DataLength(Inst)
             IN  IF over > Len(code) THEN Len(code) ELSE over
    BY <1>1, RunView
  <1>3. it' = skipPushDataAndGetNext(it)
    BY <1>1, InBlock DEF RunPush
  <1>4. Evm!Push
    BY <1>1, <1>2, <1>3, SameValues DEF Evm!Push
  <1> QED
    BY <1>1, <1>4 DEF Evm!Next

LEMMA PopRefines ==
    ASSUME IInv, RunPop, target' = Any
    PROVE  Evm!Next
  <1>1. /\ phase = "run" /\ phase' = "run" /\ status = "running"
        /\ k # StopBlock /\ it < blocks[k].end /\ Inst = POP
        /\ code' = code /\ status' = status
        /\ it' = it + 1 /\ top' = Any
    BY DEF RunPop, Running
  <1>2. it < Len(code) /\ Evm!Inst = Inst
    BY <1>1, RunView
  <1>3. Evm!Pop
    BY <1>1, <1>2 DEF Evm!Pop
  <1> QED
    BY <1>1, <1>3 DEF Evm!Next

LEMMA JumpDestRefines ==
    ASSUME IInv, RunJumpDest, target' = Any
    PROVE  Evm!Next
  <1>1. /\ phase = "run" /\ phase' = "run" /\ status = "running"
        /\ k # StopBlock /\ it < blocks[k].end /\ Inst = JUMPDEST
        /\ code' = code /\ status' = status
        /\ it' = it + 1 /\ top' = top
    BY DEF RunJumpDest, Running
  <1>2. it < Len(code) /\ Evm!Inst = Inst
    BY <1>1, RunView
  <1>3. Evm!Land
    BY <1>1, <1>2 DEF Evm!Land
  <1> QED
    BY <1>1, <1>3 DEF Evm!Next

LEMMA ExitRefines ==
    ASSUME IInv, RunExit, target' = Any
    PROVE  Evm!Next
  <1>1. /\ AtTerm /\ terms[k].kind \in {"stopped", "aborted"}
        /\ status' = terms[k].kind
        /\ code' = code /\ it' = it /\ top' = top /\ phase' = phase
    BY DEF RunExit, Ended
  <1>2. /\ phase = "run" /\ status = "running" /\ k # StopBlock
        /\ it < blocks[k].end /\ EndsFlow(Inst) /\ Fits(terms[k], k, it)
    BY <1>1, TermFacts
  <1>3. it < Len(code) /\ Evm!Inst = Inst
    BY <1>2, RunView
  <1>4. terms[k].kind = CASE Inst = JUMP -> "jump"
                          [] Inst = JUMPI -> "branch"
                          [] Inst = STOP -> "stopped"
                          [] OTHER -> "aborted"
    BY <1>2 DEF Fits, Inst
  <1>5. Inst # JUMP /\ Inst # JUMPI
    BY <1>1, <1>4, BytecodeAssumption
  <1>6. CASE Inst = STOP
    <2>1. terms[k].kind = "stopped"
      BY <1>4, <1>5, <1>6
    <2>2. Evm!Ended("stopped")
      BY <1>1, <1>2, <2>1 DEF Evm!Ended
    <2>3. Evm!Stop
      BY <1>3, <1>6, <2>2 DEF Evm!Stop
    <2> QED
      BY <1>1, <1>2, <2>3 DEF Evm!Next
  <1>7. CASE Inst # STOP
    <2>1. terms[k].kind = "aborted"
      BY <1>4, <1>5, <1>7
    <2>2. Evm!Ended("aborted")
      BY <1>1, <1>2, <2>1 DEF Evm!Ended
    <2>3. ~IsKnown(Inst)
      BY <1>2, <1>5, <1>7 DEF EndsFlow, IsKnown
    <2>4. Evm!Invalid
      BY <1>2, <1>3, <2>2, <2>3, SameValues DEF Evm!Invalid
    <2> QED
      BY <1>1, <1>2, <2>4 DEF Evm!Next
  <1> QED
    BY <1>6, <1>7

(* The EVM has been where the next block begins.                           *)
LEMMA OnStutters ==
    ASSUME IInv, RunOn, target' = Any
    PROVE  UNCHANGED Evm!vars
  <1>1. AtTerm /\ Running /\ terms[k].kind = "none" /\ Arrive(k + 1)
        /\ top' = top
    BY DEF RunOn, AtTerm
  <1>2. /\ phase = "run" /\ status = "running" /\ k # StopBlock
        /\ it = blocks[k].end /\ Clean(k, it) /\ k \in 1..Len(blocks)
    BY <1>1, TermFacts
  <1>3. /\ NextBlock(k + 1) /\ code' = code /\ phase' = phase
        /\ status' = status
    BY <1>1, <1>2, ArrivesNext
  <1>4. it' = it
    BY <1>1, <1>2, <1>3, RunsInto
  <1>5. target = Any
    <2>1. ~(it < blocks[k].end)
      BY <1>2, BlockFacts
    <2> QED
      BY <1>2, <2>1 DEF IInv, Landed
  <1> QED
    BY <1>1, <1>3, <1>4, <1>5 DEF Evm!vars

LEMMA NotTakenRefines ==
    ASSUME IInv, RunNotTaken, target' = Any
    PROVE  Evm!Next
  <1>1. AtTerm /\ Running /\ terms[k].kind = "branch" /\ Arrive(k + 1)
        /\ top' = Any
    BY DEF RunNotTaken, AtTerm
  <1>2. /\ phase = "run" /\ status = "running" /\ k # StopBlock
        /\ it < blocks[k].end /\ Clean(k, it) /\ Fits(terms[k], k, it)
    BY <1>1, TermFacts
  <1>3. /\ NextBlock(k + 1) /\ code' = code /\ phase' = phase
        /\ status' = status
    BY <1>1, <1>2, ArrivesNext
  <1>4. Inst = JUMPI
    <2>1. terms[k].kind = CASE Inst = JUMP -> "jump"
                            [] Inst = JUMPI -> "branch"
                            [] Inst = STOP -> "stopped"
                            [] OTHER -> "aborted"
      BY <1>2 DEF Fits, Inst
    <2> QED
      BY <1>1, <2>1
  <1>5. it' = blocks[k].end
    BY <1>1, <1>2, <1>3, <1>4, RunsInto
  <1>6. it' = it + 1
    <2>1. LeavesBlock(it) /\ ~IsPush(Inst)
      BY <1>4, BytecodeAssumption DEF LeavesBlock, Inst, IsPush
    <2> QED
      BY <1>2, <1>5, <2>1, InBlock
  <1>7. it < Len(code) /\ Evm!Inst = Inst
    BY <1>2, RunView
  <1>8. Evm!NotTaken
    BY <1>1, <1>2, <1>3, <1>4, <1>6, <1>7 DEF Evm!NotTaken
  <1> QED
    BY <1>2, <1>8 DEF Evm!Next

LEMMA JumpRefines ==
    ASSUME IInv, RunJump
    PROVE  Evm!Next
  <1>1. PICK d \in Nat :
          /\ target' = d /\ Arrive(CaseOf(d))
          /\ \/ terms[k].dest = d
             \/ terms[k].dest = Any
                /\ d \in IF top = Any THEN 0..Len(code) ELSE {top}
    BY JumpFacts
  <1>2. /\ AtTerm /\ Running /\ terms[k].kind \in {"jump", "branch"}
        /\ top' = IF status' = "aborted" THEN top ELSE Any
    BY DEF RunJump, AtTerm
  <1>3. /\ phase = "run" /\ status = "running" /\ k # StopBlock
        /\ it < blocks[k].end /\ Fits(terms[k], k, it)
    BY <1>2, TermFacts
  <1>4. Inst \in {JUMP, JUMPI}
    <2>1. terms[k].kind = CASE Inst = JUMP -> "jump"
                            [] Inst = JUMPI -> "branch"
                            [] Inst = STOP -> "stopped"
                            [] OTHER -> "aborted"
      BY <1>3 DEF Fits, Inst
    <2> QED
      BY <1>2, <2>1
  <1>5. d \in IF top = Any THEN 0..Len(code) ELSE {top}
    <2>1. CASE terms[k].dest = Any
      BY <1>1, <2>1, BytecodeAssumption
    <2>2. CASE terms[k].dest # Any
      <3>1. terms[k].dest = d
        BY <1>1, <2>2
      <3>2. Constant(k, it, d)
        BY <1>2, <1>3, <2>2, <3>1 DEF Fits
      <3>3. top = d
        BY <1>3, <3>2 DEF Constant, IInv, Run
      <3> QED
        BY <3>3, BytecodeAssumption
    <2> QED
      BY <2>1, <2>2
  <1>6. it < Len(code) /\ Evm!Inst = Inst
    BY <1>3, RunView
  <1>7. Evm!GoTo(d)
    <2>1. d \in Evm!Dests <=> CaseOf(d) # AbortBlock
      BY <1>3, SameDests
    <2>2. CASE CaseOf(d) = AbortBlock
      <3>1. Ended("aborted")
        BY <1>1, <2>2, <1>2, JumpsTo, CaseFacts DEF AbortBlock
      <3>2. /\ status' = "aborted" /\ code' = code /\ it' = it
            /\ phase' = phase /\ top' = top
        BY <3>1 DEF Ended
      <3>3. Evm!Ended("aborted")
        BY <1>3, <3>2 DEF Evm!Ended
      <3> QED
        BY <2>1, <2>2, <3>3 DEF Evm!GoTo
    <2>3. CASE CaseOf(d) # AbortBlock
      <3>1. /\ it' = d /\ code' = code /\ phase' = phase /\ status' = status
        BY <1>1, <1>2, <2>3, JumpsTo
      <3>2. top' = Any
        BY <1>2, <1>3, <3>1
      <3> QED
        BY <1>3, <2>1, <2>3, <3>1, <3>2 DEF Evm!GoTo
    <2> QED
      BY <2>2, <2>3
  <1>8. Evm!Jump
    BY <1>1, <1>3, <1>4, <1>5, <1>6, <1>7 DEF Evm!Jump
  <1> QED
    BY <1>3, <1>8 DEF Evm!Next

LEMMA NextRefines == IInv /\ [Next]_vars => [Evm!Next]_Evm!vars
  <1> SUFFICES ASSUME IInv, [Next]_vars PROVE [Evm!Next]_Evm!vars
    OBVIOUS
  <1>1. CASE RunJump
    BY <1>1, JumpRefines
  <1>2. CASE target' = Any /\ Split
    BY <1>2, CompilerStutters DEF Split
  <1>3. CASE target' = Any /\ SplitDone
    BY <1>3, CompilerStutters DEF SplitDone, Entered
  <1>4. CASE target' = Any /\ CompilePush
    BY <1>4, CompilerStutters DEF CompilePush, Compiling
  <1>5. CASE target' = Any /\ CompilePop
    BY <1>5, CompilerStutters DEF CompilePop, Compiling
  <1>6. CASE target' = Any /\ CompileJumpDest
    BY <1>6, CompilerStutters DEF CompileJumpDest, Compiling
  <1>7. CASE target' = Any /\ CompileTerm
    BY <1>7, CompilerStutters DEF CompileTerm, Compiling
  <1>8. CASE target' = Any /\ BlockDone
    BY <1>8, CompilerStutters DEF BlockDone
  <1>9. CASE target' = Any /\ CompileDone
    BY <1>9, CompilerStutters DEF CompileDone, Entered
  <1>10. CASE target' = Any /\ Resolve
    BY <1>10, CompilerStutters DEF Resolve
  <1>11. CASE target' = Any /\ ResolveDone
    BY <1>11, CompilerStutters DEF ResolveDone, Entered
  <1>12. CASE target' = Any /\ RunStop
    BY <1>12, StopRefines
  <1>13. CASE target' = Any /\ RunPush
    BY <1>13, PushRefines
  <1>14. CASE target' = Any /\ RunPop
    BY <1>14, PopRefines
  <1>15. CASE target' = Any /\ RunJumpDest
    BY <1>15, JumpDestRefines
  <1>16. CASE target' = Any /\ RunExit
    BY <1>16, ExitRefines
  <1>17. CASE target' = Any /\ RunOn
    BY <1>17, OnStutters
  <1>18. CASE target' = Any /\ RunNotTaken
    BY <1>18, NotTakenRefines
  <1>19. CASE UNCHANGED vars
    BY <1>19 DEF vars, Evm!vars
  <1> QED
    BY <1>1, <1>2, <1>3, <1>4, <1>5, <1>6, <1>7, <1>8, <1>9, <1>10, <1>11,
       <1>12, <1>13, <1>14, <1>15, <1>16, <1>17, <1>18, <1>19 DEF Next

(* Compiled code goes through the same instructions as the EVM, pushes the *)
(* same constants, jumps to the same destinations and ends in the same     *)
(* way, for every code (Compiler.cpp:56-164): whatever the three passes    *)
(* split, skip, join by position and resolve.                              *)
THEOREM ControlRefinement == Spec => ImplementsEvmControl
  <1>1. Init => Evm!Init
    BY InitRefines
  <1>2. IInv /\ [Next]_vars => [Evm!Next]_Evm!vars
    BY NextRefines
  <1> QED
    BY <1>1, <1>2, Invariance, PTL DEF Spec, ImplementsEvmControl, Evm!Spec
=============================================================================
