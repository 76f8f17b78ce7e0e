--------------------------- MODULE Arith256Proofs ---------------------------
(***************************************************************************)
(* Theorems about the arithmetic of compiled code, for words of any size,  *)
(* all operands, and whatever the leading zeros of zero are.               *)
(***************************************************************************)
EXTENDS Arith256, FiniteSetTheorems, FunctionTheorems, WellFoundedInduction, TLAPS

-----------------------------------------------------------------------------
(* Induction over the natural numbers, for sets.                           *)

LEMMA MinimalElement ==
    \A R, S, T : IsWellFoundedOn(R, S) /\ T \subseteq S /\ T # {} =>
        \E x \in T : \A y \in T : ~(<<y, x>> \in R)
  BY WFMin

LEMMA LessThanIsWellFounded ==
    \E R : /\ IsWellFoundedOn(R, Nat)
           /\ \A x, y \in Nat : x < y => <<x, y>> \in R
<1>1. \A x, y \in Nat : x < y => <<x, y>> \in OpToRel(<, Nat)
  BY DEF OpToRel
<1> QED
  BY <1>1, NatLessThanWellFounded

LEMMA SetInduction ==
    ASSUME NEW S, 0 \in S, \A n \in Nat : n \in S => n + 1 \in S
    PROVE  Nat \subseteq S
<1> SUFFICES ASSUME Nat \ S # {} PROVE FALSE
  OBVIOUS
<1>1. PICK R : /\ IsWellFoundedOn(R, Nat)
               /\ \A x, y \in Nat : x < y => <<x, y>> \in R
  BY LessThanIsWellFounded
<1>2. IsWellFoundedOn(R, Nat) /\ Nat \ S \subseteq Nat /\ Nat \ S # {}
  BY <1>1
<1>3. PICK x \in Nat \ S : \A y \in Nat \ S : ~(<<y, x>> \in R)
  <2>1. \E x \in Nat \ S : \A y \in Nat \ S : ~(<<y, x>> \in R)
    BY <1>2, MinimalElement, Zenon
  <2> QED
    BY <2>1, Zenon
<1>4. x - 1 \in Nat /\ x - 1 < x /\ (x - 1) + 1 = x
  BY <1>3
<1>5. x - 1 \in S
  BY <1>1, <1>3, <1>4
<1> QED
  BY <1>3, <1>4, <1>5

-----------------------------------------------------------------------------
(* Powers of two: a set of n elements has 2^n subsets.                     *)

LEMMA PowerCounts ==
    ASSUME NEW n \in Nat
    PROVE  /\ IsFiniteSet(1..n) /\ Cardinality(1..n) = n
           /\ IsFiniteSet(SUBSET (1..n))
           /\ Cardinality(SUBSET (1..n)) = 2 ^ n
<1>1. IsFiniteSet(1..n) /\ Cardinality(1..n) = n
  BY FS_Interval
<1>2. /\ IsFiniteSet(SUBSET (1..n))
      /\ Cardinality(SUBSET (1..n)) = 2 ^ Cardinality(1..n)
  BY <1>1, FS_SUBSET, Zenon
<1> QED
  BY <1>1, <1>2, Zenon

LEMMA PowerIsNatural ==
    ASSUME NEW n \in Nat
    PROVE  2 ^ n \in Nat
  BY PowerCounts, FS_CardinalityType, Zenon

LEMMA PowerOfZero == 2 ^ 0 = 1
  OBVIOUS

LEMMA Doubles ==
    ASSUME NEW n \in Nat
    PROVE  2 ^ (n + 1) = 2 ^ n + 2 ^ n
<1> DEFINE A == SUBSET (1..n)
           T == SUBSET (1..n + 1)
           f == [B \in A |-> B \cup {n + 1}]
           With == {B \in T : n + 1 \in B}
<1>1. IsFiniteSet(A) /\ Cardinality(A) = 2 ^ n
  BY PowerCounts
<1>2. n + 1 \in Nat /\ IsFiniteSet(T) /\ Cardinality(T) = 2 ^ (n + 1)
  BY PowerCounts
<1>3. T = A \cup With /\ A \cap With = {}
  <2>1. 1..n + 1 = (1..n) \cup {n + 1} /\ n + 1 \notin 1..n
    OBVIOUS
  <2> QED
    BY <2>1
<1>4. ExistsBijection(A, With)
  <2>1. f \in [A -> With]
    OBVIOUS
  <2>2. ASSUME NEW B \in A, NEW C \in A, f[B] = f[C]
        PROVE  B = C
    <3>1. n + 1 \notin B /\ n + 1 \notin C
      OBVIOUS
    <3>2. B \cup {n + 1} = C \cup {n + 1}
      BY <2>2
    <3>3. ASSUME NEW z PROVE z \in B <=> z \in C
      <4>1. z \in B \cup {n + 1} <=> z \in C \cup {n + 1}
        BY <3>2, Zenon
      <4> QED
        BY <3>1, <4>1, Zenon
    <3> QED
      BY <3>3, Zenon
  <2>3. ASSUME NEW B \in With PROVE \E C \in A : f[C] = B
    <3>1. B \ {n + 1} \in A
      OBVIOUS
    <3>2. f[B \ {n + 1}] = B
      BY <3>1, Zenon
    <3> QED
      BY <3>1, <3>2
  <2>4. f \in Injection(A, With)
    BY <2>1, <2>2, Fun_IsInj, Zenon
  <2>5. f \in Surjection(A, With)
    BY <2>1, <2>3, Zenon DEF Surjection
  <2> QED
    BY <2>4, <2>5, Zenon DEF ExistsBijection, Bijection
<1> HIDE DEF A, T, With
<1>5. IsFiniteSet(With) /\ Cardinality(With) = Cardinality(A)
  BY <1>1, <1>4, FS_Bijection, Zenon
<1>6. Cardinality(T) = Cardinality(A) + Cardinality(With) - Cardinality(A \cap With)
  BY <1>1, <1>3, <1>5, FS_Union, Zenon
<1>7. Cardinality(A \cap With) = 0
  BY <1>3, FS_EmptySet, Zenon
<1> QED
  BY <1>1, <1>2, <1>5, <1>6, <1>7, PowerIsNatural

LEMMA PowerExceeds ==
    ASSUME NEW n \in Nat
    PROVE  n < 2 ^ n
<1> DEFINE S == {k \in Nat : k < 2 ^ k}
<1>1. 0 \in S
  BY PowerOfZero
<1>2. ASSUME NEW k \in Nat, k \in S PROVE k + 1 \in S
  BY <1>2, Doubles, PowerIsNatural
<1> HIDE DEF S
<1>3. Nat \subseteq S
  BY <1>1, <1>2, SetInduction
<1> QED
  BY <1>3 DEF S

LEMMA PowersMultiply ==
    ASSUME NEW m \in Nat, NEW n \in Nat
    PROVE  2 ^ (m + n) = 2 ^ m * 2 ^ n
<1> DEFINE S == {k \in Nat : 2 ^ (m + k) = 2 ^ m * 2 ^ k}
<1>1. 0 \in S
  <2>1. m + 0 = m /\ 2 ^ m * 1 = 2 ^ m
    BY PowerIsNatural
  <2> QED
    BY <2>1, PowerOfZero
<1>2. ASSUME NEW k \in Nat, k \in S PROVE k + 1 \in S
  <2>1. m + k \in Nat /\ m + (k + 1) = (m + k) + 1
    OBVIOUS
  <2>2. 2 ^ (m + (k + 1)) = 2 ^ (m + k) + 2 ^ (m + k)
    BY <2>1, Doubles
  <2>3. 2 ^ m * (2 ^ k + 2 ^ k) = 2 ^ m * 2 ^ k + 2 ^ m * 2 ^ k
    BY PowerIsNatural
  <2>4. 2 ^ (k + 1) = 2 ^ k + 2 ^ k
    BY Doubles
  <2>5. 2 ^ (m + (k + 1)) = 2 ^ m * 2 ^ (k + 1)
    BY <1>2, <2>2, <2>3, <2>4
  <2> QED
    BY <2>5
<1> HIDE DEF S
<1>3. Nat \subseteq S
  BY <1>1, <1>2, SetInduction
<1> QED
  BY <1>3 DEF S

LEMMA PowersGrow ==
    ASSUME NEW m \in Nat, NEW n \in Nat, m <= n
    PROVE  /\ 2 ^ m \in Nat /\ 2 ^ n \in Nat
           /\ 0 < 2 ^ m /\ 2 ^ m <= 2 ^ n
           /\ m < n => 2 ^ m + 2 ^ m <= 2 ^ n
<1> DEFINE S == {k \in Nat : 2 ^ m <= 2 ^ (m + k)}
<1>1. 0 \in S
  <2>1. m + 0 = m
    OBVIOUS
  <2> QED
    BY <2>1, PowerIsNatural
<1>2. ASSUME NEW k \in Nat, k \in S PROVE k + 1 \in S
  <2>1. m + k \in Nat /\ m + (k + 1) = (m + k) + 1
    OBVIOUS
  <2>2. 2 ^ (m + (k + 1)) = 2 ^ (m + k) + 2 ^ (m + k)
    BY <2>1, Doubles
  <2>3. 2 ^ (m + k) \in Nat /\ 2 ^ m \in Nat
    BY <2>1, PowerIsNatural
  <2> QED
    BY <1>2, <2>2, <2>3
<1> HIDE DEF S
<1>3. Nat \subseteq S
  BY <1>1, <1>2, SetInduction
<1>4. ASSUME NEW k \in Nat PROVE 2 ^ m <= 2 ^ (m + k)
  BY <1>3 DEF S
<1>5. 2 ^ m \in Nat /\ 2 ^ n \in Nat /\ 0 < 2 ^ m
  BY PowerIsNatural, PowerExceeds
<1>6. 2 ^ m <= 2 ^ n
  <2>1. n - m \in Nat /\ m + (n - m) = n
    OBVIOUS
  <2> QED
    BY <1>4, <2>1, Zenon
<1>7. ASSUME m < n PROVE 2 ^ m + 2 ^ m <= 2 ^ n
  <2>1. n - m - 1 \in Nat /\ n - 1 \in Nat /\ m + (n - m - 1) = n - 1
    BY <1>7
  <2>2. 2 ^ m <= 2 ^ (n - 1)
    <3>1. n - (m + 1) \in Nat /\ m + (n - (m + 1)) = n - 1
      BY <1>7
    <3> QED
      BY <1>4, <3>1, Zenon
  <2>3. (n - 1) + 1 = n
    OBVIOUS
  <2>4. 2 ^ n = 2 ^ (n - 1) + 2 ^ (n - 1)
    BY <2>1, <2>3, Doubles
  <2> QED
    BY <1>5, <2>1, <2>2, <2>4, PowerIsNatural
<1> QED
  BY <1>5, <1>6, <1>7

-----------------------------------------------------------------------------
(* Words, and numbers modulo their size.                                   *)

LEMMA ConstantFacts ==
    /\ Bytes \in Nat /\ Bytes > 0 /\ ByteBits \in Nat /\ ByteBits > 0
    /\ Bits \in Nat /\ Bits > 0
    /\ CtlzOfZero \subseteq Nat
<1>1. Bytes * ByteBits \in Nat /\ Bytes * ByteBits > 0
  BY ArithAssumption DEF ArithAssumption
<1> QED
  BY <1>1, ArithAssumption DEF ArithAssumption, Bits

LEMMA SizeFacts ==
    /\ Size(Bits) \in Nat /\ Size(Bits) >= 2
    /\ Size(2 * Bits) \in Nat
    /\ Size(2 * Bits) = Size(Bits) * Size(Bits)
    /\ Size(Bits) <= Size(2 * Bits)
    /\ \E half \in Nat : Size(Bits) = 2 * half
    /\ \E half \in Nat : Size(2 * Bits) = 2 * half
<1>1. ASSUME NEW n \in Nat, n > 0
      PROVE  2 ^ n \in Nat /\ 2 ^ n >= 2 /\ \E half \in Nat : 2 ^ n = 2 * half
  <2>1. n - 1 \in Nat /\ (n - 1) + 1 = n
    BY <1>1
  <2>2. 2 ^ n = 2 ^ (n - 1) + 2 ^ (n - 1)
    BY <2>1, Doubles
  <2> QED
    BY <2>1, <2>2, PowerIsNatural, PowersGrow
<1>2. 2 * Bits \in Nat /\ 2 * Bits > 0 /\ Bits + Bits = 2 * Bits /\ Bits <= 2 * Bits
  BY ConstantFacts
<1>3. 2 ^ (Bits + Bits) = 2 ^ Bits * 2 ^ Bits
  BY ConstantFacts, PowersMultiply
<1> QED
  BY <1>1, <1>2, <1>3, ConstantFacts, PowersGrow DEF Size

LEMMA WordFacts ==
    /\ Word \subseteq Nat /\ \A n \in Nat : n \in Word <=> n < Size(Bits)
    /\ 0 \in Word /\ 1 \in Word /\ 0 # 1
    /\ DoubleWord \subseteq Nat
    /\ \A n \in Nat : n \in DoubleWord <=> n < Size(2 * Bits)
    /\ Word \subseteq DoubleWord
  BY SizeFacts DEF Word, DoubleWord

(* Quotient and remainder are unique.                                      *)
LEMMA DivModFacts ==
    ASSUME NEW n \in Int, NEW m \in Nat, m > 0
    PROVE  /\ n % m \in 0..m - 1 /\ n \div m \in Int
           /\ n = (n \div m) * m + (n % m)
  OBVIOUS

LEMMA DivModUnique ==
    ASSUME NEW m \in Nat, m > 0, NEW n \in Int, NEW q \in Int,
           NEW r \in 0..m - 1, n = q * m + r
    PROVE  n \div m = q /\ n % m = r
<1> DEFINE p == n \div m
           s == n % m
<1>1. s \in 0..m - 1 /\ p \in Int /\ n = p * m + s
  BY DivModFacts
<1> HIDE DEF p, s
<1>2. ASSUME NEW u \in Int, NEW v \in Int, u < v
      PROVE  u * m + m <= v * m
  <2>1. (v - u) - 1 \in Nat /\ v = u + 1 + ((v - u) - 1)
    BY <1>2
  <2> DEFINE w == (v - u) - 1
  <2>2. w \in Nat /\ v = u + 1 + w
    BY <2>1
  <2> HIDE DEF w
  <2>3. v * m = u * m + m + w * m /\ w * m \in Nat
    BY <2>2
  <2> QED
    BY <2>3
<1>3. p = q
  <2>1. ~(p < q)
    BY <1>1, <1>2
  <2>2. ~(q < p)
    BY <1>1, <1>2
  <2> QED
    BY <1>1, <2>1, <2>2
<1>4. s = r
  BY <1>1, <1>3
<1> QED
  BY <1>3, <1>4 DEF p, s

LEMMA ModOfSum ==
    ASSUME NEW m \in Nat, m > 0, NEW n \in Int, NEW k \in Int
    PROVE  (k * m + n) % m = n % m
<1>1. n % m \in 0..m - 1 /\ n \div m \in Int /\ n = (n \div m) * m + (n % m)
  BY DivModFacts
<1> DEFINE q == n \div m
           r == n % m
<1>2. q \in Int /\ r \in 0..m - 1 /\ n = q * m + r
  BY <1>1
<1> HIDE DEF q, r
<1>3. k * m + n = (k + q) * m + r /\ k + q \in Int /\ k * m + n \in Int
  BY <1>2
<1>4. (k * m + n) % m = r
  BY <1>2, <1>3, DivModUnique
<1> QED
  BY <1>4 DEF r

LEMMA ModOfProduct ==
    ASSUME NEW m \in Nat, m > 0, NEW x \in Int, NEW y \in Int
    PROVE  ((x % m) * y) % m = (x * y) % m
<1> DEFINE q == x \div m
           r == x % m
<1>1. q \in Int /\ r \in 0..m - 1 /\ x = q * m + r
  BY DivModFacts
<1> HIDE DEF q, r
<1>2. x * y = (q * y) * m + r * y /\ q * y \in Int /\ r * y \in Int
  BY <1>1
<1>3. (x * y) % m = (r * y) % m
  BY <1>2, ModOfSum
<1> QED
  BY <1>3 DEF r

LEMMA ModOfSmall ==
    ASSUME NEW m \in Nat, m > 0, NEW n \in 0..m - 1
    PROVE  n % m = n
<1>1. n = 0 * m + n /\ n \in Int /\ 0 \in Int
  OBVIOUS
<1> QED
  BY <1>1, DivModUnique

-----------------------------------------------------------------------------
(* Powers modulo the size of a word.                                       *)

IsPower(p, b, n) ==
    p = [k \in 0..n |-> IF k = 0 THEN 1 ELSE Low(p[k - 1] * b, Bits)]

LEMMA LowFacts ==
    ASSUME NEW n \in Int
    PROVE  /\ Low(n, Bits) \in Word /\ Low(n, Bits) \in Nat
           /\ \A y \in Int : Low(Low(n, Bits) * y, Bits) = Low(n * y, Bits)
           /\ n \in Word => Low(n, Bits) = n
<1> DEFINE m == Size(Bits)
<1>1. m \in Nat /\ m > 0 /\ Word = 0..m - 1
  BY SizeFacts DEF Word
<1>2. \A k : Low(k, Bits) = k % m
  BY DEF Low
<1> HIDE DEF m
<1>3. n % m \in 0..m - 1
  BY <1>1, DivModFacts
<1>4. ASSUME NEW y \in Int PROVE ((n % m) * y) % m = (n * y) % m
  BY <1>1, ModOfProduct
<1>5. ASSUME n \in 0..m - 1 PROVE n % m = n
  BY <1>1, <1>5, ModOfSmall
<1> QED
  BY <1>1, <1>2, <1>3, <1>4, <1>5

LEMMA PowersExist ==
    ASSUME NEW b, NEW n \in Nat
    PROVE  \E p : IsPower(p, b, n)
<1> DEFINE S == {k \in Nat : \E p : IsPower(p, b, k)}
<1>1. 0 \in S
  <2> DEFINE p == [k \in 0..0 |-> 1]
  <2>1. IsPower(p, b, 0)
    BY DEF IsPower
  <2> QED
    BY <2>1
<1>2. ASSUME NEW k \in Nat, k \in S PROVE k + 1 \in S
  <2>1. PICK p : IsPower(p, b, k)
    BY <1>2
  <2> DEFINE q == [j \in 0..k + 1 |->
                     IF j = k + 1 THEN Low(p[k] * b, Bits) ELSE p[j]]
  <2>2. ASSUME NEW j \in 0..k + 1
        PROVE  q[j] = IF j = 0 THEN 1 ELSE Low(q[j - 1] * b, Bits)
    <3>1. CASE j = k + 1
      <4>1. j # 0 /\ j - 1 = k /\ k \in 0..k + 1 /\ k # k + 1
        BY <3>1
      <4> QED
        BY <3>1, <4>1
    <3>2. CASE j # k + 1
      <4>1. j \in 0..k /\ (j # 0 => j - 1 \in 0..k + 1 /\ j - 1 # k + 1)
        BY <3>2
      <4>2. p[j] = IF j = 0 THEN 1 ELSE Low(p[j - 1] * b, Bits)
        BY <2>1, <4>1 DEF IsPower
      <4> QED
        BY <3>2, <4>1, <4>2
    <3> QED
      BY <3>1, <3>2
  <2>3. q = [j \in 0..k + 1 |-> q[j]]
    OBVIOUS
  <2> HIDE DEF q
  <2>4. IsPower(q, b, k + 1)
    BY <2>2, <2>3 DEF IsPower
  <2> QED
    BY <2>4
<1> HIDE DEF S
<1>3. Nat \subseteq S
  BY <1>1, <1>2, SetInduction
<1> QED
  BY <1>3 DEF S

LEMMA PowersAgree ==
    ASSUME NEW b \in Nat, NEW m \in Nat, NEW n \in Nat, NEW p, NEW q,
           IsPower(p, b, m), IsPower(q, b, n)
    PROVE  \A k \in 0..m : k \in 0..n => p[k] = q[k] /\ p[k] \in Word
<1> DEFINE S == {k \in Nat : k \in 0..m /\ k \in 0..n =>
                               p[k] = q[k] /\ p[k] \in Word}
<1>1. 0 \in S
  <2>1. 0 \in 0..m /\ 0 \in 0..n
    OBVIOUS
  <2>2. p[0] = 1 /\ q[0] = 1
    BY <2>1 DEF IsPower
  <2>3. 1 \in Word
    BY SizeFacts DEF Word
  <2> QED
    BY <2>2, <2>3
<1>2. ASSUME NEW k \in Nat, k \in S PROVE k + 1 \in S
  <2> SUFFICES ASSUME k + 1 \in 0..m, k + 1 \in 0..n
               PROVE  p[k + 1] = q[k + 1] /\ p[k + 1] \in Word
    OBVIOUS
  <2>1. k \in 0..m /\ k \in 0..n /\ k + 1 # 0 /\ (k + 1) - 1 = k
    OBVIOUS
  <2>2. p[k] = q[k] /\ p[k] \in Word
    BY <1>2, <2>1
  <2>3. /\ p[k + 1] = Low(p[k] * b, Bits)
        /\ q[k + 1] = Low(q[k] * b, Bits)
    BY <2>1 DEF IsPower
  <2>4. p[k] * b \in Int
    BY <2>2, SizeFacts DEF Word
  <2> QED
    BY <2>2, <2>3, <2>4, LowFacts
<1> HIDE DEF S
<1>3. Nat \subseteq S
  BY <1>1, <1>2, SetInduction
<1> QED
  BY <1>3 DEF S

LEMMA PowerOfFacts ==
    ASSUME NEW b \in Nat
    PROVE  /\ PowerOf(b, 0) = 1
           /\ \A n \in Nat : /\ PowerOf(b, n) \in Word
                             /\ PowerOf(b, n + 1) = Low(PowerOf(b, n) * b, Bits)
<1> DEFINE p(n) == CHOOSE f : IsPower(f, b, n)
<1>1. ASSUME NEW n \in Nat
      PROVE  IsPower(p(n), b, n) /\ PowerOf(b, n) = p(n)[n]
  <2>1. IsPower(p(n), b, n)
    BY PowersExist
  <2>2. PowerOf(b, n) = p(n)[n]
    BY DEF PowerOf, IsPower
  <2> QED
    BY <2>1, <2>2
<1> HIDE DEF p
<1>2. PowerOf(b, 0) = 1
  BY <1>1 DEF IsPower
<1>3. ASSUME NEW n \in Nat
      PROVE  /\ PowerOf(b, n) \in Word
             /\ PowerOf(b, n + 1) = Low(PowerOf(b, n) * b, Bits)
  <2>1. n \in 0..n /\ n \in 0..n + 1 /\ n + 1 \in 0..n + 1 /\ n + 1 \in Nat
    OBVIOUS
  <2>2. IsPower(p(n), b, n) /\ IsPower(p(n + 1), b, n + 1)
    BY <1>1, <2>1
  <2>3. p(n)[n] = p(n + 1)[n] /\ p(n)[n] \in Word
    BY <2>1, <2>2, PowersAgree
  <2>4. p(n + 1)[n + 1] = Low(p(n + 1)[n] * b, Bits)
    <3>1. n + 1 # 0 /\ (n + 1) - 1 = n
      OBVIOUS
    <3> QED
      BY <2>1, <2>2, <3>1 DEF IsPower
  <2> QED
    BY <1>1, <2>1, <2>3, <2>4
<1> QED
  BY <1>2, <1>3

LEMMA LowOfProducts ==
    ASSUME NEW x \in Int, NEW y \in Int, NEW z \in Int
    PROVE  /\ Low(Low(x * y, Bits) * z, Bits) = Low(x * (y * z), Bits)
           /\ Low(x * Low(y * z, Bits), Bits) = Low(x * (y * z), Bits)
<1>1. x * y \in Int /\ y * z \in Int /\ (x * y) * z = x * (y * z)
  OBVIOUS
<1>2. Low(Low(x * y, Bits) * z, Bits) = Low((x * y) * z, Bits)
  BY <1>1, LowFacts
<1>3. Low(Low(y * z, Bits) * x, Bits) = Low((y * z) * x, Bits)
  BY <1>1, LowFacts
<1>4. (y * z) * x = x * (y * z)
  BY <1>1
<1>5. Low(y * z, Bits) * x = x * Low(y * z, Bits)
  <2>1. Low(y * z, Bits) \in Int
    BY <1>1, LowFacts
  <2> QED
    BY <2>1
<1> QED
  BY <1>1, <1>2, <1>3, <1>4, <1>5

(* The powers of a square are the even powers.                             *)
LEMMA PowersOfSquare ==
    ASSUME NEW b \in Nat, NEW n \in Nat
    PROVE  PowerOf(Low(b * b, Bits), n) = PowerOf(b, 2 * n)
<1> DEFINE c == Low(b * b, Bits)
           S == {k \in Nat : PowerOf(c, k) = PowerOf(b, 2 * k)}
<1>1. b * b \in Int /\ c \in Nat
  BY LowFacts
<1>2. 0 \in S
  BY <1>1, PowerOfFacts
<1>3. ASSUME NEW k \in Nat, k \in S PROVE k + 1 \in S
  <2>1. 2 * k \in Nat /\ 2 * k + 1 \in Nat /\ 2 * (k + 1) = (2 * k + 1) + 1
    OBVIOUS
  <2> DEFINE w == PowerOf(b, 2 * k)
  <2>2. w \in Nat /\ w = PowerOf(c, k)
    BY <1>3, <2>1, PowerOfFacts, SizeFacts DEF Word
  <2>3. PowerOf(b, (2 * k + 1) + 1) = Low(Low(w * b, Bits) * b, Bits)
    BY <2>1, PowerOfFacts
  <2>4. PowerOf(c, k + 1) = Low(w * c, Bits)
    BY <1>1, <2>2, PowerOfFacts
  <2> HIDE DEF w
  <2>5. Low(Low(w * b, Bits) * b, Bits) = Low(w * c, Bits)
    BY <2>2, LowOfProducts
  <2>6. PowerOf(c, k + 1) = PowerOf(b, 2 * (k + 1))
    BY <2>1, <2>3, <2>4, <2>5
  <2> QED
    BY <2>6
<1> HIDE DEF S
<1>4. Nat \subseteq S
  BY <1>2, <1>3, SetInduction
<1> QED
  BY <1>4 DEF S

(* A round of the helper keeps the product of the result and what is left  *)
(* to multiply.                                                            *)
LEMMA MultipliedKeeps ==
    ASSUME NEW p \in [r : Word, b : Word, e : Word], p.e # 0
    PROVE  LET q == Multiplied(p)
           IN  /\ q \in [r : Word, b : Word, e : Word]
               /\ Low(q.r * PowerOf(q.b, q.e), Bits)
                      = Low(p.r * PowerOf(p.b, p.e), Bits)
<1> DEFINE h == p.e \div 2
           c == Low(p.b * p.b, Bits)
           q == Multiplied(p)
<1>1. /\ p.r \in Nat /\ p.b \in Nat /\ p.e \in Nat
      /\ p.r \in Word /\ p.b \in Word /\ p.e < Size(Bits)
  BY SizeFacts DEF Word
<1>2. h \in Nat /\ h <= p.e /\ p.e % 2 \in {0, 1} /\ p.e = 2 * h + (p.e % 2)
  BY <1>1
<1>3. h \in Word
  BY <1>1, <1>2, SizeFacts DEF Word
<1>4. c \in Word /\ c \in Nat
  <2>1. p.b * p.b \in Int
    BY <1>1
  <2> QED
    BY <2>1, LowFacts
<1>5. PowerOf(c, h) = PowerOf(p.b, 2 * h)
  BY <1>1, <1>2, PowersOfSquare
<1> DEFINE w == PowerOf(p.b, 2 * h)
<1>6. 2 * h \in Nat /\ w \in Nat /\ PowerOf(p.b, 2 * h + 1) = Low(w * p.b, Bits)
  <2>1. 2 * h \in Nat
    BY <1>2
  <2> QED
    BY <1>1, <2>1, PowerOfFacts, WordFacts
<1>7. q.b = c /\ q.e = h
  BY DEF Multiplied
<1>8. CASE p.e % 2 = 1
  <2>1. q.r = Low(p.r * p.b, Bits) /\ q = [r |-> Low(p.r * p.b, Bits), b |-> c, e |-> h]
    BY <1>8 DEF Multiplied
  <2>2. p.e = 2 * h + 1
    BY <1>2, <1>8
  <2>3. p.r * p.b \in Int /\ Low(p.r * p.b, Bits) \in Word
    <3>1. p.r * p.b \in Int
      BY <1>1
    <3> QED
      BY <3>1, LowFacts
  <2> HIDE DEF c, h, w, q
  <2>4. Low(Low(p.r * p.b, Bits) * w, Bits) = Low(p.r * (p.b * w), Bits)
    BY <1>1, <1>6, LowOfProducts
  <2>5. Low(p.r * Low(w * p.b, Bits), Bits) = Low(p.r * (w * p.b), Bits)
    BY <1>1, <1>6, LowOfProducts
  <2>6. w * p.b = p.b * w
    BY <1>1, <1>6
  <2>7. Low(q.r * PowerOf(q.b, q.e), Bits) = Low(p.r * PowerOf(p.b, p.e), Bits)
    BY <1>5, <1>6, <1>7, <2>1, <2>2, <2>4, <2>5, <2>6 DEF w
  <2>8. q \in [r : Word, b : Word, e : Word]
    BY <1>3, <1>4, <2>1, <2>3
  <2> QED
    BY <2>7, <2>8 DEF q
<1>9. CASE p.e % 2 # 1
  <2>1. q.r = p.r /\ q = [r |-> p.r, b |-> c, e |-> h]
    BY <1>9 DEF Multiplied
  <2>2. p.e = 2 * h
    BY <1>2, <1>9
  <2> HIDE DEF c, h, w, q
  <2>3. Low(q.r * PowerOf(q.b, q.e), Bits) = Low(p.r * PowerOf(p.b, p.e), Bits)
    BY <1>5, <1>7, <2>1, <2>2
  <2>4. q \in [r : Word, b : Word, e : Word]
    BY <1>1, <1>3, <1>4, <2>1
  <2> QED
    BY <2>3, <2>4 DEF q
<1> QED
  BY <1>8, <1>9

-----------------------------------------------------------------------------
(* The registers of a division.                                            *)

RegOk(v) ==
    /\ v \in [bits : {Bits, 2 * Bits}, x : DoubleWord, y : DoubleWord,
              d : DoubleWord, r : DoubleWord, i : DoubleWord, q : DoubleWord]
    /\ \A reg \in {"x", "y", "d", "r", "i", "q"} : v[reg] < Size(v.bits)

LEMMA WidthFacts ==
    ASSUME NEW bits \in {Bits, 2 * Bits}
    PROVE  /\ bits \in Nat /\ bits > 0 /\ bits < Size(bits)
           /\ Size(bits) \in Nat /\ Size(bits) >= 2
           /\ \E half \in Nat : Size(bits) = 2 * half
           /\ \A n \in Nat : n < Size(bits) => n \in DoubleWord
<1>1. bits \in Nat /\ bits > 0
  BY ConstantFacts
<1>2. bits < Size(bits)
  BY <1>1, PowerExceeds DEF Size
<1> QED
  BY <1>1, <1>2, SizeFacts, WordFacts

LEMMA RegFacts ==
    ASSUME NEW v, RegOk(v)
    PROVE  /\ v.bits \in {Bits, 2 * Bits}
           /\ v.x \in Nat /\ v.x < Size(v.bits)
           /\ v.y \in Nat /\ v.y < Size(v.bits)
           /\ v.d \in Nat /\ v.d < Size(v.bits)
           /\ v.r \in Nat /\ v.r < Size(v.bits)
           /\ v.i \in Nat /\ v.i < Size(v.bits)
           /\ v.q \in Nat /\ v.q < Size(v.bits)
           /\ v = [bits |-> v.bits, x |-> v.x, y |-> v.y, d |-> v.d,
                   r |-> v.r, i |-> v.i, q |-> v.q]
<1>1. DoubleWord \subseteq Nat
  BY WordFacts
<1>2. \A reg \in {"x", "y", "d", "r", "i", "q"} : v[reg] < Size(v.bits)
  BY DEF RegOk
<1>3. /\ v["x"] < Size(v.bits) /\ v["y"] < Size(v.bits)
      /\ v["d"] < Size(v.bits) /\ v["r"] < Size(v.bits)
      /\ v["i"] < Size(v.bits) /\ v["q"] < Size(v.bits)
  BY <1>2, Zenon
<1> QED
  BY <1>1, <1>3 DEF RegOk

LEMMA RegIntro ==
    ASSUME NEW bits \in {Bits, 2 * Bits}, NEW x \in Nat, NEW y \in Nat,
           NEW d \in Nat, NEW r \in Nat, NEW i \in Nat, NEW q \in Nat,
           x < Size(bits), y < Size(bits), d < Size(bits),
           r < Size(bits), i < Size(bits), q < Size(bits)
    PROVE  RegOk([bits |-> bits, x |-> x, y |-> y, d |-> d,
                  r |-> r, i |-> i, q |-> q])
<1> DEFINE v == [bits |-> bits, x |-> x, y |-> y, d |-> d,
                 r |-> r, i |-> i, q |-> q]
<1>1. /\ x \in DoubleWord /\ y \in DoubleWord /\ d \in DoubleWord
      /\ r \in DoubleWord /\ i \in DoubleWord /\ q \in DoubleWord
  BY WidthFacts
<1>2. v \in [bits : {Bits, 2 * Bits}, x : DoubleWord, y : DoubleWord,
             d : DoubleWord, r : DoubleWord, i : DoubleWord, q : DoubleWord]
  BY <1>1
<1>3. v.bits = bits /\ v["x"] = x /\ v["y"] = y /\ v["d"] = d
        /\ v["r"] = r /\ v["i"] = i /\ v["q"] = q
  OBVIOUS
<1> HIDE DEF v
<1>4. ASSUME NEW reg \in {"x", "y", "d", "r", "i", "q"}
      PROVE  v[reg] < Size(v.bits)
  BY <1>3
<1> QED
  BY <1>2, <1>4 DEF RegOk, v

(* A number with k leading zeros.                                          *)
LEMMA CtlzFacts ==
    ASSUME NEW bits \in Nat, NEW n \in Nat, n > 0, NEW k \in Ctlz(n, bits)
    PROVE  /\ k \in 0..bits - 1
           /\ (bits - k) - 1 \in Nat /\ bits - k \in Nat
           /\ 2 ^ ((bits - k) - 1) <= n /\ n < 2 ^ (bits - k)
<1>1. /\ k \in 0..bits - 1
      /\ n \in 2 ^ (bits - k - 1)..2 ^ (bits - k) - 1
  BY DEF Ctlz
<1>2. /\ bits - k \in Nat /\ (bits - k) - 1 \in Nat
      /\ bits - k - 1 = (bits - k) - 1
  BY <1>1
<1> QED
  BY <1>1, <1>2, PowerIsNatural

(* The divisor is shifted to the magnitude of the dividend, and no bit of  *)
(* it is lost.                                                             *)
LEMMA ShiftedDivisor ==
    ASSUME NEW bits \in {Bits, 2 * Bits}, NEW x \in Nat, NEW y \in Nat,
           0 < y, y <= x, x < Size(bits),
           NEW j \in Ctlz(y, bits), NEW k \in Ctlz(x, bits)
    PROVE  LET i == Low(j - k, bits)
               d == Shl(y, i, bits)
           IN  /\ i \in Nat /\ i < bits
               /\ d = y * 2 ^ i /\ d \in Nat
               /\ d < Size(bits) /\ x < 2 * d
<1>1. bits \in Nat /\ bits > 0 /\ bits < Size(bits) /\ Size(bits) \in Nat
  BY WidthFacts
<1>2. /\ j \in 0..bits - 1 /\ (bits - j) - 1 \in Nat /\ bits - j \in Nat
      /\ 2 ^ ((bits - j) - 1) <= y /\ y < 2 ^ (bits - j)
  BY <1>1, CtlzFacts
<1>3. /\ k \in 0..bits - 1 /\ (bits - k) - 1 \in Nat /\ bits - k \in Nat
      /\ 2 ^ ((bits - k) - 1) <= x /\ x < 2 ^ (bits - k)
  BY <1>1, CtlzFacts
<1>4. k <= j
  <2> SUFFICES ASSUME j < k PROVE FALSE
    BY <1>2, <1>3
  <2>1. bits - k <= (bits - j) - 1
    BY <1>1, <1>2, <1>3
  <2>2. 2 ^ (bits - k) <= 2 ^ ((bits - j) - 1)
    BY <1>2, <1>3, <2>1, PowersGrow
  <2> QED
    BY <1>2, <1>3, <2>2, PowerIsNatural
<1> DEFINE i == j - k
<1>5. i \in Nat /\ i < bits /\ i < Size(bits) /\ Low(j - k, bits) = i
  <2>1. i \in 0..Size(bits) - 1 /\ i \in Nat /\ i < bits
    BY <1>1, <1>2, <1>3, <1>4
  <2> QED
    BY <1>1, <2>1, ModOfSmall DEF Low
<1> DEFINE p == 2 ^ i
           a == 2 ^ ((bits - j) - 1)
           b == 2 ^ ((bits - k) - 1)
<1>6. p \in Nat /\ a \in Nat /\ b \in Nat /\ p > 0
  BY <1>2, <1>3, <1>5, PowerIsNatural, PowerExceeds
<1>7. a * p = b
  <2>1. ((bits - j) - 1) + i = (bits - k) - 1
    BY <1>1, <1>2, <1>3
  <2>2. (bits - j) - 1 \in Nat
    BY <1>2
  <2> HIDE DEF i
  <2> QED
    BY <1>5, <2>1, <2>2, PowersMultiply
<1>8. 2 ^ (bits - j) = 2 * a /\ 2 ^ (bits - k) = 2 * b
  <2>1. bits - j = ((bits - j) - 1) + 1 /\ bits - k = ((bits - k) - 1) + 1
    BY <1>2, <1>3
  <2>2. 2 ^ (((bits - j) - 1) + 1) = a + a
    BY <1>2, Doubles
  <2>3. 2 ^ (((bits - k) - 1) + 1) = b + b
    BY <1>3, Doubles
  <2> QED
    BY <1>6, <2>1, <2>2, <2>3
<1>9. 2 * b <= Size(bits)
  <2>1. 2 ^ (bits - k) <= 2 ^ bits
    BY <1>1, <1>3, PowersGrow
  <2> QED
    BY <1>8, <2>1 DEF Size
<1>10. a <= y /\ y < 2 * a /\ b <= x /\ x < 2 * b
  BY <1>2, <1>3, <1>8
<1> HIDE DEF a, b, p
<1>11. y * p \in Nat /\ a * p <= y * p /\ y * p < (2 * a) * p
  BY <1>6, <1>10
<1>12. (2 * a) * p = 2 * b
  BY <1>6, <1>7
<1>13. b <= y * p /\ y * p < 2 * b
  BY <1>7, <1>11, <1>12
<1>14. Shl(y, i, bits) = y * p
  <2>1. y * p \in 0..Size(bits) - 1
    BY <1>1, <1>6, <1>9, <1>11, <1>13
  <2>2. (y * p) % Size(bits) = y * p
    BY <1>1, <2>1, ModOfSmall
  <2> HIDE DEF i
  <2>3. ~(i >= bits)
    BY <1>1, <1>5
  <2> QED
    BY <2>2, <2>3 DEF Shl, Low, p
<1>15. x < 2 * (y * p) /\ y * p < Size(bits)
  BY <1>1, <1>6, <1>9, <1>10, <1>11, <1>13
<1> HIDE DEF i
<1>16. Shl(y, i, bits) = y * 2 ^ i /\ y * 2 ^ i \in Nat
         /\ y * 2 ^ i < Size(bits) /\ x < 2 * (y * 2 ^ i)
  BY <1>11, <1>14, <1>15 DEF p
<1> QED
  BY <1>5, <1>16

-----------------------------------------------------------------------------
(* The loop of evm.udivrem.                                                *)

(* The lowest bit of the quotient is still to be found.                    *)
Even(n) == \E half \in Nat : n = 2 * half

(* What DivisionKeeps says of the registers.                               *)
Kept(v) ==
    /\ v.x = v.q * v.d + v.r
    /\ v.r < 2 * v.d
    /\ v.d = v.y * 2 ^ v.i

LEMMA SubtractedFacts ==
    ASSUME NEW v, RegOk(v), Even(v.q)
    PROVE  LET s == Subtracted(v)
           IN  /\ RegOk(s)
               /\ s.bits = v.bits /\ s.x = v.x /\ s.y = v.y
               /\ s.d = v.d /\ s.i = v.i
               /\ Kept(v) => s.x = s.q * s.d + s.r /\ s.r < s.d
<1> DEFINE s == Subtracted(v)
<1>1. /\ v.bits \in {Bits, 2 * Bits} /\ v.x \in Nat /\ v.y \in Nat
      /\ v.d \in Nat /\ v.r \in Nat /\ v.i \in Nat /\ v.q \in Nat
      /\ v.x < Size(v.bits) /\ v.y < Size(v.bits) /\ v.d < Size(v.bits)
      /\ v.r < Size(v.bits) /\ v.i < Size(v.bits) /\ v.q < Size(v.bits)
      /\ v = [bits |-> v.bits, x |-> v.x, y |-> v.y, d |-> v.d,
              r |-> v.r, i |-> v.i, q |-> v.q]
  BY RegFacts
<1>2. Size(v.bits) \in Nat /\ Even(Size(v.bits))
  BY <1>1, WidthFacts DEF Even
<1>3. v.q + 1 \in Nat /\ v.q + 1 < Size(v.bits)
  BY <1>1, <1>2 DEF Even
<1>4. CASE v.r >= v.d
  <2>1. v.r - v.d \in Nat /\ v.r - v.d < Size(v.bits)
    BY <1>1, <1>2, <1>4
  <2>2. s = [bits |-> v.bits, x |-> v.x, y |-> v.y, d |-> v.d,
             r |-> v.r - v.d, i |-> v.i, q |-> v.q + 1]
    BY <1>1, <1>4 DEF Subtracted
  <2> HIDE DEF s
  <2>3. RegOk(s)
    BY <1>1, <1>3, <2>1, <2>2, RegIntro
  <2>4. (v.q + 1) * v.d = v.q * v.d + v.d /\ v.q * v.d \in Nat
    BY <1>1
  <2>5. Kept(v) => v.x = (v.q + 1) * v.d + (v.r - v.d) /\ v.r - v.d < v.d
    BY <1>1, <2>4 DEF Kept
  <2>6. /\ s.bits = v.bits /\ s.x = v.x /\ s.y = v.y /\ s.d = v.d
        /\ s.i = v.i /\ s.r = v.r - v.d /\ s.q = v.q + 1
    BY <2>2
  <2> QED
    BY <2>3, <2>5, <2>6 DEF s
<1>5. CASE ~(v.r >= v.d)
  <2>1. s = v
    BY <1>5 DEF Subtracted
  <2>2. v.r < v.d
    BY <1>1, <1>5
  <2> QED
    BY <2>1, <2>2 DEF Kept
<1> QED
  BY <1>4, <1>5

(* The quotient is shifted, and no bit of it is lost unless the divisor is *)
(* zero.                                                                   *)
LEMMA ShiftedQuotient ==
    ASSUME NEW bits \in {Bits, 2 * Bits}, NEW q \in Nat
    PROVE  /\ Shl(q, 1, bits) \in Nat /\ Shl(q, 1, bits) < Size(bits)
           /\ Even(Shl(q, 1, bits))
           /\ bits > 1 /\ 2 * q < Size(bits) => Shl(q, 1, bits) = 2 * q
<1>1. 2 ^ 1 = 2
  <2>1. 2 ^ (0 + 1) = 2 ^ 0 + 2 ^ 0 /\ 0 + 1 = 1
    BY Doubles
  <2> QED
    BY <2>1, PowerOfZero
<1> DEFINE m == Size(bits)
<1>2. m \in Nat /\ m > 0 /\ bits \in Nat /\ \E h \in Nat : m = 2 * h
  BY WidthFacts
<1>3. Shl(q, 1, bits) = IF 1 >= bits THEN 0 ELSE (q * 2) % m
  BY <1>1 DEF Shl, Low
<1> HIDE DEF m
<1> DEFINE r == (q * 2) % m
           k == (q * 2) \div m
<1>4. r \in 0..m - 1 /\ k \in Int /\ q * 2 = k * m + r
  BY <1>2, DivModFacts
<1>5. 2 * q < m => r = 2 * q
  <2>1. 2 * q < m => q * 2 \in 0..m - 1
    BY <1>2
  <2>2. q * 2 \in 0..m - 1 => (q * 2) % m = q * 2
    BY <1>2, ModOfSmall
  <2>3. q * 2 = 2 * q
    OBVIOUS
  <2> QED
    BY <2>1, <2>2, <2>3
<1> HIDE DEF r, k
<1>6. \E half \in Nat : r = 2 * half
  <2>1. PICK h \in Nat : m = 2 * h
    BY <1>2
  <2>2. k * m = 2 * (k * h) /\ k * h \in Int
    BY <1>4, <2>1
  <2>3. r = 2 * (q - k * h) /\ q - k * h \in Int
    BY <1>4, <2>2
  <2>4. q - k * h \in Nat
    BY <1>2, <1>4, <2>3
  <2> QED
    BY <2>3, <2>4
<1>7. 0 = 2 * 0 /\ 0 < m /\ (bits > 1 <=> ~(1 >= bits))
  BY <1>2
<1>8. r \in Nat /\ r < m
  BY <1>2, <1>4
<1>9. CASE 1 >= bits
  <2>1. Shl(q, 1, bits) = 0
    BY <1>3, <1>9
  <2> QED
    BY <1>7, <1>9, <2>1 DEF Even, m
<1>10. CASE ~(1 >= bits)
  <2>1. Shl(q, 1, bits) = r
    BY <1>3, <1>10 DEF r
  <2> QED
    BY <1>5, <1>6, <1>8, <2>1 DEF Even, m
<1> QED
  BY <1>9, <1>10

(* What a round does to the registers.                                     *)
Round(v) ==
    [Subtracted(v) EXCEPT !.i = @ - 1,
                          !.q = Shl(@, 1, v.bits),
                          !.d = @ \div 2]

LEMMA RoundKeeps ==
    ASSUME NEW v, RegOk(v), Even(v.q), v.i # 0
    PROVE  LET w == Round(v)
           IN  /\ RegOk(w) /\ Even(w.q)
               /\ w.bits = v.bits /\ w.x = v.x /\ w.y = v.y
               /\ v.y # 0 /\ Kept(v) => Kept(w)
<1> DEFINE s == Subtracted(v)
           w == Round(v)
<1>1. /\ RegOk(s) /\ s.bits = v.bits /\ s.x = v.x /\ s.y = v.y
      /\ s.d = v.d /\ s.i = v.i
      /\ Kept(v) => s.x = s.q * s.d + s.r /\ s.r < s.d
  BY SubtractedFacts
<1> HIDE DEF s
<1>2. /\ s.bits \in {Bits, 2 * Bits} /\ s.x \in Nat /\ s.y \in Nat
      /\ s.d \in Nat /\ s.r \in Nat /\ s.i \in Nat /\ s.q \in Nat
      /\ s.x < Size(s.bits) /\ s.y < Size(s.bits) /\ s.d < Size(s.bits)
      /\ s.r < Size(s.bits) /\ s.i < Size(s.bits) /\ s.q < Size(s.bits)
      /\ s = [bits |-> s.bits, x |-> s.x, y |-> s.y, d |-> s.d,
              r |-> s.r, i |-> s.i, q |-> s.q]
  BY <1>1, RegFacts
<1> DEFINE bits == s.bits
           q == Shl(s.q, 1, bits)
           d == s.d \div 2
           i == s.i - 1
<1>3. /\ bits \in Nat /\ bits > 0 /\ Size(bits) \in Nat
      /\ q \in Nat /\ q < Size(bits) /\ Even(q)
      /\ bits > 1 /\ 2 * s.q < Size(bits) => q = 2 * s.q
  BY <1>2, WidthFacts, ShiftedQuotient
<1>4. i \in Nat /\ i < Size(bits) /\ s.i = i + 1
  BY <1>1, <1>2, <1>3
<1>5. d \in Nat /\ d < Size(bits) /\ \A n \in Nat : s.d = 2 * n => d = n
  BY <1>2, <1>3
<1>6. w = [bits |-> bits, x |-> s.x, y |-> s.y, d |-> d, r |-> s.r,
           i |-> i, q |-> q]
  <2>1. w = [s EXCEPT !.i = @ - 1, !.q = Shl(@, 1, bits), !.d = @ \div 2]
    BY <1>1 DEF Round, s
  <2> QED
    BY <1>2, <2>1
<1> HIDE DEF q, d, i, w
<1>7. RegOk(w)
  BY <1>2, <1>3, <1>4, <1>5, <1>6, RegIntro
<1>8. /\ w.bits = bits /\ w.x = s.x /\ w.y = s.y /\ w.d = d /\ w.r = s.r
      /\ w.i = i /\ w.q = q
  BY <1>6
<1>9. ASSUME v.y # 0, Kept(v) PROVE Kept(w)
  <2>1. /\ s.x = s.q * s.d + s.r /\ s.r < s.d
        /\ s.d = s.y * 2 ^ s.i
    BY <1>1, <1>9 DEF Kept
  <2> DEFINE p == 2 ^ i
  <2>2. p \in Nat /\ p > 0 /\ 2 ^ s.i = p + p
    BY <1>4, Doubles, PowerIsNatural, PowerExceeds
  <2> HIDE DEF p
  <2>3. s.y * p \in Nat /\ s.d = 2 * (s.y * p)
    BY <1>2, <2>1, <2>2
  <2>4. d = s.y * p
    BY <1>5, <2>3
  <2>5. s.y > 0 /\ d > 0
    <3>1. s.y > 0
      BY <1>1, <1>2, <1>9
    <3> QED
      BY <1>2, <2>2, <2>4, <3>1
  <2>6. s.d = 2 * d
    BY <2>3, <2>4
  <2>7. s.q * s.d = (2 * s.q) * d
    BY <1>2, <1>5, <2>6
  <2>8. (2 * s.q) * d >= 2 * s.q
    BY <1>2, <1>5, <2>5
  <2>9. 2 * s.q < Size(bits)
    <3>1. s.q * s.d \in Nat
      BY <1>2
    <3> QED
      BY <1>2, <1>3, <2>1, <2>7, <2>8, <3>1
  <2>10. bits > 1
    <3> SUFFICES ASSUME bits = 1 PROVE FALSE
      BY <1>3
    <3>1. Size(bits) = 2
      <4>1. 2 ^ (0 + 1) = 2 ^ 0 + 2 ^ 0 /\ 0 + 1 = 1
        BY Doubles
      <4> QED
        BY <4>1, PowerOfZero DEF Size
    <3> QED
      BY <1>2, <1>5, <2>5, <2>6, <3>1
  <2>11. q = 2 * s.q
    BY <1>3, <2>9, <2>10
  <2>12. w.x = w.q * w.d + w.r /\ w.r < 2 * w.d /\ w.d = w.y * 2 ^ w.i
    BY <1>8, <2>1, <2>4, <2>6, <2>7, <2>11 DEF p
  <2> QED
    BY <2>12 DEF Kept
<1> QED
  BY <1>1, <1>3, <1>7, <1>8, <1>9 DEF w

-----------------------------------------------------------------------------
(* Instructions and what the compiler emits for a division.                *)

LEMMA InstructionFacts ==
    ASSUME NEW i \in Instructions
    PROVE  /\ i.op \in {"DIV", "MOD", "SDIV", "SMOD", "EXP", "BYTE",
                        "SIGNEXTEND", "ADDMOD", "MULMOD"}
           /\ i.a \in Word /\ i.b \in Word /\ i.c \in Word
           /\ i.a \in Nat /\ i.b \in Nat /\ i.c \in Nat
           /\ i.a < Size(Bits) /\ i.b < Size(Bits) /\ i.c < Size(Bits)
<1>1. /\ i.op \in {"DIV", "MOD", "SDIV", "SMOD", "EXP", "BYTE",
                   "SIGNEXTEND", "ADDMOD", "MULMOD"}
      /\ i.a \in Word /\ i.b \in Word /\ i.c \in Word
  BY WordFacts DEF Instructions, Divisions, WideDivisions
<1> QED
  BY <1>1, WordFacts

LEMMA EmittedIs ==
    ASSUME NEW i
    PROVE  LET n == IF i.b = 0 THEN 1 ELSE i.b
           IN  /\ i.op = "DIV" => Emitted(i) = Emission("UDiv", Bits, i.a, n)
               /\ i.op = "MOD" => Emitted(i) = Emission("URem", Bits, i.a, n)
               /\ i.op = "SDIV" => Emitted(i) = Emission("SDiv", Bits, i.a, n)
               /\ i.op = "SMOD" => Emitted(i) = Emission("SRem", Bits, i.a, n)
               /\ i.op = "ADDMOD" =>
                    Emitted(i) = Emission("URem", 2 * Bits, i.a + i.b, i.c)
               /\ i.op = "MULMOD" =>
                    Emitted(i) = Emission("URem", 2 * Bits, i.a * i.b, i.c)
<1>1. CASE i.op = "DIV"
  BY <1>1 DEF Emitted
<1>2. CASE i.op = "MOD"
  BY <1>2 DEF Emitted
<1>3. CASE i.op = "SDIV"
  BY <1>3 DEF Emitted
<1>4. CASE i.op = "SMOD"
  BY <1>4 DEF Emitted
<1>5. CASE i.op = "ADDMOD"
  BY <1>5 DEF Emitted
<1>6. CASE i.op = "MULMOD"
  BY <1>6 DEF Emitted
<1> QED
  BY <1>1, <1>2, <1>3, <1>4, <1>5, <1>6

LEMMA HelperIs ==
    /\ Helper["UDiv"] = [signed |-> FALSE, part |-> "q"]
    /\ Helper["URem"] = [signed |-> FALSE, part |-> "r"]
    /\ Helper["SDiv"] = [signed |-> TRUE,  part |-> "q"]
    /\ Helper["SRem"] = [signed |-> TRUE,  part |-> "r"]
  BY DEF Helper

(* An operand as it reaches evm.udivrem.                                   *)
Passed(e, n) == IF Helper[e.opcode].signed THEN Abs(n) ELSE n

LEMMA AbsFacts ==
    ASSUME NEW w \in Word
    PROVE  /\ Neg(w) = IF w = 0 THEN 0 ELSE Size(Bits) - w
           /\ Neg(w) \in Word
           /\ Abs(w) = IF IsNeg(w) THEN Size(Bits) - w ELSE w
           /\ Abs(w) \in Word
           /\ w # 0 => Abs(w) # 0
<1> DEFINE m == Size(Bits)
<1>1. m \in Nat /\ m > 0 /\ w \in 0..m - 1 /\ Word = 0..m - 1
  BY SizeFacts DEF Word
<1>2. \A k \in 0..m - 1 : k % m = k
  BY <1>1, ModOfSmall
<1>3. Neg(w) = (-w) % m
  BY DEF Neg, Low
<1> HIDE DEF m
<1>4. (-w) % m = IF w = 0 THEN 0 ELSE m - w
  <2>1. CASE w = 0
    BY <1>1, <1>2, <2>1
  <2>2. CASE w # 0
    <3>1. -w = (-1) * m + (m - w) /\ m - w \in 0..m - 1 /\ -w \in Int
      BY <1>1, <2>2
    <3>2. (-w) % m = m - w
      BY <1>1, <3>1, DivModUnique
    <3> QED
      BY <2>2, <3>2
  <2> QED
    BY <2>1, <2>2
<1>5. IsNeg(w) => w # 0
  BY <1>1 DEF IsNeg, m
<1> QED
  BY <1>1, <1>3, <1>4, <1>5 DEF Abs, m

LEMMA PassedFacts ==
    ASSUME NEW i \in Instructions, i.op \in Divisions \cup WideDivisions
    PROVE  LET e == Emitted(i)
           IN  /\ e.bits \in {Bits, 2 * Bits}
               /\ Passed(e, e.x) \in Nat /\ Passed(e, e.x) < Size(e.bits)
               /\ Passed(e, e.y) \in Nat /\ Passed(e, e.y) < Size(e.bits)
<1> DEFINE e == Emitted(i)
           n == IF i.b = 0 THEN 1 ELSE i.b
           Fits == /\ e.bits \in {Bits, 2 * Bits}
                   /\ Passed(e, e.x) \in Nat /\ Passed(e, e.x) < Size(e.bits)
                   /\ Passed(e, e.y) \in Nat /\ Passed(e, e.y) < Size(e.bits)
<1>1. /\ i.a \in Word /\ i.a \in Nat /\ i.a < Size(Bits)
      /\ i.b \in Word /\ i.b \in Nat /\ i.b < Size(Bits)
      /\ i.c \in Nat /\ i.c < Size(Bits)
      /\ n \in Word /\ n \in Nat /\ n < Size(Bits)
  BY InstructionFacts, WordFacts, SizeFacts
<1>2. /\ Abs(i.a) \in Nat /\ Abs(i.a) < Size(Bits)
      /\ Abs(n) \in Nat /\ Abs(n) < Size(Bits)
  BY <1>1, AbsFacts, WordFacts
<1> DEFINE m == Size(Bits)
<1>3. m \in Nat /\ m >= 2 /\ Size(2 * Bits) = m * m /\ m <= m * m
  BY SizeFacts
<1>4. /\ i.a + i.b \in Nat /\ i.a + i.b < m * m
      /\ i.a * i.b \in Nat /\ i.a * i.b < m * m
  <2> DEFINE a == i.a
             b == i.b
  <2>1. a \in Nat /\ b \in Nat /\ a < m /\ b < m
    BY <1>1
  <2> HIDE DEF a, b, m
  <2>2. 2 * m <= m * m /\ m * m \in Nat
    BY <1>3
  <2>3. a * b \in Nat /\ a * b <= a * m /\ a * m \in Nat
    BY <1>3, <2>1
  <2>4. a * m < m * m
    BY <1>3, <2>1
  <2>5. a + b \in Nat /\ a + b < m * m /\ a * b \in Nat /\ a * b < m * m
    BY <1>3, <2>1, <2>2, <2>3, <2>4
  <2> QED
    BY <2>5 DEF a, b
<1> HIDE DEF n, m
<1>5. CASE i.op \in {"DIV", "MOD"}
  <2>1. e.bits = Bits /\ e.x = i.a /\ e.y = n /\ e.opcode \in {"UDiv", "URem"}
    BY <1>5, EmittedIs DEF Emission, n
  <2>2. Passed(e, e.x) = e.x /\ Passed(e, e.y) = e.y
    BY <2>1, HelperIs DEF Passed
  <2> QED
    BY <1>1, <2>1, <2>2
<1>6. CASE i.op \in {"SDIV", "SMOD"}
  <2>1. e.bits = Bits /\ e.x = i.a /\ e.y = n /\ e.opcode \in {"SDiv", "SRem"}
    BY <1>6, EmittedIs DEF Emission, n
  <2>2. Passed(e, e.x) = Abs(e.x) /\ Passed(e, e.y) = Abs(e.y)
    BY <2>1, HelperIs DEF Passed
  <2> QED
    BY <1>2, <2>1, <2>2
<1>7. CASE i.op = "ADDMOD"
  <2>1. e.bits = 2 * Bits /\ e.x = i.a + i.b /\ e.y = i.c /\ e.opcode = "URem"
    BY <1>7, EmittedIs DEF Emission
  <2>2. Passed(e, e.x) = e.x /\ Passed(e, e.y) = e.y
    BY <2>1, HelperIs DEF Passed
  <2> QED
    BY <1>1, <1>3, <1>4, <2>1, <2>2 DEF m
<1>8. CASE i.op = "MULMOD"
  <2>1. e.bits = 2 * Bits /\ e.x = i.a * i.b /\ e.y = i.c /\ e.opcode = "URem"
    BY <1>8, EmittedIs DEF Emission
  <2>2. Passed(e, e.x) = e.x /\ Passed(e, e.y) = e.y
    BY <2>1, HelperIs DEF Passed
  <2> QED
    BY <1>1, <1>3, <1>4, <2>1, <2>2 DEF m
<1> QED
  BY <1>5, <1>6, <1>7, <1>8 DEF Divisions, WideDivisions

-----------------------------------------------------------------------------
(* The meaning of an instruction.                                          *)

LEMMA ModulusIs ==
    /\ Arith!Modulus = Size(Bits)
    /\ \A n : Arith!Wrapped(n) = Low(n, Bits)
  BY DEF Arith!Modulus, Arith!Bits, Arith!Wrapped, Size, Bits, Low

LEMMA MeaningOfDivision ==
    ASSUME NEW i
    PROVE  /\ i.op \in Divisions /\ i.b = 0 => Arith!Meaning(i) = 0
           /\ i.op \in WideDivisions /\ i.c = 0 => Arith!Meaning(i) = 0
           /\ i.op = "DIV" /\ i.b # 0 => Arith!Meaning(i) = i.a \div i.b
           /\ i.op = "MOD" /\ i.b # 0 => Arith!Meaning(i) = i.a % i.b
           /\ i.op = "SDIV" /\ i.b # 0 =>
                Arith!Meaning(i) =
                    Low(Arith!Quotient(Arith!Signed(i.a), Arith!Signed(i.b)), Bits)
           /\ i.op = "SMOD" /\ i.b # 0 =>
                Arith!Meaning(i) =
                    Low(Arith!Remainder(Arith!Signed(i.a), Arith!Signed(i.b)), Bits)
           /\ i.op = "ADDMOD" /\ i.c # 0 =>
                Arith!Meaning(i) = (i.a + i.b) % i.c
           /\ i.op = "MULMOD" /\ i.c # 0 =>
                Arith!Meaning(i) = (i.a * i.b) % i.c
<1>1. CASE i.op \in Divisions /\ i.b = 0
  BY <1>1 DEF Arith!Meaning, Divisions, WideDivisions
<1>2. CASE i.op \in WideDivisions /\ i.c = 0
  BY <1>2 DEF Arith!Meaning, Divisions, WideDivisions
<1>3. CASE i.op = "DIV" /\ i.b # 0
  BY <1>3 DEF Arith!Meaning, Divisions, WideDivisions
<1>4. CASE i.op = "MOD" /\ i.b # 0
  BY <1>4 DEF Arith!Meaning, Divisions, WideDivisions
<1>5. CASE i.op = "SDIV" /\ i.b # 0
  BY <1>5, ModulusIs DEF Arith!Meaning, Divisions, WideDivisions
<1>6. CASE i.op = "SMOD" /\ i.b # 0
  BY <1>6, ModulusIs DEF Arith!Meaning, Divisions, WideDivisions
<1>7. CASE i.op = "ADDMOD" /\ i.c # 0
  BY <1>7 DEF Arith!Meaning, Divisions, WideDivisions
<1>8. CASE i.op = "MULMOD" /\ i.c # 0
  BY <1>8 DEF Arith!Meaning, Divisions, WideDivisions
<1> QED
  BY <1>1, <1>2, <1>3, <1>4, <1>5, <1>6, <1>7, <1>8 DEF Divisions, WideDivisions

LEMMA MeaningOfOthers ==
    ASSUME NEW i
    PROVE  /\ i.op = "EXP" => Arith!Meaning(i) = PowerOf(i.a, i.b)
           /\ i.op = "BYTE" => Arith!Meaning(i) = Arith!ByteOf(i.b, i.a)
           /\ i.op = "SIGNEXTEND" =>
                Arith!Meaning(i) = Arith!Extended(i.b, i.a)
<1>1. CASE i.op = "EXP"
  <2>1. Arith!Meaning(i) =
            LET p[n \in 0..i.b] ==
                  IF n = 0 THEN 1 ELSE Arith!Wrapped(p[n - 1] * i.a)
            IN  p[i.b]
    BY <1>1, Zenon DEF Arith!Meaning
  <2> QED
    BY <1>1, <2>1, ModulusIs DEF PowerOf
<1>2. CASE i.op = "BYTE"
  BY <1>2 DEF Arith!Meaning
<1>3. CASE i.op = "SIGNEXTEND"
  BY <1>3 DEF Arith!Meaning
<1> QED
  BY <1>1, <1>2, <1>3

-----------------------------------------------------------------------------
(* The result of a division is what the instruction means.                 *)

LEMMA MinusOneFacts ==
    MinusOne \in Word /\ MinusOne = Size(Bits) - 1 /\ MinusOne # 0
  BY AbsFacts, WordFacts, SizeFacts DEF MinusOne

LEMMA SelectedIs ==
    ASSUME NEW i, NEW value
    PROVE  /\ i.op = "SDIV" /\ i.b = MinusOne => Selected(i, value) = Neg(i.a)
           /\ i.op = "SMOD" /\ i.b = MinusOne => Selected(i, value) = 0
           /\ i.op \in Divisions /\ i.b = 0 => Selected(i, value) = 0
           /\ i.op \in WideDivisions /\ i.c = 0 => Selected(i, value) = 0
           /\ i.op \in {"DIV", "MOD"} /\ i.b # 0 =>
                Selected(i, value) = Low(value, Bits)
           /\ i.op \in {"SDIV", "SMOD"} /\ i.b # 0 /\ i.b # MinusOne =>
                Selected(i, value) = Low(value, Bits)
           /\ i.op \in WideDivisions /\ i.c # 0 =>
                Selected(i, value) = Low(value, Bits)
<1>1. ASSUME i.op = "SDIV" /\ i.b = MinusOne PROVE Selected(i, value) = Neg(i.a)
  BY <1>1, MinusOneFacts DEF Selected, Divisions, WideDivisions
<1>2. ASSUME i.op = "SMOD" /\ i.b = MinusOne PROVE Selected(i, value) = 0
  BY <1>2 DEF Selected, Divisions, WideDivisions
<1>3. ASSUME i.op \in Divisions /\ i.b = 0 PROVE Selected(i, value) = 0
  BY <1>3, MinusOneFacts DEF Selected, Divisions, WideDivisions
<1>5. ASSUME i.op \in WideDivisions /\ i.c = 0 PROVE Selected(i, value) = 0
  BY <1>5 DEF Selected, Divisions, WideDivisions
<1>6. ASSUME i.op \in {"DIV", "MOD"} /\ i.b # 0
      PROVE  Selected(i, value) = Low(value, Bits)
  BY <1>6 DEF Selected, Divisions, WideDivisions
<1>7. ASSUME i.op \in {"SDIV", "SMOD"} /\ i.b # 0 /\ i.b # MinusOne
      PROVE  Selected(i, value) = Low(value, Bits)
  BY <1>7 DEF Selected, Divisions, WideDivisions
<1>8. ASSUME i.op \in WideDivisions /\ i.c # 0
      PROVE  Selected(i, value) = Low(value, Bits)
  BY <1>8 DEF Selected, Divisions, WideDivisions
<1> QED
  BY <1>1, <1>2, <1>3, <1>5, <1>6, <1>7, <1>8

LEMMA SignedFacts ==
    ASSUME NEW w \in Word
    PROVE  /\ Arith!Signed(w) \in Int
           /\ Arith!Signed(w) < 0 <=> IsNeg(w)
           /\ Arith!Signed(w) = IF IsNeg(w) THEN -Abs(w) ELSE Abs(w)
           /\ Arith!Magnitude(Arith!Signed(w)) = Abs(w)
           /\ Low(-Arith!Signed(w), Bits) = Neg(w)
<1> DEFINE m == Size(Bits)
           s == Arith!Signed(w)
<1>1. m \in Nat /\ m > 0 /\ w \in Nat /\ w < m
  BY SizeFacts, WordFacts
<1>2. s = IF 2 * w >= m THEN w - m ELSE w
  BY ModulusIs DEF Arith!Signed
<1>3. IsNeg(w) <=> 2 * w >= m
  BY DEF IsNeg
<1>4. Abs(w) = IF IsNeg(w) THEN m - w ELSE w
  BY AbsFacts
<1>5. Neg(w) = (-w) % m /\ Low(-s, Bits) = (-s) % m
  BY DEF Neg, Low
<1> HIDE DEF m, s
<1>6. (-s) % m = (-w) % m
  <2>1. CASE 2 * w >= m
    <3>1. -s = 1 * m + (-w) /\ -w \in Int
      BY <1>1, <1>2, <2>1
    <3>2. (1 * m + (-w)) % m = (-w) % m
      BY <1>1, <3>1, ModOfSum
    <3> QED
      BY <3>1, <3>2
  <2>2. CASE ~(2 * w >= m)
    BY <1>2, <2>2
  <2> QED
    BY <2>1, <2>2
<1>7. s \in Int /\ (s < 0 <=> IsNeg(w)) /\ s = IF IsNeg(w) THEN -Abs(w) ELSE Abs(w)
  BY <1>1, <1>2, <1>3, <1>4
<1>8. Arith!Magnitude(s) = Abs(w)
  BY <1>1, <1>2, <1>3, <1>4 DEF Arith!Magnitude
<1> QED
  BY <1>5, <1>6, <1>7, <1>8 DEF s

(* Quotient and remainder with signs.                                      *)
LEMMA SignedDivision ==
    ASSUME NEW a \in Word, NEW b \in Word, NEW q \in Nat, NEW r \in Nat,
           Abs(b) # 0, Abs(a) = q * Abs(b) + r, r < Abs(b)
    PROVE  LET m == Arith!Signed(a)
               n == Arith!Signed(b)
           IN  /\ Arith!Quotient(m, n) = IF IsNeg(a) # IsNeg(b) THEN -q ELSE q
               /\ Arith!Remainder(m, n) = IF IsNeg(a) THEN -r ELSE r
<1> DEFINE m == Arith!Signed(a)
           n == Arith!Signed(b)
           x == Abs(a)
           y == Abs(b)
<1>1. x \in Nat /\ y \in Nat /\ y > 0
  <2>1. x \in Word /\ y \in Word
    BY AbsFacts
  <2>2. x \in Nat /\ y \in Nat /\ y # 0
    BY <2>1, WordFacts
  <2> HIDE DEF x, y
  <2> QED
    BY <2>2
<1>2. x = q * y + r /\ r \in 0..y - 1
  BY <1>1
<1>3. /\ m \in Int /\ (m < 0 <=> IsNeg(a)) /\ Arith!Magnitude(m) = x
      /\ m = IF IsNeg(a) THEN -x ELSE x
  BY SignedFacts
<1>4. /\ n \in Int /\ (n < 0 <=> IsNeg(b)) /\ Arith!Magnitude(n) = y
      /\ n = IF IsNeg(b) THEN -y ELSE y
  BY SignedFacts
<1> HIDE DEF m, n, x, y
<1>5. x \div y = q
  BY <1>1, <1>2, DivModUnique
<1> DEFINE quotient == Arith!Quotient(m, n)
<1> DEFINE A == IsNeg(a)
           B == IsNeg(b)
<1> A \in BOOLEAN /\ B \in BOOLEAN
  BY DEF IsNeg
<1>6. quotient = IF IsNeg(a) # IsNeg(b) THEN -q ELSE q
  <2>1. quotient = IF (m < 0) # (n < 0) THEN -(x \div y) ELSE x \div y
    BY <1>3, <1>4 DEF Arith!Quotient
  <2> QED
    <3>1. (m < 0) = A /\ (n < 0) = B
      BY <1>3, <1>4
    <3> HIDE DEF A, B, quotient
    <3>2. quotient = IF A # B THEN -q ELSE q
      BY <1>5, <2>1, <3>1
    <3> QED
      BY <3>2 DEF A, B
<1>7. Arith!Remainder(m, n) = m - n * quotient
  BY DEF Arith!Remainder
<1> HIDE DEF quotient
<1>8. q * y \in Nat /\ y * q = q * y
  BY <1>1
<1>9. n * quotient = IF IsNeg(a) THEN -(q * y) ELSE q * y
  <2>1. CASE IsNeg(a) /\ IsNeg(b)
    <3>1. n * quotient = (-y) * q
      BY <1>4, <1>6, <2>1
    <3>2. (-y) * q = -(q * y)
      BY <1>1
    <3> QED
      BY <2>1, <3>1, <3>2
  <2>2. CASE IsNeg(a) /\ ~IsNeg(b)
    <3>1. n * quotient = y * (-q)
      BY <1>4, <1>6, <2>2
    <3>2. y * (-q) = -(q * y)
      BY <1>1
    <3> QED
      BY <2>2, <3>1, <3>2
  <2>3. CASE ~IsNeg(a) /\ IsNeg(b)
    <3>1. n * quotient = (-y) * (-q)
      BY <1>4, <1>6, <2>3
    <3>2. (-y) * (-q) = q * y
      BY <1>1
    <3> QED
      BY <2>3, <3>1, <3>2
  <2>4. CASE ~IsNeg(a) /\ ~IsNeg(b)
    <3>1. n * quotient = y * q
      BY <1>4, <1>6, <2>4
    <3> QED
      BY <1>8, <2>4, <3>1
  <2> QED
    BY <2>1, <2>2, <2>3, <2>4
<1>10. m - n * quotient = IF IsNeg(a) THEN -r ELSE r
  <2>1. CASE IsNeg(a)
    <3>1. m = -x /\ n * quotient = -(q * y)
      BY <1>3, <1>9, <2>1
    <3> QED
      BY <1>1, <1>2, <1>8, <2>1, <3>1
  <2>2. CASE ~IsNeg(a)
    <3>1. m = x /\ n * quotient = q * y
      BY <1>3, <1>9, <2>2
    <3> QED
      BY <1>1, <1>2, <1>8, <2>2, <3>1
  <2> QED
    BY <2>1, <2>2
<1> QED
  BY <1>6, <1>7, <1>10 DEF quotient, m, n

Result == LET e == Emitted(instr)
          IN  Selected(instr, SignsApplied(e)[Helper[e.opcode].part])

(* The quotient and the remainder that evm.udivrem has left.               *)
Divided(x, y) == y # 0 => x = div.q * y + div.r /\ div.r < y

LEMMA UnsignedMeaning ==
    ASSUME instr \in Instructions, div.q \in Nat, div.r \in Nat,
           instr.op \in {"DIV", "MOD"} \cup WideDivisions,
           LET e == Emitted(instr)
           IN  Divided(Passed(e, e.x), Passed(e, e.y))
    PROVE  Result = Arith!Meaning(instr) /\ Result \in Word
<1> DEFINE e == Emitted(instr)
           a == instr.a
           b == instr.b
           c == instr.c
<1>1. /\ a \in Word /\ a \in Nat /\ a < Size(Bits)
      /\ b \in Word /\ b \in Nat /\ b < Size(Bits)
      /\ c \in Word /\ c \in Nat /\ c < Size(Bits)
  BY InstructionFacts
<1>2. \A n \in Nat : n < Size(Bits) => n \in Word /\ Low(n, Bits) = n
  BY LowFacts, WordFacts
<1>3. ASSUME NEW x \in Nat, NEW y \in Nat, y # 0, Divided(x, y)
      PROVE  /\ x \div y = div.q /\ x % y = div.r
             /\ div.q <= x /\ div.r < y
  <2> DEFINE q == div.q
             r == div.r
  <2>1. x = q * y + r /\ r < y /\ q \in Nat /\ r \in Nat /\ y > 0
    BY <1>3 DEF Divided
  <2> HIDE DEF q, r
  <2>2. x \div y = q /\ x % y = r
    BY <2>1, DivModUnique
  <2>3. q <= q * y
    BY <2>1
  <2>4. q <= x
    BY <2>1, <2>3
  <2> QED
    BY <2>1, <2>2, <2>4 DEF q, r
<1>4. CASE instr.op = "DIV"
  <2>1. /\ e.opcode = "UDiv" /\ e.x = a /\ e.y = IF b = 0 THEN 1 ELSE b
        /\ Helper[e.opcode].signed = FALSE /\ Helper[e.opcode].part = "q"
    BY <1>4, EmittedIs, HelperIs DEF Emission
  <2>2. Result = Selected(instr, div.q)
    BY <2>1 DEF Result, SignsApplied
  <2>3. Passed(e, e.x) = a /\ Passed(e, e.y) = IF b = 0 THEN 1 ELSE b
    BY <2>1 DEF Passed
  <2>4. CASE b = 0
    BY <1>4, <2>2, <2>4, SelectedIs, MeaningOfDivision, WordFacts DEF Divisions
  <2>5. CASE b # 0
    <3>1. Divided(a, b)
      BY <2>3, <2>5
    <3>2. a \div b = div.q /\ div.q <= a
      BY <1>1, <1>3, <2>5, <3>1
    <3>3. div.q < Size(Bits)
      BY <1>1, <3>2, SizeFacts
    <3>4. div.q \in Word /\ Low(div.q, Bits) = div.q
      BY <1>2, <3>3
    <3> QED
      BY <1>4, <2>2, <2>5, <3>2, <3>4, SelectedIs, MeaningOfDivision
  <2> QED
    BY <2>4, <2>5
<1>5. CASE instr.op = "MOD"
  <2>1. /\ e.opcode = "URem" /\ e.x = a /\ e.y = IF b = 0 THEN 1 ELSE b
        /\ Helper[e.opcode].signed = FALSE /\ Helper[e.opcode].part = "r"
    BY <1>5, EmittedIs, HelperIs DEF Emission
  <2>2. Result = Selected(instr, div.r)
    BY <2>1 DEF Result, SignsApplied
  <2>3. Passed(e, e.x) = a /\ Passed(e, e.y) = IF b = 0 THEN 1 ELSE b
    BY <2>1 DEF Passed
  <2>4. CASE b = 0
    BY <1>5, <2>2, <2>4, SelectedIs, MeaningOfDivision, WordFacts DEF Divisions
  <2>5. CASE b # 0
    <3>1. Divided(a, b)
      BY <2>3, <2>5
    <3>2. a % b = div.r /\ div.r < b
      BY <1>1, <1>3, <2>5, <3>1
    <3>3. div.r < Size(Bits)
      BY <1>1, <3>2, SizeFacts
    <3>4. div.r \in Word /\ Low(div.r, Bits) = div.r
      BY <1>2, <3>3
    <3> QED
      BY <1>5, <2>2, <2>5, <3>2, <3>4, SelectedIs, MeaningOfDivision
  <2> QED
    BY <2>4, <2>5
<1>6. CASE instr.op \in WideDivisions
  <2> DEFINE x == IF instr.op = "ADDMOD" THEN a + b ELSE a * b
  <2>1. /\ e.opcode = "URem" /\ e.x = x /\ e.y = c
        /\ Helper[e.opcode].signed = FALSE /\ Helper[e.opcode].part = "r"
    BY <1>6, EmittedIs, HelperIs DEF Emission, WideDivisions
  <2>2. Result = Selected(instr, div.r)
    BY <2>1 DEF Result, SignsApplied
  <2>3. Passed(e, e.x) = x /\ Passed(e, e.y) = c
    BY <2>1 DEF Passed
  <2>4. x \in Nat
    <3>1. a + b \in Nat /\ a * b \in Nat
      BY <1>1
    <3> QED
      BY <3>1
  <2>5. CASE c = 0
    BY <1>6, <2>2, <2>5, SelectedIs, MeaningOfDivision, WordFacts
  <2>6. CASE c # 0
    <3>1. Divided(x, c)
      BY <2>3
    <3>2. x % c = div.r /\ div.r < c
      BY <1>1, <1>3, <2>4, <2>6, <3>1
    <3>3. div.r < Size(Bits)
      BY <1>1, <3>2, SizeFacts
    <3>4. div.r \in Word /\ Low(div.r, Bits) = div.r
      BY <1>2, <3>3
    <3>5. Arith!Meaning(instr) = x % c
      BY <1>6, <2>6, MeaningOfDivision DEF WideDivisions
    <3> QED
      BY <1>6, <2>2, <2>6, <3>2, <3>4, <3>5, SelectedIs
  <2> QED
    BY <2>5, <2>6
<1> QED
  BY <1>4, <1>5, <1>6

LEMMA SignedMeaning ==
    ASSUME instr \in Instructions, div.q \in Nat, div.r \in Nat,
           instr.op \in {"SDIV", "SMOD"},
           LET e == Emitted(instr)
           IN  Divided(Passed(e, e.x), Passed(e, e.y))
    PROVE  Result = Arith!Meaning(instr) /\ Result \in Word
<1> DEFINE e == Emitted(instr)
           a == instr.a
           b == instr.b
           n == IF b = 0 THEN 1 ELSE b
           q == div.q
           r == div.r
           m == Arith!Signed(a)
           k == Arith!Signed(b)
<1>1. a \in Word /\ b \in Word
  BY InstructionFacts
<1>2. /\ e.opcode \in {"SDiv", "SRem"} /\ e.x = a /\ e.y = n
      /\ Helper[e.opcode].signed = TRUE
      /\ Helper[e.opcode].part = IF instr.op = "SDIV" THEN "q" ELSE "r"
  BY EmittedIs, HelperIs DEF Emission
<1>3. SignsApplied(e) =
          [q |-> IF IsNeg(a) # IsNeg(n) THEN Neg(q) ELSE q,
           r |-> IF IsNeg(a) THEN Neg(r) ELSE r]
  BY <1>2 DEF SignsApplied
<1> DEFINE value == IF instr.op = "SDIV"
                    THEN IF IsNeg(a) # IsNeg(n) THEN Neg(q) ELSE q
                    ELSE IF IsNeg(a) THEN Neg(r) ELSE r
<1>4. Result = Selected(instr, value)
  <2>1. SignsApplied(e)[Helper[e.opcode].part] = value
    BY <1>2, <1>3
  <2> QED
    BY <2>1 DEF Result
<1>5. Divided(Abs(a), Abs(n))
  BY <1>2 DEF Passed
<1>6. Neg(q) = Low(-q, Bits) /\ Neg(r) = Low(-r, Bits)
  BY DEF Neg
<1>7. CASE b = 0
  BY <1>4, <1>7, SelectedIs, MeaningOfDivision, WordFacts DEF Divisions
<1>8. CASE b # 0
  <2>1. n = b /\ Abs(b) # 0
    BY <1>1, <1>8, AbsFacts
  <2>2. Abs(a) = q * Abs(b) + r /\ r < Abs(b)
    BY <1>5, <2>1 DEF Divided
  <2>3. /\ Arith!Quotient(m, k) = IF IsNeg(a) # IsNeg(b) THEN -q ELSE q
        /\ Arith!Remainder(m, k) = IF IsNeg(a) THEN -r ELSE r
    BY <1>1, <2>1, <2>2, SignedDivision
  <2>4. /\ instr.op = "SDIV" => Arith!Meaning(instr) = Low(Arith!Quotient(m, k), Bits)
        /\ instr.op = "SMOD" => Arith!Meaning(instr) = Low(Arith!Remainder(m, k), Bits)
    BY <1>8, MeaningOfDivision
  <2>5. ASSUME NEW z \in Int
        PROVE  Low(z, Bits) \in Word /\ Low(Low(z, Bits), Bits) = Low(z, Bits)
    <3>1. Low(z, Bits) \in Word /\ Low(z, Bits) \in Nat
      BY LowFacts
    <3>2. Low(z, Bits) \in Int
      BY <3>1
    <3> QED
      BY <3>1, <3>2, LowFacts
  <2>6. -q \in Int /\ -r \in Int /\ q \in Int /\ r \in Int
    OBVIOUS
  <2>7. CASE b # MinusOne
    <3>1. Result = Low(value, Bits)
      BY <1>4, <1>8, <2>7, SelectedIs
    <3>2. CASE instr.op = "SDIV"
      <4>1. Low(value, Bits) = Low(Arith!Quotient(m, k), Bits)
        <5>1. CASE IsNeg(a) # IsNeg(b)
          <6>1. value = Low(-q, Bits)
            BY <1>6, <2>1, <3>2, <5>1
          <6>2. Arith!Quotient(m, k) = -q
            BY <2>3, <5>1
          <6> QED
            BY <2>5, <2>6, <6>1, <6>2
        <5>2. CASE ~(IsNeg(a) # IsNeg(b))
          <6>1. value = q
            BY <2>1, <3>2, <5>2
          <6>2. Arith!Quotient(m, k) = q
            BY <2>3, <5>2
          <6> QED
            BY <6>1, <6>2
        <5> QED
          BY <5>1, <5>2
      <4>2. Arith!Quotient(m, k) \in Int
        BY <2>3, <2>6
      <4> HIDE DEF value
      <4> QED
        BY <2>4, <2>5, <3>1, <3>2, <4>1, <4>2
    <3>3. CASE instr.op = "SMOD"
      <4>1. Low(value, Bits) = Low(Arith!Remainder(m, k), Bits)
        <5>1. CASE IsNeg(a)
          <6>1. value = Low(-r, Bits)
            BY <1>6, <3>3, <5>1
          <6>2. Arith!Remainder(m, k) = -r
            BY <2>3, <5>1
          <6> QED
            BY <2>5, <2>6, <6>1, <6>2
        <5>2. CASE ~IsNeg(a)
          <6>1. value = r
            BY <3>3, <5>2
          <6>2. Arith!Remainder(m, k) = r
            BY <2>3, <5>2
          <6> QED
            BY <6>1, <6>2
        <5> QED
          BY <5>1, <5>2
      <4>2. Arith!Remainder(m, k) \in Int
        BY <2>3, <2>6
      <4> HIDE DEF value
      <4> QED
        BY <2>4, <2>5, <3>1, <3>3, <4>1, <4>2
    <3> QED
      BY <3>2, <3>3
  <2>8. CASE b = MinusOne
    <3>1. IsNeg(b) /\ Abs(b) = 1
      BY <2>8, MinusOneFacts, AbsFacts, SizeFacts DEF IsNeg
    <3>2. r = 0 /\ Abs(a) = q
      <4>1. Abs(a) \in Nat
        BY <1>1, AbsFacts, WordFacts
      <4> HIDE DEF q, r
      <4>2. q \in Nat /\ r \in Nat
        BY DEF q, r
      <4> QED
        BY <2>2, <3>1, <4>1, <4>2
    <3>3. Neg(a) = Low(-m, Bits) /\ m = IF IsNeg(a) THEN -q ELSE q
      BY <1>1, <3>2, SignedFacts
    <3>4. CASE instr.op = "SDIV"
      <4>1. Arith!Quotient(m, k) = -m
        <5>1. CASE IsNeg(a)
          <6>1. ~(IsNeg(a) # IsNeg(b))
            BY <3>1, <5>1 DEF IsNeg
          <6>2. Arith!Quotient(m, k) = q /\ m = -q
            BY <2>3, <3>3, <5>1, <6>1
          <6> HIDE DEF q, m, k
          <6>3. q \in Nat
            BY DEF q
          <6> QED
            BY <6>2, <6>3
        <5>2. CASE ~IsNeg(a)
          <6>1. IsNeg(a) # IsNeg(b)
            BY <3>1, <5>2
          <6>2. Arith!Quotient(m, k) = -q /\ m = q
            BY <2>3, <3>3, <5>2, <6>1
          <6> QED
            BY <6>2
        <5> QED
          BY <5>1, <5>2
      <4>2. Result = Neg(a)
        BY <1>4, <2>8, <3>4, SelectedIs
      <4>3. Neg(a) \in Word
        BY <1>1, AbsFacts
      <4> QED
        BY <2>4, <3>3, <3>4, <4>1, <4>2, <4>3
    <3>5. CASE instr.op = "SMOD"
      <4>1. Arith!Remainder(m, k) = 0
        <5>0. r \in Int /\ r <= 0 /\ r >= 0
          BY <3>2
        <5> HIDE DEF r, m, k
        <5>1. -r = r
          BY <5>0
        <5> QED
          BY <2>3, <3>2, <5>1
      <4>2. Result = 0
        BY <1>4, <2>8, <3>5, SelectedIs
      <4>3. Low(0, Bits) = 0
        BY WordFacts, LowFacts
      <4> QED
        BY <2>4, <3>5, <4>1, <4>2, <4>3, WordFacts
    <3> QED
      BY <3>4, <3>5
  <2> QED
    BY <2>7, <2>8
<1> QED
  BY <1>7, <1>8

-----------------------------------------------------------------------------
(* BYTE and SIGNEXTEND.                                                    *)

ByteResult ==
    LET byte(k) == (instr.b \div (2 ^ (ByteBits * (Bytes - 1 - k))))
                       % (2 ^ ByteBits)
    IN  IF instr.a < Bytes THEN byte(instr.a % Bytes) ELSE 0

LEMMA ByteMeaning ==
    ASSUME instr \in Instructions, instr.op = "BYTE"
    PROVE  ByteResult = Arith!Meaning(instr) /\ ByteResult \in Word
<1> DEFINE a == instr.a
           b == instr.b
<1>1. a \in Nat /\ b \in Nat /\ Bytes \in Nat /\ Bytes > 0 /\ ByteBits \in Nat
  BY InstructionFacts, ConstantFacts
<1>2. Arith!Meaning(instr) = Arith!ByteOf(b, a)
  BY MeaningOfOthers
<1>3. CASE a < Bytes
  <2>1. a % Bytes = a
    BY <1>1, <1>3, ModOfSmall
  <2> DEFINE k == ByteBits * (Bytes - 1 - a)
             p == 2 ^ k
             s == 2 ^ ByteBits
             n == b \div p
  <2>2. ByteResult = n % s
    BY <1>3, <2>1 DEF ByteResult
  <2>3. Arith!Meaning(instr) = n % s
    BY <1>1, <1>2, <1>3 DEF Arith!ByteOf
  <2>4. k \in Nat
    <3> DEFINE j == Bytes - 1 - a
    <3>1. j \in Nat
      BY <1>1, <1>3
    <3> HIDE DEF j
    <3>2. ByteBits * j \in Nat
      BY <1>1, <3>1
    <3> QED
      BY <3>2 DEF j
  <2>5. p \in Nat /\ p > 0 /\ s \in Nat /\ s > 0 /\ s <= Size(Bits)
    <3> HIDE DEF k
    <3>1. p \in Nat /\ p > 0
      BY <2>4, PowerIsNatural, PowerExceeds
    <3>2. ByteBits <= Bits
      BY <1>1 DEF Bits
    <3>3. s \in Nat /\ s > 0 /\ s <= Size(Bits)
      BY <1>1, <3>2, ConstantFacts, PowersGrow DEF Size
    <3> QED
      BY <3>1, <3>3
  <2> HIDE DEF p, s
  <2>6. n \in Nat
    BY <1>1, <2>5
  <2> HIDE DEF n
  <2>7. n % s \in Nat /\ n % s < s
    BY <2>5, <2>6
  <2>8. n % s \in Word
    BY <2>5, <2>7, SizeFacts, WordFacts
  <2> QED
    BY <2>2, <2>3, <2>8
<1>4. CASE ~(a < Bytes)
  <2>1. ByteResult = 0
    BY <1>4 DEF ByteResult
  <2>2. Arith!Meaning(instr) = 0
    BY <1>1, <1>2, <1>4 DEF Arith!ByteOf
  <2> QED
    BY <2>1, <2>2, WordFacts
<1> QED
  BY <1>3, <1>4

SignExtendResult ==
    LET bitpos == ByteBits * (instr.a % Bytes) + ByteBits - 1
        low == Low(instr.b, bitpos)
        negmask == Size(Bits) - Size(bitpos)
        bittest == (instr.b \div Size(bitpos)) % 2 = 1
    IN  IF instr.a > Bytes - 2 THEN instr.b
        ELSE IF bittest THEN low + negmask ELSE low

(* A number below twice a power is above its sign or is not.               *)
LEMMA SignBit ==
    ASSUME NEW b \in Nat, NEW s \in Nat, s > 0
    PROVE  /\ b % s \in 0..s - 1
           /\ (b \div s) % 2 \in {0, 1}
           /\ b % (s + s) = (b % s) + ((b \div s) % 2) * s
<1> DEFINE q == b \div s
           r == b % s
           h == q \div 2
           t == q % 2
<1>1. q \in Nat /\ r \in 0..s - 1 /\ b = q * s + r
  OBVIOUS
<1> HIDE DEF q, r
<1>2. h \in Nat /\ t \in {0, 1} /\ q = 2 * h + t
  BY <1>1
<1> HIDE DEF h, t
<1>3. q * s = h * (s + s) + t * s
  BY <1>1, <1>2
<1>4. r + t * s \in 0..(s + s) - 1
  <2>1. t * s = IF t = 0 THEN 0 ELSE s
    BY <1>2
  <2> QED
    BY <1>1, <1>2, <2>1
<1>5. b = h * (s + s) + (r + t * s)
  <2> DEFINE u == h * (s + s)
             v == t * s
  <2>1. u \in Nat /\ v \in Nat
    BY <1>2
  <2>2. b = (u + v) + r
    BY <1>1, <1>3
  <2> HIDE DEF u, v
  <2>3. b = u + (r + v)
    BY <1>1, <2>1, <2>2
  <2> QED
    BY <2>3 DEF u, v
<1>6. b % (s + s) = r + t * s
  <2> DEFINE m == s + s
             w == r + t * s
  <2>1. m \in Nat /\ m > 0 /\ w \in 0..m - 1 /\ b = h * m + w
    BY <1>4, <1>5
  <2> HIDE DEF m, w
  <2>2. b % m = w
    BY <1>2, <2>1, DivModUnique
  <2> QED
    BY <2>2 DEF m, w
<1> QED
  BY <1>1, <1>2, <1>6 DEF r, t, q

LEMMA SignExtendMeaning ==
    ASSUME instr \in Instructions, instr.op = "SIGNEXTEND"
    PROVE  SignExtendResult = Arith!Meaning(instr) /\ SignExtendResult \in Word
<1> DEFINE a == instr.a
           b == instr.b
           m == Size(Bits)
<1>1. /\ a \in Nat /\ b \in Nat /\ b \in Word /\ b < m
      /\ Bytes \in Nat /\ Bytes > 0 /\ ByteBits \in Nat /\ ByteBits > 0
      /\ m \in Nat /\ m > 0
  BY InstructionFacts, ConstantFacts, SizeFacts
<1>2. Arith!Meaning(instr) = Arith!Extended(b, a)
  BY MeaningOfOthers
<1>3. CASE a >= Bytes
  BY <1>1, <1>2, <1>3 DEF Arith!Extended, SignExtendResult
<1>4. CASE a = Bytes - 1
  <2>1. SignExtendResult = b
    BY <1>1, <1>4 DEF SignExtendResult
  <2>2. ByteBits * (a + 1) = Bits
    BY <1>1, <1>4 DEF Bits
  <2>3. ~(a >= Bytes)
    BY <1>1, <1>4
  <2>4. Arith!Extended(b, a) =
          LET low == b % m
          IN  Low(IF 2 * low >= m THEN low - m ELSE low, Bits)
    BY <2>2, <2>3, ModulusIs DEF Arith!Extended, Size
  <2>5. b % m = b
    <3>1. b \in 0..m - 1
      BY <1>1
    <3> HIDE DEF m
    <3> QED
      BY <1>1, <3>1, ModOfSmall
  <2>6. Low(b, Bits) = b
    BY <2>5 DEF Low
  <2>7. Low(b - m, Bits) = b
    <3> HIDE DEF m
    <3>1. b = 1 * m + (b - m) /\ b - m \in Int
      BY <1>1
    <3>2. (1 * m + (b - m)) % m = (b - m) % m
      BY <1>1, <3>1, ModOfSum
    <3> QED
      BY <2>5, <3>1, <3>2 DEF Low, m
  <2> QED
    BY <1>1, <1>2, <2>1, <2>4, <2>5, <2>6, <2>7
<1>5. CASE a <= Bytes - 2
  <2> DEFINE p == (ByteBits * a + ByteBits) - 1
             s == 2 ^ p
             t == (b \div s) % 2
             low == b % s
  <2>1. a % Bytes = a
    BY <1>1, <1>5, ModOfSmall
  <2>2. /\ ByteBits * a \in Nat /\ p \in Nat /\ p + 1 = ByteBits * (a + 1)
        /\ ByteBits * a + ByteBits - 1 = p
    BY <1>1
  <2>3. p + 1 < Bits
    <3>1. ByteBits * (a + 1) < Bytes * ByteBits
      <4>1. ByteBits * (a + 2) <= Bytes * ByteBits
        BY <1>1, <1>5
      <4>2. ByteBits * (a + 2) = ByteBits * (a + 1) + ByteBits
        BY <1>1
      <4>3. ByteBits * (a + 1) \in Nat /\ Bytes * ByteBits \in Nat
        BY <1>1
      <4> QED
        BY <1>1, <4>1, <4>2, <4>3
    <3> QED
      BY <2>2, <3>1 DEF Bits
  <2> HIDE DEF p
  <2>4. s \in Nat /\ s > 0 /\ 2 ^ (p + 1) = s + s /\ s + s <= m
    BY <2>2, <2>3, ConstantFacts, PowerIsNatural, PowerExceeds, Doubles, PowersGrow
       DEF Size
  <2>5. ~(a > Bytes - 2) /\ ~(a >= Bytes)
    BY <1>1, <1>5
  <2>6. SignExtendResult = IF t = 1 THEN low + (m - s) ELSE low
    BY <2>1, <2>2, <2>5 DEF SignExtendResult, Low, Size
  <2>7. Arith!Extended(b, a) =
          LET all == b % (s + s)
          IN  Low(IF 2 * all >= s + s THEN all - (s + s) ELSE all, Bits)
    BY <2>2, <2>4, <2>5, ModulusIs DEF Arith!Extended
  <2> HIDE DEF s
  <2>8. low \in 0..s - 1 /\ t \in {0, 1} /\ b % (s + s) = low + t * s
    BY <1>1, <2>4, SignBit
  <2> HIDE DEF low, t, m
  <2>9. CASE t = 1
    <3>1. b % (s + s) = low + s
      BY <2>4, <2>8, <2>9
    <3>2. 2 * (low + s) >= s + s
      BY <2>4, <2>8
    <3>3. (low + s) - (s + s) = low - s /\ low - s \in Int
      BY <2>4, <2>8
    <3>4. Arith!Extended(b, a) = Low(low - s, Bits)
      BY <2>7, <3>1, <3>2, <3>3
    <3>5. low + (m - s) \in 0..m - 1 /\ low - s = (-1) * m + (low + (m - s))
      BY <1>1, <2>4, <2>8
    <3>6. (low - s) % m = low + (m - s)
      BY <1>1, <3>3, <3>5, DivModUnique
    <3>7. low + (m - s) \in Word
      BY <3>5 DEF Word, m
    <3> QED
      BY <1>2, <2>6, <2>9, <3>4, <3>6, <3>7 DEF Low, m
  <2>10. CASE t = 0
    <3>1. b % (s + s) = low
      BY <2>4, <2>8, <2>10
    <3>2. ~(2 * low >= s + s)
      BY <2>4, <2>8
    <3>3. Arith!Extended(b, a) = Low(low, Bits)
      BY <2>7, <3>1, <3>2
    <3>4. low \in Nat /\ low < m
      BY <1>1, <2>4, <2>8
    <3>5. low \in Word
      BY <3>4, WordFacts DEF m
    <3>6. Low(low, Bits) = low
      BY <3>4, <3>5, LowFacts
    <3> QED
      BY <1>2, <2>6, <2>10, <3>3, <3>5, <3>6
  <2> QED
    BY <2>8, <2>9, <2>10
<1> QED
  BY <1>1, <1>3, <1>4, <1>5

-----------------------------------------------------------------------------
(* The inductive invariant.                                                *)

(* The registers hold the operands of the instruction, and what the loop   *)
(* has found of the quotient: nothing, all but the lowest bit, everything. *)
Given ==
    pc \in {"entry", "loop", "return"} =>
        LET e == Emitted(instr)
        IN  /\ instr.op \in Divisions \cup WideDivisions
            /\ div.bits = e.bits
            /\ div.x = Passed(e, e.x)
            /\ div.y = Passed(e, e.y)

Found ==
    /\ pc = "entry" => div.q = 0
    /\ pc = "loop" => Even(div.q)
    /\ pc = "return" => Divided(div.x, div.y)

(* Only EXP is in its loop, and results come last.                         *)
Raising == pc \in {"exp", "fold"} => instr.op = "EXP"
Unfinished == pc # "done" => result = None

IInv ==
    /\ TypeOK
    /\ Given
    /\ Found
    /\ Raising
    /\ Unfinished
    /\ DivisionKeeps
    /\ PowerKeeps

LEMMA TypeIs ==
    TypeOK <=> /\ instr \in Instructions
               /\ pc \in {"start", "entry", "loop", "return", "exp", "fold",
                          "done"}
               /\ RegOk(div)
               /\ power \in [r : Word, b : Word, e : Word]
               /\ result \in Word \cup {None}
  BY Zenon DEF TypeOK, RegOk

LEMMA KeptIs ==
    ASSUME pc = "loop", div.y # 0
    PROVE  DivisionKeeps <=> Kept(div)
  BY DEF DivisionKeeps, Kept

LEMMA NoDivOk == RegOk(NoDiv)
<1>1. Size(Bits) \in Nat /\ 0 < Size(Bits) /\ Bits \in {Bits, 2 * Bits}
  BY SizeFacts
<1> QED
  BY <1>1, RegIntro DEF NoDiv

LEMMA InitInvariant == Init => IInv
<1> SUFFICES ASSUME Init PROVE IInv
  OBVIOUS
<1>1. NoPower \in [r : Word, b : Word, e : Word]
  BY WordFacts DEF NoPower
<1>2. pc = "start"
  BY DEF Init
<1>3. TypeOK
  BY <1>1, NoDivOk, TypeIs DEF Init
<1> QED
  BY <1>2, <1>3 DEF Init, IInv, Given, Found, Raising, Unfinished, DivisionKeeps,
                    PowerKeeps

(* Steps that end an instruction, with a word that is its meaning.         *)
LEMMA DoneKeeps ==
    ASSUME IInv, NEW value \in Word, Done(value),
           UNCHANGED <<instr, div, power>>
    PROVE  IInv'
<1>1. TypeOK'
  BY TypeIs DEF IInv, TypeOK, Done
<1>2. pc' = "done"
  BY DEF Done
<1> QED
  BY <1>1, <1>2 DEF IInv, Given, Found, Raising, Unfinished, DivisionKeeps,
                    PowerKeeps

LEMMA DoneRefines ==
    ASSUME IInv, pc # "done", NEW value, value = Arith!Meaning(instr),
           Done(value), UNCHANGED instr
    PROVE  Arith!Finish
  BY DEF IInv, Unfinished, Arith!Finish, Done

-----------------------------------------------------------------------------
(* One lemma for each action: it keeps the invariant, and is a step of the *)
(* specification or none.                                                  *)

StepOk == IInv' /\ (Arith!Finish \/ UNCHANGED <<instr, result>>)

LEMMA CallDivRemKeeps ==
    ASSUME IInv, CallDivRem
    PROVE  StepOk
<1> DEFINE e == Emitted(instr)
<1>1. /\ pc = "start" /\ pc' = "entry" /\ UNCHANGED <<instr, power, result>>
      /\ instr.op \in Divisions \cup WideDivisions
      /\ div' = [NoDiv EXCEPT !.bits = e.bits,
                             !.x = Passed(e, e.x), !.y = Passed(e, e.y)]
  BY DEF CallDivRem, Passed
<1>2. TypeOK /\ Unfinished
  BY DEF IInv
<1>3. /\ instr \in Instructions
      /\ power \in [r : Word, b : Word, e : Word]
      /\ result \in Word \cup {None}
  BY <1>2, TypeIs
<1>4. /\ e.bits \in {Bits, 2 * Bits}
      /\ Passed(e, e.x) \in Nat /\ Passed(e, e.x) < Size(e.bits)
      /\ Passed(e, e.y) \in Nat /\ Passed(e, e.y) < Size(e.bits)
  BY <1>1, <1>3, PassedFacts
<1>5. 0 \in Nat /\ 0 < Size(e.bits)
  BY <1>4, WidthFacts
<1> DEFINE x == Passed(e, e.x)
           y == Passed(e, e.y)
           bits == e.bits
<1>6. div' = [bits |-> bits, x |-> x, y |-> y, d |-> 0, r |-> 0, i |-> 0, q |-> 0]
  BY <1>1 DEF NoDiv
<1>7. RegOk(div')
  <2> HIDE DEF x, y, bits
  <2>1. RegOk([bits |-> bits, x |-> x, y |-> y, d |-> 0, r |-> 0, i |-> 0, q |-> 0])
    BY <1>4, <1>5, RegIntro DEF x, y, bits
  <2> QED
    BY <1>6, <2>1
<1>8. TypeOK'
  <2>1. instr' \in Instructions /\ pc' = "entry" /\ power' = power /\ result' = result
    BY <1>1, <1>3
  <2> QED
    BY <1>3, <1>7, <2>1 DEF TypeOK, RegOk
<1>9. div'.bits = bits /\ div'.x = x /\ div'.y = y /\ div'.q = 0
  BY <1>6
<1>10. Given'
  BY <1>1, <1>9 DEF Given
<1>11. Found' /\ Raising' /\ Unfinished' /\ DivisionKeeps' /\ PowerKeeps'
  BY <1>1, <1>2, <1>9 DEF Found, Raising, Unfinished, DivisionKeeps, PowerKeeps
<1> QED
  BY <1>1, <1>8, <1>10, <1>11 DEF IInv, StepOk

(* What the invariant says where a helper divides.                         *)
LEMMA DividingFacts ==
    ASSUME IInv, pc \in {"entry", "loop", "return"}
    PROVE  /\ instr \in Instructions
           /\ RegOk(div) /\ Given /\ Unfinished
           /\ div.bits \in {Bits, 2 * Bits}
           /\ div.x \in Nat /\ div.x < Size(div.bits)
           /\ div.y \in Nat /\ div.y < Size(div.bits)
           /\ div.d \in Nat /\ div.d < Size(div.bits)
           /\ div.r \in Nat /\ div.r < Size(div.bits)
           /\ div.i \in Nat /\ div.i < Size(div.bits)
           /\ div.q \in Nat /\ div.q < Size(div.bits)
           /\ div = [bits |-> div.bits, x |-> div.x, y |-> div.y, d |-> div.d,
                     r |-> div.r, i |-> div.i, q |-> div.q]
<1>1. TypeOK /\ Given /\ Unfinished
  BY DEF IInv
<1>2. instr \in Instructions /\ RegOk(div)
  BY <1>1, TypeIs
<1> QED
  BY <1>1, <1>2, RegFacts

(* Steps inside evm.udivrem.                                               *)
LEMMA DividingKeeps ==
    ASSUME IInv, pc \in {"entry", "loop"}, pc' \in {"loop", "return"},
           UNCHANGED <<instr, power, result>>,
           RegOk(div'), div'.bits = div.bits, div'.x = div.x, div'.y = div.y,
           pc' = "loop" => Even(div'.q) /\ (div.y # 0 => Kept(div')),
           pc' = "return" => Divided(div.x, div.y)'
    PROVE  StepOk
<1>1. /\ instr \in Instructions /\ Given /\ Unfinished
      /\ power \in [r : Word, b : Word, e : Word]
      /\ result \in Word \cup {None}
  BY TypeIs DEF IInv
<1>2. TypeOK'
  BY <1>1, Zenon DEF TypeOK, RegOk
<1>3. Given'
  BY <1>1 DEF Given
<1>4. Found'
  BY DEF Found
<1>5. DivisionKeeps'
  BY DEF DivisionKeeps, Kept
<1>6. Raising' /\ Unfinished' /\ PowerKeeps'
  BY <1>1 DEF Raising, Unfinished, PowerKeeps
<1> QED
  BY <1>2, <1>3, <1>4, <1>5, <1>6 DEF IInv, StepOk

LEMMA EntrySmallKeeps ==
    ASSUME IInv, EntrySmall
    PROVE  StepOk
<1>1. /\ pc = "entry" /\ div.y > div.x /\ div' = [div EXCEPT !.r = div.x]
      /\ pc' = "return" /\ UNCHANGED <<instr, power, result>>
  BY DEF EntrySmall
<1>2. /\ div.bits \in {Bits, 2 * Bits}
      /\ div.x \in Nat /\ div.x < Size(div.bits)
      /\ div.y \in Nat /\ div.y < Size(div.bits)
      /\ div.d \in Nat /\ div.d < Size(div.bits)
      /\ div.i \in Nat /\ div.i < Size(div.bits)
      /\ div.q \in Nat /\ div.q < Size(div.bits)
      /\ div = [bits |-> div.bits, x |-> div.x, y |-> div.y, d |-> div.d,
                r |-> div.r, i |-> div.i, q |-> div.q]
  BY <1>1, DividingFacts
<1>3. div' = [bits |-> div.bits, x |-> div.x, y |-> div.y, d |-> div.d,
              r |-> div.x, i |-> div.i, q |-> div.q]
  BY <1>1, <1>2
<1>4. RegOk(div')
  BY <1>2, <1>3, RegIntro
<1>5. /\ div'.bits = div.bits /\ div'.x = div.x /\ div'.y = div.y
      /\ div'.r = div.x /\ div'.q = div.q
  BY <1>3
<1>6. div.q = 0
  BY <1>1 DEF IInv, Found
<1>7. Divided(div.x, div.y)'
  <2>1. div.x = 0 * div.y + div.x /\ div.x < div.y
    BY <1>1, <1>2
  <2> QED
    BY <1>5, <1>6, <2>1 DEF Divided
<1> QED
  BY <1>1, <1>4, <1>5, <1>7, DividingKeeps

LEMMA EntryMainKeeps ==
    ASSUME IInv, EntryMain
    PROVE  StepOk
<1>1. /\ pc = "entry" /\ div.y <= div.x
      /\ pc' = "loop" /\ UNCHANGED <<instr, power, result>>
  BY DEF EntryMain
<1>2. /\ div.bits \in {Bits, 2 * Bits}
      /\ div.x \in Nat /\ div.x < Size(div.bits)
      /\ div.y \in Nat /\ div.y < Size(div.bits)
      /\ div = [bits |-> div.bits, x |-> div.x, y |-> div.y, d |-> div.d,
                r |-> div.r, i |-> div.i, q |-> div.q]
  BY <1>1, DividingFacts
<1> DEFINE bits == div.bits
<1>3. PICK yLz \in Ctlz(div.y, bits), rLz \in Ctlz(div.x, bits) :
        LET i0 == Low(yLz - rLz, bits)
        IN  div' = [div EXCEPT !.d = Shl(div.y, i0, bits),
                               !.r = div.x, !.i = i0, !.q = 0]
  BY DEF EntryMain
<1> DEFINE i == Low(yLz - rLz, bits)
           d == Shl(div.y, i, bits)
<1>4. div' = [bits |-> bits, x |-> div.x, y |-> div.y, d |-> d,
              r |-> div.x, i |-> i, q |-> 0]
  BY <1>2, <1>3
<1>5. /\ bits \in Nat /\ bits > 0 /\ bits < Size(bits)
      /\ Size(bits) \in Nat /\ Size(bits) > 0
  BY <1>2, WidthFacts
<1>6. ASSUME div.y # 0
      PROVE  /\ i \in Nat /\ i < bits
             /\ d = div.y * 2 ^ i /\ d \in Nat
             /\ d < Size(bits) /\ div.x < 2 * d
  <2>1. 0 < div.y
    BY <1>2, <1>6
  <2> QED
    BY <1>1, <1>2, <2>1, ShiftedDivisor
<1>7. ASSUME NEW n, n \in Ctlz(0, bits) \/ n \in 0..bits - 1
      PROVE  n \in Nat
  <2>1. Ctlz(0, bits) = CtlzOfZero
    BY DEF Ctlz
  <2>2. n \in CtlzOfZero \/ n \in 0..bits - 1
    BY <1>7, <2>1, Zenon
  <2>3. CtlzOfZero \subseteq Nat /\ 0..bits - 1 \subseteq Nat
    BY <1>5, ConstantFacts
  <2> QED
    BY <2>2, <2>3, Zenon
<1>8. yLz \in Int /\ rLz \in Int
  <2>1. \A n : Ctlz(n, bits) \subseteq Ctlz(0, bits) \cup 0..bits - 1
    BY DEF Ctlz
  <2> QED
    BY <1>7, <2>1
<1>9. i \in Nat /\ i < Size(bits)
  <2>1. yLz - rLz \in Int
    BY <1>8
  <2> QED
    BY <1>5, <2>1, DivModFacts DEF Low
<1>10. d \in Nat /\ d < Size(bits)
  <2>1. CASE div.y = 0
    <3>1. 2 ^ i \in Nat
      BY <1>9, PowerIsNatural
    <3> HIDE DEF i
    <3>2. div.y * 2 ^ i = 0
      BY <2>1, <3>1
    <3>3. 0 % Size(bits) = 0
      BY <1>5, ModOfSmall
    <3>4. d = 0
      BY <3>2, <3>3 DEF Shl, Low
    <3> QED
      BY <1>5, <3>4
  <2> QED
    BY <1>6, <2>1
<1> HIDE DEF d, i
<1>11. RegOk(div')
  <2>1. RegOk([bits |-> bits, x |-> div.x, y |-> div.y, d |-> d,
               r |-> div.x, i |-> i, q |-> 0])
    BY <1>2, <1>5, <1>9, <1>10, RegIntro
  <2> QED
    BY <1>4, <2>1
<1>12. /\ div'.bits = bits /\ div'.x = div.x /\ div'.y = div.y /\ div'.d = d
       /\ div'.r = div.x /\ div'.i = i /\ div'.q = 0
  BY <1>4
<1>13. Even(div'.q)
  BY <1>12 DEF Even
<1>14. div.y # 0 => Kept(div')
  <2> SUFFICES ASSUME div.y # 0 PROVE Kept(div')
    OBVIOUS
  <2>1. d = div.y * 2 ^ i /\ d \in Nat /\ div.x < 2 * d
    BY <1>6
  <2>2. div.x = 0 * d + div.x
    BY <1>2, <2>1
  <2> QED
    BY <1>12, <2>1, <2>2 DEF Kept
<1> QED
  BY <1>1, <1>11, <1>12, <1>13, <1>14, DividingKeeps

LEMMA LoopContinueKeeps ==
    ASSUME IInv, LoopContinue
    PROVE  StepOk
<1>1. /\ pc = "loop" /\ div.i # 0 /\ div' = Round(div)
      /\ pc' = "loop" /\ UNCHANGED <<instr, power, result>>
  BY DEF LoopContinue, Round
<1>2. RegOk(div)
  BY <1>1, DividingFacts
<1>3. Even(div.q) /\ (div.y # 0 => Kept(div))
  BY <1>1, KeptIs DEF IInv, Found
<1>4. /\ RegOk(div') /\ Even(div'.q)
      /\ div'.bits = div.bits /\ div'.x = div.x /\ div'.y = div.y
      /\ div.y # 0 /\ Kept(div) => Kept(div')
  BY <1>1, <1>2, <1>3, RoundKeeps
<1> QED
  BY <1>1, <1>3, <1>4, DividingKeeps

LEMMA LoopExitKeeps ==
    ASSUME IInv, LoopExit
    PROVE  StepOk
<1>1. /\ pc = "loop" /\ div.i = 0 /\ div' = Subtracted(div)
      /\ pc' = "return" /\ UNCHANGED <<instr, power, result>>
  BY DEF LoopExit
<1>2. RegOk(div)
  BY <1>1, DividingFacts
<1>3. Even(div.q) /\ (div.y # 0 => Kept(div))
  BY <1>1, KeptIs DEF IInv, Found
<1>4. /\ RegOk(div')
      /\ div'.bits = div.bits /\ div'.x = div.x /\ div'.y = div.y
      /\ div'.d = div.d
      /\ Kept(div) => div'.x = div'.q * div'.d + div'.r /\ div'.r < div'.d
  BY <1>1, <1>2, <1>3, SubtractedFacts
<1>5. div.y # 0 => div.d = div.y
  <2>1. div.y * 1 = div.y
    BY <1>1, DividingFacts
  <2> QED
    BY <1>1, <1>3, <2>1, PowerOfZero DEF Kept
<1>6. Divided(div.x, div.y)'
  BY <1>3, <1>4, <1>5 DEF Divided
<1> QED
  BY <1>1, <1>4, <1>6, DividingKeeps

LEMMA ReturnKeeps ==
    ASSUME IInv, Return
    PROVE  StepOk
<1>1. /\ pc = "return" /\ Done(Result) /\ UNCHANGED <<instr, div, power>>
  BY DEF Return, Result
<1>2. /\ instr \in Instructions /\ Given
      /\ div.q \in Nat /\ div.r \in Nat
  BY <1>1, DividingFacts
<1>3. /\ instr.op \in Divisions \cup WideDivisions
      /\ LET e == Emitted(instr)
         IN  Divided(Passed(e, e.x), Passed(e, e.y))
  BY <1>1, <1>2 DEF Given, IInv, Found
<1>4. Result = Arith!Meaning(instr) /\ Result \in Word
  <2>1. CASE instr.op \in {"SDIV", "SMOD"}
    BY <1>2, <1>3, <2>1, SignedMeaning
  <2>2. CASE instr.op \notin {"SDIV", "SMOD"}
    <3>1. instr.op \in {"DIV", "MOD"} \cup WideDivisions
      BY <1>3, <2>2 DEF Divisions
    <3> QED
      BY <1>2, <1>3, <3>1, UnsignedMeaning
  <2> QED
    BY <2>1, <2>2
<1> QED
  BY <1>1, <1>4, DoneKeeps, DoneRefines DEF StepOk

LEMMA CallExpKeeps ==
    ASSUME IInv, CallExp
    PROVE  StepOk
<1>1. PICK at \in {"exp", "fold"} :
        /\ pc = "start" /\ instr.op = "EXP" /\ pc' = at
        /\ power' = [r |-> 1, b |-> instr.a, e |-> instr.b]
        /\ UNCHANGED <<instr, div, result>>
  BY DEF CallExp, ExpCalled
<1>2. /\ instr \in Instructions /\ RegOk(div) /\ Unfinished
      /\ result \in Word \cup {None}
  BY TypeIs DEF IInv
<1>3. instr.a \in Word /\ instr.b \in Word /\ instr.a \in Nat /\ instr.b \in Nat
  BY <1>2, InstructionFacts
<1>4. power' \in [r : Word, b : Word, e : Word]
  BY <1>1, <1>3, WordFacts
<1>5. TypeOK'
  BY <1>1, <1>2, <1>4, Zenon DEF TypeOK, RegOk
<1>6. PowerKeeps'
  <2> DEFINE p == PowerOf(instr.a, instr.b)
  <2>1. p \in Word /\ p \in Nat
    <3>1. p \in Word
      BY <1>3, PowerOfFacts
    <3> QED
      BY <3>1, WordFacts
  <2>2. 1 * p = p /\ p \in Int
    BY <2>1
  <2>3. Low(p, Bits) = p
    BY <2>1, <2>2, LowFacts
  <2>4. power'.r = 1 /\ power'.b = instr.a /\ power'.e = instr.b
    BY <1>1
  <2>5. Low(power'.r * PowerOf(power'.b, power'.e), Bits) = p
    BY <2>2, <2>3, <2>4
  <2> QED
    BY <1>1, <2>5 DEF PowerKeeps
<1>7. Given' /\ Found' /\ Raising' /\ Unfinished' /\ DivisionKeeps'
  BY <1>1, <1>2 DEF Given, Found, Raising, Unfinished, DivisionKeeps
<1> QED
  BY <1>1, <1>5, <1>6, <1>7 DEF IInv, StepOk

(* The assignments of the compiler's own loop, one after another, do what  *)
(* the helper's registers do at once.                                      *)
LEMMA FoldedFacts ==
    ASSUME NEW p \in [r : Word, b : Word, e : Word]
    PROVE  Folded(p) = Multiplied(p)
<1> DEFINE raised == Raised(p)
           r1 == IF p.e % 2 = 1 THEN Low(p.r * p.b, Bits) ELSE p.r
           b1 == Low(p.b * p.b, Bits)
           e1 == p.e \div 2
<1>1. raised = [r |-> r1, b |-> p.b, e |-> p.e]
  BY DEF Raised
<1> HIDE DEF raised, r1
<1>2. Squared(raised) = [r |-> r1, b |-> b1, e |-> p.e]
  BY <1>1 DEF Squared
<1> HIDE DEF b1
<1>3. Halved(Squared(raised)) = [r |-> r1, b |-> b1, e |-> e1]
  BY <1>2 DEF Halved
<1>4. QED
  BY <1>3 DEF Folded, Multiplied, raised, r1, b1

LEMMA PowerLoopKeeps ==
    ASSUME IInv, ExpLoop \/ FoldLoop
    PROVE  StepOk
<1>1. /\ pc \in {"exp", "fold"} /\ power.e # 0
      /\ power' = Multiplied(power) \/ power' = Folded(power)
      /\ UNCHANGED <<instr, pc, div, result>>
  BY DEF ExpLoop, FoldLoop
<1>2. /\ instr \in Instructions /\ RegOk(div)
      /\ power \in [r : Word, b : Word, e : Word]
      /\ result \in Word \cup {None}
      /\ Raising /\ Unfinished /\ PowerKeeps
      /\ pc \in {"start", "entry", "loop", "return", "exp", "fold", "done"}
  BY TypeIs DEF IInv
<1>3. /\ power' \in [r : Word, b : Word, e : Word]
      /\ Low(power'.r * PowerOf(power'.b, power'.e), Bits)
             = Low(power.r * PowerOf(power.b, power.e), Bits)
  <2>1. power' = Multiplied(power)
    BY <1>1, <1>2, FoldedFacts
  <2> QED
    BY <1>1, <1>2, <2>1, MultipliedKeeps
<1>4. TypeOK'
  BY <1>1, <1>2, <1>3, Zenon DEF TypeOK, RegOk
<1>5. PowerKeeps'
  BY <1>1, <1>2, <1>3 DEF PowerKeeps
<1>6. Given' /\ Found' /\ Raising' /\ Unfinished' /\ DivisionKeeps'
  BY <1>1, <1>2 DEF Given, Found, Raising, Unfinished, DivisionKeeps
<1> QED
  BY <1>1, <1>4, <1>5, <1>6 DEF IInv, StepOk

LEMMA PowerReturnKeeps ==
    ASSUME IInv, ExpReturn \/ FoldReturn
    PROVE  StepOk
<1>1. /\ pc \in {"exp", "fold"} /\ power.e = 0 /\ Done(power.r)
      /\ UNCHANGED <<instr, div, power>>
  BY DEF ExpReturn, FoldReturn
<1>2. /\ power \in [r : Word, b : Word, e : Word]
      /\ instr.op = "EXP" /\ PowerKeeps
  BY <1>1, TypeIs DEF IInv, Raising
<1>3. power.r \in Word /\ power.r \in Nat /\ power.b \in Nat
  BY <1>2, WordFacts
<1>4. power.r = PowerOf(instr.a, instr.b)
  <2>1. PowerOf(power.b, power.e) = 1
    BY <1>1, <1>3, PowerOfFacts
  <2>2. power.r * 1 = power.r /\ power.r \in Int
    BY <1>3
  <2>3. Low(power.r, Bits) = power.r
    BY <1>3, <2>2, LowFacts
  <2>4. Low(power.r * PowerOf(power.b, power.e), Bits) = PowerOf(instr.a, instr.b)
    BY <1>1, <1>2 DEF PowerKeeps
  <2> QED
    BY <2>1, <2>2, <2>3, <2>4
<1>5. power.r = Arith!Meaning(instr)
  BY <1>2, <1>4, MeaningOfOthers
<1> QED
  BY <1>1, <1>3, <1>5, DoneKeeps, DoneRefines DEF StepOk

LEMMA DoByteKeeps ==
    ASSUME IInv, DoByte
    PROVE  StepOk
<1>1. /\ pc = "start" /\ instr.op = "BYTE" /\ Done(ByteResult)
      /\ UNCHANGED <<instr, div, power>>
  BY DEF DoByte, ByteResult
<1>2. instr \in Instructions
  BY TypeIs DEF IInv
<1> QED
  BY <1>1, <1>2, ByteMeaning, DoneKeeps, DoneRefines DEF StepOk

LEMMA DoSignExtendKeeps ==
    ASSUME IInv, DoSignExtend
    PROVE  StepOk
<1>1. /\ pc = "start" /\ instr.op = "SIGNEXTEND" /\ Done(SignExtendResult)
      /\ UNCHANGED <<instr, div, power>>
  BY DEF DoSignExtend, SignExtendResult
<1>2. instr \in Instructions
  BY TypeIs DEF IInv
<1> QED
  BY <1>1, <1>2, SignExtendMeaning, DoneKeeps, DoneRefines DEF StepOk

LEMMA NextKeeps == IInv /\ [Next]_vars => StepOk
<1> SUFFICES ASSUME IInv, [Next]_vars PROVE StepOk
  OBVIOUS
<1>1. CASE UNCHANGED vars
  <2>1. UNCHANGED <<instr, result>> /\ UNCHANGED <<pc, div, power>>
    BY <1>1 DEF vars
  <2>2. TypeOK'
    BY <2>1, Zenon DEF IInv, TypeOK
  <2>3. Given' /\ Found' /\ Raising' /\ Unfinished'
    BY <2>1 DEF IInv, Given, Found, Raising, Unfinished, Divided
  <2>4. DivisionKeeps' /\ PowerKeeps'
    BY <2>1 DEF IInv, DivisionKeeps, PowerKeeps
  <2> QED
    BY <2>1, <2>2, <2>3, <2>4 DEF IInv, StepOk
<1>2. CASE Next
  BY <1>2, CallDivRemKeeps, EntrySmallKeeps, EntryMainKeeps, LoopContinueKeeps,
     LoopExitKeeps, ReturnKeeps, CallExpKeeps, PowerLoopKeeps, PowerReturnKeeps,
     DoByteKeeps, DoSignExtendKeeps
     DEF Next
<1> QED
  BY <1>1, <1>2

LEMMA Invariance == Spec => []IInv
<1>1. IInv /\ [Next]_vars => IInv'
  BY NextKeeps DEF StepOk
<1> QED
  BY <1>1, InitInvariant, PTL DEF Spec

-----------------------------------------------------------------------------
(* All registers of evm.udivrem and exp stay within their widths, also     *)
(* when a divisor is zero and its leading zeros are undefined.             *)
THEOREM TypeCorrect == Spec => []TypeOK
<1>1. IInv => TypeOK
  BY DEF IInv
<1> QED
  BY <1>1, Invariance, PTL

(* The loop of evm.udivrem (Arith256.cpp:68-96) loses nothing of the       *)
(* dividend, and shifts the divisor without a loss.                        *)
THEOREM DivisionIsExact == Spec => []DivisionKeeps
<1>1. IInv => DivisionKeeps
  BY DEF IInv
<1> QED
  BY <1>1, Invariance, PTL

(* Square and multiply (Arith256.cpp:333-371, 397-403) keeps the power.    *)
THEOREM PowersAreKept == Spec => []PowerKeeps
<1>1. IInv => PowerKeeps
  BY DEF IInv
<1> QED
  BY <1>1, Invariance, PTL

(* Every result of the instructions of Compiler.cpp:272-511 is the one of  *)
(* integer arithmetic modulo the size of a word.                           *)
THEOREM ArithRefinement == Spec => ImplementsEvmArith
<1>1. Init => Arith!Init
  BY DEF Init, Arith!Init
<1>2. IInv /\ [Next]_vars => [Arith!Finish]_<<instr, result>>
  BY NextKeeps DEF StepOk
<1> QED
  BY <1>1, <1>2, Invariance, PTL DEF Spec, ImplementsEvmArith, Arith!Spec
=============================================================================
