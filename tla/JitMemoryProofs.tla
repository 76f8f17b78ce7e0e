--------------------------- MODULE JitMemoryProofs ---------------------------
(***************************************************************************)
(* Theorems about the compiled memory, for every size of words, numbers    *)
(* and operands, and all prices, where nobody can pay for a memory as      *)
(* large as the clamp.                                                     *)
(***************************************************************************)
EXTENDS JitMemory, TLAPS

(* The bytes of a memory, zero behind the end of the buffer.               *)
ByteAt(b, a) == IF a < Len(b) THEN b[a + 1] ELSE 0

Buffers == {b \in Seq(Byte \cup {0}) : Len(b) % WordBytes = 0}

Paid(b) == Len(b) \div WordBytes

(* The buffer, the gas and the verdict that go through an instruction.     *)
Meters == [buf : Buffers, gas : Nat, oog : BOOLEAN]

(* The words of the memory and the instruction under way were paid from    *)
(* the gas at the start.                                                   *)
Funded(m) ==
    \E g \in StartGas : m.gas + Price(Paid(m.buf)) <= g - StepCost

(* All words of the memory were paid.                                      *)
WordsPaid ==
    \E g \in StartGas : gas + Price(Paid(buf)) <= g

IInv == TypeOK /\ WordsPaid

(* The words that are active when a range is touched.                      *)
Reach(b, off, size) ==
    LET words == (off + size + WordBytes - 1) \div WordBytes
    IN  IF size = 0 \/ words <= Paid(b) THEN Paid(b) ELSE words

(* n is what remains of a meter m when words up to a reach were required:  *)
(* more gas than they cost, and the same bytes.                            *)
Grown(m, n, reach) ==
    /\ n \in Meters
    /\ n.oog <=> m.gas + Price(Paid(m.buf)) < Price(reach)
    /\ ~n.oog => /\ Paid(n.buf) = reach
                 /\ n.gas + Price(reach) = m.gas + Price(Paid(m.buf))
                 /\ \A a \in Nat : ByteAt(n.buf, a) = ByteAt(m.buf, a)

(* A range that may be accessed with truncated operands.                   *)
Covered(b, off, size) ==
    size > 0 => off <= InputMax /\ size <= InputMax /\ off + size <= Len(b)

(* b is c with a range overwritten.                                        *)
Overwritten(b, c, off, size, content) ==
    \A a \in Nat : ByteAt(b, a) =
        IF a \in off..off + size - 1 THEN content[a - off] ELSE ByteAt(c, a)

(* Both are the same bytes.                                                *)
SameContent(content, given, size) ==
    \A j \in 0..size - 1 : content[j] = given[j] /\ given[j] \in Byte \cup {0}

-----------------------------------------------------------------------------
(* Words and their price.                                                  *)

LEMMA ConstantFacts ==
    /\ WordTop \in Nat /\ MaxGas \in Nat /\ InputMax \in Nat
    /\ WordBytes \in Nat /\ WordBytes > 0 /\ QuadDiv \in Nat /\ QuadDiv > 0
    /\ SizeMod \in Nat /\ SizeMod = 2 * MaxGas + 2
    /\ 2 * InputMax + WordBytes <= SizeMod
    /\ SizeMod <= WordTop + 1
    /\ MemoryGas \in Nat /\ CopyGas \in Nat
    /\ StepCost \in Nat /\ StepCost > 0
    /\ StartGas \subseteq 0..MaxGas
    /\ Junk \notin Byte \cup {0} /\ Byte \cup {0} \subseteq Nat
  BY MemoryAssumption, ScheduleAssumption
     DEF MemoryAssumption, ScheduleAssumption, SizeMod, Junk

LEMMA DivFacts ==
  ASSUME NEW n \in Nat, NEW w \in Nat, w > 0
  PROVE  /\ n \div w \in Nat
         /\ (n \div w) * w <= n /\ n < (n \div w) * w + w
         /\ n % w \in 0..w - 1 /\ n = (n \div w) * w + (n % w)
  OBVIOUS

LEMMA MulMono ==
  ASSUME NEW a \in Nat, NEW b \in Nat, NEW c \in Nat, a <= b
  PROVE  a * c <= b * c
  OBVIOUS

(* A quotient is greatest.                                                 *)
LEMMA DivGreatest ==
  ASSUME NEW n \in Nat, NEW w \in Nat, w > 0, NEW q \in Nat
  PROVE  q <= n \div w <=> q * w <= n
<1>1. n \div w \in Nat /\ (n \div w) * w <= n /\ n < (n \div w) * w + w
  BY DivFacts
<1> DEFINE d == n \div w
<1>2. d \in Nat /\ d * w <= n /\ n < d * w + w
  BY <1>1
<1> HIDE DEF d
<1>3. ASSUME q <= d PROVE q * w <= n
  BY <1>2, <1>3, MulMono
<1>4. ASSUME ~(q <= d) PROVE ~(q * w <= n)
  <2>1. d + 1 <= q
    BY <1>2, <1>4
  <2>2. (d + 1) * w <= q * w
    BY <2>1, <1>2, MulMono
  <2>3. (d + 1) * w = d * w + w
    BY <1>2
  <2> QED
    BY <2>2, <2>3, <1>2
<1> QED
  BY <1>3, <1>4 DEF d

LEMMA DivMono ==
  ASSUME NEW m \in Nat, NEW n \in Nat, NEW w \in Nat, w > 0, m <= n
  PROVE  m \div w <= n \div w
<1>1. m \div w \in Nat /\ (m \div w) * w <= m
  BY DivFacts
<1>2. (m \div w) * w \in Nat
  BY <1>1
<1> QED
  BY <1>1, <1>2, DivGreatest

(* Rounding up.                                                            *)
LEMMA WordsFacts ==
  ASSUME NEW n \in Nat
  PROVE  LET words == (n + WordBytes - 1) \div WordBytes
         IN  /\ words \in Nat /\ n <= words * WordBytes
             /\ words * WordBytes < n + WordBytes
             /\ RoundedUp(n) = words * WordBytes
             /\ \A q \in Nat : words <= q <=> n <= q * WordBytes
<1> DEFINE k == n + WordBytes - 1
           words == k \div WordBytes
<1>1. k \in Nat /\ WordBytes \in Nat /\ WordBytes > 0
  BY ConstantFacts
<1>2. /\ words \in Nat /\ words * WordBytes <= k
      /\ k < words * WordBytes + WordBytes
  BY <1>1, DivFacts
<1>3. RoundedUp(n) = words * WordBytes
  BY DEF RoundedUp
<1> HIDE DEF words
<1>4. n <= words * WordBytes /\ words * WordBytes < n + WordBytes
  BY <1>1, <1>2
<1>5. ASSUME NEW q \in Nat PROVE words <= q <=> n <= q * WordBytes
  <2>1. q + 1 <= words <=> (q + 1) * WordBytes <= k
    BY <1>1, DivGreatest DEF words
  <2>2. (q + 1) * WordBytes = q * WordBytes + WordBytes
    BY <1>1
  <2>3. q * WordBytes \in Nat
    BY <1>1
  <2> QED
    BY <2>1, <2>2, <2>3, <1>1, <1>2
<1> QED
  BY <1>2, <1>3, <1>4, <1>5 DEF words

LEMMA PriceFacts ==
  ASSUME NEW m \in Nat
  PROVE  /\ Price(m) \in Nat
         /\ \A n \in Nat : m <= n => Price(m) <= Price(n)
<1>1. QuadDiv \in Nat /\ QuadDiv > 0 /\ MemoryGas \in Nat
  BY ConstantFacts
<1>2. ASSUME NEW k \in Nat
      PROVE  /\ k * k \in Nat /\ MemoryGas * k \in Nat
             /\ (k * k) \div QuadDiv \in Nat
  <2>1. k * k \in Nat /\ MemoryGas * k \in Nat
    BY <1>1
  <2> QED
    BY <2>1, <1>1, DivFacts
<1>3. Price(m) \in Nat
  BY <1>2 DEF Price
<1>4. ASSUME NEW n \in Nat, m <= n PROVE Price(m) <= Price(n)
  <2>1. MemoryGas * m <= MemoryGas * n
    BY <1>1, <1>4, MulMono
  <2>2. m * m <= n * n
    <3>1. m * m <= n * m
      BY <1>4, MulMono
    <3>2. n * m <= n * n
      BY <1>4, MulMono
    <3> QED
      BY <3>1, <3>2, <1>2
  <2>3. (m * m) \div QuadDiv <= (n * n) \div QuadDiv
    BY <2>2, <1>1, <1>2, DivMono
  <2> QED
    BY <2>1, <2>3, <1>2 DEF Price
<1> QED
  BY <1>3, <1>4

LEMMA TruncFacts ==
  ASSUME NEW n \in Nat
  PROVE  /\ Trunc(n) \in Nat
         /\ n < SizeMod => Trunc(n) = n
<1>1. SizeMod \in Nat /\ SizeMod > 0
  BY ConstantFacts
<1> HIDE DEF SizeMod
<1>2. /\ n \div SizeMod \in Nat /\ n % SizeMod \in Nat
      /\ n = (n \div SizeMod) * SizeMod + (n % SizeMod)
  BY <1>1, DivFacts
<1>3. ASSUME n < SizeMod PROVE n % SizeMod = n
  <2>1. CASE n \div SizeMod = 0
    BY <1>1, <1>2, <2>1
  <2>2. CASE 1 <= n \div SizeMod
    <3>1. 1 * SizeMod <= (n \div SizeMod) * SizeMod
      BY <1>1, <1>2, <2>2, MulMono
    <3>2. (n \div SizeMod) * SizeMod \in Nat
      BY <1>1, <1>2
    <3> QED
      BY <3>1, <3>2, <1>1, <1>2, <1>3
  <2> QED
    BY <1>2, <2>1, <2>2
<1> QED
  BY <1>2, <1>3 DEF Trunc

(* Operands that are not clamped.                                          *)
LEMMA SmallFacts ==
  ASSUME NEW n \in Nat, n <= InputMax
  PROVE  Trunc(n) = n /\ Clamped(n) = n
<1>1. n < SizeMod
  BY ConstantFacts
<1> QED
  BY <1>1, TruncFacts DEF Clamped

LEMMA ClampedFacts ==
  ASSUME NEW n \in Nat
  PROVE  Clamped(n) \in 0..InputMax
  BY SmallFacts, ConstantFacts DEF Clamped

-----------------------------------------------------------------------------
(* Buffers.                                                                *)

LEMMA BufferFacts ==
  ASSUME NEW b \in Buffers
  PROVE  /\ b \in Seq(Byte \cup {0}) /\ Len(b) \in Nat /\ Paid(b) \in Nat
         /\ Len(b) = Paid(b) * WordBytes
         /\ \A a \in Nat : ByteAt(b, a) \in Byte \cup {0}
<1>1. b \in Seq(Byte \cup {0}) /\ Len(b) \in Nat /\ Len(b) % WordBytes = 0
  BY DEF Buffers
<1>2. /\ Len(b) \div WordBytes \in Nat
      /\ Len(b) = (Len(b) \div WordBytes) * WordBytes + (Len(b) % WordBytes)
  BY <1>1, ConstantFacts, DivFacts
<1>3. (Len(b) \div WordBytes) * WordBytes \in Nat
  BY <1>2, ConstantFacts
<1>4. ASSUME NEW a \in Nat PROVE ByteAt(b, a) \in Byte \cup {0}
  <2>1. CASE a < Len(b)
    <3>1. a + 1 \in 1..Len(b)
      BY <1>1, <2>1
    <3> QED
      BY <3>1, <2>1, <1>1 DEF ByteAt
  <2> QED
    BY <2>1 DEF ByteAt
<1> QED
  BY <1>1, <1>2, <1>3, <1>4 DEF Paid

(* A buffer of a number of words.                                          *)
LEMMA NewBuffer ==
  ASSUME NEW b \in Seq(Byte \cup {0}), NEW q \in Nat, Len(b) = q * WordBytes
  PROVE  b \in Buffers /\ Paid(b) = q
<1>1. WordBytes \in Nat /\ WordBytes > 0
  BY ConstantFacts
<1>2. Len(b) \in Nat
  OBVIOUS
<1> DEFINE d == Len(b) \div WordBytes
           r == Len(b) % WordBytes
<1>3. /\ d \in Nat /\ r \in 0..WordBytes - 1
      /\ Len(b) = d * WordBytes + r
  BY <1>1, <1>2, DivFacts
<1>4. q <= d
  BY <1>1, <1>2, DivGreatest
<1> HIDE DEF d, r
<1>5. d <= q
  <2>1. SUFFICES ASSUME q + 1 <= d PROVE FALSE
    BY <1>3
  <2>2. (q + 1) * WordBytes <= d * WordBytes
    BY <2>1, <1>1, <1>3, MulMono
  <2>3. (q + 1) * WordBytes = q * WordBytes + WordBytes
    BY <1>1
  <2>4. q * WordBytes \in Nat /\ d * WordBytes \in Nat
    BY <1>1, <1>3
  <2> QED
    BY <2>2, <2>3, <2>4, <1>1, <1>3
<1>6. d = q
  BY <1>3, <1>4, <1>5
<1>7. q * WordBytes \in Nat
  BY <1>1
<1>8. r = 0
  BY <1>3, <1>6, <1>7
<1> QED
  BY <1>6, <1>8 DEF d, r, Buffers, Paid

LEMMA ExtendedFacts ==
  ASSUME NEW b \in Buffers, NEW q \in Nat, Len(b) <= q * WordBytes
  PROVE  LET e == Extended(b, q * WordBytes)
         IN  /\ e \in Buffers /\ Paid(e) = q /\ Len(e) = q * WordBytes
             /\ \A a \in Nat : ByteAt(e, a) = ByteAt(b, a)
<1> DEFINE size == q * WordBytes
           e == Extended(b, size)
<1>1. b \in Seq(Byte \cup {0}) /\ Len(b) \in Nat
  BY BufferFacts
<1>2. size \in Nat
  BY ConstantFacts
<1>3. Len(b) <= size
  OBVIOUS
<1>4. size = q * WordBytes
  OBVIOUS
<1> HIDE DEF size
<1>5. e \in Seq(Byte \cup {0}) /\ Len(e) = size
  BY <1>1, <1>2, <1>3 DEF Extended
<1>6. e \in Buffers /\ Paid(e) = q
  BY <1>4, <1>5, NewBuffer
<1>7. ASSUME NEW a \in Nat PROVE ByteAt(e, a) = ByteAt(b, a)
  <2>1. CASE a < size
    <3>1. a + 1 \in 1..size
      BY <2>1, <1>2
    <3>2. e[a + 1] = IF a + 1 <= Len(b) THEN b[a + 1] ELSE 0
      BY <3>1 DEF Extended
    <3> QED
      BY <3>2, <2>1, <1>1, <1>2, <1>5 DEF ByteAt
  <2>2. CASE ~(a < size)
    BY <2>2, <1>1, <1>2, <1>3, <1>5 DEF ByteAt
  <2> QED
    BY <2>1, <2>2
<1> QED
  BY <1>4, <1>5, <1>6, <1>7

-----------------------------------------------------------------------------
(* Paying and requiring.                                                   *)

LEMMA PayingFacts ==
  ASSUME NEW m \in Meters, ~m.oog, NEW cost \in Nat
  PROVE  LET p == Paying(m, cost)
         IN  /\ p \in Meters /\ p.buf = m.buf
             /\ p.oog <=> m.gas < cost
             /\ ~p.oog => p.gas = m.gas - cost
<1>1. m.gas \in Nat /\ m.oog = FALSE /\ m.buf \in Buffers
  BY DEF Meters
<1>2. CASE m.gas < cost
  <2>1. Paying(m, cost) = [m EXCEPT !.oog = TRUE]
    BY <1>1, <1>2 DEF Paying
  <2> QED
    BY <2>1, <1>1, <1>2 DEF Meters
<1>3. CASE cost <= m.gas
  <2>1. Paying(m, cost) = [m EXCEPT !.gas = m.gas - cost]
    BY <1>1, <1>3 DEF Paying
  <2>2. m.gas - cost \in Nat /\ ~(m.gas < cost)
    BY <1>1, <1>3
  <2> QED
    BY <2>1, <2>2, <1>1 DEF Meters
<1> QED
  BY <1>1, <1>2, <1>3

(* Nobody pays for a memory that reaches the clamp.                        *)
LEMMA FundedIsSmall ==
  ASSUME Affordable, NEW m \in Meters, Funded(m)
  PROVE  /\ Len(m.buf) < InputMax /\ m.gas < MaxGas
         /\ m.gas + Price(Paid(m.buf)) < Price(InputMax \div WordBytes)
<1>1. PICK g \in StartGas : m.gas + Price(Paid(m.buf)) <= g - StepCost
  BY DEF Funded
<1>2. g \in Nat /\ g <= MaxGas /\ StepCost \in Nat /\ StepCost > 0
      /\ WordBytes \in Nat /\ WordBytes > 0 /\ InputMax \in Nat /\ MaxGas \in Nat
  BY ConstantFacts
<1>3. m.buf \in Buffers /\ m.gas \in Nat
  BY DEF Meters
<1>4. Paid(m.buf) \in Nat /\ Len(m.buf) = Paid(m.buf) * WordBytes
      /\ Len(m.buf) \in Nat
  BY <1>3, BufferFacts
<1> DEFINE p == Paid(m.buf)
           q == InputMax \div WordBytes
<1>5. q \in Nat /\ q * WordBytes <= InputMax
  BY <1>2, DivFacts
<1>6. g - StepCost < Price(q)
  BY <1>1 DEF Affordable
<1>7. p \in Nat /\ Len(m.buf) = p * WordBytes /\ m.gas + Price(p) <= g - StepCost
  BY <1>1, <1>4
<1> HIDE DEF p, q
<1>8. /\ Price(p) \in Nat /\ Price(q) \in Nat
      /\ q <= p => Price(q) <= Price(p)
  BY <1>5, <1>7, PriceFacts
<1>9. p + 1 <= q
  BY <1>2, <1>3, <1>5, <1>6, <1>7, <1>8
<1>10. (p + 1) * WordBytes <= q * WordBytes
  BY <1>2, <1>5, <1>7, <1>9, MulMono
<1>11. (p + 1) * WordBytes = p * WordBytes + WordBytes
  BY <1>2, <1>7
<1>12. p * WordBytes \in Nat /\ q * WordBytes \in Nat
  BY <1>2, <1>5, <1>7
<1>13. Len(m.buf) < InputMax
  BY <1>2, <1>5, <1>7, <1>10, <1>11, <1>12
<1>14. m.gas < MaxGas
  BY <1>2, <1>3, <1>7, <1>8
<1>15. m.gas + Price(p) < Price(q)
  BY <1>2, <1>3, <1>6, <1>7, <1>8
<1> QED
  BY <1>13, <1>14, <1>15 DEF p, q

LEMMA ReachFacts ==
  ASSUME NEW b \in Buffers, NEW off \in Nat, NEW size \in Nat
  PROVE  /\ Reach(b, off, size) \in Nat
         /\ Paid(b) <= Reach(b, off, size)
         /\ size > 0 => off + size <= Reach(b, off, size) * WordBytes
<1> DEFINE words == (off + size + WordBytes - 1) \div WordBytes
<1>1. words \in Nat /\ \A q \in Nat : words <= q <=> off + size <= q * WordBytes
  BY WordsFacts
<1>2. Paid(b) \in Nat
  BY BufferFacts
<1>3. Reach(b, off, size) =
        IF size = 0 \/ words <= Paid(b) THEN Paid(b) ELSE words
  BY DEF Reach
<1> HIDE DEF words
<1> QED
  BY <1>1, <1>2, <1>3

(* What mem.require computes for operands that it does not clamp.          *)
LEMMA SmallRequire ==
  ASSUME NEW m \in Meters, ~m.oog, NEW off \in Nat, NEW size \in Nat,
         off <= InputMax, size <= InputMax
  PROVE  Grown(m, Require(m, off, size), Reach(m.buf, off, size))
<1> DEFINE words == (off + size + WordBytes - 1) \div WordBytes
           p == Paid(m.buf)
           reach == Reach(m.buf, off, size)
           req == SizeReq(off, size)
           r == Require(m, off, size)
<1>1. m.buf \in Buffers /\ m.gas \in Nat /\ m.oog = FALSE
  BY DEF Meters
<1>2. /\ words \in Nat /\ req = words * WordBytes
      /\ \A q \in Nat : words <= q <=> off + size <= q * WordBytes
      /\ off + size <= words * WordBytes
  BY WordsFacts, SmallFacts DEF SizeReq
<1>3. p \in Nat /\ Len(m.buf) = p * WordBytes /\ Len(m.buf) \in Nat
  BY <1>1, BufferFacts
<1>4. WordBytes \in Nat /\ WordBytes > 0
  BY ConstantFacts
<1>5. reach = IF size = 0 \/ words <= p THEN p ELSE words
  BY DEF Reach
<1>6. req \div WordBytes = words
  <2>1. req \in Nat
    BY <1>2, <1>4
  <2>2. /\ req \div WordBytes \in Nat
        /\ \A q \in Nat : q <= req \div WordBytes <=> q * WordBytes <= req
    BY <2>1, <1>4, DivGreatest, DivFacts
  <2> DEFINE d == req \div WordBytes
  <2>3. words <= d
    BY <2>2, <1>2, <2>1
  <2>4. /\ d \in Nat /\ d * WordBytes <= words * WordBytes
    BY <2>2, <1>2
  <2> HIDE DEF d, words
  <2>5. ~(words + 1 <= d)
    <3>1. SUFFICES ASSUME words + 1 <= d PROVE FALSE
      OBVIOUS
    <3>2. (words + 1) * WordBytes <= d * WordBytes
      BY <3>1, <2>4, <1>2, <1>4, MulMono
    <3>3. (words + 1) * WordBytes = words * WordBytes + WordBytes
      BY <1>2, <1>4
    <3>4. words * WordBytes \in Nat /\ d * WordBytes \in Nat
      BY <1>2, <1>4, <2>4
    <3> QED
      BY <3>2, <3>3, <3>4, <2>4, <1>4
  <2> QED
    BY <2>3, <2>4, <2>5, <1>2 DEF d
<1>7. /\ words <= p => req <= Len(m.buf)
      /\ p < words => Len(m.buf) < req
  <2> HIDE DEF words, p, req
  <2>1. words * WordBytes \in Nat /\ p * WordBytes \in Nat
    BY <1>2, <1>3, <1>4
  <2>2. words <= p => words * WordBytes <= p * WordBytes
    BY <1>2, <1>3, <1>4, MulMono
  <2>3. p + 1 <= words => (p + 1) * WordBytes <= words * WordBytes
    BY <1>2, <1>3, <1>4, MulMono
  <2>4. (p + 1) * WordBytes = p * WordBytes + WordBytes
    BY <1>3, <1>4
  <2> QED
    BY <2>1, <2>2, <2>3, <2>4, <1>2, <1>3, <1>4
<1>8. Price(p) \in Nat /\ Price(words) \in Nat /\ (p <= words => Price(p) <= Price(words))
  BY <1>2, <1>3, PriceFacts
<1>9. CASE size = 0 \/ words <= p
  <2>1. r = m
    BY <1>7, <1>9 DEF Require
  <2>2. reach = p
    BY <1>5, <1>9
  <2> HIDE DEF r, reach, p, Grown
  <2>3. ~(m.gas + Price(p) < Price(reach))
    BY <2>2, <1>1, <1>8
  <2> QED
    BY <2>1, <2>2, <2>3, <1>1 DEF p, r, reach, Grown
<1>10. CASE size # 0 /\ p < words
  <2> DEFINE cost == RequireCost(off, size, Len(m.buf))
             paid == Paying(m, cost)
  <2>1. cost = Price(words) - Price(p)
    BY <1>6 DEF RequireCost, Paid
  <2>2. cost \in Nat
    BY <2>1, <1>8, <1>10, <1>2, <1>3
  <2> HIDE DEF cost
  <2>3. /\ paid \in Meters /\ paid.buf = m.buf
        /\ paid.oog <=> m.gas < cost
        /\ ~paid.oog => paid.gas = m.gas - cost
    BY <2>2, PayingFacts
  <2>4. ~(req <= Len(m.buf))
    BY <1>7, <1>10, <1>2, <1>3, <1>4
  <2>5. r = IF paid.oog THEN paid ELSE [paid EXCEPT !.buf = Extended(m.buf, req)]
    BY <2>4, <1>1, <1>10 DEF Require, cost
  <2>6. reach = words
    BY <1>5, <1>10, <1>2, <1>3
  <2>7. Len(m.buf) <= words * WordBytes
    BY <1>7, <1>10, <1>2, <1>3, <1>4
  <2>8. LET e == Extended(m.buf, req)
        IN  /\ e \in Buffers /\ Paid(e) = words
            /\ \A a \in Nat : ByteAt(e, a) = ByteAt(m.buf, a)
    BY <2>7, <1>1, <1>2, ExtendedFacts
  <2> HIDE DEF paid, r, reach, req, words, p
  <2>9. m.gas < cost <=> m.gas + Price(p) < Price(words)
    BY <2>1, <1>1, <1>8
  <2>10. CASE paid.oog
    <3>1. r = paid
      BY <2>5, <2>10
    <3> QED
      BY <3>1, <2>3, <2>6, <2>9, <2>10 DEF r, reach, p, Grown
  <2>11. CASE ~paid.oog
    <3>1. /\ r \in Meters /\ r.buf = Extended(m.buf, req)
          /\ r.gas = paid.gas /\ r.oog = FALSE
      BY <2>5, <2>3, <2>8, <2>11 DEF Meters
    <3>2. r.gas + Price(words) = m.gas + Price(p)
      BY <3>1, <2>3, <2>11, <2>1, <1>1, <1>8
    <3> QED
      BY <3>1, <3>2, <2>3, <2>6, <2>8, <2>9, <2>11 DEF r, reach, p, Grown
  <2> QED
    BY <2>10, <2>11
<1> QED
  BY <1>9, <1>10, <1>2, <1>3

(* A clamped operand of a range that is not empty cannot be paid for.      *)
LEMMA LargeRequire ==
  ASSUME Affordable, NEW m \in Meters, ~m.oog, Funded(m),
         NEW off \in Nat, NEW size \in Nat, size > 0,
         ~(off <= InputMax /\ size <= InputMax)
  PROVE  /\ Grown(m, Require(m, off, size), Reach(m.buf, off, size))
         /\ Require(m, off, size).oog
<1> DEFINE reach == Reach(m.buf, off, size)
           req == SizeReq(off, size)
           r == Require(m, off, size)
           c == Clamped(off) + Clamped(size)
<1>1. m.buf \in Buffers /\ m.gas \in Nat /\ m.oog = FALSE
  BY DEF Meters
<1>2. /\ WordBytes \in Nat /\ WordBytes > 0 /\ InputMax \in Nat /\ MaxGas \in Nat
  BY ConstantFacts
<1>3. /\ Len(m.buf) < InputMax /\ m.gas < MaxGas
      /\ m.gas + Price(Paid(m.buf)) < Price(InputMax \div WordBytes)
  BY FundedIsSmall
<1>4. c \in Nat /\ InputMax <= c
  <2>1. Clamped(off) \in 0..InputMax /\ Clamped(size) \in 0..InputMax
    BY ClampedFacts
  <2>2. Clamped(off) = InputMax \/ Clamped(size) = InputMax
    BY DEF Clamped
  <2> QED
    BY <2>1, <2>2, <1>2
<1>5. req \in Nat /\ c <= req
  <2> DEFINE w == (c + WordBytes - 1) \div WordBytes
  <2>1. w \in Nat /\ c <= w * WordBytes /\ RoundedUp(c) = w * WordBytes
    BY <1>4, WordsFacts
  <2> HIDE DEF w
  <2>2. w * WordBytes \in Nat
    BY <2>1, <1>2
  <2> QED
    BY <2>1, <2>2 DEF SizeReq
<1>6. ~(req <= Len(m.buf)) /\ Len(m.buf) \in Nat
  BY <1>1, <1>2, <1>3, <1>4, <1>5, BufferFacts
<1>7. RequireCost(off, size, Len(m.buf)) = MaxGas
  BY DEF RequireCost
<1> HIDE DEF req, c
<1>8. r \in Meters /\ r.oog
  <2> DEFINE p == Paying(m, MaxGas)
  <2>1. p \in Meters /\ p.oog
    BY <1>2, <1>3, PayingFacts
  <2>2. r = IF p.oog THEN p ELSE [p EXCEPT !.buf = Extended(m.buf, req)]
    BY <1>1, <1>6, <1>7 DEF Require, req
  <2> HIDE DEF p, r
  <2> QED
    BY <2>1, <2>2
<1>9. Price(InputMax \div WordBytes) <= Price(reach)
  <2> DEFINE q == InputMax \div WordBytes
  <2>1. q \in Nat /\ q * WordBytes <= InputMax
    BY <1>2, DivFacts
  <2>2. reach \in Nat /\ off + size <= reach * WordBytes
    BY <1>1, ReachFacts
  <2> HIDE DEF q, reach
  <2>3. InputMax < off + size
    BY <1>2
  <2>4. ~(reach + 1 <= q)
    <3>1. SUFFICES ASSUME reach <= q PROVE q <= reach
      BY <2>1, <2>2
    <3>2. reach * WordBytes <= q * WordBytes
      BY <3>1, <2>1, <2>2, <1>2, MulMono
    <3>3. reach * WordBytes \in Nat /\ q * WordBytes \in Nat
      BY <2>1, <2>2, <1>2
    <3> QED
      BY <3>2, <3>3, <2>1, <2>2, <2>3, <1>2
  <2>5. q <= reach
    BY <2>1, <2>2, <2>4
  <2> QED
    BY <2>1, <2>2, <2>5, PriceFacts DEF q
<1>10. m.gas + Price(Paid(m.buf)) < Price(reach)
  <2>1. InputMax \div WordBytes \in Nat /\ Paid(m.buf) \in Nat /\ reach \in Nat
    BY <1>1, <1>2, DivFacts, BufferFacts, ReachFacts
  <2>2. /\ Price(InputMax \div WordBytes) \in Nat /\ Price(Paid(m.buf)) \in Nat
        /\ Price(reach) \in Nat
    BY <2>1, PriceFacts
  <2> HIDE DEF reach
  <2> QED
    BY <2>2, <1>1, <1>3, <1>9
<1> QED
  BY <1>8, <1>10 DEF Grown

(* mem.require charges for the words that the range reaches, and extends   *)
(* the buffer over the range.                                              *)
LEMMA RequireFacts ==
  ASSUME Affordable, NEW m \in Meters, ~m.oog, Funded(m),
         NEW off \in Nat, NEW size \in Nat, NEW r, r = Require(m, off, size)
  PROVE  /\ Grown(m, r, Reach(m.buf, off, size))
         /\ ~r.oog => Funded(r) /\ Covered(r.buf, off, size)
<1>1. m.buf \in Buffers /\ m.gas \in Nat
  BY DEF Meters
<1>2. Grown(m, r, Reach(m.buf, off, size))
  <2>1. CASE size = 0
    <3>1. r = m /\ Reach(m.buf, off, size) = Paid(m.buf)
      BY <2>1 DEF Require, Reach
    <3>2. Paid(m.buf) \in Nat
      BY <1>1, BufferFacts
    <3>3. Price(Paid(m.buf)) \in Nat
      BY <3>2, PriceFacts
    <3> QED
      BY <3>1, <3>3, <1>1 DEF Grown
  <2>2. CASE size > 0 /\ off <= InputMax /\ size <= InputMax
    BY <2>2, SmallRequire
  <2>3. CASE size > 0 /\ ~(off <= InputMax /\ size <= InputMax)
    BY <2>3, LargeRequire
  <2> QED
    BY <2>1, <2>2, <2>3
<1>3. ASSUME ~r.oog PROVE Funded(r)
  BY <1>2, <1>3 DEF Grown, Funded
<1>4. ASSUME ~r.oog, size > 0 PROVE Covered(r.buf, off, size)
  <2>1. off <= InputMax /\ size <= InputMax
    BY <1>4, LargeRequire
  <2>2. r.buf \in Buffers /\ Paid(r.buf) = Reach(m.buf, off, size)
    BY <1>2, <1>4 DEF Grown, Meters
  <2>3. Len(r.buf) = Reach(m.buf, off, size) * WordBytes
    BY <2>2, BufferFacts
  <2>4. off + size <= Reach(m.buf, off, size) * WordBytes
    BY <1>1, <1>4, ReachFacts
  <2> QED
    BY <2>1, <2>3, <2>4 DEF Covered
<1> QED
  BY <1>2, <1>3, <1>4 DEF Covered

(* The start of an instruction.                                            *)
LEMMA EnteredFacts ==
  ASSUME IInv
  PROVE  /\ Entered \in Meters /\ Entered.buf = buf
         /\ buf \in Buffers /\ gas \in Nat
         /\ Entered.oog <=> gas < StepCost
         /\ ~Entered.oog => Entered.gas = gas - StepCost /\ Funded(Entered)
<1>1. buf \in Buffers /\ gas \in Nat
  BY ConstantFacts DEF IInv, TypeOK, Buffers
<1> DEFINE m == [buf |-> buf, gas |-> gas, oog |-> FALSE]
<1>2. m \in Meters /\ ~m.oog /\ m.buf = buf /\ m.gas = gas
  BY <1>1 DEF Meters
<1>3. StepCost \in Nat
  BY ConstantFacts
<1>4. Entered = Paying(m, StepCost)
  BY DEF Entered
<1> HIDE DEF m
<1>5. /\ Entered \in Meters /\ Entered.buf = buf
      /\ Entered.oog <=> gas < StepCost
      /\ ~Entered.oog => Entered.gas = gas - StepCost
  BY <1>2, <1>3, <1>4, PayingFacts
<1>6. ASSUME ~Entered.oog PROVE Funded(Entered)
  <2>1. PICK g \in StartGas : gas + Price(Paid(buf)) <= g
    BY DEF IInv, WordsPaid
  <2>2. Paid(buf) \in Nat
    BY <1>1, BufferFacts
  <2>3. Price(Paid(buf)) \in Nat /\ g \in Nat
    BY <2>2, PriceFacts, ConstantFacts
  <2>4. Entered.gas + Price(Paid(Entered.buf)) <= g - StepCost
    BY <1>1, <1>3, <1>5, <1>6, <2>1, <2>3
  <2> QED
    BY <2>4 DEF Funded
<1> QED
  BY <1>1, <1>5, <1>6

(* Words of the memory and gas are worth a budget, and of that a cost and  *)
(* the words up to a reach were paid.                                      *)
Budget == gas + Price(Paid(buf))

Charged(m, cost, reach) ==
    /\ m \in Meters
    /\ m.oog <=> Budget - cost < Price(reach)
    /\ ~m.oog => /\ Funded(m)
                 /\ Paid(m.buf) = reach
                 /\ m.gas + Price(reach) = Budget - cost
                 /\ \A a \in Nat : ByteAt(m.buf, a) = ByteAt(buf, a)

LEMMA BudgetFacts ==
  ASSUME IInv
  PROVE  /\ Paid(buf) \in Nat /\ Price(Paid(buf)) \in Nat /\ Budget \in Nat
         /\ \A q \in Nat : Paid(buf) <= q => Price(Paid(buf)) <= Price(q)
<1>1. buf \in Buffers /\ gas \in Nat
  BY EnteredFacts
<1>2. Paid(buf) \in Nat
  BY <1>1, BufferFacts
<1>3. /\ Price(Paid(buf)) \in Nat
      /\ \A q \in Nat : Paid(buf) <= q => Price(Paid(buf)) <= Price(q)
  BY <1>2, PriceFacts
<1> QED
  BY <1>1, <1>2, <1>3 DEF Budget

LEMMA EnteredCharged ==
  ASSUME IInv
  PROVE  Charged(Entered, StepCost, Paid(buf))
<1>1. StepCost \in Nat
  BY ConstantFacts
<1> QED
  BY <1>1, EnteredFacts, BudgetFacts DEF Charged, Budget

(* A range that is required after others.                                  *)
LEMMA RequireCharged ==
  ASSUME Affordable, IInv, NEW m, NEW reach \in Nat, Charged(m, StepCost, reach),
         NEW off \in Nat, NEW size \in Nat, NEW wider \in Nat, reach <= wider,
         NEW b \in Buffers, Paid(b) = reach, wider = Reach(b, off, size)
  PROVE  LET r == Require(m, off, size)
         IN  Charged(r, StepCost, wider) /\ (~r.oog => Covered(r.buf, off, size))
<1> DEFINE r == Require(m, off, size)
<1>1. Price(reach) \in Nat /\ Price(wider) \in Nat /\ Price(reach) <= Price(wider)
  BY PriceFacts
<1>2. m \in Meters /\ StepCost \in Nat /\ Budget \in Nat
  BY ConstantFacts, BudgetFacts DEF Charged
<1>3. CASE m.oog
  <2>1. r = m
    BY <1>3 DEF Require
  <2> QED
    BY <2>1, <1>1, <1>2, <1>3 DEF Charged
<1>4. CASE ~m.oog
  <2>1. Funded(m) /\ Paid(m.buf) = reach
    BY <1>4 DEF Charged
  <2>2. Reach(m.buf, off, size) = wider
    BY <2>1 DEF Reach
  <2>3. /\ Grown(m, r, wider)
        /\ ~r.oog => Funded(r) /\ Covered(r.buf, off, size)
    BY <2>1, <2>2, <1>2, <1>4, RequireFacts
  <2>4. m.gas \in Nat /\ m.gas + Price(reach) = Budget - StepCost
    BY <1>2, <1>4 DEF Charged, Meters
  <2> HIDE DEF r
  <2>5. r \in Meters /\ (r.oog <=> Budget - StepCost < Price(wider))
    BY <2>1, <2>3, <2>4 DEF Grown
  <2>6. ~r.oog => /\ Funded(r) /\ Paid(r.buf) = wider
                  /\ r.gas + Price(wider) = Budget - StepCost
                  /\ \A a \in Nat : ByteAt(r.buf, a) = ByteAt(buf, a)
    BY <2>1, <2>3, <2>4, <1>4 DEF Grown, Charged
  <2> QED
    BY <2>3, <2>5, <2>6 DEF r, Charged
<1> QED
  BY <1>3, <1>4

LEMMA TouchFacts ==
  ASSUME Affordable, IInv, NEW off \in Nat, NEW size \in Nat
  PROVE  LET m == Require(Entered, off, size)
         IN  /\ Charged(m, StepCost, Reach(buf, off, size))
             /\ ~m.oog => Covered(m.buf, off, size)
<1>1. buf \in Buffers
  BY EnteredFacts
<1>2. Paid(buf) \in Nat
  BY BudgetFacts
<1>3. Reach(buf, off, size) \in Nat /\ Paid(buf) <= Reach(buf, off, size)
  BY <1>1, ReachFacts
<1> QED
  BY <1>1, <1>2, <1>3, EnteredCharged, RequireCharged

-----------------------------------------------------------------------------
(* Accesses.                                                               *)

LEMMA PutFacts ==
  ASSUME NEW m \in Meters, NEW at \in Nat, NEW n \in Nat,
         n > 0 => at + n <= Len(m.buf),
         NEW content, \A j \in 0..n - 1 : content[j] \in Byte \cup {0}
  PROVE  LET p == Put(m, at, n, content)
         IN  /\ p \in Meters /\ p.gas = m.gas /\ p.oog = m.oog
             /\ Len(p.buf) = Len(m.buf) /\ Paid(p.buf) = Paid(m.buf)
             /\ Overwritten(p.buf, m.buf, at, n, content)
<1> DEFINE p == Put(m, at, n, content)
           b == [i \in 1..Len(m.buf) |->
                   IF i - 1 \in at..at + n - 1 THEN content[i - 1 - at] ELSE m.buf[i]]
<1>1. m.buf \in Buffers
  BY DEF Meters
<1>2. /\ m.buf \in Seq(Byte \cup {0}) /\ Len(m.buf) \in Nat
      /\ Len(m.buf) % WordBytes = 0
  BY <1>1 DEF Buffers
<1>3. p = [m EXCEPT !.buf = b]
  BY DEF Put
<1>4. \A i \in 1..Len(m.buf) : b[i] \in Byte \cup {0}
  <2>1. TAKE i \in 1..Len(m.buf)
  <2>2. CASE i - 1 \in at..at + n - 1
    <3>1. i - 1 - at \in 0..n - 1
      BY <2>2, <1>2
    <3> QED
      BY <3>1, <2>2
  <2>3. CASE i - 1 \notin at..at + n - 1
    BY <2>3, <1>2
  <2> QED
    BY <2>2, <2>3
<1>5. b \in Seq(Byte \cup {0}) /\ Len(b) = Len(m.buf)
  <2>1. DOMAIN b = 1..Len(m.buf)
    OBVIOUS
  <2> HIDE DEF b
  <2>2. b \in [1..Len(m.buf) -> Byte \cup {0}]
    <3>1. b = [i \in 1..Len(m.buf) |-> b[i]]
      BY DEF b
    <3> QED
      BY <3>1, <1>4
  <2> QED
    BY <2>1, <2>2, <1>2
<1>6. b \in Buffers /\ Paid(b) = Paid(m.buf)
  BY <1>2, <1>5 DEF Buffers, Paid
<1>7. ASSUME NEW a \in Nat
      PROVE  ByteAt(b, a) = IF a \in at..at + n - 1 THEN content[a - at]
                            ELSE ByteAt(m.buf, a)
  <2>1. CASE a < Len(m.buf)
    <3>1. a + 1 \in 1..Len(m.buf) /\ a + 1 - 1 = a
      BY <2>1, <1>2
    <3>2. b[a + 1] = IF a \in at..at + n - 1 THEN content[a - at] ELSE m.buf[a + 1]
      BY <3>1
    <3> HIDE DEF b
    <3> QED
      BY <3>2, <2>1, <1>5 DEF ByteAt
  <2>2. CASE ~(a < Len(m.buf))
    <3>1. a \notin at..at + n - 1
      BY <2>2, <1>2
    <3> HIDE DEF b
    <3> QED
      BY <3>1, <2>2, <1>5 DEF ByteAt
  <2> QED
    BY <2>1, <2>2
<1> HIDE DEF b
<1>8. p \in Meters /\ p.buf = b /\ p.gas = m.gas /\ p.oog = m.oog
  BY <1>3, <1>6 DEF Meters
<1>9. Overwritten(b, m.buf, at, n, content)
  BY <1>7 DEF Overwritten
<1> QED
  BY <1>5, <1>6, <1>8, <1>9

LEMMA InRangeFacts ==
  ASSUME NEW b \in Buffers, NEW off \in Nat, NEW size \in Nat,
         Covered(b, off, size)
  PROVE  /\ InRange(b, off, size) = [i \in 1..size |-> ByteAt(b, off + i - 1)]
         /\ InRange(b, off, size) \in Seq(Byte \cup {0})
<1>1. Trunc(size) = size
  <2>1. size = 0 \/ size <= InputMax
    BY DEF Covered
  <2> QED
    BY <2>1, SmallFacts, ConstantFacts
<1>2. Len(b) \in Nat
  BY BufferFacts
<1>3. ASSUME NEW i \in 1..size
      PROVE  Read(b, Trunc(off) + i) = ByteAt(b, off + i - 1)
  <2>1. off <= InputMax /\ off + size <= Len(b)
    BY DEF Covered
  <2>2. Trunc(off) = off
    BY <2>1, SmallFacts
  <2>3. off + i \in 1..Len(b) /\ off + i - 1 < Len(b) /\ off + i - 1 + 1 = off + i
    BY <2>1, <1>2
  <2> QED
    BY <2>2, <2>3 DEF Read, ByteAt
<1>4. InRange(b, off, size) = [i \in 1..size |-> ByteAt(b, off + i - 1)]
  BY <1>1, <1>3 DEF InRange
<1>5. \A i \in 1..size : ByteAt(b, off + i - 1) \in Byte \cup {0}
  BY BufferFacts
<1> QED
  BY <1>4, <1>5

-----------------------------------------------------------------------------
(* The abstract memory.                                                    *)

Addresses == 0..2 * InputMax

LEMMA AddressFacts ==
  ASSUME NEW b \in Buffers, NEW off \in Nat, NEW size \in Nat, Covered(b, off, size)
  PROVE  /\ \A i \in 1..size : off + i - 1 \in Addresses
         /\ size > 0 => off + size <= Len(b)
  BY ConstantFacts DEF Covered, Addresses

LEMMA ActiveFacts ==
  ASSUME IInv, NEW off \in Nat, NEW size \in Nat
  PROVE  /\ Evm!ActiveWith(off, size) = Reach(buf, off, size)
         /\ Reach(buf, off, size) \in Nat /\ Price(Reach(buf, off, size)) \in Nat
         /\ \A cost \in Nat : Evm!Payable(off, size, cost) <=>
                                Budget - cost >= Price(Reach(buf, off, size))
<1>1. buf \in Buffers /\ Paid(buf) \in Nat
  BY EnteredFacts, BudgetFacts
<1>2. Reach(buf, off, size) \in Nat
  BY <1>1, ReachFacts
<1>3. Price(Reach(buf, off, size)) \in Nat
  BY <1>2, PriceFacts
<1> DEFINE words == (off + size + WordBytes - 1) \div WordBytes
<1>4. words \in Nat
  BY WordsFacts
<1>5. /\ Evm!ActiveWith(off, size) =
           IF size = 0 THEN Paid(buf) ELSE IF Paid(buf) < words THEN words ELSE Paid(buf)
      /\ Reach(buf, off, size) =
           IF size = 0 \/ words <= Paid(buf) THEN Paid(buf) ELSE words
  BY DEF Evm!ActiveWith, Evm!Wider, Evm!Rounded, Reach, Paid
<1> HIDE DEF words
<1>6. Evm!ActiveWith(off, size) = Reach(buf, off, size)
  BY <1>1, <1>4, <1>5
<1>7. ASSUME NEW cost \in Nat
      PROVE  Evm!Payable(off, size, cost) <=>
               Budget - cost >= Price(Reach(buf, off, size))
  BY <1>6 DEF Evm!Payable, Budget, Paid
<1> QED
  BY <1>2, <1>3, <1>6, <1>7

(* An instruction that cannot pay ends the program.                        *)
LEMMA Aborts ==
  ASSUME IInv, NEW m, m.oog, NEW next, NEW bytes, Finished(m, next, bytes)
  PROVE  IInv' /\ Evm!Abort /\ status' = "aborted"
<1>1. /\ inst' = None /\ status' = "aborted"
      /\ buf' = buf /\ gas' = gas /\ out' = out
  BY DEF Finished
<1>2. IInv'
  BY <1>1 DEF IInv, TypeOK, WordsPaid, Paid
<1>3. Evm!Abort
  BY <1>1 DEF Evm!Abort, Evm!Ended
<1> QED
  BY <1>1, <1>2, <1>3

LEMMA Continues ==
  ASSUME IInv, NEW m \in Meters, ~m.oog, Funded(m),
         NEW next \in {"running", "returned"},
         NEW bytes \in Seq(Byte \cup {0}), Finished(m, next, bytes)
  PROVE  /\ IInv' /\ inst' = None /\ status' = next /\ out' = bytes
         /\ buf' = m.buf /\ gas' = m.gas
<1>1. /\ inst' = None /\ status' = next /\ out' = bytes
      /\ buf' = m.buf /\ gas' = m.gas
  BY DEF Finished
<1>2. m.buf \in Buffers /\ m.gas \in Nat
  BY DEF Meters
<1>3. PICK g \in StartGas : m.gas + Price(Paid(m.buf)) <= g - StepCost
  BY DEF Funded
<1>4. Paid(m.buf) \in Nat
  BY <1>2, BufferFacts
<1>5. Price(Paid(m.buf)) \in Nat
  BY <1>4, PriceFacts
<1>6. g \in 0..MaxGas /\ StepCost \in Nat /\ MaxGas \in Nat
  BY ConstantFacts
<1>7. m.gas \in 0..MaxGas /\ m.gas + Price(Paid(m.buf)) <= g
  BY <1>2, <1>3, <1>5, <1>6
<1>8. TypeOK'
  BY <1>1, <1>2, <1>7 DEF TypeOK, Buffers
<1>9. WordsPaid'
  BY <1>1, <1>7 DEF WordsPaid, Paid
<1> QED
  BY <1>1, <1>8, <1>9 DEF IInv

(* What the abstract variables become.                                     *)
LEMMA AbstractNext ==
  ASSUME NEW m \in Meters, NEW reach \in Nat, NEW cost \in Nat,
         IInv, Paid(m.buf) = reach, m.gas + Price(reach) = Budget - cost,
         buf' = m.buf, gas' = m.gas
  PROVE  /\ (Len(buf) \div WordBytes)' = reach
         /\ (gas + Price(Len(buf) \div WordBytes))' =
              (gas + Price(Len(buf) \div WordBytes)) - cost
  BY DEF Paid, Budget

LEMMA SameBytes ==
  ASSUME NEW m, buf' = m.buf, \A a \in Nat : ByteAt(m.buf, a) = ByteAt(buf, a)
  PROVE  [a \in 0..2 * InputMax |-> IF a < Len(buf) THEN buf[a + 1] ELSE 0]' =
         [a \in 0..2 * InputMax |-> IF a < Len(buf) THEN buf[a + 1] ELSE 0]
  BY ConstantFacts DEF ByteAt

(* The bytes after a write.                                                *)
LEMMA WrittenBytes ==
  ASSUME NEW b, buf' = b, NEW off \in Nat, NEW size \in Nat,
         NEW content, NEW given, SameContent(content, given, size),
         Overwritten(b, buf, off, size, content)
  PROVE  [a \in 0..2 * InputMax |-> IF a < Len(buf) THEN buf[a + 1] ELSE 0]' =
         Evm!Written(off, size, given)
<1> DEFINE old == [a \in 0..2 * InputMax |-> IF a < Len(buf) THEN buf[a + 1] ELSE 0]
<1>1. InputMax \in Nat
  BY ConstantFacts
<1>2. ASSUME NEW a \in 0..2 * InputMax
      PROVE  (IF a < Len(b) THEN b[a + 1] ELSE 0) =
               IF a \in off..off + size - 1 THEN given[a - off] ELSE old[a]
  <2>1. a \in Nat /\ old[a] = ByteAt(buf, a)
    BY <1>1 DEF ByteAt
  <2>2. a \in off..off + size - 1 => a - off \in 0..size - 1
    BY <2>1
  <2> HIDE DEF old
  <2>3. ByteAt(b, a) = IF a \in off..off + size - 1 THEN given[a - off] ELSE old[a]
    BY <2>1, <2>2 DEF Overwritten, SameContent
  <2> QED
    BY <2>3 DEF ByteAt
<1>3. [a \in 0..2 * InputMax |-> IF a < Len(b) THEN b[a + 1] ELSE 0] =
      [a \in 0..2 * InputMax |->
         IF a \in off..off + size - 1 THEN given[a - off] ELSE old[a]]
  BY <1>2
<1> QED
  BY <1>3 DEF Evm!Written

-----------------------------------------------------------------------------
(* Instructions and their operands.                                        *)

IsRange(r) == r[1] \in 0..WordTop /\ r[2] \in 0..WordTop

LEMMA InstFacts ==
  ASSUME TypeOK
  PROVE  /\ inst.op \in {"read", "return", "store", "copy", "copyReturned"} =>
              inst.off \in Nat /\ inst.size \in Nat
         /\ inst.op = "store" => inst.byte \in Byte \cup {0} /\ inst.size > 0
         /\ inst.op \in {"copy", "copyReturned"} =>
              /\ inst.src \in Sources /\ inst.idx \in 0..WordTop
              /\ inst.size \in 0..WordTop
         /\ inst.op = "load" => inst.src \in Sources /\ inst.idx \in 0..WordTop
         /\ inst.op = "call" =>
              IsRange(inst.to) /\ IsRange(inst.from) /\ inst.data \in Sources \cup {<<>>}
<1>1. /\ Words \subseteq 0..WordTop /\ 0..WordTop \subseteq Nat
      /\ \A r \in Ranges : IsRange(r)
      /\ WordBytes \in Nat /\ WordBytes > 0
  BY MemoryAssumption DEF MemoryAssumption, IsRange
<1>2. inst \in Instructions \cup {None}
  BY DEF TypeOK
<1>3. CASE inst = None
  BY <1>3 DEF None
<1>4. CASE inst \in [op : {"read", "return"}, off : Words, size : Words]
  BY <1>1, <1>4
<1>5. CASE inst \in [op : {"store"}, off : Words, size : {1, WordBytes},
                     byte : Byte \cup {0}]
  <2> DEFINE B == Byte \cup {0}
             S == {1, WordBytes}
  <2>1. inst \in [op : {"store"}, off : Words, size : S, byte : B]
    BY <1>5
  <2> HIDE DEF B, S
  <2>2. inst.op = "store" /\ inst.off \in Words /\ inst.byte \in B /\ inst.size \in S
    BY <2>1
  <2>3. inst.byte \in Byte \cup {0}
    BY <2>2 DEF B
  <2>4. inst.off \in Nat /\ inst.size \in Nat /\ inst.size > 0
    <3>1. \A s \in S : s \in Nat /\ s > 0
      BY <1>1 DEF S
    <3> QED
      BY <3>1, <2>2, <1>1
  <2> QED
    BY <2>2, <2>3, <2>4
<1>6. CASE inst \in [op : {"copy", "copyReturned"}, src : Sources, idx : Words,
                     off : Words, size : Words]
  BY <1>1, <1>6
<1>7. CASE inst \in [op : {"load"}, src : Sources, idx : Words]
  BY <1>1, <1>7
<1>8. CASE inst \in [op : {"call"}, to : Ranges, from : Ranges,
                     data : Sources \cup {<<>>}]
  BY <1>1, <1>8
<1> QED
  BY <1>2, <1>3, <1>4, <1>5, <1>6, <1>7, <1>8 DEF Instructions

LEMMA SourceFacts ==
  ASSUME NEW src \in Sources \cup {<<>>}
  PROVE  /\ src \in Seq(Byte \cup {0}) /\ Len(src) \in Nat /\ Len(src) < SizeMod
         /\ \A i \in 1..Len(src) : src[i] \in Byte \cup {0} /\ Read(src, i) = src[i]
<1>1. src \in Seq(Byte \cup {0}) /\ Len(src) < SizeMod
  <2>1. CASE src \in Sources
    BY <2>1, ScheduleAssumption DEF ScheduleAssumption
  <2>2. CASE src = <<>>
    BY <2>2, ConstantFacts
  <2> QED
    BY <2>1, <2>2
<1> QED
  BY <1>1 DEF Read

(* What a range shows of the memory before the instruction.                *)
LEMMA ContentFacts ==
  ASSUME IInv, NEW b \in Buffers, NEW off \in Nat, NEW size \in Nat,
         Covered(b, off, size), \A a \in Nat : ByteAt(b, a) = ByteAt(buf, a)
  PROVE  InRange(b, off, size) = Evm!Content(off, size)
<1>1. InRange(b, off, size) = [i \in 1..size |-> ByteAt(buf, off + i - 1)]
  BY InRangeFacts
<1>2. \A i \in 1..size : off + i - 1 \in 0..2 * InputMax
  BY AddressFacts DEF Addresses
<1>3. Evm!Content(off, size) = [i \in 1..size |-> ByteAt(buf, off + i - 1)]
  BY <1>2 DEF Evm!Content, ByteAt
<1> QED
  BY <1>1, <1>3

(* The part of RangeCovered that is about a step.                          *)
StepCovered ==
    \A range \in IF inst.op = "call" THEN {inst.to, inst.from}
                 ELSE IF inst.op \in {"none", "load"} THEN {}
                 ELSE {<<inst.off, inst.size>>} :
      status' # "aborted" /\ range[2] > 0 => range[1] + range[2] <= Len(buf')

-----------------------------------------------------------------------------
(* The instructions.                                                       *)

(* Touch and Return read a range.                                          *)
LEMMA ReadFacts ==
  ASSUME Affordable, IInv, inst.op \in {"read", "return"},
         NEW next \in {"running", "returned"},
         NEW m, m = Require(Entered, inst.off, inst.size),
         NEW bytes, bytes = InRange(m.buf, inst.off, inst.size),
         Finished(m, next, bytes)
  PROVE  IInv' /\ StepCovered /\ Evm!Read(next)
<1> DEFINE off == inst.off
           size == inst.size
           reach == Reach(buf, off, size)
<1>1. off \in Nat /\ size \in Nat
  BY InstFacts DEF IInv
<1>2. StepCost \in Nat
  BY ConstantFacts
<1> HIDE DEF off, size
<1>3. Charged(m, StepCost, reach) /\ (~m.oog => Covered(m.buf, off, size))
  BY <1>1, TouchFacts DEF off, size
<1>4. /\ reach \in Nat /\ Price(reach) \in Nat
      /\ Evm!ActiveWith(off, size) = reach
      /\ Evm!Payable(off, size, StepCost) <=> Budget - StepCost >= Price(reach)
  BY <1>1, <1>2, ActiveFacts
<1>5. Budget \in Nat
  BY BudgetFacts
<1> HIDE DEF reach
<1>6. CASE m.oog
  <2>1. IInv' /\ Evm!Abort /\ status' = "aborted"
    BY <1>6, Aborts
  <2>2. ~Evm!Payable(off, size, StepCost)
    BY <1>2, <1>3, <1>4, <1>5, <1>6 DEF Charged
  <2>3. Evm!Read(next)
    BY <2>1, <2>2 DEF Evm!Read, off, size
  <2> QED
    BY <2>1, <2>3 DEF StepCovered
<1>7. CASE ~m.oog
  <2>1. /\ m \in Meters /\ Funded(m) /\ Paid(m.buf) = reach
        /\ m.gas + Price(reach) = Budget - StepCost
        /\ \A a \in Nat : ByteAt(m.buf, a) = ByteAt(buf, a)
        /\ Evm!Payable(off, size, StepCost)
    BY <1>2, <1>3, <1>4, <1>5, <1>7 DEF Charged
  <2>2. m.buf \in Buffers /\ Covered(m.buf, off, size)
    BY <2>1, <1>3, <1>7 DEF Meters
  <2>3. bytes \in Seq(Byte \cup {0})
    BY <2>2, <1>1, InRangeFacts DEF off, size
  <2>4. bytes = Evm!Content(off, size)
    BY <2>1, <2>2, <1>1, ContentFacts DEF off, size
  <2>5. /\ IInv' /\ inst' = None /\ status' = next /\ out' = bytes
        /\ buf' = m.buf /\ gas' = m.gas
    BY <2>1, <2>3, <1>7, Continues
  <2>6. Evm!Ended(next, Evm!Content(off, size))
    BY <2>4, <2>5 DEF Evm!Ended
  <2>7. [a \in 0..2 * InputMax |-> IF a < Len(buf) THEN buf[a + 1] ELSE 0]' =
        [a \in 0..2 * InputMax |-> IF a < Len(buf) THEN buf[a + 1] ELSE 0]
    BY <2>1, <2>5, SameBytes
  <2>8. /\ (Len(buf) \div WordBytes)' = Evm!ActiveWith(off, size)
        /\ (gas + Price(Len(buf) \div WordBytes))' =
             (gas + Price(Len(buf) \div WordBytes)) - StepCost
    BY <2>1, <2>5, <1>2, <1>4, AbstractNext
  <2>9. Evm!Read(next)
    BY <2>1, <2>6, <2>7, <2>8 DEF Evm!Read, off, size
  <2>10. StepCovered
    <3>1. size > 0 => off + size <= Len(buf')
      BY <2>2, <2>5 DEF Covered
    <3>2. inst.op # "call" /\ inst.op \notin {"none", "load"}
      OBVIOUS
    <3> QED
      BY <3>1, <3>2 DEF StepCovered, off, size
  <2> QED
    BY <2>5, <2>9, <2>10
<1> QED
  BY <1>6, <1>7

Operands(off, size) == off = inst.off /\ size = inst.size

(* Store and the copies overwrite a range.                                 *)
LEMMA WriteFacts ==
  ASSUME Affordable, IInv, inst.op \in {"store", "copy", "copyReturned"},
         NEW off \in Nat, NEW size \in Nat, Operands(off, size),
         NEW cost \in Nat, NEW m, Charged(m, cost, Reach(buf, off, size)),
         ~m.oog => Covered(m.buf, off, size),
         NEW n, ~m.oog => n = size, NEW content, NEW given,
         ~m.oog => SameContent(content, given, size),
         Finished(Put(m, Trunc(off), n, content), "running", <<>>)
  PROVE  IInv' /\ StepCovered /\ Evm!Write(cost, given)
<1> DEFINE reach == Reach(buf, off, size)
           p == Put(m, Trunc(off), n, content)
<1>1. /\ reach \in Nat /\ Price(reach) \in Nat
      /\ Evm!ActiveWith(off, size) = reach
      /\ Evm!Payable(off, size, cost) <=> Budget - cost >= Price(reach)
  BY ActiveFacts
<1>2. Budget \in Nat
  BY BudgetFacts
<1>3. Charged(m, cost, reach) /\ Finished(p, "running", <<>>)
  OBVIOUS
<1>4. p.oog = m.oog
  BY <1>3 DEF Put, Charged, Meters
<1> HIDE DEF reach
<1>5. CASE m.oog
  <2>1. IInv' /\ Evm!Abort /\ status' = "aborted"
    BY <1>3, <1>4, <1>5, Aborts
  <2>2. ~Evm!Payable(off, size, cost)
    BY <1>1, <1>2, <1>3, <1>5 DEF Charged
  <2>3. Evm!Write(cost, given)
    BY <2>1, <2>2 DEF Evm!Write, Operands
  <2> QED
    BY <2>1, <2>3 DEF StepCovered
<1>6. CASE ~m.oog
  <2>1. /\ m \in Meters /\ Funded(m) /\ Paid(m.buf) = reach
        /\ m.gas + Price(reach) = Budget - cost
        /\ \A a \in Nat : ByteAt(m.buf, a) = ByteAt(buf, a)
        /\ Evm!Payable(off, size, cost)
    BY <1>1, <1>2, <1>3, <1>6 DEF Charged
  <2>2. Covered(m.buf, off, size) /\ n = size
    BY <1>6
  <2>3. \A j \in 0..size - 1 : content[j] \in Byte \cup {0}
    BY <1>6 DEF SameContent
  <2>4. Trunc(off) \in Nat /\ (size > 0 => Trunc(off) = off /\ off + size <= Len(m.buf))
    BY <2>2, TruncFacts, SmallFacts DEF Covered
  <2>5. /\ p \in Meters /\ p.gas = m.gas /\ Len(p.buf) = Len(m.buf)
        /\ Paid(p.buf) = reach
        /\ Overwritten(p.buf, m.buf, Trunc(off), size, content)
    BY <2>1, <2>2, <2>3, <2>4, PutFacts
  <2> HIDE DEF p
  <2>6. Overwritten(p.buf, buf, off, size, content)
    <3>1. CASE size = 0
      <4>1. /\ Trunc(off)..Trunc(off) + size - 1 = {}
            /\ off..off + size - 1 = {}
        BY <3>1, <2>4
      <4> QED
        BY <4>1, <2>1, <2>5 DEF Overwritten
    <3>2. CASE size > 0
      BY <3>2, <2>1, <2>4, <2>5 DEF Overwritten
    <3> QED
      BY <3>1, <3>2
  <2>7. Funded(p)
    BY <2>1, <2>5 DEF Funded
  <2>8. /\ IInv' /\ inst' = None /\ status' = "running" /\ out' = <<>>
        /\ buf' = p.buf /\ gas' = p.gas
    <3>1. <<>> \in Seq(Byte \cup {0}) /\ "running" \in {"running", "returned"}
      OBVIOUS
    <3>2. p \in Meters /\ ~p.oog /\ Finished(p, "running", <<>>)
      BY <2>5, <1>3, <1>4, <1>6
    <3> QED
      BY <3>1, <3>2, <2>7, Continues
  <2>9. [a \in 0..2 * InputMax |-> IF a < Len(buf) THEN buf[a + 1] ELSE 0]' =
        Evm!Written(off, size, given)
    <3>1. SameContent(content, given, size)
      BY <1>6
    <3> QED
      BY <3>1, <2>6, <2>8, WrittenBytes
  <2>10. /\ (Len(buf) \div WordBytes)' = Evm!ActiveWith(off, size)
         /\ (gas + Price(Len(buf) \div WordBytes))' =
              (gas + Price(Len(buf) \div WordBytes)) - cost
    BY <2>1, <2>5, <2>8, <1>1, AbstractNext
  <2>11. Evm!Write(cost, given)
    BY <2>1, <2>8, <2>9, <2>10 DEF Evm!Write, Evm!Ended, Operands
  <2>12. StepCovered
    <3>1. size > 0 => off + size <= Len(buf')
      BY <2>4, <2>5, <2>8
    <3>2. inst.op # "call" /\ inst.op \notin {"none", "load"}
      OBVIOUS
    <3> QED
      BY <3>1, <3>2 DEF StepCovered, Operands
  <2> QED
    BY <2>8, <2>11, <2>12
<1> QED
  BY <1>5, <1>6

LEMMA StoreFacts ==
  ASSUME Affordable, IInv, Store
  PROVE  IInv' /\ StepCovered /\ Evm!Store
<1>1. /\ inst.op = "store" /\ inst.off \in Nat /\ inst.size \in Nat
      /\ inst.byte \in Byte \cup {0}
  BY InstFacts DEF Store, IInv
<1>2. PICK off \in Nat, size \in Nat : Operands(off, size)
  BY <1>1 DEF Operands
<1>3. PICK m : m = Require(Entered, off, size)
  OBVIOUS
<1>4. PICK content : content = [i \in 0..inst.size - 1 |-> inst.byte]
  OBVIOUS
<1>5. Finished(Put(m, Trunc(off), size, content), "running", <<>>)
  BY <1>2, <1>3, <1>4 DEF Store, Done, Operands
<1>6. /\ Charged(m, StepCost, Reach(buf, off, size))
      /\ ~m.oog => Covered(m.buf, off, size)
  BY <1>3, TouchFacts
<1>7. SameContent(content, content, size)
  BY <1>1, <1>2, <1>4 DEF SameContent, Operands
<1>8. StepCost \in Nat
  BY ConstantFacts
<1>9. inst.op \in {"store", "copy", "copyReturned"}
  BY <1>1
<1>10. IInv' /\ StepCovered /\ Evm!Write(StepCost, content)
  BY <1>2, <1>5, <1>6, <1>7, <1>8, <1>9, WriteFacts
<1> DEFINE given == [i \in 0..inst.size - 1 |-> inst.byte]
<1>11. content = given
  BY <1>4
<1> HIDE DEF given
<1>12. Evm!Write(StepCost, given)
  BY <1>10, <1>11 DEF Evm!Write, Evm!Written
<1> QED
  BY <1>10, <1>12 DEF Evm!Store, given

-----------------------------------------------------------------------------
(* Copies.                                                                 *)

LEMMA CopyWordsFacts ==
  ASSUME NEW n \in Nat
  PROVE  /\ CopyWords(n) \in Nat
         /\ CopyWords(n) * CopyGas \in Nat
         /\ n <= InputMax => CopyWords(n) * CopyGas <= MaxGas
<1>1. /\ CopyGas \in Nat /\ InputMax \in Nat /\ WordBytes \in Nat /\ WordBytes > 0
      /\ MaxGas \in Nat
  BY ConstantFacts
<1>2. CopyWords(n) \in Nat /\ CopyWords(InputMax) \in Nat
  BY <1>1, WordsFacts DEF CopyWords
<1>3. CopyWords(InputMax) * CopyGas <= MaxGas
  BY ScheduleAssumption DEF ScheduleAssumption
<1>4. ASSUME n <= InputMax PROVE CopyWords(n) <= CopyWords(InputMax)
  <2> DEFINE a == n + WordBytes - 1
             b == InputMax + WordBytes - 1
  <2>1. a \in Nat /\ b \in Nat /\ a <= b
    BY <1>1, <1>4
  <2> HIDE DEF a, b
  <2>2. a \div WordBytes <= b \div WordBytes
    BY <2>1, <1>1, DivMono
  <2> QED
    BY <2>2 DEF CopyWords, a, b
<1> DEFINE w == CopyWords(n)
           v == CopyWords(InputMax)
<1>5. w \in Nat /\ v \in Nat /\ v * CopyGas <= MaxGas /\ (n <= InputMax => w <= v)
  BY <1>2, <1>3, <1>4
<1> HIDE DEF w, v
<1>6. w * CopyGas \in Nat /\ v * CopyGas \in Nat
  BY <1>1, <1>5
<1>7. n <= InputMax => w * CopyGas <= v * CopyGas
  BY <1>1, <1>5, MulMono
<1>8. n <= InputMax => w * CopyGas <= MaxGas
  BY <1>1, <1>5, <1>6, <1>7
<1> QED
  BY <1>5, <1>6, <1>8 DEF w

CopyPrice(size) == StepCost + CopyGas * CopyWords(size)

(* The copy cost of a range that was required does not overflow.           *)
LEMMA CountCopyFacts ==
  ASSUME IInv, NEW m, NEW reach \in Nat, Charged(m, StepCost, reach),
         NEW size \in Nat, ~m.oog => size <= InputMax
  PROVE  LET c == CountCopy(m, CopyWords(Trunc(size)))
         IN  /\ CopyPrice(size) \in Nat /\ Charged(c, CopyPrice(size), reach)
             /\ ~c.oog => ~m.oog /\ c.buf = m.buf
<1> DEFINE w == CopyWords(size)
           cost == w * CopyGas
           c == CountCopy(m, CopyWords(Trunc(size)))
<1>1. StepCost \in Nat /\ MaxGas \in Nat /\ CopyGas \in Nat
  BY ConstantFacts
<1>2. Budget \in Nat /\ Price(reach) \in Nat
  BY BudgetFacts, PriceFacts
<1>3. w \in Nat /\ cost \in Nat /\ (size <= InputMax => cost <= MaxGas)
  BY CopyWordsFacts
<1>4. CopyPrice(size) = StepCost + cost
  BY <1>1, <1>3 DEF CopyPrice
<1>5. m \in Meters
  BY DEF Charged
<1>6. CASE m.oog
  <2>1. \E any : c = Paying(m, any)
    BY DEF CountCopy
  <2>2. PICK any : c = Paying(m, any)
    BY <2>1
  <2>3. c = [m EXCEPT !.oog = TRUE]
    BY <2>2, <1>6 DEF Paying
  <2> HIDE DEF c
  <2>4. c \in Meters /\ c.oog
    BY <2>3, <1>5 DEF Meters
  <2>5. Budget - (StepCost + cost) < Price(reach)
    <3>1. Budget - StepCost < Price(reach)
      BY <1>6 DEF Charged
    <3> HIDE DEF cost
    <3> QED
      BY <3>1, <1>1, <1>2, <1>3
  <2>6. Charged(c, CopyPrice(size), reach)
    BY <2>4, <2>5, <1>4 DEF Charged
  <2>7. CopyPrice(size) \in Nat
    BY <1>1, <1>3, <1>4
  <2> QED
    BY <2>4, <2>6, <2>7 DEF c
<1>7. CASE ~m.oog
  <2>1. size <= InputMax /\ Trunc(size) = size
    BY <1>7, SmallFacts
  <2>2. cost <= MaxGas /\ cost < SizeMod
    BY <1>3, <2>1, ConstantFacts
  <2>3. Trunc(cost) = cost
    BY <1>3, <2>2, TruncFacts
  <2>4. c = Paying(m, cost)
    BY <1>1, <1>3, <2>1, <2>2, <2>3 DEF CountCopy
  <2> HIDE DEF c, cost
  <2>5. /\ c \in Meters /\ c.buf = m.buf
        /\ c.oog <=> m.gas < cost
        /\ ~c.oog => c.gas = m.gas - cost
    BY <2>4, <1>3, <1>5, <1>7, PayingFacts
  <2>6. /\ Funded(m) /\ Paid(m.buf) = reach
        /\ m.gas + Price(reach) = Budget - StepCost
        /\ \A a \in Nat : ByteAt(m.buf, a) = ByteAt(buf, a)
    BY <1>7 DEF Charged
  <2>7. m.gas \in Nat
    BY <1>5 DEF Meters
  <2>8. c.oog <=> Budget - (StepCost + cost) < Price(reach)
    BY <2>5, <2>6, <2>7, <1>1, <1>2, <1>3
  <2>9. ASSUME ~c.oog PROVE c.gas + Price(reach) = Budget - (StepCost + cost)
    BY <2>5, <2>6, <2>7, <2>9, <1>1, <1>2, <1>3
  <2>10. ASSUME ~c.oog PROVE Funded(c)
    <3>1. PICK g \in StartGas : m.gas + Price(reach) <= g - StepCost
      BY <2>6 DEF Funded
    <3>2. g \in Nat
      BY ConstantFacts
    <3>3. c.gas + Price(reach) <= g - StepCost
      BY <3>1, <3>2, <2>5, <2>7, <2>10, <1>1, <1>2, <1>3
    <3> QED
      BY <3>3, <2>5, <2>6 DEF Funded
  <2>11. Charged(c, CopyPrice(size), reach)
    BY <2>5, <2>6, <2>8, <2>9, <2>10, <1>4 DEF Charged
  <2>12. CopyPrice(size) \in Nat
    BY <1>1, <1>3, <1>4
  <2> QED
    BY <2>5, <2>11, <2>12, <1>7 DEF c
<1> QED
  BY <1>6, <1>7

(* The highest cost times the cost of a word is more than anybody has.     *)
LEMMA PenaltyFacts ==
  ASSUME NEW m, NEW reach, Charged(m, StepCost, reach)
  PROVE  CountCopy(m, MaxGas).oog
<1>1. /\ StepCost \in Nat /\ MaxGas \in Nat /\ StartGas \subseteq 0..MaxGas
      /\ Trunc(MaxGas * CopyGas) \in MaxGas - StepCost + 1..MaxGas
  BY ConstantFacts, ScheduleAssumption DEF ScheduleAssumption
<1> DEFINE cost == Trunc(MaxGas * CopyGas)
<1>2. cost \in Int /\ cost <= MaxGas /\ MaxGas - StepCost < cost
  BY <1>1
<1>3. m \in Meters
  BY DEF Charged
<1>4. CountCopy(m, MaxGas) = Paying(m, cost)
  BY <1>1, <1>2 DEF CountCopy
<1> HIDE DEF cost
<1>5. m.oog \/ m.gas - cost < 0
  <2>1. SUFFICES ASSUME ~m.oog PROVE m.gas - cost < 0
    OBVIOUS
  <2>2. PICK g \in StartGas : m.gas + Price(Paid(m.buf)) <= g - StepCost
    BY <2>1 DEF Charged, Funded
  <2>3. m.gas \in Nat /\ m.buf \in Buffers
    BY <1>3 DEF Meters
  <2>4. Paid(m.buf) \in Nat
    BY <2>3, BufferFacts
  <2>5. Price(Paid(m.buf)) \in Nat
    BY <2>4, PriceFacts
  <2>6. g \in Nat /\ g <= MaxGas
    BY <1>1
  <2> QED
    BY <2>2, <2>3, <2>5, <2>6, <1>1, <1>2
<1>6. Paying(m, cost) = [m EXCEPT !.oog = TRUE]
  BY <1>5 DEF Paying
<1> QED
  BY <1>3, <1>4, <1>6 DEF Meters

(* What overruns the source.                                               *)
LEMMA OverrunFacts ==
  ASSUME NEW src \in Sources, NEW idx \in 0..WordTop, NEW size \in 0..WordTop
  PROVE  Overrun(src, idx, size) <=> idx + size > Len(src)
<1> DEFINE w == WordTop + 1
           n == idx + size
<1>1. Len(src) \in Nat /\ Len(src) < w /\ w \in Nat /\ w > 0 /\ n \in Nat
  BY SourceFacts, ConstantFacts
<1>2. w = WordTop + 1 /\ n = idx + size /\ WordTop \in Nat
  BY ConstantFacts
<1> HIDE DEF w, n
<1> DEFINE q == n \div w
           r == n % w
<1>3. q \in Nat /\ r \in 0..w - 1 /\ n = q * w + r
  BY <1>1, DivFacts
<1> HIDE DEF q, r
<1>4. ~(2 <= q)
  <2>1. SUFFICES ASSUME 2 <= q PROVE FALSE
    OBVIOUS
  <2>2. 2 * w <= q * w
    BY <2>1, <1>1, <1>3, MulMono
  <2>3. q * w \in Nat
    BY <1>1, <1>3
  <2> QED
    BY <2>2, <2>3, <1>1, <1>2, <1>3
<1>5. q = 0 \/ q = 1
  BY <1>3, <1>4
<1>6. Overrun(src, idx, size) <=> r < size \/ r > Len(src)
  BY DEF Overrun, r, n, w
<1>7. CASE q = 0
  BY <1>1, <1>2, <1>3, <1>6, <1>7
<1>8. CASE q = 1
  BY <1>1, <1>2, <1>3, <1>6, <1>8
<1> QED
  BY <1>5, <1>7, <1>8 DEF n

SourceOperands(src, idx) == src = inst.src /\ idx = inst.idx

(* What the EVM copies.                                                    *)
Copied(src, idx, size) == [i \in 0..size - 1 |-> Evm!At(src, idx + i)]

LEMMA AtFacts ==
  ASSUME NEW src \in Sources, NEW i \in Nat
  PROVE  /\ i < Len(src) => Evm!At(src, i) = Read(src, i + 1)
         /\ ~(i < Len(src)) => Evm!At(src, i) = 0
         /\ Evm!At(src, i) \in Byte \cup {0}
<1>1. Len(src) \in Nat
  BY SourceFacts
<1>2. CASE i < Len(src)
  <2>1. i + 1 \in 1..Len(src)
    BY <1>1, <1>2
  <2>2. src[i + 1] \in Byte \cup {0} /\ Read(src, i + 1) = src[i + 1]
    BY <2>1, SourceFacts
  <2> QED
    BY <2>2, <1>2 DEF Evm!At
<1>3. CASE ~(i < Len(src))
  BY <1>3 DEF Evm!At
<1> QED
  BY <1>2, <1>3

(* A copy reads the source where the EVM does, and nothing behind it.      *)
LEMMA PaddedContent ==
  ASSUME NEW src \in Sources, NEW idx \in 0..WordTop, NEW size \in Nat,
         NEW n, n = BytesToCopy(src, idx, size), NEW i \in 0..size - 1
  PROVE  (IF i < n THEN Read(src, Trunc(idx) + i + 1) ELSE 0) =
           Evm!At(src, idx + i)
<1>1. /\ Len(src) \in Nat /\ Len(src) < SizeMod /\ SizeMod \in Nat
      /\ WordTop \in Nat
  BY SourceFacts, ConstantFacts
<1>2. CASE idx >= Len(src)
  <2>1. n = 0 /\ ~(i < n)
    BY <1>2 DEF BytesToCopy
  <2>2. idx + i \in Nat /\ ~(idx + i < Len(src))
    BY <1>1, <1>2
  <2> QED
    BY <2>1, <2>2, AtFacts
<1>3. CASE idx < Len(src)
  <2>1. idx \in Nat /\ idx < SizeMod
    BY <1>1, <1>3
  <2>2. Trunc(idx) = idx
    BY <2>1, TruncFacts
  <2>3. n = Least(size, Len(src) - idx)
    BY <2>2, <1>1, <1>3 DEF BytesToCopy
  <2>4. i < n <=> idx + i < Len(src)
    BY <2>1, <2>3, <1>1, <1>3 DEF Least
  <2>5. idx + i \in Nat /\ Trunc(idx) + i + 1 = idx + i + 1
    BY <2>1, <2>2
  <2> QED
    BY <2>4, <2>5, AtFacts
<1> QED
  BY <1>1, <1>2, <1>3

LEMMA CopyFacts ==
  ASSUME Affordable, IInv, Copy
  PROVE  IInv' /\ StepCovered /\ Evm!Copy
<1>1. /\ inst.op = "copy" /\ inst.off \in Nat /\ inst.size \in Nat
      /\ inst.src \in Sources /\ inst.idx \in 0..WordTop
  BY InstFacts DEF Copy, IInv
<1>2. PICK off \in Nat, size \in Nat : Operands(off, size)
  BY <1>1 DEF Operands
<1>3. PICK src \in Sources, idx \in 0..WordTop : SourceOperands(src, idx)
  BY <1>1 DEF SourceOperands
<1>4. PICK m : m = Require(Entered, off, size)
  OBVIOUS
<1>5. PICK c : c = CountCopy(m, CopyWords(Trunc(size)))
  OBVIOUS
<1>6. PICK bytes : bytes = Trunc(size)
  OBVIOUS
<1>7. PICK n : n = BytesToCopy(src, idx, bytes)
  OBVIOUS
<1>8. PICK content :
        content = [i \in 0..bytes - 1 |->
                     IF i < n THEN Read(src, Trunc(idx) + i + 1) ELSE 0]
  OBVIOUS
<1>9. Finished(Put(c, Trunc(off), bytes, content), "running", <<>>)
  BY <1>2, <1>3, <1>4, <1>5, <1>6, <1>7, <1>8
     DEF Copy, Done, Operands, SourceOperands
<1>10. /\ Charged(m, StepCost, Reach(buf, off, size))
       /\ ~m.oog => Covered(m.buf, off, size)
  BY <1>4, TouchFacts
<1>11. ~m.oog => size <= InputMax
  BY <1>10, ConstantFacts DEF Covered
<1>12. Reach(buf, off, size) \in Nat
  BY ActiveFacts
<1>13. /\ CopyPrice(size) \in Nat
       /\ Charged(c, CopyPrice(size), Reach(buf, off, size))
       /\ ~c.oog => ~m.oog /\ c.buf = m.buf
  BY <1>5, <1>10, <1>11, <1>12, CountCopyFacts
<1>14. ~c.oog => Covered(c.buf, off, size)
  BY <1>10, <1>13
<1>15. ~c.oog => bytes = size
  BY <1>6, <1>11, <1>13, SmallFacts
<1>16. PICK given : given = Copied(src, idx, size)
  OBVIOUS
<1>17. ~c.oog => SameContent(content, given, size)
  <2>1. SUFFICES ASSUME ~c.oog, NEW j \in 0..size - 1
                 PROVE  content[j] = given[j] /\ given[j] \in Byte \cup {0}
    BY DEF SameContent
  <2>2. bytes = size
    BY <2>1, <1>15
  <2>3. content[j] = IF j < n THEN Read(src, Trunc(idx) + j + 1) ELSE 0
    BY <2>2, <1>8
  <2>4. content[j] = Evm!At(src, idx + j)
    BY <2>2, <2>3, <1>7, PaddedContent
  <2>5. given[j] = Evm!At(src, idx + j)
    BY <1>16 DEF Copied
  <2>6. idx + j \in Nat
    BY ConstantFacts
  <2> QED
    BY <2>4, <2>5, <2>6, AtFacts
<1>18. inst.op \in {"store", "copy", "copyReturned"}
  BY <1>1
<1>19. IInv' /\ StepCovered /\ Evm!Write(CopyPrice(size), given)
  BY <1>2, <1>9, <1>13, <1>14, <1>15, <1>17, <1>18, WriteFacts
<1>20. Evm!Copy
  <2> DEFINE price == Evm!CopyPrice
             copy == [i \in 0..inst.size - 1 |-> Evm!At(inst.src, inst.idx + i)]
  <2>1. price = CopyPrice(size)
    BY <1>2 DEF Evm!CopyPrice, Evm!Rounded, CopyPrice, CopyWords, Operands
  <2>2. copy = given
    BY <1>2, <1>3, <1>16 DEF Copied, Operands, SourceOperands
  <2> HIDE DEF price, copy
  <2>3. Evm!Write(price, copy)
    BY <2>1, <2>2, <1>19 DEF Evm!Write, Evm!Written, Evm!Payable
  <2> QED
    BY <2>3 DEF Evm!Copy, price, copy
<1> QED
  BY <1>19, <1>20

LEMMA CopyReturnDataFacts ==
  ASSUME Affordable, IInv, CopyReturnData
  PROVE  IInv' /\ StepCovered /\ Evm!CopyReturned
<1>1. /\ inst.op = "copyReturned" /\ inst.off \in Nat /\ inst.size \in 0..WordTop
      /\ inst.src \in Sources /\ inst.idx \in 0..WordTop
  BY InstFacts DEF CopyReturnData, IInv
<1>2. PICK off \in Nat, size \in 0..WordTop : Operands(off, size)
  BY <1>1 DEF Operands
<1>3. PICK src \in Sources, idx \in 0..WordTop : SourceOperands(src, idx)
  BY <1>1 DEF SourceOperands
<1>4. PICK m : m = Require(Entered, off, size)
  OBVIOUS
<1>5. PICK bytes : bytes = Trunc(size)
  OBVIOUS
<1>6. PICK words : words = IF Overrun(src, idx, size) THEN MaxGas ELSE CopyWords(bytes)
  OBVIOUS
<1>7. PICK c : c = CountCopy(m, words)
  OBVIOUS
<1>8. PICK content :
        content = [i \in 0..bytes - 1 |-> Read(src, Trunc(idx) + i + 1)]
  OBVIOUS
<1>9. Finished(Put(c, Trunc(off), bytes, content), "running", <<>>)
  BY <1>2, <1>3, <1>4, <1>5, <1>6, <1>7, <1>8
     DEF CopyReturnData, Done, Operands, SourceOperands
<1>10. size \in Nat /\ idx \in Nat /\ Len(src) \in Nat /\ Len(src) < SizeMod
  BY ConstantFacts, SourceFacts
<1>11. /\ Charged(m, StepCost, Reach(buf, off, size))
       /\ ~m.oog => Covered(m.buf, off, size)
  BY <1>4, <1>10, TouchFacts
<1>12. ~m.oog => size <= InputMax
  BY <1>10, <1>11, ConstantFacts DEF Covered
<1>13. Reach(buf, off, size) \in Nat
  BY <1>10, ActiveFacts
<1>14. Overrun(src, idx, size) <=> ~(inst.idx + inst.size <= Len(inst.src))
  <2>1. Overrun(src, idx, size) <=> ~(idx + size <= Len(src))
    BY <1>10, OverrunFacts
  <2> QED
    BY <2>1, <1>2, <1>3 DEF Operands, SourceOperands
<1>15. CASE Overrun(src, idx, size)
  <2>1. c.oog
    BY <1>6, <1>7, <1>11, <1>15, PenaltyFacts
  <2>2. Put(c, Trunc(off), bytes, content).oog
    <3>1. m \in Meters
      BY <1>11 DEF Charged
    <3>2. PICK any : c = Paying(m, any)
      BY <1>7 DEF CountCopy
    <3>3. c = [m EXCEPT !.oog = TRUE] \/ c = [m EXCEPT !.gas = m.gas - any]
      BY <3>2 DEF Paying
    <3>4. \/ c = [buf |-> m.buf, gas |-> m.gas, oog |-> TRUE]
          \/ c = [buf |-> m.buf, gas |-> m.gas - any, oog |-> m.oog]
      BY <3>1, <3>3 DEF Meters
    <3> QED
      BY <2>1, <3>4 DEF Put
  <2>3. IInv' /\ Evm!Abort /\ status' = "aborted"
    BY <2>2, <1>9, Aborts
  <2> QED
    BY <2>3, <1>14, <1>15 DEF StepCovered, Evm!CopyReturned
<1>16. CASE ~Overrun(src, idx, size)
  <2>1. c = CountCopy(m, CopyWords(Trunc(size)))
    BY <1>5, <1>6, <1>7, <1>16
  <2>2. /\ CopyPrice(size) \in Nat
        /\ Charged(c, CopyPrice(size), Reach(buf, off, size))
        /\ ~c.oog => ~m.oog /\ c.buf = m.buf
    BY <2>1, <1>10, <1>11, <1>12, <1>13, CountCopyFacts
  <2>3. ~c.oog => Covered(c.buf, off, size)
    BY <2>2, <1>11
  <2>4. ~c.oog => bytes = size
    BY <2>2, <1>5, <1>10, <1>12, SmallFacts
  <2>5. PICK given : given = Copied(src, idx, size)
    OBVIOUS
  <2>6. ~c.oog => SameContent(content, given, size)
    <3>1. SUFFICES ASSUME ~c.oog, NEW j \in 0..size - 1
                   PROVE  content[j] = given[j] /\ given[j] \in Byte \cup {0}
      BY DEF SameContent
    <3>2. content[j] = Read(src, Trunc(idx) + j + 1)
      BY <3>1, <2>4, <1>8
    <3>3. idx + size <= Len(src)
      BY <1>10, <1>16, OverrunFacts
    <3>4. Trunc(idx) = idx
      <4>1. SizeMod \in Nat
        BY ConstantFacts
      <4> HIDE DEF SizeMod
      <4>2. idx < SizeMod
        BY <4>1, <3>3, <1>10
      <4> QED
        BY <4>2, <1>10, TruncFacts
    <3>5. idx + j \in Nat /\ idx + j < Len(src)
      BY <3>3, <1>10
    <3>6. content[j] = Evm!At(src, idx + j) /\ Evm!At(src, idx + j) \in Byte \cup {0}
      BY <3>2, <3>4, <3>5, AtFacts
    <3>7. given[j] = Evm!At(src, idx + j)
      BY <2>5 DEF Copied
    <3> QED
      BY <3>6, <3>7
  <2>7. inst.op \in {"store", "copy", "copyReturned"}
    BY <1>1
  <2>8. IInv' /\ StepCovered /\ Evm!Write(CopyPrice(size), given)
    BY <2>2, <2>3, <2>4, <2>6, <2>7, <1>2, <1>9, <1>10, WriteFacts
  <2>9. Evm!Copy
    <3> DEFINE price == Evm!CopyPrice
               copy == [i \in 0..inst.size - 1 |-> Evm!At(inst.src, inst.idx + i)]
    <3>1. price = CopyPrice(size)
      BY <1>2 DEF Evm!CopyPrice, Evm!Rounded, CopyPrice, CopyWords, Operands
    <3>2. copy = given
      BY <2>5, <1>2, <1>3 DEF Copied, Operands, SourceOperands
    <3> HIDE DEF price, copy
    <3>3. Evm!Write(price, copy)
      BY <3>1, <3>2, <2>8 DEF Evm!Write, Evm!Written, Evm!Payable
    <3> QED
      BY <3>3 DEF Evm!Copy, price, copy
  <2> QED
    BY <2>8, <2>9, <1>14, <1>16 DEF Evm!CopyReturned
<1> QED
  BY <1>15, <1>16

-----------------------------------------------------------------------------
(* Loads of call data.                                                     *)

LEMMA CallDataLoadFacts ==
  ASSUME Affordable, IInv, CallDataLoad
  PROVE  IInv' /\ StepCovered /\ Evm!Load
<1>1. inst.op = "load" /\ inst.src \in Sources /\ inst.idx \in 0..WordTop
  BY InstFacts DEF CallDataLoad, IInv
<1>2. PICK src \in Sources, idx \in 0..WordTop : SourceOperands(src, idx)
  BY <1>1 DEF SourceOperands
<1> DEFINE size == Len(src)
           start == Trunc(IF idx < size THEN idx ELSE size)
           end == Least(start + WordBytes, size)
           word == [i \in 1..WordBytes |->
                      IF i <= end - start THEN Read(src, start + i) ELSE 0]
<1>3. Finished(Entered, "running", word)
  BY <1>2 DEF CallDataLoad, SourceOperands
<1>4. /\ size \in Nat /\ size < SizeMod /\ idx \in Nat /\ WordBytes \in Nat
      /\ StepCost \in Nat
  BY SourceFacts, ConstantFacts
<1>5. start = IF idx < size THEN idx ELSE size
  <2> DEFINE least == IF idx < size THEN idx ELSE size
  <2>1. least \in Nat /\ least < SizeMod
    BY <1>4, ConstantFacts
  <2> HIDE DEF least
  <2>2. Trunc(least) = least
    BY <2>1, TruncFacts
  <2> QED
    BY <2>2 DEF least
<1> HIDE DEF start
<1>6. ASSUME NEW i \in 1..WordBytes
      PROVE  /\ (IF i <= end - start THEN Read(src, start + i) ELSE 0) =
                  Evm!At(src, idx + i - 1)
             /\ Evm!At(src, idx + i - 1) \in Byte \cup {0}
  <2>1. idx + i - 1 \in Nat /\ idx + i - 1 + 1 = idx + i
    BY <1>4
  <2>2. Evm!At(src, idx + i - 1) \in Byte \cup {0}
    BY <2>1, AtFacts
  <2>3. CASE idx + i - 1 < size
    <3>1. start = idx
      BY <2>3, <1>4, <1>5
    <3>2. i <= end - start
      BY <2>3, <3>1, <1>4 DEF Least
    <3>3. Evm!At(src, idx + i - 1) = Read(src, idx + i)
      BY <2>1, <2>3, AtFacts
    <3> QED
      BY <3>1, <3>2, <3>3, <2>2
  <2>4. CASE ~(idx + i - 1 < size)
    <3>1. ~(i <= end - start)
      BY <2>4, <1>4, <1>5 DEF Least
    <3>2. Evm!At(src, idx + i - 1) = 0
      BY <2>1, <2>4, AtFacts
    <3> QED
      BY <3>1, <3>2, <2>2
  <2> QED
    BY <2>3, <2>4
<1>7. word = [i \in 1..WordBytes |-> Evm!At(inst.src, inst.idx + i - 1)]
  <2>1. word = [i \in 1..WordBytes |-> Evm!At(src, idx + i - 1)]
    BY <1>6
  <2> HIDE DEF word
  <2> QED
    BY <2>1, <1>2 DEF SourceOperands
<1>8. word \in Seq(Byte \cup {0})
  <2>1. \A i \in 1..WordBytes :
          (IF i <= end - start THEN Read(src, start + i) ELSE 0) \in Byte \cup {0}
    BY <1>6
  <2> QED
    BY <2>1, <1>4
<1> HIDE DEF word
<1>9. Charged(Entered, StepCost, Paid(buf)) /\ Paid(buf) \in Nat
  BY EnteredCharged, BudgetFacts
<1>10. Budget \in Nat /\ Price(Paid(buf)) \in Nat
  BY BudgetFacts
<1>11. StepCovered
  BY <1>1 DEF StepCovered
<1>12. CASE Entered.oog
  <2>1. IInv' /\ Evm!Abort /\ status' = "aborted"
    BY <1>3, <1>12, Aborts
  <2>2. Budget - StepCost < Price(Paid(buf))
    BY <1>9, <1>12 DEF Charged
  <2> QED
    BY <2>1, <2>2, <1>11 DEF Evm!Load, Budget, Paid
<1>13. CASE ~Entered.oog
  <2>1. /\ Entered \in Meters /\ Funded(Entered) /\ Entered.buf = buf
        /\ Paid(Entered.buf) = Paid(buf)
        /\ Entered.gas + Price(Paid(buf)) = Budget - StepCost
        /\ \A a \in Nat : ByteAt(Entered.buf, a) = ByteAt(buf, a)
        /\ Budget - StepCost >= Price(Paid(buf))
    BY <1>4, <1>9, <1>10, <1>13, EnteredFacts DEF Charged
  <2>2. "running" \in {"running", "returned"}
    OBVIOUS
  <2>3. /\ IInv' /\ inst' = None /\ status' = "running" /\ out' = word
        /\ buf' = Entered.buf /\ gas' = Entered.gas
    BY <2>1, <2>2, <1>3, <1>8, <1>13, Continues
  <2>4. buf' = buf /\ gas' + Price(Paid(buf)) = Budget - StepCost
    BY <2>1, <2>3
  <2>5. (gas + Price(Len(buf) \div WordBytes))' =
          (gas + Price(Len(buf) \div WordBytes)) - StepCost
    BY <2>4 DEF Budget, Paid
  <2>6. Evm!Load
    BY <2>1, <2>3, <2>4, <2>5, <1>7 DEF Evm!Load, Evm!Ended, Budget, Paid
  <2> QED
    BY <2>3, <2>6, <1>11
<1> QED
  BY <1>12, <1>13

-----------------------------------------------------------------------------
(* Calls.                                                                  *)

RangeOperands(to, size, from, given) ==
    /\ to = inst.to[1] /\ size = inst.to[2]
    /\ from = inst.from[1] /\ given = inst.from[2]

(* Two ranges are required one after the other.                            *)
LEMMA BothFacts ==
  ASSUME Affordable, IInv, NEW to \in Nat, NEW size \in Nat,
         NEW from \in Nat, NEW given \in Nat,
         NEW m, m = Require(Require(Entered, to, size), from, given),
         NEW wider, wider = Evm!Wider(Reach(buf, to, size), Reach(buf, from, given))
  PROVE  /\ wider \in Nat
         /\ Charged(m, StepCost, wider)
         /\ ~m.oog => Covered(m.buf, to, size) /\ Covered(m.buf, from, given)
<1> DEFINE first == Require(Entered, to, size)
           reach == Reach(buf, to, size)
           words == (from + given + WordBytes - 1) \div WordBytes
           b == Extended(buf, reach * WordBytes)
           both == Evm!Wider(reach, Reach(buf, from, given))
           last == Require(first, from, given)
<1>1. buf \in Buffers /\ Paid(buf) \in Nat /\ Len(buf) = Paid(buf) * WordBytes
  BY EnteredFacts, BufferFacts
<1>2. WordBytes \in Nat /\ WordBytes > 0
  BY ConstantFacts
<1>3. /\ Charged(first, StepCost, reach)
      /\ ~first.oog => Covered(first.buf, to, size)
  BY TouchFacts
<1>4. reach \in Nat /\ Paid(buf) <= reach
  BY <1>1, ReachFacts
<1>5. words \in Nat
  BY WordsFacts
<1>6. both = IF reach < Reach(buf, from, given) THEN Reach(buf, from, given) ELSE reach
  BY DEF Evm!Wider
<1>7. Reach(buf, from, given) =
        IF given = 0 \/ words <= Paid(buf) THEN Paid(buf) ELSE words
  BY DEF Reach
<1>8. last = m /\ both = wider
  OBVIOUS
<1> HIDE DEF first, reach, words, b, both, last
<1>9. b \in Buffers /\ Paid(b) = reach
  <2>1. Len(buf) <= reach * WordBytes
    BY <1>1, <1>2, <1>4, MulMono
  <2> QED
    BY <2>1, <1>1, <1>4, ExtendedFacts DEF b
<1>10. Reach(b, from, given) = IF given = 0 \/ words <= reach THEN reach ELSE words
  BY <1>9 DEF Reach, words
<1>11. both = Reach(b, from, given) /\ both \in Nat /\ reach <= both
  BY <1>1, <1>4, <1>5, <1>6, <1>7, <1>10
<1>12. Charged(last, StepCost, both) /\ (~last.oog => Covered(last.buf, from, given))
  BY <1>3, <1>4, <1>9, <1>11, RequireCharged DEF last
<1>13. ASSUME ~last.oog PROVE Covered(last.buf, to, size)
  <2>1. ~first.oog
    BY <1>13 DEF last, Require
  <2>2. Covered(first.buf, to, size) /\ Paid(first.buf) = reach
    BY <2>1, <1>3 DEF Charged
  <2>3. Paid(last.buf) = both
    BY <1>12, <1>13 DEF Charged
  <2>4. first.buf \in Buffers /\ last.buf \in Buffers
    BY <1>3, <1>12 DEF Charged, Meters
  <2>5. Len(first.buf) = reach * WordBytes /\ Len(last.buf) = both * WordBytes
    BY <2>2, <2>3, <2>4, BufferFacts
  <2>6. reach * WordBytes <= both * WordBytes
    BY <1>2, <1>4, <1>11, MulMono
  <2>7. reach * WordBytes \in Nat /\ both * WordBytes \in Nat
    BY <1>2, <1>4, <1>11
  <2> QED
    BY <2>2, <2>5, <2>6, <2>7 DEF Covered
<1> QED
  BY <1>8, <1>11, <1>12, <1>13

LEMMA CallFacts ==
  ASSUME Affordable, IInv, Call
  PROVE  IInv' /\ StepCovered /\ Evm!Call
<1>1. /\ inst.op = "call" /\ IsRange(inst.to) /\ IsRange(inst.from)
      /\ inst.data \in Sources \cup {<<>>}
  BY InstFacts DEF Call, IInv
<1>2. /\ inst.to[1] \in Nat /\ inst.to[2] \in Nat
      /\ inst.from[1] \in Nat /\ inst.from[2] \in Nat
  BY <1>1, ConstantFacts DEF IsRange
<1>3. PICK to \in Nat, size \in Nat, from \in Nat, given \in Nat :
        RangeOperands(to, size, from, given)
  BY <1>2 DEF RangeOperands
<1>4. PICK data \in Sources \cup {<<>>} : data = inst.data
  BY <1>1
<1>5. PICK m : m = Require(Require(Entered, to, size), from, given)
  OBVIOUS
<1>6. PICK n : n = Least(Trunc(size), Len(data))
  OBVIOUS
<1>7. PICK content : content = [i \in 0..n - 1 |-> data[i + 1]]
  OBVIOUS
<1>8. PICK bytes : bytes = InRange(m.buf, from, given)
  OBVIOUS
<1>9. Finished(Put(m, Trunc(to), n, content), "running", bytes)
  BY <1>3, <1>4, <1>5, <1>6, <1>7, <1>8 DEF Call, RequireBoth, RangeOperands
<1>10. PICK wider : wider = Evm!Wider(Reach(buf, to, size), Reach(buf, from, given))
  OBVIOUS
<1>11. /\ wider \in Nat /\ Charged(m, StepCost, wider)
       /\ ~m.oog => Covered(m.buf, to, size) /\ Covered(m.buf, from, given)
  BY <1>5, <1>10, BothFacts
<1>12. Evm!Wider(Evm!ActiveWith(to, size), Evm!ActiveWith(from, given)) = wider
  <2>1. /\ Evm!ActiveWith(to, size) = Reach(buf, to, size)
        /\ Evm!ActiveWith(from, given) = Reach(buf, from, given)
    BY ActiveFacts
  <2> QED
    BY <2>1, <1>10
<1>13. Budget \in Nat /\ StepCost \in Nat /\ Price(wider) \in Nat
  BY <1>11, BudgetFacts, ConstantFacts, PriceFacts
<1>14. PICK p : p = Put(m, Trunc(to), n, content)
  OBVIOUS
<1>15. Finished(p, "running", bytes)
  BY <1>9, <1>14
<1>16. p.oog = m.oog
  BY <1>11, <1>14 DEF Put, Charged, Meters
<1>17. CASE m.oog
  <2>1. IInv' /\ Evm!Abort /\ status' = "aborted"
    BY <1>15, <1>16, <1>17, Aborts
  <2>2. Budget - StepCost < Price(wider)
    BY <1>11, <1>17 DEF Charged
  <2>3. (gas + Price(Len(buf) \div WordBytes)) - StepCost <
          Price(Evm!Wider(Evm!ActiveWith(inst.to[1], inst.to[2]),
                          Evm!ActiveWith(inst.from[1], inst.from[2])))
    BY <2>2, <1>3, <1>12, <1>13 DEF Budget, Paid, RangeOperands
  <2> QED
    BY <2>1, <2>3 DEF StepCovered, Evm!Call
<1>18. CASE ~m.oog
  <2>1. /\ m \in Meters /\ Funded(m) /\ Paid(m.buf) = wider
        /\ m.gas + Price(wider) = Budget - StepCost
        /\ \A a \in Nat : ByteAt(m.buf, a) = ByteAt(buf, a)
        /\ Budget - StepCost >= Price(wider)
    BY <1>11, <1>13, <1>18 DEF Charged
  <2>2. /\ m.buf \in Buffers /\ Covered(m.buf, to, size)
        /\ Covered(m.buf, from, given)
    BY <2>1, <1>11, <1>18 DEF Meters
  <2>3. Len(data) \in Nat /\ data \in Seq(Byte \cup {0})
    BY SourceFacts
  <2>4. Trunc(size) = size
    BY <2>2, SmallFacts, ConstantFacts DEF Covered
  <2>5. n \in Nat /\ n <= size /\ n <= Len(data)
    BY <2>3, <2>4, <1>6 DEF Least
  <2>6. \A j \in 0..n - 1 : content[j] \in Byte \cup {0}
    <3>1. TAKE j \in 0..n - 1
    <3>2. j + 1 \in 1..Len(data)
      BY <2>3, <2>5
    <3>3. data[j + 1] \in Byte \cup {0}
      BY <3>2, SourceFacts
    <3> QED
      BY <3>3, <1>7
  <2>7. /\ Trunc(to) \in Nat
        /\ n > 0 => Trunc(to) = to /\ Trunc(to) + n <= Len(m.buf)
    <3>1. n > 0 => to <= InputMax /\ to + size <= Len(m.buf)
      BY <2>2, <2>5 DEF Covered
    <3>2. Len(m.buf) \in Nat
      BY <2>2, BufferFacts
    <3>3. Trunc(to) \in Nat
      BY TruncFacts
    <3>4. n > 0 => Trunc(to) = to
      BY <3>1, SmallFacts
    <3> QED
      BY <3>1, <3>2, <3>3, <3>4, <2>5
  <2>8. /\ p \in Meters /\ p.gas = m.gas /\ Len(p.buf) = Len(m.buf)
        /\ Paid(p.buf) = wider
        /\ Overwritten(p.buf, m.buf, Trunc(to), n, content)
    BY <2>1, <2>5, <2>6, <2>7, <1>14, PutFacts
  <2>9. Overwritten(p.buf, buf, to, n, content)
    <3>1. CASE n = 0
      <4>1. Trunc(to)..Trunc(to) + n - 1 = {} /\ to..to + n - 1 = {}
        BY <3>1, <2>7
      <4> QED
        BY <4>1, <2>1, <2>8 DEF Overwritten
    <3>2. CASE n > 0
      BY <3>2, <2>1, <2>7, <2>8 DEF Overwritten
    <3> QED
      BY <3>1, <3>2, <2>5
  <2>10. Funded(p)
    BY <2>1, <2>8 DEF Funded
  <2>11. bytes \in Seq(Byte \cup {0}) /\ bytes = Evm!Content(from, given)
    BY <2>1, <2>2, <1>8, InRangeFacts, ContentFacts
  <2>12. "running" \in {"running", "returned"}
    OBVIOUS
  <2>13. /\ IInv' /\ inst' = None /\ status' = "running" /\ out' = bytes
         /\ buf' = p.buf /\ gas' = p.gas
    BY <2>8, <2>10, <2>11, <2>12, <1>15, <1>16, <1>18, Continues
  <2>14. SameContent(content, content, n)
    BY <2>6 DEF SameContent
  <2>15. [a \in 0..2 * InputMax |-> IF a < Len(buf) THEN buf[a + 1] ELSE 0]' =
         Evm!Written(to, n, content)
    <3>1. n \in Nat /\ buf' = p.buf
      BY <2>5, <2>13
    <3> QED
      BY <3>1, <2>9, <2>14, WrittenBytes
  <2>16. /\ (Len(buf) \div WordBytes)' = wider
         /\ (gas + Price(Len(buf) \div WordBytes))' =
              (gas + Price(Len(buf) \div WordBytes)) - StepCost
    BY <2>1, <2>8, <2>13, <1>11, <1>13, AbstractNext
  <2>17. n = IF Len(inst.data) < inst.to[2] THEN Len(inst.data) ELSE inst.to[2]
    <3>1. n = IF Len(data) < size THEN Len(data) ELSE size
      BY <2>3, <2>4, <1>6 DEF Least
    <3> QED
      BY <3>1, <1>3, <1>4 DEF RangeOperands
  <2>18. Evm!Call
    <3> DEFINE k == IF Len(inst.data) < inst.to[2] THEN Len(inst.data) ELSE inst.to[2]
               copied == [i \in 0..k - 1 |-> inst.data[i + 1]]
               reach == Evm!Wider(Evm!ActiveWith(inst.to[1], inst.to[2]),
                                  Evm!ActiveWith(inst.from[1], inst.from[2]))
    <3>1. k = n
      BY <2>17
    <3>2. content = [i \in 0..n - 1 |-> inst.data[i + 1]]
      BY <1>4, <1>7
    <3> HIDE DEF k
    <3>3. copied = content
      BY <3>1, <3>2
    <3>4. reach = wider
      BY <1>3, <1>12 DEF RangeOperands
    <3> HIDE DEF copied, reach
    <3>5. [a \in 0..2 * InputMax |-> IF a < Len(buf) THEN buf[a + 1] ELSE 0]' =
          Evm!Written(inst.to[1], k, copied)
      BY <3>1, <3>3, <2>15, <1>3 DEF RangeOperands, Evm!Written
    <3>6. (gas + Price(Len(buf) \div WordBytes)) - StepCost >= Price(reach)
      BY <3>4, <2>1 DEF Budget, Paid
    <3>7. Evm!Ended("running", Evm!Content(inst.from[1], inst.from[2]))
      BY <2>11, <2>13, <1>3 DEF Evm!Ended, RangeOperands, Evm!Content
    <3>8. /\ (Len(buf) \div WordBytes)' = reach
          /\ (gas + Price(Len(buf) \div WordBytes))' =
               (gas + Price(Len(buf) \div WordBytes)) - StepCost
      BY <3>4, <2>16
    <3> QED
      BY <3>5, <3>6, <3>7, <3>8 DEF Evm!Call, k, copied, reach
  <2>19. StepCovered
    <3>1. Len(buf') = Len(m.buf)
      BY <2>8, <2>13
    <3>2. /\ size > 0 => to + size <= Len(buf')
          /\ given > 0 => from + given <= Len(buf')
      BY <3>1, <2>2 DEF Covered
    <3>3. /\ inst.to[2] > 0 => inst.to[1] + inst.to[2] <= Len(buf')
          /\ inst.from[2] > 0 => inst.from[1] + inst.from[2] <= Len(buf')
      BY <3>2, <1>3 DEF RangeOperands
    <3> QED
      BY <3>3, <1>1 DEF StepCovered
  <2> QED
    BY <2>13, <2>18, <2>19
<1> QED
  BY <1>17, <1>18

-----------------------------------------------------------------------------
(* All steps.                                                              *)

LEMMA EmptyFacts ==
  ASSUME buf = <<>>
  PROVE  /\ buf \in Buffers /\ Len(buf) \div WordBytes = 0
         /\ Price(Len(buf) \div WordBytes) = 0
<1>1. /\ WordBytes \in Nat /\ WordBytes > 0 /\ QuadDiv \in Nat /\ QuadDiv > 0
      /\ MemoryGas \in Nat
  BY ConstantFacts
<1>2. ASSUME NEW w \in Nat, w > 0 PROVE 0 \div w = 0
  <2>1. 0 \div w \in Nat /\ (0 \div w) * w <= 0
    BY <1>2, DivFacts
  <2> DEFINE d == 0 \div w
  <2>2. d \in Nat /\ d * w <= 0
    BY <2>1
  <2> HIDE DEF d
  <2>3. ~(1 <= d)
    <3>1. SUFFICES ASSUME 1 <= d PROVE FALSE
      OBVIOUS
    <3>2. 1 * w <= d * w
      BY <3>1, <2>2, <1>2, MulMono
    <3> QED
      BY <3>2, <2>2, <1>2
  <2>4. d = 0
    BY <2>2, <2>3
  <2> QED
    BY <2>4 DEF d
<1>3. Len(buf) = 0 /\ 0 \div WordBytes = 0 /\ 0 \div QuadDiv = 0
  BY <1>1, <1>2
<1>4. Price(0) = 0
  <2>1. 0 * 0 = 0 /\ MemoryGas * 0 = 0
    BY <1>1
  <2> QED
    BY <2>1, <1>3 DEF Price
<1>5. buf \in Seq(Byte \cup {0}) /\ Len(buf) = 0 * WordBytes
  BY <1>1
<1>6. buf \in Buffers
  BY <1>5, NewBuffer
<1> QED
  BY <1>3, <1>4, <1>6

LEMMA InitIInv == Init => IInv
<1> SUFFICES ASSUME Init PROVE IInv
  OBVIOUS
<1>1. buf \in Buffers /\ Price(Paid(buf)) = 0
  BY EmptyFacts DEF Init, Paid
<1>2. gas \in StartGas /\ gas \in 0..MaxGas
  BY ConstantFacts DEF Init
<1>3. TypeOK
  BY <1>1, <1>2 DEF Init, TypeOK, Buffers
<1>4. gas + Price(Paid(buf)) <= gas
  BY <1>1, <1>2
<1> QED
  BY <1>2, <1>3, <1>4 DEF IInv, WordsPaid

LEMMA InitRefines == Init => Evm!Init
<1> SUFFICES ASSUME Init PROVE Evm!Init
  OBVIOUS
<1>1. Len(buf) \div WordBytes = 0 /\ Price(Len(buf) \div WordBytes) = 0
  BY EmptyFacts DEF Init
<1>2. gas \in StartGas /\ gas \in Nat
  BY ConstantFacts DEF Init
<1>3. gas + Price(Len(buf) \div WordBytes) \in StartGas
  <2>1. gas + Price(Len(buf) \div WordBytes) = gas
    BY <1>1, <1>2
  <2> QED
    BY <2>1, <1>2
<1>4. [a \in 0..2 * InputMax |-> IF a < Len(buf) THEN buf[a + 1] ELSE 0] =
      [a \in 0..2 * InputMax |-> 0]
  BY ConstantFacts DEF Init
<1> QED
  BY <1>1, <1>3, <1>4 DEF Init, Evm!Init

LEMMA FetchFacts ==
  ASSUME IInv, Fetch
  PROVE  IInv' /\ StepCovered /\ Evm!Fetch
<1>1. /\ status = "running" /\ inst = None /\ inst' \in Instructions
      /\ out' = <<>> /\ buf' = buf /\ gas' = gas /\ status' = status
  BY DEF Fetch
<1>2. <<>> \in Seq(Byte \cup {0})
  OBVIOUS
<1>3. IInv'
  BY <1>1, <1>2 DEF IInv, TypeOK, WordsPaid, Paid
<1>4. StepCovered
  BY <1>1 DEF StepCovered, None
<1>5. Evm!Fetch
  BY <1>1 DEF Evm!Fetch
<1> QED
  BY <1>3, <1>4, <1>5

LEMMA TouchStep ==
  ASSUME Affordable, IInv, Touch
  PROVE  IInv' /\ StepCovered /\ inst.op = "read" /\ Evm!Read("running")
<1>1. PICK m : m = Require(Entered, inst.off, inst.size)
  OBVIOUS
<1>2. PICK bytes : bytes = InRange(m.buf, inst.off, inst.size)
  OBVIOUS
<1>3. inst.op = "read" /\ Finished(m, "running", bytes)
  BY <1>1, <1>2 DEF Touch
<1>4. inst.op \in {"read", "return"} /\ "running" \in {"running", "returned"}
  BY <1>3
<1> QED
  BY <1>1, <1>2, <1>3, <1>4, ReadFacts

(* getReturnData() looks only at where the data begin.                     *)
LEMMA ReturnStep ==
  ASSUME Affordable, IInv, Return
  PROVE  IInv' /\ StepCovered /\ inst.op = "return" /\ Evm!Read("returned")
<1>1. PICK m : m = Require(Entered, inst.off, inst.size)
  OBVIOUS
<1>2. PICK bytes : bytes = InRange(m.buf, inst.off, inst.size)
  OBVIOUS
<1>3. /\ inst.op = "return"
      /\ Finished(m, "returned", ReturnData(m.buf, inst.off, inst.size))
  BY <1>1 DEF Return
<1>4. inst.op \in {"read", "return"} /\ "returned" \in {"running", "returned"}
  BY <1>3
<1>5. inst.off \in Nat /\ inst.size \in Nat
  BY <1>4, InstFacts DEF IInv
<1>6. /\ Charged(m, StepCost, Reach(buf, inst.off, inst.size))
      /\ ~m.oog => Covered(m.buf, inst.off, inst.size)
  BY <1>1, <1>5, TouchFacts
<1>7. ASSUME ~m.oog PROVE ReturnData(m.buf, inst.off, inst.size) = bytes
  <2>1. CASE inst.size = 0
    <3>1. Trunc(inst.size) = 0
      BY <2>1, SmallFacts, ConstantFacts
    <3>2. InRange(m.buf, inst.off, inst.size) = <<>>
      BY <3>1 DEF InRange
    <3> QED
      BY <3>2, <1>2 DEF ReturnData
  <2>2. CASE inst.size > 0
    <3>1. inst.off <= InputMax /\ inst.off + inst.size <= Len(m.buf)
      BY <2>2, <1>6, <1>7 DEF Covered
    <3>2. m.buf \in Buffers
      BY <1>6 DEF Charged, Meters
    <3>3. Trunc(inst.off) = inst.off /\ Len(m.buf) \in Nat
      BY <3>1, <3>2, <1>5, SmallFacts, BufferFacts
    <3>4. ~(Trunc(inst.off) >= Len(m.buf))
      BY <3>1, <3>3, <2>2, <1>5
    <3> QED
      BY <3>4, <1>2 DEF ReturnData
  <2> QED
    BY <2>1, <2>2, <1>5
<1>8. Finished(m, "returned", bytes)
  BY <1>3, <1>7 DEF Finished
<1> QED
  BY <1>1, <1>2, <1>3, <1>4, <1>8, ReadFacts

LEMMA StepFacts ==
  ASSUME Affordable, IInv, Next
  PROVE  IInv' /\ StepCovered /\ Evm!Next
<1>1. CASE Fetch
  BY <1>1, FetchFacts DEF Evm!Next
<1>2. CASE Touch
  BY <1>2, TouchStep DEF Evm!Next
<1>3. CASE Return
  BY <1>3, ReturnStep DEF Evm!Next
<1>4. CASE Store
  <2>1. inst.op = "store"
    BY <1>4 DEF Store
  <2> QED
    BY <2>1, <1>4, StoreFacts DEF Evm!Next
<1>5. CASE Copy
  <2>1. inst.op = "copy"
    BY <1>5 DEF Copy
  <2> QED
    BY <2>1, <1>5, CopyFacts DEF Evm!Next
<1>6. CASE CopyReturnData
  <2>1. inst.op = "copyReturned"
    BY <1>6 DEF CopyReturnData
  <2> QED
    BY <2>1, <1>6, CopyReturnDataFacts DEF Evm!Next
<1>7. CASE Call
  <2>1. inst.op = "call"
    BY <1>7 DEF Call
  <2> QED
    BY <2>1, <1>7, CallFacts DEF Evm!Next
<1>8. CASE CallDataLoad
  <2>1. inst.op = "load"
    BY <1>8 DEF CallDataLoad
  <2> QED
    BY <2>1, <1>8, CallDataLoadFacts DEF Evm!Next
<1> QED
  BY <1>1, <1>2, <1>3, <1>4, <1>5, <1>6, <1>7, <1>8 DEF Next

LEMMA Invariance == ASSUME Affordable PROVE Spec => []IInv
<1>1. Init => IInv
  BY InitIInv
<1>2. IInv /\ [Next]_vars => IInv'
  <2>1. CASE UNCHANGED vars
    BY <2>1 DEF vars, IInv, TypeOK, WordsPaid, Paid
  <2> QED
    BY <2>1, StepFacts
<1> QED
  BY <1>1, <1>2, PTL DEF Spec

-----------------------------------------------------------------------------
(* The results.                                                            *)

(* No byte from outside of the memory or of the source of a copy is ever   *)
(* in the memory, pushed, handed to the host or returned, and the gas never*)
(* leaves its 63 bits although the copy cost is a product of 64            *)
(* (Memory.cpp:209-271, Ext.cpp:420-437, JIT.cpp:372-385).                 *)
THEOREM TypeCorrect == ASSUME Affordable PROVE Spec => []TypeOK
<1>1. IInv => TypeOK
  BY DEF IInv
<1> QED
  BY <1>1, Invariance, PTL

(* "require() handles large values" (Memory.cpp:225), where nobody can pay *)
(* for a memory as large as c_inputMax: what an instruction accesses with  *)
(* truncated operands lies in the buffer.                                  *)
THEOREM AccessesCovered == ASSUME Affordable PROVE Spec => RangeCovered
<1>1. IInv /\ [Next]_vars => [StepCovered]_vars
  BY StepFacts
<1> QED
  BY <1>1, Invariance, PTL DEF Spec, RangeCovered, StepCovered

(* Compiled accesses are those of the EVM's memory, byte for byte and unit *)
(* for unit of gas, for all operands of 256 bits (Memory.cpp:25-94,        *)
(* 209-271; Ext.cpp:420-438, 543-571; JIT.cpp:203-205, 372-385).           *)
THEOREM MemoryRefinement == ASSUME Affordable PROVE Spec => ImplementsEvmMemory
<1>1. Init => Evm!Init
  BY InitRefines
<1>2. IInv /\ [Next]_vars => [Evm!Next]_Evm!vars
  <2>1. CASE UNCHANGED vars
    BY <2>1 DEF vars, Evm!vars
  <2> QED
    BY <2>1, StepFacts
<1> QED
  BY <1>1, <1>2, Invariance, PTL DEF Spec, ImplementsEvmMemory, Evm!Spec
=============================================================================
