------------------------------ MODULE EvmArith ------------------------------
(***************************************************************************)
(* What the arithmetic instructions of the EVM compute: integer arithmetic *)
(* modulo the size of a word, where division by zero yields zero and the   *)
(* signed instructions read words in two's complement.                     *)
(***************************************************************************)
EXTENDS Integers

CONSTANTS
    Bytes,          \* bytes in a word (32)
    ByteBits,       \* bits in a byte (8)
    None            \* no result yet

VARIABLES
    instr,          \* the instruction and its operands, top of stack first
    result

Bits == Bytes * ByteBits
Modulus == 2 ^ Bits
Word == 0..Modulus - 1

Wrapped(n) == n % Modulus
Signed(w) == IF 2 * w >= Modulus THEN w - Modulus ELSE w
Magnitude(n) == IF n < 0 THEN -n ELSE n

(* Division rounds to zero, and the remainder has the dividend's sign.     *)
Quotient(m, n) ==
    LET q == Magnitude(m) \div Magnitude(n)
    IN  IF (m < 0) # (n < 0) THEN -q ELSE q
Remainder(m, n) == m - n * Quotient(m, n)

(* The byte with a number from the most significant one.                   *)
ByteOf(w, k) ==
    IF k >= Bytes THEN 0
    ELSE (w \div (2 ^ (ByteBits * (Bytes - 1 - k)))) % (2 ^ ByteBits)

(* The lowest bytes up to number k, as a signed number.                    *)
Extended(w, k) ==
    IF k >= Bytes THEN w
    ELSE LET range == 2 ^ (ByteBits * (k + 1))
             low == w % range
         IN  Wrapped(IF 2 * low >= range THEN low - range ELSE low)

Meaning(i) ==
    CASE i.op \in {"DIV", "MOD", "SDIV", "SMOD"} /\ i.b = 0 -> 0
      [] i.op \in {"ADDMOD", "MULMOD"} /\ i.c = 0 -> 0
      [] i.op = "DIV" /\ i.b # 0 -> i.a \div i.b
      [] i.op = "MOD" /\ i.b # 0 -> i.a % i.b
      [] i.op = "SDIV" /\ i.b # 0 -> Wrapped(Quotient(Signed(i.a), Signed(i.b)))
      [] i.op = "SMOD" /\ i.b # 0 -> Wrapped(Remainder(Signed(i.a), Signed(i.b)))
      [] i.op = "ADDMOD" /\ i.c # 0 -> (i.a + i.b) % i.c
      [] i.op = "MULMOD" /\ i.c # 0 -> (i.a * i.b) % i.c
      [] i.op = "EXP" -> LET power[n \in 0..i.b] ==
                               IF n = 0 THEN 1 ELSE Wrapped(power[n - 1] * i.a)
                         IN  power[i.b]
      [] i.op = "BYTE" -> ByteOf(i.b, i.a)
      [] i.op = "SIGNEXTEND" -> Extended(i.b, i.a)

Init == result = None

Finish ==
    /\ result = None
    /\ result' = Meaning(instr)
    /\ UNCHANGED instr

Spec == Init /\ [][Finish]_<<instr, result>>
=============================================================================
