------------------------------ MODULE Arith256 ------------------------------
(***************************************************************************)
(* The arithmetic of compiled code that LLVM has no instructions for       *)
(* (src/libevmjit/Arith256.cpp) as the compiler uses it                    *)
(* (src/libevmjit/Compiler.cpp, src/libevmjit/Optimizer.cpp).              *)
(*                                                                         *)
(* The compiler guards the operands, emits a division of words or of       *)
(* double words, and guards its result.  A pass replaces the division by a *)
(* call of a helper, which reduces signed to unsigned division and divides *)
(* by shifting.  EXP calls a helper too, or is computed by the compiler    *)
(* when its operands are constants.  One behaviour is the life of one      *)
(* instruction.                                                            *)
(***************************************************************************)
EXTENDS Integers

CONSTANTS
    Bytes,          \* bytes in a word (32), a power of two
    ByteBits,       \* bits in a byte (8)
    CtlzOfZero,     \* what counting the leading zeros of zero may yield
    None            \* no result yet

ASSUME ArithAssumption ==
    /\ Bytes \in Nat \ {0}
    /\ ByteBits \in Nat \ {0}
    /\ CtlzOfZero \subseteq Nat

VARIABLES
    instr,          \* the instruction and its operands, top of stack first
    pc,             \* where its code is
    div,            \* the registers of evm.udivrem
    power,          \* the registers of exp
    result

vars == <<instr, pc, div, power, result>>

Bits == Bytes * ByteBits
Size(bits) == 2 ^ bits
Word == 0..Size(Bits) - 1
DoubleWord == 0..Size(2 * Bits) - 1

Divisions == {"DIV", "MOD", "SDIV", "SMOD"}
WideDivisions == {"ADDMOD", "MULMOD"}
Instructions ==
    [op : Divisions \cup {"EXP", "BYTE", "SIGNEXTEND"},
     a : Word, b : Word, c : {0}]
        \cup [op : WideDivisions, a : Word, b : Word, c : Word]

(* x by y at a width in bits; d, r, i, q are the values of the loop.       *)
NoDiv == [bits |-> Bits, x |-> 0, y |-> 0, d |-> 0, r |-> 0, i |-> 0, q |-> 0]
NoPower == [r |-> 1, b |-> 0, e |-> 0]

TypeOK ==
    /\ instr \in Instructions
    /\ pc \in {"start", "entry", "loop", "return", "exp", "fold", "done"}
    /\ div \in [bits : {Bits, 2 * Bits}, x : DoubleWord, y : DoubleWord,
                d : DoubleWord, r : DoubleWord, i : DoubleWord,
                q : DoubleWord]
    /\ \A reg \in {"x", "y", "d", "r", "i", "q"} : div[reg] < Size(div.bits)
    /\ power \in [r : Word, b : Word, e : Word]
    /\ result \in Word \cup {None}

Init ==
    /\ instr \in Instructions
    /\ pc = "start"
    /\ div = NoDiv
    /\ power = NoPower
    /\ result = None

Done(value) == pc' = "done" /\ result' = value

-----------------------------------------------------------------------------
(* Operations of LLVM on numbers of a width.                               *)
Low(n, bits) == n % Size(bits)
Shl(n, k, bits) == IF k >= bits THEN 0 ELSE Low(n * 2 ^ k, bits)
Neg(w) == Low(-w, Bits)
MinusOne == Neg(1)
IsNeg(w) == 2 * w >= Size(Bits)
Abs(w) == IF IsNeg(w) THEN Neg(w) ELSE w

(* The count of leading zeros is asked for with is_zero_undef.             *)
Ctlz(n, bits) ==
    IF n = 0 THEN CtlzOfZero
    ELSE {k \in 0..bits - 1 : n \in 2 ^ (bits - k - 1)..2 ^ (bits - k) - 1}

-----------------------------------------------------------------------------
(* What compileBasicBlock() emits for a division: the opcode of LLVM, its  *)
(* width and its operands.  A divisor of a word is never zero, "protect    *)
(* against hardware signal"; the modulus of a double word may be.          *)
Emission(opcode, bits, x, y) ==
    [opcode |-> opcode, bits |-> bits, x |-> x, y |-> y]

EmittedNarrow(i) ==                                             \* mutant
    LET n == IF i.b = 0 THEN 1 ELSE i.b
    IN  CASE i.op = "DIV"    -> Emission("UDiv", Bits, i.a, n)
          [] i.op = "MOD"    -> Emission("URem", Bits, i.a, n)
          [] i.op = "SDIV"   -> Emission("SDiv", Bits, i.a, n)
          [] i.op = "SMOD"   -> Emission("SRem", Bits, i.a, n)
          [] i.op = "ADDMOD" -> Emission("URem", Bits, i.a + i.b, i.c)
          [] i.op = "MULMOD" -> Emission("URem", 2 * Bits, i.a * i.b, i.c)

Emitted(i) ==
    LET n == IF i.b = 0 THEN 1 ELSE i.b
    IN  CASE i.op = "DIV"    -> Emission("UDiv", Bits, i.a, n)
          [] i.op = "MOD"    -> Emission("URem", Bits, i.a, n)
          [] i.op = "SDIV"   -> Emission("SDiv", Bits, i.a, n)
          [] i.op = "SMOD"   -> Emission("SRem", Bits, i.a, n)
          [] i.op = "ADDMOD" -> Emission("URem", 2 * Bits, i.a + i.b, i.c)
          [] i.op = "MULMOD" -> Emission("URem", 2 * Bits, i.a * i.b, i.c)

(* LowerEVMPass: which helper stands for a division: whether it goes       *)
(* through evm.sdivrem, and the element it extracts.                       *)
Helper ==
    [UDiv |-> [signed |-> FALSE, part |-> "q"],
     URem |-> [signed |-> FALSE, part |-> "r"],
     SDiv |-> [signed |-> TRUE,  part |-> "q"],
     SRem |-> [signed |-> TRUE,  part |-> "r"]]

(* The operands that reach evm.udivrem, through evm.sdivrem or not.        *)
CallDivRem ==
    LET e == Emitted(instr)
        signed == Helper[e.opcode].signed
    IN  /\ pc = "start"
        /\ instr.op \in Divisions \cup WideDivisions
        /\ div' = [NoDiv EXCEPT !.bits = e.bits,
                               !.x = IF signed THEN Abs(e.x) ELSE e.x,
                               !.y = IF signed THEN Abs(e.y) ELSE e.y]
        /\ pc' = "entry"
        /\ UNCHANGED <<instr, power, result>>

(* A divisor that is greater: the quotient is zero.                        *)
EntrySmall ==
    /\ pc = "entry"
    /\ div.y > div.x
    /\ div' = [div EXCEPT !.r = div.x]
    /\ pc' = "return"
    /\ UNCHANGED <<instr, power, result>>

(* The divisor is shifted up to the magnitude of the dividend.  A divisor  *)
(* of zero, which only ADDMOD and MULMOD let through, has an undefined     *)
(* count, and to LLVM a difference that wraps is poison: here the count is *)
(* one of CtlzOfZero, the difference wraps as the machine's subtraction    *)
(* does, and the loop branches on what it gives.                           *)
EntryMain ==
    /\ pc = "entry"
    /\ div.y <= div.x
    /\ \E yLz \in Ctlz(div.y, div.bits), rLz \in Ctlz(div.x, div.bits) :
         LET i0 == Low(yLz - rLz, div.bits)
         IN  div' = [div EXCEPT !.d = Shl(div.y, i0, div.bits),
                                !.r = div.x, !.i = i0, !.q = 0]
    /\ pc' = "loop"
    /\ UNCHANGED <<instr, power, result>>

SubtractedStrictly(reg) ==                                      \* mutant
    IF reg.r > reg.d THEN [reg EXCEPT !.r = @ - reg.d, !.q = @ + 1]
    ELSE reg

(* A bit of the quotient.  The lowest bit of q is zero before.             *)
Subtracted(reg) ==
    IF reg.r >= reg.d THEN [reg EXCEPT !.r = @ - reg.d, !.q = @ + 1]
    ELSE reg

LoopContinueStuck ==                                            \* mutant
    /\ pc = "loop"
    /\ div.i # 0
    /\ div' = [Subtracted(div) EXCEPT !.q = Shl(@, 1, div.bits),
                                     !.d = @ \div 2]
    /\ UNCHANGED <<instr, pc, power, result>>

LoopContinue ==
    /\ pc = "loop"
    /\ div.i # 0
    /\ div' = [Subtracted(div) EXCEPT !.i = @ - 1,
                                     !.q = Shl(@, 1, div.bits),
                                     !.d = @ \div 2]
    /\ UNCHANGED <<instr, pc, power, result>>

LoopExit ==
    /\ pc = "loop"
    /\ div.i = 0
    /\ div' = Subtracted(div)
    /\ pc' = "return"
    /\ UNCHANGED <<instr, power, result>>

SignsOfQuotient(e) ==                                           \* mutant
    LET opposite == IsNeg(e.x) # IsNeg(e.y)
    IN  IF Helper[e.opcode].signed /\ opposite
        THEN [q |-> Neg(div.q), r |-> Neg(div.r)]
        ELSE [q |-> div.q, r |-> div.r]

(* evm.sdivrem: "the remainder has the same sign as dividend".             *)
SignsApplied(e) ==
    IF Helper[e.opcode].signed
    THEN [q |-> IF IsNeg(e.x) # IsNeg(e.y) THEN Neg(div.q) ELSE div.q,
          r |-> IF IsNeg(e.x) THEN Neg(div.r) ELSE div.r]
    ELSE [q |-> div.q, r |-> div.r]

(* The selects behind the division, the outermost first.                   *)
Selected(i, value) ==
    CASE i.op = "SDIV" /\ i.b = MinusOne -> Neg(i.a)
      [] i.op = "SMOD" /\ i.b = MinusOne -> 0
      [] i.op \in Divisions /\ i.b = 0 -> 0
      [] i.op \in WideDivisions /\ i.c = 0 -> 0
      [] OTHER -> Low(value, Bits)

Return ==
    LET e == Emitted(instr)
    IN  /\ pc = "return"
        /\ Done(Selected(instr, SignsApplied(e)[Helper[e.opcode].part]))
        /\ UNCHANGED <<instr, div, power>>

-----------------------------------------------------------------------------
(* EXP.                                                                    *)
ExpCalled(at) ==
    /\ pc = "start"
    /\ instr.op = "EXP"
    /\ power' = [r |-> 1, b |-> instr.a, e |-> instr.b]
    /\ pc' = at
    /\ UNCHANGED <<instr, div, result>>

(* exp(): the operands are constants of the compiler, or they are not.     *)
CallExp == ExpCalled("exp") \/ ExpCalled("fold")

(* A round of the helper: the registers of the next round are functions of *)
(* those of the last one.                                                  *)
Multiplied(p) ==
    [r |-> IF p.e % 2 = 1 THEN Low(p.r * p.b, Bits) ELSE p.r,
     b |-> Low(p.b * p.b, Bits),
     e |-> p.e \div 2]

ExpLoop ==
    /\ pc = "exp"
    /\ power.e # 0
    /\ power' = Multiplied(power)
    /\ UNCHANGED <<instr, pc, div, result>>

ExpReturn ==
    /\ pc = "exp"
    /\ power.e = 0
    /\ Done(power.r)
    /\ UNCHANGED <<instr, div, power>>

(* A round of the loop that the compiler runs itself: one assignment after *)
(* another.                                                                *)
Raised(p) == IF p.e % 2 = 1 THEN [p EXCEPT !.r = Low(@ * p.b, Bits)] ELSE p
Squared(p) == [p EXCEPT !.b = Low(@ * @, Bits)]
Halved(p) == [p EXCEPT !.e = @ \div 2]

FoldedLate(p) == Halved(Raised(Squared(p)))                     \* mutant
Folded(p) == Halved(Squared(Raised(p)))

FoldLoop ==
    /\ pc = "fold"
    /\ power.e # 0
    /\ power' = Folded(power)
    /\ UNCHANGED <<instr, pc, div, result>>

FoldReturn ==
    /\ pc = "fold"
    /\ power.e = 0
    /\ Done(power.r)
    /\ UNCHANGED <<instr, div, power>>

-----------------------------------------------------------------------------
(* Instructions that are translated to a few operations of LLVM.           *)

(* BYTE: the bytes of the word in big-endian order are a vector, whose     *)
(* index is truncated to 5 bits.                                           *)
DoByte ==
    LET byte(k) == (instr.b \div (2 ^ (ByteBits * (Bytes - 1 - k))))
                       % (2 ^ ByteBits)
    IN  /\ pc = "start"
        /\ instr.op = "BYTE"
        /\ Done(IF instr.a < Bytes THEN byte(instr.a % Bytes) ELSE 0)
        /\ UNCHANGED <<instr, div, power>>

(* SIGNEXTEND: bits above the position are set or cleared with a mask.     *)
DoSignExtend ==
    LET bitpos == ByteBits * (instr.a % Bytes) + ByteBits - 1
        low == Low(instr.b, bitpos)
        negmask == Size(Bits) - Size(bitpos)
        bittest == (instr.b \div Size(bitpos)) % 2 = 1
    IN  /\ pc = "start"
        /\ instr.op = "SIGNEXTEND"
        /\ Done(IF instr.a > Bytes - 2 THEN instr.b
                ELSE IF bittest THEN low + negmask ELSE low)
        /\ UNCHANGED <<instr, div, power>>

Next ==
    \/ CallDivRem
    \/ EntrySmall
    \/ EntryMain
    \/ LoopContinue
    \/ LoopExit
    \/ Return
    \/ CallExp
    \/ ExpLoop
    \/ ExpReturn
    \/ FoldLoop
    \/ FoldReturn
    \/ DoByte
    \/ DoSignExtend

(* The code runs on: nothing in it waits.                                  *)
Spec == Init /\ [][Next]_vars /\ WF_vars(Next)

-----------------------------------------------------------------------------
(* The properties.                                                         *)

(* The loop of evm.udivrem keeps x = q * d + r with a rest below two       *)
(* divisors, and the divisor is y shifted without a loss, so that the last *)
(* step leaves quotient and remainder (Arith256.cpp:68-96).                *)
DivisionKeeps ==
    pc = "loop" /\ div.y # 0 =>
        /\ div.x = div.q * div.d + div.r
        /\ div.r < 2 * div.d
        /\ div.d = div.y * 2 ^ div.i

(* b to the power of n, modulo the size of a word.                         *)
PowerOf(b, n) ==
    LET p[k \in 0..n] == IF k = 0 THEN 1 ELSE Low(p[k - 1] * b, Bits)
    IN  p[n]

(* Both loops of EXP, the helper's and the compiler's own, keep r * b^e:   *)
(* they compute the same power in the same rounds, the one in registers    *)
(* that change at once, the other in variables that change in turn         *)
(* (Arith256.cpp:350-371, 392-401).                                        *)
PowerKeeps ==
    pc \in {"exp", "fold"} =>
        Low(power.r * PowerOf(power.b, power.e), Bits)
            = PowerOf(instr.a, instr.b)

(* Every instruction ends: no counter steps over the zero it waits for.    *)
(* Nothing is said of how many rounds it takes: for a modulus of zero they *)
(* are as many as the undefined count makes them (Arith256.cpp:71-88).     *)
EveryInstructionEnds == <>(pc = "done")

Arith == INSTANCE EvmArith

(* Every result is the one of integer arithmetic modulo 2^256, for the     *)
(* least number, zero divisors and indices beyond the word as well         *)
(* (Compiler.cpp:272-511).                                                 *)
ImplementsEvmArith == Arith!Spec
=============================================================================
