-------------------------------- MODULE RVAlu --------------------------------
(***************************************************************************)
(* Arithmetic of the core: alu_exec (rv64_alu.cpp) and the operation of an *)
(* AMO (rv64_amo.cpp), on registers of XLEN bits.  A register value is a   *)
(* natural number below 2^XLEN; the code's 64, 32 and 8 bits are XLEN,     *)
(* Half and Byte here.                                                     *)
(***************************************************************************)
EXTENDS Integers

CONSTANT XLEN

ASSUME XLENAssumption == XLEN \in {4, 8, 16, 32, 64}
\* Arithmetic, for the proofs: to the provers ^ is any operator.
ASSUME PowersAssumption == 2^0 = 1 /\ \A n \in 0 .. XLEN : 2^(n + 1) = 2 * 2^n

Word == 2^XLEN
Half == XLEN \div 2
Byte == XLEN \div 8
Values == 0 .. Word - 1

\* int64_t; and what is left of a number in a register
Signed(v) == IF v >= 2^(XLEN - 1) THEN v - Word ELSE v
Wrap(n) == n % Word
\* the cast to a type of that many bits, and back
Cut(v, bits) == v % 2^bits
\* (mutant of CutSigned: the result of a W form is zero-extended)
CutUnsigned(v, bits) == Wrap(Cut(v, bits))
CutSigned(v, bits) == Wrap(IF Cut(v, bits) >= 2^(bits - 1) THEN Cut(v, bits) - 2^bits
                           ELSE Cut(v, bits))

BitsOf(v) == {n \in 0 .. XLEN - 1 : (v \div 2^n) % 2 = 1}
ValueOf(bits) ==
    LET below[n \in 0 .. XLEN] ==
            IF n = 0 THEN 0 ELSE below[n - 1] + (IF n - 1 \in bits THEN 2^(n - 1) ELSE 0)
    IN below[XLEN]

\* C rounds towards zero, \div towards minus infinity.
Abs(n) == IF n < 0 THEN -n ELSE n
Quotient(a, b) == IF (a < 0) = (b < 0) THEN Abs(a) \div Abs(b) ELSE -(Abs(a) \div Abs(b))
Remainder(a, b) == a - b * Quotient(a, b)

\* The result for operands a and b, of which the W form (w32) has extended the
\* lower halves already.
Operate(a, b, op, w32) ==
    LET sa == Signed(a)
        sb == Signed(b)
        shift == b % (IF w32 THEN Half ELSE XLEN)
        ua == IF w32 THEN a % 2^Half ELSE a
        ub == IF w32 THEN b % 2^Half ELSE b
        overflow == sa = -(2^(XLEN - 1)) /\ sb = -1
    IN CASE op = "ADD" -> sa + sb
         [] op = "SUB" -> sa - sb
         [] op = "SLL" -> sa * 2^shift
         [] op = "SLT" -> IF sa < sb THEN 1 ELSE 0
         [] op = "SLTU" -> IF a < b THEN 1 ELSE 0
         [] op = "XOR" -> ValueOf((BitsOf(a) \ BitsOf(b)) \cup (BitsOf(b) \ BitsOf(a)))
         [] op = "SRL" -> ua \div 2^shift
         [] op = "SRA" -> sa \div 2^shift
         [] op = "OR" -> ValueOf(BitsOf(a) \cup BitsOf(b))
         [] op = "AND" -> ValueOf(BitsOf(a) \cap BitsOf(b))
         [] op = "MUL" -> sa * sb
         [] op = "MULH" -> (sa * sb) \div Word
         [] op = "MULHU" -> (a * b) \div Word
         [] op = "MULHSU" -> (sa * b) \div Word
         [] op = "DIV" -> IF b = 0 THEN -1 ELSE IF overflow THEN sa ELSE Quotient(sa, sb)
         [] op = "DIVU" -> IF b = 0 THEN -1 ELSE ua \div ub
         [] op = "REM" -> IF b = 0 THEN sa ELSE IF overflow THEN 0 ELSE Remainder(sa, sb)
         [] op = "REMU" -> IF b = 0 THEN sa ELSE ua % ub

alu_exec(a, b, op, w32) ==
    IF w32 THEN CutSigned(Wrap(Operate(CutSigned(a, Half), CutSigned(b, Half), op, TRUE)), Half)
    ELSE Wrap(Operate(a, b, op, FALSE))

Comparison(cond, a, b) == CASE cond = "EQ" -> a = b
                            [] cond = "NE" -> a # b
                            [] cond = "LT" -> Signed(a) < Signed(b)
                            [] cond = "GE" -> Signed(a) >= Signed(b)
                            [] cond = "LTU" -> a < b
                            [] cond = "GEU" -> a >= b

-----------------------------------------------------------------------------
(* pa_amo_op: res is what memory held, extended; to_write is truncated by    *)
(* the store.  The source is not cut to the size of the access.              *)

AmoResult(op, src, res) ==
    CASE op = "SWAP" -> src
      [] op = "ADD" -> Wrap(src + res)
      [] op = "AND" -> ValueOf(BitsOf(src) \cap BitsOf(res))
      [] op = "OR" -> ValueOf(BitsOf(src) \cup BitsOf(res))
      [] op = "XOR" -> ValueOf((BitsOf(src) \ BitsOf(res)) \cup (BitsOf(res) \ BitsOf(src)))
      [] op = "MAX" -> IF Signed(src) < Signed(res) THEN res ELSE src
      [] op = "MIN" -> IF Signed(res) < Signed(src) THEN res ELSE src
      [] op = "MAXU" -> IF src < res THEN res ELSE src
      [] op = "MINU" -> IF res < src THEN res ELSE src

=============================================================================
