---------------------------- MODULE RVReference ----------------------------
(***************************************************************************)
(* What RVDecode, RVAlu and the layouts of the status registers are held   *)
(* against: the encodings and the arithmetic of the RISC-V manuals, for    *)
(* RV64IMAC with Zicsr.  The immediates are given the way the manuals      *)
(* print them, by the place of each bit; a compressed instruction by the   *)
(* 32-bit instruction it stands for.                                       *)
(***************************************************************************)
EXTENDS RVDecode, FiniteSetsExt

Bit(v, n) == (v \div 2^n) % 2

\* The value whose bit to[k] is the bit from[k] of v, for each k
Scatter(v, from, to) ==
    MapThenSumSet(LAMBDA k : Bit(v, from[k]) * 2^(to[k]), DOMAIN from)

RType(opcode, f3, f7, rd, rs1, rs2) ==
    [opcode |-> opcode, f3 |-> f3, f7 |-> f7, rd |-> rd, rs1 |-> rs1, rs2 |-> rs2]
IType(opcode, f3, rd, rs1, imm) ==
    RType(opcode, f3, (imm \div 32) % 128, rd, rs1, imm % 32)
SType(opcode, f3, rs1, rs2, imm) ==
    RType(opcode, f3, (imm \div 32) % 128, imm % 32, rs1, rs2)
BType(f3, rs1, rs2, imm) ==
    RType(Opcode.BRANCH, f3, Bit(imm, 12) * 64 + ((imm \div 32) % 64),
          ((imm \div 2) % 16) * 2 + Bit(imm, 11), rs1, rs2)
\* imm: the upper 20 bits
UType(opcode, rd, imm) ==
    RType(opcode, imm % 8, (imm \div 8192) % 128, rd, (imm \div 8) % 32, (imm \div 256) % 32)
JType(rd, imm) ==
    UType(Opcode.JAL, rd, Scatter(imm % 2^21, <<20, 10, 9, 8, 7, 6, 5, 4, 3, 2, 1, 11>>,
                                  <<19, 18, 17, 16, 15, 14, 13, 12, 11, 10, 9, 8>>)
                          + ((imm \div 4096) % 256))

-----------------------------------------------------------------------------
(* Compressed instructions *)

nzimm6(h) == SignExtend(Scatter(h, <<12, 6, 5, 4, 3, 2>>, <<5, 4, 3, 2, 1, 0>>), 6)
uimm6(h) == Scatter(h, <<12, 6, 5, 4, 3, 2>>, <<5, 4, 3, 2, 1, 0>>)
uimmW(h) == Scatter(h, <<12, 11, 10, 6, 5>>, <<5, 4, 3, 2, 6>>)
uimmD(h) == Scatter(h, <<12, 11, 10, 6, 5>>, <<5, 4, 3, 7, 6>>)
uimm4spn(h) == Scatter(h, <<12, 11, 10, 9, 8, 7, 6, 5>>, <<5, 4, 9, 8, 7, 6, 2, 3>>)
nzimm16sp(h) == SignExtend(Scatter(h, <<12, 6, 5, 4, 3, 2>>, <<9, 4, 6, 8, 7, 5>>), 10)
offsetJ(h) == SignExtend(Scatter(h, <<12, 11, 10, 9, 8, 7, 6, 5, 4, 3, 2>>,
                                 <<11, 4, 9, 8, 10, 6, 7, 3, 2, 1, 5>>), 12)
offsetB(h) == SignExtend(Scatter(h, <<12, 11, 10, 6, 5, 4, 3, 2>>,
                                 <<8, 4, 3, 7, 6, 2, 1, 5>>), 9)
uimmLWSP(h) == Scatter(h, <<12, 6, 5, 4, 3, 2>>, <<5, 4, 3, 2, 7, 6>>)
uimmLDSP(h) == Scatter(h, <<12, 6, 5, 4, 3, 2>>, <<5, 4, 3, 8, 7, 6>>)
uimmSWSP(h) == Scatter(h, <<12, 11, 10, 9, 8, 7>>, <<5, 4, 3, 2, 7, 6>>)
uimmSDSP(h) == Scatter(h, <<12, 11, 10, 9, 8, 7>>, <<5, 4, 3, 8, 7, 6>>)

Slice(h, lo, n) == (h \div 2^lo) % 2^n

\* Encodings that are reserved, or belong to the absent D extension
Tolerated(h) ==
    LET q == h % 4
        f3 == h \div 2^13
    IN \/ q = 1 /\ f3 = 1 /\ Slice(h, 7, 5) = 0                    \* c.addiw x0
       \/ q = 1 /\ f3 = 3 /\ uimm6(h) = 0                          \* c.lui, c.addi16sp 0
       \/ q = 2 /\ f3 \in {2, 3} /\ Slice(h, 7, 5) = 0             \* c.lwsp, c.ldsp x0
Reserved(h) ==
    LET q == h % 4
        f3 == h \div 2^13
    IN \/ Tolerated(h)
       \/ q = 0 /\ f3 = 0 /\ uimm4spn(h) = 0
       \/ q = 0 /\ f3 = 4
       \/ q \in {0, 2} /\ f3 \in {1, 5}
       \/ q = 1 /\ f3 = 4 /\ Slice(h, 10, 3) = 7 /\ Slice(h, 5, 2) > 1
       \/ q = 2 /\ f3 = 4 /\ Slice(h, 2, 11) = 0

\* The 32-bit instruction the manual expands a compressed one to
Expand(h) ==
    LET f3 == h \div 2^13
        rd == Slice(h, 7, 5)
        rs2 == Slice(h, 2, 5)
        rdc == 8 + Slice(h, 7, 3)
        rs2c == 8 + Slice(h, 2, 3)
        op3 == <<f3, Slice(h, 10, 2), Slice(h, 12, 1), Slice(h, 5, 2)>>
    IN CASE h % 4 = 0 /\ f3 = 0 -> IType(Opcode.OPIMM, 0, rs2c, 2, uimm4spn(h))
         [] h % 4 = 0 /\ f3 = 2 -> IType(Opcode.LOAD, 2, rs2c, rdc, uimmW(h))
         [] h % 4 = 0 /\ f3 = 3 -> IType(Opcode.LOAD, 3, rs2c, rdc, uimmD(h))
         [] h % 4 = 0 /\ f3 = 6 -> SType(Opcode.STORE, 2, rdc, rs2c, uimmW(h))
         [] h % 4 = 0 /\ f3 = 7 -> SType(Opcode.STORE, 3, rdc, rs2c, uimmD(h))
         [] h % 4 = 1 /\ f3 = 0 -> IType(Opcode.OPIMM, 0, rd, rd, nzimm6(h))
         [] h % 4 = 1 /\ f3 = 1 -> IType(Opcode.OPIMM32, 0, rd, rd, nzimm6(h))
         [] h % 4 = 1 /\ f3 = 2 -> IType(Opcode.OPIMM, 0, rd, 0, nzimm6(h))
         [] h % 4 = 1 /\ f3 = 3 /\ rd = 2 -> IType(Opcode.OPIMM, 0, 2, 2, nzimm16sp(h))
         [] h % 4 = 1 /\ f3 = 3 /\ rd # 2 -> UType(Opcode.LUI, rd, nzimm6(h))
         [] h % 4 = 1 /\ f3 = 4 /\ op3[2] = 0 -> IType(Opcode.OPIMM, 5, rdc, rdc, uimm6(h))
         [] h % 4 = 1 /\ f3 = 4 /\ op3[2] = 1 -> IType(Opcode.OPIMM, 5, rdc, rdc, 1024 + uimm6(h))
         [] h % 4 = 1 /\ f3 = 4 /\ op3[2] = 2 -> IType(Opcode.OPIMM, 7, rdc, rdc, nzimm6(h))
         [] h % 4 = 1 /\ op3 = <<4, 3, 0, 0>> -> RType(Opcode.OP, 0, 32, rdc, rdc, rs2c)
         [] h % 4 = 1 /\ op3 = <<4, 3, 0, 1>> -> RType(Opcode.OP, 4, 0, rdc, rdc, rs2c)
         [] h % 4 = 1 /\ op3 = <<4, 3, 0, 2>> -> RType(Opcode.OP, 6, 0, rdc, rdc, rs2c)
         [] h % 4 = 1 /\ op3 = <<4, 3, 0, 3>> -> RType(Opcode.OP, 7, 0, rdc, rdc, rs2c)
         [] h % 4 = 1 /\ op3 = <<4, 3, 1, 0>> -> RType(Opcode.OP32, 0, 32, rdc, rdc, rs2c)
         [] h % 4 = 1 /\ op3 = <<4, 3, 1, 1>> -> RType(Opcode.OP32, 0, 0, rdc, rdc, rs2c)
         [] h % 4 = 1 /\ f3 = 5 -> JType(0, offsetJ(h))
         [] h % 4 = 1 /\ f3 = 6 -> BType(0, rdc, 0, offsetB(h))
         [] h % 4 = 1 /\ f3 = 7 -> BType(1, rdc, 0, offsetB(h))
         [] h % 4 = 2 /\ f3 = 0 -> IType(Opcode.OPIMM, 1, rd, rd, uimm6(h))
         [] h % 4 = 2 /\ f3 = 2 -> IType(Opcode.LOAD, 2, rd, 2, uimmLWSP(h))
         [] h % 4 = 2 /\ f3 = 3 -> IType(Opcode.LOAD, 3, rd, 2, uimmLDSP(h))
         [] h % 4 = 2 /\ f3 = 6 -> SType(Opcode.STORE, 2, 2, rs2, uimmSWSP(h))
         [] h % 4 = 2 /\ f3 = 7 -> SType(Opcode.STORE, 3, 2, rs2, uimmSDSP(h))
         [] h % 4 = 2 /\ f3 = 4 /\ rs2 # 0 ->
               RType(Opcode.OP, 0, 0, rd, IF Bit(h, 12) = 1 THEN rd ELSE 0, rs2)
         [] h % 4 = 2 /\ f3 = 4 /\ rs2 = 0 /\ rd # 0 ->
               IType(Opcode.JALR, 0, Bit(h, 12), rd, 0)
         [] OTHER -> IType(Opcode.SYSTEM, 0, 0, 0, 1)                      \* c.ebreak

\* One form for the operations that have the same effect.
Canonical(op) ==
    CASE op.k = "aluimm" /\ op.imm = 0 /\ op.rd = op.rs1 /\ ~op.w32 /\ op.op # "AND" -> Nop
      [] op.k = "aluimm" /\ op.rs1 = 0 /\ op.op = "ADD" /\ ~op.w32 ->
            IF op.rd = 0 THEN Nop ELSE Li(op.rd, op.imm)
      [] op.k = "li" /\ op.rd = 0 -> Nop
      [] op.k = "jalr" -> [op EXCEPT !.even = TRUE]
      [] OTHER -> op

\* Every halfword that is a compressed instruction is executed as the 32-bit
\* instruction the manual expands it to, and one that is reserved is illegal,
\* but for five encodings the code runs (rv64_exec.cpp leaves a TODO at two).
CompressedExpands ==
    \A h \in 0 .. 2^16 - 1 :
        h % 4 # 3 /\ ~Tolerated(h) =>
            IF Reserved(h) THEN Decode16(h) = Illegal
            ELSE Canonical(Decode16(h)) = Canonical(Decode32(Expand(h)))

-----------------------------------------------------------------------------
(* 32-bit instructions *)

\* Bits 31 to 12 of the instruction, as bits 19 to 0
ImmBits(i) == i.f7 * 8192 + i.rs2 * 256 + i.rs1 * 8 + i.f3
\* f7 and rd side by side
SplitBits(i) == i.f7 * 32 + i.rd

immB(i) == SignExtend(Scatter(SplitBits(i), <<11, 10, 9, 8, 7, 6, 5, 4, 3, 2, 1, 0>>,
                              <<12, 10, 9, 8, 7, 6, 5, 4, 3, 2, 1, 11>>), 13)
immJ(i) == SignExtend(Scatter(ImmBits(i),
               <<19, 18, 17, 16, 15, 14, 13, 12, 11, 10, 9, 8, 7, 6, 5, 4, 3, 2, 1, 0>>,
               <<20, 10, 9, 8, 7, 6, 5, 4, 3, 2, 1, 11, 19, 18, 17, 16, 15, 14, 13, 12>>), 21)

Any3 == 0 .. 7
Any7 == 0 .. 127
Any5 == 0 .. 31
\* The opcode maps: <<opcode, funct3, funct7, rs2>>
Encodings ==
    {<<{Opcode.LUI, Opcode.AUIPC, Opcode.JAL}, Any3, Any7, Any5>>,
     <<{Opcode.JALR}, {0}, Any7, Any5>>,
     <<{Opcode.BRANCH}, Any3 \ {2, 3}, Any7, Any5>>,
     <<{Opcode.LOAD}, Any3 \ {7}, Any7, Any5>>,
     <<{Opcode.STORE}, 0 .. 3, Any7, Any5>>,
     <<{Opcode.OPIMM}, Any3 \ {1, 5}, Any7, Any5>>,
     <<{Opcode.OPIMM}, {1, 5}, {0, 1}, Any5>>, <<{Opcode.OPIMM}, {5}, {32, 33}, Any5>>,
     <<{Opcode.OPIMM32}, {0}, Any7, Any5>>,
     <<{Opcode.OPIMM32}, {1, 5}, {0}, Any5>>, <<{Opcode.OPIMM32}, {5}, {32}, Any5>>,
     <<{Opcode.OP}, Any3, {0, 1}, Any5>>, <<{Opcode.OP}, {0, 5}, {32}, Any5>>,
     <<{Opcode.OP32}, {0, 1, 5}, {0}, Any5>>, <<{Opcode.OP32}, {0, 5}, {32}, Any5>>,
     <<{Opcode.OP32}, Any3 \ {1, 2, 3}, {1}, Any5>>,
     <<{Opcode.FENCE}, {0, 1}, Any7, Any5>>,
     <<{Opcode.AMO}, {2, 3}, 8 .. 11, {0}>>,
     <<{Opcode.AMO}, {2, 3},
       {f7 \in Any7 : f7 \div 4 \in {0, 1, 3, 4, 8, 12, 16, 20, 24, 28}}, Any5>>,
     <<{Opcode.SYSTEM}, {1, 2, 3, 5, 6, 7}, Any7, Any5>>}

\* ecall, ebreak, sret, wfi, mret; sfence.vma
Privileged(i) == \/ i.rd = 0 /\ i.rs1 = 0
                    /\ <<i.f7, i.rs2>> \in {<<0, 0>>, <<0, 1>>, <<8, 2>>, <<8, 5>>, <<24, 2>>}
                 \/ i.rd = 0 /\ i.f7 = 9

Defined(i) == \/ \E e \in Encodings : /\ i.opcode \in e[1] /\ i.f3 \in e[2]
                                      /\ i.f7 \in e[3] /\ i.rs2 \in e[4]
              \/ i.opcode = Opcode.SYSTEM /\ i.f3 = 0 /\ Privileged(i)

\* The reserved encodings the code executes.
Lenient(i) ==
    \/ i.opcode \in {Opcode.JALR, Opcode.FENCE}
    \/ i.opcode = Opcode.OPIMM /\ i.f3 = 1 /\ i.f7 >= 64     \* slli: the sign is not tested
    \/ i.opcode = Opcode.SYSTEM /\ i.f3 = 0 /\ i.f7 = 8 /\ (i.rd # 0 \/ i.rs1 # 0)
    \/ i.opcode = Opcode.SYSTEM /\ i.f3 = 0 /\ i.f7 = 9 /\ i.rd # 0

\* bound: the registers that stand for all of them in the words examined
Words32 == [opcode : {4 * n + 3 : n \in 0 .. 31}, f3 : Any3, f7 : Any7,
            rd : {0, 1, 30}, rs1 : {0, 21}, rs2 : {0, 1, 2, 5, 18}]

\* A word is refused exactly when the manual reserves it, but for the four
\* families above; and the offsets of branches and jumps, whose bits lie in no
\* order, are put together right.
DecodeAgrees ==
    \A i \in Words32 :
        /\ Lenient(i) \/ (Decode32(i) # Illegal <=> Defined(i))
        /\ i.opcode = Opcode.JAL => Decode32(i).imm = immJ(i)
        /\ i.opcode = Opcode.BRANCH /\ Defined(i) => Decode32(i).imm = immB(i)

-----------------------------------------------------------------------------
(* Arithmetic, on registers of 8 bits and of half that *)

Wide == INSTANCE RVAlu WITH XLEN <- 8
Narrow == INSTANCE RVAlu WITH XLEN <- 4

BaseOps == {"ADD", "SUB", "SLL", "SRL", "SRA"}
MulOps == {"MUL", "DIV", "DIVU", "REM", "REMU"}

\* The high halves complete the low half of a product to the whole product.
ProductWhole(a, b) ==
    LET res(op) == Wide!alu_exec(a, b, op, FALSE)
        low == res("MUL")
    IN /\ Wide!Signed(res("MULH")) * Wide!Word + low = Wide!Signed(a) * Wide!Signed(b)
       /\ res("MULHU") * Wide!Word + low = a * b
       /\ Wide!Signed(res("MULHSU")) * Wide!Word + low = Wide!Signed(a) * b

\* Division: the quotient and the remainder determine the dividend, the
\* remainder is smaller than the divisor and has the sign of the dividend; no
\* operands fault, and the two exceptional pairs give what the manual says.
DivisionExact(a, b) ==
    LET res(op) == Wide!alu_exec(a, b, op, FALSE)
        q == Wide!Signed(res("DIV"))
        r == Wide!Signed(res("REM"))
        sa == Wide!Signed(a)
        sb == Wide!Signed(b)
    IN /\ b = 0 => /\ q = -1 /\ r = sa
                   /\ res("DIVU") = Wide!Word - 1 /\ res("REMU") = a
       /\ sa = -128 /\ sb = -1 => q = -128 /\ r = 0
       /\ b # 0 /\ ~(sa = -128 /\ sb = -1) =>
             /\ q * sb + r = sa
             /\ Wide!Abs(r) < Wide!Abs(sb)
             /\ r = 0 \/ (r < 0) = (sa < 0)
       /\ b # 0 => /\ res("DIVU") * b + res("REMU") = a
                   /\ res("REMU") < b

\* A W form is the operation of a machine of half the width on the lower
\* halves, its result sign-extended.
HalfWidth(a, b) ==
    \A op \in BaseOps \cup MulOps :
        Wide!alu_exec(a, b, op, TRUE)
            = Narrow!Signed(Narrow!alu_exec(a % 16, b % 16, op, FALSE)) % Wide!Word

\* An AMO on a word stores what the operation of half the width gives for the
\* lower half of the source.  The code compares the whole source: a minimum or
\* maximum is right only if the source is the extension of its lower half (for
\* the unsigned ones too).
AmoOnWord(src, old) ==
    \A op \in {"SWAP", "ADD", "AND", "OR", "XOR", "MIN", "MAX", "MINU", "MAXU"} :
        \/ op \in {"MIN", "MAX", "MINU", "MAXU"} /\ src # Narrow!Signed(src % 16) % Wide!Word
        \/ Wide!AmoResult(op, src, Narrow!Signed(old) % Wide!Word) % 16
              = Narrow!AmoResult(op, src % 16, old)

\* alu_exec and pa_amo_op compute what the manual defines.
AluLaws ==
    \A a, b \in Wide!Values :
        /\ ProductWhole(a, b) /\ DivisionExact(a, b) /\ HalfWidth(a, b)
        /\ b < 16 => AmoOnWord(a, b)

=============================================================================
