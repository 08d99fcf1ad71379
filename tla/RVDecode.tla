------------------------------ MODULE RVDecode ------------------------------
(***************************************************************************)
(* The two switch statements of RV64Core::step() (rv64_exec.cpp), as what  *)
(* they select: the operation an instruction word stands for, or Illegal.  *)
(* A 32-bit instruction is its fields [opcode, rd, f3, rs1, rs2, f7]; the  *)
(* immediates of all formats are put together from them.  A compressed     *)
(* instruction is its halfword.  What an operation does is in Hart.        *)
(* The encodings the manuals give are in RVReference.                      *)
(***************************************************************************)
EXTENDS Integers, Sequences

SignExtend(v, bits) == IF v >= 2^(bits - 1) THEN v - 2^bits ELSE v

-----------------------------------------------------------------------------
(* Operations *)

Illegal == [k |-> "illegal"]
Nop == [k |-> "nop"]
Sys(k) == [k |-> k]                         \* ecall, ebreak, sret, mret
Li(rd, imm) == [k |-> "li", rd |-> rd, imm |-> imm]
Auipc(rd, imm) == [k |-> "auipc", rd |-> rd, imm |-> imm]
Alu(op, w32, rd, rs1, rs2) ==
    [k |-> "alu", op |-> op, w32 |-> w32, rd |-> rd, rs1 |-> rs1, rs2 |-> rs2]
AluImm(op, w32, rd, rs1, imm) ==
    [k |-> "aluimm", op |-> op, w32 |-> w32, rd |-> rd, rs1 |-> rs1, imm |-> imm]
Jal(rd, imm) == [k |-> "jal", rd |-> rd, imm |-> imm]
\* even: bit 0 of the target is cleared
Jalr(rd, rs1, imm, even) ==
    [k |-> "jalr", rd |-> rd, rs1 |-> rs1, imm |-> imm, even |-> even]
Branch(cond, rs1, rs2, imm) ==
    [k |-> "branch", cond |-> cond, rs1 |-> rs1, rs2 |-> rs2, imm |-> imm]
Load(size, signed, rd, rs1, imm) ==
    [k |-> "load", size |-> size, signed |-> signed, rd |-> rd, rs1 |-> rs1, imm |-> imm]
Store(size, rs1, rs2, imm) ==
    [k |-> "store", size |-> size, rs1 |-> rs1, rs2 |-> rs2, imm |-> imm]
Atomic(f, size, rd, rs1, rs2) ==
    [k |-> "atomic", f |-> f, size |-> size, rd |-> rd, rs1 |-> rs1, rs2 |-> rs2]
\* f: rw, rs, rc; src: the number of a register, or with imm the operand itself
Csr(f, imm, csr, rd, src) ==
    [k |-> "csr", f |-> f, imm |-> imm, csr |-> csr, rd |-> rd, src |-> src]
Fence(rs1, rs2) == [k |-> "sfence", rs1 |-> rs1, rs2 |-> rs2]

-----------------------------------------------------------------------------
(* 32-bit instructions *)

Opcode == [LUI |-> 55, AUIPC |-> 23, JAL |-> 111, JALR |-> 103, BRANCH |-> 99,
           LOAD |-> 3, STORE |-> 35, OPIMM |-> 19, OPIMM32 |-> 27, OP |-> 51,
           OP32 |-> 59, FENCE |-> 15, SYSTEM |-> 115, AMO |-> 47]

Imm12(i) == i.f7 * 32 + i.rs2                                 \* not extended
ImmI(i) == SignExtend(Imm12(i), 12)
ImmS(i) == SignExtend(i.f7, 7) * 32 + i.rd
ImmB(i) == (IF i.f7 >= 64 THEN -(2^12) ELSE 0) + (i.rd % 2) * 2048
           + (i.f7 % 64) * 32 + (i.rd \div 2) * 2
Upper(i) == i.f7 * 8192 + i.rs2 * 256 + i.rs1 * 8 + i.f3      \* imm_31_12
ImmU(i) == SignExtend(Upper(i), 20) * 4096
\* (mutant of ImmJ: imm_11 and imm_10_1 change places)
ImmJSwapped(i) == LET u == Upper(i) IN
    (IF u >= 2^19 THEN -(2^20) ELSE 0) + (u % 256) * 4096 + ((u \div 2^18) % 2) * 2048
    + ((u \div 256) % 1024) * 2
ImmJ(i) == LET u == Upper(i) IN
    (IF u >= 2^19 THEN -(2^20) ELSE 0) + (u % 256) * 4096 + ((u \div 256) % 2) * 2048
    + ((u \div 512) % 1024) * 2

AluOf == <<"ADD", "SLL", "SLT", "SLTU", "XOR", "SRL", "OR", "AND">>      \* by funct3
MulOf == <<"MUL", "MULH", "MULHSU", "MULHU", "DIV", "DIVU", "REM", "REMU">>
CondOf == <<"EQ", "NE", "none", "none", "LT", "GE", "LTU", "GEU">>
AmoOf(funct5) == CASE funct5 = 1 -> "SWAP" [] funct5 = 0 -> "ADD" [] funct5 = 4 -> "XOR"
                   [] funct5 = 12 -> "AND" [] funct5 = 8 -> "OR" [] funct5 = 16 -> "MIN"
                   [] funct5 = 20 -> "MAX" [] funct5 = 24 -> "MINU" [] funct5 = 28 -> "MAXU"
                   [] OTHER -> "none"

DecodeBranch(i) == IF CondOf[i.f3 + 1] = "none" THEN Illegal
                   ELSE Branch(CondOf[i.f3 + 1], i.rs1, i.rs2, ImmB(i))

DecodeLoad(i) == IF i.f3 = 7 THEN Illegal
                 ELSE Load(2^(i.f3 % 4), i.f3 < 4, i.rd, i.rs1, ImmI(i))

DecodeStore(i) == IF i.f3 > 3 THEN Illegal ELSE Store(2^i.f3, i.rs1, i.rs2, ImmS(i))

\* The test imm >= 64 of slli lets the negative immediates pass.
DecodeOpImm(i) ==
    CASE i.f3 = 1 /\ ImmI(i) >= 64 -> Illegal
      [] i.f3 = 5 /\ i.f7 \div 2 \notin {0, 16} -> Illegal
      [] i.f3 = 5 /\ i.f7 \div 2 \in {0, 16} ->
            AluImm(IF i.f7 \div 2 = 16 THEN "SRA" ELSE "SRL", FALSE, i.rd, i.rs1, ImmI(i) % 64)
      [] OTHER -> AluImm(AluOf[i.f3 + 1], FALSE, i.rd, i.rs1, ImmI(i))

DecodeOpImm32(i) ==
    CASE i.f3 = 0 -> AluImm("ADD", TRUE, i.rd, i.rs1, ImmI(i))
      [] i.f3 = 1 /\ i.f7 = 0 -> AluImm("SLL", TRUE, i.rd, i.rs1, ImmI(i))
      [] i.f3 = 5 /\ i.f7 \in {0, 32} ->
            AluImm(IF i.f7 = 32 THEN "SRA" ELSE "SRL", TRUE, i.rd, i.rs1, ImmI(i) % 64)
      [] OTHER -> Illegal

DecodeOp(i) ==
    CASE i.f7 = 0 -> Alu(AluOf[i.f3 + 1], FALSE, i.rd, i.rs1, i.rs2)
      [] i.f7 = 32 /\ i.f3 = 0 -> Alu("SUB", FALSE, i.rd, i.rs1, i.rs2)
      [] i.f7 = 32 /\ i.f3 = 5 -> Alu("SRA", FALSE, i.rd, i.rs1, i.rs2)
      [] i.f7 = 1 -> Alu(MulOf[i.f3 + 1], FALSE, i.rd, i.rs1, i.rs2)
      [] OTHER -> Illegal

DecodeOp32(i) ==
    CASE i.f7 = 0 /\ i.f3 \in {0, 1, 5} -> Alu(AluOf[i.f3 + 1], TRUE, i.rd, i.rs1, i.rs2)
      [] i.f7 = 32 /\ i.f3 = 0 -> Alu("SUB", TRUE, i.rd, i.rs1, i.rs2)
      [] i.f7 = 32 /\ i.f3 = 5 -> Alu("SRA", TRUE, i.rd, i.rs1, i.rs2)
      [] i.f7 = 1 /\ i.f3 \in {0, 4, 5, 6, 7} -> Alu(MulOf[i.f3 + 1], TRUE, i.rd, i.rs1, i.rs2)
      [] OTHER -> Illegal

\* funct5 is funct7 without aq and rl.
DecodeAmo(i) ==
    LET funct5 == i.f7 \div 4
        size == 2^i.f3
    IN CASE i.f3 \notin {2, 3} -> Illegal
         [] i.f3 \in {2, 3} /\ funct5 = 2 /\ i.rs2 = 0 -> Atomic("LR", size, i.rd, i.rs1, 0)
         [] i.f3 \in {2, 3} /\ funct5 = 3 -> Atomic("SC", size, i.rd, i.rs1, i.rs2)
         [] i.f3 \in {2, 3} /\ AmoOf(funct5) # "none" ->
               Atomic(AmoOf(funct5), size, i.rd, i.rs1, i.rs2)
         [] OTHER -> Illegal

\* With rd or rs1 set, the words next to sret and wfi do nothing at all.
DecodePriv(i) ==
    LET plain == i.rs1 = 0 /\ i.rd = 0
    IN CASE i.f7 = 0 /\ plain /\ i.rs2 = 0 -> Sys("ecall")
         [] i.f7 = 0 /\ plain /\ i.rs2 = 1 -> Sys("ebreak")
         [] i.f7 = 8 /\ plain /\ i.rs2 = 2 -> Sys("sret")
         [] i.f7 = 8 /\ plain /\ i.rs2 = 5 -> Nop                        \* wfi
         [] i.f7 = 8 /\ ~plain -> Nop
         [] i.f7 = 24 /\ plain /\ i.rs2 = 2 -> Sys("mret")
         [] i.f7 = 9 -> Fence(i.rs1, i.rs2)
         [] OTHER -> Illegal

DecodeSystem(i) ==
    CASE i.f3 = 0 -> DecodePriv(i)
      [] i.f3 = 4 -> Illegal
      [] i.f3 % 4 # 0 -> Csr((<<"rw", "rs", "rc">>)[i.f3 % 4], i.f3 > 4, Imm12(i), i.rd, i.rs1)

Decode32(i) ==
    CASE i.opcode = Opcode.LUI -> Li(i.rd, ImmU(i))
      [] i.opcode = Opcode.AUIPC -> Auipc(i.rd, ImmU(i))
      [] i.opcode = Opcode.JAL -> Jal(i.rd, ImmJ(i))
      [] i.opcode = Opcode.JALR -> Jalr(i.rd, i.rs1, (ImmI(i) \div 2) * 2, FALSE)
      [] i.opcode = Opcode.BRANCH -> DecodeBranch(i)
      [] i.opcode = Opcode.LOAD -> DecodeLoad(i)
      [] i.opcode = Opcode.STORE -> DecodeStore(i)
      [] i.opcode = Opcode.OPIMM -> DecodeOpImm(i)
      [] i.opcode = Opcode.OPIMM32 -> DecodeOpImm32(i)
      [] i.opcode = Opcode.OP -> DecodeOp(i)
      [] i.opcode = Opcode.OP32 -> DecodeOp32(i)
      [] i.opcode = Opcode.AMO -> DecodeAmo(i)
      [] i.opcode = Opcode.FENCE -> Nop
      [] i.opcode = Opcode.SYSTEM -> DecodeSystem(i)
      [] OTHER -> Illegal

-----------------------------------------------------------------------------
(* Compressed instructions *)

\* binary_concat: the bits hi to lo of the halfword, moved to bit at
Concat(h, hi, lo, at) == ((h \div 2^lo) % 2^(hi - lo + 1)) * 2^at

Imm6(h) == SignExtend(Concat(h, 12, 12, 5) + Concat(h, 6, 2, 0), 6)
UImm6(h) == Imm6(h) % 64
Rd(h) == Concat(h, 11, 7, 0)             \* also rs1
Rs2(h) == Concat(h, 6, 2, 0)
RdC(h) == 8 + Concat(h, 9, 7, 0)         \* rd' or rs1'
Rs2C(h) == 8 + Concat(h, 4, 2, 0)        \* rd' or rs2'

OffsetW(h) == Concat(h, 6, 6, 2) + Concat(h, 5, 5, 6) + Concat(h, 12, 10, 3)
OffsetD(h) == Concat(h, 6, 5, 6) + Concat(h, 12, 10, 3)
\* (mutant of OffsetLWSP: bits 12 and 4 change places)
OffsetLWSPSwapped(h) == Concat(h, 12, 12, 4) + Concat(h, 6, 6, 5) + Concat(h, 5, 4, 2)
                        + Concat(h, 3, 2, 6)
OffsetLWSP(h) == Concat(h, 6, 4, 2) + Concat(h, 3, 2, 6) + Concat(h, 12, 12, 5)
OffsetLDSP(h) == Concat(h, 6, 5, 3) + Concat(h, 4, 2, 6) + Concat(h, 12, 12, 5)
OffsetJ(h) ==
    SignExtend(Concat(h, 12, 12, 11) + Concat(h, 11, 11, 4) + Concat(h, 10, 9, 8)
               + Concat(h, 8, 8, 10) + Concat(h, 7, 7, 6) + Concat(h, 6, 6, 7)
               + Concat(h, 5, 3, 1) + Concat(h, 2, 2, 5), 12)
OffsetB(h) ==
    SignExtend(Concat(h, 12, 12, 8) + Concat(h, 11, 10, 3) + Concat(h, 6, 5, 6)
               + Concat(h, 4, 3, 1) + Concat(h, 2, 2, 5), 9)
Imm16SP(h) ==
    SignExtend(Concat(h, 12, 12, 9) + Concat(h, 6, 6, 4) + Concat(h, 5, 5, 6)
               + Concat(h, 4, 3, 7) + Concat(h, 2, 2, 5), 10)
Imm4SPN(h) == Concat(h, 12, 11, 4) + Concat(h, 10, 7, 6) + Concat(h, 6, 6, 2)
              + Concat(h, 5, 5, 3)

\* Most of the forms whose immediate may not be zero do nothing when it is.
OrNop(imm, op) == IF imm = 0 THEN Nop ELSE op

DecodeC0(h, funct3) ==
    CASE funct3 = 0 -> IF Imm4SPN(h) = 0 THEN Illegal
                       ELSE AluImm("ADD", FALSE, Rs2C(h), 2, Imm4SPN(h))
      [] funct3 = 2 -> Load(4, TRUE, Rs2C(h), RdC(h), OffsetW(h))
      [] funct3 = 3 -> Load(8, TRUE, Rs2C(h), RdC(h), OffsetD(h))
      [] funct3 = 6 -> Store(4, RdC(h), Rs2C(h), OffsetW(h))
      [] funct3 = 7 -> Store(8, RdC(h), Rs2C(h), OffsetD(h))
      [] OTHER -> Illegal

\* c.addi16sp when rd is the stack pointer, c.lui otherwise
DecodeAddi16spLui(h) ==
    IF Rd(h) = 2 THEN OrNop(Imm16SP(h), AluImm("ADD", FALSE, 2, 2, Imm16SP(h)))
    ELSE OrNop(Imm6(h), Li(Rd(h), Imm6(h) * 4096))

DecodeCAlu(h) ==
    LET kind == Concat(h, 11, 10, 0)
        w32 == Concat(h, 12, 12, 0) = 1
        funct2 == Concat(h, 6, 5, 0)
        alu(op) == Alu(op, w32, RdC(h), RdC(h), Rs2C(h))
    IN CASE kind \in {0, 1} ->
               OrNop(UImm6(h), AluImm(IF kind = 1 THEN "SRA" ELSE "SRL", FALSE,
                                      RdC(h), RdC(h), UImm6(h)))
         [] kind = 2 -> AluImm("AND", FALSE, RdC(h), RdC(h), Imm6(h))
         [] kind = 3 /\ funct2 = 0 -> alu("SUB")
         [] kind = 3 /\ funct2 = 1 -> alu(IF w32 THEN "ADD" ELSE "XOR")
         [] kind = 3 /\ funct2 > 1 /\ ~w32 -> alu(IF funct2 = 2 THEN "OR" ELSE "AND")
         [] OTHER -> Illegal

DecodeC1(h, funct3) ==
    CASE funct3 = 0 -> OrNop(Imm6(h), AluImm("ADD", FALSE, Rd(h), Rd(h), Imm6(h)))
      [] funct3 = 1 -> AluImm("ADD", TRUE, Rd(h), Rd(h), Imm6(h))
      [] funct3 = 2 -> Li(Rd(h), Imm6(h))
      [] funct3 = 3 -> DecodeAddi16spLui(h)
      [] funct3 = 4 -> DecodeCAlu(h)
      [] funct3 = 5 -> Jal(0, OffsetJ(h))
      [] funct3 = 6 -> Branch("EQ", RdC(h), 0, OffsetB(h))
      [] funct3 = 7 -> Branch("NE", RdC(h), 0, OffsetB(h))

\* A move is an addition to x0, which is zero.
DecodeJrMvAdd(h) ==
    CASE Concat(h, 12, 12, 0) = 0 /\ Rs2(h) # 0 -> Alu("ADD", FALSE, Rd(h), 0, Rs2(h))
      [] Concat(h, 12, 12, 0) = 0 /\ Rs2(h) = 0 ->
            IF Rd(h) = 0 THEN Illegal ELSE Jalr(0, Rd(h), 0, TRUE)
      [] Concat(h, 12, 12, 0) = 1 /\ Rs2(h) # 0 -> Alu("ADD", FALSE, Rd(h), Rd(h), Rs2(h))
      [] OTHER -> IF Rd(h) = 0 THEN Sys("ebreak") ELSE Jalr(1, Rd(h), 0, TRUE)

DecodeC2(h, funct3) ==
    CASE funct3 = 0 -> OrNop(UImm6(h), AluImm("SLL", FALSE, Rd(h), Rd(h), UImm6(h)))
      [] funct3 = 2 -> Load(4, TRUE, Rd(h), 2, OffsetLWSP(h))
      [] funct3 = 3 -> Load(8, TRUE, Rd(h), 2, OffsetLDSP(h))
      [] funct3 = 4 -> DecodeJrMvAdd(h)
      [] funct3 = 6 -> Store(4, 2, Rs2(h), Concat(h, 12, 9, 2) + Concat(h, 8, 7, 6))
      [] funct3 = 7 -> Store(8, 2, Rs2(h), Concat(h, 12, 10, 3) + Concat(h, 9, 7, 6))
      [] OTHER -> Illegal

Decode16(h) == LET funct3 == h \div 2^13 IN
    CASE h % 4 = 0 -> DecodeC0(h, funct3)
      [] h % 4 = 1 -> DecodeC1(h, funct3)
      [] h % 4 = 2 -> DecodeC2(h, funct3)

=============================================================================
