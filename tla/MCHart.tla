------------------------------- MODULE MCHart -------------------------------
(* An instance of Hart: registers of 16 bits, one instruction of every kind  *)
(* and the encodings next to them, from a few states software can reach.     *)
EXTENDS Hart, RVReference

\* The fields of status, moved together into 16 bits
FieldOf == [sie |-> {1}, mie |-> {3}, spie |-> {5}, ube |-> {6}, mpie |-> {7}, spp |-> {8},
            mpp |-> {9, 10}, fs |-> {0}, mprv |-> {11}, sum |-> {12}, mxr |-> {13},
            tvm |-> {14}, tsr |-> {15}, tw |-> {2}, uxl |-> {4}, vs |-> {}, xs |-> {}, sd |-> {}]

Imm(opcode, f3, rd, rs1, imm) == IType(opcode, f3, rd, rs1, imm)
Views == {"mstatus", "sstatus", "sie", "sip", "satp", "stvec", "mtvec", "mcounteren"}
CsrWords == {Imm(Opcode.SYSTEM, 1, 9, 8, CsrNumber[n]) : n \in DOMAIN CsrNumber}
            \cup {Imm(Opcode.SYSTEM, 2, 9, 0, CsrNumber[n]) : n \in DOMAIN CsrNumber}
            \cup {Imm(Opcode.SYSTEM, 3, 9, 8, CsrNumber[n]) : n \in Views}
            \cup {Imm(Opcode.SYSTEM, 4 + f3, 1, 10, CsrNumber[n]) :
                f3 \in 1 .. 3, n \in {"mtvec", "sie"}}
            \cup {Imm(Opcode.SYSTEM, 4, 1, 10, 768), Imm(Opcode.SYSTEM, 1, 9, 8, 999)}
PrivWords == {Imm(Opcode.SYSTEM, 0, 0, 0, imm) : imm \in {0, 1, 2, 258, 261, 770}}
             \cup {RType(Opcode.SYSTEM, 0, 9, 0, 8, 9)}
MemWords == {Imm(Opcode.LOAD, f3, 9, 8, imm) : f3 \in {0, 2, 5, 7}, imm \in {0, 3}}
            \cup {SType(Opcode.STORE, f3, 8, 10, imm) : f3 \in {0, 1, 3, 4}, imm \in {0, -3}}
            \cup {RType(Opcode.AMO, f3, 4 * f5, 9, 8, rs2) :
                     f3 \in {1, 3}, f5 \in {2, 3, 16}, rs2 \in {0, 10}}
AluWords == {RType(opcode, f3, f7, 9, 8, 10) :
                 opcode \in {Opcode.OP, Opcode.OP32}, f3 \in {0, 4, 5}, f7 \in {0, 1}}
            \cup {Imm(opcode, f3, 1, 10, -3) : opcode \in {Opcode.OPIMM, Opcode.OPIMM32}, f3 \in {0, 5, 7}}
JumpWords == {JType(1, 6), JType(0, -8), Imm(Opcode.JALR, 0, 1, 8, 4), Imm(Opcode.JALR, 0, 8, 8, 2)}
             \cup {BType(f3, 8, 10, -6) : f3 \in {0, 1, 2, 6}}
OtherWords == {UType(Opcode.LUI, 9, 7), UType(Opcode.AUIPC, 0, 1), UType(Opcode.FENCE, 0, 0),
               UType(7, 0, 0)}
WordsRun == CsrWords \cup PrivWords \cup MemWords \cup AluWords \cup JumpWords \cup OtherWords

\* c.ebreak; c.jr, c.jalr, c.mv, c.add of s0 and a0; c.lw, c.sw, c.lwsp; c.li,
\* c.addi, c.beqz, c.j; the halfword of zeros
HalfwordsRun == {36866, 33794, 37890, 34346, 38186, 16388, 49156, 16514, 16509, 1529,
                 50177, 40961, 0}
ProgramRun == WordsRun \cup {[half |-> h] : h \in HalfwordsRun}

Registers1 == [r \in Regs |-> CASE r = 8 -> 65535 [] r = 10 -> 1024 + 32 + 2 [] OTHER -> 0]
Registers2 == [r \in Regs |-> CASE r = 8 -> 2048 + 520 + 8 [] r = 10 -> 32768 [] OTHER -> 0]
Software == [ResetCSR(5, 16) EXCEPT !["medeleg"] = 46079, !["mideleg"] = 546, !["mie"] = 2730,
                                    !["mcounteren"] = 5, !["scounteren"] = 1,
                                    !["stvec"] = 257, !["mtvec"] = 512,
                                    !["sepc"] = 769, !["mepc"] = 1024, !["satp"] = 32769]
AtReset == [gpr |-> ResetGPR, pc |-> 4096, mode |-> M, csr |-> ResetCSR(5, 16)]
\* a state of the registers, the status word and the mode it goes with
StartRun == {AtReset}
            \cup {[gpr |-> s[1], pc |-> 4096, mode |-> s[3],
                   csr |-> [Software EXCEPT !["status"] = s[2]]] :
                     s \in {<<Registers1, 4, U>>, <<Registers2, 2074, U>>,
                            <<Registers1, 17, S>>, <<Registers2, 16 + 16384 + 32768, S>>,
                            <<Registers1, 8 + 16 + 512, M>>, <<Registers2, 2 + 16 + 1024, M>>}}

\* The two layouts of status fill 64 bits and give a field they share one place.
LowOf(layout, k) == MapThenSumSet(LAMBDA j : layout[j][2], 1 .. k - 1)
StatusLayoutsAgree ==
    /\ LowOf(MStatusLayout, Len(MStatusLayout) + 1) = 64
    /\ LowOf(SStatusLayout, Len(SStatusLayout) + 1) = 64
    /\ \A k \in DOMAIN SStatusLayout :
          SStatusLayout[k][1] # "" =>
              \E j \in DOMAIN MStatusLayout : /\ MStatusLayout[j] = SStatusLayout[k]
                                             /\ LowOf(MStatusLayout, j) = LowOf(SStatusLayout, k)

Fresh == steps = 0 /\ gpr = ResetGPR
\* What RVReference states of the decoder and the arithmetic, once
CompressedExpand == Fresh => CompressedExpands
EncodingsAgree == Fresh => DecodeAgrees /\ StatusLayoutsAgree
ArithmeticLaws == Fresh => AluLaws
=============================================================================
