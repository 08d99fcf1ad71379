---------------------------- MODULE MCMiniCPUCore ----------------------------
(* An instance of MiniCPUCore: registers of 16 bits, three contexts that      *)
(* hand the core to each other, an instruction of every kind.                 *)
EXTENDS MiniCPUCore

File == INSTANCE RVCsr

\* The fields of status, moved together into 16 bits
FieldOf == [sie |-> {1}, mie |-> {3}, spie |-> {5}, ube |-> {6}, mpie |-> {7}, spp |-> {8},
            mpp |-> {9, 10}, fs |-> {0}, mprv |-> {11}, sum |-> {12}, mxr |-> {13},
            tvm |-> {14}, tsr |-> {15}, tw |-> {2}, uxl |-> {4}, vs |-> {}, xs |-> {}, sd |-> {}]

I(opcode, f3, rd, rs1, rs2, f7) ==
    [opcode |-> opcode, rd |-> rd, f3 |-> f3, rs1 |-> rs1, rs2 |-> rs2, f7 |-> f7]
System(f3, rd, rs1, imm) == I(Opcode.SYSTEM, f3, rd, rs1, imm % 32, imm \div 32)

\* s0 holds the address of the context register, s1 of the console, a0 the
\* number of another context, a1 that of none.
ContextWords == {I(Opcode.STORE, 3, 0, 8, 10, 0), I(Opcode.STORE, 3, 0, 8, 11, 0),
                 I(STORE_ASYNC, 3, 0, 8, 10, 0), I(Opcode.STORE, 2, 0, 8, 10, 0),
                 I(Opcode.LOAD, 3, 12, 8, 0, 0), I(LOAD_ASYNC, 3, 0, 8, 0, 0),
                 I(Opcode.STORE, 2, 0, 9, 10, 0), I(Opcode.LOAD, 2, 12, 9, 0, 0)}
MemoryInstructions == {I(Opcode.LOAD, 0, 12, 10, 0, 0), I(Opcode.STORE, 0, 0, 10, 11, 0),
                       I(Opcode.LOAD, 1, 12, 10, 1, 0), I(STORE_ASYNC, 0, 0, 10, 11, 0),
                       I(LOAD_ASYNC, 4, 12, 10, 0, 0), I(LOAD_ASYNC, 7, 12, 10, 0, 0)}
                      \cup {I(Opcode.AMO, 3, 12, 8, 10, 4 * f5) : f5 \in {0, 3}}
                      \cup {I(Opcode.AMO, 2, 12, 8, 0, 8)}
OtherInstructions == {I(Opcode.LUI, 0, 12, 0, 0, 0), I(Opcode.OPIMM, 0, 0, 10, 3, 0),
                      I(Opcode.OP, 0, 12, 11, 10, 1), I(Opcode.FENCE, 0, 0, 0, 0, 0),
                      I(Opcode.JALR, 0, 1, 8, 4, 0), I(Opcode.JALR, 0, 1, 11, 0, 0),
                      I(Opcode.BRANCH, 0, 8, 10, 10, 0), I(Opcode.BRANCH, 1, 8, 10, 10, 0),
                      System(0, 0, 0, 0), System(0, 0, 0, 770), System(0, 0, 0, 258),
                      System(0, 0, 0, 288), System(1, 12, 10, 833), System(2, 12, 0, 768),
                      System(1, 0, 11, 773), System(1, 0, 8, 772), System(1, 0, 10, 3860)}
\* c.mv, c.jr, c.sd to the context register, c.li
Halfwords == {34346, 33794, 57352, 16509}
ProgramRun == ContextWords \cup MemoryInstructions \cup OtherInstructions
              \cup {[half |-> h] : h \in Halfwords}

GPRs(other, s) == [r \in 0 .. 31 |-> CASE r = 8 -> 8 [] r = 9 -> 20 [] r = 10 -> other
                                       [] r = 11 -> s [] OTHER -> 0]
ResetCSR(status) == [n \in File!Registers |-> CASE n = "misa" -> 5 [] n = "status" -> status
                                                [] OTHER -> 0]
\* The contexts as the firmware's start code leaves them, in M and after an
\* mret to S or U
StartRun == {[gpr |-> [c \in Ctx |-> GPRs((c + 1) % NrCtx, 7 + c)], pc |-> 4096, mode |-> m,
              csr |-> ResetCSR(IF m = 1 THEN 16 + 16384 + 32768 ELSE 16)] : m \in {0, 1, 3}}
DebugRun == {[gpr |-> GPRs(0, 1), pc |-> 4098]}
=============================================================================
