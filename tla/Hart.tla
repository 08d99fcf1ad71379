-------------------------------- MODULE Hart --------------------------------
(***************************************************************************)
(* One hart of the simple core: RV64Core::step() (rv64_exec.cpp), from     *)
(* preExec to the retirement of the instruction.  An action is one call of *)
(* step(); the actions differ in how the step ends and in the kind of      *)
(* operation RVDecode finds in the instruction.                            *)
(*                                                                         *)
(* The instruction a fetch returns is any of Program: a 32-bit one is the  *)
(* record of its fields, a compressed one [half |-> its halfword].  Memory *)
(* and the MMU answer a load, a store or an atomic as they like: MemAccess *)
(* models when which fault is due.  As in Privilege, mode is nextPrivMode. *)
(***************************************************************************)
EXTENDS RVDecode, RVCsr

CONSTANTS Program,       \* bound: the instructions a fetch may return
          Start,         \* bound: the states of the registers the hart starts in
          WireSets,      \* bound: the wires up at the start of a step, \subseteq WiredPending
          MaxSteps       \* bound: the steps of a behaviour

ASSUME HartAssumption == /\ XLEN >= 16 /\ WireSets \subseteq SUBSET WiredPending
                         /\ MaxSteps \in Nat

\* The words there are, and the halfwords that are not the lower half of one
Instructions == [opcode : 0 .. 127, rd : 0 .. 31, f3 : 0 .. 7, rs1 : 0 .. 31, rs2 : 0 .. 31,
                 f7 : 0 .. 127]
Halfwords == {h \in 0 .. 65535 : h % 4 # 3}
ASSUME ProgramAssumption == Program \subseteq Instructions \cup [half : Halfwords]

VARIABLES gpr, pc, mode, csr,
          ended,         \* history: how the last step ended
          stored,        \* history: the store it made, or NoStore
          steps

vars == <<gpr, pc, mode, csr, ended, stored, steps>>

Regs == 0 .. 31
NoStore == [size |-> 0]

\* What the masks and corrections of csrWrite leave of the registers
Corrected(c) ==
    /\ BitsOf(c["medeleg"]) \subseteq S_MODE_EXC_MASK
    /\ BitsOf(c["mideleg"]) \subseteq S_MODE_INT_MASK
    /\ BitsOf(c["mie"]) \cup BitsOf(c["mip"]) \subseteq M_MODE_INT_MASK
    /\ BitsOf(c["mcounteren"]) \cup BitsOf(c["scounteren"]) \subseteq COUNTER_MASK
    /\ c["stvec"] % 4 <= 1 /\ c["mtvec"] % 4 <= 1
    /\ c["satp"] \div 2^(XLEN - 4) \in {0, 8}

ASSUME StartAssumption ==
    \A s \in Start : /\ s.gpr \in [Regs -> Values] /\ s.gpr[0] = 0
                     /\ s.pc \in Values /\ s.pc % 2 = 0 /\ s.mode \in {U, S, M}
                     /\ s.csr \in [Registers -> Values] /\ Corrected(s.csr)

Init == /\ \E s \in Start : gpr = s.gpr /\ pc = s.pc /\ mode = s.mode /\ csr = s.csr
        /\ ended = "start" /\ stored = NoStore /\ steps = 0

\* reset()
ResetGPR == [r \in Regs |-> 0]
ResetCSR(misa, status) ==
    [n \in Registers |-> CASE n = "misa" -> misa [] n = "status" -> status [] OTHER -> 0]

-----------------------------------------------------------------------------
(* preExec *)

\* What preExec leaves in the CSRs when the wires in W are up.
Cycle(W) == [csr EXCEPT !["mcycle"] = Wrap(@ + 1),
                        !["mip"] = ValueOf((BitsOf(@) \ WiredPending) \cup W)]

\* bits_to_int_type
Highest(bits) == CHOOSE i \in bits :
    \A j \in bits : LET order == <<11, 3, 7, 9, 1, 5>>
                        place(n) == CHOOSE k \in 1 .. 6 : order[k] = n
                    IN place(i) <= place(j)
NoInterrupt == 24

Decision(c) ==
    LET bits == BitsOf(c["mip"]) \cap BitsOf(c["mie"]) \cap M_MODE_INT_MASK
        delegated == bits \cap BitsOf(c["mideleg"])
        machine == bits \ delegated
    IN CASE mode = M /\ Get(c["status"], "mie") = 1 /\ machine # {} -> Highest(machine)
         [] mode # M /\ delegated # {} /\ (mode < S \/ Get(c["status"], "sie") = 1) ->
               Highest(bits)
         [] mode # M /\ delegated = {} /\ bits # {} -> Highest(bits)
         [] OTHER -> NoInterrupt

-----------------------------------------------------------------------------
(* The end of a step, behind the label exception; c: the CSRs to go on from *)

EndInTrap(t, c) == /\ csr' = AfterTrap(t, c, mode, pc)
                   /\ pc' = TrapPC(t, c, mode)
                   /\ mode' = Destination(t, c, mode)
                   /\ ended' = "trap" /\ stored' = NoStore /\ steps' = steps + 1
                   /\ UNCHANGED gpr

\* An assertion has failed.
Abort == ended' = "aborted" /\ steps' = steps + 1 /\ UNCHANGED <<gpr, pc, mode, csr, stored>>

\* An instruction that neither trapped nor returned from a trap
RetireStoring(g, next, c, store) == /\ gpr' = g
                                    /\ pc' = Wrap(next)
                                    /\ csr' = [c EXCEPT !["minstret"] = Wrap(@ + 1)]
                                    /\ ended' = "retired" /\ stored' = store
                                    /\ steps' = steps + 1
                                    /\ UNCHANGED mode
Retire(g, next, c) == RetireStoring(g, next, c, NoStore)

\* mret and sret set needTrap: they are not counted in minstret.
ReturnTo(next, status, target, c) == /\ mode' = next
                                     /\ csr' = [c EXCEPT !["status"] = status]
                                     /\ pc' = target
                                     /\ ended' = "returned" /\ stored' = NoStore
                                     /\ steps' = steps + 1
                                     /\ UNCHANGED gpr

Running == ended # "aborted" /\ steps < MaxSteps
\* preExec has not trapped.
Quiet(W) == Running /\ Decision(Cycle(W)) = NoInterrupt

Compressed(ins) == DOMAIN ins = {"half"}
Length(ins) == IF Compressed(ins) THEN 2 ELSE 4
Operation(ins) == IF Compressed(ins) THEN Decode16(ins.half) ELSE Decode32(ins)
\* The instruction fetched is one of these.
Decodes(ins, kinds) == Operation(ins).k \in kinds

\* the word as a register holds it (XLEN <= 20: bits of lower fields only)
Raw(ins) == Wrap(IF Compressed(ins) THEN ins.half
                 ELSE ins.opcode + 128 * ins.rd + 4096 * ins.f3 + 32768 * ins.rs1)
IllegalInstruction(ins, W) == EndInTrap(Trap(2, Raw(ins)), Cycle(W))

\* (mutant of setGPR: x0 is written like the others)
setGPRAny(r, v) == [gpr EXCEPT ![r] = v]
setGPR(r, v) == IF r = 0 THEN gpr ELSE [gpr EXCEPT ![r] = v]

NextPC(ins) == pc + Length(ins)

-----------------------------------------------------------------------------
(* Steps that end before an instruction is decoded *)

TakeInterrupt(W) == LET c == Cycle(W) IN
    /\ Running /\ Decision(c) # NoInterrupt
    /\ EndInTrap(InterruptTrap(Decision(c)), c)

MisalignedPC(W) == /\ Quiet(W) /\ pc % 2 # 0
                   /\ EndInTrap(Trap(0, pc), Cycle(W))

\* raiseTrap asserts that a page fault on a fetch is not one on its own vector.
FetchFault(W) == LET c == Cycle(W)
                     pagefault == Trap(12, pc)
                 IN
    /\ Quiet(W) /\ pc % 2 = 0
    /\ \/ EndInTrap(Trap(1, pc), c)
       \/ TrapPC(pagefault, c, mode) # pc /\ EndInTrap(pagefault, c)
       \/ TrapPC(pagefault, c, mode) = pc /\ Abort

-----------------------------------------------------------------------------
(* Operations, of an instruction that has been fetched in a quiet step *)

ComputedBy(op) ==
    CASE op.k = "li" -> Wrap(op.imm)
      [] op.k = "auipc" -> Wrap(pc + op.imm)
      [] op.k = "alu" -> alu_exec(gpr[op.rs1], gpr[op.rs2], op.op, op.w32)
      [] op.k = "aluimm" -> alu_exec(gpr[op.rs1], Wrap(op.imm), op.op, op.w32)

Compute(ins, W) == LET op == Operation(ins) IN
    /\ Decodes(ins, {"li", "auipc", "alu", "aluimm"})
    /\ Retire(setGPR(op.rd, ComputedBy(op)), NextPC(ins), Cycle(W))

DoNothing(ins, W) == Decodes(ins, {"nop"}) /\ Retire(gpr, NextPC(ins), Cycle(W))

\* jalr leaves bit 0 of the register in the target, c.jr and c.jalr clear it.
Target(op) ==
    CASE op.k = "jal" -> Wrap(pc + op.imm)
      [] op.k = "jalr" /\ op.even -> gpr[op.rs1] - (gpr[op.rs1] % 2)
      [] op.k = "jalr" /\ ~op.even -> Wrap(gpr[op.rs1] + op.imm)

\* (mutant of Jump: the link is written before the target is looked at)
JumpLinkFirst(ins, W) == LET op == Operation(ins)
                             misaligned == Trap(0, Target(op))
                             c == Cycle(W)
                         IN
    /\ Decodes(ins, {"jal", "jalr"})
    /\ gpr' = setGPR(op.rd, Wrap(NextPC(ins)))
    /\ ended' = (IF Target(op) % 2 # 0 THEN "trap" ELSE "retired")
    /\ pc' = IF Target(op) % 2 # 0 THEN TrapPC(misaligned, c, mode) ELSE Target(op)
    /\ mode' = IF Target(op) % 2 # 0 THEN Destination(misaligned, c, mode) ELSE mode
    /\ csr' = IF Target(op) % 2 # 0 THEN AfterTrap(misaligned, c, mode, pc) ELSE c
    /\ stored' = NoStore /\ steps' = steps + 1

\* The alignment of the target is tested before the link is written.
Jump(ins, W) == LET op == Operation(ins) IN
    /\ Decodes(ins, {"jal", "jalr"})
    /\ \/ Target(op) % 2 # 0 /\ EndInTrap(Trap(0, Target(op)), Cycle(W))
       \/ Target(op) % 2 = 0 /\ Retire(setGPR(op.rd, Wrap(NextPC(ins))), Target(op), Cycle(W))

\* The target is even, as pc and the offset are: its test never fails.
TakeBranch(ins, W) == LET op == Operation(ins) IN
    /\ Decodes(ins, {"branch"}) /\ Comparison(op.cond, gpr[op.rs1], gpr[op.rs2])
    /\ Retire(gpr, pc + op.imm, Cycle(W))

PassBranch(ins, W) == LET op == Operation(ins) IN
    /\ Decodes(ins, {"branch"}) /\ ~Comparison(op.cond, gpr[op.rs1], gpr[op.rs2])
    /\ Retire(gpr, NextPC(ins), Cycle(W))

\* bound: what memory answers
MemoryWords(bits) == {0, 2^(bits - 1), 2^bits - 1}

\* memRead and memWrite: a misaligned address, an access or a page fault
MemoryFault(op, addr, causes, W) ==
    \/ addr % op.size # 0 /\ EndInTrap(Trap(causes[1], addr), Cycle(W))
    \/ addr % op.size = 0 /\ \E n \in {2, 3} : EndInTrap(Trap(causes[n], addr), Cycle(W))

\* memRead
LoadMemory(ins, W) == LET op == Operation(ins)
                          addr == Wrap(gpr[op.rs1] + op.imm)
                          bits == op.size * Byte
                      IN
    /\ Decodes(ins, {"load"})
    /\ \/ MemoryFault(op, addr, <<4, 5, 13>>, W)
       \/ /\ addr % op.size = 0
          /\ \E v \in MemoryWords(bits) :
                Retire(setGPR(op.rd, IF op.signed THEN CutSigned(v, bits) ELSE v),
                       NextPC(ins), Cycle(W))

Written(op, addr, v) == [size |-> op.size, addr |-> addr, value |-> Cut(v, op.size * Byte)]

\* memWrite
StoreMemory(ins, W) == LET op == Operation(ins)
                           addr == Wrap(gpr[op.rs1] + op.imm)
                       IN
    /\ Decodes(ins, {"store"})
    /\ \/ MemoryFault(op, addr, <<6, 7, 15>>, W)
       \/ addr % op.size = 0 /\ RetireStoring(gpr, NextPC(ins), Cycle(W),
                                              Written(op, addr, gpr[op.rs2]))

\* Every fault of an atomic is of the store kind, of lr too.
AtomicMemory(ins, W) == LET op == Operation(ins)
                            addr == gpr[op.rs1]
                            bits == op.size * Byte
                            next == NextPC(ins)
                        IN
    /\ Decodes(ins, {"atomic"})
    /\ \/ \E cause \in {6, 7, 15} : EndInTrap(Trap(cause, addr), Cycle(W))
       \/ /\ op.f = "LR"
          /\ \E v \in MemoryWords(bits) : Retire(setGPR(op.rd, CutSigned(v, bits)), next, Cycle(W))
       \/ op.f = "SC" /\ Retire(setGPR(op.rd, 1), next, Cycle(W))
       \/ op.f = "SC" /\ RetireStoring(setGPR(op.rd, 0), next, Cycle(W),
                                       Written(op, addr, gpr[op.rs2]))
       \/ /\ op.f \notin {"LR", "SC"}
          /\ \E v \in MemoryWords(bits) : LET res == CutSigned(v, bits) IN
                RetireStoring(setGPR(op.rd, res), next, Cycle(W),
                              Written(op, addr, AmoResult(op.f, gpr[op.rs2], res)))

Environment(ins, W) ==
    \/ Decodes(ins, {"ecall"}) /\ EndInTrap(Trap(mode + 8, 0), Cycle(W))
    \/ Decodes(ins, {"ebreak"}) /\ EndInTrap(Trap(3, 0), Cycle(W))

Return(ins, W) == LET c == Cycle(W)
                      v == c["status"]
                      op == Operation(ins)
                      permitted == IF op.k = "mret" THEN mode = M
                                   ELSE mode >= S /\ Get(v, "tsr") = 0
                  IN
    /\ Decodes(ins, {"mret", "sret"})
    /\ \/ ~permitted /\ IllegalInstruction(ins, W)
       \/ permitted /\ op.k = "mret" /\ ReturnTo(Get(v, "mpp"), AfterMret(v), c["mepc"], c)
       \/ permitted /\ op.k = "sret" /\ ReturnTo(Get(v, "spp"), AfterSret(v), c["sepc"], c)

\* sfence.vma; its work is in TLB
FenceTLB(ins, W) == LET refused == mode < S \/ SatpTrapped(Cycle(W), mode) IN
    /\ Decodes(ins, {"sfence"})
    /\ \/ refused /\ IllegalInstruction(ins, W)
       \/ ~refused /\ Retire(gpr, NextPC(ins), Cycle(W))

Undefined(ins, W) == Decodes(ins, {"illegal"}) /\ IllegalInstruction(ins, W)

\* What a CSR instruction writes over t: csrrw its source, csrrs and csrrc t
\* with the bits of the source set or cleared.
NewValue(op, t) == LET source == IF op.imm THEN op.src ELSE gpr[op.src] IN
    CASE op.f = "rw" -> source
      [] op.f = "rs" -> ValueOf(BitsOf(t) \cup BitsOf(source))
      [] op.f = "rc" -> ValueOf(BitsOf(t) \ BitsOf(source))

\* csrrw always writes, the others only with a source field that is not 0.
Writes(op) == op.f = "rw" \/ op.src # 0

\* The register with that number, if the instruction may access it
Accessible(op, c) ==
    {n \in DOMAIN CsrNumber : /\ CsrNumber[n] = op.csr
                              /\ csr_op_permission_check(op.csr, mode, Writes(op))
                              /\ Readable(n, c, mode)
                              /\ Writes(op) => Writable(n, c, mode)}

\* The register is read before it is written; a reserved mode written to mtvec
\* stops the emulator.
AccessCsr(ins, W) == LET op == Operation(ins)
                         c == Cycle(W)
                     IN
    /\ Decodes(ins, {"csr"})
    /\ \/ Accessible(op, c) = {} /\ IllegalInstruction(ins, W)
       \/ \E n \in Accessible(op, c) :
             LET t == csrRead(n, c)
                 v == NewValue(op, t)
             IN \/ ~Writes(op) /\ Retire(setGPR(op.rd, t), NextPC(ins), c)
                \/ /\ Writes(op) /\ ~MtvecAsserts(n, v)
                   /\ Retire(setGPR(op.rd, t), NextPC(ins), csrWrite(n, c, v))
                \/ Writes(op) /\ MtvecAsserts(n, v) /\ Abort

-----------------------------------------------------------------------------
Execute(ins, W) ==
    \/ Compute(ins, W) \/ DoNothing(ins, W) \/ Jump(ins, W)
    \/ TakeBranch(ins, W) \/ PassBranch(ins, W)
    \/ LoadMemory(ins, W) \/ StoreMemory(ins, W) \/ AtomicMemory(ins, W)
    \/ Environment(ins, W) \/ Return(ins, W) \/ FenceTLB(ins, W)
    \/ AccessCsr(ins, W) \/ Undefined(ins, W)

Instruction(W) == Quiet(W) /\ pc % 2 = 0 /\ \E ins \in Program : Execute(ins, W)

Next == \E W \in WireSets :
    TakeInterrupt(W) \/ MisalignedPC(W) \/ FetchFault(W) \/ Instruction(W)

Spec == Init /\ [][Next]_vars

-----------------------------------------------------------------------------
\* setGPR is the only way to a register: x0 stays zero.
TypeOK == /\ gpr \in [Regs -> Values] /\ gpr[0] = 0
          /\ pc \in Values /\ mode \in 0 .. 3
          /\ csr \in [Registers -> Values] /\ Corrected(csr)
          /\ ended \in {"start", "trap", "retired", "returned", "aborted"}
          /\ steps \in 0 .. MaxSteps

TrapRegisters(m) == IF m = S THEN {"sepc", "scause", "stval"} ELSE {"mepc", "mcause", "mtval"}
TrapFields(m) == IF m = S THEN {"sie", "spie", "spp"} ELSE {"mie", "mpie", "mpp"}
Counters == {"mcycle", "minstret"}

\* A trap is precise: the instruction that raised it, however far it had come,
\* has changed no general register, no memory and no CSR, was not counted, and
\* is the one the saved program counter names; what the trap itself changes is
\* of the level it goes to.
PreciseTrap ==
    [][ended' = "trap" =>
          /\ gpr' = gpr /\ stored' = NoStore
          /\ mode' \in {S, M}
          /\ csr'[IF mode' = S THEN "sepc" ELSE "mepc"] = pc
          /\ csr'["minstret"] = csr["minstret"]
          /\ \A n \in Registers \ (TrapRegisters(mode') \cup {"status", "mcycle", "mip"}) :
                csr'[n] = csr[n]
          /\ Merge(csr'["status"], csr["status"], Bits(TrapFields(mode'))) = csr["status"]]_vars

\* sstatus, sie and sip are views of registers of M, and mret takes whatever M
\* has written to mpp, the reserved mode 2 included: still no step that starts
\* and ends below M, whatever it executes, changes what is M's own.
OwnOfM == {"misa", "medeleg", "mideleg", "mtvec", "mcounteren", "mscratch", "mepc", "mcause",
           "mtval"}
SupervisorConfined ==
    [][mode # M /\ mode' # M =>
          /\ \A n \in OwnOfM : csr'[n] = csr[n]
          /\ BitsOf(csr'["mie"]) \ S_MODE_INT_MASK = BitsOf(csr["mie"]) \ S_MODE_INT_MASK
          /\ LET below == Bits(SStatusWrites \cup {"mprv"})
             IN BitsOf(csr'["status"]) \ below = BitsOf(csr["status"]) \ below]_vars

\* Firmware saves and restores CSRs by reading and writing them whole: to write
\* back what was read changes nothing, though several registers are views or
\* are corrected when they are written.
SaveRestore ==
    \A n \in DOMAIN CsrNumber :
        Readable(n, csr, mode) /\ Writable(n, csr, mode) =>
            csrWrite(n, csr, csrRead(n, csr)) = csr

\* A jump, a branch or a vector never leaves an odd program counter: only mret
\* and sret can, which return to whatever software wrote to mepc or sepc.
OddOnlyByReturn == pc % 2 = 1 => ended = "returned"

=============================================================================
