----------------------------- MODULE MiniCPUCore -----------------------------
(***************************************************************************)
(* The MiniCPU core (rvcore_minicpu): a copy of the simple core with four  *)
(* sets of general registers and program counters, the contexts, over one  *)
(* set of CSRs.  A load of the context register gives the running context, *)
(* a store to it hands the core over when the instruction has retired.     *)
(* Two opcodes are new, and every trap fails the assertion at the head of  *)
(* raiseTrap, which ends the emulator.                                     *)
(*                                                                         *)
(* What has the same text in both cores is taken from an instance of Hart  *)
(* for the running context; each definition below names the copy.          *)
(***************************************************************************)
EXTENDS RVDecode, FiniteSets

CONSTANTS XLEN, Field, Program, Start,     \* as in Hart
          NrCtx,                           \* NR_CTX
          CtxIdReg, PutcReg,               \* CTX_ID_REG_MMIO, PUTC_MMIO
          DebugWrites,                     \* bound: the registers a debugger writes
          MaxTicks                         \* bound: the steps of a behaviour

ASSUME CoreAssumption == /\ NrCtx \in Nat \ {0}
                         /\ MaxTicks \in Nat

VARIABLES
    ctx,           \* ctx[c]: the registers [gpr, pc] of context c
    currentCtx,
    ch,            \* what was written to the console last
    mode, csr,     \* nextPrivMode and the CSRs
    ended, stored, \* history: how the last step ended, the store it made on the bus
    global_tick,
    left           \* history: left[c], the registers with which c is to go on

vars == <<ctx, currentCtx, ch, mode, csr, ended, stored, global_tick, left>>

Ctx == 0 .. NrCtx - 1

\* The simple core, with the registers of the running context
Core == INSTANCE Hart WITH gpr <- ctx[currentCtx].gpr, pc <- ctx[currentCtx].pc,
                           steps <- global_tick, WireSets <- {{}}, MaxSteps <- MaxTicks,
                           Start <- {}

gpr == ctx[currentCtx].gpr
pc == ctx[currentCtx].pc
Byte == Core!Byte
Wrap(n) == Core!Wrap(n)

\* reset() leaves the program counters; WriteProgramCounterForAllCtx sets them.
Init == /\ \E s \in Start : /\ ctx = [c \in Ctx |-> [gpr |-> s.gpr[c], pc |-> s.pc]]
                            /\ mode = s.mode /\ csr = s.csr
        /\ currentCtx = 0 /\ ch = 0
        /\ ended = "start" /\ stored = Core!NoStore /\ global_tick = 0
        /\ left = ctx

-----------------------------------------------------------------------------
(* What has the same text in both cores *)

preExec == Core!Cycle({})                    \* nothing is wired to intStatus
Interrupted == Core!Decision(preExec) # Core!NoInterrupt
csr_op_permission_check(number, write) == Core!csr_op_permission_check(number, mode, write)
csrRead(name) == Core!csrRead(name, preExec)
csrWrite(name, v) == Core!csrWrite(name, preExec, v)
AfterMret(v) == Core!AfterMret(v)
AfterSret(v) == Core!AfterSret(v)
alu_exec(a, b, op, w32) == Core!alu_exec(a, b, op, w32)
pa_amo_op(f, src, res) == Core!AmoResult(f, src, res)

Compressed0(h) == DecodeC0(h, h \div 2^13)
Compressed1(h) == DecodeC1(h, h \div 2^13)
Compressed2(h) == DecodeC2(h, h \div 2^13)

LOAD_ASYNC == 11
STORE_ASYNC == 43

\* The two new opcodes have the formats, and the functions, of load and store.
Operation(ins) ==
    CASE Core!Compressed(ins) /\ ins.half % 4 = 0 -> Compressed0(ins.half)
      [] Core!Compressed(ins) /\ ins.half % 4 = 1 -> Compressed1(ins.half)
      [] Core!Compressed(ins) /\ ins.half % 4 = 2 -> Compressed2(ins.half)
      [] ~Core!Compressed(ins) /\ ins.opcode = LOAD_ASYNC -> DecodeLoad(ins)
      [] ~Core!Compressed(ins) /\ ins.opcode = STORE_ASYNC -> DecodeStore(ins)
      [] OTHER -> Decode32(ins)

Decodes(ins, kinds) == Operation(ins).k \in kinds
NextPC(ins) == Wrap(pc + Core!Length(ins))

\* (mutant of setGPR: x0 is written like the others)
setGPRAny(r, v) == [gpr EXCEPT ![r] = v]
setGPR(r, v) == IF r = 0 THEN gpr ELSE [gpr EXCEPT ![r] = v]

-----------------------------------------------------------------------------
(* How a step ends *)

Running == ended \notin {"aborted", "outside"} /\ global_tick < MaxTicks

\* raiseTrap begins with assert(false), and other assertions end here too.
raiseTrap == /\ ended' = "aborted"
             /\ UNCHANGED <<ctx, currentCtx, ch, mode, csr, stored, global_tick, left>>

Count == csr' = [preExec EXCEPT !["minstret"] = Wrap(@ + 1)]

\* (mutant of Retire: the instruction's program counter is stored in the
\* context that is current after the switch)
RetireInNew(g, next) == /\ ctx' = [ctx EXCEPT ![currentCtx].gpr = g, ![currentCtx'].pc = next]
                        /\ global_tick' = global_tick + 1
                        /\ UNCHANGED mode

\* The registers a retired instruction leaves, all of them of the running context
Retire(g, next) == /\ ctx' = [ctx EXCEPT ![currentCtx] = [gpr |-> g, pc |-> next]]
                   /\ global_tick' = global_tick + 1
                   /\ UNCHANGED mode

\* An instruction that does neither store nor switch
Go(g, next) == /\ UNCHANGED <<currentCtx, ch, left>>
               /\ Retire(g, next)
               /\ ended' = "retired" /\ stored' = Core!NoStore

\* The tail: needTrap is set by mret and sret only.
ReturnTo(level, status, target) ==
    /\ mode' = level
    /\ csr' = [preExec EXCEPT !["status"] = status]
    /\ ctx' = [ctx EXCEPT ![currentCtx].pc = target]
    /\ global_tick' = global_tick + 1
    /\ ended' = "returned" /\ stored' = Core!NoStore
    /\ UNCHANGED <<currentCtx, ch, left>>

-----------------------------------------------------------------------------
(* Steps that end before an instruction is decoded *)

\* An interrupt software has made pending, or an odd program counter
TrapAtOnce == Running /\ (Interrupted \/ pc % 2 # 0) /\ raiseTrap

Quiet == Running /\ ~Interrupted /\ pc % 2 = 0

FetchFault == Quiet /\ raiseTrap

-----------------------------------------------------------------------------
(* Operations, of an instruction that has been fetched in a quiet step *)

ComputeImmediate(ins) == LET op == Operation(ins) IN
    /\ Decodes(ins, {"li", "auipc", "aluimm"})
    /\ Go(setGPR(op.rd, CASE op.k = "li" -> Wrap(op.imm)
                       [] op.k = "auipc" -> Wrap(pc + op.imm)
                       [] op.k = "aluimm" -> alu_exec(gpr[op.rs1], Wrap(op.imm), op.op, op.w32)),
          NextPC(ins))
    /\ Count

ComputeRegisters(ins) == LET op == Operation(ins) IN
    /\ Decodes(ins, {"alu"})
    /\ Go(setGPR(op.rd, alu_exec(gpr[op.rs1], gpr[op.rs2], op.op, op.w32)), NextPC(ins))
    /\ Count

DoNothing(ins) == Decodes(ins, {"nop"}) /\ Go(gpr, NextPC(ins)) /\ Count

Jump(ins) == LET op == Operation(ins)
                 target == Core!Target(op)
             IN
    /\ Decodes(ins, {"jal", "jalr"})
    /\ \/ target % 2 # 0 /\ raiseTrap
       \/ target % 2 = 0 /\ Go(setGPR(op.rd, NextPC(ins)), target) /\ Count

BranchOn(ins) == LET op == Operation(ins) IN
    /\ Decodes(ins, {"branch"})
    /\ Go(gpr, IF Core!Comparison(op.cond, gpr[op.rs1], gpr[op.rs2]) THEN Wrap(pc + op.imm)
               ELSE NextPC(ins))
    /\ Count

-----------------------------------------------------------------------------
(* memRead and memWrite: alignment, then the two registers of the core, each  *)
(* with an assertion about the size, then the bus *)

Address(ins) == LET op == Operation(ins) IN Wrap(gpr[op.rs1] + op.imm)
Misaligned(ins) == Address(ins) % Operation(ins).size # 0

Extended(op, v) == IF op.signed THEN Core!CutSigned(v, op.size * Byte) ELSE v

memRead(ins) == LET op == Operation(ins)
                    addr == Address(ins)
                    got(v) == Go(setGPR(op.rd, Extended(op, v)), NextPC(ins)) /\ Count
                IN
    IF Misaligned(ins) THEN raiseTrap
    ELSE IF addr = CtxIdReg THEN IF op.size = 8 THEN got(currentCtx) ELSE raiseTrap
    ELSE IF addr = PutcReg THEN IF op.size = 4 THEN got(ch) ELSE raiseTrap
    ELSE raiseTrap \/ \E v \in Core!MemoryWords(op.size * Byte) : got(v)

\* The store of v to the context register: the core is handed over in the tail,
\* when the instruction has retired; no test keeps v below NR_CTX, and behind
\* the array the model ends.
SwitchTo(v, next) ==
    /\ currentCtx' = IF v \in Ctx THEN v ELSE currentCtx
    /\ Retire(gpr, next) /\ Count
    /\ ended' = IF v \in Ctx THEN "retired" ELSE "outside"
    /\ left' = [left EXCEPT ![currentCtx] = [gpr |-> gpr, pc |-> next]]
    /\ stored' = Core!NoStore
    /\ UNCHANGED ch

PutC(v, next) == /\ UNCHANGED <<currentCtx, left>>
                 /\ ch' = v
                 /\ Retire(gpr, next) /\ Count
                 /\ ended' = "retired" /\ stored' = Core!NoStore

StoreOnBus(store, g, next) == /\ UNCHANGED <<currentCtx, ch, left>>
                              /\ Retire(g, next) /\ Count
                              /\ ended' = "retired" /\ stored' = store

memWrite(ins) == LET op == Operation(ins)
                     addr == Address(ins)
                     written == Core!Written(op, addr, gpr[op.rs2])
                 IN
    IF Misaligned(ins) THEN raiseTrap
    ELSE IF addr = CtxIdReg THEN IF op.size = 8 THEN SwitchTo(gpr[op.rs2], NextPC(ins))
                                 ELSE raiseTrap
    ELSE IF addr = PutcReg THEN IF op.size = 4 THEN PutC(written.value, NextPC(ins))
                                ELSE raiseTrap
    ELSE raiseTrap \/ StoreOnBus(written, gpr, NextPC(ins))

IsAsync(ins) == ~Core!Compressed(ins) /\ ins.opcode \in {LOAD_ASYNC, STORE_ASYNC}

LoadMemory(ins) == Decodes(ins, {"load"}) /\ ~IsAsync(ins) /\ memRead(ins)
LoadAsync(ins) == Decodes(ins, {"load"}) /\ IsAsync(ins) /\ memRead(ins)
StoreMemory(ins) == Decodes(ins, {"store"}) /\ ~IsAsync(ins) /\ memWrite(ins)
StoreAsync(ins) == Decodes(ins, {"store"}) /\ IsAsync(ins) /\ memWrite(ins)

\* Atomics go to the bus, past the registers of the core.
AtomicMemory(ins) == LET op == Operation(ins)
                         addr == gpr[op.rs1]
                         bits == op.size * Byte
                     IN
    /\ Decodes(ins, {"atomic"})
    /\ \/ raiseTrap
       \/ /\ op.f = "LR" /\ Count
          /\ \E v \in Core!MemoryWords(bits) :
                Go(setGPR(op.rd, Core!CutSigned(v, bits)), NextPC(ins))
       \/ op.f = "SC" /\ Go(setGPR(op.rd, 1), NextPC(ins)) /\ Count
       \/ op.f = "SC" /\ StoreOnBus(Core!Written(op, addr, gpr[op.rs2]), setGPR(op.rd, 0), NextPC(ins))
       \/ /\ op.f \notin {"LR", "SC"}
          /\ \E v \in Core!MemoryWords(bits) : LET res == Core!CutSigned(v, bits) IN
                StoreOnBus(Core!Written(op, addr, pa_amo_op(op.f, gpr[op.rs2], res)),
                           setGPR(op.rd, res), NextPC(ins))

-----------------------------------------------------------------------------
Return(ins) == LET op == Operation(ins)
                   v == preExec["status"]
               IN
    /\ Decodes(ins, {"mret", "sret"})
    /\ \/ raiseTrap /\ IF op.k = "mret" THEN mode # Core!M
                       ELSE mode < Core!S \/ Core!Get(v, "tsr") = 1
       \/ op.k = "mret" /\ mode = Core!M /\ ReturnTo(Core!Get(v, "mpp"), AfterMret(v), csr["mepc"])
       \/ /\ op.k = "sret" /\ mode >= Core!S /\ Core!Get(v, "tsr") = 0
          /\ ReturnTo(Core!Get(v, "spp"), AfterSret(v), csr["sepc"])

FenceTLB(ins) == LET refused == mode < Core!S \/ Core!SatpTrapped(preExec, mode) IN
    /\ Decodes(ins, {"sfence"})
    /\ \/ refused /\ raiseTrap
       \/ ~refused /\ Go(gpr, NextPC(ins)) /\ Count

\* ecall, ebreak and what is not an instruction
Environment(ins) == Decodes(ins, {"ecall", "ebreak", "illegal"}) /\ raiseTrap

Accessible(op) ==
    {n \in DOMAIN Core!CsrNumber : /\ Core!CsrNumber[n] = op.csr
                                   /\ csr_op_permission_check(op.csr, Core!Writes(op))
                                   /\ Core!Readable(n, preExec, mode)
                                   /\ Core!Writes(op) => Core!Writable(n, preExec, mode)}

AccessCsr(ins) == LET op == Operation(ins) IN
    /\ Decodes(ins, {"csr"})
    /\ \/ Accessible(op) = {} /\ raiseTrap
       \/ \E n \in Accessible(op) :
             LET t == csrRead(n)
                 v == Core!NewValue(op, t)
             IN \/ ~Core!Writes(op) /\ Go(setGPR(op.rd, t), NextPC(ins)) /\ Count
                \/ /\ Core!Writes(op) /\ ~Core!MtvecAsserts(n, v)
                   /\ Go(setGPR(op.rd, t), NextPC(ins))
                   /\ csr' = [csrWrite(n, v) EXCEPT !["minstret"] = Wrap(@ + 1)]
                \/ Core!Writes(op) /\ Core!MtvecAsserts(n, v) /\ raiseTrap

Execute(ins) ==
    \/ ComputeImmediate(ins) \/ ComputeRegisters(ins) \/ DoNothing(ins)
    \/ Jump(ins) \/ BranchOn(ins)
    \/ LoadMemory(ins) \/ LoadAsync(ins) \/ StoreMemory(ins) \/ StoreAsync(ins)
    \/ AtomicMemory(ins) \/ Return(ins) \/ FenceTLB(ins) \/ Environment(ins) \/ AccessCsr(ins)

Instruction == Quiet /\ \E ins \in Program : Execute(ins)

\* WriteAllRegister_DebugAPI, from the debugger that steps the core: the
\* registers of the running context (x0 as it was read).
WriteAllRegister == /\ Running
                    /\ \E w \in DebugWrites : ctx' = [ctx EXCEPT ![currentCtx] = w]
                    /\ ended' = "debugged"
                    /\ UNCHANGED <<currentCtx, ch, mode, csr, stored, global_tick, left>>

Next == TrapAtOnce \/ FetchFault \/ Instruction \/ WriteAllRegister

Spec == Init /\ [][Next]_vars

-----------------------------------------------------------------------------
TypeOK == /\ ctx \in [Ctx -> [gpr : [Core!Regs -> Core!Values], pc : Core!Values]]
          /\ currentCtx \in Ctx /\ ch \in Core!Values /\ mode \in 0 .. 3
          /\ csr \in [Core!Registers -> Core!Values]
          /\ global_tick \in 0 .. MaxTicks

\* A context that is not running waits with the registers it had when it gave
\* the core away, its program counter behind the store that did so: whatever
\* other contexts and the debugger do, it resumes as if yield had returned.
Parked == \A c \in Ctx \ {currentCtx} : ctx[c] = left[c]

\* Between two switches the core is a simple core that runs the context it is
\* in: a step that ends well is one of Hart's, unless it used a new opcode or
\* the registers of the core.
Ordinary(ins) == LET op == Operation(ins) IN
    ~IsAsync(ins) /\ (op.k \in {"load", "store"} => Address(ins) \notin {CtxIdReg, PutcReg})
RunsAsHart ==
    [][ended' \in {"retired", "returned"}
         => \/ Core!Quiet({}) /\ \E ins \in Program : Ordinary(ins) /\ Core!Execute(ins, {})
            \/ Quiet /\ \E ins \in Program : ~Ordinary(ins) /\ Execute(ins)]_vars

=============================================================================
