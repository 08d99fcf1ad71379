-------------------------------- MODULE RVCsr --------------------------------
(***************************************************************************)
(* The CSR file of RV64Core (rv64_privilege.cpp): csrRead, csrWrite, the   *)
(* permission check, and the CSR half of raiseTrap, mret and sret, with    *)
(* the registers as words.  (Privilege has the protocol of traps and       *)
(* returns on single fields; here the same words are what csrrw and its    *)
(* kin read and write.)                                                    *)
(*                                                                         *)
(* A CSR is a word of XLEN bits.  The interrupt and exception numbers and  *)
(* the counter bits keep their places; the fields of status, which lie in  *)
(* 64 bits, have the places Field gives them.                              *)
(***************************************************************************)
EXTENDS RVAlu, FiniteSets

CONSTANT Field        \* Field[f]: the bits of status that f occupies

ASSUME FieldAssumption == /\ \A f \in DOMAIN Field : Field[f] \subseteq 0 .. XLEN - 1
                          /\ {"spp", "mpp"} \subseteq DOMAIN Field
                          /\ Cardinality(Field["spp"]) = 1 /\ Cardinality(Field["mpp"]) = 2

U == 0
S == 1
M == 3

\* bound: pmpcfg0 stands for the CSRs with a number and no case, mhartid for
\* the identification registers (the hart is hart 0)
CsrNumber ==
    [cycle |-> 3072, time |-> 3073, instret |-> 3074,
     sstatus |-> 256, sie |-> 260, stvec |-> 261, scounteren |-> 262,
     sscratch |-> 320, sepc |-> 321, scause |-> 322, stval |-> 323, sip |-> 324, satp |-> 384,
     mhartid |-> 3860, mstatus |-> 768, misa |-> 769, medeleg |-> 770, mideleg |-> 771,
     mie |-> 772, mtvec |-> 773, mcounteren |-> 774, mscratch |-> 832, mepc |-> 833,
     mcause |-> 834, mtval |-> 835, mip |-> 836, pmpcfg0 |-> 928,
     mcycle |-> 2816, minstret |-> 2818, tselect |-> 1952, tdata1 |-> 1953]

\* The registers that exist: csrRead and csrWrite pass these whole.
Whole == {"misa", "medeleg", "mideleg", "mie", "mtvec", "mcounteren", "mscratch", "mepc",
          "mcause", "mtval", "mip", "mcycle", "minstret", "stvec", "scounteren", "sscratch",
          "sepc", "scause", "stval", "satp"}
Registers == Whole \cup {"status"}

S_MODE_INT_MASK == {1, 5, 9}
M_MODE_INT_MASK == {1, 3, 5, 7, 9, 11}
S_MODE_EXC_MASK == 0 .. 15 \ {11}
COUNTER_MASK == {0, 2}
WiredPending == {3, 7, 9, 11}                    \* what preExec copies from intStatus

\* The structures CSReg_MStatus_t and CSReg_SStatus_t laid over status: the
\* fields from bit 0 up, with their widths; "" is a blank
MStatusLayout ==
    <<<<"", 1>>, <<"sie", 1>>, <<"", 1>>, <<"mie", 1>>, <<"", 1>>, <<"spie", 1>>, <<"ube", 1>>,
      <<"mpie", 1>>, <<"spp", 1>>, <<"vs", 2>>, <<"mpp", 2>>, <<"fs", 2>>, <<"xs", 2>>,
      <<"mprv", 1>>, <<"sum", 1>>, <<"mxr", 1>>, <<"tvm", 1>>, <<"tw", 1>>, <<"tsr", 1>>,
      <<"", 9>>, <<"uxl", 2>>, <<"sxl", 2>>, <<"sbe", 1>>, <<"mbe", 1>>, <<"", 25>>, <<"sd", 1>>>>
SStatusLayout ==
    <<<<"", 1>>, <<"sie", 1>>, <<"", 3>>, <<"spie", 1>>, <<"ube", 1>>, <<"", 1>>, <<"spp", 1>>,
      <<"vs", 2>>, <<"", 2>>, <<"fs", 2>>, <<"xs", 2>>, <<"", 1>>, <<"sum", 1>>, <<"mxr", 1>>,
      <<"", 12>>, <<"uxl", 2>>, <<"", 29>>, <<"sd", 1>>>>

Bits(fields) == UNION {Field[f] : f \in fields}
\* CSReg_SStatus_t as csrRead fills it in, and the fields csrWrite stores
SStatusFields == {"sie", "spie", "ube", "spp", "vs", "fs", "xs", "sum", "mxr", "uxl", "sd"}
\* (mutant of SStatusWrites: sstatus is written as mstatus is)
SStatusWritesOfM == {"sie", "spie", "spp", "sum", "mxr", "mpp"}
SStatusWrites == {"sie", "spie", "spp", "sum", "mxr"}
MStatusWrites == {"sie", "mie", "spie", "mpie", "spp", "mpp", "mprv", "sum", "mxr", "tvm",
                  "tw", "tsr"}

Masked(v, bits) == ValueOf(BitsOf(v) \cap bits)
\* old with the bits in mask taken from new
Merge(old, new, mask) == ValueOf((BitsOf(old) \ mask) \cup (BitsOf(new) \cap mask))

Low(f) == CHOOSE n \in Field[f] : \A m \in Field[f] : n <= m
Get(v, f) == (v \div 2^Low(f)) % 2^Cardinality(Field[f])
Put(v, f, x) == Merge(v, x * 2^Low(f), Field[f])

-----------------------------------------------------------------------------
(* The mode is currentPrivMode throughout. *)

\* (mutant of csr_op_permission_check: the level is compared for reads only)
permission_check_reads(number, mode, write) ==
    /\ ~write => (number \div 256) % 4 <= mode
    /\ (number \div 1024) % 4 = 3 => ~write
csr_op_permission_check(number, mode, write) ==
    /\ (number \div 256) % 4 <= mode
    /\ (number \div 1024) % 4 = 3 => ~write

\* tvm keeps satp from S
SatpTrapped(c, mode) == mode = S /\ Get(c["status"], "tvm") = 1

Readable(name, c, mode) ==
    CASE name \in {"instret", "pmpcfg0"} -> FALSE
      [] name = "satp" -> ~SatpTrapped(c, mode)
      [] name = "cycle" -> mode <= S => 0 \in BitsOf(c["mcounteren"]) \cap BitsOf(c["scounteren"])
      [] OTHER -> TRUE

csrRead(name, c) ==
    CASE name \in Whole -> c[name]
      [] name = "mstatus" -> c["status"]
      [] name = "sstatus" -> Masked(c["status"], Bits(SStatusFields))
      [] name = "sie" -> Masked(c["mie"], S_MODE_INT_MASK)
      [] name = "sip" -> Masked(c["mip"], S_MODE_INT_MASK)
      [] name \in {"cycle", "time"} -> c["mcycle"]
      [] name = "tselect" -> 1
      [] name \in {"mhartid", "tdata1"} -> 0

Writable(name, c, mode) ==
    /\ name \notin {"instret", "pmpcfg0", "mhartid", "minstret", "cycle"}
    /\ name = "satp" => ~SatpTrapped(c, mode)

\* The assertion about the mode of mtvec; stvec is corrected instead.
MtvecAsserts(name, v) == name = "mtvec" /\ v % 4 > 1

\* satp.mode, the uppermost four bits, is 0 or 8; others become 0.
csrWrite(name, c, v) ==
    CASE name = "mstatus" -> [c EXCEPT !["status"] = Merge(@, v, Bits(MStatusWrites))]
      [] name = "sstatus" -> [c EXCEPT !["status"] = Merge(@, v, Bits(SStatusWrites))]
      [] name = "medeleg" -> [c EXCEPT !["medeleg"] = Masked(v, S_MODE_EXC_MASK)]
      [] name = "mideleg" -> [c EXCEPT !["mideleg"] = Masked(v, S_MODE_INT_MASK)]
      [] name \in {"mie", "mip"} -> [c EXCEPT ![name] = Masked(v, M_MODE_INT_MASK)]
      [] name = "sie" -> [c EXCEPT !["mie"] = Merge(@, v, S_MODE_INT_MASK)]
      [] name = "sip" -> [c EXCEPT !["mip"] = Merge(@, v, S_MODE_INT_MASK)]
      [] name \in {"mcounteren", "scounteren"} -> [c EXCEPT ![name] = Masked(v, COUNTER_MASK)]
      [] name = "stvec" -> [c EXCEPT !["stvec"] = IF v % 4 > 1 THEN v - (v % 4) ELSE v]
      [] name = "satp" -> [c EXCEPT !["satp"] = IF v \div 2^(XLEN - 4) \in {0, 8} THEN v
                                                ELSE v % 2^(XLEN - 4)]
      [] name \in {"mtvec", "mscratch", "mepc", "mcause", "mtval", "mcycle", "sscratch",
                   "sepc", "scause", "stval"} -> [c EXCEPT ![name] = v]
      [] OTHER -> c                                    \* misa, tselect, tdata1, time

-----------------------------------------------------------------------------
(* raiseTrap, mret and sret *)

Trap(cause, tval) == [cause |-> cause, interrupt |-> FALSE, tval |-> tval]
InterruptTrap(cause) == [cause |-> cause, interrupt |-> TRUE, tval |-> 0]

Destination(t, c, mode) ==
    IF mode # M /\ t.cause \in BitsOf(c[IF t.interrupt THEN "mideleg" ELSE "medeleg"])
    THEN S ELSE M

CauseWord(t) == t.cause + (IF t.interrupt THEN 2^(XLEN - 1) ELSE 0)

\* (mutant of Vector: the mode bits of tvec are left in the address)
VectorWithMode(tvec, t) == Wrap(tvec + (IF tvec % 4 = 1 THEN 4 * t.cause ELSE 0))

\* A vectored tvec is applied to exceptions as well.
Vector(tvec, t) == Wrap(tvec - (tvec % 4) + (IF tvec % 4 = 1 THEN 4 * t.cause ELSE 0))

AfterTrap(t, c, mode, pc) ==
    IF Destination(t, c, mode) = S
    THEN [c EXCEPT !["stval"] = t.tval, !["scause"] = CauseWord(t), !["sepc"] = pc,
                   !["status"] = Put(Put(Put(@, "spie", Get(@, "sie")), "sie", 0), "spp", mode)]
    ELSE [c EXCEPT !["mtval"] = t.tval, !["mcause"] = CauseWord(t), !["mepc"] = pc,
                   !["status"] = Put(Put(Put(@, "mpie", Get(@, "mie")), "mie", 0), "mpp", mode)]

TrapPC(t, c, mode) == Vector(c[IF Destination(t, c, mode) = S THEN "stvec" ELSE "mtvec"], t)

\* mprv falls unless mret returns to M; sret clears it always, as spp has one bit.
AfterMret(v) ==
    LET w == Put(Put(v, "mie", Get(v, "mpie")), "mpie", 1)
    IN Put(IF Get(v, "mpp") = M THEN w ELSE Put(w, "mprv", 0), "mpp", U)
AfterSret(v) == Put(Put(Put(Put(v, "sie", Get(v, "spie")), "spie", 1), "mprv", 0), "spp", U)

=============================================================================
