----------------------------- MODULE Privilege -----------------------------
(***************************************************************************)
(* The privilege machinery of RVCore_ns::RV64Core (rv64_privilege.cpp and  *)
(* the frame of step() in rv64_exec.cpp): the decision preExec takes about *)
(* interrupts, raiseTrap with its delegation, mret, sret, and the status   *)
(* and interrupt registers as the guest may write them in each mode.       *)
(*                                                                         *)
(* An action is one call of step(): preExec makes nextPrivMode the current *)
(* mode, samples the interrupt wires and may trap; otherwise one           *)
(* instruction executes.  Between steps currentPrivMode is read by nobody, *)
(* so that mode stands for nextPrivMode; and the bits of mip that preExec  *)
(* overwrites from the wires are not state either, only the two that it    *)
(* leaves alone are.                                                       *)
(*                                                                         *)
(* The guest writes the status registers one field at a time, the others   *)
(* written back as they are read, and never writes the reserved mode 2 to  *)
(* mpp.  The vectors are two fixed addresses.                              *)
(***************************************************************************)
EXTENDS Naturals

CONSTANTS MInts,      \* the machine interrupts in use, of MEI, MSI, MTI
          SWired,     \* the supervisor interrupts preExec takes from a wire: SEI
          SSoft,      \* those only software sets: SSI, STI
          Rank,       \* Rank[i]: the place of i in the order of bits_to_int_type
          Exceptions, \* the exceptions an instruction may raise, ecalls apart
          EcallU, EcallS, EcallM,
          MedelegWrites,       \* bound: the values the guest writes to medeleg
          PCs, MTVec, STVec,   \* program counters, as far as they are told apart:
                               \* by the region of code; the two trap vectors
          NoInt, NoFrame

SInts == SWired \cup SSoft
Ints == MInts \cup SInts
Wires == MInts \cup SWired
Delegable == Exceptions \cup {EcallU, EcallS}    \* S_MODE_EXC_MASK
Causes == Delegable \cup {EcallM}

ASSUME PrivilegeAssumption ==
    /\ MInts \cap SInts = {} /\ SWired \cap SSoft = {}
    /\ Rank \in [Ints -> 1 .. 6]
    /\ \A i, j \in Ints : Rank[i] = Rank[j] => i = j
    /\ NoInt \notin Ints
    /\ EcallM \notin Delegable
    /\ MedelegWrites \subseteq SUBSET Causes
    /\ {MTVec, STVec} \subseteq PCs

U == 0
S == 1
M == 3
Modes == {U, S, M}

Frame == [mode : Modes, ie : BOOLEAN, pc : PCs]

ASSUME FrameAssumption == NoFrame \notin Frame

VARIABLES
    mode,       \* nextPrivMode, the mode of the next step
    pc,         \* currentProgramCounter
    mstatus,    \* the fields of status that matter here
    mepc, sepc,
    intEnable,  \* csrIntEnable
    softPend,   \* the bits of csrIntPending that preExec keeps
    mideleg, medeleg,
    mframe,     \* what the last trap into M interrupted, while the guest has
                \* neither returned nor rewritten it (a history variable)
    sframe      \* the same for S

csrVars == <<mstatus, mepc, sepc, intEnable, softPend, mideleg, medeleg>>
vars == <<mode, pc, csrVars, mframe, sframe>>

Status == [mie : BOOLEAN, mpie : BOOLEAN, mpp : Modes,
           sie : BOOLEAN, spie : BOOLEAN, spp : {U, S},
           mprv : BOOLEAN, tsr : BOOLEAN]

\* reset()
Init == /\ mode = M /\ pc = MTVec
        /\ mstatus = [mie |-> FALSE, mpie |-> FALSE, mpp |-> U,
                      sie |-> FALSE, spie |-> FALSE, spp |-> U,
                      mprv |-> FALSE, tsr |-> FALSE]
        /\ mepc = MTVec /\ sepc = MTVec
        /\ intEnable = {} /\ softPend = {}
        /\ mideleg = {} /\ medeleg = {}
        /\ mframe = NoFrame /\ sframe = NoFrame

-----------------------------------------------------------------------------
(* preExec *)

\* bits_to_int_type, of a set that is not empty
Highest(I) == CHOOSE i \in I : \A j \in I : Rank[i] <= Rank[j]

\* (mutant of Decision: in M, delegated interrupts are taken too)
DecisionIgnoringDelegation(W) ==
    LET bits == (softPend \cup W) \cap intEnable
        delegated == bits \cap mideleg
    IN CASE mode = M /\ mstatus.mie /\ bits # {} -> Highest(bits)
         [] mode # M /\ delegated # {} /\ (mode < S \/ mstatus.sie) -> Highest(bits)
         [] mode # M /\ delegated = {} /\ bits # {} -> Highest(bits)
         [] OTHER -> NoInt

\* The interrupt preExec traps on when the wires in W are up, or NoInt.  Below
\* M the choice is among all pending interrupts, delegated or not; in S with
\* sie clear, a delegated one that is pending suppresses every other.
Decision(W) ==
    LET bits == (softPend \cup W) \cap intEnable
        machine == bits \ mideleg
        delegated == bits \cap mideleg
    IN CASE mode = M /\ mstatus.mie /\ machine # {} -> Highest(machine)
         [] mode # M /\ delegated # {} /\ (mode < S \/ mstatus.sie) -> Highest(bits)
         [] mode # M /\ delegated = {} /\ bits # {} -> Highest(bits)
         [] OTHER -> NoInt

\* raiseTrap: in M every trap stays in M, whatever is delegated.
EnterS == /\ sepc' = pc
          /\ mstatus' = [mstatus EXCEPT !.spie = mstatus.sie, !.sie = FALSE, !.spp = mode]
          /\ pc' = STVec
          /\ mode' = S
          /\ sframe' = [mode |-> mode, ie |-> mstatus.sie, pc |-> pc]
          /\ UNCHANGED <<mepc, intEnable, softPend, mideleg, medeleg, mframe>>

\* (mutant of EnterM: mpie is not saved)
EnterMUnsaved == /\ mepc' = pc
                 /\ mstatus' = [mstatus EXCEPT !.mie = FALSE, !.mpp = mode]
                 /\ pc' = MTVec
                 /\ mode' = M
                 /\ mframe' = [mode |-> mode, ie |-> mstatus.mie, pc |-> pc]
                 /\ UNCHANGED <<sepc, intEnable, softPend, mideleg, medeleg, sframe>>

EnterM == /\ mepc' = pc
          /\ mstatus' = [mstatus EXCEPT !.mpie = mstatus.mie, !.mie = FALSE, !.mpp = mode]
          /\ pc' = MTVec
          /\ mode' = M
          /\ mframe' = [mode |-> mode, ie |-> mstatus.mie, pc |-> pc]
          /\ UNCHANGED <<sepc, intEnable, softPend, mideleg, medeleg, sframe>>

RaiseTrap(cause, delegation) == \/ mode # M /\ cause \in delegation /\ EnterS
                                \/ ~(mode # M /\ cause \in delegation) /\ EnterM

Interrupt(W) == /\ Decision(W) # NoInt
                /\ RaiseTrap(Decision(W), mideleg)

-----------------------------------------------------------------------------
(* Instructions, executed in a step whose preExec has not trapped *)

NoInterrupt == \E W \in SUBSET Wires : Decision(W) = NoInt

\* Any instruction, an illegal one included, may raise an exception.
Exception(e) == NoInterrupt /\ RaiseTrap(e, medeleg)

Ecall == /\ NoInterrupt
         /\ RaiseTrap(CASE mode = U -> EcallU [] mode = S -> EcallS [] OTHER -> EcallM, medeleg)

\* (mutants of Mret: mprv is kept; any mode may execute it)
MretKeepsMprv ==
    /\ NoInterrupt /\ mode = M
    /\ mstatus' = [mstatus EXCEPT !.mie = mstatus.mpie, !.mpie = TRUE, !.mpp = U]
    /\ mode' = mstatus.mpp
    /\ pc' = mepc
    /\ mframe' = NoFrame
    /\ UNCHANGED <<mepc, sepc, intEnable, softPend, mideleg, medeleg, sframe>>

MretAnywhere ==
    /\ NoInterrupt
    /\ mstatus' = [mstatus EXCEPT !.mie = mstatus.mpie, !.mpie = TRUE, !.mpp = U,
                                  !.mprv = @ /\ mstatus.mpp = M]
    /\ mode' = mstatus.mpp
    /\ pc' = mepc
    /\ mframe' = NoFrame
    /\ UNCHANGED <<mepc, sepc, intEnable, softPend, mideleg, medeleg, sframe>>

Mret == /\ NoInterrupt /\ mode = M
        /\ mstatus' = [mstatus EXCEPT !.mie = mstatus.mpie, !.mpie = TRUE, !.mpp = U,
                                      !.mprv = @ /\ mstatus.mpp = M]
        /\ mode' = mstatus.mpp
        /\ pc' = mepc
        /\ mframe' = NoFrame
        /\ UNCHANGED <<mepc, sepc, intEnable, softPend, mideleg, medeleg, sframe>>

\* spp has one bit and is never M: mprv always falls.
Sret == /\ NoInterrupt /\ mode >= S /\ ~mstatus.tsr
        /\ mstatus' = [mstatus EXCEPT !.sie = mstatus.spie, !.spie = TRUE, !.spp = U,
                                      !.mprv = FALSE]
        /\ mode' = mstatus.spp
        /\ pc' = sepc
        /\ sframe' = NoFrame
        /\ UNCHANGED <<mepc, sepc, intEnable, softPend, mideleg, medeleg, mframe>>

\* An instruction that ends without a trap, in a mode that permits it.
Executes(least) == NoInterrupt /\ mode >= least /\ UNCHANGED <<mode, pc>>

MField == {"mie", "mpie", "mpp"}
SField == {"sie", "spie", "spp"}
ValuesOf(field) == CASE field = "mpp" -> Modes
                     [] field = "spp" -> {U, S}
                     [] OTHER -> BOOLEAN

\* csrWrite of mstatus; the saved half of a frame is no longer the trap's.
WriteMStatus(field, v) ==
    /\ Executes(M)
    /\ mstatus' = [mstatus EXCEPT ![field] = v]
    /\ mframe' = IF field \in {"mpie", "mpp"} THEN NoFrame ELSE mframe
    /\ sframe' = IF field \in {"spie", "spp"} THEN NoFrame ELSE sframe
    /\ UNCHANGED <<mepc, sepc, intEnable, softPend, mideleg, medeleg>>

WriteSStatus(field, v) ==
    /\ Executes(S)
    /\ mstatus' = [mstatus EXCEPT ![field] = v]
    /\ sframe' = IF field \in {"spie", "spp"} THEN NoFrame ELSE sframe
    /\ UNCHANGED <<mepc, sepc, intEnable, softPend, mideleg, medeleg, mframe>>

WriteMepc(v) == /\ Executes(M)
                /\ mepc' = v
                /\ mframe' = NoFrame
                /\ UNCHANGED <<mstatus, sepc, intEnable, softPend, mideleg, medeleg, sframe>>

WriteSepc(v) == /\ Executes(S)
                /\ sepc' = v
                /\ sframe' = NoFrame
                /\ UNCHANGED <<mstatus, mepc, intEnable, softPend, mideleg, medeleg, mframe>>

WriteMie(I) == /\ Executes(M)
               /\ intEnable' = I
               /\ UNCHANGED <<mstatus, mepc, sepc, softPend, mideleg, medeleg, mframe, sframe>>

\* (mutants of WriteSie and WriteMideleg: the mask is left out)
WriteSieUnmasked(I) ==
    /\ Executes(S)
    /\ intEnable' = I
    /\ UNCHANGED <<mstatus, mepc, sepc, softPend, mideleg, medeleg, mframe, sframe>>

WriteMidelegUnmasked(I) ==
    /\ Executes(M)
    /\ mideleg' = I
    /\ UNCHANGED <<mstatus, mepc, sepc, intEnable, softPend, medeleg, mframe, sframe>>

\* sie: the supervisor bits only, whether or not they are delegated.
WriteSie(I) == /\ Executes(S)
               /\ intEnable' = (intEnable \ SInts) \cup (I \cap SInts)
               /\ UNCHANGED <<mstatus, mepc, sepc, softPend, mideleg, medeleg, mframe, sframe>>

\* mip and sip differ only in bits the next preExec overwrites.
WriteIp(I) == /\ Executes(S)
              /\ softPend' = I \cap SSoft
              /\ UNCHANGED <<mstatus, mepc, sepc, intEnable, mideleg, medeleg, mframe, sframe>>

WriteMideleg(I) == /\ Executes(M)
                   /\ mideleg' = I \cap SInts
                   /\ UNCHANGED <<mstatus, mepc, sepc, intEnable, softPend, medeleg,
                                  mframe, sframe>>

WriteMedeleg(E) == /\ Executes(M)
                   /\ medeleg' = E \cap Delegable
                   /\ UNCHANGED <<mstatus, mepc, sepc, intEnable, softPend, mideleg,
                                  mframe, sframe>>

\* Any other instruction, which may be a jump.
OtherInstr == /\ NoInterrupt
              /\ pc' \in PCs
              /\ UNCHANGED <<mode, csrVars, mframe, sframe>>

-----------------------------------------------------------------------------
Next == \/ \E W \in SUBSET Wires : Interrupt(W)
        \/ \E e \in Exceptions : Exception(e)
        \/ Ecall \/ Mret \/ Sret
        \/ \E field \in MField \cup SField \cup {"mprv", "tsr"} :
              \E v \in ValuesOf(field) : WriteMStatus(field, v)
        \/ \E field \in SField : \E v \in ValuesOf(field) : WriteSStatus(field, v)
        \/ \E v \in PCs : WriteMepc(v) \/ WriteSepc(v)
        \/ \E I \in SUBSET Ints : \/ WriteMie(I) \/ WriteSie(I) \/ WriteIp(I)
                                  \/ WriteMideleg(I)
        \/ \E E \in MedelegWrites : WriteMedeleg(E)
        \/ OtherInstr

Spec == Init /\ [][Next]_vars

-----------------------------------------------------------------------------
TypeOK == /\ mode \in Modes /\ pc \in PCs
          /\ mstatus \in Status
          /\ mepc \in PCs /\ sepc \in PCs
          /\ intEnable \subseteq Ints /\ softPend \subseteq SSoft
          /\ mideleg \subseteq SInts /\ medeleg \subseteq Delegable
          /\ mframe \in Frame \cup {NoFrame} /\ sframe \in Frame \cup {NoFrame}

\* What a trap saved survives until it is returned from or rewritten: however
\* many traps and returns of the other level come between, mret and sret find
\* the mode, the interrupt enable and the program counter that the last trap of
\* their level interrupted.
FramesPreserved ==
    /\ mframe # NoFrame => mframe = [mode |-> mstatus.mpp, ie |-> mstatus.mpie, pc |-> mepc]
    /\ sframe # NoFrame => sframe = [mode |-> mstatus.spp, ie |-> mstatus.spie, pc |-> sepc]

\* mprv lends loads and stores the mode in mpp to M alone: the permission
\* checks, which look at it in M mode only, never disregard one that is set,
\* after any nesting of traps and returns (OpenSBI relies on mret to drop it).
MprvOnlyInM == mstatus.mprv => mode = M

\* The only way up: a step that raises the mode enters that mode at its vector
\* with its interrupts disabled.
PrivilegeGate ==
    [][mode' > mode => \/ mode' = M /\ pc' = MTVec /\ ~mstatus'.mie
                       \/ mode' = S /\ pc' = STVec /\ ~mstatus'.sie]_vars

\* What belongs to M is out of reach below M: no sequence of instructions that
\* does not trap into M changes the machine half of status, the machine bits of
\* mie, the delegations or mepc, although sstatus, sie and sip are views of the
\* same words.  Only mprv falls, by sret.
MachineState == <<mstatus.mie, mstatus.mpie, mstatus.mpp, mstatus.tsr,
                  intEnable \cap MInts, mideleg, medeleg, mepc, mframe>>

MachineStateProtected ==
    [][mode < M /\ mode' < M => /\ MachineState' = MachineState
                                /\ mstatus'.mprv => mstatus.mprv]_vars

\* The decision of preExec against the privileged architecture: an interrupt
\* goes to the mode it is delegated to, and is taken when that mode is above
\* the current one, or is the current one and enables interrupts.  Nothing else
\* is ever taken; and something is taken whenever an interrupt may be, but in S
\* with sie clear while a delegated one is pending, where the code lets it
\* suppress the interrupts of M too.
MayBeTaken(i) == IF i \in mideleg THEN mode < S \/ (mode = S /\ mstatus.sie)
                                  ELSE mode < M \/ mstatus.mie

InterruptDecision ==
    \A W \in SUBSET Wires :
        LET bits == (softPend \cup W) \cap intEnable
            ready == {i \in bits : MayBeTaken(i)}
            suppressed == mode = S /\ ~mstatus.sie /\ bits \cap mideleg # {}
        IN /\ Decision(W) # NoInt => Decision(W) \in ready
           /\ ready # {} /\ ~suppressed => Decision(W) # NoInt
=============================================================================
