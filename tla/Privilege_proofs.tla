-------------------------- MODULE Privilege_proofs --------------------------
(***************************************************************************)
(* What holds of Privilege for every set of interrupts and exceptions: the *)
(* frames of both levels survive, the mode rises only through a vector,    *)
(* machine state is out of reach below M, and the decision about           *)
(* interrupts agrees with the architecture.                                *)
(*                                                                         *)
(* FramesPreserved and MprvOnlyInM with TypeOK are inductive.  The         *)
(* decision needs that Highest finds an element of a non-empty set of      *)
(* interrupts, which it does because there are six ranks.                  *)
(***************************************************************************)
EXTENDS Privilege, TLAPS

IInv == TypeOK /\ FramesPreserved /\ MprvOnlyInM

-----------------------------------------------------------------------------
(* Types and frames *)

\* A trap changes the frame of its own level only, and to the truth.
LEMMA TrapInv ==
  ASSUME IInv, NEW cause, NEW delegation, RaiseTrap(cause, delegation)
  PROVE  IInv'
<1> USE PrivilegeAssumption, FrameAssumption
    DEF IInv, TypeOK, FramesPreserved, MprvOnlyInM, Status, Frame, Modes, U, S, M
<1>1. CASE mode # M /\ EnterS
  BY <1>1 DEF EnterS
<1>2. CASE EnterM
  BY <1>2 DEF EnterM
<1> QED
  BY <1>1, <1>2 DEF RaiseTrap

LEMMA InitInv == Init => IInv
  BY PrivilegeAssumption
     DEF Init, IInv, TypeOK, FramesPreserved, MprvOnlyInM, Status, Frame, Modes, U, S, M

LEMMA NextInv == IInv /\ [Next]_vars => IInv'
<1> SUFFICES ASSUME IInv, [Next]_vars PROVE IInv'
  OBVIOUS
<1>1. ASSUME NEW W \in SUBSET Wires, Interrupt(W) PROVE IInv'
  BY <1>1, TrapInv DEF Interrupt
<1>2. ASSUME NEW e \in Exceptions, Exception(e) PROVE IInv'
  BY <1>2, TrapInv DEF Exception
<1>3. CASE Ecall
  BY <1>3, TrapInv DEF Ecall
<1> USE PrivilegeAssumption, FrameAssumption
    DEF IInv, TypeOK, FramesPreserved, MprvOnlyInM, Status, Frame, Modes, U, S, M
<1>4. CASE Mret
  BY <1>4 DEF Mret
<1>5. CASE Sret
  BY <1>5 DEF Sret
<1>6. ASSUME NEW field \in MField \cup SField \cup {"mprv", "tsr"}, NEW v \in ValuesOf(field),
             WriteMStatus(field, v)
      PROVE IInv'
  BY <1>6 DEF WriteMStatus, Executes, MField, SField, ValuesOf
<1>7. ASSUME NEW field \in SField, NEW v \in ValuesOf(field), WriteSStatus(field, v)
      PROVE IInv'
  BY <1>7 DEF WriteSStatus, Executes, SField, ValuesOf
<1>8. ASSUME NEW v \in PCs, WriteMepc(v) \/ WriteSepc(v) PROVE IInv'
  BY <1>8 DEF WriteMepc, WriteSepc, Executes
<1>9. ASSUME NEW I \in SUBSET Ints, WriteMie(I) \/ WriteSie(I) \/ WriteIp(I) \/ WriteMideleg(I)
      PROVE IInv'
  BY <1>9 DEF WriteMie, WriteSie, WriteIp, WriteMideleg, Executes, SInts
<1>10. ASSUME NEW E \in MedelegWrites, WriteMedeleg(E) PROVE IInv'
  BY <1>10 DEF WriteMedeleg, Executes
<1>11. CASE OtherInstr
  BY <1>11 DEF OtherInstr, csrVars
<1>12. CASE UNCHANGED vars
  BY <1>12 DEF vars, csrVars
<1> QED
  BY <1>1, <1>2, <1>3, <1>4, <1>5, <1>6, <1>7, <1>8, <1>9, <1>10, <1>11, <1>12 DEF Next

LEMMA Inductive == Spec => []IInv
  BY InitInv, NextInv, PTL DEF Spec

\* rv64_privilege.cpp: every register keeps its range, the masks of mideleg and
\* medeleg included.
THEOREM TypeCorrect == Spec => []TypeOK
  BY Inductive, PTL DEF IInv

\* raiseTrap, mret and sret: through any nesting of traps, each level returns
\* to what its last trap interrupted.
THEOREM FramesSurvive == Spec => []FramesPreserved
  BY Inductive, PTL DEF IInv

\* mret, sret and raiseTrap: every way out of M drops mprv.
THEOREM MprvConfined == Spec => []MprvOnlyInM
  BY Inductive, PTL DEF IInv

-----------------------------------------------------------------------------
(* The ways up and the protection of machine state *)

\* raiseTrap enters the mode it traps to at its vector, with its interrupts
\* disabled; no other instruction raises the mode.
THEOREM GateHolds == Spec => PrivilegeGate
<1> DEFINE Gate == mode' > mode => \/ mode' = M /\ pc' = MTVec /\ ~mstatus'.mie
                                   \/ mode' = S /\ pc' = STVec /\ ~mstatus'.sie
<1> USE DEF Modes, U, S, M
<1>1. ASSUME IInv, NEW cause, NEW delegation, RaiseTrap(cause, delegation) PROVE Gate
  BY <1>1 DEF IInv, TypeOK, Status, RaiseTrap, EnterS, EnterM
<1>2. ASSUME IInv, Next PROVE Gate
  <2>1. ASSUME NEW W \in SUBSET Wires, Interrupt(W) PROVE Gate
    BY <1>1, <1>2, <2>1 DEF Interrupt
  <2>2. ASSUME NEW e \in Exceptions, Exception(e) PROVE Gate
    BY <1>1, <1>2, <2>2 DEF Exception
  <2>3. CASE Ecall
    BY <1>1, <1>2, <2>3 DEF Ecall
  <2>4. CASE Mret \/ Sret
    BY <1>2, <2>4 DEF IInv, TypeOK, Status, Mret, Sret
  <2>5. ASSUME mode' = mode PROVE Gate
    BY <1>2, <2>5 DEF IInv, TypeOK
  <2>6. \/ \E W \in SUBSET Wires : Interrupt(W)
        \/ \E e \in Exceptions : Exception(e)
        \/ Ecall \/ Mret \/ Sret
        \/ mode' = mode
    BY <1>2 DEF Next, WriteMStatus, WriteSStatus, WriteMepc, WriteSepc, WriteMie, WriteSie,
                WriteIp, WriteMideleg, WriteMedeleg, OtherInstr, Executes
  <2> QED
    BY <2>1, <2>2, <2>3, <2>4, <2>5, <2>6
<1>3. ASSUME IInv, UNCHANGED vars PROVE Gate
  BY <1>3 DEF vars, IInv, TypeOK
<1> QED
  BY <1>2, <1>3, Inductive, PTL DEF Spec, PrivilegeGate

\* csr_op_permission_check, the masks of sie and sip, and sret: nothing that
\* runs below M reaches machine state.
THEOREM MachineProtected == Spec => MachineStateProtected
<1> DEFINE Protected == mode < M /\ mode' < M => /\ MachineState' = MachineState
                                                 /\ mstatus'.mprv => mstatus.mprv
<1> USE DEF Modes, U, S, M, MachineState
<1>1. ASSUME IInv, NEW cause, NEW delegation, RaiseTrap(cause, delegation) PROVE Protected
  <2>1. CASE EnterM
    BY <2>1 DEF EnterM
  <2>2. CASE EnterS
    <3>1. mstatus \in Status
      BY <1>1 DEF IInv, TypeOK
    <3>2. /\ mstatus'.mie = mstatus.mie /\ mstatus'.mpie = mstatus.mpie
          /\ mstatus'.mpp = mstatus.mpp /\ mstatus'.tsr = mstatus.tsr
          /\ mstatus'.mprv = mstatus.mprv
      BY <2>2, <3>1 DEF EnterS, Status
    <3> QED
      BY <2>2, <3>2 DEF EnterS
  <2> QED
    BY <1>1, <2>1, <2>2 DEF RaiseTrap
<1>2. ASSUME IInv, Next PROVE Protected
  <2>1. ASSUME NEW W \in SUBSET Wires, Interrupt(W) PROVE Protected
    BY <1>1, <1>2, <2>1 DEF Interrupt
  <2>2. ASSUME NEW e \in Exceptions, Exception(e) PROVE Protected
    BY <1>1, <1>2, <2>2 DEF Exception
  <2>3. CASE Ecall
    BY <1>1, <1>2, <2>3 DEF Ecall
  <2>4. CASE Mret
    BY <2>4 DEF Mret
  <2>5. CASE Sret
    BY <1>2, <2>5 DEF IInv, TypeOK, Status, Sret
  <2>6. ASSUME NEW field \in SField, NEW v \in ValuesOf(field), WriteSStatus(field, v)
        PROVE Protected
    BY <1>2, <2>6 DEF IInv, TypeOK, Status, WriteSStatus, SField, Executes
  <2>7. ASSUME NEW I \in SUBSET Ints, WriteSie(I) PROVE Protected
    <3>1. intEnable' \cap MInts = intEnable \cap MInts
      BY <2>7, PrivilegeAssumption DEF WriteSie
    <3> QED
      BY <2>7, <3>1 DEF WriteSie
  <2>8. ASSUME NEW I \in SUBSET Ints, WriteIp(I) PROVE Protected
    BY <2>8 DEF WriteIp
  <2>9. ASSUME NEW v \in PCs, WriteSepc(v) PROVE Protected
    BY <2>9 DEF WriteSepc
  <2>10. CASE OtherInstr
    BY <2>10 DEF OtherInstr, csrVars
  <2>11. ASSUME mode >= M PROVE Protected
    BY <1>2, <2>11 DEF IInv, TypeOK
  <2> QED
    BY <1>2, <2>1, <2>2, <2>3, <2>4, <2>5, <2>6, <2>7, <2>8, <2>9, <2>10, <2>11
       DEF Next, WriteMStatus, WriteMepc, WriteMie, WriteMideleg, WriteMedeleg, Executes
<1>3. ASSUME IInv, UNCHANGED vars PROVE Protected
  BY <1>3 DEF vars, csrVars
<1> QED
  BY <1>2, <1>3, Inductive, PTL DEF Spec, MachineStateProtected

-----------------------------------------------------------------------------
(* The interrupt decision *)

\* bits_to_int_type finds an interrupt in every set that has one.
LEMMA HighestIn ==
  ASSUME NEW I \in SUBSET Ints, I # {}
  PROVE  Highest(I) \in I
<1> DEFINE Least(n) == \E i \in I : Rank[i] = n /\ \A j \in I : n <= Rank[j]
<1>1. \A i \in I : Rank[i] \in 1 .. 6
  BY PrivilegeAssumption
<1>2. Least(1) \/ \A j \in I : 2 <= Rank[j]
  BY <1>1
<1>3. Least(1) \/ Least(2) \/ \A j \in I : 3 <= Rank[j]
  BY <1>1, <1>2
<1>4. Least(1) \/ Least(2) \/ Least(3) \/ \A j \in I : 4 <= Rank[j]
  BY <1>1, <1>3
<1>5. Least(1) \/ Least(2) \/ Least(3) \/ Least(4) \/ \A j \in I : 5 <= Rank[j]
  BY <1>1, <1>4
<1>6. Least(1) \/ Least(2) \/ Least(3) \/ Least(4) \/ Least(5) \/ \A j \in I : 6 <= Rank[j]
  BY <1>1, <1>5
<1>7. \E n \in 1 .. 6 : Least(n)
  BY <1>1, <1>6
<1>8. \E i \in I : \A j \in I : Rank[i] <= Rank[j]
  BY <1>7
<1> QED
  BY <1>8 DEF Highest

\* preExec takes only interrupts the architecture lets it take, and takes one
\* whenever it may, but where S with sie clear suppresses them.
THEOREM DecisionCorrect == Spec => []InterruptDecision
<1>1. ASSUME IInv PROVE InterruptDecision
  <2> SUFFICES ASSUME NEW W \in SUBSET Wires
               PROVE  LET bits == (softPend \cup W) \cap intEnable
                          ready == {i \in bits : MayBeTaken(i)}
                          suppressed == mode = S /\ ~mstatus.sie /\ bits \cap mideleg # {}
                      IN /\ Decision(W) # NoInt => Decision(W) \in ready
                         /\ ready # {} /\ ~suppressed => Decision(W) # NoInt
    BY DEF InterruptDecision
  <2> DEFINE bits == (softPend \cup W) \cap intEnable
             machine == bits \ mideleg
             delegated == bits \cap mideleg
             ready == {i \in bits : MayBeTaken(i)}
  <2>1. bits \in SUBSET Ints /\ machine \in SUBSET Ints
    BY <1>1 DEF IInv, TypeOK
  <2>2. mode \in Modes /\ mstatus.mie \in BOOLEAN /\ mstatus.sie \in BOOLEAN
    BY <1>1 DEF IInv, TypeOK, Status
  <2>3. CASE mode = M
    <3>1. CASE mstatus.mie /\ machine # {}
      <4>1. Decision(W) = Highest(machine)
        BY <2>3, <3>1 DEF Decision
      <4> QED
        BY <2>1, <3>1, <4>1, HighestIn, PrivilegeAssumption DEF MayBeTaken
    <3>2. CASE ~(mstatus.mie /\ machine # {})
      <4>1. Decision(W) = NoInt
        BY <2>3, <3>2 DEF Decision
      <4>2. ready = {}
        BY <2>2, <2>3, <3>2 DEF MayBeTaken, S, M
      <4> QED
        BY <4>1, <4>2
    <3> QED
      BY <3>1, <3>2
  <2>4. CASE mode # M
    <3>0. mode = U \/ mode = S
      BY <2>2, <2>4 DEF Modes
    <3>1. CASE delegated # {} /\ (mode < S \/ mstatus.sie)
      <4>1. Decision(W) = Highest(bits)
        BY <2>4, <3>1 DEF Decision
      <4>2. Highest(bits) \in bits
        BY <2>1, <3>1, HighestIn
      <4>3. MayBeTaken(Highest(bits))
        BY <3>0, <3>1, <4>2 DEF MayBeTaken, U, S, M
      <4> QED
        BY <2>1, <4>1, <4>2, <4>3, PrivilegeAssumption
    <3>2. CASE delegated = {} /\ bits # {}
      <4>1. Decision(W) = Highest(bits)
        BY <2>4, <3>2 DEF Decision
      <4>2. Highest(bits) \in bits
        BY <2>1, <3>2, HighestIn
      <4>3. MayBeTaken(Highest(bits))
        BY <3>0, <3>2, <4>2 DEF MayBeTaken, U, S, M
      <4> QED
        BY <2>1, <4>1, <4>2, <4>3, PrivilegeAssumption
    <3>3. CASE ~(delegated # {} /\ (mode < S \/ mstatus.sie)) /\ ~(delegated = {} /\ bits # {})
      <4>1. Decision(W) = NoInt
        BY <2>4, <3>3 DEF Decision
      <4>2. bits = {} \/ (mode = S /\ ~mstatus.sie /\ delegated # {})
        BY <3>0, <3>3 DEF U, S
      <4> QED
        BY <4>1, <4>2
    <3> QED
      BY <3>1, <3>2, <3>3
  <2> QED
    BY <2>3, <2>4
<1> QED
  BY <1>1, Inductive, PTL
=============================================================================
