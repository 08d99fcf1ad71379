-------------------------- MODULE Interrupts_proofs --------------------------
(***************************************************************************)
(* What the interrupt controller promises for any number of sources and    *)
(* contexts, any priorities and whatever other devices raise: the claim a  *)
(* context sees in an instruction is not stale, though it was latched two  *)
(* phases of the loop before.                                              *)
(*                                                                         *)
(* At the end, the core-local interruptor's timer: it comes up only for a  *)
(* time that was set and has passed, and never for a half-written one.     *)
(***************************************************************************)
EXTENDS Interrupts, WellFoundedInduction, TLAPS

-----------------------------------------------------------------------------
(* What GetInt finds *)

Less == {p \in Nat \X Nat : p[1] < p[2]}

LEMMA Smallest ==
  ASSUME NEW T \in SUBSET Nat, T # {}
  PROVE  \E x \in T : \A y \in T : x <= y
<1>1. IsWellFoundedOn(Less, Nat)
  BY NatLessThanWellFounded DEF Less, OpToRel
<1>2. PICK x \in T : \A y \in T : <<y, x>> \notin Less
  BY <1>1, WFMin
<1>3. ASSUME NEW y \in T PROVE x <= y
  <2>1. x \in Nat /\ y \in Nat
    OBVIOUS
  <2>2. y < x => <<y, x>> \in Less
    BY <2>1 DEF Less
  <2> QED
    BY <1>2, <2>1, <2>2
<1> QED
  BY <1>3

\* Of some sources with priorities up to MaxPriority, one comes first.
LEMMA FirstSource ==
  ASSUME NEW f \in [Sources -> Priorities], NEW S \in SUBSET Sources, S # {}
  PROVE  \E s \in S : \A t \in S : \/ f[s] > f[t]
                                   \/ f[s] = f[t] /\ s <= t
<1> USE InterruptsAssumption DEF Sources, Priorities
<1> DEFINE Gaps == {MaxPriority - f[s] : s \in S}
<1>1. \A s \in S : f[s] \in Nat /\ f[s] <= MaxPriority /\ s \in Nat
  OBVIOUS
<1>2. Gaps \in SUBSET Nat /\ Gaps # {}
  <2>1. Gaps \in SUBSET Nat
    BY <1>1
  <2>2. Gaps # {}
    OBVIOUS
  <2> QED
    BY <2>1, <2>2
<1>3. PICK m \in Gaps : \A y \in Gaps : m <= y
  <2> HIDE DEF Gaps
  <2> QED
    BY <1>2, Smallest
<1> DEFINE Best == {s \in S : MaxPriority - f[s] = m}
<1>4. Best \in SUBSET Nat /\ Best # {}
  BY <1>1, <1>3
<1> HIDE DEF Best
<1>5. PICK s \in Best : \A t \in Best : s <= t
  BY <1>4, Smallest
<1>6. s \in S /\ MaxPriority - f[s] = m
  BY <1>5 DEF Best
<1>7. ASSUME NEW t \in S PROVE f[s] > f[t] \/ (f[s] = f[t] /\ s <= t)
  <2>1. MaxPriority - f[s] <= MaxPriority - f[t]
    BY <1>3, <1>6
  <2>2. f[s] \in Nat /\ f[t] \in Nat
    BY <1>1, <1>6
  <2>3. f[s] > f[t] \/ f[s] = f[t]
    BY <2>1, <2>2
  <2>4. f[s] = f[t] => t \in Best
    BY <1>6 DEF Best
  <2>5. t \in Best => s <= t
    BY <1>5
  <2> QED
    BY <2>3, <2>4, <2>5
<1> QED
  BY <1>6, <1>7

\* What PLIC::tick latches for a context is eligible there, and nothing
\* eligible outranks it.
LEMMA GetIntIsBest ==
  ASSUME TypeOK, NEW c \in Contexts
  PROVE  /\ GetInt(c) \in SourceBits
         /\ GetInt(c) # 0 =>
               /\ Eligible(c, GetInt(c))
               /\ \A s \in Sources : Eligible(c, s) => priority[s] <= priority[GetInt(c)]
<1> USE InterruptsAssumption DEF TypeOK
<1> DEFINE S == {s \in Sources : Eligible(c, s) /\ priority[s] > 0}
           First(s) == \A t \in S : \/ priority[s] > priority[t]
                                    \/ priority[s] = priority[t] /\ s <= t
<1>1. GetInt(c) = IF S = {} THEN 0 ELSE CHOOSE s \in S : First(s)
  BY DEF GetInt
<1>2. CASE S = {}
  BY <1>1, <1>2 DEF SourceBits
<1>3. CASE S # {}
  <2>1. \E s \in S : First(s)
    BY <1>3, FirstSource
  <2>2. GetInt(c) \in S /\ First(GetInt(c))
    BY <1>1, <1>3, <2>1
  <2>3. ASSUME NEW s \in Sources, Eligible(c, s) PROVE priority[s] <= priority[GetInt(c)]
    <3>1. priority[s] \in Nat /\ priority[GetInt(c)] \in Nat /\ priority[GetInt(c)] > 0
      BY <2>2 DEF Priorities
    <3>2. CASE priority[s] > 0
      BY <2>2, <2>3, <3>1, <3>2
    <3> QED
      BY <3>1, <3>2
  <2> QED
    BY <2>2, <2>3 DEF Sources, SourceBits
<1> QED
  BY <1>2, <1>3

-----------------------------------------------------------------------------
(* The inductive invariant *)

IInv == TypeOK /\ LatchedClaimIsCurrent

LEMMA InitInv == Init => IInv
<1> SUFFICES ASSUME Init PROVE IInv
  OBVIOUS
<1>1. 0 \in Priorities /\ 0 \in SourceBits /\ 0 \in 0 .. MaxRx /\ 0 \in 0 .. MaxTx
  BY InterruptsAssumption DEF Priorities, SourceBits
<1>2. TypeOK
  BY <1>1 DEF Init, TypeOK
<1>3. LatchedClaimIsCurrent
  BY DEF Init, LatchedClaimIsCurrent
<1> QED
  BY <1>2, <1>3 DEF IInv

\* The tick of the controller makes every latched claim current.
LEMMA PlicTickInv == IInv /\ PlicTick => IInv'
<1> SUFFICES ASSUME IInv, PlicTick PROVE IInv'
  OBVIOUS
<1> USE DEF IInv
<1>1. \A c \in Contexts : claim'[c] = GetInt(c)
  BY DEF PlicTick
<1>2. TypeOK'
  BY GetIntIsBest DEF PlicTick, TypeOK, uartVars
<1>3. \A c \in Contexts, s \in SourceBits : Eligible(c, s)' <=> Eligible(c, s)
  BY DEF PlicTick, Eligible
<1>4. ASSUME NEW c \in Contexts, Line(c)'
      PROVE  /\ Eligible(c, claim[c])'
             /\ \A s \in Sources : Eligible(c, s)' => priority'[s] <= (priority[claim[c]])'
  BY <1>1, <1>3, <1>4, GetIntIsBest DEF PlicTick, Line, Eligible
<1> QED
  BY <1>2, <1>4 DEF LatchedClaimIsCurrent

\* The devices' tick only adds pending sources.
LEMMA DevicesTickInv ==
  ASSUME IInv, NEW fired \in SUBSET Others, DevicesTick(fired)
  PROVE  IInv'
<1> USE InterruptsAssumption DEF IInv
<1>1. TypeOK'
  BY DEF DevicesTick, TypeOK, SourceBits, Uart
<1>2. LatchedClaimIsCurrent'
  BY DEF DevicesTick, LatchedClaimIsCurrent, Line, Eligible
<1> QED
  BY <1>1, <1>2

\* An instruction may touch anything, and the controller's tick comes next.
LEMMA CoreStepInv == IInv /\ CoreStep => IInv'
<1> SUFFICES ASSUME IInv, CoreStep PROVE IInv'
  OBVIOUS
<1> USE DEF IInv, Instruction, plicVars, uartVars
<1>1. phase' = "plic"
  BY DEF CoreStep, NoAccess, StorePriority, StoreEnable, StoreThreshold, LoadClaim,
         StoreComplete, LoadUart, StoreTx, StoreControl
<1>2. LatchedClaimIsCurrent'
  BY <1>1 DEF LatchedClaimIsCurrent
<1> USE InterruptsAssumption DEF TypeOK
<1>3. CASE NoAccess
  BY <1>2, <1>3 DEF NoAccess
<1>4. ASSUME NEW s \in Sources, NEW p \in Priorities, StorePriority(s, p) PROVE TypeOK'
  BY <1>4 DEF StorePriority
<1>5. ASSUME NEW c \in Contexts, NEW S \in SUBSET Sources, StoreEnable(c, S) PROVE TypeOK'
  BY <1>5 DEF StoreEnable
<1>6. ASSUME NEW c \in Contexts, NEW p \in Priorities, StoreThreshold(c, p) PROVE TypeOK'
  BY <1>6 DEF StoreThreshold
<1>7. ASSUME NEW c \in Contexts, LoadClaim(c) PROVE TypeOK'
  BY <1>7 DEF LoadClaim
<1>8. ASSUME NEW s \in SourceBits, StoreComplete(s) PROVE TypeOK'
  BY <1>8 DEF StoreComplete
<1>9. ASSUME NEW coversRx \in BOOLEAN, LoadUart(coversRx) PROVE TypeOK'
  <2>1. rx' \in 0 .. MaxRx
    BY <1>9 DEF LoadUart
  <2>2. waitACK' \in BOOLEAN /\ tx' = tx /\ UNCHANGED plicVars
    BY <1>9 DEF LoadUart
  <2> QED
    BY <1>1, <2>1, <2>2
<1>10. CASE StoreTx
  BY <1>2, <1>10 DEF StoreTx
<1>11. ASSUME NEW resetTx \in BOOLEAN, NEW resetRx \in BOOLEAN, StoreControl(resetTx, resetRx)
       PROVE  TypeOK'
  BY <1>11 DEF StoreControl
<1> QED
  BY <1>2, <1>3, <1>4, <1>5, <1>6, <1>7, <1>8, <1>9, <1>10, <1>11 DEF CoreStep

LEMMA NextInv == IInv /\ [Next]_vars => IInv'
<1> SUFFICES ASSUME IInv, [Next]_vars PROVE IInv'
  OBVIOUS
<1>1. CASE Input
  BY <1>1, InterruptsAssumption
     DEF Input, IInv, TypeOK, LatchedClaimIsCurrent, Line, Eligible, plicVars
<1>2. CASE UNCHANGED vars
  BY <1>2 DEF vars, plicVars, uartVars, IInv, TypeOK, LatchedClaimIsCurrent, Line, Eligible
<1> QED
  BY <1>1, <1>2, PlicTickInv, DevicesTickInv, CoreStepInv DEF Next, Loop

-----------------------------------------------------------------------------
\* The type invariant: no access of the guest and no tick leaves the ranges of
\* the registers (PLIC.h, Uartlite.h).
THEOREM TypeCorrect == Spec => []TypeOK
  BY InitInv, NextInv, PTL DEF Spec, IInv

\* A latched interrupt is still pending, enabled, above the threshold and not
\* claimed when the instruction that may claim it executes (PLIC.h:120, tick).
THEOREM ClaimIsCurrent == Spec => []LatchedClaimIsCurrent
  BY InitInv, NextInv, PTL DEF Spec, IInv
-----------------------------------------------------------------------------
(* The timer of the core-local interruptor, which the same loop ticks: what it *)
(* promises for any number of harts and any width of a word.                   *)

CONSTANTS nr_hart, MaxWord
VARIABLES mtime, mtimecmp, msip, intStatus, setting, from, to

Timer == INSTANCE CLInt

\* Two words are a time, and a time is its two words.
LEMMA TimeOfWords == ASSUME NEW a \in Timer!Words, NEW b \in Timer!Words
                     PROVE  /\ Timer!Time(a, b) \in Timer!Times
                            /\ Timer!Time(a, b).hi = a /\ Timer!Time(a, b).lo = b
  BY DEF Timer!Time, Timer!Times
LEMMA WordsOfTime == ASSUME NEW t \in Timer!Times
                     PROVE  /\ t.hi \in Timer!Words /\ t.lo \in Timer!Words
                            /\ t = Timer!Time(t.hi, t.lo)
  BY DEF Timer!Time, Timer!Times

\* The type invariant: every store of the guest and every tick leaves times of
\* two words (CLInt.h do_write, tick).
THEOREM TimerTypeCorrect == ASSUME Timer!CLIntAssumption PROVE Timer!Spec => []Timer!TypeOK
<1> USE DEF Timer!TypeOK
<1>0. 0 \in Timer!Words /\ MaxWord \in Timer!Words
  BY DEF Timer!CLIntAssumption, Timer!Words
<1>1. Timer!Init => Timer!TypeOK
  BY <1>0, TimeOfWords DEF Timer!Init, Timer!Zero
<1>2. Timer!TypeOK /\ [Timer!Next]_(Timer!vars) => Timer!TypeOK'
  <2> SUFFICES ASSUME Timer!TypeOK, [Timer!Next]_(Timer!vars) PROVE Timer!TypeOK'
    OBVIOUS
  <2>1. CASE Timer!tick
    <3>1. mtime' \in Timer!Times
      <4>1. CASE mtime.lo < MaxWord
        <5>1. mtime.lo + 1 \in Timer!Words
          BY <4>1, WordsOfTime DEF Timer!Words, Timer!CLIntAssumption
        <5>2. QED
          BY <2>1, <4>1, <5>1, WordsOfTime, TimeOfWords DEF Timer!tick, Timer!Later
      <4>2. CASE ~ (mtime.lo < MaxWord)
        <5>1. (IF mtime.hi < MaxWord THEN mtime.hi + 1 ELSE 0) \in Timer!Words
          BY <1>0, WordsOfTime DEF Timer!Words, Timer!CLIntAssumption
        <5>2. QED
          BY <1>0, <2>1, <4>2, <5>1, TimeOfWords DEF Timer!tick, Timer!Later
      <4>3. QED
        BY <4>1, <4>2
    <3>2. intStatus' \in [Timer!Harts -> [mtip : BOOLEAN, msip : BOOLEAN]]
      <4>1. \A h \in Timer!Harts : Timer!m_t_irq(h) \in BOOLEAN /\ Timer!m_s_irq(h) \in BOOLEAN
        BY DEF Timer!m_t_irq, Timer!m_s_irq, Timer!Before
      <4>2. QED
        BY <4>1, <2>1 DEF Timer!tick
    <3>3. QED
      BY <2>1, <3>1, <3>2 DEF Timer!tick
  <2>2. ASSUME NEW t \in Timer!Times, Timer!StoreTime(t) PROVE Timer!TypeOK'
    BY <2>2 DEF Timer!StoreTime
  <2>3. ASSUME NEW h \in Timer!Harts, NEW raised \in BOOLEAN, Timer!StoreSoftware(h, raised)
        PROVE Timer!TypeOK'
    BY <2>3 DEF Timer!StoreSoftware
  <2>4. ASSUME NEW h \in Timer!Harts, NEW t \in Timer!Times, Timer!SetWhole(h, t)
        PROVE Timer!TypeOK'
    BY <1>0, <2>4, WordsOfTime, TimeOfWords DEF Timer!SetWhole, Timer!StoreCmp
  <2>5. ASSUME NEW h \in Timer!Harts, NEW t \in Timer!Times, Timer!SetFirst(h, t)
        PROVE Timer!TypeOK'
    BY <1>0, <2>5, WordsOfTime, TimeOfWords DEF Timer!SetFirst, Timer!StoreCmp
  <2>6. ASSUME NEW h \in Timer!Harts, Timer!SetHigh(h) PROVE Timer!TypeOK'
    BY <1>0, <2>6, WordsOfTime, TimeOfWords DEF Timer!SetHigh, Timer!StoreCmp
  <2>7. ASSUME NEW h \in Timer!Harts, Timer!SetLow(h) PROVE Timer!TypeOK'
    BY <1>0, <2>7, WordsOfTime, TimeOfWords DEF Timer!SetLow, Timer!StoreCmp
  <2>8. CASE UNCHANGED Timer!vars
    BY <2>8 DEF Timer!vars
  <2>9. QED
    BY <2>1, <2>2, <2>3, <2>4, <2>5, <2>6, <2>7, <2>8 DEF Timer!Next
<1>3. QED
  BY <1>1, <1>2, PTL DEF Timer!Spec

\* The mixture a comparison sees between two stores (CLInt.h:54).
THEOREM CmpAlwaysLate == ASSUME Timer!CLIntAssumption PROVE Timer!Spec => []Timer!CmpIsLate
<1>1. Timer!Init => Timer!CmpIsLate
  BY DEF Timer!Init, Timer!CmpIsLate
<1>2. Timer!TypeOK /\ Timer!CmpIsLate /\ [Timer!Next]_(Timer!vars) => Timer!CmpIsLate'
  <2> SUFFICES ASSUME Timer!TypeOK, Timer!CmpIsLate, [Timer!Next]_(Timer!vars)
               PROVE Timer!CmpIsLate'
    OBVIOUS
  <2> USE DEF Timer!CmpIsLate, Timer!TypeOK, Timer!Times
  <2>1. CASE UNCHANGED <<mtimecmp, setting, from, to>>
    BY <2>1
  <2>2. ASSUME NEW h \in Timer!Harts, NEW t \in Timer!Times, Timer!SetWhole(h, t)
        PROVE Timer!CmpIsLate'
    BY <2>2 DEF Timer!SetWhole, Timer!StoreCmp
  <2>3. ASSUME NEW h \in Timer!Harts, NEW t \in Timer!Times, Timer!SetFirst(h, t)
        PROVE Timer!CmpIsLate'
    BY <2>3 DEF Timer!SetFirst, Timer!StoreCmp
  <2>4. ASSUME NEW h \in Timer!Harts, Timer!SetHigh(h) PROVE Timer!CmpIsLate'
    <3>1. mtimecmp[h].lo = MaxWord
      BY <2>4 DEF Timer!SetHigh, Timer!Time
    <3>2. QED
      BY <2>4, <3>1 DEF Timer!SetHigh, Timer!StoreCmp
  <2>5. ASSUME NEW h \in Timer!Harts, Timer!SetLow(h) PROVE Timer!CmpIsLate'
    <3>1. Timer!Time(mtimecmp[h].hi, to[h].lo) = to[h]
      BY <2>5, WordsOfTime DEF Timer!SetLow, Timer!Time
    <3>2. QED
      BY <2>5, <3>1 DEF Timer!SetLow, Timer!StoreCmp
  <2>6. QED
    BY <2>1, <2>2, <2>3, <2>4, <2>5
       DEF Timer!Next, Timer!tick, Timer!StoreTime, Timer!StoreSoftware, Timer!vars
<1>3. QED
  BY <1>1, <1>2, TimerTypeCorrect, PTL DEF Timer!Spec

\* The timer line comes up only for a time that has been set or is being set,
\* and at once for one that is set (CLInt.h:69-87).
THEOREM TimerComesWhenDue == ASSUME Timer!CLIntAssumption PROVE Timer!Spec => Timer!TimerIsDue
<1> DEFINE Due == \A h \in Timer!Harts : intStatus'[h] # intStatus[h] =>
          /\ intStatus'[h].mtip => Timer!Before(from[h], mtime) \/ Timer!Before(to[h], mtime)
          /\ ~ intStatus'[h].mtip /\ setting[h] = 0 => ~ Timer!Before(from[h], mtime)
<1>1. Timer!TypeOK /\ Timer!CmpIsLate /\ [Timer!Next]_(Timer!vars) => [Due]_(Timer!vars)
  <2> SUFFICES ASSUME Timer!TypeOK, Timer!CmpIsLate, Timer!Next PROVE Due
    OBVIOUS
  <2> SUFFICES ASSUME Timer!tick PROVE Due
    BY DEF Timer!Next, Timer!StoreTime, Timer!StoreSoftware, Timer!SetWhole, Timer!SetFirst,
           Timer!SetHigh, Timer!SetLow, Timer!StoreCmp
  <2> SUFFICES ASSUME NEW h \in Timer!Harts
               PROVE  /\ intStatus'[h].mtip =>
                            Timer!Before(from[h], mtime) \/ Timer!Before(to[h], mtime)
                      /\ ~ intStatus'[h].mtip /\ setting[h] = 0 => ~ Timer!Before(from[h], mtime)
    OBVIOUS
  <2>1. intStatus'[h].mtip = Timer!Before(mtimecmp[h], mtime)
    BY DEF Timer!tick, Timer!m_t_irq
  <2>2. CASE setting[h] = 0
    BY <2>1, <2>2 DEF Timer!CmpIsLate
  <2>0. \A t \in {from[h], to[h], mtime} : t.hi \in Int /\ t.lo \in Int /\ t.lo <= MaxWord
    BY WordsOfTime DEF Timer!TypeOK, Timer!Words, Timer!CLIntAssumption
  <2>3. CASE setting[h] = 1
    <3>1. Timer!Before(Timer!Time(from[h].hi, MaxWord), mtime) => Timer!Before(from[h], mtime)
      BY <2>0 DEF Timer!Before, Timer!Time, Timer!CLIntAssumption
    <3>2. QED
      BY <2>1, <2>3, <3>1 DEF Timer!CmpIsLate
  <2>4. CASE setting[h] = 2
    <3>1. Timer!Before(Timer!Time(to[h].hi, MaxWord), mtime) => Timer!Before(to[h], mtime)
      BY <2>0 DEF Timer!Before, Timer!Time, Timer!CLIntAssumption
    <3>2. QED
      BY <2>1, <2>4, <3>1 DEF Timer!CmpIsLate
  <2>5. QED
    BY <2>2, <2>3, <2>4 DEF Timer!TypeOK
<1>2. QED
  BY <1>1, TimerTypeCorrect, CmpAlwaysLate, PTL DEF Timer!Spec, Timer!TimerIsDue
=============================================================================
