------------------------------- MODULE CLInt --------------------------------
(***************************************************************************)
(* The core-local interruptor (CLInt.h): a clock, and for every hart a     *)
(* time to compare it with and a software interrupt, which the main loop's *)
(* tick turns into the lines of the hart's IntStatus.                      *)
(*                                                                         *)
(* A time is 64 bits; a guest may store it whole or in two words, with     *)
(* ticks in between.  The guest below sets a timer in either way, in words *)
(* the way the privileged architecture advises: the low word to all ones   *)
(* first, then the high word, then the low word.                           *)
(***************************************************************************)
EXTENDS Integers

CONSTANTS nr_hart,   \* the number of harts
          MaxWord    \* 2^32 - 1

CLIntAssumption == nr_hart \in Nat /\ MaxWord \in Nat

Harts == 0 .. nr_hart - 1
Words == 0 .. MaxWord
Times == [hi : Words, lo : Words]
Time(hi, lo) == [hi |-> hi, lo |-> lo]
Before(s, t) == s.hi < t.hi \/ (s.hi = t.hi /\ s.lo < t.lo)

VARIABLES mtime, mtimecmp, msip,
          intStatus,   \* intStatus[h]: the lines mtip and msip of the hart
          setting,     \* setting[h]: how many stores of words the guest has made
          from, to     \* History: the last time set, and the one being set

vars == <<mtime, mtimecmp, msip, intStatus, setting, from, to>>

Zero == Time(0, 0)

Init == /\ mtime = Zero
        /\ mtimecmp = [h \in Harts |-> Zero]
        /\ msip = [h \in Harts |-> FALSE]
        /\ intStatus = [h \in Harts |-> [mtip |-> FALSE, msip |-> FALSE]]
        /\ setting = [h \in Harts |-> 0]
        /\ from = mtimecmp /\ to = mtimecmp

-----------------------------------------------------------------------------
m_t_irq(h) == Before(mtimecmp[h], mtime)
m_s_irq(h) == msip[h]

\* mtime++, which wraps
Later(t) == IF t.lo < MaxWord THEN Time(t.hi, t.lo + 1)
            ELSE Time(IF t.hi < MaxWord THEN t.hi + 1 ELSE 0, 0)

\* The lines are set from the time before it advances.
tick == /\ intStatus' = [h \in Harts |-> [mtip |-> m_t_irq(h), msip |-> m_s_irq(h)]]
        /\ mtime' = Later(mtime)
        /\ UNCHANGED <<mtimecmp, msip, setting, from, to>>

\* do_write, at the registers
StoreTime(t) == /\ mtime' = t
                /\ UNCHANGED <<mtimecmp, msip, intStatus, setting, from, to>>

StoreSoftware(h, raised) ==
    /\ msip' = [msip EXCEPT ![h] = raised]
    /\ UNCHANGED <<mtime, mtimecmp, intStatus, setting, from, to>>

StoreCmp(h, t) == /\ mtimecmp' = [mtimecmp EXCEPT ![h] = t]
                  /\ UNCHANGED <<mtime, msip, intStatus>>

SetWhole(h, t) ==
    /\ setting[h] = 0
    /\ StoreCmp(h, t)
    /\ from' = [from EXCEPT ![h] = t] /\ to' = [to EXCEPT ![h] = t]
    /\ UNCHANGED setting

SetFirst(h, t) ==
    /\ setting[h] = 0 /\ setting' = [setting EXCEPT ![h] = 1]
    /\ StoreCmp(h, Time(mtimecmp[h].hi, MaxWord))
    /\ to' = [to EXCEPT ![h] = t]
    /\ UNCHANGED from

SetHigh(h) ==
    /\ setting[h] = 1 /\ setting' = [setting EXCEPT ![h] = 2]
    /\ StoreCmp(h, Time(to[h].hi, mtimecmp[h].lo))
    /\ UNCHANGED <<from, to>>

SetLow(h) ==
    /\ setting[h] = 2 /\ setting' = [setting EXCEPT ![h] = 0]
    /\ StoreCmp(h, Time(mtimecmp[h].hi, to[h].lo))
    /\ from' = [from EXCEPT ![h] = to[h]]
    /\ UNCHANGED to

Next == \/ tick
        \/ \E t \in Times : StoreTime(t)
        \/ \E h \in Harts, raised \in BOOLEAN : StoreSoftware(h, raised)
        \/ \E h \in Harts, t \in Times : SetWhole(h, t) \/ SetFirst(h, t)
        \/ \E h \in Harts : SetHigh(h) \/ SetLow(h)

Spec == Init /\ [][Next]_vars

-----------------------------------------------------------------------------
TypeOK == /\ mtime \in Times
          /\ mtimecmp \in [Harts -> Times] /\ from \in [Harts -> Times] /\ to \in [Harts -> Times]
          /\ msip \in [Harts -> BOOLEAN]
          /\ intStatus \in [Harts -> [mtip : BOOLEAN, msip : BOOLEAN]]
          /\ setting \in [Harts -> 0 .. 2]

\* Between the stores of a new time the comparison sees a mixture: of the time
\* before with all ones, or of the new high word with all ones.  Neither is
\* before the time it stands for.
CmpIsLate ==
    \A h \in Harts :
        /\ setting[h] = 0 => mtimecmp[h] = from[h]
        /\ setting[h] = 1 => mtimecmp[h] = Time(from[h].hi, MaxWord)
        /\ setting[h] = 2 => mtimecmp[h] = Time(to[h].hi, MaxWord)

\* Whatever ticks fall between the stores of a new time, the timer line of a
\* hart comes up only when the time set before or the time being set has
\* passed, never for the mixture of the two (CLInt.h:54, 86); and it comes up
\* in every tick that finds a time set completely has passed.
TimerIsDue ==
    [][\A h \in Harts : intStatus'[h] # intStatus[h] =>
          /\ intStatus'[h].mtip => Before(from[h], mtime) \/ Before(to[h], mtime)
          /\ ~ intStatus'[h].mtip /\ setting[h] = 0 => ~ Before(from[h], mtime)]_vars
=============================================================================
