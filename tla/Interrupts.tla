----------------------------- MODULE Interrupts -----------------------------
(***************************************************************************)
(* The external interrupt path of the full system: the UART lite, the      *)
(* platform-level interrupt controller, and the loop of the main thread    *)
(* that ticks the one, then the other, then executes one instruction       *)
(* (example/simple_full_sys.cpp), while the UART's input thread pushes     *)
(* characters whenever they arrive.                                        *)
(*                                                                         *)
(* The guest is unknown: in the instruction it executes it may make any    *)
(* one access to the two devices.  It uses register addresses the          *)
(* controller implements; characters are counted, not told apart.          *)
(***************************************************************************)
EXTENDS Integers

CONSTANTS NrSource,    \* nr_source; the UART is source 1
          NrContext,   \* nr_context
          Others,      \* the sources other devices raise
          MaxPriority, \* bound: the priorities and thresholds the guest uses
          MaxRx,       \* bound: how far rx may grow
          MaxTx        \* bound: how far tx may grow in one instruction

ASSUME InterruptsAssumption ==
    /\ NrSource \in Nat \ {0} /\ NrContext \in Nat \ {0}
    /\ Others \subseteq 2 .. NrSource
    /\ MaxPriority \in Nat /\ MaxRx \in Nat /\ MaxTx \in Nat

Sources == 1 .. NrSource
SourceBits == 0 .. NrSource      \* source 0 is reserved, its bit is not
Contexts == 0 .. NrContext - 1
Priorities == 0 .. MaxPriority
Uart == 1

VARIABLES
    phase,      \* which object the loop of the main thread ticks next
    priority, pending, enable, threshold, claimed,
    claim,      \* claim[c]: the interrupt latched for context c, 0 if none
    rx, tx,     \* how many characters are in the UART's queues
    waitACK

plicVars == <<priority, pending, enable, threshold, claimed, claim>>
uartVars == <<rx, tx, waitACK>>
vars == <<phase, plicVars, uartVars>>

Init == /\ phase = "plic"
        /\ priority = [s \in Sources |-> 0]
        /\ pending = {} /\ claimed = {}
        /\ enable = [c \in Contexts |-> {}]
        /\ threshold = [c \in Contexts |-> 0]
        /\ claim = [c \in Contexts |-> 0]
        /\ rx = 0 /\ tx = 0 /\ waitACK = FALSE

-----------------------------------------------------------------------------
(* The ticks *)

\* What the condition in get_int asks of a source.
Eligible(c, s) == /\ priority[s] >= threshold[c]
                  /\ s \in pending
                  /\ s \in enable[c]
                  /\ s \notin claimed

\* The eligible source of the highest priority above 0, the first of equals;
\* 0 if there is none.
GetInt(c) ==
    LET S == {s \in Sources : Eligible(c, s) /\ priority[s] > 0}
    IN IF S = {} THEN 0
       ELSE CHOOSE s \in S : \A t \in S : \/ priority[s] > priority[t]
                                          \/ priority[s] = priority[t] /\ s <= t

\* (mutant of PlicTick: a claim is latched, never taken back)
PlicTickKeeps == /\ phase = "plic"
                 /\ claim' = [c \in Contexts |-> IF GetInt(c) # 0 THEN GetInt(c) ELSE claim[c]]
                 /\ phase' = "uart"
                 /\ UNCHANGED <<priority, pending, enable, threshold, claimed, uartVars>>

\* PLIC::tick latches the claim of every context; the line to the core
\* (meip, seip, ...) is up when it latched one.
PlicTick == /\ phase = "plic"
            /\ claim' = [c \in Contexts |-> GetInt(c)]
            /\ phase' = "uart"
            /\ UNCHANGED <<priority, pending, enable, threshold, claimed, uartVars>>

Line(c) == claim[c] # 0

\* (mutant of HasIRQ: only transmission interrupts)
HasTxIRQ == waitACK

HasIRQ == rx > 0 \/ waitACK

\* Uartlite::tick: raise the interrupt, then transmit all of tx.  Whatever
\* other devices there are raise theirs here too.
DevicesTick(fired) ==
    /\ phase = "uart"
    /\ pending' = pending \cup fired \cup (IF HasIRQ THEN {Uart} ELSE {})
    /\ tx' = 0
    /\ waitACK' = (waitACK \/ tx > 0)
    /\ phase' = "core"
    /\ UNCHANGED <<priority, enable, threshold, claimed, claim, rx>>

\* readInput, on its own thread
Input == /\ rx < MaxRx
         /\ rx' = rx + 1
         /\ UNCHANGED <<phase, plicVars, tx, waitACK>>

-----------------------------------------------------------------------------
(* One instruction of the guest: at most one access to a device *)

Instruction == phase = "core" /\ phase' = "plic"

NoAccess == Instruction /\ UNCHANGED <<plicVars, uartVars>>

StorePriority(s, p) ==
    /\ Instruction
    /\ priority' = [priority EXCEPT ![s] = p]
    /\ UNCHANGED <<pending, enable, threshold, claimed, claim, uartVars>>

StoreEnable(c, S) ==
    /\ Instruction
    /\ enable' = [enable EXCEPT ![c] = S]
    /\ UNCHANGED <<priority, pending, threshold, claimed, claim, uartVars>>

StoreThreshold(c, p) ==
    /\ Instruction
    /\ threshold' = [threshold EXCEPT ![c] = p]
    /\ UNCHANGED <<priority, pending, enable, claimed, claim, uartVars>>

\* A load of claim/complete returns the latched claim and marks it claimed,
\* source 0 too when nothing is latched.
LoadClaim(c) ==
    /\ Instruction
    /\ claimed' = claimed \cup {claim[c]}
    /\ UNCHANGED <<priority, pending, enable, threshold, claim, uartVars>>

\* A store to claim/complete of any context clears both bits of the source it
\* names, whether or not it was claimed.
StoreComplete(s) ==
    /\ Instruction
    /\ claimed' = claimed \ {s}
    /\ pending' = pending \ {s}
    /\ UNCHANGED <<priority, enable, threshold, claim, uartVars>>

\* (mutant of LoadUart: an empty queue is popped)
LoadUartPops(coversRx) ==
    /\ Instruction
    /\ waitACK' = FALSE
    /\ rx' = IF coversRx THEN rx - 1 ELSE rx
    /\ UNCHANGED <<plicVars, tx>>

\* A load of any UART register acknowledges; one that covers rx_fifo also pops.
LoadUart(coversRx) ==
    /\ Instruction
    /\ waitACK' = FALSE
    /\ rx' = IF coversRx /\ rx > 0 THEN rx - 1 ELSE rx
    /\ UNCHANGED <<plicVars, tx>>

StoreTx == /\ Instruction
           /\ tx < MaxTx
           /\ tx' = tx + 1
           /\ UNCHANGED <<plicVars, rx, waitACK>>

\* A store to control may reset either queue.
StoreControl(resetTx, resetRx) ==
    /\ Instruction
    /\ tx' = IF resetTx THEN 0 ELSE tx
    /\ rx' = IF resetRx THEN 0 ELSE rx
    /\ UNCHANGED <<plicVars, waitACK>>

CoreStep == \/ NoAccess
            \/ \E s \in Sources, p \in Priorities : StorePriority(s, p)
            \/ \E c \in Contexts, S \in SUBSET Sources : StoreEnable(c, S)
            \/ \E c \in Contexts, p \in Priorities : StoreThreshold(c, p)
            \/ \E c \in Contexts : LoadClaim(c)
            \/ \E s \in SourceBits : StoreComplete(s)
            \/ \E coversRx \in BOOLEAN : LoadUart(coversRx)
            \/ StoreTx
            \/ \E resetTx, resetRx \in BOOLEAN : StoreControl(resetTx, resetRx)

-----------------------------------------------------------------------------
Loop == \/ PlicTick
        \/ \E fired \in SUBSET Others : DevicesTick(fired)
        \/ CoreStep

Next == Loop \/ Input

Spec == Init /\ [][Next]_vars

\* The loop of the main thread never stops; input need never come.
FairSpec == Spec /\ WF_vars(Loop)

-----------------------------------------------------------------------------
TypeOK == /\ phase \in {"plic", "uart", "core"}
          /\ priority \in [Sources -> Priorities]
          /\ pending \subseteq SourceBits /\ claimed \subseteq SourceBits
          /\ enable \in [Contexts -> SUBSET Sources]
          /\ threshold \in [Contexts -> Priorities]
          /\ claim \in [Contexts -> SourceBits]
          /\ rx \in 0 .. MaxRx /\ tx \in 0 .. MaxTx /\ waitACK \in BOOLEAN

\* What the core samples and what a claim returns is never stale, although it
\* was latched before: whenever an instruction executes, a latched interrupt is
\* still pending, enabled, above the threshold and claimed by no context, so
\* that two contexts never hold the same interrupt and a source the guest has
\* masked does not interrupt it.  And no source outranks it but one that has
\* been raised in this very round, after the controller's tick.
LatchedClaimIsCurrent ==
    phase \in {"uart", "core"} =>
        \A c \in Contexts : Line(c) =>
            /\ Eligible(c, claim[c])
            /\ phase = "uart" =>
                  \A s \in Sources : Eligible(c, s) => priority[s] <= priority[claim[c]]

\* Source 1 is open to context c and the UART has something to say.
Armed(c) == /\ rx > 0
            /\ Uart \in enable[c] /\ Uart \notin claimed
            /\ priority[Uart] > 0 /\ priority[Uart] >= threshold[c]

ClearsUart == Uart \in pending /\ Uart \notin pending'

\* Nothing the UART has received is left without an interrupt: when source 1
\* stays open to a context, the receive queue stays filled and the guest does
\* not keep clearing the pending bit, the line comes up and stays up, in spite
\* of completions that cleared the bit while data was still there.
ReceiveInterruptDelivered ==
    \A c \in Contexts : <>[]Armed(c) /\ <>[][~ClearsUart]_vars => <>[]Line(c)
=============================================================================
