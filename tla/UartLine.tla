------------------------------ MODULE UartLine ------------------------------
(***************************************************************************)
(* A serial line: UartEncoder drives a wire with the bits of a message, in *)
(* the thread of one ClkDrive, and UartRTL samples it, in the thread of    *)
(* another, with the receiver UartRx.v, and keeps what it has received for *)
(* the guest that reads its registers (test/full.cpp).                     *)
(*                                                                         *)
(* The two threads measure time by themselves: the encoder may be some     *)
(* ticks ahead of the receiver or behind it.  A byte is a sequence of      *)
(* bits, the lowest first; characters to transmit are counted.             *)
(***************************************************************************)
EXTENDS Integers, Sequences, SequencesExt

CONSTANTS
    CyclesPerBit,   \* clk_freq_hz / baud_rate of the encoder
    ClkPerBit,      \* Param_ClkFreq / Param_BaurdRate of the receiver
    PayloadBits,    \* payload_bits and Param_PayloadBits, 8 by default
    Messages,       \* the messages sent: sequences of bytes
    Delays,         \* cycles_delay
    MaxDrift,       \* bound: how far the clocks drift apart, in cycles
    MaxRounds,      \* bound: how many messages are sent
    MaxTx           \* bound: how far tx may grow between two ticks

ASSUME UartLineAssumption ==
    /\ {CyclesPerBit, ClkPerBit, PayloadBits} \subseteq Nat \ {0}
    /\ Messages \subseteq Seq([1 .. 8 -> {0, 1}]) /\ Delays \subseteq Nat
    /\ MaxDrift \in Nat /\ MaxRounds \in Nat /\ MaxTx \in Nat

VARIABLES
    \* UartEncoder
    txData, cycleCounter,    \* the counter modulo CyclesPerBit
    bitCounter, txBitCounter, cyclesToDelay, currentState, nextState,
    ueMutex,                 \* whether it is left locked
    wireSignal,
    \* UartRx
    IO_Clk_I, reg_recv_data_bit, reg_fsm_state, reg_clk_counter, reg_bit_counter,
    reg_recv_data, reg_rx_done_flag,
    \* UartRTL
    rx, tx, waitACK,         \* tx: how many characters are in it
    irq,                     \* what it has told the interrupt controller
    \* Time and history
    drift,                   \* encoder ticks minus receiver cycles
    sent, got                \* the bytes of all messages; those read or dropped

encoder == <<txData, cycleCounter, bitCounter, txBitCounter, cyclesToDelay, currentState,
             nextState, ueMutex, wireSignal, sent>>
registers == <<reg_recv_data_bit, reg_fsm_state, reg_clk_counter, reg_bit_counter,
               reg_recv_data, reg_rx_done_flag>>
device == <<rx, tx, waitACK, irq, got>>
vars == <<encoder, registers, IO_Clk_I, device, drift>>

States == {"idle", "start", "data", "stop"}

\* Both constructors.  The encoder's does not initialise currentState; the
\* receiver's pulls the reset line.
Init == /\ txData \in Messages /\ sent = txData
        /\ cycleCounter = 0 /\ bitCounter = 0 /\ txBitCounter = 0
        /\ cyclesToDelay \in Delays
        /\ currentState \in States /\ nextState = "idle"
        /\ ueMutex = FALSE /\ wireSignal = 1
        /\ IO_Clk_I = 0
        /\ reg_recv_data_bit = <<0, 0>> /\ reg_fsm_state = "idle"
        /\ reg_clk_counter = 0 /\ reg_bit_counter = 0
        /\ reg_recv_data = [i \in 0 .. PayloadBits - 1 |-> 0] /\ reg_rx_done_flag = FALSE
        /\ rx = <<>> /\ tx = 0 /\ waitACK = FALSE /\ irq = FALSE
        /\ drift = 0 /\ got = <<>>

-----------------------------------------------------------------------------
(* The encoder *)

TxBits == 8 * Len(txData)
finished == txBitCounter >= TxBits /\ currentState = "idle"

get_tx_data_bit(i) == txData[(i \div 8) + 1][(i % 8) + 1]

get_bit(state) == CASE state = "start" -> 0
                    [] state = "data"  -> get_tx_data_bit(txBitCounter)
                    [] OTHER           -> 1

\* One bit period: on_update enters the next state, drives the wire, and finds
\* the state after it.
on_update ==
    LET lastBit == bitCounter + 1 = PayloadBits
    IN /\ currentState' = nextState
       /\ wireSignal' = get_bit(nextState)
       /\ nextState' = CASE nextState = "idle"  -> "start"
                         [] nextState = "start" -> "data"
                         [] nextState = "data"  -> IF lastBit THEN "stop" ELSE "data"
                         [] nextState = "stop"  -> "idle"
       /\ IF nextState = "data"
          THEN /\ bitCounter' = IF lastBit THEN 0 ELSE bitCounter + 1
               /\ txBitCounter' = txBitCounter + 1
          ELSE UNCHANGED <<bitCounter, txBitCounter>>

\* (mutant of Transmitting: the frame of the last byte is not completed)
TransmittingBits == txBitCounter < TxBits

Transmitting == txBitCounter < TxBits \/ currentState # "idle"

\* During the initial delay tick returns with the mutex locked.
DelayTick == /\ cyclesToDelay > 0
             /\ cyclesToDelay' = cyclesToDelay - 1
             /\ ueMutex' = TRUE
             /\ UNCHANGED <<cycleCounter, bitCounter, txBitCounter, currentState, nextState,
                            wireSignal>>

BitTick == /\ cyclesToDelay = 0
           /\ cycleCounter' = (cycleCounter + 1) % CyclesPerBit
           /\ IF cycleCounter = 0 /\ Transmitting THEN on_update
              ELSE UNCHANGED <<bitCounter, txBitCounter, currentState, nextState, wireSignal>>
           /\ UNCHANGED <<cyclesToDelay, ueMutex>>

EncoderTick == /\ ~ ueMutex               \* the thread waits for the mutex
               /\ drift < MaxDrift /\ drift' = drift + 1
               /\ DelayTick \/ BitTick
               /\ UNCHANGED <<txData, sent, registers, IO_Clk_I, device>>

\* resetData, called once everything has been sent.
ResetData == /\ ~ ueMutex /\ finished
             /\ \E message \in Messages :
                    /\ Len(sent) + Len(message) <= MaxRounds
                    /\ txData' = message
                    /\ sent' = sent \o message
             /\ txBitCounter' = 0 /\ nextState' = "idle"
             /\ UNCHANGED <<cycleCounter, bitCounter, cyclesToDelay, currentState, ueMutex,
                            wireSignal, registers, IO_Clk_I, device, drift>>

-----------------------------------------------------------------------------
(* The receiver: one rising edge of the clock *)

StartMid == reg_fsm_state = "start" /\ reg_clk_counter = ClkPerBit \div 2
DataMid == reg_fsm_state = "data" /\ reg_clk_counter = ClkPerBit
StopMid == reg_fsm_state = "stop" /\ reg_clk_counter = ClkPerBit
RxBit == reg_recv_data_bit[2]

NextFsmState ==
    CASE reg_fsm_state = "idle"  -> IF RxBit = 0 THEN "start" ELSE "idle"
      [] reg_fsm_state = "start" -> IF ~ StartMid THEN "start"
                                    ELSE IF RxBit = 0 THEN "data" ELSE "idle"
      [] reg_fsm_state = "data"  -> IF reg_bit_counter = PayloadBits THEN "stop" ELSE "data"
      [] reg_fsm_state = "stop"  -> IF StopMid THEN "idle" ELSE "stop"

\* (mutant of NextClkCounter: it is not cleared in the middle of the start bit)
NextClkCounterRuns ==
    IF reg_fsm_state # "idle" /\ reg_clk_counter < ClkPerBit THEN reg_clk_counter + 1 ELSE 0

NextClkCounter ==
    LET limit == IF reg_fsm_state = "start" THEN ClkPerBit \div 2 ELSE ClkPerBit
    IN IF reg_fsm_state # "idle" /\ reg_clk_counter < limit THEN reg_clk_counter + 1 ELSE 0

NextBitCounter ==
    CASE reg_fsm_state = "idle" -> 0
      [] DataMid -> IF reg_bit_counter < PayloadBits THEN reg_bit_counter + 1 ELSE 0
      [] OTHER -> reg_bit_counter

RisingEdge ==
    /\ reg_recv_data_bit' = <<wireSignal, reg_recv_data_bit[1]>>
    /\ reg_fsm_state' = NextFsmState
    /\ reg_clk_counter' = NextClkCounter
    /\ reg_bit_counter' = NextBitCounter
    /\ reg_rx_done_flag' = StopMid
    /\ reg_recv_data' = IF DataMid /\ reg_bit_counter < PayloadBits
                        THEN [reg_recv_data EXCEPT ![reg_bit_counter] = RxBit]
                        ELSE reg_recv_data

Byte == [i \in 1 .. PayloadBits |-> reg_recv_data[i - 1]]

-----------------------------------------------------------------------------
(* The device around it *)

hasIRQ == rx # <<>> \/ waitACK

\* UartRTL::tick: the interrupt, everything in tx, half a clock cycle of the
\* receiver, and the byte it may have received.
RtlTick ==
    /\ irq' = hasIRQ
    /\ tx' = 0 /\ waitACK' = (waitACK \/ tx > 0)
    /\ IO_Clk_I' = 1 - IO_Clk_I
    /\ IF IO_Clk_I = 0
       THEN /\ drift > -MaxDrift \/ ueMutex
            /\ drift' = IF ueMutex THEN drift ELSE drift - 1
            /\ RisingEdge
            /\ rx' = IF reg_rx_done_flag' THEN Append(rx, Byte) ELSE rx
       ELSE UNCHANGED <<drift, registers, rx>>
    /\ UNCHANGED <<encoder, got>>

\* The guest's accesses.  A load that covers rx_fifo pops.
Load(coversRx) ==
    /\ waitACK' = FALSE
    /\ IF coversRx /\ rx # <<>> THEN rx' = Tail(rx) /\ got' = Append(got, Head(rx))
       ELSE UNCHANGED <<rx, got>>
    /\ UNCHANGED <<tx, irq>>

StoreTx == /\ tx < MaxTx /\ tx' = tx + 1
           /\ UNCHANGED <<rx, waitACK, irq, got>>

StoreControl(resetTx, resetRx) ==
    /\ tx' = IF resetTx THEN 0 ELSE tx
    /\ rx' = IF resetRx THEN <<>> ELSE rx
    /\ got' = IF resetRx THEN got \o rx ELSE got
    /\ UNCHANGED <<waitACK, irq>>

Guest == /\ \/ \E coversRx \in BOOLEAN : Load(coversRx)
            \/ StoreTx
            \/ \E resetTx, resetRx \in BOOLEAN : StoreControl(resetTx, resetRx)
         /\ UNCHANGED <<encoder, registers, IO_Clk_I, drift>>

Next == EncoderTick \/ ResetData \/ RtlTick \/ Guest

Spec == Init /\ [][Next]_vars

\* Both threads of ClkDrive keep ticking.
FairSpec == Spec /\ WF_vars(EncoderTick) /\ WF_vars(RtlTick)

-----------------------------------------------------------------------------
TypeOK == /\ txData \in Messages /\ bitCounter \in 0 .. PayloadBits - 1
          /\ cycleCounter \in 0 .. CyclesPerBit - 1
          /\ {currentState, nextState, reg_fsm_state} \subseteq States
          /\ wireSignal \in {0, 1} /\ IO_Clk_I \in {0, 1} /\ ueMutex \in BOOLEAN
          /\ reg_clk_counter \in 0 .. ClkPerBit /\ reg_bit_counter \in 0 .. PayloadBits
          /\ drift \in -MaxDrift .. MaxDrift

\* What the receiver has decoded is what the encoder has sent, in order, and
\* nothing but it (the receiver leaves its reset in a false start bit); and
\* when the encoder calls itself finished, the receiver has the last byte too,
\* so that a test may stop both clocks then (UartEncoder::finished,
\* UartRTL::tick, test/uart_rtl.cpp:32-49).
LineDelivers == /\ IsPrefix(got \o rx, sent)
                /\ finished /\ sent # <<>> => got \o rx = sent

\* An encoder without an initial delay finishes.  One with a delay never does:
\* its first tick leaves the mutex locked, and the second one waits for it.
LineFinishes ==
    /\ cyclesToDelay = 0 => <>(finished /\ got \o rx = sent)
    /\ cyclesToDelay > 0 /\ sent # <<>> => <>[](ueMutex /\ ~ finished)
=============================================================================
