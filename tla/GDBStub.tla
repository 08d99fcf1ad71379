------------------------------ MODULE GDBStub -------------------------------
(***************************************************************************)
(* The GDB stub (src/gdb_stub): it receives the debugger's packets from a  *)
(* connection, acknowledges or refuses them, has the core execute the      *)
(* commands, and sends replies until they are acknowledged.                *)
(*                                                                         *)
(* A packet is four symbols on the connection: "$", its text, "#" and a    *)
(* checksum that is right or not.  The stub reads symbols, so one it       *)
(* takes for an acknowledgement may be the beginning of a packet.  Noise   *)
(* may spoil a symbol: the stub answers for it with checksums and retries. *)
(*                                                                         *)
(* The debugger is not part of the repository.  It waits for the answer to *)
(* a command before it sends another, repeats a packet that is refused,    *)
(* and acts on a timeout only when both sides are waiting in silence.      *)
(***************************************************************************)
EXTENDS Integers, Sequences, SequencesExt

CONSTANTS
    Pcs,          \* the addresses of the program the core executes
    StepTo,       \* StepTo[a]: the address after the instruction at a
    Commands,     \* the commands the debugger gives
    MaxCommands,  \* bound: how many of them
    MaxRetries,   \* 10 in the code
    MaxNoise      \* bound: how many symbols are spoilt or inserted

ASSUME GDBStubAssumption ==
    /\ StepTo \in [Pcs -> Pcs]
    /\ MaxCommands \in Nat /\ MaxRetries \in Nat /\ MaxNoise \in Nat

VARIABLES
    \* The stub
    loc,              \* "recv", "cmd", "step" (in cmd_Continue), "ack" or "end"
    receiving,        \* the loop of recvPacket it is in: "chksum" or "protocol"
    nr_retry_times,   \* of recvPacket or of packingAndSend
    packet,           \* the packet it executes
    reply,            \* the reply it wants acknowledged
    watchPointPCs,
    \* The debugged core
    core,             \* the address it is at and the value of a word of memory
    \* The connection and the debugger
    toStub, toClient, \* the symbols on their way
    eof,              \* whether the debugger has left
    client,           \* "idle", "ack" or "reply": what it waits for
    asked,            \* its commands so far, the last one last
    noise,            \* how many symbols were spoilt or inserted
    \* History
    answer,           \* the reply the debugger took for its last command
    done,             \* the numbers of the commands executed, in order
    errors,           \* what this recvPacket has met, in order
    unacknowledged    \* whether the stub has given up its last reply

stub == <<loc, receiving, nr_retry_times, packet, reply, watchPointPCs>>
peer == <<eof, client, asked, answer, noise>>
history == <<done, errors, unacknowledged>>
vars == <<stub, core, toStub, toClient, peer, history>>

\* The symbols
PACKET_BEGIN_CHAR == [is |-> "$"]
PACKET_END_CHAR == [is |-> "#"]
ACK_PACKET_DATA == [is |-> "+"]
NAK_PACKET_DATA == [is |-> "-"]
Junk == [is |-> "?"]
CheckSum(right) == [is |-> "sum", right |-> right]
Text(n, says) == [is |-> "text", n |-> n, says |-> says]   \* of or for command n

None == Text(0, "none")
Framed(p) == <<PACKET_BEGIN_CHAR, p, PACKET_END_CHAR, CheckSum(TRUE)>>
LastCommand == Text(Len(asked), asked[Len(asked)])

Init == /\ loc = "recv" /\ receiving = "chksum" /\ nr_retry_times = 0
        /\ packet = None /\ reply = None /\ watchPointPCs = {}
        /\ core \in [pc : Pcs, mem : {0}]
        /\ toStub = <<>> /\ toClient = <<>> /\ eof = FALSE
        /\ client = "idle" /\ asked = <<>> /\ noise = 0
        /\ answer = None /\ done = <<>> /\ errors = <<>> /\ unacknowledged = FALSE

-----------------------------------------------------------------------------
(* Receiving *)

\* Where the packet on the connection ends: at the checksum behind the first "#".
Ends == SelectInSeq(toStub, LAMBDA s : s = PACKET_END_CHAR) + 1
Complete == Ends > 1 /\ Ends <= Len(toStub)

\* What recvAndCheck makes of the symbols up to there.  Whatever precedes the
\* last "$" is skipped; without one there is no packet.
Received ==
    LET begin == SelectLastInSeq(SubSeq(toStub, 1, Ends), LAMBDA s : s = PACKET_BEGIN_CHAR)
    IN CASE begin = 0 -> "protocol"
         [] toStub[Ends] = CheckSum(FALSE) -> "chksum"
         [] OTHER -> "ok"

\* The symbols are read through a FILE of their own; what it has read ahead is
\* lost with it, up to all that has arrived.
TakePacket == \E last \in Ends .. Len(toStub) : toStub' = SubSeq(toStub, last + 1, Len(toStub))

GoReceive == loc' = "recv" /\ receiving' = "chksum" /\ nr_retry_times' = 0

\* (mutant of Refuse: the last retry is not made)
RefuseEarly(loop) ==
    /\ receiving' = loop
    /\ IF nr_retry_times + 1 >= MaxRetries
       THEN loc' = "end" /\ UNCHANGED <<toClient, nr_retry_times>>
       ELSE /\ toClient' = Append(toClient, NAK_PACKET_DATA)
            /\ nr_retry_times' = nr_retry_times + 1
            /\ UNCHANGED loc

\* One more NAK, or the end of the process when there have been too many.
Refuse(loop) ==
    /\ receiving' = loop
    /\ IF nr_retry_times >= MaxRetries
       THEN loc' = "end" /\ UNCHANGED <<toClient, nr_retry_times>>
       ELSE /\ toClient' = Append(toClient, NAK_PACKET_DATA)
            /\ nr_retry_times' = nr_retry_times + 1
            /\ UNCHANGED loc

\* (mutant of ReceivePacket: a packet is refused, but not received anew)
ReceivePacketOnce ==
    /\ loc = "recv" /\ Complete
    /\ TakePacket
    /\ loc' = "cmd" /\ packet' = toStub[Ends - 2]
    /\ toClient' = IF Received = "ok" THEN Append(toClient, ACK_PACKET_DATA)
                   ELSE toClient \o <<NAK_PACKET_DATA, ACK_PACKET_DATA>>
    /\ UNCHANGED <<receiving, nr_retry_times, reply, watchPointPCs, core, peer, history>>

\* recvPacket: bad checksums are refused in a first loop, malformed packets in
\* a second one, so that a bad checksum after a malformed packet leaves both:
\* it is acknowledged, and Debug_GDBStub ends the process.
ReceivePacket ==
    /\ loc = "recv" /\ Complete
    /\ TakePacket
    /\ errors' = IF Received = "ok" THEN <<>> ELSE Append(errors, Received)
    /\ \/ /\ Received = "chksum" /\ receiving = "chksum" /\ Refuse("chksum")
          /\ UNCHANGED packet
       \/ /\ Received = "protocol" /\ Refuse("protocol")
          /\ UNCHANGED packet
       \/ /\ Received = "chksum" /\ receiving = "protocol"
          /\ toClient' = Append(toClient, ACK_PACKET_DATA)
          /\ loc' = "end"
          /\ UNCHANGED <<receiving, nr_retry_times, packet>>
       \/ /\ Received = "ok"
          /\ toClient' = Append(toClient, ACK_PACKET_DATA)
          /\ loc' = "cmd" /\ packet' = toStub[Ends - 2]
          /\ UNCHANGED <<receiving, nr_retry_times>>
    /\ UNCHANGED <<reply, watchPointPCs, core, peer, done, unacknowledged>>

\* At the end of the input recvAndCheck fills its buffer, and ends the process.
InputEnds == /\ loc = "recv" /\ ~ Complete /\ eof
             /\ loc' = "end"
             /\ errors' = Append(errors, "eof")
             /\ UNCHANGED <<receiving, nr_retry_times, packet, reply, watchPointPCs, core,
                            toStub, toClient, peer, done, unacknowledged>>

-----------------------------------------------------------------------------
(* Executing: Debug_GDBStub acknowledges once more, then calls the command *)

Acked == Append(toClient, ACK_PACKET_DATA)

\* (mutant of Send: an empty reply is not sent)
SendSome(says) ==
    IF says = "" THEN /\ toClient' = Acked /\ GoReceive /\ UNCHANGED reply
    ELSE /\ reply' = Text(packet.n, says)
         /\ toClient' = Acked \o Framed(reply')
         /\ loc' = "ack" /\ nr_retry_times' = 0
         /\ UNCHANGED receiving

\* packingAndSend sends the reply, then waits for its acknowledgement.
Send(says) == /\ reply' = Text(packet.n, says)
              /\ toClient' = Acked \o Framed(reply')
              /\ loc' = "ack" /\ nr_retry_times' = 0
              /\ UNCHANGED receiving

Executing(commands) == /\ loc = "cmd" /\ packet.says \in commands
                       /\ done' = Append(done, packet.n)
                       /\ unacknowledged' = FALSE
                       /\ UNCHANGED <<packet, errors, toStub, peer>>

\* Commands that change nothing.  The empty packet is parsed as EMPTY_PACKET,
\* then as CMD_UNKNOWN.
HaltReason == Executing({"?"}) /\ Send("S05")
ReadAllRegister == Executing({"g"}) /\ Send("registers")
QSupported == Executing({"qSupported"}) /\ Send("features")
MemRead == \/ Executing({"m"}) /\ Send("memory")
           \/ Executing({"m unmapped"}) /\ Send("E01")
Unknown == Executing({"", "vCont?"}) /\ Send("")
Query == /\ HaltReason \/ ReadAllRegister \/ QSupported \/ MemRead \/ Unknown
         /\ UNCHANGED <<watchPointPCs, core>>

\* Writes answer only when they fail.
NoReply == toClient' = Acked /\ GoReceive /\ UNCHANGED reply

\* A register dump of the wrong length is answered by nothing, one that is not
\* 33 registers is an error of the core's.
WriteAllRegister ==
    /\ \/ /\ Executing({"G"}) /\ NoReply
          /\ \E a \in Pcs : core' = [core EXCEPT !.pc = a]
       \/ Executing({"G odd"}) /\ Send("") /\ UNCHANGED core
       \/ Executing({"G few"}) /\ Send("E01") /\ UNCHANGED core
    /\ UNCHANGED watchPointPCs

MemWrite ==
    /\ \/ Executing({"M"}) /\ NoReply /\ core' = [core EXCEPT !.mem = 1 - core.mem]
       \/ Executing({"M unmapped"}) /\ Send("E01") /\ UNCHANGED core
       \/ Executing({"M long"}) /\ Send("") /\ UNCHANGED core
    /\ UNCHANGED watchPointPCs

\* Breakpoints of types 0 and 1 are watchpoints on the program counter.
InsertBreakpoint ==
    /\ \/ /\ Executing({"Z0"}) /\ Send("OK")
          /\ \E a \in Pcs : watchPointPCs' = watchPointPCs \cup {a}
       \/ Executing({"Z2"}) /\ Send("") /\ UNCHANGED watchPointPCs
    /\ UNCHANGED core
RemoveBreakpoint ==
    /\ \/ /\ Executing({"z0"}) /\ Send("OK")
          /\ \E a \in Pcs : watchPointPCs' = watchPointPCs \ {a}
       \/ Executing({"z2"}) /\ Send("") /\ UNCHANGED watchPointPCs
    /\ UNCHANGED core

\* The packet `p n` is parsed, but no case of Debug_GDBStub's switch executes
\* it: assert(0), behind a single acknowledgement.
ReadIndex == /\ Executing({"p"})
             /\ loc' = "end"
             /\ UNCHANGED <<receiving, nr_retry_times, reply, toClient, watchPointPCs, core>>

\* cmd_Continue: an address to continue at is not supported.
Continue == /\ \/ /\ Executing({"c"})
                  /\ loc' = "step" /\ toClient' = Acked
                  /\ UNCHANGED <<receiving, nr_retry_times, reply>>
               \/ Executing({"c addr"}) /\ Send("")
            /\ UNCHANGED <<watchPointPCs, core>>

hitsWatchPoint == core.pc \in watchPointPCs

\* The loop of cmd_Continue: nothing but a watchpoint stops it.
Step == /\ loc = "step" /\ ~ hitsWatchPoint
        /\ core' = [core EXCEPT !.pc = StepTo[core.pc]]
        /\ UNCHANGED <<stub, toStub, toClient, peer, history>>

Stop == /\ loc = "step" /\ hitsWatchPoint
        /\ reply' = Text(packet.n, "S05")
        /\ toClient' = toClient \o Framed(reply')
        /\ loc' = "ack" /\ nr_retry_times' = 0
        /\ UNCHANGED <<receiving, packet, watchPointPCs, core, toStub, peer, history>>

Execute == \/ Query \/ WriteAllRegister \/ MemWrite \/ InsertBreakpoint
           \/ RemoveBreakpoint \/ ReadIndex \/ Continue

-----------------------------------------------------------------------------
(* Waiting for the acknowledgement of a reply *)

AckRead == loc = "ack" /\ toStub # <<>> /\ toStub' = Tail(toStub)

\* (mutant of Resend: repetitions are not counted)
ResendForever == /\ AckRead /\ Head(toStub) # ACK_PACKET_DATA
                 /\ toClient' = toClient \o Framed(reply)
                 /\ UNCHANGED <<stub, core, peer, history>>

\* Any other symbol is taken for a refusal.
Resend == /\ AckRead /\ Head(toStub) # ACK_PACKET_DATA
          /\ nr_retry_times < MaxRetries
          /\ toClient' = toClient \o Framed(reply)
          /\ nr_retry_times' = nr_retry_times + 1
          /\ UNCHANGED <<loc, receiving, packet, reply, watchPointPCs, core, peer, history>>

\* After too many of them the stub goes on as if it were acknowledged.
GiveUp == /\ AckRead /\ Head(toStub) # ACK_PACKET_DATA /\ nr_retry_times >= MaxRetries
          /\ GoReceive
          /\ unacknowledged' = TRUE
          /\ UNCHANGED <<packet, reply, watchPointPCs, core, toClient, peer, done, errors>>

Acknowledged == /\ AckRead /\ Head(toStub) = ACK_PACKET_DATA
                /\ GoReceive
                /\ UNCHANGED <<packet, reply, watchPointPCs, core, toClient, peer, history>>

\* At the end of the input the reads find no acknowledgement any more.
NobodyAcknowledges == /\ loc = "ack" /\ toStub = <<>> /\ eof
                      /\ GoReceive
                      /\ UNCHANGED <<packet, reply, watchPointPCs, core, toStub, toClient,
                                     peer, history>>

Stub == \/ ReceivePacket \/ InputEnds \/ Execute \/ Step \/ Stop
        \/ Resend \/ GiveUp \/ Acknowledged \/ NobodyAcknowledges

-----------------------------------------------------------------------------
(* The debugger and the connection *)

Debugger == UNCHANGED <<stub, core, history>>

Ask(c) == /\ client = "idle" /\ ~ eof /\ Len(asked) < MaxCommands
          /\ asked' = Append(asked, c)
          /\ toStub' = toStub \o Framed(LastCommand')
          /\ client' = "ack" /\ answer' = None
          /\ UNCHANGED <<toClient, eof, noise>>

\* While it waits for the acknowledgement it takes no reply.
ReadAck == /\ client = "ack" /\ toClient # <<>>
           /\ toClient' = Tail(toClient)
           /\ client' = IF Head(toClient) = ACK_PACKET_DATA THEN "reply" ELSE client
           /\ toStub' = IF Head(toClient) = NAK_PACKET_DATA THEN toStub \o Framed(LastCommand)
                        ELSE toStub
           /\ UNCHANGED <<eof, asked, noise, answer>>

\* While it waits for the reply it skips what is not a packet.
ReadReply ==
    /\ client = "reply" /\ toClient # <<>>
    /\ LET begins == Head(toClient) = PACKET_BEGIN_CHAR
           right == toClient[4] = CheckSum(TRUE)
       IN /\ toClient' = SubSeq(toClient, IF begins THEN 5 ELSE 2, Len(toClient))
          /\ toStub' = IF ~ begins THEN toStub
                       ELSE Append(toStub, IF right THEN ACK_PACKET_DATA ELSE NAK_PACKET_DATA)
          /\ client' = IF begins /\ right THEN "idle" ELSE client
          /\ answer' = IF begins /\ right THEN toClient[2] ELSE answer
    /\ UNCHANGED <<eof, asked, noise>>

\* Both sides wait, and nothing is on its way but what does not make a packet.
Silence == /\ toClient = <<>> /\ client # "idle"
           /\ \/ loc = "recv" /\ ~ Complete
              \/ loc = "ack" /\ toStub = <<>>

\* The debugger repeats a command that was not acknowledged and gives up one
\* that was not answered.
Timeout == /\ Silence
           /\ toStub' = IF client = "ack" THEN toStub \o Framed(LastCommand) ELSE toStub
           /\ client' = IF client = "ack" THEN client ELSE "idle"
           /\ UNCHANGED <<toClient, eof, asked, noise, answer>>

\* The user interrupts a program that does not stop.
Interrupt == /\ client = "reply" /\ LastCommand.says = "c" /\ noise < MaxNoise
             /\ toStub' = Append(toStub, Junk)
             /\ noise' = noise + 1
             /\ UNCHANGED <<toClient, eof, client, asked, answer>>

Leave == /\ client = "idle" /\ ~ eof
         /\ eof' = TRUE
         /\ UNCHANGED <<toStub, toClient, client, asked, noise, answer>>

\* What noise makes of a symbol: a checksum goes wrong (for the text or on its
\* own), and a "$" or what the debugger says to a reply becomes a symbol that
\* means nothing.  It never makes an acknowledgement, and it spares those of
\* the stub: without sequence numbers a command whose acknowledgements are lost
\* is repeated, and executed twice, whatever the stub does.
Spoilt(s) == IF s = CheckSum(TRUE) THEN CheckSum(FALSE) ELSE Junk
Spoilable(s) == s \in {PACKET_BEGIN_CHAR, CheckSum(TRUE), ACK_PACKET_DATA, NAK_PACKET_DATA}

Noise ==
    /\ noise < MaxNoise /\ noise' = noise + 1
    /\ \/ \E i \in DOMAIN toStub : /\ Spoilable(toStub[i])
                                  /\ toStub' = [toStub EXCEPT ![i] = Spoilt(@)]
          /\ UNCHANGED toClient
       \/ \E i \in DOMAIN toClient : /\ toClient[i] = CheckSum(TRUE)
                                    /\ toClient' = [toClient EXCEPT ![i] = Spoilt(@)]
          /\ UNCHANGED toStub
    /\ UNCHANGED <<eof, client, asked, answer>>

Client == ReadAck \/ ReadReply \/ Timeout

Environment == /\ \/ \E c \in Commands : Ask(c)
                  \/ Client \/ Interrupt \/ Leave \/ Noise
               /\ Debugger

Next == (Stub \/ Environment) /\ loc # "end"

Spec == Init /\ [][Next]_vars

\* The stub's thread and the debugger keep running; noise need not come.
FairSpec == Spec /\ WF_vars(Stub /\ loc # "end") /\ WF_vars(Client /\ Debugger /\ loc # "end")

-----------------------------------------------------------------------------
Replies == {"none", "S05", "registers", "features", "memory", "E01", "", "OK"}
Texts == [is : {"text"}, n : Nat, says : Commands \cup Replies]
Symbols == [is : {"$", "#", "+", "-", "?"}] \cup [is : {"sum"}, right : BOOLEAN] \cup Texts

TypeOK == /\ loc \in {"recv", "cmd", "step", "ack", "end"}
          /\ receiving \in {"chksum", "protocol"}
          /\ nr_retry_times \in 0 .. MaxRetries
          /\ packet \in Texts /\ reply \in Texts /\ answer \in Texts
          /\ watchPointPCs \subseteq Pcs /\ core \in [pc : Pcs, mem : {0, 1}]
          /\ toStub \in Seq(Symbols) /\ toClient \in Seq(Symbols)
          /\ client \in {"idle", "ack", "reply"} /\ eof \in BOOLEAN
          /\ asked \in Seq(Commands) /\ noise \in 0 .. MaxNoise
          /\ done \in Seq(Nat) /\ errors \in Seq({"chksum", "protocol", "eof"})
          /\ unacknowledged \in BOOLEAN

\* Repeated packets, repeated replies and two acknowledgements for every
\* command do not confuse the two sides (GDBStub_utils.cpp recvPacket,
\* packingAndSend): no command is executed twice or out of order, and the
\* reply the debugger takes is the one to its last command, which has been
\* executed.
EffectsInOrder ==
    /\ \A i, j \in DOMAIN done : i < j => done[i] < done[j]
    /\ answer # None => answer.n = Len(asked) /\ Contains(done, answer.n)

\* The stub and the debugger wait for each other's packets only after a
\* register or memory write that succeeded, which is never answered
\* (GDBStub_cmds.cpp cmd_WriteAllRegister, cmd_MemWrite), or when the stub
\* has repeated a reply as often as it does.
BothWaitOnlyAfterWrites ==
    Silence /\ client = "reply" => LastCommand.says \in {"G", "M"} \/ unacknowledged

\* A debugging session ends with the connection, at a packet `p`, after more
\* bad packets in a row than there are retries, or at a bad checksum right
\* behind a malformed packet, and for no other reason.
EndsForACause ==
    loc = "end" =>
        \/ packet.says = "p"
        \/ Contains(errors, "eof")
        \/ Len(errors) > MaxRetries
        \/ \E i \in 2 .. Len(errors) : errors[i-1] = "protocol" /\ errors[i] = "chksum"

\* The program stays among addresses none of which is watched.
RunsForEver == /\ loc = "step"
               /\ \E S \in SUBSET (Pcs \ watchPointPCs) :
                      core.pc \in S /\ \A a \in S : StepTo[a] \in S

\* Every command is answered or given up, whatever is spoilt: `c` too, unless
\* the program never comes to a watchpoint (or the session ends).
EveryCommandEnds == client # "idle" ~> client = "idle" \/ loc = "end" \/ RunsForEver
=============================================================================
