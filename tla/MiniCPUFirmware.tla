-------------------------- MODULE MiniCPUFirmware --------------------------
(***************************************************************************)
(* misc/minicpu_app/main.c running on the MiniCPU core, on top of the      *)
(* memory controller: context 0 polls the pending bits round robin and     *)
(* switches to a context whose transfers are done, every other context     *)
(* runs app_main, starts one asynchronous read and yields until it is in.  *)
(*                                                                         *)
(* A step is one instruction of the core that touches something two        *)
(* contexts or two threads share, together with the private instructions   *)
(* after it; the core switches contexts at the end of the instruction that *)
(* writes the context register (rv64_exec.cpp).                            *)
(***************************************************************************)
EXTENDS MemController

CONSTANTS NCtx,   \* NR_CTX, the contexts of the core
          Src,    \* 0x80000000, what every application reads
          Val     \* Val[c]: the address of app_main's val on the stack of c

Ctx == 0 .. NCtx - 1
Apps == 1 .. NCtx - 1

ASSUME FirmwareAssumption == /\ NCtx \in Nat /\ NCtx >= 2
                             /\ NrCycle >= 2   \* 88 in the code
                             /\ Src \in Mapped
                             /\ Val \in [Apps -> Mapped \ {Src}]

VARIABLES
    currentCtx,   \* the context the core executes
    fpc,          \* fpc[c]: where context c is
    waiting,      \* waiting[k][c]: ctx_rd_waiting, ctx_wr_waiting
    chkCtx,       \* chk_ctx of the scheduler
    freeChn,      \* freeChn[c]: free_chn, later chn, of context c
    loaded        \* loaded[c]: the pending bits `|=` has loaded

fwVars == <<currentCtx, fpc, waiting, chkCtx, freeChn, loaded>>
allVars == <<vars, fwVars>>

FInit == /\ Init
         /\ currentCtx = 0
         /\ fpc = [c \in Ctx |-> IF c = 0 THEN "start" ELSE "find"]
         /\ waiting = [k \in Kinds |-> [c \in Ctx |-> {}]]
         /\ chkCtx = 1
         /\ freeChn = [c \in Ctx |-> 0]
         /\ loaded = [c \in Ctx |-> {}]

Goto(c, label) == fpc' = [fpc EXCEPT ![c] = label]
At(c, label) == currentCtx = c /\ fpc[c] = label

-----------------------------------------------------------------------------
(* The scheduler, context 0 *)

\* init(): clear .bss, start with context 1.
StartScheduler == /\ At(0, "start")
                  /\ waiting' = [k \in Kinds |-> [c \in Ctx |-> {}]]
                  /\ chkCtx' = 1
                  /\ Goto(0, "check_rd")
                  /\ OtherInstr
                  /\ UNCHANGED <<currentCtx, freeChn, loaded>>

\* (mutant of CheckPending: it looks at the other register)
CheckOther(k, next) ==
    /\ At(0, IF k = "rd" THEN "check_rd" ELSE "check_wr")
    /\ Goto(0, IF waiting["wr"][chkCtx] \cap pend["wr"] = {} THEN next ELSE "advance")
    /\ OtherInstr
    /\ UNCHANGED <<currentCtx, waiting, chkCtx, freeChn, loaded>>

\* One half of the scheduler's condition: no channel the context waits for is
\* pending.  The second half is loaded only when the first holds.
CheckPending(k, next) ==
    /\ At(0, IF k = "rd" THEN "check_rd" ELSE "check_wr")
    /\ Goto(0, IF waiting[k][chkCtx] \cap pend[k] = {} THEN next ELSE "advance")
    /\ OtherInstr
    /\ UNCHANGED <<currentCtx, waiting, chkCtx, freeChn, loaded>>

\* switch2ctx(chk_ctx)
SwitchToApp == /\ At(0, "switch")
               /\ currentCtx' = chkCtx
               /\ Goto(0, "advance")
               /\ OtherInstr
               /\ UNCHANGED <<waiting, chkCtx, freeChn, loaded>>

\* (mutant of AdvanceChk: the wrap is one context late)
AdvanceTooFar == /\ At(0, "advance")
                 /\ chkCtx' = IF chkCtx = NCtx THEN 1 ELSE chkCtx + 1
                 /\ Goto(0, "check_rd")
                 /\ OtherInstr
                 /\ UNCHANGED <<currentCtx, waiting, freeChn, loaded>>

AdvanceChk == /\ At(0, "advance")
              /\ chkCtx' = IF chkCtx + 1 = NCtx THEN 1 ELSE chkCtx + 1
              /\ Goto(0, "check_rd")
              /\ OtherInstr
              /\ UNCHANGED <<currentCtx, waiting, freeChn, loaded>>

-----------------------------------------------------------------------------
(* async_rd_dword, called by app_main in a loop until it finds a channel *)

\* One round of the search, each with a load of its own; past the last channel
\* it returns -1 and app_main calls again.
FindChannel(c) == /\ At(c, "find")
                  /\ \/ /\ freeChn[c] = NChn
                        /\ freeChn' = [freeChn EXCEPT ![c] = 0]
                        /\ UNCHANGED fpc
                     \/ /\ freeChn[c] < NChn /\ freeChn[c] \in pend["rd"]
                        /\ freeChn' = [freeChn EXCEPT ![c] = @ + 1]
                        /\ UNCHANGED fpc
                     \/ /\ freeChn[c] < NChn /\ freeChn[c] \notin pend["rd"]
                        /\ Goto(c, "append")
                        /\ UNCHANGED freeChn
                  /\ OtherInstr
                  /\ UNCHANGED <<currentCtx, waiting, chkCtx, loaded>>

AppendWaiting(c) == /\ At(c, "append")
                    /\ waiting' = [waiting EXCEPT !["rd"][c] = @ \cup {freeChn[c]}]
                    /\ Goto(c, "set_src")
                    /\ OtherInstr
                    /\ UNCHANGED <<currentCtx, chkCtx, freeChn, loaded>>

SetSrc(c) == /\ At(c, "set_src")
             /\ StoreDesc("rd", freeChn[c], "src", Src)
             /\ Goto(c, "set_dst")
             /\ UNCHANGED <<currentCtx, waiting, chkCtx, freeChn, loaded>>

SetDst(c) == /\ At(c, "set_dst")
             /\ StoreDesc("rd", freeChn[c], "dst", Val[c])
             /\ Goto(c, "load_bits")
             /\ UNCHANGED <<currentCtx, waiting, chkCtx, freeChn, loaded>>

\* rd_pending_chn_bits |= 1 << free_chn: a load ...
LoadBits(c) == /\ At(c, "load_bits")
               /\ loaded' = [loaded EXCEPT ![c] = pend["rd"]]
               /\ Goto(c, "store_bits")
               /\ OtherInstr
               /\ UNCHANGED <<currentCtx, waiting, chkCtx, freeChn>>

\* (mutant of StoreBits: the context's own bit is left out)
StoreOldBits(c) == /\ At(c, "store_bits")
                   /\ StorePending("rd", loaded[c])
                   /\ Goto(c, "assert")
                   /\ UNCHANGED <<currentCtx, waiting, chkCtx, freeChn, loaded>>

\* ... and a store, which runs the controller's handler to its end.
StoreBits(c) == /\ At(c, "store_bits")
                /\ StorePending("rd", loaded[c] \cup {freeChn[c]})
                /\ Goto(c, "assert")
                /\ UNCHANGED <<currentCtx, waiting, chkCtx, freeChn, loaded>>

-----------------------------------------------------------------------------
(* The rest of app_main *)

\* simple_assert: where it fails the context prints and loops for ever.
AssertPending(c) == /\ At(c, "assert")
                    /\ Goto(c, IF freeChn[c] \in pend["rd"] THEN "wait" ELSE "failed")
                    /\ OtherInstr
                    /\ UNCHANGED <<currentCtx, waiting, chkCtx, freeChn, loaded>>

\* yield(): the first one waits for the read, the second one for nothing.
Yield(c, from, to) == /\ At(c, from)
                      /\ currentCtx' = 0
                      /\ Goto(c, to)
                      /\ OtherInstr
                      /\ UNCHANGED <<waiting, chkCtx, freeChn, loaded>>

\* Back from the first yield: "app_main: async read success!"
PrintSuccess(c) == /\ At(c, "resumed")
                   /\ Goto(c, "yield")
                   /\ OtherInstr
                   /\ UNCHANGED <<currentCtx, waiting, chkCtx, freeChn, loaded>>

\* start.S: app_main has returned (or an assertion failed) and the context
\* branches to itself.
SpinForever(c) == /\ At(c, "main_loop") \/ At(c, "failed")
                  /\ OtherInstr
                  /\ UNCHANGED fwVars

-----------------------------------------------------------------------------
CtxStep ==
    \/ StartScheduler
    \/ CheckPending("rd", "check_wr") \/ CheckPending("wr", "switch")
    \/ SwitchToApp \/ AdvanceChk
    \/ \E c \in Apps : \/ FindChannel(c) \/ AppendWaiting(c) \/ SetSrc(c) \/ SetDst(c)
                       \/ LoadBits(c) \/ StoreBits(c) \/ AssertPending(c)
                       \/ Yield(c, "wait", "resumed") \/ PrintSuccess(c)
                       \/ Yield(c, "yield", "main_loop") \/ SpinForever(c)

FNext == \/ CtxStep
         \/ HandlerStep /\ UNCHANGED fwVars
         \/ ThreadStep /\ UNCHANGED fwVars

FSpec == FInit /\ [][FNext]_allVars

FFairness == /\ WF_allVars(CtxStep)
             /\ WF_allVars(HandlerStep /\ UNCHANGED fwVars)
             /\ WF_allVars(EvStep /\ UNCHANGED fwVars)
             /\ \A w \in Workers : WF_allVars(WorkerStep(w) /\ UNCHANGED fwVars)

FFairSpec == FSpec /\ FFairness

-----------------------------------------------------------------------------
Labels == {"start", "check_rd", "check_wr", "switch", "advance", "find", "append",
           "set_src", "set_dst", "load_bits", "store_bits", "assert", "wait", "resumed",
           "yield", "main_loop", "failed"}

FTypes == /\ currentCtx \in Ctx
          /\ fpc \in [Ctx -> Labels]
          /\ waiting \in [Kinds -> [Ctx -> SUBSET Chn]]
          /\ chkCtx \in Apps
          /\ freeChn \in [Ctx -> 0 .. NChn]
          /\ loaded \in [Ctx -> SUBSET Bits]

FTypeOK == TypeOK /\ FTypes

\* A store of |= whose value holds an older pending bit starts the lowest of them,
\* so that a channel is started again with the descriptor of its first start.
Restarted(k) == \E i, j \in DOMAIN emitted :
                    i < j /\ emitted[i] = emitted[j] /\ emitted[i].chnID = k

\* "app_main: async read success!" (main.c:176) is true when it is printed: a
\* context the scheduler resumes finds in val what the source holds, unless its
\* channel was started twice for one transfer, where the second to end clears the
\* bit of whoever uses the channel then.
ReadSuccess == \A c \in Apps : fpc[c] \in {"resumed", "yield"} /\ currentCtx = c
                                  => mem[Val[c]] = mem[Src] \/ Restarted(freeChn[c])

\* simple_assert(((1ul << chn) & (REG_PTR->rd_pending_chn_bits))) (main.c:173):
\* right after a context has started its channel, the channel is pending.  It fails
\* for a channel that was started twice, and for no other reason.
AssertHolds == \A c \in Apps : fpc[c] = "failed" => Restarted(freeChn[c])

\* Some application returns, whatever the others do to its channel, or fails the
\* assertion: a context that fails it never yields, and holds the core for ever.
SomeAppEnds == <>(\E c \in Apps : fpc[c] \in {"main_loop", "failed"})
=============================================================================
