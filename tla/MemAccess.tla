----------------------------- MODULE MemAccess -----------------------------
(***************************************************************************)
(* One hart's access to memory: fetch, load, store, LR, SC and AMO, from   *)
(* the address to the bus and back to a result or a trap                   *)
(* (rv64_common.cpp, rv64_sv39.cpp, rv64_amo.cpp), the address bus with    *)
(* its reservation (AddrBus.hpp, dev_if.h), and stores of other threads.   *)
(*                                                                         *)
(* Values are left out.  An access is a request that holds the state it    *)
(* depends on: the status bits and the page's leaf entry, whichever the    *)
(* guest has made of them; TLB says which entry a lookup finds, Privilege  *)
(* which status a hart can be in.  Addresses do not reach 2^64, and memory *)
(* is made of whole frames.                                                *)
(***************************************************************************)
EXTENDS Integers

CONSTANTS Ranges,    \* the <<address, size>> of data accesses
          PCs,       \* the addresses of fetches
          Leaves,    \* the leaf entries
          Envs,      \* the status an access is made in
          Memory,    \* frames of main memory; others are devices, or nothing
          NoPTE, NoReq, NoResv, NoLR

U == 0
S == 1
M == 3
PageSize == 4096
Page(addr) == addr \div PageSize

\* isValidLeafPTE
Leaf == {e \in [R : BOOLEAN, W : BOOLEAN, X : BOOLEAN, U : BOOLEAN,
                A : BOOLEAN, D : BOOLEAN, frame : Nat] :
            (e.W => e.R) /\ (e.R \/ e.X)}

\* mprv is set below M mode in no state (Privilege).
Env == {v \in [mode : {U, S, M}, mprv : BOOLEAN, mpp : {U, S, M},
               sum : BOOLEAN, mxr : BOOLEAN, paged : BOOLEAN] :
            v.mprv => v.mode = M}

Range == [begin : Nat, len : {1, 2, 4, 8}]

Request == [op : {"fetch", "load", "store", "lr", "sc", "amo"},
            env : Env, begin : Nat, len : {1, 2, 4, 8}, pte : Leaf \cup {NoPTE}]

ASSUME AccessAssumption ==
    /\ Ranges \subseteq Nat \X {1, 2, 4, 8}
    /\ PCs \subseteq {pc \in Nat : pc % 2 = 0}
    /\ Leaves \subseteq Leaf /\ NoPTE \notin Leaf
    /\ Envs \subseteq Env
    /\ Memory \subseteq Nat
    /\ NoReq \notin Request
    /\ NoResv \notin Range
    /\ NoLR \notin [begin : Nat, len : {1, 2, 4, 8}, state : {"clean", "small", "over"}]

VARIABLES
    req,    \* the access being made
    out,    \* its result: "ok", "sc_fail", a trap's cause, or none yet
    resv,   \* the bus's reservation
    lr      \* history: the last LR if it returned a value, until an SC uses it;
            \* whether a store has overlapped it, or a wide and aligned one has

vars == <<req, out, resv, lr>>

Init == req = NoReq /\ out = "none" /\ resv = NoResv /\ lr = NoLR

-----------------------------------------------------------------------------
(* RV64SV39_MMU: translation *)

Bare(v) == ~v.paged \/ (v.mode = M /\ (~v.mprv \/ v.mpp = M))
BareFetch(v) == v.mode = M \/ ~v.paged
Priv(v) == IF v.mprv /\ v.mode = M THEN v.mpp ELSE v.mode

CrossesPage(r) == Page(r.begin) # Page(r.begin + r.len - 1)

\* The feedback of a translation that must pass the page check first.
Checked(r, pageFault, accessFault) ==
    IF CrossesPage(r) THEN "misalign"
    ELSE IF r.pte = NoPTE \/ pageFault THEN "page"
    ELSE IF accessFault THEN "access" ELSE "ok"

\* Mutant of ReadTranslation: user pages are open to everyone's loads.
ReadTranslationNoUser(r) ==
    IF Bare(r.env) THEN "ok"
    ELSE Checked(r, ~r.pte.A \/ (~r.pte.R /\ ~(r.env.mxr /\ ~r.pte.X)),
                 ~r.env.sum /\ r.env.mode = S /\ r.pte.U)

\* Loads and LR; SUM is compared with the current mode, not the effective one.
ReadTranslation(r) ==
    IF Bare(r.env) THEN "ok"
    ELSE Checked(r, \/ ~r.pte.A
                    \/ ~r.pte.R /\ ~(r.env.mxr /\ ~r.pte.X)
                    \/ Priv(r.env) = U /\ ~r.pte.U,
                 ~r.env.sum /\ r.env.mode = S /\ r.pte.U)

\* Stores, SC and AMOs.
WriteTranslation(r) ==
    IF Bare(r.env) THEN "ok"
    ELSE Checked(r, \/ ~r.pte.A \/ ~r.pte.D \/ ~r.pte.W
                    \/ Priv(r.env) = U /\ ~r.pte.U
                    \/ ~r.env.sum /\ Priv(r.env) = S /\ r.pte.U,
                 FALSE)

FetchTranslation(r) ==
    IF BareFetch(r.env) THEN "ok"
    ELSE Checked(r, \/ ~r.pte.A \/ ~r.pte.X
                    \/ r.env.mode = U /\ ~r.pte.U
                    \/ r.env.mode = S /\ r.pte.U,
                 FALSE)

Translated(r) == IF r.op = "fetch" THEN ~BareFetch(r.env) ELSE ~Bare(r.env)
PAddr(r) == IF Translated(r) THEN r.pte.frame * PageSize + (r.begin % PageSize)
                             ELSE r.begin

-----------------------------------------------------------------------------
(* AddrBus *)

\* Main memory always answers; a device may refuse, and where there is none
\* the bus does.
Accepts(addr) == IF Page(addr) \in Memory THEN {TRUE} ELSE BOOLEAN

Covers(addr, len, x) == addr <= x.begin /\ x.begin + x.len <= addr + len
Overlaps(addr, len, x) == addr < x.begin + x.len /\ x.begin < addr + len

\* History: what a store does to the word the last LR has read.
Touched(addr, len) ==
    IF lr = NoLR \/ ~Overlaps(addr, len, lr) THEN lr
    ELSE [lr EXCEPT !.state =
             IF @ = "over" \/ (len >= lr.len /\ addr % len = 0) THEN "over" ELSE "small"]

\* Mutants of BusStore: a store leaves reservations alone, or clears any.
BusStoreKeeps(addr, len) == resv' = resv /\ lr' = Touched(addr, len)
BusStoreClears(addr, len) == resv' = NoResv /\ lr' = Touched(addr, len)

\* A store invalidates the reservation it covers, before it is carried out.
BusStore(addr, len) ==
    /\ resv' = IF resv # NoResv /\ Covers(addr, len, resv) THEN NoResv ELSE resv
    /\ lr' = Touched(addr, len)

\* Mutant of Reserve: the end takes the place of the length.
ReserveEnd(addr, len) == resv' = [begin |-> addr, len |-> addr + len]

\* reserve
Reserve(addr, len) == resv' = [begin |-> addr, len |-> len]

\* check; it invalidates the reservation whatever it finds.
Check(addr, len) == resv = [begin |-> addr, len |-> len]

-----------------------------------------------------------------------------
(* The hart *)

LoadCause == [misalign |-> "load_misalign", page |-> "load_pgfault",
              access |-> "load_acc_fault"]
StoreCause == [misalign |-> "store_misalign", page |-> "store_pgfault",
               access |-> "store_acc_fault"]

\* step() has no cause for a misaligned feedback: assert(cause.cause).
InstCause == [misalign |-> "assertion", page |-> "instr_pgfault",
              access |-> "instr_acc_fault"]

Outcomes == {"none", "ok", "sc_fail"}
    \cup {LoadCause[f] : f \in DOMAIN LoadCause}
    \cup {StoreCause[f] : f \in DOMAIN StoreCause}
    \cup {InstCause[f] : f \in DOMAIN InstCause}

Idle == req = NoReq /\ out = "none"
Pending(op) == req # NoReq /\ req.op = op
Misaligned(r) == r.begin % r.len # 0
Finish(result) == out' = result /\ req' = NoReq

\* The entry a lookup finds; none is looked up without translation.
Entries(op, v) ==
    IF (IF op = "fetch" THEN BareFetch(v) ELSE Bare(v)) THEN {NoPTE} ELSE Leaves \cup {NoPTE}

\* The interpreter reaches an instruction that loads or stores; LR, SC and AMO
\* come in two sizes.
Issue(op, v, range, e) ==
    /\ Idle
    /\ op \in {"lr", "sc", "amo"} => range[2] \in {4, 8}
    /\ req' = [op |-> op, env |-> v, begin |-> range[1], len |-> range[2], pte |-> e]
    /\ UNCHANGED <<out, resv, lr>>

\* Mutant of IssueFetch: a fetch is not split.
IssueFetchWhole(v, pc, e) ==
    /\ Idle
    /\ req' = [op |-> "fetch", env |-> v, begin |-> pc, len |-> 4, pte |-> e]
    /\ UNCHANGED <<out, resv, lr>>

\* step() fetches four bytes; those in the middle of two words in two halves.
IssueFetch(v, pc, e) ==
    /\ Idle
    /\ req' = [op |-> "fetch", env |-> v, begin |-> pc,
               len |-> IF pc % 4 = 2 THEN 2 ELSE 4, pte |-> e]
    /\ UNCHANGED <<out, resv, lr>>

\* VAddr_InstFetch_MMU_API: a first half that succeeds is followed by the
\* second, wherever its page is.
Fetch ==
    /\ Pending("fetch")
    /\ \/ FetchTranslation(req) # "ok" /\ Finish(InstCause[FetchTranslation(req)])
       \/ /\ FetchTranslation(req) = "ok"
          /\ FALSE \in Accepts(PAddr(req))
          /\ Finish("instr_acc_fault")
       \/ /\ FetchTranslation(req) = "ok"
          /\ IF req.len = 2 /\ req.begin % 4 = 2
             THEN /\ \E e \in Entries("fetch", req.env) :
                        req' = [req EXCEPT !.begin = @ + 2, !.pte = e]
                  /\ out' = out
             ELSE Finish("ok")
    /\ UNCHANGED <<resv, lr>>

\* memRead
Load ==
    /\ Pending("load")
    /\ \/ Misaligned(req) /\ Finish("load_misalign")
       \/ ~Misaligned(req) /\ ReadTranslation(req) # "ok"
            /\ Finish(LoadCause[ReadTranslation(req)])
       \/ ~Misaligned(req) /\ ReadTranslation(req) = "ok"
            /\ \E done \in Accepts(PAddr(req)) :
                  Finish(IF done THEN "ok" ELSE "load_acc_fault")
    /\ UNCHANGED <<resv, lr>>

\* memWrite; a translated store the bus refuses is a page fault.
Store ==
    /\ Pending("store")
    /\ \/ Misaligned(req) /\ Finish("store_misalign") /\ UNCHANGED <<resv, lr>>
       \/ ~Misaligned(req) /\ WriteTranslation(req) # "ok"
            /\ Finish(StoreCause[WriteTranslation(req)]) /\ UNCHANGED <<resv, lr>>
       \/ ~Misaligned(req) /\ WriteTranslation(req) = "ok"
            /\ BusStore(PAddr(req), req.len)
            /\ \E done \in Accepts(PAddr(req)) :
                  Finish(IF done THEN "ok" ELSE
                         IF Translated(req) THEN "store_pgfault" ELSE "store_acc_fault")

\* vaddrLoadReserved: it reserves, then loads, and traps as a store would.
LoadReserved ==
    /\ Pending("lr")
    /\ \/ ReadTranslation(req) # "ok"
            /\ Finish(StoreCause[ReadTranslation(req)]) /\ UNCHANGED <<resv, lr>>
       \/ ReadTranslation(req) = "ok"
            /\ Reserve(PAddr(req), req.len)
            /\ \E done \in Accepts(PAddr(req)) :
                  /\ Finish(IF done THEN "ok" ELSE "store_acc_fault")
                  /\ lr' = IF done THEN [begin |-> PAddr(req), len |-> req.len, state |-> "clean"]
                                   ELSE NoLR

\* vaddrStoreConditional: past the translation the reservation is used up.
StoreConditional ==
    /\ Pending("sc")
    /\ \/ WriteTranslation(req) # "ok"
            /\ Finish(StoreCause[WriteTranslation(req)]) /\ UNCHANGED <<resv, lr>>
       \/ WriteTranslation(req) = "ok" /\ ~Check(PAddr(req), req.len)
            /\ Finish("sc_fail") /\ resv' = NoResv /\ lr' = NoLR
       \/ WriteTranslation(req) = "ok" /\ Check(PAddr(req), req.len)
            /\ resv' = NoResv /\ lr' = NoLR
            /\ \E done \in Accepts(PAddr(req)) :
                  Finish(IF done THEN "ok" ELSE
                         IF Translated(req) THEN "store_pgfault" ELSE "store_acc_fault")

\* vaddrAtomicMemOperation, pa_amo_op: a load, then a store if it succeeded.
Amo ==
    /\ Pending("amo")
    /\ \/ WriteTranslation(req) # "ok"
            /\ Finish(StoreCause[WriteTranslation(req)]) /\ UNCHANGED <<resv, lr>>
       \/ /\ WriteTranslation(req) = "ok" /\ FALSE \in Accepts(PAddr(req))
          /\ Finish("store_acc_fault") /\ UNCHANGED <<resv, lr>>
       \/ /\ WriteTranslation(req) = "ok"
          /\ BusStore(PAddr(req), req.len)
          /\ \E done \in Accepts(PAddr(req)) :
                Finish(IF done THEN "ok" ELSE "store_acc_fault")

\* The end of step(): needTrap is lowered.
Retire == out # "none" /\ out' = "none" /\ UNCHANGED <<req, resv, lr>>

\* Another thread (a worker of the memory controller) stores.
OtherStore(range) == BusStore(range[1], range[2]) /\ UNCHANGED <<req, out>>

Next == \/ \E op \in {"load", "store", "lr", "sc", "amo"}, v \in Envs, range \in Ranges :
              \E e \in Entries(op, v) : Issue(op, v, range, e)
        \/ \E v \in Envs, pc \in PCs : \E e \in Entries("fetch", v) : IssueFetch(v, pc, e)
        \/ Fetch \/ Load \/ Store \/ LoadReserved \/ StoreConditional \/ Amo
        \/ Retire
        \/ \E range \in Ranges : OtherStore(range)

Spec == Init /\ [][Next]_vars

-----------------------------------------------------------------------------
(* What the architecture says *)

Reads == {"load", "lr"}
Needs == [fetch |-> {"X"}, load |-> {"R"}, lr |-> {"R"},
          store |-> {"W", "D"}, sc |-> {"W", "D"}, amo |-> {"R", "W", "D"}]

\* An AMO both reads and writes; mxr makes executable pages readable; user
\* pages are open to S with sum, but never for execution.
Permitted(r) ==
    LET v == r.env
        p == IF r.op # "fetch" /\ v.mprv THEN v.mpp ELSE v.mode
        rights == {f \in {"R", "W", "X", "D"} : r.pte[f]}
                     \cup IF v.mxr /\ r.pte.X THEN {"R"} ELSE {}
    IN  \/ p = M
        \/ ~v.paged
        \/ /\ r.pte # NoPTE
           /\ r.pte.A
           /\ Needs[r.op] \subseteq rights
           /\ p = U => r.pte.U
           /\ p = S /\ r.pte.U => v.sum /\ r.op # "fetch"

\* The two places where the code is known to differ, both for loads and LR.
ViaMprv(r) == r.op \in Reads /\ r.env.mprv /\ r.env.mpp = S
ByMxr(r) == r.op \in Reads /\ r.pte # NoPTE /\ ~r.pte.R

-----------------------------------------------------------------------------
TypeOK == /\ req \in Request \cup {NoReq}
          /\ out \in Outcomes
          /\ resv \in Range \cup {NoResv}
          /\ lr \in [begin : Nat, len : {1, 2, 4, 8}, state : {"clean", "small", "over"}]
                       \cup {NoLR}

\* A request has been carried out, or the first half of a fetch.
Performed == req # NoReq /\ req' # req
Granted == out' \in {"ok", "sc_fail"} \/ req' # NoReq
Faulted == out' \notin {"none", "ok", "sc_fail", "load_misalign", "store_misalign"}

\* The six copies of the permission check in rv64_sv39.cpp and rv64_amo.cpp
\* agree with the architecture: an access that goes through was permitted
\* (an AMO is never tested for reading: a leaf that is writable is readable),
\* and one that reaches memory and faults was not; but for loads and LR that
\* use mprv, or need mxr.
AccessDecision ==
    [][Performed =>
          /\ Granted => Permitted(req) \/ ViaMprv(req)
          /\ Faulted => ~Permitted(req) \/ ByMxr(req) \/ Page(PAddr(req)) \notin Memory]_vars

\* An SC that stores to memory does so in the word the last LR has read,
\* with no SC and no aligned store at least as wide on it in between, by the
\* hart or another thread, whatever the translations were: the bus's test
\* for covering (AddrBus.hpp:92) is one for overlapping then.
SCSound ==
    [][Pending("sc") /\ out' = "ok" /\ Page(PAddr(req)) \in Memory =>
          /\ lr # NoLR
          /\ lr.begin = PAddr(req) /\ lr.len = req.len
          /\ lr.state = "over" => Misaligned(lr)]_vars

\* An SC with nothing between it and the LR of its word does not fail.
SCSucceeds ==
    [][Pending("sc") /\ lr # NoLR /\ out' = "sc_fail" =>
          \/ lr.begin # PAddr(req) \/ lr.len # req.len
          \/ lr.state # "clean"]_vars

\* assert(cause.cause) in step(): splitting keeps every fetch in its page.
FetchAssertion == out # "assertion"
=============================================================================
