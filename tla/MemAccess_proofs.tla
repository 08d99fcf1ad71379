-------------------------- MODULE MemAccess_proofs --------------------------
(***************************************************************************)
(* What holds of MemAccess for every page table, status, memory map and    *)
(* sequence of accesses: the permission checks, and the reservation.       *)
(*                                                                         *)
(* The reservation properties need that the bus's reservation and the last *)
(* LR agree: a valid one in memory is the last LR's, and the last LR's is  *)
(* valid as long as no store has touched it.                               *)
(***************************************************************************)
EXTENDS MemAccess, TLAPS

\* IssueFetch leaves no fetch that crosses a page.
FetchAligned ==
    req # NoReq /\ req.op = "fetch" =>
       req.begin % 2 = 0 /\ (req.len = 2 \/ (req.len = 4 /\ req.begin % 4 = 0))

\* Issue waits for the result of the last access to be retired.
OneAtATime == req # NoReq => out = "none"

ResvIsLR ==
    resv # NoResv /\ Page(resv.begin) \in Memory =>
       /\ lr # NoLR
       /\ lr.begin = resv.begin /\ lr.len = resv.len
       /\ lr.state = "over" => Misaligned(lr)

CleanIsResv ==
    lr # NoLR /\ lr.state = "clean" => resv = [begin |-> lr.begin, len |-> lr.len]

IInv == /\ TypeOK /\ FetchAligned /\ FetchAssertion /\ OneAtATime
        /\ ResvIsLR /\ CleanIsResv

Sizes == {1, 2, 4, 8}
LR == [begin : Nat, len : Sizes, state : {"clean", "small", "over"}]

-----------------------------------------------------------------------------
(* Lemmas about the operators *)

LEMMA FetchStays ==
  ASSUME NEW r \in Request, r.begin % 2 = 0,
         r.len = 2 \/ (r.len = 4 /\ r.begin % 4 = 0)
  PROVE  ~CrossesPage(r)
  BY DEF Request, CrossesPage, Page, PageSize

LEMMA PAddrNat ==
  ASSUME NEW r \in Request, Translated(r) => r.pte # NoPTE
  PROVE  PAddr(r) \in Nat
<1>1. CASE Translated(r)
  <2>1. r.pte.frame \in Nat /\ r.begin \in Nat
    BY <1>1 DEF Request, Leaf
  <2> QED
    BY <1>1, <2>1 DEF PAddr, PageSize
<1>2. CASE ~Translated(r)
  BY <1>2 DEF PAddr, Request
<1> QED
  BY <1>1, <1>2

LEMMA OkHasPTE ==
  ASSUME NEW r \in Request
  PROVE  /\ r.op # "fetch" /\ ReadTranslation(r) = "ok" => PAddr(r) \in Nat
         /\ r.op # "fetch" /\ WriteTranslation(r) = "ok" => PAddr(r) \in Nat
         /\ r.op = "fetch" /\ FetchTranslation(r) = "ok" => PAddr(r) \in Nat
  BY PAddrNat DEF ReadTranslation, WriteTranslation, FetchTranslation, Checked, Translated

LEMMA Feedback ==
  ASSUME NEW r \in Request
  PROVE  /\ ReadTranslation(r) \in {"ok", "misalign", "page", "access"}
         /\ WriteTranslation(r) \in {"ok", "misalign", "page"}
         /\ FetchTranslation(r) \in {"ok", "misalign", "page"}
         /\ FetchTranslation(r) = "misalign" => CrossesPage(r)
  BY DEF ReadTranslation, WriteTranslation, FetchTranslation, Checked

\* An aligned store at least as wide as an aligned word covers it or misses it.
LEMMA AlignedOverlap ==
  ASSUME NEW addr \in Nat, NEW len \in Sizes, NEW x \in LR,
         Overlaps(addr, len, x), ~Covers(addr, len, x),
         len >= x.len, addr % len = 0
  PROVE  Misaligned(x)
<1> DEFINE b == x.begin
<1>1. b \in Nat /\ x.len \in Sizes
  BY DEF LR
<1>2. addr < b + x.len /\ b < addr + len /\ ~(addr <= b /\ b + x.len <= addr + len)
  BY DEF Overlaps, Covers
<1>3. SUFFICES ASSUME b % x.len = 0 PROVE FALSE
  BY DEF Misaligned
<1> HIDE DEF b
<1>4. CASE x.len = 1
  BY <1>1, <1>2, <1>4 DEF Sizes
<1>5. CASE x.len = 2
  BY <1>1, <1>2, <1>3, <1>5 DEF Sizes
<1>6. CASE x.len = 4
  BY <1>1, <1>2, <1>3, <1>6 DEF Sizes
<1>7. CASE x.len = 8
  BY <1>1, <1>2, <1>3, <1>7 DEF Sizes
<1> QED
  BY <1>1, <1>4, <1>5, <1>6, <1>7 DEF Sizes

\* A store, by whomever, keeps reservation and last LR in agreement.
LEMMA StoreInv ==
  ASSUME IInv, NEW addr \in Nat, NEW len \in Sizes, BusStore(addr, len)
  PROVE  /\ resv' \in Range \cup {NoResv} /\ lr' \in LR \cup {NoLR}
         /\ ResvIsLR' /\ CleanIsResv'
<1> USE AccessAssumption DEF IInv, TypeOK
<1>1. resv \in Range \cup {NoResv} /\ lr \in LR \cup {NoLR}
  BY DEF LR, Sizes
<1>2. resv' \in {resv, NoResv} /\ (resv' # NoResv => ~Covers(addr, len, resv))
  BY DEF BusStore
<1>3. CASE lr = NoLR
  <2>1. lr' = NoLR
    BY <1>3 DEF BusStore, Touched
  <2> QED
    BY <1>1, <1>2, <1>3, <2>1 DEF ResvIsLR, CleanIsResv
<1>4. CASE lr # NoLR /\ ~Overlaps(addr, len, lr)
  <2>1. lr' = lr
    BY <1>4 DEF BusStore, Touched
  <2>2. lr \in LR
    BY <1>1, <1>4
  <2>3. ~Covers(addr, len, lr)
    BY <1>4, <2>2 DEF Covers, Overlaps, LR, Sizes
  <2>4. ResvIsLR'
    BY <1>2, <2>1 DEF ResvIsLR, Misaligned
  <2>5. CASE lr.state = "clean"
    <3>1. resv = [begin |-> lr.begin, len |-> lr.len]
      BY <1>4, <2>5 DEF CleanIsResv
    <3>2. ~Covers(addr, len, resv)
      BY <2>3, <3>1 DEF Covers
    <3>3. resv' = resv
      BY <3>2 DEF BusStore
    <3> QED
      BY <1>1, <1>2, <2>1, <2>4, <3>1, <3>3 DEF CleanIsResv
  <2> QED
    BY <1>1, <1>2, <2>1, <2>4, <2>5 DEF CleanIsResv
<1>5. CASE lr # NoLR /\ Overlaps(addr, len, lr)
  <2> DEFINE state == IF lr.state = "over" \/ (len >= lr.len /\ addr % len = 0)
                      THEN "over" ELSE "small"
  <2>1. lr \in LR
    BY <1>1, <1>5
  <2>2. lr' = [lr EXCEPT !.state = state]
    BY <1>5 DEF BusStore, Touched
  <2>3. /\ lr' \in LR /\ lr'.state = state
        /\ lr'.begin = lr.begin /\ lr'.len = lr.len
    BY <2>1, <2>2 DEF LR
  <2>4. CleanIsResv'
    BY <2>3 DEF CleanIsResv
  <2>5. ASSUME resv' # NoResv, Page(resv'.begin) \in Memory
        PROVE  /\ lr'.begin = resv'.begin /\ lr'.len = resv'.len
               /\ lr'.state = "over" => Misaligned(lr')
    <3>1. resv' = resv
      BY <1>2, <2>5
    <3>2. lr.begin = resv.begin /\ lr.len = resv.len /\ (lr.state = "over" => Misaligned(lr))
      BY <2>5, <3>1 DEF ResvIsLR
    <3>3. ~Covers(addr, len, lr)
      BY <1>2, <2>5, <3>1, <3>2 DEF Covers
    <3>4. len >= lr.len /\ addr % len = 0 => Misaligned(lr)
      BY <1>5, <2>1, <3>3, AlignedOverlap
    <3>5. Misaligned(lr) => Misaligned(lr')
      BY <2>3 DEF Misaligned
    <3> QED
      BY <2>3, <3>1, <3>2, <3>4, <3>5
  <2>6. lr' # NoLR
    BY <2>3 DEF LR, Sizes
  <2> QED
    BY <1>1, <1>2, <2>3, <2>4, <2>5, <2>6 DEF ResvIsLR
<1> QED
  BY <1>3, <1>4, <1>5
-----------------------------------------------------------------------------
(* The invariant *)

LEMMA InitInv == Init => IInv
  BY AccessAssumption
     DEF Init, IInv, TypeOK, FetchAligned, FetchAssertion, OneAtATime, ResvIsLR, CleanIsResv, Outcomes

\* The result of an access is one of Outcomes, and there is no other request.
LEMMA FinishInv ==
  ASSUME IInv, NEW result, Finish(result), result \in Outcomes, result # "assertion"
  PROVE  /\ req' \in Request \cup {NoReq} /\ out' \in Outcomes
         /\ FetchAligned' /\ FetchAssertion' /\ OneAtATime'
  BY DEF Finish, FetchAligned, FetchAssertion, OneAtATime

LEMMA CausesOutcomes ==
  /\ \A f \in {"misalign", "page", "access"} :
        /\ LoadCause[f] \in Outcomes /\ LoadCause[f] # "assertion"
        /\ StoreCause[f] \in Outcomes /\ StoreCause[f] # "assertion"
  /\ InstCause["page"] \in Outcomes /\ InstCause["page"] # "assertion"
  /\ \A o \in {"ok", "sc_fail", "load_misalign", "store_misalign", "instr_acc_fault",
               "load_acc_fault", "store_acc_fault", "store_pgfault"} : o \in Outcomes
  BY DEF Outcomes, LoadCause, StoreCause, InstCause

\* The reservation and the last LR are the business of stores, LR and SC.
LEMMA KeepResv ==
  ASSUME IInv, UNCHANGED <<resv, lr>>
  PROVE  /\ resv' \in Range \cup {NoResv} /\ lr' \in LR \cup {NoLR}
         /\ ResvIsLR' /\ CleanIsResv'
  BY DEF IInv, TypeOK, ResvIsLR, CleanIsResv, LR, Sizes, Misaligned

LEMMA FetchInv == IInv /\ Fetch => IInv'
<1> SUFFICES ASSUME IInv, Fetch PROVE IInv'
  OBVIOUS
<1>1. req \in Request /\ req.op = "fetch"
  BY DEF Fetch, Pending, IInv, TypeOK
<1>2. /\ resv' \in Range \cup {NoResv} /\ lr' \in LR \cup {NoLR}
      /\ ResvIsLR' /\ CleanIsResv'
  BY KeepResv DEF Fetch
<1>3. req # NoReq
  BY DEF Fetch, Pending
<1>4. FetchTranslation(req) \in {"ok", "page"}
  BY <1>1, <1>3, FetchStays, Feedback DEF IInv, FetchAligned
<1>5. ASSUME NEW result \in {"ok", "instr_acc_fault", "instr_pgfault"}, Finish(result)
      PROVE  IInv'
  BY <1>2, <1>5, FinishInv, CausesOutcomes DEF IInv, TypeOK, LR, Sizes, InstCause
<1>6. ASSUME NEW e \in Entries("fetch", req.env),
             req' = [req EXCEPT !.begin = @ + 2, !.pte = e],
             req.len = 2, req.begin % 4 = 2, out' = out
      PROVE  IInv'
  <2>1. e \in Leaf \cup {NoPTE}
    BY AccessAssumption DEF Entries
  <2> DEFINE v == req.env
             b == req.begin
             p == req.pte
  <2>2. /\ b \in Nat /\ v \in Env /\ b % 4 = 2
        /\ req = [op |-> "fetch", env |-> v, begin |-> b, len |-> 2, pte |-> p]
    <3>1. req = [op |-> req.op, env |-> v, begin |-> b, len |-> req.len, pte |-> p]
      BY <1>1 DEF Request
    <3> QED
      BY <1>1, <1>6, <3>1 DEF Request
  <2> HIDE DEF v, b, p
  <2>3. req' = [op |-> "fetch", env |-> v, begin |-> b + 2, len |-> 2, pte |-> e]
    BY <1>6, <2>2
  <2>4. req' \in Request
    BY <2>1, <2>2, <2>3 DEF Request
  <2>5. (b + 2) % 2 = 0
    BY <2>2
  <2>6. FetchAligned'
    <3>1. req'.begin = b + 2 /\ req'.len = 2
      BY <2>3
    <3> QED
      BY <2>5, <3>1 DEF FetchAligned
  <2>7. out' \in Outcomes /\ FetchAssertion' /\ OneAtATime'
    BY <1>3, <1>6 DEF IInv, TypeOK, FetchAssertion, OneAtATime
  <2> QED
    BY <1>2, <2>4, <2>6, <2>7 DEF IInv, TypeOK, LR, Sizes
<1>7. CASE FetchTranslation(req) # "ok"
  <2>1. InstCause[FetchTranslation(req)] = "instr_pgfault"
    BY <1>4, <1>7 DEF InstCause
  <2>2. Finish(InstCause[FetchTranslation(req)])
    BY <1>7 DEF Fetch
  <2> QED
    BY <1>5, <2>1, <2>2
<1>8. CASE FetchTranslation(req) = "ok" /\ Finish("instr_acc_fault")
  BY <1>5, <1>8
<1>9. CASE FetchTranslation(req) = "ok" /\ ~Finish("instr_acc_fault")
  BY <1>5, <1>6, <1>9 DEF Fetch
<1> QED
  BY <1>7, <1>8, <1>9

\* Of the other accesses: what is left to show is the reservation.
LEMMA AccessInv ==
  ASSUME IInv, Load \/ Store \/ LoadReserved \/ StoreConditional \/ Amo
  PROVE  IInv'
<1>1. req \in Request /\ req.op # "fetch" /\ req.len \in Sizes
  BY DEF Load, Store, LoadReserved, StoreConditional, Amo, Pending, IInv, TypeOK, Request, Sizes
<1>2. /\ ReadTranslation(req) \in {"ok", "misalign", "page", "access"}
      /\ WriteTranslation(req) \in {"ok", "misalign", "page"}
  BY <1>1, Feedback
<1>3. PICK result \in Outcomes : Finish(result) /\ result # "assertion"
  BY <1>2, CausesOutcomes DEF Load, Store, LoadReserved, StoreConditional, Amo
<1>4. /\ req' \in Request \cup {NoReq} /\ out' \in Outcomes
      /\ FetchAligned' /\ FetchAssertion' /\ OneAtATime'
  BY <1>3, FinishInv
<1>5. ReadTranslation(req) = "ok" \/ WriteTranslation(req) = "ok" => PAddr(req) \in Nat
  BY <1>1, OkHasPTE
<1>6. /\ resv' \in Range \cup {NoResv} /\ lr' \in LR \cup {NoLR}
      /\ ResvIsLR' /\ CleanIsResv'
  <2>1. CASE UNCHANGED <<resv, lr>>
    BY <2>1, KeepResv
  <2>2. CASE WriteTranslation(req) = "ok" /\ BusStore(PAddr(req), req.len)
    BY <1>1, <1>5, <2>2, StoreInv
  <2>3. CASE resv' = NoResv /\ lr' = NoLR
    BY <2>3 DEF ResvIsLR, CleanIsResv
  <2>4. CASE LoadReserved /\ ReadTranslation(req) = "ok"
    <3> DEFINE a == PAddr(req)
    <3>1. a \in Nat /\ resv' = [begin |-> a, len |-> req.len]
      BY <1>5, <2>4 DEF LoadReserved, Reserve
    <3>2. resv' \in Range
      BY <1>1, <3>1 DEF Range, Sizes
    <3>3. CASE lr' = NoLR
      <4>1. [begin |-> a, len |-> req.len, state |-> "clean"] # NoLR
        BY <1>1, <3>1, AccessAssumption DEF Sizes
      <4>2. FALSE \in Accepts(a)
        <5>1. PICK done \in Accepts(a) :
                 lr' = IF done THEN [begin |-> a, len |-> req.len, state |-> "clean"] ELSE NoLR
          BY <2>4 DEF LoadReserved
        <5>2. done \in BOOLEAN /\ done # TRUE
          BY <3>3, <4>1, <5>1 DEF Accepts
        <5> QED
          BY <5>1, <5>2
      <4>3. Page(a) \notin Memory
        BY <4>2 DEF Accepts
      <4> QED
        BY <3>1, <3>2, <3>3, <4>3 DEF ResvIsLR, CleanIsResv
    <3>4. CASE lr' = [begin |-> a, len |-> req.len, state |-> "clean"]
      <4>1. lr' \in LR
        BY <1>1, <3>1, <3>4 DEF LR
      <4> QED
        BY <3>1, <3>2, <3>4, <4>1, AccessAssumption DEF ResvIsLR, CleanIsResv, LR, Sizes
    <3> QED
      BY <2>4, <3>3, <3>4 DEF LoadReserved
  <2> QED
    BY <2>1, <2>2, <2>3, <2>4 DEF Load, Store, LoadReserved, StoreConditional, Amo
<1> QED
  BY <1>4, <1>6 DEF IInv, TypeOK, LR, Sizes

LEMMA NextInv == IInv /\ [Next]_vars => IInv'
<1> SUFFICES ASSUME IInv, [Next]_vars PROVE IInv'
  OBVIOUS
<1>1. ASSUME NEW op \in {"load", "store", "lr", "sc", "amo"}, NEW v \in Envs,
             NEW range \in Ranges, NEW e \in Entries(op, v), Issue(op, v, range, e)
      PROVE IInv'
  <2>1. /\ range[1] \in Nat /\ range[2] \in {1, 2, 4, 8} /\ v \in Env
        /\ e \in Leaf \cup {NoPTE}
    BY AccessAssumption DEF Entries
  <2>2. req' \in Request /\ req'.op = op
    BY <1>1, <2>1 DEF Issue, Request
  <2> QED
    BY <1>1, <2>2, KeepResv
       DEF Issue, Idle, IInv, TypeOK, FetchAligned, FetchAssertion, OneAtATime, LR, Sizes
<1>2. ASSUME NEW v \in Envs, NEW pc \in PCs, NEW e \in Entries("fetch", v), IssueFetch(v, pc, e)
      PROVE IInv'
  <2>1. pc \in Nat /\ pc % 2 = 0 /\ v \in Env /\ e \in Leaf \cup {NoPTE}
    BY AccessAssumption DEF Entries
  <2>2. pc % 4 = 2 \/ pc % 4 = 0
    BY <2>1
  <2>3. /\ req' \in Request /\ req'.begin = pc
        /\ req'.len = (IF pc % 4 = 2 THEN 2 ELSE 4)
    BY <1>2, <2>1 DEF IssueFetch, Request
  <2> QED
    BY <1>2, <2>1, <2>2, <2>3, KeepResv
       DEF IssueFetch, Idle, IInv, TypeOK, FetchAligned, FetchAssertion, OneAtATime, LR, Sizes
<1>3. CASE Fetch
  BY <1>3, FetchInv
<1>4. CASE Load \/ Store \/ LoadReserved \/ StoreConditional \/ Amo
  BY <1>4, AccessInv
<1>5. CASE Retire
  BY <1>5, KeepResv
     DEF Retire, IInv, TypeOK, FetchAligned, FetchAssertion, OneAtATime, Outcomes, LR, Sizes
<1>6. ASSUME NEW range \in Ranges, OtherStore(range) PROVE IInv'
  <2>1. range[1] \in Nat /\ range[2] \in Sizes
    BY AccessAssumption DEF Sizes
  <2> QED
    BY <1>6, <2>1, StoreInv
       DEF OtherStore, IInv, TypeOK, FetchAligned, FetchAssertion, OneAtATime, LR, Sizes
<1>7. CASE UNCHANGED vars
  BY <1>7, KeepResv DEF vars, IInv, TypeOK, FetchAligned, FetchAssertion, OneAtATime, LR, Sizes
<1> QED
  BY <1>1, <1>2, <1>3, <1>4, <1>5, <1>6, <1>7 DEF Next

LEMMA Inductive == Spec => []IInv
  BY InitInv, NextInv, PTL DEF Spec

\* memRead, memWrite and their kin: every access ends in a result or a cause.
THEOREM TypeCorrect == Spec => []TypeOK
  BY Inductive, PTL DEF IInv

\* VAddr_InstFetch_MMU_API: a fetch split in halves never crosses a page, and
\* step() has a cause for every feedback.
THEOREM FetchAssertionHolds == Spec => []FetchAssertion
  BY Inductive, PTL DEF IInv

-----------------------------------------------------------------------------
(* The permission checks *)

\* What an access needs, in terms of the bits of the entry.
LEMMA Rights ==
  ASSUME NEW e \in Leaf, NEW extra \in SUBSET {"R"}
  PROVE  LET rights == {f \in {"R", "W", "X", "D"} : e[f]} \cup extra
         IN  /\ {"X"} \subseteq rights <=> e.X
             /\ {"R"} \subseteq rights <=> e.R \/ "R" \in extra
             /\ {"W", "D"} \subseteq rights <=> e.W /\ e.D
             /\ {"R", "W", "D"} \subseteq rights <=> e.W /\ e.D
  BY DEF Leaf

\* The reference, for a leaf; a writable one is readable.
LEMMA PermittedLeaf ==
  ASSUME NEW r \in Request, r.pte # NoPTE
  PROVE  LET v == r.env
             p == IF r.op # "fetch" /\ v.mprv THEN v.mpp ELSE v.mode
             e == r.pte
         IN  Permitted(r) <=>
                \/ p = M
                \/ ~v.paged
                \/ /\ e.A
                   /\ r.op = "fetch" => e.X
                   /\ r.op \in Reads => e.R \/ (v.mxr /\ e.X)
                   /\ r.op \in {"store", "sc", "amo"} => e.W /\ e.D
                   /\ p = U => e.U
                   /\ p = S /\ e.U => v.sum /\ r.op # "fetch"
<1> DEFINE extra == IF r.env.mxr /\ r.pte.X THEN {"R"} ELSE {}
           rights == {f \in {"R", "W", "X", "D"} : r.pte[f]} \cup extra
<1>1. r.pte \in Leaf /\ extra \in SUBSET {"R"}
  BY DEF Request
<1>2. /\ {"X"} \subseteq rights <=> r.pte.X
      /\ {"R"} \subseteq rights <=> r.pte.R \/ "R" \in extra
      /\ {"W", "D"} \subseteq rights <=> r.pte.W /\ r.pte.D
      /\ {"R", "W", "D"} \subseteq rights <=> r.pte.W /\ r.pte.D
  BY <1>1, Rights
<1>3. "R" \in extra <=> r.env.mxr /\ r.pte.X
  OBVIOUS
<1>4. r.op \in {"fetch", "load", "store", "lr", "sc", "amo"}
  BY DEF Request
<1>5. Needs[r.op] \subseteq rights <=>
         /\ r.op = "fetch" => r.pte.X
         /\ r.op \in Reads => r.pte.R \/ (r.env.mxr /\ r.pte.X)
         /\ r.op \in {"store", "sc", "amo"} => r.pte.W /\ r.pte.D
  <2>1. CASE r.op = "fetch"
    BY <1>2, <2>1 DEF Needs, Reads
  <2>2. CASE r.op \in {"load", "lr"}
    BY <1>2, <1>3, <2>2 DEF Needs, Reads
  <2>3. CASE r.op \in {"store", "sc"}
    BY <1>2, <2>3 DEF Needs, Reads
  <2>4. CASE r.op = "amo"
    BY <1>2, <2>4 DEF Needs, Reads
  <2> QED
    BY <1>4, <2>1, <2>2, <2>3, <2>4
<1> HIDE DEF rights
<1>6. Permitted(r) <=>
         LET p == IF r.op # "fetch" /\ r.env.mprv THEN r.env.mpp ELSE r.env.mode
         IN  \/ p = M
             \/ ~r.env.paged
             \/ /\ r.pte.A
                /\ Needs[r.op] \subseteq rights
                /\ p = U => r.pte.U
                /\ p = S /\ r.pte.U => r.env.sum /\ r.op # "fetch"
  BY DEF Permitted, rights
<1> QED
  BY <1>5, <1>6

\* Without an entry only an access that needs no translation is permitted.
LEMMA PermittedNone ==
  ASSUME NEW r \in Request, r.pte = NoPTE
  PROVE  LET p == IF r.op # "fetch" /\ r.env.mprv THEN r.env.mpp ELSE r.env.mode
         IN  Permitted(r) <=> p = M \/ ~r.env.paged
  BY DEF Permitted

LEMMA ReadCheck ==
  ASSUME NEW r \in Request, r.op \in Reads
  PROVE  /\ ReadTranslation(r) = "ok" => Permitted(r) \/ ViaMprv(r)
         /\ ReadTranslation(r) \in {"page", "access"} => ~Permitted(r) \/ ByMxr(r)
<1>1. r.env \in Env
  BY DEF Request
<1>2. CASE r.pte = NoPTE
  BY <1>1, <1>2, PermittedNone
     DEF ReadTranslation, Checked, Bare, Reads, Env, U, S, M
<1>3. CASE r.pte # NoPTE
  <2>1. r.pte \in Leaf
    BY <1>3 DEF Request
  <2> QED
    BY <1>1, <1>3, <2>1, PermittedLeaf
       DEF ReadTranslation, Checked, Bare, Priv, ViaMprv, ByMxr, Reads, Env, Leaf, U, S, M
<1> QED
  BY <1>2, <1>3

LEMMA WriteCheck ==
  ASSUME NEW r \in Request, r.op \in {"store", "sc", "amo"}
  PROVE  /\ WriteTranslation(r) = "ok" => Permitted(r)
         /\ WriteTranslation(r) = "page" => ~Permitted(r)
<1>1. r.env \in Env
  BY DEF Request
<1>2. CASE r.pte = NoPTE
  BY <1>1, <1>2, PermittedNone DEF WriteTranslation, Checked, Bare, Env, U, S, M
<1>3. CASE r.pte # NoPTE
  <2>1. r.pte \in Leaf
    BY <1>3 DEF Request
  <2> QED
    BY <1>1, <1>3, <2>1, PermittedLeaf
       DEF WriteTranslation, Checked, Bare, Priv, Reads, Env, Leaf, U, S, M
<1> QED
  BY <1>2, <1>3

LEMMA FetchCheck ==
  ASSUME NEW r \in Request, r.op = "fetch"
  PROVE  /\ FetchTranslation(r) = "ok" => Permitted(r)
         /\ FetchTranslation(r) = "page" => ~Permitted(r)
<1>1. r.env \in Env
  BY DEF Request
<1>2. CASE r.pte = NoPTE
  BY <1>1, <1>2, PermittedNone DEF FetchTranslation, Checked, BareFetch, Env, U, S, M
<1>3. CASE r.pte # NoPTE
  <2>1. r.pte \in Leaf
    BY <1>3 DEF Request
  <2> QED
    BY <1>1, <1>3, <2>1, PermittedLeaf
       DEF FetchTranslation, Checked, BareFetch, Reads, Env, Leaf, U, S, M
<1> QED
  BY <1>2, <1>3

\* The six checks agree with the architecture but for mprv and mxr in loads
\* and LR, and what is refused otherwise is not memory.
THEOREM AccessDecisionHolds == Spec => AccessDecision
<1> DEFINE Agrees == Performed =>
             /\ Granted => Permitted(req) \/ ViaMprv(req)
             /\ Faulted => ~Permitted(req) \/ ByMxr(req) \/ Page(PAddr(req)) \notin Memory
<1>1. \A addr : FALSE \in Accepts(addr) => Page(addr) \notin Memory
  BY DEF Accepts
<1>2. ASSUME IInv, Fetch PROVE Agrees
  <2>1. req \in Request /\ req.op = "fetch" /\ req # NoReq
    BY <1>2 DEF Fetch, Pending, IInv, TypeOK
  <2>2. FetchTranslation(req) \in {"ok", "page"}
    BY <1>2, <2>1, FetchStays, Feedback DEF IInv, FetchAligned
  <2>3. CASE FetchTranslation(req) = "page"
    <3>1. Finish(InstCause["page"])
      BY <1>2, <2>3 DEF Fetch
    <3> QED
      BY <2>1, <2>3, <3>1, FetchCheck DEF Finish, Granted, InstCause
  <2>4. CASE FetchTranslation(req) = "ok"
    <3>1. Permitted(req)
      BY <2>1, <2>4, FetchCheck
    <3>2. Faulted => FALSE \in Accepts(PAddr(req))
      BY <1>2, <2>1, <2>4 DEF Fetch, Finish, Faulted, IInv, OneAtATime
    <3> QED
      BY <1>1, <3>1, <3>2
  <2> QED
    BY <2>2, <2>3, <2>4
<1>3. ASSUME IInv, Load \/ LoadReserved PROVE Agrees
  <2>1. req \in Request /\ req.op \in Reads /\ req # NoReq
    BY <1>3 DEF Load, LoadReserved, Pending, IInv, TypeOK, Reads
  <2>2. ReadTranslation(req) \in {"ok", "misalign", "page", "access"} /\ req' = NoReq
    BY <1>3, <2>1, Feedback DEF Load, LoadReserved, Finish
  <2>3. CASE out' \in {"load_misalign", "store_misalign"}
    BY <2>2, <2>3 DEF Granted, Faulted
  <2>4. CASE ReadTranslation(req) \in {"page", "access"} /\ out' \notin {"ok", "sc_fail"}
    BY <2>1, <2>2, <2>4, ReadCheck DEF Granted
  <2>5. CASE ReadTranslation(req) = "ok" /\ (out' # "ok" => FALSE \in Accepts(PAddr(req)))
    BY <1>1, <2>1, <2>5, ReadCheck DEF Faulted
  <2>6. CASE Load
    <3>1. CASE Misaligned(req)
      BY <2>3, <2>6, <3>1 DEF Load, Finish
    <3>2. CASE ~Misaligned(req) /\ ReadTranslation(req) # "ok"
      <4>1. out' = LoadCause[ReadTranslation(req)]
        BY <2>6, <3>2 DEF Load, Finish
      <4> QED
        BY <2>2, <2>3, <2>4, <3>2, <4>1 DEF LoadCause
    <3>3. CASE ~Misaligned(req) /\ ReadTranslation(req) = "ok"
      <4>1. PICK done \in Accepts(PAddr(req)) : out' = IF done THEN "ok" ELSE "load_acc_fault"
        BY <2>6, <3>3 DEF Load, Finish
      <4> QED
        BY <2>5, <3>3, <4>1 DEF Accepts
    <3> QED
      BY <3>1, <3>2, <3>3
  <2>7. CASE LoadReserved
    <3>1. CASE ReadTranslation(req) # "ok"
      <4>1. out' = StoreCause[ReadTranslation(req)]
        BY <2>7, <3>1 DEF LoadReserved, Finish
      <4> QED
        BY <2>2, <2>3, <2>4, <3>1, <4>1 DEF StoreCause
    <3>2. CASE ReadTranslation(req) = "ok"
      <4>1. PICK done \in Accepts(PAddr(req)) : out' = IF done THEN "ok" ELSE "store_acc_fault"
        BY <2>7, <3>2 DEF LoadReserved, Finish
      <4> QED
        BY <2>5, <3>2, <4>1 DEF Accepts
    <3> QED
      BY <3>1, <3>2
  <2> QED
    BY <1>3, <2>6, <2>7
<1>4. ASSUME IInv, Store \/ StoreConditional \/ Amo PROVE Agrees
  <2>1. req \in Request /\ req.op \in {"store", "sc", "amo"} /\ req # NoReq
    BY <1>4 DEF Store, StoreConditional, Amo, Pending, IInv, TypeOK
  <2>2. WriteTranslation(req) \in {"ok", "misalign", "page"} /\ req' = NoReq
    BY <1>4, <2>1, Feedback DEF Store, StoreConditional, Amo, Finish
  <2>3. CASE out' = "store_misalign"
    BY <2>2, <2>3 DEF Granted, Faulted
  <2>4. CASE WriteTranslation(req) = "page" /\ out' \notin {"ok", "sc_fail"}
    BY <2>1, <2>2, <2>4, WriteCheck DEF Granted
  <2>5. CASE /\ WriteTranslation(req) = "ok"
             /\ out' \notin {"ok", "sc_fail"} => FALSE \in Accepts(PAddr(req))
    BY <1>1, <2>1, <2>5, WriteCheck DEF Faulted
  <2>6. CASE Misaligned(req) /\ out' = "store_misalign"
    BY <2>3, <2>6
  <2>7. CASE out' = StoreCause[WriteTranslation(req)] /\ WriteTranslation(req) # "ok"
    BY <2>2, <2>3, <2>4, <2>7 DEF StoreCause
  <2>8. CASE /\ WriteTranslation(req) = "ok"
             /\ \/ out' = "sc_fail"
                \/ FALSE \in Accepts(PAddr(req))
                \/ \E done \in Accepts(PAddr(req)) :
                      out' = IF done THEN "ok" ELSE
                             IF Translated(req) THEN "store_pgfault" ELSE "store_acc_fault"
                \/ \E done \in Accepts(PAddr(req)) :
                      out' = IF done THEN "ok" ELSE "store_acc_fault"
    BY <2>5, <2>8 DEF Accepts
  <2> QED
    BY <1>4, <2>6, <2>7, <2>8 DEF Store, StoreConditional, Amo, Finish
<1>5. ASSUME req' = req \/ req = NoReq PROVE Agrees
  BY <1>5 DEF Performed
<1>6. IInv /\ [Next]_vars => Agrees
  BY <1>2, <1>3, <1>4, <1>5
     DEF Next, Issue, IssueFetch, Idle, Retire, OtherStore, vars
<1> QED
  BY <1>6, Inductive, PTL DEF Spec, AccessDecision, Performed, Granted, Faulted

-----------------------------------------------------------------------------
(* The reservation *)

\* reserve, check and AddrBus::store: an SC never stores to memory on the
\* strength of a reservation that an aligned store has overtaken.
THEOREM SCIsSound == Spec => SCSound
<1> DEFINE Sound == Pending("sc") /\ out' = "ok" /\ Page(PAddr(req)) \in Memory =>
             /\ lr # NoLR
             /\ lr.begin = PAddr(req) /\ lr.len = req.len
             /\ lr.state = "over" => Misaligned(lr)
<1>1. ASSUME IInv, StoreConditional PROVE Sound
  <2> SUFFICES ASSUME out' = "ok", Page(PAddr(req)) \in Memory
               PROVE  /\ lr # NoLR
                      /\ lr.begin = PAddr(req) /\ lr.len = req.len
                      /\ lr.state = "over" => Misaligned(lr)
    OBVIOUS
  <2>1. req \in Request
    BY <1>1 DEF StoreConditional, Pending, IInv, TypeOK
  <2>2. WriteTranslation(req) = "ok" /\ Check(PAddr(req), req.len)
    BY <1>1, <2>1, Feedback DEF StoreConditional, Finish, StoreCause
  <2>3. resv = [begin |-> PAddr(req), len |-> req.len] /\ PAddr(req) \in Nat
    BY <1>1, <2>1, <2>2, OkHasPTE DEF Check, StoreConditional, Pending
  <2>4. resv \in Range
    BY <2>1, <2>3 DEF Range, Request
  <2>5. resv # NoResv /\ resv.begin = PAddr(req) /\ resv.len = req.len
    BY <2>3, <2>4, AccessAssumption
  <2> QED
    BY <1>1, <2>5 DEF IInv, ResvIsLR
<1>2. ASSUME IInv, [Next]_vars, ~StoreConditional PROVE Sound
  BY <1>2 DEF IInv, OneAtATime, Next, Pending, Issue, IssueFetch, Idle, Fetch, Load, Store,
              LoadReserved, Amo, Retire, OtherStore, vars
<1> QED
  BY <1>1, <1>2, Inductive, PTL DEF Spec, SCSound

\* The same three: nothing but a store, or another SC, makes an SC fail.
THEOREM SCProceeds == Spec => SCSucceeds
<1> DEFINE Proceeds == Pending("sc") /\ lr # NoLR /\ out' = "sc_fail" =>
             \/ lr.begin # PAddr(req) \/ lr.len # req.len
             \/ lr.state # "clean"
<1>1. ASSUME IInv, StoreConditional PROVE Proceeds
  <2>1. req \in Request
    BY <1>1 DEF StoreConditional, Pending, IInv, TypeOK
  <2>2. out' = "sc_fail" => ~Check(PAddr(req), req.len)
    BY <1>1, <2>1, Feedback DEF StoreConditional, Finish, StoreCause
  <2> QED
    BY <1>1, <2>2 DEF IInv, CleanIsResv, Check
<1>2. ASSUME IInv, [Next]_vars, ~StoreConditional PROVE Proceeds
  BY <1>2 DEF IInv, OneAtATime, Next, Pending, Issue, IssueFetch, Idle, Fetch, Load, Store,
              LoadReserved, Amo, Retire, OtherStore, vars
<1> QED
  BY <1>1, <1>2, Inductive, PTL DEF Spec, SCSucceeds
=============================================================================
