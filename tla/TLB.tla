-------------------------------- MODULE TLB --------------------------------
(***************************************************************************)
(* The translation cache of RVCore_ns::RV64SV39_MMU (rv64_sv39.cpp): the   *)
(* page-table walk, the entries it leaves in the TLB, the lookup, and      *)
(* sfence.vma; against a guest that rewrites its page tables, switches     *)
(* address spaces and fences as it pleases.                                *)
(*                                                                         *)
(* A virtual address is the sequence of its page numbers, most significant *)
(* first; a page or a table is known by the prefix that leads to it, so    *)
(* that the length of an entry's prefix is its page size.  Every address   *)
(* space has a root; below the page numbers in Global the tables are the   *)
(* ones all roots share, and leaf entries there, and only there, have G.   *)
(* A leaf stands for everything a leaf entry holds.                        *)
(***************************************************************************)
EXTENDS Naturals, Sequences

CONSTANTS TlbSize,   \* TLB_SIZE
          Levels,    \* 3 in SV39
          VAddrs,    \* the virtual addresses the guest uses
          Global,    \* first page numbers of the regions all spaces share
          Asids,     \* the address spaces, each with its asid
          Leaves,    \* what a leaf entry may hold
          None, Dir, \* an invalid entry; a pointer to the next table
          Invalid,   \* pagesize 0
          All,       \* the operand 0 of sfence.vma
          Tables,    \* the page tables the guest starts with
          Writable   \* bound: the entries it rewrites, as <<asid, prefix>>

Prefix(v, n) == SubSeq(v, 1, n)
Prefixes == {Prefix(v, n) : v \in VAddrs, n \in 1 .. Levels}
PTE == Leaves \cup {None, Dir}
Entry == [vpa : Prefixes, asid : Asids, leaf : Leaves]
Slots == 0 .. TlbSize - 1
IsGlobal(path) == path[1] \in Global

ASSUME TLBAssumption ==
    /\ TlbSize \in Nat \ {0} /\ Levels \in Nat \ {0}
    /\ \A v \in VAddrs : v \in Seq(Nat) /\ Len(v) = Levels
    /\ None \notin Leaves /\ Dir \notin Leaves /\ None # Dir
    /\ Invalid \notin Entry
    /\ All \notin VAddrs /\ All \notin Asids
    /\ Tables \subseteq [Asids -> [Prefixes -> PTE]]
    /\ \A t \in Tables : \A a, b \in Asids : \A p \in Prefixes :
          IsGlobal(p) => t[a][p] = t[b][p]
    /\ Writable \subseteq Asids \X Prefixes

VARIABLES
    pt,                 \* pt[a][p]: the entry of space a at prefix p
    satp,               \* satp.asid, whose root satp.ppn points to
    tlb,
    lastSwappedIndex,
    unsynced            \* unsynced[a][v]: what the guest has changed of the
                        \* translation of v in a and not fenced yet (history)

vars == <<pt, satp, tlb, lastSwappedIndex, unsynced>>

Init == /\ pt \in Tables
        /\ satp \in Asids
        /\ tlb = [i \in Slots |-> Invalid]
        /\ lastSwappedIndex = 0
        /\ unsynced = [a \in Asids |-> [v \in VAddrs |-> "no"]]

-----------------------------------------------------------------------------
(* getTLBEntry *)

\* The level the walk of v in space a stops at: the first entry that is no
\* pointer, or the last level.
WalkLevel(a, v) ==
    CHOOSE n \in 1 .. Levels : /\ \A m \in 1 .. n - 1 : pt[a][Prefix(v, m)] = Dir
                               /\ n = Levels \/ pt[a][Prefix(v, n)] # Dir

WalkEntry(a, v) == pt[a][Prefix(v, WalkLevel(a, v))]

Covers(e, v) == e # Invalid /\ Prefix(v, Len(e.vpa)) = e.vpa

\* Lookup matches the asid or the G bit, and the page.
Matches(e, a, v) == Covers(e, v) /\ (e.asid = a \/ IsGlobal(e.vpa))

Hits(a, v) == {i \in Slots : Matches(tlb[i], a, v)}

\* Mutants of Access: the index is not wrapped; an access always walks.
AccessUnwrapped(v) ==
    /\ Hits(satp, v) = {}
    /\ WalkEntry(satp, v) \in Leaves
    /\ tlb' = [tlb EXCEPT ![lastSwappedIndex] =
                  [vpa |-> Prefix(v, WalkLevel(satp, v)), asid |-> satp,
                   leaf |-> WalkEntry(satp, v)]]
    /\ lastSwappedIndex' = lastSwappedIndex + 1
    /\ UNCHANGED <<pt, satp, unsynced>>

AccessWalksAlways(v) ==
    /\ WalkEntry(satp, v) \in Leaves
    /\ tlb' = [tlb EXCEPT ![lastSwappedIndex] =
                  [vpa |-> Prefix(v, WalkLevel(satp, v)), asid |-> satp,
                   leaf |-> WalkEntry(satp, v)]]
    /\ lastSwappedIndex' = (lastSwappedIndex + 1) % TlbSize
    /\ UNCHANGED <<pt, satp, unsynced>>

\* Any load, store or fetch at v: with more than one match the assertion ends
\* the program; with one the TLB is left alone; with none the table is walked
\* and a leaf, whatever its permissions, replaces the next entry in turn.
Access(v) ==
    /\ Hits(satp, v) = {}
    /\ WalkEntry(satp, v) \in Leaves
    /\ tlb' = [tlb EXCEPT ![lastSwappedIndex] =
                  [vpa |-> Prefix(v, WalkLevel(satp, v)), asid |-> satp,
                   leaf |-> WalkEntry(satp, v)]]
    /\ lastSwappedIndex' = (lastSwappedIndex + 1) % TlbSize
    /\ UNCHANGED <<pt, satp, unsynced>>

\* What a fence of x in space a gives the guest: its changes of leaves on the
\* way to x, and with no address those of pointers too, take effect; a fence
\* of one space says nothing of the shared tables.
Fenced(x, a) ==
    [b \in Asids |-> [v \in VAddrs |->
        IF /\ a = All \/ (b = a /\ ~IsGlobal(v))
           /\ \/ x = All
              \/ /\ unsynced[b][v] = "leaf"
                 /\ LET n == WalkLevel(b, v) IN Prefix(x, n) = Prefix(v, n)
        THEN "no" ELSE unsynced[b][v]]]

\* Mutant of SFence: the address is compared as one of a small page.
SFenceSmallPages(x, a) ==
    /\ tlb' = [i \in Slots |->
                  IF /\ tlb[i] # Invalid
                     /\ a = All \/ tlb[i].asid = a
                     /\ x = All \/ tlb[i].vpa = x
                  THEN Invalid ELSE tlb[i]]
    /\ unsynced' = Fenced(x, a)
    /\ UNCHANGED <<pt, satp, lastSwappedIndex>>

\* SV39_FlushTLB_sfence_vma
SFence(x, a) ==
    /\ tlb' = [i \in Slots |->
                  IF /\ tlb[i] # Invalid
                     /\ a = All \/ tlb[i].asid = a
                     /\ x = All \/ Covers(tlb[i], x)
                  THEN Invalid ELSE tlb[i]]
    /\ unsynced' = Fenced(x, a)
    /\ UNCHANGED <<pt, satp, lastSwappedIndex>>

-----------------------------------------------------------------------------
(* The guest *)

\* A store to a page-table entry.  What it changes is the translation of the
\* addresses whose walk reads it; an invalid entry made valid changes nothing
\* that may be cached; a change of a pointer is more than one of a leaf.
Reads(a, v, path) == \E n \in 1 .. WalkLevel(a, v) : Prefix(v, n) = path

WritePTE(a, path, pte) ==
    /\ pte = Dir => Len(path) < Levels
    /\ pte # pt[a][path]
    /\ LET spaces == IF IsGlobal(path) THEN Asids ELSE {a}
           change == IF pt[a][path] = Dir \/ pte = Dir THEN "tables" ELSE "leaf"
       IN /\ pt' = [b \in Asids |-> IF b \in spaces THEN [pt[b] EXCEPT ![path] = pte] ELSE pt[b]]
          /\ unsynced' = [b \in Asids |-> [v \in VAddrs |->
                IF /\ b \in spaces /\ Reads(b, v, path)
                   /\ pt[b][path] # None
                   /\ unsynced[b][v] # "tables"
                THEN change ELSE unsynced[b][v]]]
    /\ UNCHANGED <<satp, tlb, lastSwappedIndex>>

WriteSatp(a) == /\ a # satp
                /\ satp' = a
                /\ UNCHANGED <<pt, tlb, lastSwappedIndex, unsynced>>

-----------------------------------------------------------------------------
Next == \/ \E v \in VAddrs : Access(v)
        \/ \E x \in VAddrs \cup {All}, a \in Asids \cup {All} : SFence(x, a)
        \/ \E w \in Writable, pte \in PTE : WritePTE(w[1], w[2], pte)
        \/ \E a \in Asids : WriteSatp(a)

Spec == Init /\ [][Next]_vars

-----------------------------------------------------------------------------
TypeOK == /\ pt \in [Asids -> [Prefixes -> PTE]]
          /\ satp \in Asids
          /\ tlb \in [Slots -> Entry \cup {Invalid}]
          /\ lastSwappedIndex \in Slots
          /\ unsynced \in [Asids -> [VAddrs -> {"no", "leaf", "tables"}]]

\* A guest that has fenced its changes sees no stale translation: whatever the
\* TLB holds for an address and a space agrees with the page table in leaf and
\* page size, after any mix of fences by address, by space and by both, and
\* across switches of the space and reuse of entries in turn.
NoStaleTranslation ==
    \A a \in Asids, v \in VAddrs : unsynced[a][v] = "no" =>
        \A i \in Hits(a, v) : /\ tlb[i].leaf = WalkEntry(a, v)
                              /\ Len(tlb[i].vpa) = WalkLevel(a, v)

\* assert(tlb_entry_ptr == nullptr) (rv64_sv39.cpp:248) for addresses the guest
\* has fenced: no two entries match.
OneMatchWhenFenced ==
    \A a \in Asids, v \in VAddrs : unsynced[a][v] = "no" =>
        \A i, j \in Hits(a, v) : i = j
=============================================================================
