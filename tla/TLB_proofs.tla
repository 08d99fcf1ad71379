----------------------------- MODULE TLB_proofs -----------------------------
(***************************************************************************)
(* What the TLB keeps for any number of slots, levels and address spaces   *)
(* and any page tables: after a fence nothing stale is found, and never    *)
(* two entries.                                                            *)
(*                                                                         *)
(* A fence by address removes what covers the address, whatever its page   *)
(* size.  Why this is enough for all the addresses the changed entry maps  *)
(* is OnTheWay: as long as no pointer has been changed, what the TLB holds *)
(* for an address is no deeper than the walk of that address now goes, so  *)
(* an address that shares the walk's prefix shares the entry's.            *)
(***************************************************************************)
EXTENDS TLB, SequenceTheorems, WellFoundedInduction, TLAPS

\* The tables below a global first page number are the same for all spaces.
GlobalShared == \A a, b \in Asids : \A p \in Prefixes :
                    IsGlobal(p) => pt[a][p] = pt[b][p]

OnTheWay == \A a \in Asids, v \in VAddrs : unsynced[a][v] \in {"no", "leaf"} =>
                \A i \in Hits(a, v) : Len(tlb[i].vpa) <= WalkLevel(a, v)

IInv == TypeOK /\ GlobalShared /\ OnTheWay /\ NoStaleTranslation /\ OneMatchWhenFenced

-----------------------------------------------------------------------------
(* Prefixes of addresses *)

LEMMA PrefixIs ==
  ASSUME NEW v \in VAddrs, NEW n \in 1 .. Levels
  PROVE  /\ Prefix(v, n) \in Prefixes
         /\ Len(Prefix(v, n)) = n
         /\ Prefix(v, n) = [i \in 1 .. n |-> v[i]]
<1>1. v \in Seq(Nat) /\ Len(v) = Levels /\ Levels \in Nat
  BY TLBAssumption
<1>2. Prefix(v, n) \in Prefixes
  BY DEF Prefixes
<1>3. Len(Prefix(v, n)) = n /\ \A i \in 1 .. n : Prefix(v, n)[i] = v[i]
  BY <1>1 DEF Prefix
<1>4. Prefix(v, n) = [i \in 1 .. n |-> v[i]]
  BY <1>1 DEF Prefix
<1> QED
  BY <1>2, <1>3, <1>4

\* Two addresses that agree in a prefix agree in every shorter one.
LEMMA PrefixAgree ==
  ASSUME NEW v \in VAddrs, NEW w \in VAddrs, NEW n \in 1 .. Levels, NEW k \in 1 .. n,
         Prefix(v, n) = Prefix(w, n)
  PROVE  Prefix(v, k) = Prefix(w, k)
<1>1. k \in 1 .. Levels
  BY TLBAssumption
<1>2. \A i \in 1 .. n : v[i] = w[i]
  <2> SUFFICES ASSUME NEW i \in 1 .. n PROVE v[i] = w[i]
    OBVIOUS
  <2>1. [j \in 1 .. n |-> v[j]][i] = [j \in 1 .. n |-> w[j]][i]
    BY PrefixIs
  <2> QED
    BY <2>1
<1>3. [i \in 1 .. k |-> v[i]] = [i \in 1 .. k |-> w[i]]
  BY <1>2
<1> QED
  BY <1>1, <1>3, PrefixIs

\* A prefix is global if its address is.
LEMMA GlobalPrefix ==
  ASSUME NEW v \in VAddrs, NEW n \in 1 .. Levels
  PROVE  IsGlobal(Prefix(v, n)) <=> IsGlobal(v)
<1>1. Prefix(v, n)[1] = v[1]
  BY PrefixIs
<1> QED
  BY <1>1 DEF IsGlobal

LEMMA PrefixesAre ==
  ASSUME NEW p \in Prefixes
  PROVE  Len(p) \in 1 .. Levels
BY PrefixIs DEF Prefixes

-----------------------------------------------------------------------------
(* Walks: through any table t of one space *)

Stops(t, v, n) == /\ \A m \in 1 .. n - 1 : t[Prefix(v, m)] = Dir
                  /\ n = Levels \/ t[Prefix(v, n)] # Dir

Level(t, v) == CHOOSE n \in 1 .. Levels : Stops(t, v, n)

LEMMA WalkIsLevel == \A a, v : WalkLevel(a, v) = Level(pt[a], v)
BY DEF WalkLevel, Level, Stops

LEMMA WalkIsLevelNext == \A a, v : WalkLevel(a, v)' = Level(pt'[a], v)
BY DEF WalkLevel, Level, Stops

Less == {p \in Nat \X Nat : p[1] < p[2]}

LEMMA Smallest ==
  ASSUME NEW T \in SUBSET Nat, T # {}
  PROVE  \E x \in T : \A y \in T : x <= y
<1>1. IsWellFoundedOn(Less, Nat)
  BY NatLessThanWellFounded DEF Less, OpToRel
<1>2. PICK x \in T : \A y \in T : <<y, x>> \notin Less
  BY <1>1, WFMin
<1>3. ASSUME NEW y \in T PROVE x <= y
  <2>1. x \in Nat /\ y \in Nat
    OBVIOUS
  <2>2. y < x => <<y, x>> \in Less
    BY <2>1 DEF Less
  <2> QED
    BY <1>2, <2>1, <2>2
<1> QED
  BY <1>3

\* Every walk stops.
LEMMA LevelStops ==
  ASSUME NEW t, NEW v
  PROVE  Level(t, v) \in 1 .. Levels /\ Stops(t, v, Level(t, v))
<1> DEFINE Stop == {n \in 1 .. Levels : n = Levels \/ t[Prefix(v, n)] # Dir}
<1>1. Stop \in SUBSET Nat
  BY TLBAssumption
<1>2. Levels \in Stop
  BY TLBAssumption
<1>3. PICK n \in Stop : \A m \in Stop : n <= m
  <2> HIDE DEF Stop
  <2> QED
    BY <1>1, <1>2, Smallest
<1>4. \A m \in 1 .. n - 1 : t[Prefix(v, m)] = Dir
  BY <1>3, TLBAssumption
<1>5. n \in 1 .. Levels /\ Stops(t, v, n)
  BY <1>3, <1>4 DEF Stops
<1> QED
  BY <1>5 DEF Level

\* It stops in one place only.
LEMMA LevelUnique ==
  ASSUME NEW t, NEW v, NEW n \in 1 .. Levels, Stops(t, v, n)
  PROVE  Level(t, v) = n
<1>1. Level(t, v) \in 1 .. Levels /\ Stops(t, v, Level(t, v))
  BY LevelStops
<1>2. ~ (Level(t, v) < n)
  BY <1>1, TLBAssumption DEF Stops
<1>3. ~ (n < Level(t, v))
  BY <1>1, TLBAssumption DEF Stops
<1> QED
  BY <1>1, <1>2, <1>3, TLBAssumption

\* Walks through tables that agree on the way to v, at addresses that agree as
\* far as one of them goes, are the same.
LEMMA SameWalk ==
  ASSUME NEW t, NEW u, NEW v \in VAddrs, NEW w \in VAddrs,
         Prefix(w, Level(t, v)) = Prefix(v, Level(t, v)),
         \A m \in 1 .. Level(t, v) : u[Prefix(v, m)] = t[Prefix(v, m)]
  PROVE  Level(u, w) = Level(t, v)
<1> DEFINE n == Level(t, v)
<1>1. n \in 1 .. Levels /\ Stops(t, v, n)
  BY LevelStops
<1>2. \A m \in 1 .. n : Prefix(w, m) = Prefix(v, m)
  BY <1>1, PrefixAgree
<1>3. \A m \in 1 .. n : u[Prefix(w, m)] = t[Prefix(v, m)]
  BY <1>2
<1> HIDE DEF n
<1>4. /\ \A m \in 1 .. n - 1 : u[Prefix(w, m)] = Dir
      /\ u[Prefix(w, n)] = t[Prefix(v, n)]
  <2>1. \A m \in 1 .. n - 1 : m \in 1 .. n
    BY <1>1, TLBAssumption
  <2>2. n \in 1 .. n
    BY <1>1, TLBAssumption
  <2>3. \A m \in 1 .. n - 1 : t[Prefix(v, m)] = Dir
    BY <1>1 DEF Stops
  <2> QED
    BY <1>3, <2>1, <2>2, <2>3
<1>5. Stops(u, w, n)
  BY <1>1, <1>4 DEF Stops
<1>6. Level(u, w) = n
  BY <1>1, <1>5, LevelUnique
<1> QED
  BY <1>6 DEF n

LEMMA WalkFacts ==
  ASSUME NEW a, NEW v
  PROVE  /\ WalkLevel(a, v) \in 1 .. Levels
         /\ Stops(pt[a], v, WalkLevel(a, v))
         /\ WalkEntry(a, v) = pt[a][Prefix(v, WalkLevel(a, v))]
BY WalkIsLevel, LevelStops DEF WalkEntry

LEMMA WalkFactsNext ==
  ASSUME NEW a, NEW v
  PROVE  /\ WalkLevel(a, v)' \in 1 .. Levels
         /\ Stops(pt'[a], v, WalkLevel(a, v)')
         /\ WalkEntry(a, v)' = pt'[a][Prefix(v, WalkLevel(a, v)')]
<1>1. WalkLevel(a, v)' = Level(pt'[a], v)
  BY WalkIsLevelNext
<1> QED
  BY <1>1, LevelStops DEF WalkEntry

-----------------------------------------------------------------------------
(* An access leaves the walk it made *)

Walked(v) == [vpa |-> Prefix(v, WalkLevel(satp, v)), asid |-> satp, leaf |-> WalkEntry(satp, v)]

\* Wherever the new entry matches, the walk would end where it came from.
LEMMA WalkedIsFresh ==
  ASSUME TypeOK, GlobalShared, NEW v \in VAddrs,
         NEW a \in Asids, NEW w \in VAddrs, Matches(Walked(v), a, w)
  PROVE  /\ WalkLevel(a, w) = Len(Walked(v).vpa)
         /\ WalkEntry(a, w) = Walked(v).leaf
<1> DEFINE n == WalkLevel(satp, v)
<1>1. n = Level(pt[satp], v) /\ n \in 1 .. Levels /\ satp \in Asids
  BY WalkIsLevel, WalkFacts DEF TypeOK
<1>2. Len(Prefix(v, n)) = n
  BY <1>1, PrefixIs
<1>3. Prefix(w, n) = Prefix(v, n) /\ (a = satp \/ IsGlobal(Prefix(v, n)))
  BY <1>2 DEF Matches, Covers, Walked
<1> HIDE DEF n
<1>4. \A m \in 1 .. n : pt[a][Prefix(v, m)] = pt[satp][Prefix(v, m)]
  <2> SUFFICES ASSUME NEW m \in 1 .. n, a # satp
               PROVE  pt[a][Prefix(v, m)] = pt[satp][Prefix(v, m)]
    OBVIOUS
  <2>1. m \in 1 .. Levels
    BY <1>1, TLBAssumption
  <2>2. Prefix(v, m) \in Prefixes /\ IsGlobal(Prefix(v, m))
    BY <1>1, <1>3, <2>1, PrefixIs, GlobalPrefix
  <2> QED
    BY <1>1, <2>2 DEF GlobalShared
<1>5. Level(pt[a], w) = n
  BY <1>1, <1>3, <1>4, SameWalk
<1>6. WalkLevel(a, w) = n
  BY <1>5, WalkIsLevel
<1>7. WalkEntry(a, w) = WalkEntry(satp, v)
  BY <1>1, <1>3, <1>4, <1>6 DEF WalkEntry, n
<1> QED
  BY <1>2, <1>6, <1>7 DEF Walked, n

LEMMA AccessStep ==
  ASSUME IInv, NEW v \in VAddrs, Access(v)
  PROVE  IInv'
<1> USE DEF IInv
<1> DEFINE s == lastSwappedIndex
<1>1. /\ tlb' = [tlb EXCEPT ![s] = Walked(v)]
      /\ s \in Slots /\ s' \in Slots
      /\ UNCHANGED <<pt, satp, unsynced>>
      /\ Hits(satp, v) = {}
  <2>1. s' \in Slots
    BY TLBAssumption DEF Access, Slots, TypeOK
  <2> QED
    BY <2>1 DEF Access, Walked, TypeOK
<1>2. Walked(v) \in Entry
  <2>1. WalkLevel(satp, v) \in 1 .. Levels
    BY WalkFacts
  <2> QED
    BY <2>1, PrefixIs DEF Walked, Entry, Access, TypeOK
<1>3. TypeOK'
  BY <1>1, <1>2 DEF TypeOK
<1>4. GlobalShared'
  BY <1>1 DEF GlobalShared
<1>5. \A a \in Asids, w \in VAddrs :
          /\ WalkLevel(a, w)' = WalkLevel(a, w)
          /\ WalkEntry(a, w)' = WalkEntry(a, w)
  BY <1>1 DEF WalkLevel, WalkEntry
<1>6. \A a \in Asids, w \in VAddrs, i \in Slots :
          i \in Hits(a, w)' <=> IF i = s THEN Matches(Walked(v), a, w) ELSE i \in Hits(a, w)
  BY <1>1 DEF Hits, TypeOK
<1>7. tlb'[s] = Walked(v) /\ \A i \in Slots : i # s => tlb'[i] = tlb[i]
  BY <1>1 DEF TypeOK
<1>8. \A a \in Asids, w \in VAddrs : Hits(a, w)' \subseteq Slots
  BY DEF Hits
<1> HIDE DEF s
<1>9. OnTheWay'
  <2> SUFFICES ASSUME NEW a \in Asids, NEW w \in VAddrs, unsynced[a][w] \in {"no", "leaf"},
                      NEW i \in Hits(a, w)'
               PROVE  Len(tlb'[i].vpa) <= WalkLevel(a, w)
    BY <1>1, <1>5 DEF OnTheWay
  <2>1. CASE i = s
    <3>1. WalkLevel(a, w) = Len(Walked(v).vpa) /\ WalkLevel(a, w) \in 1 .. Levels
      BY <1>6, <1>8, <2>1, WalkedIsFresh, WalkFacts
    <3> QED
      BY <1>7, <2>1, <3>1, TLBAssumption
  <2>2. CASE i # s
    BY <1>6, <1>7, <1>8, <2>2 DEF OnTheWay
  <2> QED
    BY <2>1, <2>2
<1>10. NoStaleTranslation'
  <2> SUFFICES ASSUME NEW a \in Asids, NEW w \in VAddrs, unsynced[a][w] = "no",
                      NEW i \in Hits(a, w)'
               PROVE  /\ tlb'[i].leaf = WalkEntry(a, w)
                      /\ Len(tlb'[i].vpa) = WalkLevel(a, w)
    BY <1>1, <1>5 DEF NoStaleTranslation
  <2>1. CASE i = s
    BY <1>6, <1>7, <1>8, <2>1, WalkedIsFresh
  <2>2. CASE i # s
    BY <1>6, <1>7, <1>8, <2>2 DEF NoStaleTranslation
  <2> QED
    BY <2>1, <2>2
<1>11. ASSUME NEW a \in Asids, NEW w \in VAddrs, unsynced[a][w] = "no",
              Matches(Walked(v), a, w), NEW j \in Hits(a, w)
       PROVE  FALSE
  \* The old entry has the page of the new one, and would have been a hit.
  <2>1. Len(tlb[j].vpa) = WalkLevel(a, w) /\ WalkLevel(a, w) = Len(Walked(v).vpa)
    BY <1>11, WalkedIsFresh DEF NoStaleTranslation
  <2>2. /\ Prefix(w, Len(tlb[j].vpa)) = tlb[j].vpa /\ tlb[j] # Invalid
        /\ tlb[j].asid = a \/ IsGlobal(tlb[j].vpa)
        /\ Prefix(w, Len(Walked(v).vpa)) = Walked(v).vpa
        /\ Walked(v).asid = a \/ IsGlobal(Walked(v).vpa)
    BY <1>11 DEF Hits, Matches, Covers
  <2>3. tlb[j].vpa = Walked(v).vpa
    BY <2>1, <2>2
  <2>4. Prefix(v, Len(Walked(v).vpa)) = Walked(v).vpa
    BY WalkFacts, PrefixIs DEF Walked
  <2>5. Walked(v).asid = satp
    BY DEF Walked
  <2>6. Matches(tlb[j], satp, v)
    BY <2>2, <2>3, <2>4, <2>5 DEF Matches, Covers
  <2>7. j \in Hits(satp, v)
    BY <1>11, <2>6 DEF Hits
  <2> QED
    BY <1>1, <2>7
<1>12. OneMatchWhenFenced'
  <2> SUFFICES ASSUME NEW a \in Asids, NEW w \in VAddrs, unsynced[a][w] = "no",
                      NEW i \in Hits(a, w)', NEW j \in Hits(a, w)'
               PROVE  i = j
    BY <1>1 DEF OneMatchWhenFenced
  <2>1. i \in Slots /\ j \in Slots
    BY <1>8
  <2>2. CASE i # s /\ j # s
    BY <1>6, <2>1, <2>2 DEF OneMatchWhenFenced
  <2>3. CASE i = s /\ j # s
    BY <1>6, <1>11, <2>1, <2>3
  <2>4. CASE i # s /\ j = s
    BY <1>6, <1>11, <2>1, <2>4
  <2> QED
    BY <2>2, <2>3, <2>4
<1> QED
  BY <1>3, <1>4, <1>9, <1>10, <1>12

-----------------------------------------------------------------------------
(* A fence leaves nothing for what it makes good *)

LEMMA SFenceStep ==
  ASSUME IInv, NEW x \in VAddrs \cup {All}, NEW a \in Asids \cup {All}, SFence(x, a)
  PROVE  IInv'
<1> USE DEF IInv
<1>1. /\ \A i \in Slots : tlb'[i] = IF /\ tlb[i] # Invalid
                                       /\ a = All \/ tlb[i].asid = a
                                       /\ x = All \/ Covers(tlb[i], x)
                                    THEN Invalid ELSE tlb[i]
      /\ unsynced' = Fenced(x, a)
      /\ UNCHANGED <<pt, satp, lastSwappedIndex>>
  BY DEF SFence
<1>2. \A b \in Asids, v \in VAddrs : unsynced'[b][v] \in {"no", unsynced[b][v]}
  BY <1>1 DEF Fenced
<1>3. TypeOK'
  <2>1. tlb' \in [Slots -> Entry \cup {Invalid}]
    BY DEF SFence, TypeOK
  <2>2. unsynced' \in [Asids -> [VAddrs -> {"no", "leaf", "tables"}]]
    BY <1>1 DEF Fenced, TypeOK
  <2> QED
    BY <1>1, <2>1, <2>2 DEF TypeOK
<1>4. GlobalShared'
  BY <1>1 DEF GlobalShared
<1>5. \A b \in Asids, v \in VAddrs :
          /\ WalkLevel(b, v)' = WalkLevel(b, v)
          /\ WalkEntry(b, v)' = WalkEntry(b, v)
  BY <1>1 DEF WalkLevel, WalkEntry
<1>6. \A b \in Asids, v \in VAddrs : \A i \in Hits(b, v)' : i \in Hits(b, v) /\ tlb'[i] = tlb[i]
  BY <1>1 DEF Hits, Matches, Covers
<1>7. ASSUME NEW b \in Asids, NEW v \in VAddrs, unsynced'[b][v] = "no", unsynced[b][v] # "no",
             NEW i \in Hits(b, v)'
      PROVE  FALSE
  <2>1. /\ a = All \/ (b = a /\ ~IsGlobal(v))
        /\ \/ x = All
           \/ /\ unsynced[b][v] = "leaf"
              /\ Prefix(x, WalkLevel(b, v)) = Prefix(v, WalkLevel(b, v))
    BY <1>1, <1>7 DEF Fenced
  <2>2. /\ i \in Slots /\ i \in Hits(b, v) /\ tlb'[i] = tlb[i] /\ tlb[i] # Invalid
        /\ tlb[i].vpa = Prefix(v, Len(tlb[i].vpa))
        /\ tlb[i].asid = b \/ IsGlobal(tlb[i].vpa)
    BY <1>6 DEF Hits, Matches, Covers
  <2>3. tlb[i].vpa \in Prefixes
    BY <2>2 DEF TypeOK, Entry
  <2>4. Len(tlb[i].vpa) \in 1 .. Levels
    BY <2>3, PrefixesAre
  <2>5. a = All \/ tlb[i].asid = a
    BY <2>1, <2>2, <2>4, GlobalPrefix
  <2>6. x = All \/ Covers(tlb[i], x)
    <3> SUFFICES ASSUME x # All PROVE Covers(tlb[i], x)
      OBVIOUS
    <3>1. x \in VAddrs /\ unsynced[b][v] = "leaf"
          /\ Prefix(x, WalkLevel(b, v)) = Prefix(v, WalkLevel(b, v))
      BY <2>1
    <3>2. Len(tlb[i].vpa) <= WalkLevel(b, v) /\ WalkLevel(b, v) \in 1 .. Levels
      BY <2>2, <3>1, WalkFacts DEF OnTheWay
    <3>3. Len(tlb[i].vpa) \in 1 .. WalkLevel(b, v)
      BY <2>4, <3>2, TLBAssumption
    <3>4. Prefix(x, Len(tlb[i].vpa)) = Prefix(v, Len(tlb[i].vpa))
      BY <3>1, <3>2, <3>3, PrefixAgree
    <3> QED
      BY <2>2, <3>4 DEF Covers
  <2> QED
    BY <1>1, <2>2, <2>5, <2>6
<1>8. OnTheWay'
  BY <1>2, <1>5, <1>6, <1>7 DEF OnTheWay
<1>9. NoStaleTranslation'
  BY <1>2, <1>5, <1>6, <1>7 DEF NoStaleTranslation
<1>10. OneMatchWhenFenced'
  BY <1>2, <1>6, <1>7 DEF OneMatchWhenFenced
<1> QED
  BY <1>3, <1>4, <1>8, <1>9, <1>10

-----------------------------------------------------------------------------
(* A store to a page-table entry *)

\* What the store does to the walk of v in b: it may count as a change of a
\* pointer; it may leave the walk alone; it may change the leaf at its end; or
\* it fills an invalid entry, of which nothing can be cached.
WriteEffect(b, v) ==
    \/ unsynced'[b][v] = "tables"
    \/ /\ unsynced'[b][v] = unsynced[b][v]
       /\ WalkLevel(b, v)' = WalkLevel(b, v) /\ WalkEntry(b, v)' = WalkEntry(b, v)
    \/ /\ unsynced'[b][v] = "leaf" /\ unsynced[b][v] \in {"no", "leaf"}
       /\ WalkLevel(b, v)' = WalkLevel(b, v)
    \/ /\ unsynced'[b][v] = unsynced[b][v]
       /\ WalkEntry(b, v) = None /\ WalkLevel(b, v)' >= WalkLevel(b, v)

LEMMA WritePTEWalk ==
  ASSUME TypeOK, GlobalShared, NEW a \in Asids, NEW path \in Prefixes, NEW pte \in PTE,
         WritePTE(a, path, pte), NEW b \in Asids, NEW v \in VAddrs
  PROVE  WriteEffect(b, v)
<1> DEFINE spaces == IF IsGlobal(path) THEN Asids ELSE {a}
           change == IF pt[a][path] = Dir \/ pte = Dir THEN "tables" ELSE "leaf"
           n == WalkLevel(b, v)
<1>1. pt'[b] = IF b \in spaces THEN [pt[b] EXCEPT ![path] = pte] ELSE pt[b]
  BY DEF WritePTE
<1>2. unsynced'[b][v] = IF /\ b \in spaces /\ Reads(b, v, path)
                           /\ pt[b][path] # None
                           /\ unsynced[b][v] # "tables"
                        THEN change ELSE unsynced[b][v]
  BY DEF WritePTE
<1>3. n \in 1 .. Levels /\ Stops(pt[b], v, n) /\ WalkEntry(b, v) = pt[b][Prefix(v, n)]
  BY WalkFacts
<1>4. \A m \in 1 .. Levels : Prefix(v, m) \in Prefixes /\ Len(Prefix(v, m)) = m
  BY PrefixIs
<1>5. pt[b] \in [Prefixes -> PTE] /\ unsynced[b][v] \in {"no", "leaf", "tables"}
  BY DEF TypeOK
<1>6. b \in spaces => pt[a][path] = pt[b][path]
  BY DEF GlobalShared
<1>7. \A m \in 1 .. n : m \in 1 .. Levels
  BY <1>3, TLBAssumption
<1>8. CASE ~ (b \in spaces /\ Reads(b, v, path))
  <2>1. \A m \in 1 .. n : pt'[b][Prefix(v, m)] = pt[b][Prefix(v, m)]
    BY <1>1, <1>4, <1>5, <1>7, <1>8 DEF Reads
  <2>2. Level(pt'[b], v) = Level(pt[b], v)
    BY <2>1, SameWalk, WalkIsLevel
  <2>3. WalkLevel(b, v)' = n
    BY <2>2, WalkIsLevel, WalkIsLevelNext
  <2>4. WalkEntry(b, v)' = WalkEntry(b, v)
    BY <1>3, <2>1, <2>3, WalkFactsNext, TLBAssumption
  <2> QED
    BY <1>2, <1>8, <2>3, <2>4 DEF WriteEffect
<1>9. CASE b \in spaces /\ Reads(b, v, path)
  <2>1. PICK m \in 1 .. n : Prefix(v, m) = path
    BY <1>9 DEF Reads
  <2>2. pt'[b] = [pt[b] EXCEPT ![path] = pte]
    BY <1>1, <1>9
  <2> HIDE DEF n, spaces
  <2>3. CASE pt[b][path] = Dir
    <3>1. pt[b][path] # None
      BY <2>3, TLBAssumption
    <3> QED
      BY <1>2, <1>5, <1>6, <1>9, <2>3, <3>1 DEF WriteEffect
  <2>4. m = n \/ pt[b][path] = Dir
    BY <1>3, <2>1, TLBAssumption DEF Stops
  <2>5. CASE m = n /\ pt[b][path] = None
    <3>1. unsynced'[b][v] = unsynced[b][v] /\ WalkEntry(b, v) = None
      BY <1>2, <1>3, <2>1, <2>5
    <3>2. WalkLevel(b, v)' \in 1 .. Levels /\ Stops(pt'[b], v, WalkLevel(b, v)')
      BY WalkFactsNext
    <3>3. \A k \in 1 .. n - 1 : pt'[b][Prefix(v, k)] = Dir /\ k # Levels
      <4> SUFFICES ASSUME NEW k \in 1 .. n - 1
                   PROVE  pt'[b][Prefix(v, k)] = Dir /\ k # Levels
        OBVIOUS
      <4>1. k \in 1 .. Levels /\ k # n /\ n \in 1 .. Levels /\ k # Levels
        BY <1>3, TLBAssumption
      <4>2. Prefix(v, k) # path
        BY <1>4, <2>1, <2>5, <4>1
      <4>3. pt[b][Prefix(v, k)] = Dir
        BY <1>3 DEF Stops
      <4> QED
        BY <1>4, <1>5, <2>2, <4>1, <4>2, <4>3
    <3>4. WalkLevel(b, v)' >= n
      BY <1>3, <3>2, <3>3, TLBAssumption DEF Stops
    <3> QED
      BY <3>1, <3>4 DEF WriteEffect, n
  <2>6. CASE m = n /\ pt[b][path] # None /\ pt[b][path] # Dir
    <3>1. CASE pte = Dir
      BY <1>2, <1>5, <1>9, <2>6, <3>1 DEF WriteEffect
    <3>2. CASE pte # Dir
      <4>1. \A k \in 1 .. n - 1 : pt'[b][Prefix(v, k)] = Dir
        <5> SUFFICES ASSUME NEW k \in 1 .. n - 1 PROVE pt'[b][Prefix(v, k)] = Dir
          OBVIOUS
        <5>1. k \in 1 .. Levels /\ k # n /\ n \in 1 .. Levels
          BY <1>3, TLBAssumption
        <5>2. Prefix(v, k) # path
          BY <1>4, <2>1, <2>6, <5>1
        <5>3. pt[b][Prefix(v, k)] = Dir
          BY <1>3 DEF Stops
        <5> QED
          BY <1>4, <1>5, <2>2, <5>1, <5>2, <5>3
      <4>2. pt'[b][Prefix(v, n)] = pte
        BY <1>5, <2>1, <2>2, <2>6
      <4>3. Stops(pt'[b], v, n)
        BY <3>2, <4>1, <4>2 DEF Stops
      <4>4. WalkLevel(b, v)' = n
        BY <1>3, <4>3, LevelUnique, WalkIsLevelNext
      <4>5. unsynced'[b][v] = IF unsynced[b][v] # "tables" THEN "leaf" ELSE "tables"
        BY <1>2, <1>6, <1>9, <2>6, <3>2
      <4> QED
        BY <1>5, <4>4, <4>5 DEF WriteEffect, n
    <3> QED
      BY <3>1, <3>2
  <2> QED
    BY <2>3, <2>4, <2>5, <2>6
<1> QED
  BY <1>8, <1>9

LEMMA WritePTEStep ==
  ASSUME IInv, NEW a \in Asids, NEW path \in Prefixes, NEW pte \in PTE, WritePTE(a, path, pte)
  PROVE  IInv'
<1> USE DEF IInv
<1>1. TypeOK'
  <2>1. pt' \in [Asids -> [Prefixes -> PTE]]
    BY DEF WritePTE, TypeOK
  <2>2. unsynced' \in [Asids -> [VAddrs -> {"no", "leaf", "tables"}]]
    BY DEF WritePTE, TypeOK
  <2> QED
    BY <2>1, <2>2 DEF WritePTE, TypeOK
<1>2. GlobalShared'
  BY DEF WritePTE, GlobalShared, TypeOK
<1>3. tlb' = tlb
  BY DEF WritePTE
<1>4. \A b \in Asids, v \in VAddrs : Hits(b, v)' = Hits(b, v)
  BY <1>3 DEF Hits
<1>5. \A b \in Asids, v \in VAddrs : WriteEffect(b, v)
  BY WritePTEWalk
<1>6. \A b \in Asids, v \in VAddrs : \A i \in Hits(b, v) : tlb[i].leaf \in Leaves
  BY DEF Hits, Matches, Covers, TypeOK, Entry
<1>7. \A i \in Slots : tlb[i] # Invalid => Len(tlb[i].vpa) \in 1 .. Levels
  BY PrefixesAre DEF TypeOK, Entry
<1>8. OnTheWay'
  <2> SUFFICES ASSUME NEW b \in Asids, NEW v \in VAddrs, unsynced'[b][v] \in {"no", "leaf"},
                      NEW i \in Hits(b, v)
               PROVE  Len(tlb[i].vpa) <= WalkLevel(b, v)'
    BY <1>3, <1>4 DEF OnTheWay
  <2>1. unsynced[b][v] \in {"no", "leaf"} /\ WalkLevel(b, v)' >= WalkLevel(b, v)
    BY <1>5, WalkFacts, TLBAssumption DEF WriteEffect
  <2>2. Len(tlb[i].vpa) <= WalkLevel(b, v)
    BY <2>1 DEF OnTheWay
  <2>3. Len(tlb[i].vpa) \in Nat /\ WalkLevel(b, v) \in Nat /\ WalkLevel(b, v)' \in Nat
    BY <1>7, WalkFacts, WalkFactsNext, TLBAssumption DEF Hits, Matches, Covers
  <2> QED
    BY <2>1, <2>2, <2>3
<1>9. NoStaleTranslation'
  <2> SUFFICES ASSUME NEW b \in Asids, NEW v \in VAddrs, unsynced'[b][v] = "no",
                      NEW i \in Hits(b, v)
               PROVE  tlb[i].leaf = WalkEntry(b, v)' /\ Len(tlb[i].vpa) = WalkLevel(b, v)'
    BY <1>3, <1>4 DEF NoStaleTranslation
  <2>1. CASE WalkEntry(b, v) = None /\ unsynced[b][v] = "no"
    BY <1>6, <2>1, TLBAssumption DEF NoStaleTranslation
  <2>2. CASE /\ unsynced[b][v] = "no" /\ WalkLevel(b, v)' = WalkLevel(b, v)
             /\ WalkEntry(b, v)' = WalkEntry(b, v)
    BY <2>2 DEF NoStaleTranslation
  <2> QED
    BY <1>5, <2>1, <2>2 DEF WriteEffect
<1>10. OneMatchWhenFenced'
  BY <1>4, <1>5 DEF OneMatchWhenFenced, WriteEffect
<1> QED
  BY <1>1, <1>2, <1>8, <1>9, <1>10

-----------------------------------------------------------------------------
(* The invariant *)

LEMMA InitInv == Init => IInv
<1> SUFFICES ASSUME Init PROVE IInv
  OBVIOUS
<1>1. TypeOK
  BY TLBAssumption DEF Init, TypeOK, Slots
<1>2. GlobalShared
  BY TLBAssumption DEF Init, GlobalShared
<1>3. \A a \in Asids, v \in VAddrs : Hits(a, v) = {}
  BY DEF Init, Hits, Matches, Covers
<1> QED
  BY <1>1, <1>2, <1>3 DEF IInv, OnTheWay, NoStaleTranslation, OneMatchWhenFenced

LEMMA Unchanged ==
  IInv /\ UNCHANGED <<pt, tlb, unsynced, lastSwappedIndex>> /\ satp' \in Asids => IInv'
<1> SUFFICES ASSUME IInv, UNCHANGED <<pt, tlb, unsynced, lastSwappedIndex>>, satp' \in Asids
             PROVE  IInv'
  OBVIOUS
<1>1. \A a \in Asids, v \in VAddrs :
          /\ Hits(a, v)' = Hits(a, v) /\ WalkLevel(a, v)' = WalkLevel(a, v)
          /\ WalkEntry(a, v)' = WalkEntry(a, v)
  BY DEF Hits, WalkLevel, WalkEntry
<1> QED
  BY <1>1 DEF IInv, TypeOK, GlobalShared, OnTheWay, NoStaleTranslation, OneMatchWhenFenced

LEMMA NextInv == IInv /\ [Next]_vars => IInv'
<1> SUFFICES ASSUME IInv, [Next]_vars PROVE IInv'
  OBVIOUS
<1>1. ASSUME NEW w \in Writable, NEW pte \in PTE, WritePTE(w[1], w[2], pte) PROVE IInv'
  <2>1. w[1] \in Asids /\ w[2] \in Prefixes
    BY TLBAssumption
  <2> QED
    BY <1>1, <2>1, WritePTEStep
<1>2. ASSUME NEW a \in Asids, WriteSatp(a) PROVE IInv'
  BY <1>2, Unchanged DEF WriteSatp
<1>3. CASE UNCHANGED vars
  BY <1>3, Unchanged DEF vars, IInv, TypeOK
<1> QED
  BY <1>1, <1>2, <1>3, AccessStep, SFenceStep DEF Next

\* The type invariant (rv64_sv39.cpp): the index of the next slot to be
\* replaced stays in the TLB.
THEOREM TypeCorrect == Spec => []TypeOK
BY InitInv, NextInv, PTL DEF Spec, IInv

\* getTLBEntry finds nothing stale for what the guest has fenced, though a
\* fence by address compares at each entry's own page size.
THEOREM NothingStale == Spec => []NoStaleTranslation
BY InitInv, NextInv, PTL DEF Spec, IInv

\* assert(tlb_entry_ptr == nullptr) (rv64_sv39.cpp:248) holds for what the guest
\* has fenced.
THEOREM OneMatch == Spec => []OneMatchWhenFenced
BY InitInv, NextInv, PTL DEF Spec, IInv
=============================================================================
