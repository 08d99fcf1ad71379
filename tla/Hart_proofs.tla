----------------------------- MODULE Hart_proofs -----------------------------
(***************************************************************************)
(* Theorems about the hart, for words of 16, 32 and 64 bits, every         *)
(* layout of status, every program and every state to start in.            *)
(*                                                                         *)
(* The proofs go in three layers: words (a word is the sum of its bits, by *)
(* induction over their number), the CSR file (what csrWrite, a trap and a *)
(* return leave of each register) and the steps.  StepOk brings the        *)
(* thirteen kinds of instruction and the three ways a step may end before  *)
(* one is decoded down to five effects; the theorems look at those.        *)
(***************************************************************************)
EXTENDS Hart, FiniteSetTheorems, WellFoundedInduction, TLAPS

-----------------------------------------------------------------------------
(* Induction up to a number, and the powers of two *)

Less == {p \in Nat \X Nat : p[1] < p[2]}

LEMMA Smallest ==
  ASSUME NEW T \in SUBSET Nat, T # {}
  PROVE  \E x \in T : \A y \in T : x <= y
<1>1. IsWellFoundedOn(Less, Nat)
  BY NatLessThanWellFounded DEF Less, OpToRel
<1>2. PICK x \in T : \A y \in T : <<y, x>> \notin Less
  BY <1>1, WFMin
<1>3. ASSUME NEW y \in T PROVE x <= y
  <2>1. x \in Nat /\ y \in Nat
    OBVIOUS
  <2>2. y < x => <<y, x>> \in Less
    BY <2>1 DEF Less
  <2> QED
    BY <1>2, <2>1, <2>2
<1> QED
  BY <1>3

\* Induction, as a fact about the set of the numbers that have a property.
LEMMA UpTo ==
  ASSUME NEW N \in Nat, NEW G, 0 \in G,
         \A n \in 0 .. N - 1 : n \in G => n + 1 \in G
  PROVE  0 .. N \subseteq G
<1> SUFFICES ASSUME (0 .. N) \ G # {} PROVE FALSE
  OBVIOUS
<1>1. (0 .. N) \ G \in SUBSET Nat
  OBVIOUS
<1>2. PICK x \in (0 .. N) \ G : \A y \in (0 .. N) \ G : x <= y
  BY <1>1, Smallest
<1>3. x # 0 /\ x - 1 \in 0 .. N - 1 /\ x - 1 \in G
  BY <1>2
<1>4. (x - 1) + 1 \in G
  BY <1>3
<1> QED
  BY <1>2, <1>4

LEMMA Powers == \A n \in 0 .. XLEN : 2^n \in Nat \ {0}
<1> DEFINE G == {n \in 0 .. XLEN : 2^n \in Nat \ {0}}
<1> USE XLENAssumption
<1>1. 0 \in G
  BY PowersAssumption
<1>2. \A n \in 0 .. XLEN - 1 : n \in G => n + 1 \in G
  BY PowersAssumption
<1>3. XLEN \in Nat
  OBVIOUS
<1> HIDE DEF G
<1>4. 0 .. XLEN \subseteq G
  BY <1>1, <1>2, <1>3, UpTo
<1> QED
  BY <1>4 DEF G

\* 2^k divides 2^n, and with k < n twice.
LEMMA PowerDivides ==
  ASSUME NEW n \in 0 .. XLEN, NEW k \in 0 .. n
  PROVE  \E q \in Nat \ {0} : /\ 2^n = 2^k * q
                              /\ k < n => \E r \in Nat : q = 2 * r
<1> DEFINE G == {m \in 0 .. n - k : \E q \in Nat \ {0} :
                    2^(k + m) = 2^k * q /\ (m > 0 => \E r \in Nat : q = 2 * r)}
<1> USE XLENAssumption
<1>0. \A m \in 0 .. XLEN : 2^m \in Nat \ {0}
  BY Powers
<1>1. 0 \in G
  <2>1. 2^(k + 0) = 2^k * 1
    BY <1>0
  <2> QED
    BY <2>1
<1>2. ASSUME NEW m \in 0 .. (n - k) - 1, m \in G PROVE m + 1 \in G
  <2>1. PICK q \in Nat \ {0} : 2^(k + m) = 2^k * q
    BY <1>2
  <2>2. 2^(k + (m + 1)) = 2 * 2^(k + m)
    <3>1. k + m \in 0 .. XLEN /\ k + (m + 1) = (k + m) + 1
      OBVIOUS
    <3> QED
      BY <3>1, PowersAssumption
  <2>3. 2^(k + (m + 1)) = 2^k * (2 * q)
    BY <1>0, <2>1, <2>2
  <2>4. 2 * q \in Nat \ {0} /\ \E r \in Nat : 2 * q = 2 * r
    OBVIOUS
  <2>5. \E p \in Nat \ {0} : 2^(k + (m + 1)) = 2^k * p /\ \E r \in Nat : p = 2 * r
    <3> WITNESS 2 * q \in Nat \ {0}
    <3> QED
      BY <2>3, <2>4
  <2>6. m + 1 \in 0 .. n - k
    OBVIOUS
  <2> QED
    BY <2>5, <2>6
<1>3. n - k \in Nat
  OBVIOUS
<1> HIDE DEF G
<1>4. n - k \in G
  BY <1>1, <1>2, <1>3, UpTo
<1>5. k + (n - k) = n
  OBVIOUS
<1> QED
  BY <1>4, <1>5 DEF G

LEMMA PowersGrow == ASSUME NEW n \in 0 .. XLEN, NEW k \in 0 .. n PROVE 2^k <= 2^n
<1>1. PICK q \in Nat \ {0} : 2^n = 2^k * q
  BY PowerDivides
<1>2. 2^k \in Nat
  BY Powers, XLENAssumption
<1> QED
  BY <1>1, <1>2

\* A number has one quotient and one remainder.
LEMMA Division ==
  ASSUME NEW a \in Int, NEW d \in Nat \ {0}
  PROVE  /\ a \div d \in Int /\ a % d \in 0 .. d - 1
         /\ a = (d * (a \div d)) + (a % d)
OBVIOUS

LEMMA Halves ==
  ASSUME NEW n \in Int
  PROVE  n \div 2 \in Int /\ n % 2 \in {0, 1} /\ n = (2 * (n \div 2)) + (n % 2)
OBVIOUS

LEMMA QuotientUnique ==
  ASSUME NEW a \in Int, NEW d \in Nat \ {0}, NEW q \in Int, NEW r \in 0 .. d - 1,
         a = (d * q) + r
  PROVE  a \div d = q /\ a % d = r
OBVIOUS

LEMMA SmallQuotient ==
  ASSUME NEW r, NEW d \in Nat \ {0}, r \in 0 .. d - 1
  PROVE  r \div d = 0 /\ (r + d) \div d = 1
OBVIOUS

LEMMA AddMultiple ==
  ASSUME NEW a \in Int, NEW d \in Nat \ {0}, NEW q \in Int
  PROVE  (a + (d * q)) \div d = (a \div d) + q
OBVIOUS

-----------------------------------------------------------------------------
(* Words and their bits *)

Term(bits, n) == IF n \in bits THEN 2^n ELSE 0

\* The recursion of ValueOf has a solution up to any number.
LEMMA SumExists ==
  ASSUME NEW bits, NEW N \in Nat
  PROVE  \E f : f = [n \in 0 .. N |-> IF n = 0 THEN 0 ELSE f[n - 1] + Term(bits, n - 1)]
<1> DEFINE Sums(m, f) ==
             f = [n \in 0 .. m |-> IF n = 0 THEN 0 ELSE f[n - 1] + Term(bits, n - 1)]
           G == {m \in 0 .. N : \E f : Sums(m, f)}
<1>1. 0 \in G
  <2>1. Sums(0, [n \in 0 .. 0 |-> 0])
    OBVIOUS
  <2>2. 0 \in 0 .. N
    OBVIOUS
  <2> HIDE DEF Sums
  <2> QED
    BY <2>1, <2>2
<1>2. ASSUME NEW m \in 0 .. N - 1, m \in G PROVE m + 1 \in G
  <2>1. PICK f : Sums(m, f)
    BY <1>2
  <2> DEFINE g == [n \in 0 .. m + 1 |-> IF n = m + 1 THEN f[m] + Term(bits, m) ELSE f[n]]
  <2>2. \A n \in 0 .. m : g[n] = f[n]
    OBVIOUS
  <2>3. \A n \in 0 .. m + 1 : g[n] = IF n = 0 THEN 0 ELSE g[n - 1] + Term(bits, n - 1)
    <3>1. ASSUME NEW n \in 0 .. m
          PROVE  f[n] = IF n = 0 THEN 0 ELSE f[n - 1] + Term(bits, n - 1)
      BY <2>1
    <3>2. ASSUME NEW n \in 0 .. m
          PROVE  g[n] = IF n = 0 THEN 0 ELSE g[n - 1] + Term(bits, n - 1)
      <4>1. n # 0 => n - 1 \in 0 .. m
        OBVIOUS
      <4> HIDE DEF g, Sums
      <4> QED
        BY <2>2, <3>1, <4>1
    <3>3. g[m + 1] = g[(m + 1) - 1] + Term(bits, (m + 1) - 1)
      <4>1. (m + 1) - 1 = m
        OBVIOUS
      <4> QED
        BY <4>1
    <3>4. \A n \in 0 .. m + 1 : n \in 0 .. m \/ n = m + 1
      OBVIOUS
    <3> HIDE DEF g, Sums
    <3> QED
      BY <3>2, <3>3, <3>4
  <2>4. Sums(m + 1, g)
    <3>1. g = [n \in 0 .. m + 1 |-> g[n]]
      OBVIOUS
    <3> HIDE DEF g
    <3> QED
      BY <2>3, <3>1
  <2>5. m + 1 \in 0 .. N
    OBVIOUS
  <2> HIDE DEF g, Sums
  <2> QED
    BY <2>4, <2>5
<1> HIDE DEF G
<1>3. N \in G
  BY <1>1, <1>2, UpTo
<1> QED
  BY <1>3 DEF G

LEMMA ValueIsSum ==
  ASSUME NEW bits
  PROVE  \E f \in [0 .. XLEN -> Nat] :
            /\ f[0] = 0 /\ ValueOf(bits) = f[XLEN]
            /\ \A n \in 0 .. XLEN - 1 : f[n + 1] = f[n] + Term(bits, n)
            /\ \A n \in 0 .. XLEN : f[n] < 2^n
<1> USE XLENAssumption
<1> DEFINE Sums(f) ==
             f = [n \in 0 .. XLEN |-> IF n = 0 THEN 0 ELSE f[n - 1] + Term(bits, n - 1)]
<1>1. PICK f : Sums(f) /\ ValueOf(bits) = f[XLEN]
  <2>1. \E f : Sums(f)
    <3>1. XLEN \in Nat
      OBVIOUS
    <3> QED
      BY <3>1, SumExists, Zenon
  <2> QED
    BY <2>1 DEF ValueOf, Term
<1>2. f[0] = 0 /\ \A n \in 0 .. XLEN - 1 : f[n + 1] = f[n] + Term(bits, n)
  <2>1. f[0] = 0
    BY <1>1
  <2>2. ASSUME NEW n \in 0 .. XLEN - 1 PROVE f[n + 1] = f[n] + Term(bits, n)
    <3>1. n + 1 \in 0 .. XLEN /\ n + 1 # 0 /\ (n + 1) - 1 = n
      OBVIOUS
    <3>2. f[n + 1] = f[(n + 1) - 1] + Term(bits, (n + 1) - 1)
      BY <1>1, <3>1
    <3> QED
      BY <3>1, <3>2
  <2> QED
    BY <2>1, <2>2
<1>3. DOMAIN f = 0 .. XLEN /\ f = [n \in 0 .. XLEN |-> f[n]]
  <2>1. DOMAIN f = 0 .. XLEN
    BY <1>1
  <2>2. f = [n \in DOMAIN f |-> f[n]]
    BY <1>1
  <2> QED
    BY <2>1, <2>2
<1> DEFINE G == {n \in 0 .. XLEN : f[n] \in Nat /\ f[n] < 2^n}
<1> HIDE DEF Sums
<1>4. 0 \in G
  BY <1>2, PowersAssumption
<1>5. ASSUME NEW n \in 0 .. XLEN - 1, n \in G PROVE n + 1 \in G
  <2>1. n \in 0 .. XLEN /\ n + 1 \in 0 .. XLEN
    OBVIOUS
  <2>2. 2^n \in Nat /\ 2^(n + 1) = 2 * 2^n
    BY <2>1, Powers, PowersAssumption
  <2>3. Term(bits, n) \in 0 .. 2^n
    BY <2>2 DEF Term
  <2>4. f[n + 1] = f[n] + Term(bits, n)
    BY <1>2
  <2> QED
    BY <1>5, <2>1, <2>2, <2>3, <2>4
<1>6. XLEN \in Nat
  OBVIOUS
<1> HIDE DEF G
<1>7. 0 .. XLEN \subseteq G
  BY <1>4, <1>5, <1>6, UpTo
<1>8. \A n \in 0 .. XLEN : f[n] \in Nat /\ f[n] < 2^n
  BY <1>7 DEF G
<1>9. f \in [0 .. XLEN -> Nat]
  BY <1>3, <1>8
<1> QED
  BY <1>1, <1>2, <1>8, <1>9

\* Bit k of a sum that grows by multiples of 2^(k+1) stays what it is.
LEMMA HigherTerm ==
  ASSUME NEW a \in Nat, NEW n \in 0 .. XLEN, NEW k \in 0 .. n - 1, NEW bits
  PROVE  ((a + Term(bits, n)) \div 2^k) % 2 = (a \div 2^k) % 2
<1> USE XLENAssumption
<1>1. n \in 0 .. XLEN /\ k \in 0 .. n /\ k < n
  OBVIOUS
<1>2. PICK q \in Nat \ {0} : 2^n = 2^k * q /\ (k < n => \E r \in Nat : q = 2 * r)
  <2> HIDE XLENAssumption
  <2> QED
    BY <1>1, PowerDivides
<1>3. PICK r \in Nat : q = 2 * r
  BY <1>1, <1>2
<1>4. 2^k \in Nat \ {0}
  BY Powers
<1>5. (a + (2^k * q)) \div 2^k = (a \div 2^k) + q
  <2>1. a \in Int /\ q \in Int
    OBVIOUS
  <2> QED
    BY <1>4, <2>1, AddMultiple, Zenon
<1>6. a \div 2^k \in Int
  BY <1>4, Division
<1>7. \A c \in Int : (c + q) % 2 = c % 2
  BY <1>3
<1>8. CASE n \in bits
  BY <1>2, <1>5, <1>6, <1>7, <1>8 DEF Term
<1>9. CASE n \notin bits
  BY <1>4, <1>9 DEF Term
<1> QED
  BY <1>8, <1>9

\* The bits of a word put together from bits are those bits.
LEMMA ValueBits ==
  ASSUME NEW bits
  PROVE  ValueOf(bits) \in Values /\ BitsOf(ValueOf(bits)) = bits \cap (0 .. XLEN - 1)
<1> USE XLENAssumption
<1>1. PICK f \in [0 .. XLEN -> Nat] :
         /\ f[0] = 0 /\ ValueOf(bits) = f[XLEN]
         /\ \A n \in 0 .. XLEN - 1 : f[n + 1] = f[n] + Term(bits, n)
         /\ \A n \in 0 .. XLEN : f[n] < 2^n
  BY ValueIsSum
<1>2. XLEN \in Nat /\ XLEN \in 0 .. XLEN
  OBVIOUS
<1>3. ValueOf(bits) \in Values
  BY <1>1, <1>2, Powers DEF Values, Word
<1> DEFINE Right(n, k) == (f[n] \div 2^k) % 2 = (IF k \in bits THEN 1 ELSE 0)
           G == {n \in 0 .. XLEN : \A k \in 0 .. n - 1 : Right(n, k)}
<1>4. 0 \in G
  OBVIOUS
<1>5. ASSUME NEW n \in 0 .. XLEN - 1, n \in G PROVE n + 1 \in G
  <2>1. n \in 0 .. XLEN /\ n + 1 \in 0 .. XLEN
    OBVIOUS
  <2>2. f[n + 1] = f[n] + Term(bits, n) /\ f[n] \in Nat /\ f[n] < 2^n
    BY <1>1, <2>1
  <2>3. ASSUME NEW k \in 0 .. n - 1 PROVE Right(n + 1, k)
    <3>1. k \in 0 .. n - 1 /\ Right(n, k)
      BY <1>5
    <3>2. ((f[n] + Term(bits, n)) \div 2^k) % 2 = (f[n] \div 2^k) % 2
      BY <2>1, <2>2, <3>1, HigherTerm, ZenonT(60)
    <3> QED
      BY <2>2, <3>1, <3>2
  <2>4. Right(n + 1, n)
    <3>1. 2^n \in Nat \ {0}
      BY <2>1, Powers
    <3>2. CASE n \in bits
      <4>1. f[n + 1] = f[n] + 2^n /\ f[n] \in 0 .. 2^n - 1
        BY <2>2, <3>1, <3>2 DEF Term
      <4>2. f[n + 1] \div 2^n = 1
        BY <3>1, <4>1, SmallQuotient
      <4> QED
        BY <3>2, <4>2
    <3>3. CASE n \notin bits
      <4>1. f[n + 1] = f[n] /\ f[n] \in 0 .. 2^n - 1
        BY <2>2, <3>1, <3>3 DEF Term
      <4>2. f[n + 1] \div 2^n = 0
        BY <3>1, <4>1, SmallQuotient
      <4> QED
        BY <3>3, <4>2
    <3> QED
      BY <3>2, <3>3
  <2>5. \A k \in 0 .. (n + 1) - 1 : k \in 0 .. n - 1 \/ k = n
    OBVIOUS
  <2> HIDE DEF Right
  <2> QED
    BY <2>1, <2>3, <2>4, <2>5
<1> HIDE DEF G
<1>6. XLEN \in G
  BY <1>2, <1>4, <1>5, UpTo
<1>7. \A k \in 0 .. XLEN - 1 : (ValueOf(bits) \div 2^k) % 2 = (IF k \in bits THEN 1 ELSE 0)
  BY <1>1, <1>6 DEF G
<1> QED
  BY <1>3, <1>7 DEF BitsOf

\* A word is put together from its bits.
LEMMA BitsValue == ASSUME NEW v \in Values PROVE ValueOf(BitsOf(v)) = v
<1> USE XLENAssumption
<1> DEFINE bits == BitsOf(v)
<1>1. PICK f \in [0 .. XLEN -> Nat] :
         /\ f[0] = 0 /\ ValueOf(bits) = f[XLEN]
         /\ \A n \in 0 .. XLEN - 1 : f[n + 1] = f[n] + Term(bits, n)
         /\ \A n \in 0 .. XLEN : f[n] < 2^n
  BY ValueIsSum
<1>2. XLEN \in Nat /\ XLEN \in 0 .. XLEN /\ v \in Nat /\ v < 2^XLEN
  <2>1. 2^XLEN \in Nat
    BY Powers
  <2> QED
    BY <2>1 DEF Values, Word
<1> DEFINE G == {n \in 0 .. XLEN : f[n] = v % 2^n}
<1>3. 0 \in G
  BY <1>1, <1>2, PowersAssumption
<1>4. ASSUME NEW n \in 0 .. XLEN - 1, n \in G PROVE n + 1 \in G
  <2>1. n \in 0 .. XLEN /\ n + 1 \in 0 .. XLEN
    OBVIOUS
  <2>2. 2^n \in Nat \ {0} /\ 2^(n + 1) = 2 * 2^n
    BY <2>1, Powers, PowersAssumption
  <2> DEFINE q == v \div 2^n
             r == v % 2^n
  <2>3. q \in Int /\ r \in 0 .. 2^n - 1 /\ v = (2^n * q) + r
    <3>1. v \in Int
      BY <1>2
    <3> QED
      BY <2>2, <3>1, Division, Zenon
  <2>4. f[n + 1] = f[n] + Term(bits, n) /\ f[n] = r
    BY <1>1, <1>4
  <2>5. Term(bits, n) = (q % 2) * 2^n
    <3>1. n \in bits <=> q % 2 = 1
      BY DEF BitsOf
    <3> HIDE DEF bits, q
    <3>2. q % 2 \in {0, 1}
      BY <2>3
    <3> QED
      BY <2>2, <3>1, <3>2 DEF Term
  <2> HIDE DEF bits, q, r
  <2>6. PICK h \in Int : q = (2 * h) + (q % 2) /\ q % 2 \in {0, 1}
    <3>1. q \in Int
      BY <2>3
    <3>2. q \div 2 \in Int /\ q % 2 \in {0, 1} /\ q = (2 * (q \div 2)) + (q % 2)
      BY <3>1, Halves, Zenon
    <3> QED
      BY <3>2, Zenon
  <2> DEFINE s == r + ((q % 2) * 2^n)
  <2>7. s \in 0 .. 2^(n + 1) - 1
    BY <2>2, <2>3, <2>6
  <2>8. v = (2^(n + 1) * h) + s
    <3>1. 2^n * q = (2^(n + 1) * h) + ((q % 2) * 2^n)
      <4>1. CASE q % 2 = 0
        <5>1. q = 2 * h
          BY <2>6, <4>1
        <5> QED
          BY <2>2, <4>1, <5>1
      <4>2. CASE q % 2 = 1
        <5>1. q = (2 * h) + 1
          BY <2>6, <4>2
        <5> QED
          BY <2>2, <4>2, <5>1
      <4> QED
        BY <2>6, <4>1, <4>2
    <3> HIDE DEF s
    <3>2. s = r + ((q % 2) * 2^n)
      BY DEF s
    <3> QED
      BY <2>2, <2>3, <2>6, <3>1, <3>2
  <2>9. v % 2^(n + 1) = s
    <3> DEFINE d == 2^(n + 1)
    <3>1. d \in Nat \ {0} /\ v \in Int /\ s \in 0 .. d - 1 /\ v = (d * h) + s
      BY <1>2, <2>2, <2>7, <2>8
    <3> HIDE DEF d, s
    <3>2. v % d = s
      BY <3>1, QuotientUnique
    <3> QED
      BY <3>2 DEF d
  <2> QED
    BY <2>1, <2>4, <2>5, <2>9
<1> HIDE DEF G, bits
<1>5. XLEN \in G
  BY <1>2, <1>3, <1>4, UpTo
<1>6. v % 2^XLEN = v
  <2>1. 2^XLEN \in Nat \ {0}
    BY Powers
  <2> QED
    BY <1>2, <2>1
<1>7. ValueOf(bits) = v
  BY <1>1, <1>5, <1>6 DEF G
<1> QED
  BY <1>7 DEF bits

-----------------------------------------------------------------------------
(* The CSR file *)

LEMMA WordRange == /\ Word \in Nat \ {0} /\ Values = 0 .. Word - 1
                   /\ 2^(XLEN - 1) \in Nat \ {0} /\ Word = 2 * 2^(XLEN - 1)
<1>1. XLEN \in 0 .. XLEN /\ XLEN - 1 \in 0 .. XLEN /\ (XLEN - 1) + 1 = XLEN
  BY XLENAssumption
<1>2. 2^((XLEN - 1) + 1) = 2 * 2^(XLEN - 1)
  BY <1>1, PowersAssumption
<1> QED
  BY <1>1, <1>2, Powers DEF Word, Values

LEMMA ValuesAreNumbers == Values \subseteq Nat /\ Values \subseteq Int
BY WordRange

LEMMA WrapInValues == ASSUME NEW n \in Int PROVE Wrap(n) \in Values
BY WordRange DEF Wrap

LEMMA MaskedBits ==
  ASSUME NEW v, NEW bits
  PROVE  Masked(v, bits) \in Values /\ BitsOf(Masked(v, bits)) = BitsOf(v) \cap bits
<1>1. BitsOf(v) \subseteq 0 .. XLEN - 1
  BY DEF BitsOf
<1> QED
  BY <1>1, ValueBits DEF Masked

LEMMA MergeBits ==
  ASSUME NEW old, NEW new, NEW mask
  PROVE  /\ Merge(old, new, mask) \in Values
         /\ BitsOf(Merge(old, new, mask)) = (BitsOf(old) \ mask) \cup (BitsOf(new) \cap mask)
<1>1. BitsOf(old) \subseteq 0 .. XLEN - 1 /\ BitsOf(new) \subseteq 0 .. XLEN - 1
  BY DEF BitsOf
<1> QED
  BY <1>1, ValueBits DEF Merge

\* What Put changes is the field it writes.
LEMMA PutBits ==
  ASSUME NEW v, NEW f, NEW x
  PROVE  /\ Put(v, f, x) \in Values
         /\ BitsOf(Put(v, f, x)) \ Field[f] = BitsOf(v) \ Field[f]
BY MergeBits DEF Put

\* The mode a return goes to is one of two bits.
LEMMA ModeField ==
  ASSUME NEW v \in Values
  PROVE  Get(v, "mpp") \in 0 .. 3 /\ Get(v, "spp") \in {U, S}
<1>1. ASSUME NEW f \in {"mpp", "spp"} PROVE Low(f) \in 0 .. XLEN - 1
  <2>1. Field[f] \in SUBSET Nat /\ Field[f] \subseteq 0 .. XLEN - 1
    BY FieldAssumption, XLENAssumption
  <2>2. Field[f] # {}
    BY FieldAssumption, FS_EmptySet
  <2>3. \E n \in Field[f] : \A m \in Field[f] : n <= m
    BY <2>1, <2>2, Smallest
  <2> QED
    BY <2>1, <2>3 DEF Low
<1>2. ASSUME NEW f \in {"mpp", "spp"} PROVE v \div 2^Low(f) \in Int
  <2>1. Low(f) \in 0 .. XLEN
    BY <1>1, XLENAssumption
  <2>2. 2^Low(f) \in Nat \ {0}
    BY <2>1, Powers
  <2>3. v \in Int
    BY WordRange
  <2> QED
    BY <2>2, <2>3, Division
<1>3. v \div 2^Low("mpp") \in Int /\ v \div 2^Low("spp") \in Int
  BY <1>2
<1>4. 2^1 = 2 /\ 2^2 = 4
  OBVIOUS
<1>5. \A n \in Int : n % 4 \in 0 .. 3 /\ n % 2 \in {0, 1}
  OBVIOUS
<1> QED
  BY <1>3, <1>4, <1>5, FieldAssumption DEF Get, U, S

\* Corrected, of one register
Right(n, v) ==
    /\ n = "medeleg" => BitsOf(v) \subseteq S_MODE_EXC_MASK
    /\ n = "mideleg" => BitsOf(v) \subseteq S_MODE_INT_MASK
    /\ n \in {"mie", "mip"} => BitsOf(v) \subseteq M_MODE_INT_MASK
    /\ n \in {"mcounteren", "scounteren"} => BitsOf(v) \subseteq COUNTER_MASK
    /\ n \in {"stvec", "mtvec"} => v % 4 <= 1
    /\ n = "satp" => v \div 2^(XLEN - 4) \in {0, 8}

CsrFiles == {c \in [Registers -> Values] : Corrected(c)}

LEMMA RightEverywhere ==
  ASSUME NEW c \in [Registers -> Values]
  PROVE  c \in CsrFiles <=> \A n \in Registers : Right(n, c[n])
BY DEF CsrFiles, Corrected, Right, Registers, Whole

LEMMA Update ==
  ASSUME NEW c \in CsrFiles, NEW n \in Registers, NEW v \in Values, Right(n, v)
  PROVE  [c EXCEPT ![n] = v] \in CsrFiles
<1> DEFINE d == [c EXCEPT ![n] = v]
<1>1. c \in [Registers -> Values]
  BY DEF CsrFiles
<1>2. d \in [Registers -> Values] /\ \A m \in Registers : d[m] = IF m = n THEN v ELSE c[m]
  BY <1>1
<1> HIDE DEF d
<1>3. \A m \in Registers : Right(m, d[m])
  BY <1>1, <1>2, RightEverywhere
<1>4. d \in CsrFiles
  BY <1>2, <1>3, RightEverywhere
<1> QED
  BY <1>4 DEF d

Free == Registers \ {"medeleg", "mideleg", "mie", "mip", "mcounteren", "scounteren",
                     "stvec", "mtvec", "satp"}

LEMMA UpdateFree ==
  ASSUME NEW c \in CsrFiles, NEW n \in Free, NEW v \in Values
  PROVE  [c EXCEPT ![n] = v] \in CsrFiles
BY Update DEF Free, Right

LEMMA CycleFile ==
  ASSUME csr \in CsrFiles, NEW W \in SUBSET WiredPending
  PROVE  /\ Cycle(W) \in CsrFiles
         /\ \A n \in Registers \ {"mcycle", "mip"} : Cycle(W)[n] = csr[n]
<1> DEFINE cycle == Wrap(csr["mcycle"] + 1)
           pending == ValueOf((BitsOf(csr["mip"]) \ WiredPending) \cup W)
           c == [csr EXCEPT !["mcycle"] = cycle]
<1>1. csr \in [Registers -> Values] /\ "mcycle" \in Free /\ "mip" \in Registers
  BY DEF CsrFiles, Free, Registers, Whole
<1>2. cycle \in Values
  <2>1. csr["mcycle"] \in Values
    BY <1>1 DEF Registers, Whole
  <2>2. csr["mcycle"] + 1 \in Int
    BY <2>1, WordRange
  <2> QED
    BY <2>2, WrapInValues
<1>3. pending \in Values /\ Right("mip", pending)
  <2>1. BitsOf(csr["mip"]) \subseteq M_MODE_INT_MASK
    BY DEF CsrFiles, Corrected
  <2>2. W \subseteq M_MODE_INT_MASK
    BY DEF WiredPending, M_MODE_INT_MASK
  <2>3. BitsOf(pending) \subseteq M_MODE_INT_MASK
    BY <2>1, <2>2, ValueBits
  <2> QED
    BY <2>3, ValueBits DEF Right
<1>4. Cycle(W) = [c EXCEPT !["mip"] = pending]
  BY <1>1 DEF Cycle
<1> HIDE DEF cycle, pending
<1>5. c \in CsrFiles
  BY <1>1, <1>2, UpdateFree
<1>6. Cycle(W) \in CsrFiles
  BY <1>1, <1>3, <1>4, <1>5, Update
<1> QED
  BY <1>1, <1>4, <1>6

\* csrWrite keeps the registers corrected, whatever a guest writes.
LEMMA WriteFile ==
  ASSUME NEW c \in CsrFiles, NEW n \in DOMAIN CsrNumber, NEW v \in Values, ~MtvecAsserts(n, v)
  PROVE  csrWrite(n, c, v) \in CsrFiles
<1>1. c \in [Registers -> Values] /\ Corrected(c)
  BY DEF CsrFiles
<1>2. "status" \in Free /\ "mip" \in Registers /\ "mie" \in Registers
  BY DEF Free, Registers, Whole
<1>3. CASE n \in {"mstatus", "sstatus"}
  BY <1>2, <1>3, MergeBits, UpdateFree DEF csrWrite
<1>4. CASE n \in {"medeleg", "mideleg", "mie", "mip", "mcounteren", "scounteren"}
  <2>1. ASSUME NEW mask PROVE Masked(v, mask) \in Values /\ BitsOf(Masked(v, mask)) \subseteq mask
    BY MaskedBits
  <2>2. n \in Registers
    BY <1>4 DEF Registers, Whole
  <2>3. CASE n = "medeleg"
    BY <2>1, <2>2, <2>3, Update DEF csrWrite, Right
  <2>4. CASE n = "mideleg"
    BY <2>1, <2>2, <2>4, Update DEF csrWrite, Right
  <2>5. CASE n \in {"mie", "mip"}
    BY <2>1, <2>2, <2>5, Update DEF csrWrite, Right
  <2>6. CASE n \in {"mcounteren", "scounteren"}
    BY <2>1, <2>2, <2>6, Update DEF csrWrite, Right
  <2> QED
    BY <1>4, <2>3, <2>4, <2>5, <2>6
<1>5. CASE n \in {"sie", "sip"}
  <2>1. ASSUME NEW r \in {"mie", "mip"}
        PROVE  /\ Merge(c[r], v, S_MODE_INT_MASK) \in Values
               /\ Right(r, Merge(c[r], v, S_MODE_INT_MASK))
    <3>1. BitsOf(c[r]) \subseteq M_MODE_INT_MASK
      BY <1>1 DEF Corrected
    <3>2. S_MODE_INT_MASK \subseteq M_MODE_INT_MASK
      BY DEF S_MODE_INT_MASK, M_MODE_INT_MASK
    <3> QED
      BY <3>1, <3>2, MergeBits DEF Right
  <2> QED
    BY <1>2, <1>5, <2>1, Update DEF csrWrite
<1>6. CASE n = "stvec"
  <2> DEFINE w == IF v % 4 > 1 THEN v - (v % 4) ELSE v
  <2>1. w \in Values /\ w % 4 <= 1
    BY WordRange
  <2>2. "stvec" \in Registers
    BY DEF Registers, Whole
  <2> HIDE DEF w
  <2>3. [c EXCEPT !["stvec"] = w] \in CsrFiles
    BY <2>1, <2>2, Update DEF Right
  <2> QED
    BY <1>6, <2>3 DEF csrWrite, w
<1>7. CASE n = "satp"
  <2> DEFINE d == 2^(XLEN - 4)
             w == IF v \div d \in {0, 8} THEN v ELSE v % d
  <2>1. d \in Nat \ {0}
    BY Powers, HartAssumption, XLENAssumption
  <2>2. v \in Nat
    BY WordRange
  <2>3. w \in Values /\ w \div d \in {0, 8}
    <3> HIDE DEF d
    <3>1. v % d \in 0 .. d - 1 /\ v % d <= v
      BY <2>1, <2>2
    <3>2. (v % d) \div d = 0
      BY <2>1, <3>1, SmallQuotient
    <3> QED
      BY <2>2, <3>1, <3>2, WordRange
  <2>4. "satp" \in Registers
    BY DEF Registers, Whole
  <2>5. Right("satp", w)
    BY <2>3 DEF Right
  <2>6. csrWrite(n, c, v) = [c EXCEPT !["satp"] = w]
    BY <1>7 DEF csrWrite
  <2> HIDE DEF w, d
  <2>7. [c EXCEPT !["satp"] = w] \in CsrFiles
    BY <2>3, <2>4, <2>5, Update
  <2> QED
    BY <2>6, <2>7
<1>8. CASE n = "mtvec"
  <2>1. v % 4 <= 1
    BY <1>8, WordRange DEF MtvecAsserts
  <2>2. "mtvec" \in Registers
    BY DEF Registers, Whole
  <2> QED
    BY <1>8, <2>1, <2>2, Update DEF csrWrite, Right
<1>9. CASE n \in {"mscratch", "mepc", "mcause", "mtval", "mcycle", "sscratch", "sepc", "scause",
                  "stval"}
  <2>1. n \in Free
    BY <1>9 DEF Free, Registers, Whole
  <2>2. csrWrite(n, c, v) = [c EXCEPT ![n] = v]
    BY <1>9 DEF csrWrite
  <2> QED
    BY <2>1, <2>2, UpdateFree
<1>10. CASE n \in {"misa", "tselect", "tdata1", "time", "cycle", "instret", "minstret", "mhartid",
                   "pmpcfg0"}
  BY <1>10 DEF csrWrite
<1>11. DOMAIN CsrNumber = {"mstatus", "sstatus", "medeleg", "mideleg", "mie", "mip", "mcounteren",
          "scounteren", "sie", "sip", "stvec", "satp", "mtvec", "mscratch", "mepc", "mcause",
          "mtval", "mcycle", "sscratch", "sepc", "scause", "stval", "misa", "tselect", "tdata1",
          "time", "cycle", "instret", "minstret", "mhartid", "pmpcfg0"}
  BY DEF CsrNumber
<1> QED
  BY <1>3, <1>4, <1>5, <1>6, <1>7, <1>8, <1>9, <1>10, <1>11

LEMMA ReadValue ==
  ASSUME NEW c \in CsrFiles, NEW n \in DOMAIN CsrNumber, NEW m, Readable(n, c, m)
  PROVE  csrRead(n, c) \in Values
<1>1. c \in [Registers -> Values]
  BY DEF CsrFiles
<1>2. n \notin {"instret", "pmpcfg0"}
  BY DEF Readable
<1>3. 0 \in Values /\ 1 \in Values
  BY WordRange
<1>4. \/ n \in Whole
      \/ n \in {"mstatus", "sstatus", "sie", "sip", "cycle", "time", "tselect", "mhartid", "tdata1"}
  BY <1>2 DEF CsrNumber, Whole
<1>5. CASE n \in Whole
  <2>1. csrRead(n, c) = c[n]
    BY <1>5 DEF csrRead, Whole
  <2> QED
    BY <1>1, <1>5, <2>1 DEF Registers
<1>6. CASE n \in {"sstatus", "sie", "sip"}
  BY <1>6, MaskedBits DEF csrRead, Whole
<1>7. CASE n \in {"mstatus", "cycle", "time", "tselect", "mhartid", "tdata1"}
  BY <1>1, <1>3, <1>7 DEF csrRead, Whole, Registers
<1> QED
  BY <1>4, <1>5, <1>6, <1>7

-----------------------------------------------------------------------------
(* Traps and returns *)

Traps == [cause : 0 .. 15, interrupt : BOOLEAN, tval : Values]

\* A register has room for a cause beside the bit of an interrupt.
LEMMA CauseInValues == ASSUME NEW t \in Traps PROVE CauseWord(t) \in Values
<1> DEFINE p == 2^(XLEN - 1)
<1>1. p >= 16
  <2>1. 4 \in 0 .. XLEN - 1 /\ XLEN - 1 \in 0 .. XLEN
    BY HartAssumption, XLENAssumption
  <2>2. 2^4 <= p
    BY <2>1, PowersGrow
  <2> QED
    BY <2>2, WordRange
<1>2. t.cause \in 0 .. 15 /\ Values = 0 .. (2 * p) - 1 /\ p \in Nat
  BY WordRange DEF Traps
<1>3. CauseWord(t) = t.cause + (IF t.interrupt THEN p ELSE 0)
  BY DEF CauseWord
<1> HIDE DEF p
<1>4. t.interrupt \in BOOLEAN
  BY DEF Traps
<1> QED
  BY <1>1, <1>2, <1>3, <1>4, SMTT(30)

LEMMA WrapEven == ASSUME NEW n \in Int, n % 2 = 0 PROVE Wrap(n) % 2 = 0
<1> DEFINE h == 2^(XLEN - 1)
           q == n \div Word
           r == n % Word
<1>1. Word = 2 * h /\ h \in Nat /\ Word \in Nat \ {0}
  BY WordRange
<1>2. q \in Int /\ r \in 0 .. Word - 1 /\ n = (Word * q) + r
  BY <1>1, Division, Zenon
<1> HIDE DEF h, q, r
<1>3. Word * q = 2 * (h * q) /\ h * q \in Int
  BY <1>1, <1>2
<1>4. r = n - (2 * (h * q))
  BY <1>2, <1>3
<1>5. r % 2 = 0
  BY <1>2, <1>3, <1>4
<1> QED
  BY <1>5 DEF r, Wrap

LEMMA VectorEven ==
  ASSUME NEW tvec \in Values, NEW t \in Traps
  PROVE  Vector(tvec, t) \in Values /\ Vector(tvec, t) % 2 = 0
<1> DEFINE n == tvec - (tvec % 4) + (IF tvec % 4 = 1 THEN 4 * t.cause ELSE 0)
<1>1. tvec \in Int /\ t.cause \in Int
  BY ValuesAreNumbers DEF Traps
<1>2. n \in Int /\ n % 2 = 0
  BY <1>1
<1>3. Vector(tvec, t) = Wrap(n)
  BY DEF Vector
<1> HIDE DEF n
<1> QED
  BY <1>2, <1>3, WrapInValues, WrapEven

LEMMA TrapTarget ==
  ASSUME NEW c \in CsrFiles, NEW t \in Traps, NEW m
  PROVE  TrapPC(t, c, m) \in Values /\ TrapPC(t, c, m) % 2 = 0
<1>1. c["stvec"] \in Values /\ c["mtvec"] \in Values
  BY DEF CsrFiles, Registers, Whole
<1> QED
  BY <1>1, VectorEven DEF TrapPC

\* Three fields written in a row
LEMMA PutThree ==
  ASSUME NEW v, NEW f, NEW g, NEW h, NEW x, NEW y, NEW z
  PROVE  /\ Put(Put(Put(v, f, x), g, y), h, z) \in Values
         /\ BitsOf(Put(Put(Put(v, f, x), g, y), h, z)) \ Bits({f, g, h})
               = BitsOf(v) \ Bits({f, g, h})
<1> DEFINE a == Put(v, f, x)
           b == Put(a, g, y)
           w == Put(b, h, z)
<1>1. /\ BitsOf(a) \ Field[f] = BitsOf(v) \ Field[f]
      /\ BitsOf(b) \ Field[g] = BitsOf(a) \ Field[g]
      /\ BitsOf(w) \ Field[h] = BitsOf(b) \ Field[h]
      /\ w \in Values
  BY PutBits
<1>2. Bits({f, g, h}) = Field[f] \cup Field[g] \cup Field[h]
  BY DEF Bits
<1> HIDE DEF a, b, w
<1>3. w \in Values /\ BitsOf(w) \ Bits({f, g, h}) = BitsOf(v) \ Bits({f, g, h})
  BY <1>1, <1>2
<1> QED
  BY <1>3 DEF a, b, w

\* What a trap leaves: its level's three registers and three fields of status.
LEMMA TrapFile ==
  ASSUME NEW c \in CsrFiles, NEW t \in Traps, NEW m, NEW p \in Values
  PROVE  LET d == Destination(t, c, m)
             after == AfterTrap(t, c, m, p)
         IN /\ d \in {S, M} /\ after \in CsrFiles
            /\ after[IF d = S THEN "sepc" ELSE "mepc"] = p
            /\ \A n \in Registers \ (TrapRegisters(d) \cup {"status"}) : after[n] = c[n]
            /\ BitsOf(after["status"]) \ Bits(TrapFields(d))
                  = BitsOf(c["status"]) \ Bits(TrapFields(d))
<1> DEFINE d == Destination(t, c, m)
           after == AfterTrap(t, c, m, p)
           v == c["status"]
           s == Put(Put(Put(v, "spie", Get(v, "sie")), "sie", 0), "spp", m)
           w == Put(Put(Put(v, "mpie", Get(v, "mie")), "mie", 0), "mpp", m)
           fs == [[[c EXCEPT !["stval"] = t.tval] EXCEPT !["scause"] = CauseWord(t)]
                      EXCEPT !["sepc"] = p]
           fm == [[[c EXCEPT !["mtval"] = t.tval] EXCEPT !["mcause"] = CauseWord(t)]
                      EXCEPT !["mepc"] = p]
<1>1. c \in [Registers -> Values] /\ t.tval \in Values /\ CauseWord(t) \in Values
  BY CauseInValues DEF CsrFiles, Traps
<1>2. {"stval", "scause", "sepc", "mtval", "mcause", "mepc", "status"} \subseteq Free
  BY DEF Free, Registers, Whole
<1>3. d \in {S, M}
  BY DEF Destination
<1>4. CASE d = S
  <2>1. s \in Values /\ BitsOf(s) \ Bits({"spie", "sie", "spp"}) = BitsOf(v) \ Bits({"spie", "sie", "spp"})
    <3> HIDE DEF d, after, v
    <3> QED
      BY PutThree
  <2>2. TrapFields(S) = {"spie", "sie", "spp"}
    BY DEF TrapFields
  <2>3. fs \in CsrFiles
    BY <1>1, <1>2, UpdateFree
  <2>4. after = [fs EXCEPT !["status"] = s]
    <3>1. fs["status"] = v
      BY <1>1 DEF Registers, Whole
    <3> QED
      BY <1>1, <1>4, <3>1 DEF AfterTrap, Registers, Whole
  <2>5. \A n \in Registers \ (TrapRegisters(S) \cup {"status"}) : fs[n] = c[n]
    BY <1>1 DEF TrapRegisters, Registers, Whole
  <2>6. fs["sepc"] = p
    BY <1>1 DEF Registers, Whole
  <2>7. fs \in [Registers -> Values]
    BY <2>3 DEF CsrFiles
  <2> HIDE DEF fs, s, v, after
  <2>8. after \in CsrFiles
    BY <1>2, <2>1, <2>3, <2>4, UpdateFree
  <2>9. /\ after["sepc"] = p /\ after["status"] = s
        /\ \A n \in Registers \ (TrapRegisters(S) \cup {"status"}) : after[n] = c[n]
    BY <2>4, <2>5, <2>6, <2>7 DEF Registers, Whole
  <2> HIDE DEF d
  <2>10. /\ after[IF d = S THEN "sepc" ELSE "mepc"] = p
         /\ \A n \in Registers \ (TrapRegisters(d) \cup {"status"}) : after[n] = c[n]
         /\ BitsOf(after["status"]) \ Bits(TrapFields(d)) = BitsOf(v) \ Bits(TrapFields(d))
    BY <1>4, <2>1, <2>2, <2>9
  <2> QED
    BY <1>3, <2>8, <2>10 DEF d, after, v
<1>5. CASE d = M
  <2>1. w \in Values /\ BitsOf(w) \ Bits({"mpie", "mie", "mpp"}) = BitsOf(v) \ Bits({"mpie", "mie", "mpp"})
    BY PutThree
  <2>2. TrapFields(M) = {"mpie", "mie", "mpp"}
    BY DEF TrapFields, S, M
  <2>3. fm \in CsrFiles
    BY <1>1, <1>2, UpdateFree
  <2>4. after = [fm EXCEPT !["status"] = w]
    <3>1. fm["status"] = v
      BY <1>1 DEF Registers, Whole
    <3>2. d # S
      BY <1>5 DEF S, M
    <3> QED
      BY <1>1, <3>1, <3>2 DEF AfterTrap, Registers, Whole
  <2>5. \A n \in Registers \ (TrapRegisters(M) \cup {"status"}) : fm[n] = c[n]
    BY <1>1 DEF TrapRegisters, Registers, Whole, S, M
  <2>6. fm["mepc"] = p
    BY <1>1 DEF Registers, Whole
  <2>7. fm \in [Registers -> Values]
    BY <2>3 DEF CsrFiles
  <2> HIDE DEF fm, w, v, after
  <2>8. after \in CsrFiles
    BY <1>2, <2>1, <2>3, <2>4, UpdateFree
  <2>9. /\ after["mepc"] = p /\ after["status"] = w
        /\ \A n \in Registers \ (TrapRegisters(M) \cup {"status"}) : after[n] = c[n]
    BY <2>4, <2>5, <2>6, <2>7 DEF Registers, Whole
  <2> HIDE DEF d
  <2>10. /\ after[IF d = S THEN "sepc" ELSE "mepc"] = p
         /\ \A n \in Registers \ (TrapRegisters(d) \cup {"status"}) : after[n] = c[n]
         /\ BitsOf(after["status"]) \ Bits(TrapFields(d)) = BitsOf(v) \ Bits(TrapFields(d))
    BY <1>5, <2>1, <2>2, <2>9 DEF S, M
  <2> QED
    BY <1>3, <2>8, <2>10 DEF d, after, v
<1> QED
  BY <1>3, <1>4, <1>5

-----------------------------------------------------------------------------
(* The decoder: every word and halfword is an operation with its operands *)

AluOps == {"ADD", "SUB", "SLL", "SLT", "SLTU", "XOR", "SRL", "SRA", "OR", "AND",
           "MUL", "MULH", "MULHU", "MULHSU", "DIV", "DIVU", "REM", "REMU"}
AmoOps == {"LR", "SC", "SWAP", "ADD", "XOR", "AND", "OR", "MIN", "MAX", "MINU", "MAXU"}
Conds == {"EQ", "NE", "LT", "GE", "LTU", "GEU"}
Even == {n \in Int : n % 2 = 0}

Operations ==
    [k : {"illegal", "nop", "ecall", "ebreak", "sret", "mret"}]
    \cup [k : {"li", "auipc"}, rd : Regs, imm : Int]
    \cup [k : {"alu"}, op : AluOps, w32 : BOOLEAN, rd : Regs, rs1 : Regs, rs2 : Regs]
    \cup [k : {"aluimm"}, op : AluOps, w32 : BOOLEAN, rd : Regs, rs1 : Regs, imm : Int]
    \cup [k : {"jal"}, rd : Regs, imm : Int]
    \cup [k : {"jalr"}, rd : Regs, rs1 : Regs, imm : Int, even : BOOLEAN]
    \cup [k : {"branch"}, cond : Conds, rs1 : Regs, rs2 : Regs, imm : Even]
    \cup [k : {"load"}, size : {1, 2, 4, 8}, signed : BOOLEAN, rd : Regs, rs1 : Regs, imm : Int]
    \cup [k : {"store"}, size : {1, 2, 4, 8}, rs1 : Regs, rs2 : Regs, imm : Int]
    \cup [k : {"atomic"}, f : AmoOps, size : {4, 8}, rd : Regs, rs1 : Regs, rs2 : Regs]
    \cup [k : {"csr"}, f : {"rw", "rs", "rc"}, imm : BOOLEAN, csr : Nat, rd : Regs, src : Regs]
    \cup [k : {"sfence"}, rs1 : Regs, rs2 : Regs]

LEMMA Constructed ==
  ASSUME NEW rd \in Regs, NEW rs1 \in Regs, NEW rs2 \in Regs, NEW imm \in Int,
         NEW b \in BOOLEAN, NEW op \in AluOps
  PROVE  /\ Illegal \in Operations /\ Nop \in Operations
         /\ \A k \in {"ecall", "ebreak", "sret", "mret"} : Sys(k) \in Operations
         /\ Li(rd, imm) \in Operations /\ Auipc(rd, imm) \in Operations
         /\ Alu(op, b, rd, rs1, rs2) \in Operations
         /\ AluImm(op, b, rd, rs1, imm) \in Operations
         /\ Jal(rd, imm) \in Operations /\ Jalr(rd, rs1, imm, b) \in Operations
         /\ imm % 2 = 0 => \A cond \in Conds : Branch(cond, rs1, rs2, imm) \in Operations
         /\ \A size \in {1, 2, 4, 8} : /\ Load(size, b, rd, rs1, imm) \in Operations
                                       /\ Store(size, rs1, rs2, imm) \in Operations
         /\ \A f \in AmoOps, size \in {4, 8} : Atomic(f, size, rd, rs1, rs2) \in Operations
         /\ \A f \in {"rw", "rs", "rc"}, n \in Nat : Csr(f, b, n, rd, rs1) \in Operations
         /\ Fence(rs1, rs2) \in Operations
<1> USE DEF Operations
<1>1. /\ Illegal \in Operations /\ Nop \in Operations
      /\ \A k \in {"ecall", "ebreak", "sret", "mret"} : Sys(k) \in Operations
  BY DEF Illegal, Nop, Sys
<1>2. Li(rd, imm) \in Operations /\ Auipc(rd, imm) \in Operations
  BY DEF Li, Auipc
<1>3. Alu(op, b, rd, rs1, rs2) \in Operations /\ AluImm(op, b, rd, rs1, imm) \in Operations
  BY DEF Alu, AluImm
<1>4. Jal(rd, imm) \in Operations /\ Jalr(rd, rs1, imm, b) \in Operations
  BY DEF Jal, Jalr
<1>5. imm % 2 = 0 => \A cond \in Conds : Branch(cond, rs1, rs2, imm) \in Operations
  BY DEF Branch, Even
<1>6. \A size \in {1, 2, 4, 8} : /\ Load(size, b, rd, rs1, imm) \in Operations
                                 /\ Store(size, rs1, rs2, imm) \in Operations
  BY DEF Load, Store
<1>7. \A f \in AmoOps, size \in {4, 8} : Atomic(f, size, rd, rs1, rs2) \in Operations
  BY DEF Atomic
<1>8. \A f \in {"rw", "rs", "rc"}, n \in Nat : Csr(f, b, n, rd, rs1) \in Operations
  BY DEF Csr
<1>9. Fence(rs1, rs2) \in Operations
  BY DEF Fence
<1> QED
  BY <1>1, <1>2, <1>3, <1>4, <1>5, <1>6, <1>7, <1>8, <1>9

LEMMA Immediates ==
  ASSUME NEW i \in Instructions
  PROVE  /\ i.rd \in Regs /\ i.rs1 \in Regs /\ i.rs2 \in Regs
         /\ Imm12(i) \in Nat /\ ImmI(i) \in Int /\ ImmS(i) \in Int /\ ImmU(i) \in Int
         /\ ImmJ(i) \in Int /\ ImmB(i) \in Int /\ ImmB(i) % 2 = 0
<1>1. /\ i.rd \in 0 .. 31 /\ i.rs1 \in 0 .. 31 /\ i.rs2 \in 0 .. 31
      /\ i.f3 \in 0 .. 7 /\ i.f7 \in 0 .. 127
  BY DEF Instructions
<1> DEFINE rd == i.rd
           rs1 == i.rs1
           rs2 == i.rs2
           f3 == i.f3
           f7 == i.f7
<1> HIDE DEF rd, rs1, rs2, f3, f7
<1>2. rd \in 0 .. 31 /\ rs1 \in 0 .. 31 /\ rs2 \in 0 .. 31 /\ f3 \in 0 .. 7 /\ f7 \in 0 .. 127
  BY <1>1 DEF rd, rs1, rs2, f3, f7
<1>3. Imm12(i) \in Nat /\ ImmI(i) \in Int
  <2>1. Imm12(i) = f7 * 32 + rs2
    BY DEF Imm12, f7, rs2
  <2> QED
    BY <1>2, <2>1 DEF ImmI, SignExtend
<1>4. ImmS(i) \in Int
  <2>1. ImmS(i) = SignExtend(f7, 7) * 32 + rd
    BY DEF ImmS, f7, rd
  <2> QED
    BY <1>2, <2>1 DEF SignExtend
<1>5. ImmB(i) \in Int /\ ImmB(i) % 2 = 0
  <2>1. ImmB(i) = (IF f7 >= 64 THEN -(2^12) ELSE 0) + (rd % 2) * 2048
                  + (f7 % 64) * 32 + (rd \div 2) * 2
    BY DEF ImmB, f7, rd
  <2> QED
    BY <1>2, <2>1
<1>6. Upper(i) \in Nat
  <2>1. Upper(i) = f7 * 8192 + rs2 * 256 + rs1 * 8 + f3
    BY DEF Upper, f7, rs2, rs1, f3
  <2> QED
    BY <1>2, <2>1
<1>7. ImmU(i) \in Int /\ ImmJ(i) \in Int
  BY <1>6 DEF ImmU, ImmJ, SignExtend
<1> QED
  BY <1>1, <1>3, <1>4, <1>5, <1>7 DEF Regs

LEMMA TablesOk ==
  ASSUME NEW f3 \in 0 .. 7
  PROVE  /\ AluOf[f3 + 1] \in AluOps /\ MulOf[f3 + 1] \in AluOps
         /\ CondOf[f3 + 1] \in Conds \cup {"none"}
         /\ 2^(f3 % 4) \in {1, 2, 4, 8}
         /\ f3 <= 3 => 2^f3 \in {1, 2, 4, 8}
         /\ f3 \in {2, 3} => 2^f3 \in {4, 8}
<1>1. f3 \in {0, 1, 2, 3, 4, 5, 6, 7}
  OBVIOUS
<1>2. AluOf[f3 + 1] \in AluOps
  BY <1>1 DEF AluOf, AluOps
<1>3. MulOf[f3 + 1] \in AluOps
  BY <1>1 DEF MulOf, AluOps
<1>4. CondOf[f3 + 1] \in Conds \cup {"none"}
  BY <1>1 DEF CondOf, Conds
<1>5. 2^0 = 1 /\ 2^1 = 2 /\ 2^2 = 4 /\ 2^3 = 8
  OBVIOUS
<1>6. f3 % 4 \in {0, 1, 2, 3}
  OBVIOUS
<1>7. 2^(f3 % 4) \in {1, 2, 4, 8}
  BY <1>5, <1>6
<1>8. f3 <= 3 => f3 \in {0, 1, 2, 3}
  OBVIOUS
<1>9. (f3 <= 3 => 2^f3 \in {1, 2, 4, 8}) /\ (f3 \in {2, 3} => 2^f3 \in {4, 8})
  BY <1>5, <1>8
<1> QED
  BY <1>2, <1>3, <1>4, <1>7, <1>9

LEMMA Decode32Ok == ASSUME NEW i \in Instructions PROVE Decode32(i) \in Operations
<1>1. /\ i.rd \in Regs /\ i.rs1 \in Regs /\ i.rs2 \in Regs
      /\ Imm12(i) \in Nat /\ ImmI(i) \in Int /\ ImmS(i) \in Int /\ ImmU(i) \in Int
      /\ ImmJ(i) \in Int /\ ImmB(i) \in Int /\ ImmB(i) % 2 = 0
  BY Immediates
<1>2. i.f3 \in 0 .. 7 /\ i.f7 \in 0 .. 127
  BY DEF Instructions
<1>3. /\ AluOf[i.f3 + 1] \in AluOps /\ MulOf[i.f3 + 1] \in AluOps
      /\ CondOf[i.f3 + 1] \in Conds \cup {"none"}
      /\ 2^(i.f3 % 4) \in {1, 2, 4, 8}
      /\ i.f3 <= 3 => 2^i.f3 \in {1, 2, 4, 8}
      /\ i.f3 \in {2, 3} => 2^i.f3 \in {4, 8}
  BY <1>2, TablesOk
<1>4. {"ADD", "SUB", "SRA", "SRL", "SLL"} \subseteq AluOps /\ "ADD" \in AluOps
  BY DEF AluOps
<1>5. Illegal \in Operations /\ Nop \in Operations
  BY <1>1, <1>4, Constructed
<1>6. /\ Li(i.rd, ImmU(i)) \in Operations /\ Auipc(i.rd, ImmU(i)) \in Operations
      /\ Jal(i.rd, ImmJ(i)) \in Operations
  BY <1>1, <1>4, Constructed
<1>7. Jalr(i.rd, i.rs1, (ImmI(i) \div 2) * 2, FALSE) \in Operations
  <2>1. (ImmI(i) \div 2) * 2 \in Int
    BY <1>1
  <2> QED
    BY <1>1, <1>4, <2>1, Constructed
<1>8. DecodeBranch(i) \in Operations
  BY <1>1, <1>3, <1>4, <1>5, Constructed DEF DecodeBranch
<1>9. DecodeLoad(i) \in Operations
  <2>1. (i.f3 < 4) \in BOOLEAN
    OBVIOUS
  <2>2. Load(2^(i.f3 % 4), i.f3 < 4, i.rd, i.rs1, ImmI(i)) \in Operations
    BY <1>1, <1>3, <1>4, <2>1, Constructed, Zenon
  <2> QED
    BY <1>5, <2>2 DEF DecodeLoad
<1>10. DecodeStore(i) \in Operations
  <2>1. ASSUME ~ (i.f3 > 3) PROVE Store(2^i.f3, i.rs1, i.rs2, ImmS(i)) \in Operations
    <3>1. 2^i.f3 \in {1, 2, 4, 8} /\ TRUE \in BOOLEAN
      BY <1>2, <1>3, <2>1
    <3> QED
      BY <1>1, <1>4, <3>1, Constructed, Zenon
  <2> QED
    BY <1>5, <2>1 DEF DecodeStore
<1>11. DecodeOpImm(i) \in Operations /\ DecodeOpImm32(i) \in Operations
  <2>1. ImmI(i) % 64 \in Int
    BY <1>1
  <2>2. \A op \in AluOps, b \in BOOLEAN : /\ AluImm(op, b, i.rd, i.rs1, ImmI(i)) \in Operations
                                          /\ AluImm(op, b, i.rd, i.rs1, ImmI(i) % 64) \in Operations
    BY <1>1, <2>1, Constructed
  <2>3. DecodeOpImm(i) \in Operations
    BY <1>3, <1>4, <1>5, <2>2 DEF DecodeOpImm
  <2>4. DecodeOpImm32(i) \in Operations
    BY <1>3, <1>4, <1>5, <2>2 DEF DecodeOpImm32
  <2> QED
    BY <2>3, <2>4
<1>12. DecodeOp(i) \in Operations /\ DecodeOp32(i) \in Operations
  <2>1. \A op \in AluOps, b \in BOOLEAN : Alu(op, b, i.rd, i.rs1, i.rs2) \in Operations
    BY <1>1, Constructed
  <2>2. DecodeOp(i) \in Operations
    BY <1>3, <1>4, <1>5, <2>1 DEF DecodeOp
  <2>3. DecodeOp32(i) \in Operations
    BY <1>3, <1>4, <1>5, <2>1 DEF DecodeOp32
  <2> QED
    BY <2>2, <2>3
<1>13. DecodeAmo(i) \in Operations
  <2>1. \A f \in AmoOps, size \in {4, 8} :
           /\ Atomic(f, size, i.rd, i.rs1, i.rs2) \in Operations
           /\ Atomic(f, size, i.rd, i.rs1, 0) \in Operations
    <3>1. 0 \in Regs
      BY DEF Regs
    <3> QED
      BY <1>1, <1>4, <3>1, Constructed
  <2>2. \A n : AmoOf(n) # "none" => AmoOf(n) \in AmoOps
    BY DEF AmoOf, AmoOps
  <2>3. "LR" \in AmoOps /\ "SC" \in AmoOps
    BY DEF AmoOps
  <2> QED
    BY <1>3, <1>5, <2>1, <2>2, <2>3 DEF DecodeAmo
<1>14. DecodeSystem(i) \in Operations
  <2>1. \A k \in {"ecall", "ebreak", "sret", "mret"} : Sys(k) \in Operations
    BY <1>1, <1>4, Constructed
  <2>2. Fence(i.rs1, i.rs2) \in Operations
    BY <1>1, <1>4, Constructed
  <2>3. DecodePriv(i) \in Operations
    BY <1>5, <2>1, <2>2 DEF DecodePriv
  <2>4. \A f \in {"rw", "rs", "rc"}, b \in BOOLEAN :
           Csr(f, b, Imm12(i), i.rd, i.rs1) \in Operations
    BY <1>1, <1>4, Constructed
  <2>5. CASE i.f3 % 4 # 0
    <3>1. i.f3 % 4 \in {1, 2, 3} /\ i.f3 # 0 /\ i.f3 # 4
      BY <1>2, <2>5
    <3>2. (<<"rw", "rs", "rc">>)[i.f3 % 4] \in {"rw", "rs", "rc"}
      BY <3>1
    <3>3. DecodeSystem(i) = Csr((<<"rw", "rs", "rc">>)[i.f3 % 4], i.f3 > 4, Imm12(i), i.rd, i.rs1)
      BY <2>5, <3>1 DEF DecodeSystem
    <3>4. (i.f3 > 4) \in BOOLEAN
      OBVIOUS
    <3> QED
      BY <2>4, <3>2, <3>3, <3>4, Zenon
  <2>6. CASE i.f3 \in {0, 4}
    BY <1>5, <2>3, <2>6 DEF DecodeSystem
  <2> QED
    BY <1>2, <2>5, <2>6
<1> QED
  BY <1>5, <1>6, <1>7, <1>8, <1>9, <1>10, <1>11, <1>12, <1>13, <1>14 DEF Decode32

Patterns16 == 0 .. 65535

LEMMA PatternsAreNumbers == ASSUME NEW h \in Patterns16 PROVE h \in Int
BY SMTT(60) DEF Patterns16

LEMMA ConcatIsInt ==
  ASSUME NEW h \in Patterns16, NEW hi \in 0 .. 15, NEW lo \in 0 .. 15, NEW at \in 0 .. 15, lo <= hi
  PROVE  Concat(h, hi, lo, at) \in Int
<1> DEFINE a == 2^lo
           b == 2^(hi - lo + 1)
           c == 2^at
<1>1. lo \in 0 .. XLEN /\ hi - lo + 1 \in 0 .. XLEN /\ at \in 0 .. XLEN
  BY HartAssumption, XLENAssumption
<1>2. a \in Nat \ {0} /\ b \in Nat \ {0} /\ c \in Nat \ {0}
  BY <1>1, Powers
<1>3. Concat(h, hi, lo, at) = ((h \div a) % b) * c
  BY DEF Concat
<1>4. h \in Int
  BY PatternsAreNumbers
<1> HIDE DEF a, b, c
<1>5. h \div a \in Int
  BY <1>2, <1>4
<1>6. (h \div a) % b \in Int
  BY <1>2, <1>5
<1> QED
  BY <1>2, <1>3, <1>6

LEMMA Operands16 ==
  ASSUME NEW h \in Patterns16
  PROVE  /\ Rd(h) \in Regs /\ Rs2(h) \in Regs /\ RdC(h) \in Regs /\ Rs2C(h) \in Regs
         /\ Imm6(h) \in Int /\ UImm6(h) \in Int /\ Imm4SPN(h) \in Int /\ Imm16SP(h) \in Int
         /\ OffsetW(h) \in Int /\ OffsetD(h) \in Int
         /\ OffsetLWSP(h) \in Int /\ OffsetLDSP(h) \in Int
         /\ OffsetJ(h) \in Int /\ OffsetB(h) \in Int /\ OffsetB(h) % 2 = 0
<1>1. Rd(h) \in Regs /\ Rs2(h) \in Regs /\ RdC(h) \in Regs /\ Rs2C(h) \in Regs
  BY SMTT(30) DEF Rd, Rs2, RdC, Rs2C, Concat, Regs, Patterns16
<1>2. \A hi \in 0 .. 15, lo \in 0 .. 15, at \in 0 .. 15 :
         lo <= hi => Concat(h, hi, lo, at) \in Int
  BY ConcatIsInt
<1>3. Imm6(h) \in Int /\ UImm6(h) \in Int
  <2>1. Imm6(h) \in Int
    BY <1>2 DEF Imm6, SignExtend
  <2> QED
    BY <2>1 DEF UImm6
<1>4. Imm4SPN(h) \in Int /\ Imm16SP(h) \in Int
  BY <1>2 DEF Imm4SPN, Imm16SP, SignExtend
<1>5. OffsetW(h) \in Int /\ OffsetD(h) \in Int /\ OffsetLWSP(h) \in Int /\ OffsetLDSP(h) \in Int
  BY <1>2 DEF OffsetW, OffsetD, OffsetLWSP, OffsetLDSP
<1>6. OffsetJ(h) \in Int
  BY <1>2 DEF OffsetJ, SignExtend
<1>7. OffsetB(h) \in Int
  BY <1>2 DEF OffsetB, SignExtend
<1>8. OffsetB(h) % 2 = 0
  BY SMTT(60) DEF OffsetB, Concat, SignExtend, Patterns16
<1>9. /\ Imm6(h) \in Int /\ UImm6(h) \in Int /\ Imm4SPN(h) \in Int /\ Imm16SP(h) \in Int
      /\ OffsetW(h) \in Int /\ OffsetD(h) \in Int
      /\ OffsetLWSP(h) \in Int /\ OffsetLDSP(h) \in Int
  BY <1>3, <1>4, <1>5
<1>10. OffsetJ(h) \in Int /\ OffsetB(h) \in Int /\ OffsetB(h) % 2 = 0
  BY <1>6, <1>7, <1>8
<1> QED
  BY <1>1, <1>9, <1>10

LEMMA Decode16Ok == ASSUME NEW h \in Halfwords PROVE Decode16(h) \in Operations
<1>1. h \in Patterns16 /\ h % 4 \in {0, 1, 2}
  BY SMTT(60) DEF Halfwords, Patterns16
<1>2. /\ Rd(h) \in Regs /\ Rs2(h) \in Regs /\ RdC(h) \in Regs /\ Rs2C(h) \in Regs
      /\ Imm6(h) \in Int /\ UImm6(h) \in Int /\ Imm4SPN(h) \in Int /\ Imm16SP(h) \in Int
      /\ OffsetW(h) \in Int /\ OffsetD(h) \in Int
      /\ OffsetLWSP(h) \in Int /\ OffsetLDSP(h) \in Int
      /\ OffsetJ(h) \in Int /\ OffsetB(h) \in Int /\ OffsetB(h) % 2 = 0
  BY <1>1, Operands16, Zenon
<1>3. /\ {"ADD", "SUB", "XOR", "OR", "AND", "SLL", "SRL", "SRA"} \subseteq AluOps
      /\ 0 \in Regs /\ 1 \in Regs /\ 2 \in Regs /\ 0 \in Int
  BY DEF AluOps, Regs
<1>4. \A op \in AluOps, b \in BOOLEAN, rd \in Regs, rs1 \in Regs, rs2 \in Regs :
         Alu(op, b, rd, rs1, rs2) \in Operations
  BY <1>3, Constructed
<1>5. \A op \in AluOps, b \in BOOLEAN, rd \in Regs, rs1 \in Regs, imm \in Int :
         AluImm(op, b, rd, rs1, imm) \in Operations
  BY <1>3, Constructed
<1>6. Illegal \in Operations /\ Nop \in Operations /\ Sys("ebreak") \in Operations
  BY <1>2, <1>3, Constructed
<1>7. \A imm, op : op \in Operations => OrNop(imm, op) \in Operations
  BY <1>6 DEF OrNop
<1>8. \A size \in {4, 8}, b \in BOOLEAN, rd \in Regs, rs1 \in Regs, imm \in Int :
         Load(size, b, rd, rs1, imm) \in Operations /\ Store(size, rs1, rd, imm) \in Operations
  BY <1>3, Constructed
<1> DEFINE f == h \div 2^13
<1>9. DecodeC0(h, f) \in Operations
  BY <1>2, <1>3, <1>5, <1>6, <1>8 DEF DecodeC0
<1>10. DecodeC1(h, f) \in Operations
  <2>3. \A rd \in Regs, imm \in Int : Li(rd, imm) \in Operations /\ Jal(rd, imm) \in Operations
    BY <1>3, Constructed
  <2>1. DecodeAddi16spLui(h) \in Operations
    <3> DEFINE upper == Imm6(h) * 4096
    <3>1. upper \in Int
      BY <1>2
    <3> HIDE DEF upper
    <3>2. Li(Rd(h), upper) \in Operations
      BY <1>2, <2>3, <3>1, Zenon
    <3>3. AluImm("ADD", FALSE, 2, 2, Imm16SP(h)) \in Operations
      BY <1>2, <1>3, <1>5
    <3>4. /\ OrNop(Imm6(h), Li(Rd(h), upper)) \in Operations
          /\ OrNop(Imm16SP(h), AluImm("ADD", FALSE, 2, 2, Imm16SP(h))) \in Operations
      BY <1>7, <3>2, <3>3, Zenon
    <3>5. DecodeAddi16spLui(h) = IF Rd(h) = 2
                                 THEN OrNop(Imm16SP(h), AluImm("ADD", FALSE, 2, 2, Imm16SP(h)))
                                 ELSE OrNop(Imm6(h), Li(Rd(h), upper))
      BY DEF DecodeAddi16spLui, upper
    <3> QED
      BY <3>4, <3>5
  <2>2. DecodeCAlu(h) \in Operations
    <3> DEFINE kind == Concat(h, 11, 10, 0)
               w32 == Concat(h, 12, 12, 0) = 1
               funct2 == Concat(h, 6, 5, 0)
               alu(op) == Alu(op, w32, RdC(h), RdC(h), Rs2C(h))
    <3>1. ASSUME NEW op \in AluOps PROVE alu(op) \in Operations
      <4>1. w32 \in BOOLEAN
        OBVIOUS
      <4> QED
        BY <1>2, <1>4, <4>1, Zenon
    <3>2. alu("SUB") \in Operations /\ alu("ADD") \in Operations /\ alu("XOR") \in Operations
          /\ alu("OR") \in Operations /\ alu("AND") \in Operations
      <4> HIDE DEF alu
      <4> QED
        BY <1>3, <3>1
    <3>3. /\ OrNop(UImm6(h), AluImm("SRA", FALSE, RdC(h), RdC(h), UImm6(h))) \in Operations
          /\ OrNop(UImm6(h), AluImm("SRL", FALSE, RdC(h), RdC(h), UImm6(h))) \in Operations
          /\ AluImm("AND", FALSE, RdC(h), RdC(h), Imm6(h)) \in Operations
      BY <1>2, <1>3, <1>5, <1>7
    <3>4. DecodeCAlu(h) =
            CASE kind \in {0, 1} ->
                   OrNop(UImm6(h), AluImm(IF kind = 1 THEN "SRA" ELSE "SRL", FALSE,
                                          RdC(h), RdC(h), UImm6(h)))
              [] kind = 2 -> AluImm("AND", FALSE, RdC(h), RdC(h), Imm6(h))
              [] kind = 3 /\ funct2 = 0 -> alu("SUB")
              [] kind = 3 /\ funct2 = 1 -> alu(IF w32 THEN "ADD" ELSE "XOR")
              [] kind = 3 /\ funct2 > 1 /\ ~w32 -> alu(IF funct2 = 2 THEN "OR" ELSE "AND")
              [] OTHER -> Illegal
      BY DEF DecodeCAlu
    <3> HIDE DEF alu, kind, w32, funct2
    <3> QED
      BY <1>6, <3>2, <3>3, <3>4
  <2>4. Li(Rd(h), Imm6(h)) \in Operations /\ Jal(0, OffsetJ(h)) \in Operations
    BY <1>2, <1>3, <2>3
  <2>5. /\ Branch("EQ", RdC(h), 0, OffsetB(h)) \in Operations
        /\ Branch("NE", RdC(h), 0, OffsetB(h)) \in Operations
    <3>1. "EQ" \in Conds /\ "NE" \in Conds
      BY DEF Conds
    <3>2. 0 \in Regs /\ RdC(h) \in Regs /\ OffsetB(h) \in Int /\ OffsetB(h) % 2 = 0
      BY <1>2, <1>3
    <3>3. \A rs1 \in Regs, rs2 \in Regs, imm \in Int :
             imm % 2 = 0 => \A cond \in Conds : Branch(cond, rs1, rs2, imm) \in Operations
      BY <1>3, Constructed
    <3> QED
      BY <3>1, <3>2, <3>3, ZenonT(60)
  <2>6. f \in 0 .. 7
    BY <1>1 DEF Patterns16
  <2>7. /\ AluImm("ADD", FALSE, Rd(h), Rd(h), Imm6(h)) \in Operations
        /\ AluImm("ADD", TRUE, Rd(h), Rd(h), Imm6(h)) \in Operations
    BY <1>2, <1>3, <1>5
  <2>8. OrNop(Imm6(h), AluImm("ADD", FALSE, Rd(h), Rd(h), Imm6(h))) \in Operations
    BY <1>7, <2>7, Zenon
  <2> HIDE DEF f
  <2>9. f \in {0, 1, 2, 3, 4, 5, 6, 7}
    BY <2>6
  <2> QED
    BY <2>1, <2>2, <2>4, <2>5, <2>7, <2>8, <2>9 DEF DecodeC1
<1>11. DecodeC2(h, f) \in Operations
  <2>1. DecodeJrMvAdd(h) \in Operations
    <3>1. /\ Alu("ADD", FALSE, Rd(h), 0, Rs2(h)) \in Operations
          /\ Alu("ADD", FALSE, Rd(h), Rd(h), Rs2(h)) \in Operations
      BY <1>2, <1>3, <1>4
    <3>2. Jalr(0, Rd(h), 0, TRUE) \in Operations /\ Jalr(1, Rd(h), 0, TRUE) \in Operations
      BY <1>2, <1>3, Constructed
    <3> QED
      BY <1>6, <3>1, <3>2 DEF DecodeJrMvAdd
  <2>2. /\ Load(4, TRUE, Rd(h), 2, OffsetLWSP(h)) \in Operations
        /\ Load(8, TRUE, Rd(h), 2, OffsetLDSP(h)) \in Operations
    BY <1>2, <1>3, <1>8
  <2>3. /\ Concat(h, 12, 9, 2) + Concat(h, 8, 7, 6) \in Int
        /\ Concat(h, 12, 10, 3) + Concat(h, 9, 7, 6) \in Int
    <3>1. \A hi \in 0 .. 15, lo \in 0 .. 15, at \in 0 .. 15 :
             lo <= hi => Concat(h, hi, lo, at) \in Int
      BY <1>1, ConcatIsInt
    <3> QED
      BY <3>1
  <2>4. /\ Store(4, 2, Rs2(h), Concat(h, 12, 9, 2) + Concat(h, 8, 7, 6)) \in Operations
        /\ Store(8, 2, Rs2(h), Concat(h, 12, 10, 3) + Concat(h, 9, 7, 6)) \in Operations
    BY <1>2, <1>3, <1>8, <2>3
  <2>5. OrNop(UImm6(h), AluImm("SLL", FALSE, Rd(h), Rd(h), UImm6(h))) \in Operations
    BY <1>2, <1>3, <1>5, <1>7
  <2> HIDE DEF f
  <2> QED
    BY <1>6, <2>1, <2>2, <2>4, <2>5 DEF DecodeC2
<1> HIDE DEF f
<1>12. Decode16(h) = CASE h % 4 = 0 -> DecodeC0(h, f)
                       [] h % 4 = 1 -> DecodeC1(h, f)
                       [] h % 4 = 2 -> DecodeC2(h, f)
  BY DEF Decode16, f
<1> QED
  BY <1>1, <1>9, <1>10, <1>11, <1>12

LEMMA EveryOperation == ASSUME NEW ins \in Program PROVE Operation(ins) \in Operations
<1>1. CASE ins \in [half : Halfwords]
  <2>1. Compressed(ins) /\ ins.half \in Halfwords
    BY <1>1 DEF Compressed
  <2> QED
    BY <2>1, Decode16Ok DEF Operation
<1>2. CASE ins \in Instructions
  <2>1. ~Compressed(ins)
    BY <1>2 DEF Compressed, Instructions
  <2> QED
    BY <1>2, <2>1, Decode32Ok DEF Operation
<1> QED
  BY <1>1, <1>2, ProgramAssumption

-----------------------------------------------------------------------------
(* The arithmetic: every result fits its register *)

LEMMA Widths ==
  /\ XLEN \in Nat \ {0} /\ Half \in 1 .. XLEN /\ Half - 1 \in 0 .. XLEN
  /\ \A size \in {1, 2, 4, 8} : size * Byte \in 1 .. XLEN /\ (size * Byte) - 1 \in 0 .. XLEN
<1>1. XLEN \in {16, 32, 64}
  BY HartAssumption, XLENAssumption
<1> QED
  BY <1>1 DEF Half, Byte

LEMMA CutInValues ==
  ASSUME NEW v \in Int, NEW bits \in 1 .. XLEN
  PROVE  CutSigned(v, bits) \in Values
<1> DEFINE d == 2^bits
           e == 2^(bits - 1)
<1>1. d \in Nat \ {0} /\ e \in Nat
  <2>1. bits \in 0 .. XLEN /\ bits - 1 \in 0 .. XLEN
    BY XLENAssumption
  <2> QED
    BY <2>1, Powers
<1>2. CutSigned(v, bits) = Wrap(IF v % d >= e THEN (v % d) - d ELSE v % d)
  BY DEF CutSigned, Cut
<1> HIDE DEF d, e
<1>3. (IF v % d >= e THEN (v % d) - d ELSE v % d) \in Int
  BY <1>1
<1> QED
  BY <1>2, <1>3, WrapInValues

LEMMA Quotients ==
  ASSUME NEW a \in Int, NEW b \in Int, b # 0
  PROVE  Quotient(a, b) \in Int /\ Remainder(a, b) \in Int
<1>1. Abs(a) \in Int /\ Abs(b) \in Nat \ {0}
  BY DEF Abs
<1>2. Abs(a) \div Abs(b) \in Int
  BY <1>1, Division, Zenon
<1>3. Quotient(a, b) \in Int
  BY <1>2 DEF Quotient
<1> QED
  BY <1>3 DEF Remainder

\* The operand of a W form is zero when its lower half is: the guard of a
\* division is a test of the whole register, its divisor the lower half.
LEMMA LowerHalf ==
  ASSUME NEW v \in Values, CutSigned(v, Half) # 0
  PROVE  CutSigned(v, Half) % 2^Half # 0
<1> DEFINE d == 2^Half
           e == 2^(Half - 1)
           m == v % d
           c == IF m >= e THEN m - d ELSE m
<1>1. Half \in 0 .. XLEN /\ Half - 1 \in 0 .. XLEN /\ XLEN \in 0 .. XLEN
  BY Widths
<1>2. d \in Nat \ {0} /\ e \in Nat \ {0}
  BY <1>1, Powers
<1>3. PICK q \in Nat \ {0} : Word = d * q
  <2>1. \E q \in Nat \ {0} : 2^XLEN = 2^Half * q
    BY <1>1, PowerDivides
  <2> QED
    BY <2>1 DEF Word
<1>4. m \in 0 .. d - 1
  <2>1. v \in Int
    BY ValuesAreNumbers
  <2> QED
    BY <1>2, <2>1, Division, Zenon
<1>5. CutSigned(v, Half) = c % Word
  BY DEF CutSigned, Cut, Wrap
<1>6. d <= Word /\ Word \in Nat \ {0}
  <2>1. 2^Half <= 2^XLEN
    BY <1>1, PowersGrow
  <2> QED
    BY <2>1, WordRange DEF Word
<1> HIDE DEF d, e, m
<1>7. CASE m < e
  <2>1. c % Word = m
    BY <1>2, <1>4, <1>6, <1>7
  <2>2. m # 0 /\ m % d = m
    BY <1>2, <1>4, <1>5, <2>1
  <2> QED
    BY <1>5, <2>1, <2>2 DEF d
<1>8. CASE m >= e
  <2>1. c = m - d /\ m # 0
    BY <1>2, <1>4, <1>8
  <2>2. c % Word = (m - d) + Word
    BY <1>2, <1>4, <1>6, <2>1
  <2>3. (m - d) + Word = (d * (q - 1)) + m
    BY <1>2, <1>3, <1>4
  <2>4. (m - d) + Word \in Int /\ q - 1 \in Int
    BY <1>2, <1>4, <1>6
  <2>5. ((m - d) + Word) % d = m
    BY <1>2, <1>4, <2>3, <2>4, QuotientUnique, Zenon
  <2> QED
    BY <1>5, <2>1, <2>2, <2>5 DEF d
<1> QED
  BY <1>2, <1>4, <1>7, <1>8

LEMMA OperateIsInt ==
  ASSUME NEW a \in Values, NEW b \in Values, NEW op \in AluOps, NEW w32 \in BOOLEAN,
         w32 /\ b # 0 => b % 2^Half # 0
  PROVE  Operate(a, b, op, w32) \in Int
<1> DEFINE sa == Signed(a)
           sb == Signed(b)
           shift == b % (IF w32 THEN Half ELSE XLEN)
           ua == IF w32 THEN a % 2^Half ELSE a
           ub == IF w32 THEN b % 2^Half ELSE b
           d == 2^shift
           xor == ValueOf((BitsOf(a) \ BitsOf(b)) \cup (BitsOf(b) \ BitsOf(a)))
           or == ValueOf(BitsOf(a) \cup BitsOf(b))
           and == ValueOf(BitsOf(a) \cap BitsOf(b))
<1>1. a \in Nat /\ b \in Nat /\ sa \in Int /\ sb \in Int /\ Word \in Nat \ {0}
  <2>1. a \in Nat /\ b \in Nat /\ Word \in Nat \ {0}
    BY ValuesAreNumbers, WordRange
  <2> QED
    BY <2>1 DEF Signed
<1>2. ua \in Nat /\ ub \in Nat /\ (b # 0 => ub # 0)
  <2>1. 2^Half \in Nat \ {0}
    BY Widths, Powers
  <2> QED
    BY <1>1, <2>1
<1>3. b # 0 => sb # 0
  BY <1>1, WordRange DEF Signed
<1>4. d \in Nat \ {0}
  <2>1. shift \in 0 .. XLEN
    BY <1>1, Widths
  <2> HIDE DEF shift
  <2> QED
    BY <2>1, Powers
<1>5. xor \in Int /\ or \in Int /\ and \in Int
  <2>1. \A bits : ValueOf(bits) \in Int
    <3>1. \A bits : ValueOf(bits) \in Values
      BY ValueBits
    <3> QED
      BY <3>1, ValuesAreNumbers
  <2> QED
    BY <2>1
<1>6. \A n \in Int, m \in Nat \ {0} : n \div m \in Int /\ n % m \in Int /\ n * m \in Int
  OBVIOUS
<1>7. b # 0 => /\ Quotient(sa, sb) \in Int /\ Remainder(sa, sb) \in Int
               /\ ua \div ub \in Int /\ ua % ub \in Int
  <2>1. ASSUME b # 0
        PROVE  /\ Quotient(sa, sb) \in Int /\ Remainder(sa, sb) \in Int
               /\ ua \in Int /\ ub \in Nat \ {0}
    <3>1. sb # 0 /\ ua \in Int /\ ub \in Nat \ {0}
      BY <1>2, <1>3, <2>1
    <3> HIDE DEF sa, sb, ua, ub
    <3> QED
      BY <1>1, <3>1, Quotients
  <2> HIDE DEF sa, sb, ua, ub
  <2> QED
    BY <1>6, <2>1
<1>8. sa * sb \in Int /\ a * b \in Int /\ sa * b \in Int
  BY <1>1
<1>9. /\ sa * d \in Int /\ ua \div d \in Int /\ sa \div d \in Int
      /\ (sa * sb) \div Word \in Int /\ (a * b) \div Word \in Int /\ (sa * b) \div Word \in Int
  <2>1. ua \in Int
    BY <1>2
  <2> QED
    BY <1>1, <1>4, <1>6, <1>8, <2>1, Zenon
<1>10. -1 \in Int /\ 0 \in Int /\ 1 \in Int /\ sa + sb \in Int /\ sa - sb \in Int
  BY <1>1
<1>11. Operate(a, b, op, w32) =
         CASE op = "ADD" -> sa + sb
           [] op = "SUB" -> sa - sb
           [] op = "SLL" -> sa * d
           [] op = "SLT" -> IF sa < sb THEN 1 ELSE 0
           [] op = "SLTU" -> IF a < b THEN 1 ELSE 0
           [] op = "XOR" -> xor
           [] op = "SRL" -> ua \div d
           [] op = "SRA" -> sa \div d
           [] op = "OR" -> or
           [] op = "AND" -> and
           [] op = "MUL" -> sa * sb
           [] op = "MULH" -> (sa * sb) \div Word
           [] op = "MULHU" -> (a * b) \div Word
           [] op = "MULHSU" -> (sa * b) \div Word
           [] op = "DIV" -> IF b = 0 THEN -1
                            ELSE IF sa = -(2^(XLEN - 1)) /\ sb = -1 THEN sa ELSE Quotient(sa, sb)
           [] op = "DIVU" -> IF b = 0 THEN -1 ELSE ua \div ub
           [] op = "REM" -> IF b = 0 THEN sa
                            ELSE IF sa = -(2^(XLEN - 1)) /\ sb = -1 THEN 0 ELSE Remainder(sa, sb)
           [] op = "REMU" -> IF b = 0 THEN sa ELSE ua % ub
  BY DEF Operate
<1> DEFINE r == Operate(a, b, op, w32)
<1> HIDE DEF sa, sb, shift, ua, ub, d, xor, or, and
<1>12. CASE op \in {"ADD", "SUB", "SLL", "SLT", "SLTU", "XOR", "SRL", "SRA", "OR", "AND"}
  BY <1>1, <1>5, <1>9, <1>10, <1>11, <1>12
<1>13. CASE op \in {"MUL", "MULH", "MULHU", "MULHSU"}
  BY <1>8, <1>9, <1>11, <1>13
<1>14. CASE op \in {"DIV", "DIVU", "REM", "REMU"}
  BY <1>1, <1>7, <1>10, <1>11, <1>14
<1> QED
  BY <1>12, <1>13, <1>14 DEF AluOps

\* The result of an operation is a register value: alu_exec
LEMMA AluInValues ==
  ASSUME NEW a \in Values, NEW b \in Values, NEW op \in AluOps, NEW w32 \in BOOLEAN
  PROVE  alu_exec(a, b, op, w32) \in Values
<1>1. CASE w32
  <2> DEFINE x == CutSigned(a, Half)
             y == CutSigned(b, Half)
             n == Operate(x, y, op, TRUE)
  <2>1. x \in Values /\ y \in Values /\ (y # 0 => y % 2^Half # 0)
    <3>1. a \in Int /\ b \in Int
      BY ValuesAreNumbers
    <3> QED
      BY <3>1, Widths, CutInValues, LowerHalf
  <2>2. alu_exec(a, b, op, w32) = CutSigned(Wrap(n), Half)
    BY <1>1 DEF alu_exec
  <2>3. n \in Int
    <3> HIDE DEF x, y
    <3> QED
      BY <2>1, OperateIsInt
  <2> HIDE DEF n
  <2>4. Wrap(n) \in Int
    <3>1. Wrap(n) \in Values
      BY <2>3, WrapInValues
    <3> QED
      BY <3>1, ValuesAreNumbers
  <2> QED
    BY <2>2, <2>4, Widths, CutInValues
<1>2. CASE ~w32
  <2>1. Operate(a, b, op, FALSE) \in Int
    BY OperateIsInt
  <2> QED
    BY <1>2, <2>1, WrapInValues DEF alu_exec
<1> QED
  BY <1>1, <1>2

AmoSources == AmoOps \ {"LR", "SC"}

RegFiles == {g \in [Regs -> Values] : g[0] = 0}

LEMMA Write ==
  ASSUME gpr \in RegFiles, NEW r \in Regs, NEW v \in Values
  PROVE  setGPR(r, v) \in RegFiles
BY DEF setGPR, RegFiles, Regs

-----------------------------------------------------------------------------
(* What an operation and a trap are made of *)

LEMMA Fields ==
  ASSUME NEW op \in Operations
  PROVE  /\ op.k \in {"li", "auipc", "jal"} => op.rd \in Regs /\ op.imm \in Int
         /\ op.k = "alu" => /\ op.op \in AluOps /\ op.w32 \in BOOLEAN
                            /\ op.rd \in Regs /\ op.rs1 \in Regs /\ op.rs2 \in Regs
         /\ op.k = "aluimm" => /\ op.op \in AluOps /\ op.w32 \in BOOLEAN
                               /\ op.rd \in Regs /\ op.rs1 \in Regs /\ op.imm \in Int
         /\ op.k = "jalr" => /\ op.rd \in Regs /\ op.rs1 \in Regs /\ op.imm \in Int
                             /\ op.even \in BOOLEAN
         /\ op.k = "branch" => op.imm \in Even
         /\ op.k = "load" => /\ op.size \in {1, 2, 4, 8} /\ op.signed \in BOOLEAN
                             /\ op.rd \in Regs /\ op.rs1 \in Regs /\ op.imm \in Int
         /\ op.k = "store" => op.rs1 \in Regs /\ op.imm \in Int
         /\ op.k = "atomic" => op.size \in {4, 8} /\ op.rd \in Regs /\ op.rs1 \in Regs
         /\ op.k = "csr" => /\ op.f \in {"rw", "rs", "rc"} /\ op.imm \in BOOLEAN
                            /\ op.rd \in Regs /\ op.src \in Regs
BY DEF Operations

LEMMA TrapOk ==
  ASSUME NEW cause \in 0 .. 15
  PROVE  /\ \A tval \in Values : Trap(cause, tval) \in Traps
         /\ InterruptTrap(cause) \in Traps
<1>1. 0 \in Values
  BY WordRange
<1> QED
  BY <1>1 DEF Trap, InterruptTrap, Traps

\* The order of bits_to_int_type has all the interrupts of M.
LEMMA HighestIsOne ==
  ASSUME NEW bits \in SUBSET M_MODE_INT_MASK, bits # {}
  PROVE  Highest(bits) \in bits
<1> DEFINE order == <<11, 3, 7, 9, 1, 5>>
           place(n) == CHOOSE k \in 1 .. 6 : order[k] = n
<1>1. /\ place(11) = 1 /\ place(3) = 2 /\ place(7) = 3 /\ place(9) = 4 /\ place(1) = 5
      /\ place(5) = 6
  OBVIOUS
<1>2. Highest(bits) = CHOOSE i \in bits : \A j \in bits : place(i) <= place(j)
  BY DEF Highest
<1> HIDE DEF order, place
<1>3. \E i \in bits : \A j \in bits : place(i) <= place(j)
  <2>1. \A j \in bits : j \in {1, 3, 5, 7, 9, 11}
    BY DEF M_MODE_INT_MASK
  <2>2. CASE 11 \in bits
    BY <1>1, <2>1, <2>2
  <2>3. CASE 11 \notin bits /\ 3 \in bits
    BY <1>1, <2>1, <2>3
  <2>4. CASE 11 \notin bits /\ 3 \notin bits /\ 7 \in bits
    BY <1>1, <2>1, <2>4
  <2>5. CASE 11 \notin bits /\ 3 \notin bits /\ 7 \notin bits /\ 9 \in bits
    BY <1>1, <2>1, <2>5
  <2>6. CASE bits \subseteq {1, 5} /\ 1 \in bits
    BY <1>1, <2>6
  <2>7. CASE bits = {5}
    BY <1>1, <2>7
  <2> QED
    BY <2>1, <2>2, <2>3, <2>4, <2>5, <2>6, <2>7
<1> QED
  BY <1>2, <1>3

LEMMA DecisionIsInterrupt ==
  ASSUME NEW c, Decision(c) # NoInterrupt
  PROVE  Decision(c) \in 0 .. 15
<1> DEFINE bits == BitsOf(c["mip"]) \cap BitsOf(c["mie"]) \cap M_MODE_INT_MASK
           delegated == bits \cap BitsOf(c["mideleg"])
           machine == bits \ delegated
<1>1. Decision(c) \in {Highest(machine), Highest(bits), NoInterrupt}
  BY DEF Decision
<1>2. /\ Decision(c) = Highest(bits) \/ (Decision(c) = Highest(machine) /\ machine # {})
      /\ bits # {}
  BY DEF Decision
<1>3. bits \in SUBSET M_MODE_INT_MASK /\ machine \in SUBSET M_MODE_INT_MASK
  OBVIOUS
<1> HIDE DEF bits, machine
<1>4. Decision(c) \in M_MODE_INT_MASK
  BY <1>2, <1>3, HighestIsOne
<1> QED
  BY <1>4 DEF M_MODE_INT_MASK

LEMMA MemoryInValues ==
  ASSUME NEW bits \in 1 .. XLEN
  PROVE  MemoryWords(bits) \subseteq Values
<1>1. bits \in 0 .. XLEN /\ bits - 1 \in 0 .. XLEN - 1 /\ (bits - 1) + 1 = bits /\ XLEN \in 0 .. XLEN
      /\ bits - 1 \in 0 .. XLEN
  BY XLENAssumption
<1>2. 2^((bits - 1) + 1) = 2 * 2^(bits - 1)
  BY <1>1, PowersAssumption
<1>3. 2^(bits - 1) \in Nat \ {0} /\ 2^bits \in Nat \ {0} /\ 2^bits <= 2^XLEN
  BY <1>1, Powers, PowersGrow
<1> DEFINE d == 2^bits
           e == 2^(bits - 1)
<1>4. d = 2 * e /\ d \in Nat \ {0} /\ e \in Nat \ {0} /\ d <= Word
  BY <1>1, <1>2, <1>3 DEF Word
<1>5. MemoryWords(bits) = {0, e, d - 1}
  BY DEF MemoryWords
<1> HIDE DEF d, e
<1> QED
  BY <1>4, <1>5, WordRange

LEMMA HalfwordsAreNumbers == ASSUME NEW h \in Halfwords PROVE h \in Int
BY SMTT(30) DEF Halfwords

LEMMA RawInValues == ASSUME NEW ins \in Program PROVE Raw(ins) \in Values
<1>1. CASE ins \in [half : Halfwords]
  <2>1. Compressed(ins)
    BY <1>1 DEF Compressed
  <2>2. ins.half \in Int
    <3>1. ins.half \in Halfwords
      BY <1>1
    <3> QED
      BY <3>1, HalfwordsAreNumbers, Zenon
  <2>3. Raw(ins) = Wrap(ins.half)
    BY <2>1 DEF Raw
  <2> QED
    BY <2>2, <2>3, WrapInValues
<1>2. CASE ins \in Instructions
  <2> DEFINE n == ins.opcode + 128 * ins.rd + 4096 * ins.f3 + 32768 * ins.rs1
  <2>1. ~Compressed(ins)
    BY <1>2 DEF Compressed, Instructions
  <2>2. Raw(ins) = Wrap(n)
    BY <2>1 DEF Raw
  <2>3. ins.opcode \in Int /\ ins.rd \in Int /\ ins.f3 \in Int /\ ins.rs1 \in Int
    BY <1>2 DEF Instructions
  <2>4. n \in Int
    BY <2>3
  <2> HIDE DEF n
  <2> QED
    BY <2>2, <2>4, WrapInValues
<1> QED
  BY <1>1, <1>2, ProgramAssumption

-----------------------------------------------------------------------------
(* What each step comes to: a trap, a retirement, one after the write of a   *)
(* CSR, a return, or the end on an assertion.                                *)

Fit == gpr \in RegFiles /\ csr \in CsrFiles /\ pc \in Values /\ mode \in 0 .. 3

Trapped(W) == \E t \in Traps : EndInTrap(t, Cycle(W))

Retired(W) == \E g \in RegFiles, next \in Even : \E store : RetireStoring(g, next, Cycle(W), store)

Wrote(W) ==
    \E g \in RegFiles, next \in Even, n \in DOMAIN CsrNumber, v \in Values :
        /\ csr_op_permission_check(CsrNumber[n], mode, TRUE) /\ ~MtvecAsserts(n, v)
        /\ RetireStoring(g, next, csrWrite(n, Cycle(W), v), NoStore)

\* The fields of status an sret writes
Returning == Bits({"sie", "spie", "spp", "mprv"})

Returned(W) ==
    \E level \in 0 .. 3, status \in Values, target \in Values :
        /\ mode # M => /\ level \in {U, S}
                       /\ BitsOf(status) \ Returning = BitsOf(csr["status"]) \ Returning
        /\ ReturnTo(level, status, target, Cycle(W))

LEMMA InterruptTaken ==
  ASSUME NEW W, TakeInterrupt(W)
  PROVE  Trapped(W)
<1>1. Decision(Cycle(W)) \in 0 .. 15
  BY DecisionIsInterrupt DEF TakeInterrupt
<1>2. EndInTrap(InterruptTrap(Decision(Cycle(W))), Cycle(W))
  BY DEF TakeInterrupt
<1> QED
  BY <1>1, <1>2, TrapOk DEF Trapped

LEMMA TrapEnds ==
  ASSUME NEW W, NEW cause \in 0 .. 15, NEW tval \in Values, EndInTrap(Trap(cause, tval), Cycle(W))
  PROVE  Trapped(W)
<1>1. Trap(cause, tval) \in Traps
  BY TrapOk
<1> QED
  BY <1>1 DEF Trapped

LEMMA NextIsEven ==
  ASSUME pc \in Values, pc % 2 = 0, NEW ins
  PROVE  NextPC(ins) \in Even /\ NextPC(ins) \in Int
<1>1. pc \in Int
  BY ValuesAreNumbers
<1> QED
  BY <1>1 DEF NextPC, Length, Even

LEMMA Retires ==
  ASSUME NEW W, NEW g \in RegFiles, NEW next \in Even, Retire(g, next, Cycle(W))
  PROVE  Retired(W)
BY DEF Retire, Retired

LEMMA ComputeOk ==
  ASSUME Fit, pc % 2 = 0, NEW W, NEW ins \in Program, Compute(ins, W)
  PROVE  Retired(W)
<1> DEFINE op == Operation(ins)
<1>1. op \in Operations /\ op.k \in {"li", "auipc", "alu", "aluimm"}
  BY EveryOperation DEF Compute, Decodes
<1>2. gpr \in RegFiles /\ \A r \in Regs : gpr[r] \in Values
  BY DEF Fit, RegFiles
<1>3. Retire(setGPR(op.rd, ComputedBy(op)), NextPC(ins), Cycle(W))
  BY DEF Compute
<1>4. NextPC(ins) \in Even
  BY NextIsEven DEF Fit
<1> HIDE DEF op
<1>5. op.rd \in Regs
  BY <1>1, Fields
<1>6. ComputedBy(op) \in Values
  <2>1. CASE op.k \in {"li", "auipc"}
    <3>1. op.imm \in Int /\ pc \in Int
      BY <1>1, <2>1, Fields, ValuesAreNumbers DEF Fit
    <3>2. pc + op.imm \in Int
      BY <3>1
    <3>3. Wrap(op.imm) \in Values /\ Wrap(pc + op.imm) \in Values
      BY <3>1, <3>2, WrapInValues
    <3> QED
      BY <2>1, <3>3 DEF ComputedBy
  <2>2. CASE op.k = "alu"
    <3>1. op.op \in AluOps /\ op.w32 \in BOOLEAN /\ op.rs1 \in Regs /\ op.rs2 \in Regs
      BY <1>1, <2>2, Fields
    <3>2. alu_exec(gpr[op.rs1], gpr[op.rs2], op.op, op.w32) \in Values
      BY <1>2, <3>1, AluInValues
    <3> QED
      BY <2>2, <3>2 DEF ComputedBy
  <2>3. CASE op.k = "aluimm"
    <3>1. op.op \in AluOps /\ op.w32 \in BOOLEAN /\ op.rs1 \in Regs /\ op.imm \in Int
      BY <1>1, <2>3, Fields
    <3>2. Wrap(op.imm) \in Values
      BY <3>1, WrapInValues
    <3>3. alu_exec(gpr[op.rs1], Wrap(op.imm), op.op, op.w32) \in Values
      BY <1>2, <3>1, <3>2, AluInValues
    <3> QED
      BY <2>3, <3>3 DEF ComputedBy
  <2> QED
    BY <1>1, <2>1, <2>2, <2>3
<1>7. setGPR(op.rd, ComputedBy(op)) \in RegFiles
  BY <1>2, <1>5, <1>6, Write
<1> QED
  BY <1>3, <1>4, <1>7, Retires

LEMMA JumpOk ==
  ASSUME Fit, pc % 2 = 0, NEW W, NEW ins \in Program, Jump(ins, W)
  PROVE  Retired(W) \/ Trapped(W)
<1> DEFINE op == Operation(ins)
           link == setGPR(op.rd, Wrap(NextPC(ins)))
<1>1. op \in Operations /\ op.k \in {"jal", "jalr"}
  BY EveryOperation DEF Jump, Decodes
<1>2. \/ EndInTrap(Trap(0, Target(op)), Cycle(W))
      \/ Target(op) % 2 = 0 /\ Retire(link, Target(op), Cycle(W))
  BY DEF Jump
<1>3. NextPC(ins) \in Int
  BY NextIsEven DEF Fit
<1> HIDE DEF op
<1>4. Target(op) \in Values
  <2>1. CASE op.k = "jal"
    <3>1. pc + op.imm \in Int
      BY <1>1, <2>1, Fields, ValuesAreNumbers DEF Fit
    <3>2. Wrap(pc + op.imm) \in Values
      BY <3>1, WrapInValues
    <3> QED
      BY <2>1, <3>2 DEF Target
  <2>2. CASE op.k = "jalr"
    <3> DEFINE v == gpr[op.rs1]
    <3>1. op.rs1 \in Regs /\ op.imm \in Int /\ op.even \in BOOLEAN
      BY <1>1, <2>2, Fields
    <3>2. v \in Values
      BY <3>1 DEF Fit, RegFiles
    <3>3. Target(op) = IF op.even THEN v - (v % 2) ELSE Wrap(v + op.imm)
      BY <2>2, <3>1 DEF Target
    <3> HIDE DEF v
    <3>4. v - (v % 2) \in Values
      BY <3>2, WordRange
    <3>5. v + op.imm \in Int
      BY <3>1, <3>2, ValuesAreNumbers
    <3>6. Wrap(v + op.imm) \in Values
      BY <3>5, WrapInValues
    <3> QED
      BY <3>3, <3>4, <3>6
  <2> QED
    BY <1>1, <2>1, <2>2
<1>5. link \in RegFiles
  <2>1. op.rd \in Regs /\ gpr \in RegFiles
    BY <1>1, Fields DEF Fit
  <2>2. Wrap(NextPC(ins)) \in Values
    BY <1>3, WrapInValues
  <2> QED
    BY <2>1, <2>2, Write
<1>6. CASE EndInTrap(Trap(0, Target(op)), Cycle(W))
  BY <1>4, <1>6, TrapEnds
<1>7. CASE Target(op) % 2 = 0 /\ Retire(link, Target(op), Cycle(W))
  <2>1. Target(op) \in Even
    BY <1>4, <1>7, ValuesAreNumbers DEF Even
  <2> QED
    BY <1>5, <1>7, <2>1, Retires
<1> QED
  BY <1>2, <1>6, <1>7

LEMMA BranchOk ==
  ASSUME Fit, pc % 2 = 0, NEW W, NEW ins \in Program, TakeBranch(ins, W) \/ PassBranch(ins, W)
  PROVE  Retired(W)
<1> DEFINE op == Operation(ins)
<1>1. op \in Operations /\ op.k = "branch"
  BY EveryOperation DEF TakeBranch, PassBranch, Decodes
<1>2. Retire(gpr, pc + op.imm, Cycle(W)) \/ Retire(gpr, NextPC(ins), Cycle(W))
  BY DEF TakeBranch, PassBranch
<1>3. gpr \in RegFiles /\ pc \in Int /\ NextPC(ins) \in Even
  BY NextIsEven, ValuesAreNumbers DEF Fit
<1> HIDE DEF op
<1>4. op.imm \in Even
  BY <1>1, Fields
<1>5. pc + op.imm \in Even
  BY <1>3, <1>4 DEF Even
<1> QED
  BY <1>2, <1>3, <1>5, Retires

LEMMA FaultOk ==
  ASSUME NEW W, NEW op, NEW addr \in Values, NEW causes, NEW a \in 0 .. 15, NEW b \in 0 .. 15,
         NEW d \in 0 .. 15, causes = <<a, b, d>>, MemoryFault(op, addr, causes, W)
  PROVE  Trapped(W)
<1>1. causes[1] \in 0 .. 15 /\ causes[2] \in 0 .. 15 /\ causes[3] \in 0 .. 15
  OBVIOUS
<1>2. \E n \in {1, 2, 3} : EndInTrap(Trap(causes[n], addr), Cycle(W))
  BY DEF MemoryFault
<1> QED
  BY <1>1, <1>2, TrapEnds

\* The address of a load or a store
LEMMA AddressInValues ==
  ASSUME Fit, NEW op, op.rs1 \in Regs, op.imm \in Int
  PROVE  Wrap(gpr[op.rs1] + op.imm) \in Values
<1>1. gpr[op.rs1] \in Int
  BY ValuesAreNumbers DEF Fit, RegFiles
<1>2. gpr[op.rs1] + op.imm \in Int
  BY <1>1
<1> QED
  BY <1>2, WrapInValues

LEMMA LoadOk ==
  ASSUME Fit, pc % 2 = 0, NEW W, NEW ins \in Program, LoadMemory(ins, W)
  PROVE  Retired(W) \/ Trapped(W)
<1> DEFINE op == Operation(ins)
           addr == Wrap(gpr[op.rs1] + op.imm)
           bits == op.size * Byte
           value(v) == IF op.signed THEN CutSigned(v, bits) ELSE v
<1>1. op \in Operations /\ op.k = "load"
  BY EveryOperation DEF LoadMemory, Decodes
<1>2. \/ MemoryFault(op, addr, <<4, 5, 13>>, W)
      \/ \E v \in MemoryWords(bits) : Retire(setGPR(op.rd, value(v)), NextPC(ins), Cycle(W))
  BY DEF LoadMemory
<1>3. gpr \in RegFiles /\ NextPC(ins) \in Even
  BY NextIsEven DEF Fit
<1> HIDE DEF op
<1>4. op.size \in {1, 2, 4, 8} /\ op.rd \in Regs /\ op.rs1 \in Regs /\ op.imm \in Int
  BY <1>1, Fields
<1>5. addr \in Values
  BY <1>4, AddressInValues, ZenonT(30)
<1>6. bits \in 1 .. XLEN
  BY <1>4, Widths
<1> HIDE DEF addr, bits
<1>7. CASE MemoryFault(op, addr, <<4, 5, 13>>, W)
  <2>1. 4 \in 0 .. 15 /\ 5 \in 0 .. 15 /\ 13 \in 0 .. 15
    OBVIOUS
  <2> QED
    BY <1>5, <1>7, <2>1, FaultOk
<1>8. ASSUME NEW v \in MemoryWords(bits), Retire(setGPR(op.rd, value(v)), NextPC(ins), Cycle(W))
      PROVE  Retired(W)
  <2>1. v \in Values /\ v \in Int
    BY <1>6, MemoryInValues, ValuesAreNumbers
  <2>2. value(v) \in Values
    BY <1>6, <2>1, CutInValues
  <2>3. setGPR(op.rd, value(v)) \in RegFiles
    BY <1>3, <1>4, <2>2, Write
  <2> QED
    BY <1>3, <1>8, <2>3, Retires
<1> QED
  BY <1>2, <1>7, <1>8

LEMMA StoreOk ==
  ASSUME Fit, pc % 2 = 0, NEW W, NEW ins \in Program, StoreMemory(ins, W)
  PROVE  Retired(W) \/ Trapped(W)
<1> DEFINE op == Operation(ins)
           addr == Wrap(gpr[op.rs1] + op.imm)
<1>1. op \in Operations /\ op.k = "store"
  BY EveryOperation DEF StoreMemory, Decodes
<1>2. \/ MemoryFault(op, addr, <<6, 7, 15>>, W)
      \/ RetireStoring(gpr, NextPC(ins), Cycle(W), Written(op, addr, gpr[op.rs2]))
  BY DEF StoreMemory
<1>3. gpr \in RegFiles /\ NextPC(ins) \in Even
  BY NextIsEven DEF Fit
<1> HIDE DEF op
<1>4. addr \in Values
  <2>1. op.rs1 \in Regs /\ op.imm \in Int
    BY <1>1, Fields
  <2> QED
    BY <2>1, AddressInValues, ZenonT(30)
<1> HIDE DEF addr
<1>5. CASE MemoryFault(op, addr, <<6, 7, 15>>, W)
  <2>1. 6 \in 0 .. 15 /\ 7 \in 0 .. 15 /\ 15 \in 0 .. 15
    OBVIOUS
  <2> QED
    BY <1>4, <1>5, <2>1, FaultOk
<1> QED
  BY <1>2, <1>3, <1>5 DEF Retired

LEMMA AtomicOk ==
  ASSUME Fit, pc % 2 = 0, NEW W, NEW ins \in Program, AtomicMemory(ins, W)
  PROVE  Retired(W) \/ Trapped(W)
<1> DEFINE op == Operation(ins)
           addr == gpr[op.rs1]
           bits == op.size * Byte
           next == NextPC(ins)
<1>1. op \in Operations /\ op.k = "atomic"
  BY EveryOperation DEF AtomicMemory, Decodes
<1>2. \/ \E cause \in {6, 7, 15} : EndInTrap(Trap(cause, addr), Cycle(W))
      \/ \E v \in MemoryWords(bits) : \E store :
            RetireStoring(setGPR(op.rd, CutSigned(v, bits)), next, Cycle(W), store)
      \/ \E v \in {0, 1} : \E store : RetireStoring(setGPR(op.rd, v), next, Cycle(W), store)
  BY DEF AtomicMemory, Retire
<1>3. gpr \in RegFiles /\ next \in Even
  BY NextIsEven DEF Fit
<1> HIDE DEF op, next
<1>4. op.size \in {1, 2, 4, 8} /\ op.rd \in Regs /\ op.rs1 \in Regs
  BY <1>1, Fields
<1>5. addr \in Values
  BY <1>3, <1>4 DEF RegFiles
<1>6. bits \in 1 .. XLEN
  BY <1>4, Widths
<1>7. 0 \in Values /\ 1 \in Values
  BY HartAssumption, WordRange
<1> HIDE DEF addr, bits
<1>8. ASSUME NEW cause \in {6, 7, 15}, EndInTrap(Trap(cause, addr), Cycle(W)) PROVE Trapped(W)
  <2>1. cause \in 0 .. 15
    OBVIOUS
  <2> QED
    BY <1>5, <1>8, <2>1, TrapEnds
<1>9. ASSUME NEW v \in MemoryWords(bits) PROVE setGPR(op.rd, CutSigned(v, bits)) \in RegFiles
  <2>1. v \in Int
    BY <1>6, MemoryInValues, ValuesAreNumbers
  <2>2. CutSigned(v, bits) \in Values
    BY <1>6, <2>1, CutInValues
  <2> QED
    BY <1>3, <1>4, <2>2, Write
<1>10. ASSUME NEW v \in {0, 1} PROVE setGPR(op.rd, v) \in RegFiles
  BY <1>3, <1>4, <1>7, Write
<1> QED
  BY <1>2, <1>3, <1>8, <1>9, <1>10 DEF Retired

LEMMA IllegalOk ==
  ASSUME NEW W, NEW ins \in Program, IllegalInstruction(ins, W)
  PROVE  Trapped(W)
<1>1. Raw(ins) \in Values /\ 2 \in 0 .. 15
  BY RawInValues
<1> QED
  BY <1>1, TrapEnds DEF IllegalInstruction

LEMMA EnvironmentOk ==
  ASSUME Fit, NEW W, NEW ins, Environment(ins, W)
  PROVE  Trapped(W)
<1>1. 0 \in Values /\ mode + 8 \in 0 .. 15 /\ 3 \in 0 .. 15
  BY WordRange DEF Fit
<1>2. EndInTrap(Trap(mode + 8, 0), Cycle(W)) \/ EndInTrap(Trap(3, 0), Cycle(W))
  BY DEF Environment
<1> QED
  BY <1>1, <1>2, TrapEnds

LEMMA ReturnOk ==
  ASSUME Fit, NEW W \in SUBSET WiredPending, NEW ins \in Program, Return(ins, W)
  PROVE  Returned(W) \/ Trapped(W)
<1> DEFINE c == Cycle(W)
           v == c["status"]
<1>1. c \in CsrFiles /\ v = csr["status"]
  BY CycleFile DEF Fit, Registers
<1>2. v \in Values /\ c["mepc"] \in Values /\ c["sepc"] \in Values
  BY <1>1 DEF CsrFiles, Registers, Whole
<1>3. \/ IllegalInstruction(ins, W)
      \/ mode = M /\ ReturnTo(Get(v, "mpp"), AfterMret(v), c["mepc"], c)
      \/ ReturnTo(Get(v, "spp"), AfterSret(v), c["sepc"], c)
  BY DEF Return
<1>4. AfterMret(v) \in Values
  BY PutBits DEF AfterMret
<1>5. AfterSret(v) \in Values /\ BitsOf(AfterSret(v)) \ Returning = BitsOf(v) \ Returning
  <2> DEFINE a == Put(v, "sie", Get(v, "spie"))
             b == Put(a, "spie", 1)
             d == Put(b, "mprv", 0)
             w == Put(d, "spp", U)
  <2>1. /\ BitsOf(a) \ Field["sie"] = BitsOf(v) \ Field["sie"]
        /\ BitsOf(b) \ Field["spie"] = BitsOf(a) \ Field["spie"]
        /\ BitsOf(d) \ Field["mprv"] = BitsOf(b) \ Field["mprv"]
        /\ BitsOf(w) \ Field["spp"] = BitsOf(d) \ Field["spp"]
        /\ w \in Values
    BY PutBits
  <2>2. AfterSret(v) = w
    BY DEF AfterSret
  <2>3. Returning = Field["sie"] \cup Field["spie"] \cup Field["spp"] \cup Field["mprv"]
    BY DEF Returning, Bits
  <2> HIDE DEF a, b, d, w, v
  <2> QED
    BY <2>1, <2>2, <2>3
<1>6. Get(v, "mpp") \in 0 .. 3 /\ Get(v, "spp") \in {U, S} /\ Get(v, "spp") \in 0 .. 3
  BY <1>2, ModeField DEF U, S
<1> HIDE DEF c, v
<1>7. CASE IllegalInstruction(ins, W)
  BY <1>7, IllegalOk
<1>8. CASE mode = M /\ ReturnTo(Get(v, "mpp"), AfterMret(v), c["mepc"], c)
  BY <1>2, <1>4, <1>6, <1>8 DEF Returned, c
<1>9. CASE ReturnTo(Get(v, "spp"), AfterSret(v), c["sepc"], c)
  BY <1>1, <1>2, <1>5, <1>6, <1>9 DEF Returned, c
<1> QED
  BY <1>3, <1>7, <1>8, <1>9

LEMMA FenceOk ==
  ASSUME Fit, pc % 2 = 0, NEW W, NEW ins \in Program, FenceTLB(ins, W)
  PROVE  Retired(W) \/ Trapped(W)
<1>1. IllegalInstruction(ins, W) \/ Retire(gpr, NextPC(ins), Cycle(W))
  BY DEF FenceTLB
<1>2. gpr \in RegFiles /\ NextPC(ins) \in Even
  BY NextIsEven DEF Fit
<1> QED
  BY <1>1, <1>2, IllegalOk, Retires

\* A CSR instruction that writes has passed the checks for writing.
LEMMA AccessOk ==
  ASSUME Fit, pc % 2 = 0, NEW W \in SUBSET WiredPending, NEW ins \in Program, AccessCsr(ins, W)
  PROVE  Retired(W) \/ Wrote(W) \/ Trapped(W) \/ Abort
<1> DEFINE op == Operation(ins)
           c == Cycle(W)
           t(n) == csrRead(n, c)
           v(n) == NewValue(op, t(n))
           g(n) == setGPR(op.rd, t(n))
<1>1. op \in Operations /\ op.k = "csr"
  BY EveryOperation DEF AccessCsr, Decodes
<1>2. \/ IllegalInstruction(ins, W)
      \/ \E n \in Accessible(op, c) :
            \/ Retire(g(n), NextPC(ins), c)
            \/ /\ Writes(op) /\ ~MtvecAsserts(n, v(n))
               /\ Retire(g(n), NextPC(ins), csrWrite(n, c, v(n)))
            \/ Abort
  BY DEF AccessCsr
<1>3. gpr \in RegFiles /\ NextPC(ins) \in Even /\ c \in CsrFiles
  BY NextIsEven, CycleFile DEF Fit
<1> HIDE DEF op
<1>4. op.f \in {"rw", "rs", "rc"} /\ op.imm \in BOOLEAN /\ op.rd \in Regs /\ op.src \in Regs
  BY <1>1, Fields
<1> HIDE DEF c
<1>5. ASSUME NEW n \in Accessible(op, c)
      PROVE  /\ n \in DOMAIN CsrNumber /\ Readable(n, c, mode)
             /\ Writes(op) => csr_op_permission_check(CsrNumber[n], mode, TRUE)
  BY DEF Accessible
<1>6. ASSUME NEW n \in Accessible(op, c) PROVE g(n) \in RegFiles /\ v(n) \in Values
  <2>1. t(n) \in Values
    BY <1>3, <1>5, ReadValue
  <2>2. g(n) \in RegFiles
    BY <1>3, <1>4, <2>1, Write
  <2>3. op.src \in Values /\ gpr[op.src] \in Values
    <3>1. Regs \subseteq Values
      <4>1. 5 \in 0 .. XLEN /\ 2^5 = 32 /\ XLEN - 1 \in 0 .. XLEN /\ XLEN \in 0 .. XLEN
        BY HartAssumption, XLENAssumption
      <4>2. 5 \in 0 .. XLEN - 1 /\ 5 \in 0 .. XLEN
        BY HartAssumption, XLENAssumption
      <4>3. 2^5 <= 2^XLEN
        BY <4>1, <4>2, PowersGrow
      <4>4. 32 <= Word
        BY <4>1, <4>3 DEF Word
      <4>5. \A r \in 0 .. 31 : r \in 0 .. Word - 1
        BY <4>4, WordRange
      <4> QED
        BY <4>5, WordRange DEF Regs
    <3> QED
      BY <1>3, <1>4, <3>1 DEF RegFiles
  <2> HIDE DEF t
  <2>4. \A bits : ValueOf(bits) \in Values
    BY ValueBits
  <2>5. v(n) \in Values
    BY <1>4, <2>3, <2>4 DEF NewValue
  <2> QED
    BY <2>2, <2>5
<1> HIDE DEF g, v
<1>7. ASSUME NEW n \in Accessible(op, c), Retire(g(n), NextPC(ins), c) PROVE Retired(W)
  BY <1>3, <1>6, <1>7, Retires DEF c
<1>8. ASSUME NEW n \in Accessible(op, c), Writes(op), ~MtvecAsserts(n, v(n)),
             Retire(g(n), NextPC(ins), csrWrite(n, c, v(n)))
      PROVE  Wrote(W)
  BY <1>3, <1>5, <1>6, <1>8 DEF Wrote, Retire, c
<1> QED
  BY <1>2, <1>7, <1>8, IllegalOk

LEMMA InstructionOk ==
  ASSUME Fit, NEW W \in SUBSET WiredPending, Instruction(W)
  PROVE  \/ Retired(W) \/ Wrote(W) \/ Returned(W) \/ Trapped(W)
         \/ Abort /\ pc % 2 = 0
<1>1. pc % 2 = 0 /\ \E ins \in Program : Execute(ins, W)
  BY DEF Instruction
<1>2. ASSUME NEW ins \in Program, Execute(ins, W)
      PROVE  Retired(W) \/ Wrote(W) \/ Returned(W) \/ Trapped(W) \/ Abort
  <2>1. CASE Compute(ins, W)
    BY <1>1, <2>1, ComputeOk
  <2>2. CASE DoNothing(ins, W)
    <3>1. Retire(gpr, NextPC(ins), Cycle(W)) /\ gpr \in RegFiles /\ NextPC(ins) \in Even
      BY <1>1, <2>2, NextIsEven DEF DoNothing, Fit
    <3> QED
      BY <3>1, Retires
  <2>3. CASE Jump(ins, W)
    BY <1>1, <2>3, JumpOk
  <2>4. CASE TakeBranch(ins, W) \/ PassBranch(ins, W)
    BY <1>1, <2>4, BranchOk
  <2>5. CASE LoadMemory(ins, W)
    BY <1>1, <2>5, LoadOk
  <2>6. CASE StoreMemory(ins, W)
    BY <1>1, <2>6, StoreOk
  <2>7. CASE AtomicMemory(ins, W)
    BY <1>1, <2>7, AtomicOk
  <2>8. CASE Environment(ins, W)
    BY <2>8, EnvironmentOk
  <2>9. CASE Return(ins, W)
    BY <2>9, ReturnOk
  <2>10. CASE FenceTLB(ins, W)
    BY <1>1, <2>10, FenceOk
  <2>11. CASE AccessCsr(ins, W)
    BY <1>1, <2>11, AccessOk
  <2>12. CASE Undefined(ins, W)
    BY <2>12, IllegalOk DEF Undefined
  <2> QED
    BY <1>2, <2>1, <2>2, <2>3, <2>4, <2>5, <2>6, <2>7, <2>8, <2>9, <2>10, <2>11, <2>12 DEF Execute
<1> QED
  BY <1>1, <1>2

\* Every step of the hart is one of five kinds.
LEMMA StepOk ==
  ASSUME Fit, Next
  PROVE  \E W \in SUBSET WiredPending :
            \/ Retired(W) \/ Wrote(W) \/ Returned(W) \/ Trapped(W)
            \/ Abort /\ pc % 2 = 0
<1>1. PICK W \in SUBSET WiredPending :
         TakeInterrupt(W) \/ MisalignedPC(W) \/ FetchFault(W) \/ Instruction(W)
  BY HartAssumption DEF Next
<1>2. CASE TakeInterrupt(W)
  BY <1>2, InterruptTaken
<1>3. CASE MisalignedPC(W)
  <2>1. pc \in Values /\ 0 \in 0 .. 15 /\ EndInTrap(Trap(0, pc), Cycle(W))
    BY <1>3 DEF Fit, MisalignedPC
  <2> QED
    BY <2>1, TrapEnds
<1>4. CASE FetchFault(W)
  <2>1. pc \in Values /\ 1 \in 0 .. 15 /\ 12 \in 0 .. 15
    BY DEF Fit
  <2>2. \/ EndInTrap(Trap(1, pc), Cycle(W)) \/ EndInTrap(Trap(12, pc), Cycle(W))
        \/ Abort /\ pc % 2 = 0
    BY <1>4 DEF FetchFault
  <2> QED
    BY <2>1, <2>2, TrapEnds
<1>5. CASE Instruction(W)
  BY <1>5, InstructionOk
<1> QED
  BY <1>1, <1>2, <1>3, <1>4, <1>5

LEMMA NextRuns == Next => Running
BY DEF Next, TakeInterrupt, MisalignedPC, FetchFault, Instruction, Quiet

-----------------------------------------------------------------------------
(* The inductive invariant *)

IInv == TypeOK /\ OddOnlyByReturn

LEMMA TypeIsFit == TypeOK => Fit
BY DEF TypeOK, Fit, RegFiles, CsrFiles

LEMMA InitIInv == Init => IInv
<1> SUFFICES ASSUME Init PROVE IInv
  OBVIOUS
<1>1. PICK s \in Start : gpr = s.gpr /\ pc = s.pc /\ mode = s.mode /\ csr = s.csr
  BY DEF Init
<1>2. ended = "start" /\ steps = 0
  BY DEF Init
<1>3. /\ s.gpr \in [Regs -> Values] /\ s.gpr[0] = 0
      /\ s.pc \in Values /\ s.pc % 2 = 0 /\ s.mode \in {U, S, M}
      /\ s.csr \in [Registers -> Values] /\ Corrected(s.csr)
  BY StartAssumption
<1>4. mode \in 0 .. 3 /\ steps \in 0 .. MaxSteps
  BY <1>1, <1>2, <1>3, HartAssumption DEF U, S, M
<1>5. gpr \in [Regs -> Values] /\ gpr[0] = 0 /\ pc \in Values /\ pc % 2 = 0
      /\ csr \in [Registers -> Values] /\ Corrected(csr)
  BY <1>1, <1>3
<1> QED
  BY <1>2, <1>4, <1>5 DEF IInv, TypeOK, OddOnlyByReturn

LEMMA NextIInv == IInv /\ [Next]_vars => IInv'
<1> SUFFICES ASSUME IInv, [Next]_vars PROVE IInv'
  OBVIOUS
<1>1. TypeOK /\ Fit /\ OddOnlyByReturn
  BY TypeIsFit DEF IInv
<1>2. gpr \in RegFiles /\ csr \in CsrFiles /\ pc \in Values /\ mode \in 0 .. 3
  BY <1>1 DEF Fit
<1> DEFINE Fits == /\ gpr' \in RegFiles /\ csr' \in CsrFiles /\ pc' \in Values /\ mode' \in 0 .. 3
                   /\ ended' \in {"trap", "retired", "returned", "aborted"}
                   /\ steps' = steps + 1
                   /\ pc' % 2 = 0 \/ ended' = "returned"
<1>3. CASE Next
  <2>1. PICK W \in SUBSET WiredPending :
            \/ Retired(W) \/ Wrote(W) \/ Returned(W) \/ Trapped(W)
            \/ Abort /\ pc % 2 = 0
    BY <1>1, <1>3, StepOk
  <2>2. Cycle(W) \in CsrFiles
    BY <1>2, CycleFile
  <2>3. ASSUME NEW c \in CsrFiles, NEW g \in RegFiles, NEW next \in Even, NEW store,
               RetireStoring(g, next, c, store)
        PROVE  Fits
    <3>1. "minstret" \in Free /\ c["minstret"] \in Values
      BY DEF Free, Registers, Whole, CsrFiles
    <3>2. c["minstret"] + 1 \in Int
      <4>1. c["minstret"] \in Int
        BY <3>1, ValuesAreNumbers
      <4> QED
        BY <4>1
    <3>3. Wrap(c["minstret"] + 1) \in Values
      BY <3>2, WrapInValues
    <3>4. [c EXCEPT !["minstret"] = Wrap(c["minstret"] + 1)] \in CsrFiles
      BY <3>1, <3>3, UpdateFree
    <3>5. next \in Int /\ next % 2 = 0
      BY DEF Even
    <3>6. Wrap(next) \in Values /\ Wrap(next) % 2 = 0
      BY <3>5, WrapInValues, WrapEven
    <3> QED
      BY <1>2, <2>3, <3>4, <3>6 DEF RetireStoring
  <2>4. ASSUME Retired(W) PROVE Fits
    BY <2>2, <2>3, <2>4 DEF Retired
  <2>5. ASSUME Wrote(W) PROVE Fits
    BY <2>2, <2>3, <2>5, WriteFile DEF Wrote
  <2>6. ASSUME Returned(W) PROVE Fits
    <3>1. PICK level \in 0 .. 3, status \in Values, target \in Values :
              ReturnTo(level, status, target, Cycle(W))
      BY <2>6 DEF Returned
    <3>2. [Cycle(W) EXCEPT !["status"] = status] \in CsrFiles
      BY <2>2, UpdateFree DEF Free, Registers
    <3> QED
      BY <1>2, <3>1, <3>2 DEF ReturnTo
  <2>7. ASSUME Trapped(W) PROVE Fits
    <3>1. PICK t \in Traps : EndInTrap(t, Cycle(W))
      BY <2>7 DEF Trapped
    <3>2. TrapPC(t, Cycle(W), mode) \in Values /\ TrapPC(t, Cycle(W), mode) % 2 = 0
      BY <2>2, TrapTarget
    <3>3. /\ Destination(t, Cycle(W), mode) \in {S, M}
          /\ AfterTrap(t, Cycle(W), mode, pc) \in CsrFiles
      BY <1>2, <2>2, TrapFile
    <3>4. S \in 0 .. 3 /\ M \in 0 .. 3
      BY DEF S, M
    <3> QED
      BY <1>2, <3>1, <3>2, <3>3, <3>4 DEF EndInTrap
  <2>8. ASSUME Abort /\ pc % 2 = 0 PROVE Fits
    BY <1>2, <2>8 DEF Abort
  <2>9. Fits
    BY <2>1, <2>4, <2>5, <2>6, <2>7, <2>8
  <2>10. steps' \in 0 .. MaxSteps
    BY <1>1, <1>3, <2>9, NextRuns, HartAssumption DEF TypeOK, Running
  <2>11. TypeOK'
    BY <2>9, <2>10 DEF TypeOK, RegFiles, CsrFiles
  <2>12. OddOnlyByReturn'
    BY <2>9 DEF OddOnlyByReturn
  <2> QED
    BY <2>11, <2>12 DEF IInv
<1>4. CASE UNCHANGED vars
  BY <1>1, <1>4 DEF IInv, TypeOK, OddOnlyByReturn, vars, Corrected
<1> QED
  BY <1>3, <1>4

\* Through every instruction, interrupt and fault, the hart keeps its state in
\* shape: the registers of setGPR and csrWrite are words, x0 is zero, and a CSR
\* with a mask holds nothing outside it, whatever a guest writes.
THEOREM TypeCorrect == Spec => []TypeOK
<1>1. IInv => TypeOK
  BY DEF IInv
<1> QED
  BY <1>1, InitIInv, NextIInv, PTL DEF Spec

\* A program counter is odd after mret or sret only: jumps test their targets,
\* and raiseTrap takes the mode off a vector.
THEOREM OnlyReturnsAreOdd == Spec => []OddOnlyByReturn
<1>1. IInv => OddOnlyByReturn
  BY DEF IInv
<1> QED
  BY <1>1, InitIInv, NextIInv, PTL DEF Spec

-----------------------------------------------------------------------------
(* Saving and restoring a CSR *)

LEMMA MergeSame ==
  ASSUME NEW v \in Values, NEW w, NEW mask, BitsOf(w) \cap mask = BitsOf(v) \cap mask
  PROVE  Merge(v, w, mask) = v
<1>1. (BitsOf(v) \ mask) \cup (BitsOf(w) \cap mask) = BitsOf(v)
  OBVIOUS
<1> QED
  BY <1>1, BitsValue DEF Merge

LEMMA MaskedSame ==
  ASSUME NEW v \in Values, NEW mask, BitsOf(v) \subseteq mask
  PROVE  Masked(v, mask) = v
<1>1. BitsOf(v) \cap mask = BitsOf(v)
  OBVIOUS
<1> QED
  BY <1>1, BitsValue DEF Masked

LEMMA RestoreOk ==
  ASSUME NEW c \in CsrFiles, NEW n \in DOMAIN CsrNumber, NEW m,
         Readable(n, c, m), Writable(n, c, m)
  PROVE  csrWrite(n, c, csrRead(n, c)) = c
<1>1. c \in [Registers -> Values] /\ Corrected(c)
  BY DEF CsrFiles
<1>2. \A r \in Registers : c[r] \in Values /\ [c EXCEPT ![r] = c[r]] = c
  BY <1>1
<1>3. CASE n \in {"mstatus", "sstatus"}
  <2> DEFINE v == c["status"]
  <2>1. v \in Values /\ [c EXCEPT !["status"] = v] = c
    BY <1>2 DEF Registers
  <2>2. Bits(SStatusWrites) \subseteq Bits(SStatusFields)
    BY DEF Bits, SStatusWrites, SStatusFields
  <2>3. BitsOf(Masked(v, Bits(SStatusFields))) \cap Bits(SStatusWrites)
           = BitsOf(v) \cap Bits(SStatusWrites)
    BY <2>2, MaskedBits
  <2> HIDE DEF v
  <2>4. /\ Merge(v, v, Bits(MStatusWrites)) = v
        /\ Merge(v, Masked(v, Bits(SStatusFields)), Bits(SStatusWrites)) = v
    BY <2>1, <2>3, MergeSame
  <2>5. CASE n = "mstatus"
    <3>1. csrRead(n, c) = v /\ csrWrite(n, c, v) = [c EXCEPT !["status"] = Merge(v, v, Bits(MStatusWrites))]
      BY <2>5 DEF csrRead, csrWrite, v, Whole
    <3> QED
      BY <2>1, <2>4, <3>1
  <2>6. CASE n = "sstatus"
    <3> DEFINE w == Masked(v, Bits(SStatusFields))
    <3>1. csrRead(n, c) = w /\ csrWrite(n, c, w) = [c EXCEPT !["status"] = Merge(v, w, Bits(SStatusWrites))]
      BY <2>6 DEF csrRead, csrWrite, v, Whole
    <3> QED
      BY <2>1, <2>4, <3>1
  <2> QED
    BY <1>3, <2>5, <2>6
<1>4. CASE n \in {"sie", "sip"}
  <2> DEFINE r == IF n = "sie" THEN "mie" ELSE "mip"
             v == c[r]
             w == Masked(v, S_MODE_INT_MASK)
  <2>1. v \in Values /\ [c EXCEPT ![r] = v] = c
    BY <1>2 DEF Registers, Whole
  <2>2. BitsOf(w) \cap S_MODE_INT_MASK = BitsOf(v) \cap S_MODE_INT_MASK
    BY MaskedBits
  <2>3. csrRead(n, c) = w
    BY <1>4 DEF csrRead, Whole
  <2>4. csrWrite(n, c, w) = [c EXCEPT ![r] = Merge(v, w, S_MODE_INT_MASK)]
    <3> HIDE DEF w
    <3> QED
      BY <1>4 DEF csrWrite
  <2> HIDE DEF v, w, r
  <2>5. Merge(v, w, S_MODE_INT_MASK) = v
    BY <2>1, <2>2, MergeSame
  <2> QED
    BY <2>1, <2>3, <2>4, <2>5
<1>5. CASE n \in {"medeleg", "mideleg", "mie", "mip", "mcounteren", "scounteren"}
  <2>1. n \in Registers /\ csrRead(n, c) = c[n]
    BY <1>5 DEF csrRead, Registers, Whole
  <2>2. /\ n = "medeleg" => Masked(c[n], S_MODE_EXC_MASK) = c[n]
        /\ n = "mideleg" => Masked(c[n], S_MODE_INT_MASK) = c[n]
        /\ n \in {"mie", "mip"} => Masked(c[n], M_MODE_INT_MASK) = c[n]
        /\ n \in {"mcounteren", "scounteren"} => Masked(c[n], COUNTER_MASK) = c[n]
    BY <1>1, <1>2, <2>1, MaskedSame DEF Corrected
  <2>3. \E mask : /\ csrWrite(n, c, c[n]) = [c EXCEPT ![n] = Masked(c[n], mask)]
                  /\ Masked(c[n], mask) = c[n]
    <3>1. CASE n = "medeleg"
      BY <2>2, <3>1 DEF csrWrite
    <3>2. CASE n = "mideleg"
      BY <2>2, <3>2 DEF csrWrite
    <3>3. CASE n \in {"mie", "mip"}
      BY <2>2, <3>3 DEF csrWrite
    <3>4. CASE n \in {"mcounteren", "scounteren"}
      BY <2>2, <3>4 DEF csrWrite
    <3> QED
      BY <1>5, <3>1, <3>2, <3>3, <3>4
  <2> QED
    BY <1>2, <2>1, <2>3
<1>6. CASE n = "stvec"
  <2>1. csrRead(n, c) = c["stvec"] /\ c["stvec"] \in Int /\ c["stvec"] % 4 <= 1
    BY <1>1, <1>2, <1>6, ValuesAreNumbers DEF csrRead, Corrected, Registers, Whole
  <2>2. ~(c["stvec"] % 4 > 1)
    BY <2>1
  <2>3. csrWrite(n, c, c["stvec"]) = [c EXCEPT !["stvec"] = c["stvec"]]
    BY <1>6, <2>2 DEF csrWrite
  <2> QED
    BY <1>2, <2>1, <2>3 DEF Registers, Whole
<1>7. CASE n = "satp"
  <2>1. csrRead(n, c) = c["satp"] /\ c["satp"] \div 2^(XLEN - 4) \in {0, 8}
    BY <1>1, <1>7 DEF csrRead, Corrected, Whole
  <2>2. csrWrite(n, c, c["satp"]) = [c EXCEPT !["satp"] = c["satp"]]
    BY <1>7, <2>1 DEF csrWrite
  <2> QED
    BY <1>2, <2>1, <2>2 DEF Registers, Whole
<1>8. CASE n \in {"mtvec", "mscratch", "mepc", "mcause", "mtval", "mcycle", "sscratch", "sepc",
                  "scause", "stval"}
  <2>1. n \in Registers /\ csrRead(n, c) = c[n]
    BY <1>8 DEF csrRead, Registers, Whole
  <2>2. csrWrite(n, c, c[n]) = [c EXCEPT ![n] = c[n]]
    BY <1>8 DEF csrWrite
  <2> QED
    BY <1>2, <2>1, <2>2
<1>9. CASE n \in {"misa", "tselect", "tdata1", "time"}
  BY <1>9 DEF csrWrite
<1>10. n \notin {"instret", "pmpcfg0", "mhartid", "minstret", "cycle"}
  BY DEF Writable
<1> QED
  BY <1>3, <1>4, <1>5, <1>6, <1>7, <1>8, <1>9, <1>10 DEF CsrNumber

\* To write back what was read from a CSR changes nothing, in every state: the
\* masks and corrections of csrWrite and the views of sstatus, sie and sip
\* lose no bit that csrRead shows.
THEOREM RestoredWhole == Spec => []SaveRestore
<1>1. IInv => SaveRestore
  <2> SUFFICES ASSUME IInv PROVE SaveRestore
    OBVIOUS
  <2>1. csr \in CsrFiles
    BY TypeIsFit DEF IInv, Fit
  <2> QED
    BY <2>1, RestoreOk DEF SaveRestore
<1> QED
  BY <1>1, InitIInv, NextIInv, PTL DEF Spec

-----------------------------------------------------------------------------
(* Traps are precise *)

LEMMA TrapIsPrecise ==
  ASSUME Fit, NEW W \in SUBSET WiredPending, Trapped(W)
  PROVE  /\ gpr' = gpr /\ stored' = NoStore
         /\ mode' \in {S, M}
         /\ csr'[IF mode' = S THEN "sepc" ELSE "mepc"] = pc
         /\ \A n \in Registers \ (TrapRegisters(mode') \cup {"status", "mcycle", "mip"}) :
               csr'[n] = csr[n]
         /\ BitsOf(csr'["status"]) \ Bits(TrapFields(mode'))
               = BitsOf(csr["status"]) \ Bits(TrapFields(mode'))
<1> DEFINE c == Cycle(W)
<1>1. PICK t \in Traps : EndInTrap(t, c)
  BY DEF Trapped
<1>2. /\ c \in CsrFiles /\ pc \in Values
      /\ \A n \in Registers \ {"mcycle", "mip"} : c[n] = csr[n]
  BY CycleFile DEF Fit
<1> HIDE DEF c
<1> DEFINE d == Destination(t, c, mode)
           after == AfterTrap(t, c, mode, pc)
<1>3. /\ d \in {S, M}
      /\ after[IF d = S THEN "sepc" ELSE "mepc"] = pc
      /\ \A n \in Registers \ (TrapRegisters(d) \cup {"status"}) : after[n] = c[n]
      /\ BitsOf(after["status"]) \ Bits(TrapFields(d)) = BitsOf(c["status"]) \ Bits(TrapFields(d))
  BY <1>2, TrapFile
<1>4. csr' = after /\ mode' = d /\ gpr' = gpr /\ stored' = NoStore
  BY <1>1 DEF EndInTrap
<1>5. c["status"] = csr["status"]
  BY <1>2 DEF Registers
<1> HIDE DEF after, d
<1> QED
  BY <1>2, <1>3, <1>4, <1>5

\* Whatever raises a trap, and however far its instruction had come, the trap
\* leaves the general registers, memory and the CSRs of the other level alone,
\* and saves the program counter of that instruction.
THEOREM TrapsArePrecise == Spec => PreciseTrap
<1> DEFINE P == /\ gpr' = gpr /\ stored' = NoStore
                /\ mode' \in {S, M}
                /\ csr'[IF mode' = S THEN "sepc" ELSE "mepc"] = pc
                /\ csr'["minstret"] = csr["minstret"]
                /\ \A n \in Registers \ (TrapRegisters(mode') \cup {"status", "mcycle", "mip"}) :
                      csr'[n] = csr[n]
                /\ Merge(csr'["status"], csr["status"], Bits(TrapFields(mode'))) = csr["status"]
<1>1. IInv /\ [Next]_vars => [ended' = "trap" => P]_vars
  <2> SUFFICES ASSUME IInv, Next, ended' = "trap" PROVE P
    OBVIOUS
  <2>1. Fit
    BY TypeIsFit DEF IInv
  <2>2. PICK W \in SUBSET WiredPending :
            \/ Retired(W) \/ Wrote(W) \/ Returned(W) \/ Trapped(W)
            \/ Abort /\ pc % 2 = 0
    BY <2>1, StepOk
  <2>3. Trapped(W)
    BY <2>2 DEF Retired, Wrote, Returned, Abort, RetireStoring, ReturnTo
  <2>4. /\ gpr' = gpr /\ stored' = NoStore
        /\ mode' \in {S, M}
        /\ csr'[IF mode' = S THEN "sepc" ELSE "mepc"] = pc
        /\ \A n \in Registers \ (TrapRegisters(mode') \cup {"status", "mcycle", "mip"}) :
              csr'[n] = csr[n]
        /\ BitsOf(csr'["status"]) \ Bits(TrapFields(mode'))
              = BitsOf(csr["status"]) \ Bits(TrapFields(mode'))
    BY <2>1, <2>3, TrapIsPrecise
  <2>5. csr'["minstret"] = csr["minstret"]
    BY <2>4 DEF Registers, Whole, TrapRegisters
  <2>6. Merge(csr'["status"], csr["status"], Bits(TrapFields(mode'))) = csr["status"]
    <3> DEFINE mask == Bits(TrapFields(mode'))
               v == csr["status"]
               w == csr'["status"]
    <3>1. v \in Values
      BY <2>1 DEF Fit, CsrFiles, Registers
    <3>2. BitsOf(w) \ mask = BitsOf(v) \ mask
      BY <2>4
    <3> HIDE DEF mask, v, w
    <3>3. (BitsOf(w) \ mask) \cup (BitsOf(v) \cap mask) = BitsOf(v)
      BY <3>2
    <3>4. Merge(w, v, mask) = v
      BY <3>1, <3>3, BitsValue DEF Merge
    <3> QED
      BY <3>4 DEF mask, v, w
  <2> QED
    BY <2>4, <2>5, <2>6
<1> QED
  BY <1>1, InitIInv, NextIInv, PTL DEF Spec, PreciseTrap

-----------------------------------------------------------------------------
(* What is M's own *)

Below == Bits(SStatusWrites \cup {"mprv"})

\* The state of M in c is the one in d.
SameForM(c, d) ==
    /\ \A n \in OwnOfM : c[n] = d[n]
    /\ BitsOf(c["mie"]) \ S_MODE_INT_MASK = BitsOf(d["mie"]) \ S_MODE_INT_MASK
    /\ BitsOf(c["status"]) \ Below = BitsOf(d["status"]) \ Below

LEMMA OtherRegisters ==
  ASSUME NEW c \in CsrFiles, NEW d,
         \A n \in OwnOfM \cup {"mie"} : d[n] = c[n],
         BitsOf(d["status"]) \ Below = BitsOf(c["status"]) \ Below
  PROVE  SameForM(d, c)
BY DEF SameForM

LEMMA BelowHas ==
  Bits(SStatusWrites) \subseteq Below /\ Bits(TrapFields(S)) \subseteq Below /\ Returning \subseteq Below
BY DEF Below, Bits, SStatusWrites, TrapFields, Returning

\* A register an instruction may write below M is one of S: the number says so.
LEMMA LevelOfWritten ==
  ASSUME NEW m \in 0 .. 2, NEW n \in DOMAIN CsrNumber,
         csr_op_permission_check(CsrNumber[n], m, TRUE)
  PROVE  n \in {"sstatus", "sie", "stvec", "scounteren", "sscratch", "sepc", "scause", "stval",
                "sip", "satp"}
<1>1. /\ (CsrNumber[n] \div 256) % 4 <= 2
      /\ (CsrNumber[n] \div 1024) % 4 # 3
  <2>1. CsrNumber[n] \in Int
    BY DEF CsrNumber
  <2> DEFINE number == CsrNumber[n]
  <2>2. /\ (number \div 256) % 4 <= m
        /\ (number \div 1024) % 4 = 3 => ~TRUE
    BY DEF csr_op_permission_check
  <2>3. (number \div 256) % 4 \in Int
    BY <2>1
  <2> HIDE DEF number
  <2>4. (number \div 256) % 4 <= 2
    BY <2>2, <2>3
  <2> QED
    BY <2>2, <2>4 DEF number
<1>2. CASE n \in {"cycle", "time", "instret"}
  BY <1>1, <1>2 DEF CsrNumber
<1>3. CASE n \in {"mhartid", "mstatus", "misa", "medeleg", "mideleg", "mie", "mtvec", "mcounteren",
                  "mscratch", "mepc", "mcause", "mtval", "mip", "pmpcfg0", "mcycle", "minstret",
                  "tselect", "tdata1"}
  BY <1>1, <1>3 DEF CsrNumber
<1> QED
  BY <1>2, <1>3 DEF CsrNumber

LEMMA WriteConfined ==
  ASSUME NEW m \in 0 .. 2, NEW c \in CsrFiles, NEW n \in DOMAIN CsrNumber, NEW v,
         csr_op_permission_check(CsrNumber[n], m, TRUE)
  PROVE  SameForM(csrWrite(n, c, v), c)
<1>1. c \in [Registers -> Values]
  BY DEF CsrFiles
<1>2. n \in {"sstatus", "sie", "stvec", "scounteren", "sscratch", "sepc", "scause", "stval", "sip",
             "satp"}
  BY LevelOfWritten
<1>3. CASE n = "sstatus"
  <2> DEFINE w == Merge(c["status"], v, Bits(SStatusWrites))
  <2>1. csrWrite(n, c, v) = [c EXCEPT !["status"] = w]
    BY <1>3 DEF csrWrite
  <2>2. BitsOf(w) \ Below = BitsOf(c["status"]) \ Below
    BY BelowHas, MergeBits
  <2> HIDE DEF w
  <2>3. [c EXCEPT !["status"] = w]["status"] = w
    BY <1>1 DEF Registers
  <2>4. \A r \in OwnOfM \cup {"mie"} : [c EXCEPT !["status"] = w][r] = c[r]
    BY <1>1 DEF OwnOfM, Registers, Whole
  <2> QED
    BY <2>1, <2>2, <2>3, <2>4, OtherRegisters
<1>4. CASE n = "sie"
  <2> DEFINE w == Merge(c["mie"], v, S_MODE_INT_MASK)
             d == [c EXCEPT !["mie"] = w]
  <2>1. csrWrite(n, c, v) = d
    BY <1>4 DEF csrWrite
  <2>2. BitsOf(w) \ S_MODE_INT_MASK = BitsOf(c["mie"]) \ S_MODE_INT_MASK
    BY MergeBits
  <2> HIDE DEF w
  <2>3. d["mie"] = w /\ d["status"] = c["status"] /\ \A r \in OwnOfM : d[r] = c[r]
    BY <1>1 DEF OwnOfM, Registers, Whole
  <2> HIDE DEF d
  <2> QED
    BY <2>1, <2>2, <2>3 DEF SameForM
<1>5. CASE n \in {"stvec", "scounteren", "sscratch", "sepc", "scause", "stval", "sip", "satp"}
  <2>1. \E r \in Registers \ (OwnOfM \cup {"mie", "status"}) : \E w : csrWrite(n, c, v) = [c EXCEPT ![r] = w]
    <3>1. {"mip", "stvec", "satp", "scounteren", "sscratch", "sepc", "scause", "stval"}
             \subseteq Registers \ (OwnOfM \cup {"mie", "status"})
      BY DEF OwnOfM, Registers, Whole
    <3>2. CASE n = "sip"
      <4>1. csrWrite(n, c, v) = [c EXCEPT !["mip"] = Merge(c["mip"], v, S_MODE_INT_MASK)]
        BY <3>2 DEF csrWrite
      <4> QED
        BY <3>1, <4>1
    <3>3. CASE n = "stvec"
      <4>1. csrWrite(n, c, v) = [c EXCEPT !["stvec"] = IF v % 4 > 1 THEN v - (v % 4) ELSE v]
        BY <3>3 DEF csrWrite
      <4> QED
        BY <3>1, <4>1, Zenon
    <3>4. CASE n = "satp"
      <4>1. csrWrite(n, c, v) = [c EXCEPT !["satp"] = IF v \div 2^(XLEN - 4) \in {0, 8} THEN v
                                                      ELSE v % 2^(XLEN - 4)]
        BY <3>4 DEF csrWrite
      <4> QED
        BY <3>1, <4>1, Zenon
    <3>5. CASE n = "scounteren"
      <4>1. csrWrite(n, c, v) = [c EXCEPT !["scounteren"] = Masked(v, COUNTER_MASK)]
        BY <3>5 DEF csrWrite
      <4> QED
        BY <3>1, <4>1, Zenon
    <3>6. CASE n \in {"sscratch", "sepc", "scause", "stval"}
      <4>1. csrWrite(n, c, v) = [c EXCEPT ![n] = v]
        BY <3>6 DEF csrWrite
      <4> QED
        BY <3>1, <3>6, <4>1
    <3> QED
      BY <1>5, <3>2, <3>3, <3>4, <3>5, <3>6
  <2>2. PICK r, w : /\ r \in Registers \ (OwnOfM \cup {"mie", "status"})
                      /\ csrWrite(n, c, v) = [c EXCEPT ![r] = w]
    BY <2>1
  <2>3. \A k \in OwnOfM \cup {"mie", "status"} : [c EXCEPT ![r] = w][k] = c[k]
    BY <1>1, <2>2 DEF OwnOfM, Registers, Whole
  <2> QED
    BY <2>2, <2>3 DEF SameForM
<1> QED
  BY <1>2, <1>3, <1>4, <1>5

\* No instruction, trap or return below M changes a register of M, the bits of
\* mie that S does not have, or the fields of status that are M's.
THEOREM SupervisorIsConfined == Spec => SupervisorConfined
<1> DEFINE P == /\ \A n \in OwnOfM : csr'[n] = csr[n]
                /\ BitsOf(csr'["mie"]) \ S_MODE_INT_MASK = BitsOf(csr["mie"]) \ S_MODE_INT_MASK
                /\ LET below == Bits(SStatusWrites \cup {"mprv"})
                   IN BitsOf(csr'["status"]) \ below = BitsOf(csr["status"]) \ below
<1>1. IInv /\ [Next]_vars => [mode # M /\ mode' # M => P]_vars
  <2> SUFFICES ASSUME IInv, Next, mode # M, mode' # M PROVE P
    OBVIOUS
  <2>1. Fit /\ mode \in 0 .. 2
    BY TypeIsFit DEF IInv, Fit, M
  <2>2. PICK W \in SUBSET WiredPending :
            \/ Retired(W) \/ Wrote(W) \/ Returned(W) \/ Trapped(W)
            \/ Abort /\ pc % 2 = 0
    BY <2>1, StepOk
  <2> DEFINE c == Cycle(W)
  <2>3. c \in CsrFiles /\ csr \in CsrFiles /\ \A n \in Registers \ {"mcycle", "mip"} : c[n] = csr[n]
    BY <2>1, CycleFile DEF Fit
  <2> HIDE DEF c
  <2>4. SameForM(c, csr)
    BY <2>3 DEF SameForM, OwnOfM, Registers, Whole
  <2>5. ASSUME NEW d, SameForM(d, c), csr' = [d EXCEPT !["minstret"] = Wrap(d["minstret"] + 1)],
               d \in CsrFiles
        PROVE  P
    <3>1. d \in [Registers -> Values]
      BY <2>5 DEF CsrFiles
    <3>2. \A n \in OwnOfM \cup {"mie", "status"} : csr'[n] = d[n]
      BY <2>5, <3>1 DEF OwnOfM, Registers, Whole
    <3> QED
      BY <2>4, <2>5, <3>2 DEF SameForM, Below
  <2>6. CASE Retired(W)
    <3>1. SameForM(c, c)
      BY DEF SameForM
    <3>2. csr' = [c EXCEPT !["minstret"] = Wrap(c["minstret"] + 1)]
      BY <2>6 DEF Retired, RetireStoring, c
    <3> QED
      BY <2>3, <2>5, <3>1, <3>2
  <2>7. CASE Wrote(W)
    <3>1. PICK g \in RegFiles, next \in Even, n \in DOMAIN CsrNumber, v \in Values :
              /\ csr_op_permission_check(CsrNumber[n], mode, TRUE) /\ ~MtvecAsserts(n, v)
              /\ RetireStoring(g, next, csrWrite(n, c, v), NoStore)
      BY <2>7 DEF Wrote, c
    <3> DEFINE d == csrWrite(n, c, v)
    <3>2. SameForM(d, c) /\ d \in CsrFiles
      BY <2>1, <2>3, <3>1, WriteConfined, WriteFile
    <3>3. csr' = [d EXCEPT !["minstret"] = Wrap(d["minstret"] + 1)]
      BY <3>1 DEF RetireStoring
    <3> HIDE DEF d
    <3> QED
      BY <2>5, <3>2, <3>3
  <2>8. CASE Returned(W)
    <3>1. PICK status \in Values : /\ csr' = [c EXCEPT !["status"] = status]
                                   /\ BitsOf(status) \ Returning = BitsOf(csr["status"]) \ Returning
      BY <2>8 DEF Returned, ReturnTo, c
    <3>2. c \in [Registers -> Values]
      BY <2>3 DEF CsrFiles
    <3>3. csr'["status"] = status /\ \A n \in OwnOfM \cup {"mie"} : csr'[n] = csr[n]
      BY <2>3, <3>1, <3>2 DEF OwnOfM, Registers, Whole
    <3>4. BitsOf(csr'["status"]) \ Below = BitsOf(csr["status"]) \ Below
      BY <3>1, <3>3, BelowHas
    <3> QED
      BY <3>3, <3>4 DEF Below
  <2>9. CASE Trapped(W)
    <3>1. mode' = S
      BY <2>1, <2>9, TrapIsPrecise
    <3>2. \A n \in OwnOfM \cup {"mie"} : csr'[n] = csr[n]
      BY <2>1, <2>9, <3>1, TrapIsPrecise DEF OwnOfM, Registers, Whole, TrapRegisters
    <3>3. BitsOf(csr'["status"]) \ Bits(TrapFields(S)) = BitsOf(csr["status"]) \ Bits(TrapFields(S))
      BY <2>1, <2>9, <3>1, TrapIsPrecise
    <3>4. BitsOf(csr'["status"]) \ Below = BitsOf(csr["status"]) \ Below
      BY <3>3, BelowHas
    <3> QED
      BY <3>2, <3>4 DEF Below
  <2>10. CASE Abort
    BY <2>10 DEF Abort
  <2> QED
    BY <2>2, <2>6, <2>7, <2>8, <2>9, <2>10
<1> QED
  BY <1>1, InitIInv, NextIInv, PTL DEF Spec, SupervisorConfined

=============================================================================
