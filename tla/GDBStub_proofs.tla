---------------------------- MODULE GDBStub_proofs ----------------------------
(***************************************************************************)
(* The GDB stub, proved: it ends for a cause only, no command is executed  *)
(* twice or out of order, and the debugger takes the reply to its last     *)
(* command, for any number of commands, retries and spoilt symbols.        *)
(*                                                                         *)
(* Neither side numbers what it says, so the argument is about what is     *)
(* still on its way.  The last command is in one place at a time: on the   *)
(* connection to the stub, refused by a "-" on its way back, or taken and  *)
(* acknowledged (OneCopy).  Repeated replies cannot be taken for the reply *)
(* to a later command, because the acknowledgement of that command is      *)
(* behind them (LastReply).  Frames says that packets are cut nowhere.     *)
(***************************************************************************)
EXTENDS GDBStub, SequenceTheorems, WellFoundedInduction, TLAPS

-----------------------------------------------------------------------------
(* What is on the connection *)

\* What follows a "$", a text and a "#" immediately
Follower == [kind \in {"$", "text", "#"} |->
                CASE kind = "$" -> "text" [] kind = "text" -> "#" [] kind = "#" -> "sum"]

Framing(q) == \A i \in 1 .. Len(q) : q[i].is \in {"$", "text", "#"} =>
                  i < Len(q) /\ q[i + 1].is = Follower[q[i].is]

\* The symbols behind one of S
Behind(q, S) == {q[j] : j \in {j \in 1 .. Len(q) : \E i \in 1 .. j - 1 : q[i] \in S}}

Once(s, q) == s \notin Behind(q, {s})

-----------------------------------------------------------------------------
(* The invariant *)

Frames == Framing(toStub) /\ Framing(toClient)

\* The stub has received the last command.
Taken == packet.n = Len(asked)

\* The last command is on its way to the stub, or refused, or taken, and
\* acknowledged when it is taken.
OneCopy ==
    /\ Once(PACKET_END_CHAR, toStub) /\ Once(NAK_PACKET_DATA, toClient)
    /\ PACKET_END_CHAR \in Range(toStub) =>
           client = "ack" /\ ~ Taken /\ NAK_PACKET_DATA \notin Range(toClient)
    /\ NAK_PACKET_DATA \in Range(toClient) => client = "ack" /\ ~ Taken
    /\ ACK_PACKET_DATA \in Range(toClient) /\ loc # "end" => Taken /\ client # "idle"
    /\ client = "ack" /\ Taken => ACK_PACKET_DATA \in Range(toClient)
    /\ client # "ack" => Taken
    /\ client # "idle" => asked # <<>>
    /\ eof => client = "idle"

LastPacket ==
    /\ \A s \in Range(toStub) \cap Texts : s = LastCommand
    /\ packet.n <= Len(asked)
    /\ Taken /\ asked # <<>> => packet = LastCommand

\* Replies are of the packet taken last, or of one before; while that is
\* executed, of one before; and those behind an acknowledgement are of the
\* last command, with no other acknowledgement behind them.
LastReply ==
    /\ loc = "ack" => reply.n = packet.n
    /\ loc \in {"cmd", "step"} => Taken /\ client # "idle"
    /\ \A s \in Range(toClient) \cap Texts :
           /\ s.n <= packet.n
           /\ client = "reply" => s.n = packet.n
           /\ loc \in {"cmd", "step"} => s.n < packet.n
    /\ client = "ack" =>
           \A s \in Behind(toClient, {ACK_PACKET_DATA}) \cap Texts : s.n = packet.n
    /\ loc # "end" => ACK_PACKET_DATA \notin Behind(toClient, {s \in Texts : s.n = packet.n})

Executed ==
    /\ \A i \in 1 .. Len(done) : done[i] <= packet.n /\ (loc = "cmd" => done[i] < packet.n)
    /\ loc \notin {"cmd", "end"} /\ packet.n > 0 => Contains(done, packet.n)

\* A reply to read, in time
Coming == IF client = "ack" THEN Behind(toClient, {ACK_PACKET_DATA}) ELSE Range(toClient)

\* The debugger waits for the reply to a command the stub has taken.
Waiting == client # "idle" /\ Taken

Answers ==
    /\ ACK_PACKET_DATA \notin Behind(toStub, {PACKET_END_CHAR})
    /\ Waiting /\ loc \in {"cmd", "step", "ack"} => ACK_PACKET_DATA \notin Range(toStub)
    /\ Waiting /\ loc = "ack" => toStub # <<>> \/ PACKET_BEGIN_CHAR \in Coming
    /\ Waiting /\ loc = "recv" => packet.says \in {"G", "M"} \/ unacknowledged

Counted ==
    /\ loc \notin {"recv", "end"} => errors = <<>>
    /\ loc = "recv" => Len(errors) = nr_retry_times
    /\ loc = "recv" /\ receiving = "protocol" => errors # <<>> /\ errors[Len(errors)] = "protocol"

IInv == /\ TypeOK /\ Frames /\ OneCopy /\ LastPacket /\ LastReply /\ Executed /\ Answers
        /\ Counted /\ EffectsInOrder /\ EndsForACause

-----------------------------------------------------------------------------
(* The first and the last of some positions *)

Less == {p \in Nat \X Nat : p[1] < p[2]}

LEMMA Smallest ==
  ASSUME NEW T \in SUBSET Nat, T # {}
  PROVE  Min(T) \in T /\ \A y \in T : Min(T) <= y
<1>1. IsWellFoundedOn(Less, Nat)
  BY NatLessThanWellFounded DEF Less, OpToRel
<1>2. PICK x \in T : \A y \in T : <<y, x>> \notin Less
  BY <1>1, WFMin
<1>3. ASSUME NEW y \in T PROVE x <= y
  <2>1. x \in Nat /\ y \in Nat
    OBVIOUS
  <2>2. y < x => <<y, x>> \in Less
    BY <2>1 DEF Less
  <2> QED
    BY <1>2, <2>1, <2>2
<1> QED
  BY <1>3 DEF Min

LEMMA Largest ==
  ASSUME NEW n \in Nat, NEW T \in SUBSET (1 .. n), T # {}
  PROVE  Max(T) \in T /\ \A y \in T : y <= Max(T)
<1> DEFINE Gaps == {n - i : i \in T}
<1>1. Gaps \in SUBSET Nat /\ Gaps # {}
  <2>1. \A i \in T : n - i \in Nat
    OBVIOUS
  <2> QED
    BY <2>1
<1>2. Min(Gaps) \in Gaps /\ \A g \in Gaps : Min(Gaps) <= g
  BY <1>1, Smallest
<1>3. PICK x \in T : Min(Gaps) = n - x
  BY <1>2
<1>4. ASSUME NEW y \in T PROVE y <= x
  <2>1. n - x <= n - y
    BY <1>2, <1>3
  <2> QED
    BY <2>1
<1> QED
  BY <1>4 DEF Max

-----------------------------------------------------------------------------
(* Symbols *)

LEMMA RangeIs ==
  ASSUME NEW q \in Seq(Symbols)
  PROVE  /\ Range(q) = {q[i] : i \in 1 .. Len(q)}
         /\ Range(q) \subseteq Symbols
         /\ \A S : Behind(q, S) \subseteq Range(q)
         /\ \A S : Range(q) \cap S = {} => Behind(q, S) = {}
<1>1. /\ DOMAIN q = 1 .. Len(q) /\ Len(q) \in Nat
      /\ \A i \in 1 .. Len(q) : q[i] \in Symbols
  BY LenProperties, ElementOfSeq
<1>2. /\ Range(q) = {q[i] : i \in 1 .. Len(q)}
      /\ Range(q) \subseteq Symbols
      /\ \A S : Behind(q, S) \subseteq Range(q)
  BY <1>1 DEF Range, Behind
<1>3. ASSUME NEW S, Range(q) \cap S = {} PROVE Behind(q, S) = {}
  <2>1. ASSUME NEW j \in 1 .. Len(q), NEW i \in 1 .. j - 1 PROVE q[i] \notin S
    <3>1. i \in 1 .. Len(q)
      BY <1>1
    <3> QED
      BY <1>2, <1>3, <3>1
  <2> QED
    BY <2>1 DEF Behind
<1> QED
  BY <1>2, <1>3

LEMMA KindOf ==
  ASSUME NEW s \in Symbols
  PROVE  /\ s = PACKET_BEGIN_CHAR <=> s.is = "$"
         /\ s = PACKET_END_CHAR <=> s.is = "#"
         /\ s = ACK_PACKET_DATA <=> s.is = "+"
         /\ s = NAK_PACKET_DATA <=> s.is = "-"
         /\ s = CheckSum(TRUE) \/ s = CheckSum(FALSE) <=> s.is = "sum"
         /\ s \in Texts <=> s.is = "text"
BY DEF Symbols, Texts, PACKET_BEGIN_CHAR, PACKET_END_CHAR, ACK_PACKET_DATA, NAK_PACKET_DATA,
       CheckSum

LEMMA AreSymbols ==
  /\ PACKET_BEGIN_CHAR \in Symbols /\ PACKET_BEGIN_CHAR.is = "$"
  /\ PACKET_END_CHAR \in Symbols /\ PACKET_END_CHAR.is = "#"
  /\ ACK_PACKET_DATA \in Symbols /\ ACK_PACKET_DATA.is = "+"
  /\ NAK_PACKET_DATA \in Symbols /\ NAK_PACKET_DATA.is = "-"
  /\ Junk \in Symbols /\ Junk.is = "?"
  /\ \A right \in BOOLEAN : CheckSum(right) \in Symbols /\ CheckSum(right).is = "sum"
  /\ \A t \in Texts : t \in Symbols /\ t.is = "text"
BY DEF Symbols, Texts, PACKET_BEGIN_CHAR, PACKET_END_CHAR, ACK_PACKET_DATA, NAK_PACKET_DATA,
       CheckSum, Junk

-----------------------------------------------------------------------------
(* Taking symbols from the front *)

LEMMA CutIs ==
  ASSUME NEW q \in Seq(Symbols), NEW k \in 1 .. Len(q) + 1
  PROVE  LET c == SubSeq(q, k, Len(q))
         IN  /\ c \in Seq(Symbols)
             /\ Len(c) = Len(q) - k + 1
             /\ \A i \in 1 .. Len(c) : c[i] = q[k + i - 1]
<1>1. Len(q) \in Nat /\ \A i \in 1 .. Len(q) : q[i] \in Symbols
  BY LenProperties, ElementOfSeq
<1> QED
  BY <1>1, SubSeqProperties

LEMMA InBehind ==
  ASSUME NEW q, NEW S, NEW j \in 1 .. Len(q), NEW i \in 1 .. j - 1, q[i] \in S
  PROVE  q[j] \in Behind(q, S)
BY DEF Behind

LEMMA Cut ==
  ASSUME NEW q \in Seq(Symbols), NEW k \in 1 .. Len(q) + 1
  PROVE  LET c == SubSeq(q, k, Len(q))
         IN  /\ c \in Seq(Symbols)
             /\ Framing(q) => Framing(c)
             /\ Range(c) \subseteq Range(q)
             /\ \A S : Behind(c, S) \subseteq Behind(q, S)
             /\ \A i \in 1 .. k - 1 : \A S : q[i] \in S => Range(c) \subseteq Behind(q, S)
<1> DEFINE c == SubSeq(q, k, Len(q))
<1>1. /\ c \in Seq(Symbols) /\ Len(q) \in Nat
      /\ Len(c) = Len(q) - k + 1
      /\ \A i \in 1 .. Len(c) : c[i] = q[k + i - 1]
  BY CutIs, LenProperties
<1> HIDE DEF c
<1>2. ASSUME NEW i \in 1 .. Len(c) PROVE k + i - 1 \in 1 .. Len(q) /\ c[i] = q[k + i - 1]
  BY <1>1
<1>3. Framing(q) => Framing(c)
  <2> SUFFICES ASSUME Framing(q), NEW i \in 1 .. Len(c), c[i].is \in {"$", "text", "#"}
               PROVE  i < Len(c) /\ c[i + 1].is = Follower[c[i].is]
    BY DEF Framing
  <2>1. k + i - 1 \in 1 .. Len(q) /\ c[i] = q[k + i - 1]
    BY <1>2
  <2>2. k + i - 1 < Len(q) /\ q[k + i - 1 + 1].is = Follower[q[k + i - 1].is]
    BY <2>1 DEF Framing
  <2>3. i + 1 \in 1 .. Len(c) /\ k + (i + 1) - 1 = k + i - 1 + 1
    BY <1>1, <2>2
  <2> QED
    BY <1>2, <2>1, <2>2, <2>3
<1>4. Range(c) \subseteq Range(q)
  BY <1>1, <1>2, RangeIs
<1>5. ASSUME NEW S PROVE Behind(c, S) \subseteq Behind(q, S)
  <2> SUFFICES ASSUME NEW j \in 1 .. Len(c), NEW i \in 1 .. j - 1, c[i] \in S
               PROVE  c[j] \in Behind(q, S)
    BY DEF Behind
  <2>1. /\ k + j - 1 \in 1 .. Len(q) /\ k + i - 1 \in 1 .. k + j - 1 - 1
        /\ q[k + i - 1] \in S /\ c[j] = q[k + j - 1]
    <3>1. i \in 1 .. Len(c) /\ i < j
      BY <1>1
    <3> QED
      BY <1>1, <1>2, <3>1
  <2>2. q[k + j - 1] \in Behind(q, S)
    BY <2>1, InBehind
  <2> QED
    BY <2>1, <2>2
<1>6. ASSUME NEW i \in 1 .. k - 1, NEW S, q[i] \in S PROVE Range(c) \subseteq Behind(q, S)
  <2> SUFFICES ASSUME NEW j \in 1 .. Len(c) PROVE c[j] \in Behind(q, S)
    BY <1>1, RangeIs
  <2>1. k + j - 1 \in 1 .. Len(q) /\ i \in 1 .. k + j - 1 - 1 /\ c[j] = q[k + j - 1]
    BY <1>1, <1>2
  <2> QED
    BY <1>6, <2>1 DEF Behind
<1> QED
  BY <1>1, <1>3, <1>4, <1>5, <1>6 DEF c

LEMMA Taking ==
  ASSUME NEW q \in Seq(Symbols), q # <<>>
  PROVE  /\ Tail(q) \in Seq(Symbols)
         /\ Head(q) \in Symbols /\ Head(q) = q[1]
         /\ Framing(q) => Framing(Tail(q))
         /\ Range(q) = {Head(q)} \cup Range(Tail(q))
         /\ \A S : Behind(q, S) = Behind(Tail(q), S)
                          \cup (IF Head(q) \in S THEN Range(Tail(q)) ELSE {})
<1> DEFINE t == Tail(q)
<1>1. /\ t \in Seq(Symbols) /\ Len(q) \in Nat \ {0}
      /\ Len(t) = Len(q) - 1
      /\ \A i \in 1 .. Len(t) : t[i] = q[i + 1]
      /\ Head(q) = q[1] /\ q[1] \in Symbols
  BY HeadTailProperties, LenProperties, EmptySeq, ElementOfSeq
<1>2. t = SubSeq(q, 2, Len(q))
  BY TailIsSubSeq
<1>3. /\ Framing(q) => Framing(t)
      /\ Range(t) \subseteq Range(q)
      /\ \A S : Behind(t, S) \subseteq Behind(q, S)
      /\ \A S : q[1] \in S => Range(t) \subseteq Behind(q, S)
  <2>1. 2 \in 1 .. Len(q) + 1 /\ 1 \in 1 .. 2 - 1
    BY <1>1
  <2> QED
    BY <1>2, <2>1, Cut
<1> HIDE DEF t
<1>4. Range(q) = {Head(q)} \cup Range(t)
  <2>1. ASSUME NEW i \in 1 .. Len(q), i # 1 PROVE i - 1 \in 1 .. Len(t) /\ q[i] = t[i - 1]
    BY <1>1, <2>1
  <2>2. 1 \in 1 .. Len(q)
    BY <1>1
  <2> QED
    BY <1>1, <1>3, <2>1, <2>2, RangeIs
<1>5. ASSUME NEW S
      PROVE  Behind(q, S) \subseteq
                 Behind(t, S) \cup (IF Head(q) \in S THEN Range(t) ELSE {})
  <2> SUFFICES ASSUME NEW j \in 1 .. Len(q), NEW i \in 1 .. j - 1, q[i] \in S
               PROVE  \/ q[j] \in Behind(t, S)
                      \/ Head(q) \in S /\ q[j] \in Range(t)
    BY DEF Behind
  <2>1. j - 1 \in 1 .. Len(t) /\ q[j] = t[j - 1]
    BY <1>1
  <2>2. CASE i = 1
    BY <1>1, <2>1, <2>2, RangeIs
  <2>3. CASE i # 1
    <3>1. i - 1 \in 1 .. (j - 1) - 1 /\ t[i - 1] \in S
      BY <1>1, <2>3
    <3> QED
      BY <2>1, <3>1 DEF Behind
  <2> QED
    BY <2>2, <2>3
<1> QED
  BY <1>1, <1>3, <1>4, <1>5 DEF t

-----------------------------------------------------------------------------
(* Adding symbols at the end *)

LEMMA Joining ==
  ASSUME NEW q \in Seq(Symbols), NEW r \in Seq(Symbols)
  PROVE  /\ q \o r \in Seq(Symbols)
         /\ r # <<>> => q \o r # <<>>
         /\ Framing(q) /\ Framing(r) => Framing(q \o r)
         /\ Range(q \o r) = Range(q) \cup Range(r)
         /\ \A S : Behind(q \o r, S) = Behind(q, S)
                          \cup (IF Range(q) \cap S # {} THEN Range(r) ELSE Behind(r, S))
<1> DEFINE t == q \o r
<1>1. /\ t \in Seq(Symbols) /\ Len(q) \in Nat /\ Len(r) \in Nat
      /\ Len(t) = Len(q) + Len(r)
      /\ \A i \in 1 .. Len(t) : t[i] = IF i <= Len(q) THEN q[i] ELSE r[i - Len(q)]
  BY ConcatProperties, LenProperties
<1>2. r # <<>> => t # <<>>
  BY ConcatSimplifications
<1> HIDE DEF t
<1>3. ASSUME NEW i \in 1 .. Len(q) PROVE i \in 1 .. Len(t) /\ t[i] = q[i]
  BY <1>1
<1>4. ASSUME NEW i \in 1 .. Len(r) PROVE Len(q) + i \in 1 .. Len(t) /\ t[Len(q) + i] = r[i]
  <2>1. Len(q) + i \in 1 .. Len(t) /\ ~ (Len(q) + i <= Len(q)) /\ Len(q) + i - Len(q) = i
    BY <1>1
  <2> QED
    BY <1>1, <2>1
<1>5. ASSUME NEW i \in 1 .. Len(t)
      PROVE  \/ i \in 1 .. Len(q)
             \/ i - Len(q) \in 1 .. Len(r) /\ t[i] = r[i - Len(q)]
  BY <1>1
<1>6. ASSUME Framing(q), Framing(r) PROVE Framing(t)
  <2> SUFFICES ASSUME NEW i \in 1 .. Len(t), t[i].is \in {"$", "text", "#"}
               PROVE  i < Len(t) /\ t[i + 1].is = Follower[t[i].is]
    BY DEF Framing
  <2>1. CASE i \in 1 .. Len(q)
    <3>1. i < Len(q) /\ q[i + 1].is = Follower[t[i].is]
      BY <1>3, <1>6, <2>1 DEF Framing
    <3>2. i + 1 \in 1 .. Len(q) /\ i < Len(t)
      BY <1>1, <3>1
    <3> QED
      BY <1>3, <3>1, <3>2
  <2>2. CASE i - Len(q) \in 1 .. Len(r) /\ t[i] = r[i - Len(q)]
    <3>1. i - Len(q) < Len(r) /\ r[i - Len(q) + 1].is = Follower[t[i].is]
      BY <1>6, <2>2 DEF Framing
    <3>2. i - Len(q) + 1 \in 1 .. Len(r)
      BY <1>1, <2>2, <3>1
    <3>3. Len(q) + (i - Len(q) + 1) = i + 1
      BY <1>1
    <3>4. t[i + 1] = r[i - Len(q) + 1] /\ i + 1 \in 1 .. Len(t)
      BY <1>4, <3>2, <3>3
    <3>5. i < Len(t)
      BY <1>1, <3>4
    <3> QED
      BY <3>1, <3>4, <3>5
  <2> QED
    BY <1>5, <2>1, <2>2
<1>7. Range(t) = Range(q) \cup Range(r)
  <2>1. Range(t) \subseteq Range(q) \cup Range(r)
    BY <1>1, <1>3, <1>5, RangeIs
  <2>2. Range(q) \subseteq Range(t)
    BY <1>1, <1>3, RangeIs
  <2>3. Range(r) \subseteq Range(t)
    <3> SUFFICES ASSUME NEW i \in 1 .. Len(r) PROVE r[i] \in Range(t)
      BY RangeIs
    <3>1. Len(q) + i \in 1 .. Len(t) /\ t[Len(q) + i] = r[i]
      BY <1>4
    <3> QED
      BY <1>1, <3>1, RangeIs
  <2> QED
    BY <2>1, <2>2, <2>3
<1>8. ASSUME NEW S
      PROVE  Behind(t, S) = Behind(q, S)
                 \cup (IF Range(q) \cap S # {} THEN Range(r) ELSE Behind(r, S))
  <2>1. ASSUME NEW j \in 1 .. Len(t), NEW i \in 1 .. j - 1, t[i] \in S
        PROVE  \/ t[j] \in Behind(q, S)
               \/ Range(q) \cap S # {} /\ t[j] \in Range(r)
               \/ t[j] \in Behind(r, S)
    <3>0. i \in 1 .. Len(t)
      BY <1>1, <2>1
    <3>1. CASE j \in 1 .. Len(q)
      <4>1. i \in 1 .. Len(q) /\ t[j] = q[j] /\ t[i] = q[i]
        BY <1>1, <1>3, <3>1
      <4> QED
        BY <2>1, <3>1, <4>1 DEF Behind
    <3>2. CASE j - Len(q) \in 1 .. Len(r) /\ t[j] = r[j - Len(q)] /\ i \in 1 .. Len(q)
      <4>1. t[i] = q[i]
        BY <1>3, <3>2
      <4>2. q[i] \in Range(q)
        BY <3>2, RangeIs
      <4> QED
        BY <2>1, <3>2, <4>1, <4>2, RangeIs
    <3>3. CASE /\ j - Len(q) \in 1 .. Len(r) /\ t[j] = r[j - Len(q)]
               /\ i - Len(q) \in 1 .. Len(r) /\ t[i] = r[i - Len(q)]
      <4>1. i - Len(q) \in 1 .. (j - Len(q)) - 1
        BY <1>1, <3>3
      <4> QED
        BY <2>1, <3>3, <4>1 DEF Behind
    <3> QED
      BY <1>5, <3>0, <3>1, <3>2, <3>3
  <2>2. Behind(q, S) \subseteq Behind(t, S)
    <3> SUFFICES ASSUME NEW j \in 1 .. Len(q), NEW i \in 1 .. j - 1, q[i] \in S
                 PROVE  q[j] \in Behind(t, S)
      BY DEF Behind
    <3>1. i \in 1 .. Len(q) /\ j \in 1 .. Len(t) /\ t[j] = q[j]
      BY <1>1, <1>3
    <3> QED
      BY <1>3, <3>1 DEF Behind
  <2>3. Behind(r, S) \subseteq Behind(t, S)
    <3> SUFFICES ASSUME NEW j \in 1 .. Len(r), NEW i \in 1 .. j - 1, r[i] \in S
                 PROVE  r[j] \in Behind(t, S)
      BY DEF Behind
    <3>1. /\ i \in 1 .. Len(r) /\ Len(q) + j \in 1 .. Len(t) /\ t[Len(q) + j] = r[j]
          /\ Len(q) + i \in 1 .. (Len(q) + j) - 1
      BY <1>1, <1>4
    <3> QED
      BY <1>4, <3>1 DEF Behind
  <2>4. ASSUME Range(q) \cap S # {} PROVE Range(r) \subseteq Behind(t, S)
    <3> SUFFICES ASSUME NEW j \in 1 .. Len(r) PROVE r[j] \in Behind(t, S)
      BY RangeIs
    <3>1. PICK i \in 1 .. Len(q) : q[i] \in S
      BY <2>4, RangeIs
    <3>2. /\ Len(q) + j \in 1 .. Len(t) /\ t[Len(q) + j] = r[j] /\ t[i] = q[i]
          /\ i \in 1 .. (Len(q) + j) - 1
      BY <1>1, <1>3, <1>4
    <3> QED
      BY <3>1, <3>2 DEF Behind
  <2>5. ASSUME NEW s \in Behind(t, S)
        PROVE  \/ s \in Behind(q, S)
               \/ Range(q) \cap S # {} /\ s \in Range(r)
               \/ s \in Behind(r, S)
    BY <2>1 DEF Behind
  <2>6. Behind(r, S) \subseteq Range(r)
    BY RangeIs
  <2> QED
    BY <2>2, <2>3, <2>4, <2>5, <2>6
<1> QED
  BY <1>1, <1>2, <1>6, <1>7, <1>8 DEF t

LEMMA Single ==
  ASSUME NEW s \in Symbols, s.is \notin {"$", "text", "#"}
  PROVE  /\ <<s>> \in Seq(Symbols) /\ <<s>> # <<>>
         /\ Framing(<<s>>)
         /\ Range(<<s>>) = {s}
         /\ \A S : Behind(<<s>>, S) = {}
<1>1. /\ <<s>> \in Seq(Symbols) /\ <<s>> # <<>>
      /\ Len(<<s>>) = 1 /\ <<s>>[1] = s
  OBVIOUS
<1>2. Framing(<<s>>)
  BY <1>1 DEF Framing
<1>3. Range(<<s>>) = {s}
  <2> DEFINE q == <<s>>
  <2>1. q \in Seq(Symbols) /\ 1 .. Len(q) = {1} /\ q[1] = s
    BY <1>1
  <2> HIDE DEF q
  <2>2. Range(q) = {s}
    BY <2>1, RangeIs
  <2> QED
    BY <2>2 DEF q
<1>4. ASSUME NEW S PROVE Behind(<<s>>, S) = {}
  BY <1>1 DEF Behind
<1> QED
  BY <1>1, <1>2, <1>3, <1>4

LEMMA Adding ==
  ASSUME NEW q \in Seq(Symbols), NEW s \in Symbols, s.is \notin {"$", "text", "#"}
  PROVE  /\ Append(q, s) \in Seq(Symbols) /\ Append(q, s) # <<>>
         /\ Framing(q) => Framing(Append(q, s))
         /\ Range(Append(q, s)) = Range(q) \cup {s}
         /\ \A S : Behind(Append(q, s), S) =
                          Behind(q, S) \cup (IF Range(q) \cap S # {} THEN {s} ELSE {})
<1>1. Append(q, s) = q \o <<s>>
  BY AppendIsConcat
<1> DEFINE r == <<s>>
<1>2. /\ r \in Seq(Symbols) /\ r # <<>> /\ Framing(r) /\ Range(r) = {s}
      /\ \A S : Behind(r, S) = {}
  BY Single
<1> HIDE DEF r
<1>3. /\ q \o r \in Seq(Symbols) /\ q \o r # <<>>
      /\ Framing(q) => Framing(q \o r)
      /\ Range(q \o r) = Range(q) \cup {s}
  BY <1>2, Joining
<1>4. ASSUME NEW S
      PROVE  Behind(q \o r, S) = Behind(q, S) \cup (IF Range(q) \cap S # {} THEN {s} ELSE {})
  BY <1>2, Joining
<1> QED
  BY <1>1, <1>3, <1>4 DEF r

LEMMA FramedIs ==
  ASSUME NEW p \in Texts
  PROVE  /\ Framed(p) \in Seq(Symbols) /\ Framed(p) # <<>>
         /\ Framing(Framed(p))
         /\ Range(Framed(p)) = {PACKET_BEGIN_CHAR, p, PACKET_END_CHAR, CheckSum(TRUE)}
         /\ \A S : Behind(Framed(p), S) \subseteq {p, PACKET_END_CHAR, CheckSum(TRUE)}
         /\ Behind(Framed(p), {PACKET_END_CHAR}) = {CheckSum(TRUE)}
         /\ Behind(Framed(p), {ACK_PACKET_DATA}) = {}
         /\ Behind(Framed(p), {NAK_PACKET_DATA}) = {}
<1> DEFINE b == PACKET_BEGIN_CHAR
           e == PACKET_END_CHAR
           c == CheckSum(TRUE)
           f == <<b, p, e, c>>
<1>1. /\ b \in Symbols /\ b.is = "$" /\ p \in Symbols /\ p.is = "text"
      /\ e \in Symbols /\ e.is = "#" /\ c \in Symbols /\ c.is = "sum"
  BY AreSymbols
<1> HIDE DEF b, e, c
<1>2. /\ f \in Seq(Symbols) /\ f # <<>> /\ Len(f) = 4
      /\ f[1] = b /\ f[2] = p /\ f[3] = e /\ f[4] = c
  BY <1>1
<1> HIDE DEF f
<1>3. \A i \in 1 .. Len(f) : i \in {1, 2, 3, 4}
  BY <1>2
<1>4. Framing(f)
  BY <1>1, <1>2, <1>3 DEF Framing, Follower
<1>5. Range(f) = {b, p, e, c}
  BY <1>2, <1>3, RangeIs
<1>6. /\ ACK_PACKET_DATA \notin {b, p, e, c} /\ NAK_PACKET_DATA \notin {b, p, e, c}
      /\ e \notin {b, p, c}
  BY <1>1, AreSymbols
<1>7. ASSUME NEW S PROVE Behind(f, S) \subseteq {p, e, c}
  BY <1>2, <1>3 DEF Behind
<1>8. Behind(f, {e}) = {c}
  <2>1. ASSUME NEW j \in 1 .. Len(f), NEW i \in 1 .. j - 1, f[i] = e PROVE f[j] = c
    BY <1>2, <1>3, <1>6, <2>1
  <2>2. 4 \in 1 .. Len(f) /\ 3 \in 1 .. 4 - 1 /\ f[3] \in {e}
    BY <1>2
  <2> QED
    BY <1>2, <2>1, <2>2 DEF Behind
<1>9. ASSUME NEW s, s \notin {b, p, e, c} PROVE Behind(f, {s}) = {}
  BY <1>2, <1>3, <1>9 DEF Behind
<1> QED
  BY <1>2, <1>4, <1>5, <1>6, <1>7, <1>8, <1>9 DEF Framed, f, b, e, c

LEMMA Sending ==
  ASSUME NEW q \in Seq(Symbols), NEW p \in Texts
  PROVE  LET t == q \o Framed(p)
             f == {PACKET_BEGIN_CHAR, p, PACKET_END_CHAR, CheckSum(TRUE)}
         IN  /\ t \in Seq(Symbols) /\ t # <<>>
             /\ Framing(q) => Framing(t)
             /\ Range(t) = Range(q) \cup f
             /\ \A S : Behind(t, S) \subseteq Behind(q, S) \cup f
             /\ PACKET_END_CHAR \notin Range(q) => Behind(t, {PACKET_END_CHAR}) = {CheckSum(TRUE)}
             /\ \A s \in {ACK_PACKET_DATA, NAK_PACKET_DATA} :
                    /\ s \in Range(q) => Behind(t, {s}) = Behind(q, {s}) \cup f
                    /\ s \notin Range(q) => Behind(t, {s}) = {}
<1> DEFINE r == Framed(p)
           f == {PACKET_BEGIN_CHAR, p, PACKET_END_CHAR, CheckSum(TRUE)}
<1>1. /\ r \in Seq(Symbols) /\ r # <<>> /\ Framing(r) /\ Range(r) = f
      /\ Behind(r, {PACKET_END_CHAR}) = {CheckSum(TRUE)}
      /\ Behind(r, {ACK_PACKET_DATA}) = {}
      /\ Behind(r, {NAK_PACKET_DATA}) = {}
  BY FramedIs
<1>0. ASSUME NEW S PROVE Behind(r, S) \subseteq f
  <2>1. Behind(r, S) \subseteq {p, PACKET_END_CHAR, CheckSum(TRUE)}
    BY FramedIs
  <2> QED
    BY <2>1
<1> HIDE DEF r, f
<1>2. /\ q \o r \in Seq(Symbols) /\ q \o r # <<>>
      /\ Framing(q) => Framing(q \o r)
      /\ Range(q \o r) = Range(q) \cup f
      /\ \A S : Behind(q \o r, S) = Behind(q, S)
                   \cup (IF Range(q) \cap S # {} THEN f ELSE Behind(r, S))
  BY <1>1, Joining
<1>3. \A S : Behind(q \o r, S) \subseteq Behind(q, S) \cup f
  BY <1>0, <1>2
<1>4. ASSUME NEW s, s \notin Range(q) PROVE Behind(q \o r, {s}) = Behind(r, {s})
  <2>1. Range(q) \cap {s} = {}
    BY <1>4
  <2>2. Behind(q, {s}) = {}
    BY <2>1, RangeIs
  <2> QED
    BY <1>2, <2>1, <2>2
<1>5. ASSUME NEW s \in Range(q) PROVE Behind(q \o r, {s}) = Behind(q, {s}) \cup f
  <2>1. Range(q) \cap {s} # {}
    OBVIOUS
  <2> QED
    BY <1>2, <2>1
<1>6. /\ PACKET_END_CHAR \notin Range(q) => Behind(q \o r, {PACKET_END_CHAR}) = {CheckSum(TRUE)}
      /\ \A s \in {ACK_PACKET_DATA, NAK_PACKET_DATA} :
             /\ s \in Range(q) => Behind(q \o r, {s}) = Behind(q, {s}) \cup f
             /\ s \notin Range(q) => Behind(q \o r, {s}) = {}
  BY <1>1, <1>4, <1>5
<1> QED
  BY <1>2, <1>3, <1>6 DEF r, f

\* A text is on the connection with the end of its packet.
LEMMA EndOfText ==
  ASSUME NEW q \in Seq(Symbols), Framing(q), NEW s \in Range(q) \cap Texts
  PROVE  PACKET_END_CHAR \in Range(q)
<1>1. PICK i \in 1 .. Len(q) : q[i].is = "text"
  BY RangeIs, AreSymbols
<1>2. i < Len(q) /\ q[i + 1].is = "#"
  BY <1>1 DEF Framing, Follower
<1>3. i + 1 \in 1 .. Len(q)
  BY <1>2, LenProperties
<1> QED
  BY <1>2, <1>3, RangeIs, KindOf

-----------------------------------------------------------------------------
(* Noise *)

LEMMA SpoiltIs ==
  ASSUME NEW s \in Symbols, Spoilable(s)
  PROVE  /\ Spoilt(s) \in {Junk, CheckSum(FALSE)} /\ Spoilt(s) \in Symbols
         /\ s.is \notin {"text", "#"}
         /\ s.is = "sum" => Spoilt(s).is = "sum"
         /\ Spoilt(s).is \in {"?", "sum"}
<1>1. CASE s = CheckSum(TRUE)
  BY <1>1, AreSymbols DEF Spoilt
<1>2. CASE s # CheckSum(TRUE)
  <2>1. s \in {PACKET_BEGIN_CHAR, ACK_PACKET_DATA, NAK_PACKET_DATA}
    BY <1>2 DEF Spoilable
  <2> QED
    BY <1>2, <2>1, AreSymbols DEF Spoilt
<1> QED
  BY <1>1, <1>2

LEMMA Spoiling ==
  ASSUME NEW q \in Seq(Symbols), NEW i \in 1 .. Len(q), Spoilable(q[i])
  PROVE  LET t == [q EXCEPT ![i] = Spoilt(@)]
             Spoils == {Junk, CheckSum(FALSE)}
         IN  /\ t \in Seq(Symbols) /\ t # <<>>
             /\ Framing(q) => Framing(t)
             /\ Range(t) \subseteq Range(q) \cup Spoils
             /\ \A S : S \cap Spoils = {} => Behind(t, S) \subseteq Behind(q, S) \cup Spoils
             /\ Range(q) \ {q[i]} \subseteq Range(t)
             /\ \A S : q[i] \notin S => Behind(q, S) \ {q[i]} \subseteq Behind(t, S)
<1> DEFINE t == [q EXCEPT ![i] = Spoilt(q[i])]
           Spoils == {Junk, CheckSum(FALSE)}
<1>1. q[i] \in Symbols /\ Len(q) \in Nat
  BY ElementOfSeq, LenProperties
<1>2. /\ Spoilt(q[i]) \in Spoils /\ Spoilt(q[i]) \in Symbols
      /\ q[i].is \notin {"text", "#"}
      /\ q[i].is = "sum" => Spoilt(q[i]).is = "sum"
      /\ Spoilt(q[i]).is \in {"?", "sum"}
  BY <1>1, SpoiltIs
<1>3. /\ t \in Seq(Symbols) /\ Len(t) = Len(q)
      /\ t[i] = Spoilt(q[i])
      /\ \A j \in 1 .. Len(q) : j # i => t[j] = q[j]
  BY <1>2, ExceptSeq
<1>4. t # <<>>
  BY <1>3, EmptySeq
<1> HIDE DEF t, Spoils
<1>5. ASSUME Framing(q) PROVE Framing(t)
  <2> SUFFICES ASSUME NEW j \in 1 .. Len(q), t[j].is \in {"$", "text", "#"}
               PROVE  j < Len(q) /\ t[j + 1].is = Follower[t[j].is]
    BY <1>3 DEF Framing
  <2>1. j # i
    BY <1>2, <1>3
  <2>2. j < Len(q) /\ q[j + 1].is = Follower[t[j].is] /\ j + 1 \in 1 .. Len(q)
    BY <1>1, <1>3, <1>5, <2>1 DEF Framing
  <2>3. CASE j + 1 # i
    BY <1>3, <2>2, <2>3
  <2>4. CASE j + 1 = i
    <3>1. Follower[t[j].is] \in {"text", "#", "sum"}
      BY DEF Follower
    <3> QED
      BY <1>2, <1>3, <2>2, <2>4, <3>1
  <2> QED
    BY <2>3, <2>4
<1>6. Range(t) \subseteq Range(q) \cup Spoils
  BY <1>2, <1>3, RangeIs
<1>7. ASSUME NEW S, S \cap Spoils = {}
      PROVE  Behind(t, S) \subseteq Behind(q, S) \cup Spoils
  <2> SUFFICES ASSUME NEW j \in 1 .. Len(q), NEW k \in 1 .. j - 1, t[k] \in S
               PROVE  t[j] \in Behind(q, S) \cup Spoils
    BY <1>3 DEF Behind
  <2>1. k \in 1 .. Len(q) /\ k # i /\ t[k] = q[k]
    BY <1>1, <1>2, <1>3, <1>7
  <2>2. CASE j = i
    BY <1>2, <1>3, <2>2
  <2>3. CASE j # i
    BY <1>3, <2>1, <2>3 DEF Behind
  <2> QED
    BY <2>2, <2>3
<1>8. ASSUME NEW s \in Range(q), s # q[i] PROVE s \in Range(t)
  BY <1>3, <1>8, RangeIs
<1>9. ASSUME NEW S, q[i] \notin S, NEW s \in Behind(q, S), s # q[i] PROVE s \in Behind(t, S)
  <2>1. PICK j \in 1 .. Len(q) : s = q[j] /\ \E k \in 1 .. j - 1 : q[k] \in S
    BY DEF Behind
  <2>2. PICK k \in 1 .. j - 1 : q[k] \in S
    BY <2>1
  <2>3. k \in 1 .. Len(q) /\ t[k] = q[k] /\ t[j] = q[j]
    BY <1>1, <1>3, <1>9, <2>1, <2>2
  <2> QED
    BY <1>3, <2>1, <2>2, <2>3 DEF Behind
<1> QED
  BY <1>3, <1>4, <1>5, <1>6, <1>7, <1>8, <1>9 DEF t, Spoils

-----------------------------------------------------------------------------
(* Receiving a packet *)

\* There is one "#", and the packet is what stands before it.
LEMMA PacketIs ==
  ASSUME toStub \in Seq(Symbols), Framing(toStub), Once(PACKET_END_CHAR, toStub), Complete
  PROVE  /\ Ends \in 2 .. Len(toStub) /\ toStub[Ends - 1] = PACKET_END_CHAR
         /\ Received \in {"ok", "chksum", "protocol"}
         /\ Received = "ok" => toStub[Ends - 2] \in Range(toStub) \cap Texts
<1> DEFINE q == toStub
           I == {i \in 1 .. Len(q) : q[i] = PACKET_END_CHAR}
           e == Ends
<1>0. Len(q) \in Nat /\ \A i \in 1 .. Len(q) : q[i] \in Symbols
  BY LenProperties, ElementOfSeq
<1>1. e = (IF I # {} THEN Min(I) ELSE 0) + 1 /\ e > 1 /\ e <= Len(q)
  BY DEF Ends, SelectInSeq, Complete
<1>2. I # {}
  BY <1>1
<1>3. Min(I) \in I
  <2>1. I \in SUBSET Nat
    OBVIOUS
  <2> QED
    BY <1>2, <2>1, Smallest
<1>4. e \in 2 .. Len(q) /\ q[e - 1] = PACKET_END_CHAR /\ e - 1 \in 1 .. Len(q)
  <2>1. Min(I) \in 1 .. Len(q) /\ q[Min(I)] = PACKET_END_CHAR /\ e = Min(I) + 1
    BY <1>1, <1>2, <1>3
  <2> HIDE DEF I, e
  <2>2. e - 1 = Min(I)
    BY <2>1
  <2> QED
    BY <1>0, <1>1, <2>1, <2>2
<1>5. ASSUME NEW i \in 1 .. Len(q), q[i] = PACKET_END_CHAR PROVE i = e - 1
  <2>1. i < e - 1 => q[e - 1] \in Behind(q, {PACKET_END_CHAR})
    BY <1>0, <1>4, <1>5 DEF Behind
  <2>2. e - 1 < i => q[i] \in Behind(q, {PACKET_END_CHAR})
    BY <1>0, <1>4, <1>5 DEF Behind
  <2> QED
    BY <1>0, <1>4, <1>5, <2>1, <2>2 DEF Once
<1> DEFINE c == SubSeq(q, 1, e)
           J == {i \in 1 .. Len(c) : c[i] = PACKET_BEGIN_CHAR}
           begin == IF J # {} THEN Max(J) ELSE 0
<1>6. Received = (CASE begin = 0 -> "protocol"
                    [] q[e] = CheckSum(FALSE) -> "chksum"
                    [] OTHER -> "ok")
  BY DEF Received, SelectLastInSeq
<1>7. Len(c) = e /\ \A i \in 1 .. e : c[i] = q[i]
  <2>1. \A i \in 1 .. e : q[i] \in Symbols
    BY <1>0, <1>4
  <2> QED
    BY <1>4, <2>1, SubSeqProperties
<1>8. ASSUME begin # 0 PROVE q[e - 2] \in Range(q) \cap Texts
  <2>1. begin \in J
    <3>1. J # {} /\ begin = Max(J)
      BY <1>8
    <3>2. e \in Nat /\ J \in SUBSET (1 .. e)
      BY <1>4, <1>7
    <3> HIDE DEF J
    <3> QED
      BY <3>1, <3>2, Largest
  <2>2. begin \in 1 .. Len(q) /\ q[begin].is = "$"
    <3>1. begin \in 1 .. e /\ q[begin] = PACKET_BEGIN_CHAR
      BY <1>7, <2>1
    <3> HIDE DEF begin, e
    <3> QED
      BY <1>0, <1>4, <3>1, AreSymbols
  <2> HIDE DEF begin
  <2>3. begin < Len(q) /\ q[begin + 1].is = "text"
    BY <2>2 DEF Framing, Follower
  <2>4. begin + 1 \in 1 .. Len(q)
    BY <1>0, <2>2, <2>3
  <2>5. begin + 1 < Len(q) /\ q[begin + 1 + 1].is = "#"
    BY <2>3, <2>4 DEF Framing, Follower
  <2>6. begin + 1 + 1 = e - 1
    <3>1. begin + 1 + 1 \in 1 .. Len(q)
      BY <1>0, <2>4, <2>5
    <3> QED
      BY <1>0, <1>5, <2>5, <3>1, KindOf
  <2>7. e - 2 = begin + 1
    BY <1>4, <2>2, <2>6
  <2> QED
    BY <1>0, <2>3, <2>4, <2>7, RangeIs, KindOf
<1> HIDE DEF begin, e
<1>9. /\ Received \in {"ok", "chksum", "protocol"}
      /\ Received = "ok" => begin # 0
  BY <1>6
<1> QED
  BY <1>4, <1>8, <1>9 DEF e

LEMMA TakeIs ==
  ASSUME toStub \in Seq(Symbols), Framing(toStub), Once(PACKET_END_CHAR, toStub), Complete,
         TakePacket
  PROVE  /\ toStub' \in Seq(Symbols) /\ Framing(toStub')
         /\ Range(toStub') \subseteq Behind(toStub, {PACKET_END_CHAR})
         /\ \A S : Behind(toStub', S) \subseteq Behind(toStub, S)
<1>1. Ends \in 2 .. Len(toStub) /\ toStub[Ends - 1] = PACKET_END_CHAR /\ Len(toStub) \in Nat
  BY PacketIs, LenProperties
<1>2. PICK last \in Ends .. Len(toStub) : toStub' = SubSeq(toStub, last + 1, Len(toStub))
  BY DEF TakePacket
<1>3. last + 1 \in 1 .. Len(toStub) + 1 /\ Ends - 1 \in 1 .. (last + 1) - 1
  BY <1>1
<1> QED
  BY <1>1, <1>2, <1>3, Cut

-----------------------------------------------------------------------------
(* What every step relies on *)

LEMMA Basics ==
  ASSUME IInv
  PROVE  /\ toStub \in Seq(Symbols) /\ toClient \in Seq(Symbols)
         /\ Framing(toStub) /\ Framing(toClient)
         /\ asked \in Seq(Commands) /\ Len(asked) \in Nat
         /\ packet \in Texts /\ packet.n \in Nat
         /\ reply \in Texts
         /\ Range(toStub) \subseteq Symbols /\ Range(toClient) \subseteq Symbols
         /\ \A S : Behind(toStub, S) \subseteq Range(toStub)
         /\ \A S : Behind(toClient, S) \subseteq Range(toClient)
         /\ \A S : Range(toStub) \cap S = {} => Behind(toStub, S) = {}
         /\ \A S : Range(toClient) \cap S = {} => Behind(toClient, S) = {}
<1>1. /\ toStub \in Seq(Symbols) /\ toClient \in Seq(Symbols)
      /\ asked \in Seq(Commands) /\ packet \in Texts /\ reply \in Texts
      /\ Framing(toStub) /\ Framing(toClient)
  BY DEF IInv, TypeOK, Frames
<1>2. packet.n \in Nat
  BY <1>1 DEF Texts
<1> QED
  BY <1>1, <1>2, LenProperties, RangeIs

LEMMA LastIs ==
  ASSUME NEW a \in Seq(Commands), a # <<>>
  PROVE  /\ Text(Len(a), a[Len(a)]) \in Texts
         /\ Text(Len(a), a[Len(a)]).n = Len(a)
<1>1. Len(a) \in Nat /\ Len(a) \in 1 .. Len(a)
  <2>1. Len(a) \in Nat \ {0}
    BY EmptySeq
  <2> QED
    BY <2>1
<1>2. a[Len(a)] \in Commands
  BY <1>1, ElementOfSeq
<1> QED
  BY <1>1, <1>2 DEF Text, Texts

-----------------------------------------------------------------------------
(* The debugger and the connection *)

\* A command is given when nothing of the last one is left that the stub might
\* take for it.
LEMMA AskInv == ASSUME IInv, loc # "end", NEW c \in Commands, Ask(c), Debugger PROVE IInv'
<1>1. /\ client = "idle" /\ client' = "ack" /\ ~ eof /\ answer' = None
      /\ asked' = Append(asked, c) /\ toStub' = toStub \o Framed(LastCommand')
      /\ UNCHANGED <<toClient, eof, noise, loc, receiving, nr_retry_times, packet, reply,
                     watchPointPCs, core, done, errors, unacknowledged>>
  BY DEF Ask, Debugger, stub, history
<1>2. /\ asked' \in Seq(Commands) /\ asked' # <<>>
      /\ Len(asked') = Len(asked) + 1
  BY <1>1, Basics
<1> DEFINE p == LastCommand'
<1>3. p \in Texts /\ p.n = Len(asked')
  BY <1>2, LastIs DEF LastCommand
<1>4. PACKET_END_CHAR \notin Range(toStub) /\ Range(toStub) \cap Texts = {}
  BY <1>1, Basics, EndOfText DEF IInv, OneCopy
<1> HIDE DEF p
<1>5. toStub' = toStub \o Framed(p)
  BY <1>1 DEF p
<1>6. /\ toStub' \in Seq(Symbols) /\ Framing(toStub')
      /\ Range(toStub') = Range(toStub) \cup
                              {PACKET_BEGIN_CHAR, p, PACKET_END_CHAR, CheckSum(TRUE)}
      /\ Behind(toStub', {PACKET_END_CHAR}) = {CheckSum(TRUE)}
  BY <1>3, <1>4, <1>5, Basics, Sending
<1>7. Range(toClient) \cap {ACK_PACKET_DATA} = {}
  BY <1>1 DEF IInv, OneCopy
<1>8. packet.n <= Len(asked) /\ ~ Taken'
  BY <1>1, <1>2, Basics DEF IInv, LastPacket, Taken
<1>9. TypeOK'
  <2>1. answer' \in Texts
    BY <1>1 DEF None, Text, Texts, Replies
  <2> QED
    BY <1>1, <1>2, <1>6, <2>1 DEF IInv, TypeOK
<1>10. Frames'
  BY <1>1, <1>6, Basics DEF Frames
<1>11. OneCopy'
  BY <1>1, <1>2, <1>4, <1>6, <1>8, AreSymbols DEF IInv, OneCopy, Once
<1>12. LastPacket'
  <2>1. ASSUME NEW s \in Range(toStub') \cap Texts PROVE s = p
    BY <1>4, <1>6, <2>1, AreSymbols
  <2> QED
    BY <1>1, <1>2, <1>8, <2>1, Basics DEF p, LastPacket
<1>13. LastReply'
  <2>1. Behind(toClient, {ACK_PACKET_DATA}) = {}
    BY <1>7, Basics
  <2> QED
    BY <1>1, <2>1 DEF IInv, LastReply
<1>14. Executed'
  BY <1>1 DEF IInv, Executed
<1>15. Answers'
  BY <1>1, <1>6, <1>8, AreSymbols DEF IInv, Answers, Waiting
<1>16. Counted' /\ EndsForACause' /\ EffectsInOrder'
  BY <1>1 DEF IInv, Counted, EndsForACause, EffectsInOrder
<1> QED
  BY <1>9, <1>10, <1>11, <1>12, <1>13, <1>14, <1>15, <1>16 DEF IInv

LEMMA ReadAckInv == ASSUME IInv, loc # "end", ReadAck, Debugger PROVE IInv'
<1>1. /\ client = "ack" /\ toClient # <<>> /\ toClient' = Tail(toClient)
      /\ client' = IF Head(toClient) = ACK_PACKET_DATA THEN "reply" ELSE "ack"
      /\ toStub' = IF Head(toClient) = NAK_PACKET_DATA THEN toStub \o Framed(LastCommand)
                   ELSE toStub
      /\ UNCHANGED <<eof, asked, noise, answer, loc, receiving, nr_retry_times, packet, reply,
                     watchPointPCs, core, done, errors, unacknowledged>>
  BY DEF ReadAck, Debugger, stub, history
<1> DEFINE h == Head(toClient)
           c == LastCommand
<1>2. /\ toClient' \in Seq(Symbols) /\ Framing(toClient')
      /\ Range(toClient) = {h} \cup Range(toClient')
      /\ \A S : Behind(toClient, S) = Behind(toClient', S)
                    \cup (IF h \in S THEN Range(toClient') ELSE {})
      /\ \A S : Behind(toClient', S) \subseteq Range(toClient')
  BY <1>1, Basics, Taking, RangeIs
<1>3. c \in Texts /\ LastCommand' = c
  BY <1>1, Basics, LastIs DEF IInv, OneCopy, LastCommand
<1> HIDE DEF h, c
<1>4. /\ toStub' = IF h = NAK_PACKET_DATA THEN toStub \o Framed(c) ELSE toStub
      /\ client' = IF h = ACK_PACKET_DATA THEN "reply" ELSE "ack"
  BY <1>1 DEF h, c
<1>5. ASSUME h = ACK_PACKET_DATA
      PROVE  /\ client' = "reply" /\ toStub' = toStub /\ Taken
             /\ PACKET_END_CHAR \notin Range(toStub) /\ NAK_PACKET_DATA \notin Range(toClient)
             /\ Range(toClient') = Behind(toClient, {ACK_PACKET_DATA})
  <2>1. client' = "reply" /\ toStub' = toStub
    BY <1>4, <1>5, AreSymbols
  <2>2. Taken
    BY <1>2, <1>5 DEF IInv, OneCopy
  <2>3. PACKET_END_CHAR \notin Range(toStub) /\ NAK_PACKET_DATA \notin Range(toClient)
    BY <2>2 DEF IInv, OneCopy
  <2>4. Range(toClient') = Behind(toClient, {ACK_PACKET_DATA})
    BY <1>2, <1>5
  <2> QED
    BY <2>1, <2>2, <2>3, <2>4
<1>6. ASSUME h = NAK_PACKET_DATA
      PROVE  /\ client' = "ack" /\ ~ Taken /\ NAK_PACKET_DATA \notin Range(toClient')
             /\ toStub' = toStub \o Framed(c)
             /\ PACKET_END_CHAR \notin Range(toStub) /\ Range(toStub) \cap Texts = {}
  <2>1. client' = "ack" /\ toStub' = toStub \o Framed(c)
    BY <1>4, <1>6, AreSymbols
  <2>2. NAK_PACKET_DATA \in Range(toClient) /\ NAK_PACKET_DATA \notin Range(toClient')
    BY <1>2, <1>6 DEF IInv, OneCopy, Once
  <2>3. ~ Taken /\ PACKET_END_CHAR \notin Range(toStub)
    BY <2>2, Basics DEF IInv, OneCopy
  <2> QED
    BY <2>1, <2>2, <2>3, Basics, EndOfText
<1>7. ASSUME h # ACK_PACKET_DATA, h # NAK_PACKET_DATA
      PROVE  client' = "ack" /\ toStub' = toStub
  BY <1>4, <1>7
<1>8. ASSUME h = NAK_PACKET_DATA
      PROVE  /\ toStub' \in Seq(Symbols) /\ Framing(toStub')
             /\ Range(toStub') = Range(toStub) \cup
                                    {PACKET_BEGIN_CHAR, c, PACKET_END_CHAR, CheckSum(TRUE)}
             /\ Behind(toStub', {PACKET_END_CHAR}) = {CheckSum(TRUE)}
  <2>1. toStub \in Seq(Symbols) /\ Framing(toStub)
    BY Basics
  <2>2. toStub' = toStub \o Framed(c) /\ PACKET_END_CHAR \notin Range(toStub)
    BY <1>6, <1>8
  <2> QED
    BY <1>3, <2>1, <2>2, Sending
<1>9. TypeOK' /\ Frames'
  <2>1. client' \in {"ack", "reply"}
    BY <1>4
  <2>2. toStub' \in Seq(Symbols) /\ Framing(toStub')
    BY <1>4, <1>8, Basics
  <2> QED
    BY <1>1, <1>2, <2>1, <2>2 DEF IInv, TypeOK, Frames
<1>10. OneCopy'
  <2>0. Taken' <=> Taken
    BY <1>1 DEF Taken
  <2>1. CASE h = ACK_PACKET_DATA
    BY <1>1, <1>2, <1>5, <2>0, <2>1 DEF IInv, OneCopy, Once
  <2>2. CASE h = NAK_PACKET_DATA
    <3>1. ACK_PACKET_DATA \notin Range(toClient)
      BY <1>6, <2>2 DEF IInv, OneCopy
    <3> QED
      BY <1>1, <1>2, <1>6, <1>8, <2>0, <2>2, <3>1, AreSymbols DEF IInv, OneCopy, Once
  <2>3. CASE h # ACK_PACKET_DATA /\ h # NAK_PACKET_DATA
    BY <1>1, <1>2, <1>7, <2>0, <2>3 DEF IInv, OneCopy, Once
  <2> QED
    BY <2>1, <2>2, <2>3
<1>11. LastPacket'
  <2>1. ASSUME NEW s \in Range(toStub') \cap Texts PROVE s = c
    <3>1. CASE h = NAK_PACKET_DATA
      BY <1>6, <1>8, <2>1, <3>1, AreSymbols
    <3>2. CASE h # NAK_PACKET_DATA
      BY <1>4, <2>1, <3>2 DEF IInv, LastPacket, c
    <3> QED
      BY <3>1, <3>2
  <2> QED
    BY <1>1, <1>3, <2>1 DEF IInv, LastPacket, Taken, c
<1>12. LastReply'
  <2>0. Taken' <=> Taken
    BY <1>1 DEF Taken
  <2>1. CASE h = ACK_PACKET_DATA
    BY <1>1, <1>2, <1>5, <2>0, <2>1 DEF IInv, LastReply
  <2>2. CASE h # ACK_PACKET_DATA
    BY <1>1, <1>2, <1>4, <2>0, <2>2 DEF IInv, LastReply
  <2> QED
    BY <2>1, <2>2
<1>13. Answers'
  <2>0. Taken' <=> Taken
    BY <1>1 DEF Taken
  <2>1. CASE h = ACK_PACKET_DATA
    <3>1. Coming' = Coming /\ (Waiting' <=> Waiting)
      BY <1>1, <1>5, <2>0, <2>1 DEF Coming, Waiting
    <3> QED
      BY <1>1, <1>5, <2>1, <3>1 DEF IInv, Answers
  <2>2. CASE h = NAK_PACKET_DATA
    BY <1>1, <1>6, <1>8, <2>0, <2>2, AreSymbols DEF Answers, Waiting
  <2>3. CASE h # ACK_PACKET_DATA /\ h # NAK_PACKET_DATA
    <3>1. Behind(toClient', {ACK_PACKET_DATA}) = Behind(toClient, {ACK_PACKET_DATA})
      BY <1>2, <2>3
    <3>2. Coming' = Coming /\ (Waiting' <=> Waiting)
      BY <1>1, <1>7, <2>0, <2>3, <3>1 DEF Coming, Waiting
    <3> QED
      BY <1>1, <1>7, <2>3, <3>2 DEF IInv, Answers
  <2> QED
    BY <2>1, <2>2, <2>3
<1>14. Executed' /\ Counted' /\ EndsForACause' /\ EffectsInOrder'
  BY <1>1 DEF IInv, Executed, Counted, EndsForACause, EffectsInOrder
<1> QED
  BY <1>9, <1>10, <1>11, <1>12, <1>13, <1>14 DEF IInv

\* The packet in front: its text, and what is left when it is read.
LEMMA PacketInFront ==
  ASSUME NEW q \in Seq(Symbols), Framing(q), q # <<>>, Head(q) = PACKET_BEGIN_CHAR
  PROVE  LET c == SubSeq(q, 5, Len(q))
         IN  /\ q[2] \in Range(q) \cap Texts
             /\ c \in Seq(Symbols) /\ Framing(c) /\ Range(c) \subseteq Range(q)
             /\ \A S : Behind(c, S) \subseteq Behind(q, S)
             /\ \A S : q[2] \in S => Range(c) \subseteq Behind(q, S)
<1>1. Len(q) \in Nat \ {0} /\ q[1].is = "$"
  BY Taking, LenProperties, EmptySeq, AreSymbols
<1>2. 1 < Len(q) /\ q[1 + 1].is = "text"
  <2>1. 1 \in 1 .. Len(q) /\ q[1].is = "$"
    BY <1>1
  <2> QED
    BY <2>1 DEF Framing, Follower
<1>3. 2 < Len(q) /\ q[2 + 1].is = "#"
  <2>1. 2 \in 1 .. Len(q) /\ q[2].is = "text"
    BY <1>1, <1>2
  <2> QED
    BY <2>1 DEF Framing, Follower
<1>4. 3 < Len(q)
  <2>1. 3 \in 1 .. Len(q) /\ q[3].is = "#"
    BY <1>1, <1>3
  <2> QED
    BY <2>1 DEF Framing
<1>5. 5 \in 1 .. Len(q) + 1 /\ 2 \in 1 .. 5 - 1
  BY <1>1, <1>4
<1>6. q[2] \in Range(q) /\ q[2] \in Texts
  <2>1. 2 \in 1 .. Len(q) /\ q[2].is = "text"
    BY <1>1, <1>2
  <2> QED
    BY <2>1, RangeIs, KindOf
<1> QED
  BY <1>5, <1>6, Cut

\* The reply the debugger takes is the one to its last command, and the stub has
\* executed it.
LEMMA ReadReplyInv == ASSUME IInv, loc # "end", ReadReply, Debugger PROVE IInv'
<1>1. /\ client = "reply" /\ toClient # <<>> /\ Taken
      /\ PACKET_END_CHAR \notin Range(toStub) /\ NAK_PACKET_DATA \notin Range(toClient)
      /\ asked # <<>> /\ ~ eof
  BY DEF ReadReply, IInv, OneCopy
<1>2. /\ UNCHANGED <<eof, asked, noise, loc, receiving, nr_retry_times, packet, reply,
                     watchPointPCs, core, done, errors, unacknowledged>>
      /\ Taken' <=> Taken
      /\ LastCommand' = LastCommand
  BY DEF ReadReply, Debugger, stub, history, Taken, LastCommand
<1> DEFINE begins == Head(toClient) = PACKET_BEGIN_CHAR
           right == toClient[4] = CheckSum(TRUE)
<1>3. /\ toClient' = SubSeq(toClient, IF begins THEN 5 ELSE 2, Len(toClient))
      /\ toStub' = IF ~ begins THEN toStub
                   ELSE Append(toStub, IF right THEN ACK_PACKET_DATA ELSE NAK_PACKET_DATA)
      /\ client' = IF begins /\ right THEN "idle" ELSE client
      /\ answer' = IF begins /\ right THEN toClient[2] ELSE answer
  BY DEF ReadReply
<1>4. /\ toClient' \in Seq(Symbols) /\ Framing(toClient')
      /\ Range(toClient') \subseteq Range(toClient)
      /\ \A S : Behind(toClient', S) \subseteq Behind(toClient, S)
  <2>1. CASE begins
    BY <1>1, <1>3, <2>1, Basics, PacketInFront
  <2>2. CASE ~ begins
    <3>1. toClient' = Tail(toClient)
      BY <1>1, <1>3, <2>2, Basics, TailIsSubSeq
    <3> QED
      BY <1>1, <3>1, Basics, Taking
  <2> QED
    BY <2>1, <2>2
<1>5. ASSUME ~ begins
      PROVE  PACKET_BEGIN_CHAR \in Range(toClient) => PACKET_BEGIN_CHAR \in Range(toClient')
  <2>1. toClient' = Tail(toClient)
    BY <1>1, <1>3, <1>5, Basics, TailIsSubSeq
  <2>2. Range(toClient) = {Head(toClient)} \cup Range(toClient')
    BY <1>1, <2>1, Basics, Taking
  <2> QED
    BY <1>5, <2>2
<1>6. ASSUME begins
      PROVE  /\ toClient[2] \in Texts /\ toClient[2].n = packet.n
             /\ loc \notin {"cmd", "step"}
             /\ ACK_PACKET_DATA \notin Range(toClient')
  <2>1. toClient[2] \in Range(toClient) \cap Texts
    BY <1>1, <1>6, Basics, PacketInFront
  <2>2. toClient[2].n = packet.n /\ loc \notin {"cmd", "step"}
    BY <1>1, <2>1, Basics DEF IInv, LastReply
  <2> DEFINE S == {s \in Texts : s.n = packet.n}
  <2>3. toClient[2] \in S
    BY <2>1, <2>2
  <2> HIDE DEF S
  <2>4. Range(toClient') \subseteq Behind(toClient, S)
    BY <1>1, <1>3, <1>6, <2>3, Basics, PacketInFront
  <2>5. ACK_PACKET_DATA \notin Behind(toClient, S)
    BY DEF S, IInv, LastReply
  <2> QED
    BY <2>1, <2>2, <2>4, <2>5
<1> DEFINE says == IF right THEN ACK_PACKET_DATA ELSE NAK_PACKET_DATA
<1>7. /\ says \in {ACK_PACKET_DATA, NAK_PACKET_DATA} /\ ACK_PACKET_DATA # NAK_PACKET_DATA
      /\ says \in Symbols /\ says.is \notin {"$", "text", "#"}
      /\ right <=> says = ACK_PACKET_DATA
  BY AreSymbols
<1>8. /\ toStub' = IF begins THEN Append(toStub, says) ELSE toStub
      /\ client' = IF begins /\ says = ACK_PACKET_DATA THEN "idle" ELSE "reply"
      /\ answer' = IF begins /\ says = ACK_PACKET_DATA THEN toClient[2] ELSE answer
  BY <1>1, <1>3, <1>7
<1> HIDE DEF begins, right, says
<1>9. begins => /\ toStub' \in Seq(Symbols) /\ Framing(toStub') /\ toStub' # <<>>
                /\ Range(toStub') = Range(toStub) \cup {says}
                /\ Behind(toStub', {PACKET_END_CHAR}) = {}
  <2>1. ASSUME begins
        PROVE  /\ toStub' = Append(toStub, says)
               /\ Range(toStub) \cap {PACKET_END_CHAR} = {}
    BY <1>1, <1>8, <2>1
  <2>2. Behind(toStub, {PACKET_END_CHAR}) = {}
    BY <1>1, Basics
  <2>3. /\ toStub \in Seq(Symbols) /\ Framing(toStub)
        /\ says \in Symbols /\ says.is \notin {"$", "text", "#"}
    BY <1>7, Basics
  <2>4. /\ Append(toStub, says) \in Seq(Symbols) /\ Framing(Append(toStub, says))
        /\ Append(toStub, says) # <<>>
        /\ Range(Append(toStub, says)) = Range(toStub) \cup {says}
        /\ Behind(Append(toStub, says), {PACKET_END_CHAR}) =
               Behind(toStub, {PACKET_END_CHAR}) \cup
               (IF Range(toStub) \cap {PACKET_END_CHAR} # {} THEN {says} ELSE {})
    BY <2>3, Adding
  <2> QED
    BY <2>1, <2>2, <2>4
<1>10. TypeOK' /\ Frames'
  <2>1. client' \in {"reply", "idle"}
    BY <1>8
  <2>2. toStub' \in Seq(Symbols) /\ Framing(toStub')
    BY <1>8, <1>9, Basics
  <2>3. answer' \in Texts
    BY <1>6, <1>8 DEF IInv, TypeOK
  <2> QED
    BY <1>2, <1>4, <2>1, <2>2, <2>3 DEF IInv, TypeOK, Frames
<1>11. OneCopy'
  <2>1. PACKET_END_CHAR \notin Range(toStub')
    BY <1>1, <1>7, <1>8, <1>9, AreSymbols
  <2>2. Behind(toStub', {PACKET_END_CHAR}) = {}
    BY <1>1, <1>8, <1>9, Basics
  <2>3. NAK_PACKET_DATA \notin Range(toClient') /\ Once(NAK_PACKET_DATA, toClient')
    BY <1>1, <1>4, Basics DEF Once
  <2>4. ACK_PACKET_DATA \in Range(toClient') => client' # "idle"
    BY <1>6, <1>8
  <2> QED
    BY <1>1, <1>2, <1>8, <2>1, <2>2, <2>3, <2>4 DEF OneCopy, Once
<1>12. LastPacket'
  <2>1. Range(toStub') \cap Texts = Range(toStub) \cap Texts
    BY <1>7, <1>8, <1>9, AreSymbols
  <2> QED
    BY <1>2, <2>1 DEF IInv, LastPacket
<1>13. LastReply'
  <2>1. loc \in {"cmd", "step"} => client' # "idle"
    BY <1>6, <1>8
  <2> QED
    BY <1>1, <1>2, <1>4, <1>8, <2>1 DEF IInv, LastReply
<1>14. Answers'
  <2>1. CASE begins
    <3>1. Waiting' => says = NAK_PACKET_DATA
      BY <1>7, <1>8, <2>1 DEF Waiting
    <3>2. says = NAK_PACKET_DATA => (ACK_PACKET_DATA \in Range(toStub') =>
                                         ACK_PACKET_DATA \in Range(toStub))
      BY <1>7, <1>9, <2>1
    <3>3. Waiting
      BY <1>1 DEF Waiting
    <3> QED
      BY <1>2, <1>9, <2>1, <3>1, <3>2, <3>3 DEF IInv, Answers
  <2>2. CASE ~ begins
    <3>1. Coming = Range(toClient) /\ Coming' = Range(toClient')
      BY <1>1, <1>8, <2>2 DEF Coming
    <3> QED
      BY <1>1, <1>2, <1>5, <1>8, <2>2, <3>1 DEF IInv, Answers, Waiting
  <2> QED
    BY <2>1, <2>2
<1>15. EffectsInOrder'
  <2>1. packet.n = Len(asked) /\ packet.n > 0
    <3>1. Len(asked) # 0
      BY <1>1, Basics, EmptySeq
    <3> QED
      BY <1>1, <3>1, Basics DEF Taken
  <2>2. CASE begins /\ says = ACK_PACKET_DATA
    <3>1. Contains(done, packet.n)
      BY <1>6, <2>1, <2>2 DEF IInv, Executed
    <3>2. answer'.n = packet.n
      BY <1>6, <1>8, <2>2
    <3> QED
      BY <1>2, <2>1, <3>1, <3>2 DEF IInv, EffectsInOrder
  <2>3. CASE ~ (begins /\ says = ACK_PACKET_DATA)
    BY <1>2, <1>8, <2>3 DEF IInv, EffectsInOrder
  <2> QED
    BY <2>2, <2>3
<1>16. Executed' /\ Counted' /\ EndsForACause'
  BY <1>2 DEF IInv, Executed, Counted, EndsForACause
<1> QED
  BY <1>10, <1>11, <1>12, <1>13, <1>14, <1>15, <1>16 DEF IInv

\* What holds of the packet's end on the connection: it is all there.
LEMMA EndComplete ==
  ASSUME toStub \in Seq(Symbols), Framing(toStub), PACKET_END_CHAR \in Range(toStub)
  PROVE  Complete
<1> DEFINE q == toStub
           I == {i \in 1 .. Len(q) : q[i] = PACKET_END_CHAR}
<1>1. I # {} /\ I \in SUBSET Nat
  BY RangeIs
<1>2. Min(I) \in I
  BY <1>1, Smallest
<1>3. Ends = Min(I) + 1
  BY <1>1 DEF Ends, SelectInSeq
<1>4. Min(I) \in 1 .. Len(q) /\ q[Min(I)].is = "#"
  BY <1>2, AreSymbols
<1> HIDE DEF I
<1>5. Min(I) < Len(q)
  BY <1>4 DEF Framing
<1> QED
  BY <1>3, <1>4, <1>5, LenProperties DEF Complete

LEMMA TimeoutInv == ASSUME IInv, loc # "end", Timeout, Debugger PROVE IInv'
<1>1. /\ toClient = <<>> /\ client # "idle"
      /\ \/ loc = "recv" /\ ~ Complete
         \/ loc = "ack" /\ toStub = <<>>
      /\ UNCHANGED <<toClient, eof, asked, noise, answer, loc, receiving, nr_retry_times, packet,
                     reply, watchPointPCs, core, done, errors, unacknowledged>>
      /\ toStub' = IF client = "ack" THEN toStub \o Framed(LastCommand) ELSE toStub
      /\ client' = IF client = "ack" THEN "ack" ELSE "idle"
  BY DEF Timeout, Silence, Debugger, stub, history
<1>2. LastCommand' = LastCommand /\ (Taken' <=> Taken)
  BY <1>1 DEF LastCommand, Taken
<1>3. Range(toClient) = {} /\ \A S : Behind(toClient, S) = {}
  <2>1. Range(toClient) = {}
    <3>1. toClient \in Seq(Symbols) /\ 1 .. Len(toClient) = {}
      BY <1>1, Basics
    <3> QED
      BY <3>1, RangeIs
  <2> QED
    BY <2>1, Basics
<1>4. Executed' /\ Counted' /\ EndsForACause' /\ EffectsInOrder'
  BY <1>1 DEF IInv, Executed, Counted, EndsForACause, EffectsInOrder
<1>5. CASE client = "ack"
  <2> DEFINE c == LastCommand
  <2>1. client' = "ack" /\ ~ Taken
    BY <1>1, <1>3, <1>5 DEF IInv, OneCopy
  <2>2. c \in Texts
    BY <1>1, Basics, LastIs DEF IInv, OneCopy, LastCommand
  <2>3. PACKET_END_CHAR \notin Range(toStub)
    BY <1>1, Basics, EndComplete, EmptySeq, RangeIs
  <2>4. Range(toStub) \cap Texts = {}
    BY <2>3, Basics, EndOfText
  <2> HIDE DEF c
  <2>5. toStub' = toStub \o Framed(c) /\ toStub \in Seq(Symbols) /\ Framing(toStub)
    BY <1>1, <1>5, Basics DEF c
  <2>6. /\ toStub' \in Seq(Symbols) /\ Framing(toStub')
        /\ Range(toStub') = Range(toStub) \cup
                                {PACKET_BEGIN_CHAR, c, PACKET_END_CHAR, CheckSum(TRUE)}
        /\ Behind(toStub', {PACKET_END_CHAR}) = {CheckSum(TRUE)}
    BY <2>2, <2>3, <2>5, Sending
  <2>7. TypeOK' /\ Frames'
    BY <1>1, <2>1, <2>6 DEF IInv, TypeOK, Frames
  <2>8. OneCopy'
    BY <1>1, <1>2, <1>3, <1>5, <2>1, <2>6, AreSymbols DEF IInv, OneCopy, Once
  <2>9. LastPacket'
    <3>1. ASSUME NEW s \in Range(toStub') \cap Texts PROVE s = c
      BY <2>4, <2>6, <3>1, AreSymbols
    <3> QED
      BY <1>1, <1>2, <3>1 DEF IInv, LastPacket, Taken, c
  <2>10. LastReply'
    BY <1>1, <1>2, <1>3, <1>5, <2>1 DEF IInv, LastReply
  <2>11. Answers'
    BY <1>1, <1>2, <2>1, <2>6, AreSymbols DEF Answers, Waiting
  <2> QED
    BY <1>4, <2>7, <2>8, <2>9, <2>10, <2>11 DEF IInv
<1>6. CASE client # "ack"
  <2>1. client' = "idle" /\ toStub' = toStub
    BY <1>1, <1>6
  <2>2. TypeOK' /\ Frames'
    BY <1>1, <2>1 DEF IInv, TypeOK, Frames
  <2>3. OneCopy'
    BY <1>1, <1>2, <1>3, <1>6, <2>1 DEF IInv, OneCopy, Once
  <2>4. LastPacket'
    BY <1>1, <1>2, <2>1 DEF IInv, LastPacket
  <2>5. LastReply'
    BY <1>1, <1>3, <2>1 DEF IInv, LastReply
  <2>6. Answers'
    BY <2>1 DEF IInv, Answers, Waiting
  <2> QED
    BY <1>4, <2>2, <2>3, <2>4, <2>5, <2>6 DEF IInv
<1> QED
  BY <1>5, <1>6

LEMMA InterruptInv == ASSUME IInv, loc # "end", Interrupt, Debugger PROVE IInv'
<1>1. /\ client = "reply" /\ noise < MaxNoise /\ noise' = noise + 1
      /\ toStub' = Append(toStub, Junk)
      /\ UNCHANGED <<toClient, eof, client, asked, answer, loc, receiving, nr_retry_times, packet,
                     reply, watchPointPCs, core, done, errors, unacknowledged>>
  BY DEF Interrupt, Debugger, stub, history
<1>2. LastCommand' = LastCommand /\ (Taken' <=> Taken) /\ Taken
  BY <1>1 DEF IInv, OneCopy, LastCommand, Taken
<1>3. PACKET_END_CHAR \notin Range(toStub)
  BY <1>2 DEF IInv, OneCopy
<1>4. /\ toStub' \in Seq(Symbols) /\ Framing(toStub') /\ toStub' # <<>>
      /\ Range(toStub') = Range(toStub) \cup {Junk}
      /\ Behind(toStub', {PACKET_END_CHAR}) = {}
  <2>1. Junk \in Symbols /\ Junk.is \notin {"$", "text", "#"}
    BY AreSymbols
  <2>2. Range(toStub) \cap {PACKET_END_CHAR} = {} /\ Behind(toStub, {PACKET_END_CHAR}) = {}
    BY <1>3, Basics
  <2> DEFINE t == Append(toStub, Junk)
  <2>3. /\ t \in Seq(Symbols) /\ t # <<>> /\ Range(t) = Range(toStub) \cup {Junk}
        /\ Framing(toStub) => Framing(t)
        /\ Behind(t, {PACKET_END_CHAR}) = Behind(toStub, {PACKET_END_CHAR}) \cup
               (IF Range(toStub) \cap {PACKET_END_CHAR} # {} THEN {Junk} ELSE {})
    BY <2>1, Basics, Adding
  <2> HIDE DEF t
  <2>4. toStub' = t
    BY <1>1 DEF t
  <2> QED
    BY <2>2, <2>3, <2>4, Basics
<1>5. Junk \notin {PACKET_END_CHAR, ACK_PACKET_DATA} \cup Texts
  BY AreSymbols
<1>6. TypeOK' /\ Frames'
  <2>1. noise' \in 0 .. MaxNoise
    BY <1>1, GDBStubAssumption DEF IInv, TypeOK
  <2> QED
    BY <1>1, <1>4, <2>1 DEF IInv, TypeOK, Frames
<1>7. OneCopy'
  BY <1>1, <1>2, <1>3, <1>4, <1>5 DEF IInv, OneCopy, Once
<1>8. LastPacket'
  BY <1>1, <1>2, <1>4, <1>5 DEF IInv, LastPacket
<1>9. LastReply'
  BY <1>1, <1>2 DEF IInv, LastReply
<1>10. Answers'
  BY <1>1, <1>2, <1>4, <1>5 DEF IInv, Answers, Waiting, Coming
<1>11. Executed' /\ Counted' /\ EndsForACause' /\ EffectsInOrder'
  BY <1>1 DEF IInv, Executed, Counted, EndsForACause, EffectsInOrder
<1> QED
  BY <1>6, <1>7, <1>8, <1>9, <1>10, <1>11 DEF IInv

LEMMA LeaveInv == ASSUME IInv, loc # "end", Leave, Debugger PROVE IInv'
<1>1. /\ client = "idle" /\ eof' = TRUE
      /\ UNCHANGED <<toStub, toClient, client, asked, noise, answer, loc, receiving,
                     nr_retry_times, packet, reply, watchPointPCs, core, done, errors,
                     unacknowledged>>
  BY DEF Leave, Debugger, stub, history
<1>2. LastCommand' = LastCommand /\ (Taken' <=> Taken)
  BY <1>1 DEF LastCommand, Taken
<1>3. TypeOK' /\ Frames'
  BY <1>1 DEF IInv, TypeOK, Frames
<1>4. OneCopy' /\ LastPacket'
  BY <1>1, <1>2 DEF IInv, OneCopy, LastPacket
<1>5. LastReply'
  BY <1>1, <1>2 DEF IInv, LastReply
<1>6. Answers'
  BY <1>1, <1>2 DEF IInv, Answers, Waiting
<1>7. Executed' /\ Counted' /\ EndsForACause' /\ EffectsInOrder'
  BY <1>1 DEF IInv, Executed, Counted, EndsForACause, EffectsInOrder
<1> QED
  BY <1>3, <1>4, <1>5, <1>6, <1>7 DEF IInv

\* Noise makes nothing that either side could take for a packet or for an
\* acknowledgement, and spares the acknowledgements of the stub.
LEMMA NoiseInv == ASSUME IInv, loc # "end", Noise, Debugger PROVE IInv'
<1>1. /\ noise < MaxNoise /\ noise' = noise + 1
      /\ UNCHANGED <<eof, client, asked, answer, loc, receiving, nr_retry_times, packet,
                     reply, watchPointPCs, core, done, errors, unacknowledged>>
      /\ \/ \E i \in DOMAIN toStub : /\ Spoilable(toStub[i])
                                     /\ toStub' = [toStub EXCEPT ![i] = Spoilt(@)]
            /\ UNCHANGED toClient
         \/ \E i \in DOMAIN toClient : /\ toClient[i] = CheckSum(TRUE)
                                       /\ toClient' = [toClient EXCEPT ![i] = Spoilt(@)]
            /\ UNCHANGED toStub
  BY DEF Noise, Debugger, stub, history
<1>2. LastCommand' = LastCommand /\ (Taken' <=> Taken) /\ (Waiting' <=> Waiting)
  BY <1>1 DEF LastCommand, Taken, Waiting
<1>3. noise' \in 0 .. MaxNoise
  BY <1>1, GDBStubAssumption DEF IInv, TypeOK
<1>4. DOMAIN toStub = 1 .. Len(toStub) /\ DOMAIN toClient = 1 .. Len(toClient)
  BY Basics, LenProperties
<1>5. Executed' /\ Counted' /\ EndsForACause' /\ EffectsInOrder'
  BY <1>1 DEF IInv, Executed, Counted, EndsForACause, EffectsInOrder
<1> DEFINE Spoils == {Junk, CheckSum(FALSE)}
<1>6. /\ PACKET_END_CHAR \notin Spoils /\ ACK_PACKET_DATA \notin Spoils
      /\ NAK_PACKET_DATA \notin Spoils /\ Texts \cap Spoils = {}
  BY AreSymbols
<1>7. CASE UNCHANGED toClient /\ \E i \in DOMAIN toStub :
                  /\ Spoilable(toStub[i])
                  /\ toStub' = [toStub EXCEPT ![i] = Spoilt(@)]
  <2>1. PICK i \in 1 .. Len(toStub) : /\ Spoilable(toStub[i])
                                      /\ toStub' = [toStub EXCEPT ![i] = Spoilt(@)]
    BY <1>4, <1>7
  <2>2. /\ toStub' \in Seq(Symbols) /\ Framing(toStub') /\ toStub' # <<>>
        /\ Range(toStub') \subseteq Range(toStub) \cup Spoils
        /\ \A S : S \cap Spoils = {} => Behind(toStub', S) \subseteq Behind(toStub, S) \cup Spoils
    BY <2>1, Basics, Spoiling
  <2> HIDE DEF Spoils
  <2>3. Behind(toStub', {PACKET_END_CHAR}) \subseteq Behind(toStub, {PACKET_END_CHAR}) \cup Spoils
    BY <1>6, <2>2
  <2>4. TypeOK' /\ Frames'
    BY <1>1, <1>3, <1>7, <2>2 DEF IInv, TypeOK, Frames
  <2>5. OneCopy'
    BY <1>1, <1>2, <1>6, <1>7, <2>2, <2>3 DEF IInv, OneCopy, Once
  <2>6. LastPacket'
    BY <1>1, <1>2, <1>6, <2>2 DEF IInv, LastPacket
  <2>7. LastReply'
    BY <1>1, <1>2, <1>7 DEF IInv, LastReply
  <2>8. Answers'
    <3>1. Coming' = Coming
      BY <1>1, <1>7 DEF Coming
    <3> QED
      BY <1>1, <1>2, <1>6, <2>2, <2>3, <3>1 DEF IInv, Answers
  <2> QED
    BY <1>5, <2>4, <2>5, <2>6, <2>7, <2>8 DEF IInv
<1>8. CASE UNCHANGED toStub /\ \E i \in DOMAIN toClient :
                  /\ toClient[i] = CheckSum(TRUE)
                  /\ toClient' = [toClient EXCEPT ![i] = Spoilt(@)]
  <2>1. PICK i \in 1 .. Len(toClient) : /\ toClient[i] = CheckSum(TRUE)
                                        /\ toClient' = [toClient EXCEPT ![i] = Spoilt(@)]
    BY <1>4, <1>8
  <2>2. Spoilable(toClient[i])
    BY <2>1 DEF Spoilable
  <2>3. /\ toClient' \in Seq(Symbols) /\ Framing(toClient')
        /\ Range(toClient') \subseteq Range(toClient) \cup Spoils
        /\ \A S : S \cap Spoils = {} =>
                      Behind(toClient', S) \subseteq Behind(toClient, S) \cup Spoils
        /\ Range(toClient) \ {CheckSum(TRUE)} \subseteq Range(toClient')
        /\ \A S : CheckSum(TRUE) \notin S =>
                      Behind(toClient, S) \ {CheckSum(TRUE)} \subseteq Behind(toClient', S)
    <3>1. toClient \in Seq(Symbols) /\ Framing(toClient)
      BY Basics
    <3> QED
      BY <2>1, <2>2, <3>1, Spoiling, ZenonT(60)
  <2>4. CheckSum(TRUE) \notin {ACK_PACKET_DATA, PACKET_BEGIN_CHAR, NAK_PACKET_DATA}
    BY AreSymbols
  <2> HIDE DEF Spoils
  <2> DEFINE Newest == {s \in Texts : s.n = packet.n}
  <2>5. /\ Behind(toClient', {ACK_PACKET_DATA}) \subseteq
               Behind(toClient, {ACK_PACKET_DATA}) \cup Spoils
        /\ Behind(toClient, {ACK_PACKET_DATA}) \ {CheckSum(TRUE)} \subseteq
               Behind(toClient', {ACK_PACKET_DATA})
        /\ Behind(toClient', {NAK_PACKET_DATA}) \subseteq
               Behind(toClient, {NAK_PACKET_DATA}) \cup Spoils
    BY <1>6, <2>3, <2>4
  <2>6. Behind(toClient', Newest) \subseteq Behind(toClient, Newest) \cup Spoils
    BY <1>6, <2>3
  <2>7. TypeOK' /\ Frames'
    BY <1>1, <1>3, <1>8, <2>3 DEF IInv, TypeOK, Frames
  <2>8. OneCopy'
    <3>1. /\ ACK_PACKET_DATA \in Range(toClient') <=> ACK_PACKET_DATA \in Range(toClient)
          /\ NAK_PACKET_DATA \in Range(toClient') => NAK_PACKET_DATA \in Range(toClient)
      BY <1>6, <2>3, <2>4
    <3> QED
      BY <1>1, <1>2, <1>6, <1>8, <2>5, <3>1 DEF IInv, OneCopy, Once
  <2>9. LastPacket'
    BY <1>1, <1>2, <1>8 DEF IInv, LastPacket
  <2>10. LastReply'
    <3>1. Range(toClient') \cap Texts \subseteq Range(toClient)
      BY <1>6, <2>3
    <3>2. Behind(toClient', {ACK_PACKET_DATA}) \cap Texts \subseteq
              Behind(toClient, {ACK_PACKET_DATA})
      BY <1>6, <2>5
    <3>3. ACK_PACKET_DATA \in Behind(toClient', Newest) => ACK_PACKET_DATA \in Behind(toClient, Newest)
      BY <1>6, <2>6
    <3> QED
      BY <1>1, <1>2, <3>1, <3>2, <3>3 DEF IInv, LastReply
  <2>11. Answers'
    <3>1. PACKET_BEGIN_CHAR \in Coming => PACKET_BEGIN_CHAR \in Coming'
      BY <1>1, <2>3, <2>4, <2>5 DEF Coming
    <3> QED
      BY <1>1, <1>2, <1>8, <3>1 DEF IInv, Answers
  <2> QED
    BY <1>5, <2>7, <2>8, <2>9, <2>10, <2>11 DEF IInv
<1> QED
  BY <1>1, <1>7, <1>8

-----------------------------------------------------------------------------
(* The stub *)

\* Whatever comes of a packet, the debugger is waiting for its acknowledgement,
\* and nothing is left on the connection that is a packet or an acknowledgement.
LEMMA Taken1 ==
  ASSUME IInv, loc = "recv", Complete, TakePacket
  PROVE  /\ client = "ack" /\ ~ Taken
         /\ NAK_PACKET_DATA \notin Range(toClient) /\ ACK_PACKET_DATA \notin Range(toClient)
         /\ toStub' \in Seq(Symbols) /\ Framing(toStub')
         /\ PACKET_END_CHAR \notin Range(toStub') /\ ACK_PACKET_DATA \notin Range(toStub')
         /\ Range(toStub') \subseteq Range(toStub)
         /\ Once(PACKET_END_CHAR, toStub')
         /\ ACK_PACKET_DATA \notin Behind(toStub', {PACKET_END_CHAR})
         /\ Received \in {"ok", "chksum", "protocol"}
         /\ Received = "ok" => toStub[Ends - 2] = LastCommand /\ toStub[Ends - 2] \in Texts
<1>1. Once(PACKET_END_CHAR, toStub)
  BY DEF IInv, OneCopy
<1>2. /\ Ends \in 2 .. Len(toStub) /\ toStub[Ends - 1] = PACKET_END_CHAR
      /\ Received \in {"ok", "chksum", "protocol"}
      /\ Received = "ok" => toStub[Ends - 2] \in Range(toStub) \cap Texts
  BY <1>1, Basics, PacketIs
<1>3. PACKET_END_CHAR \in Range(toStub)
  <2>1. Ends - 1 \in 1 .. Len(toStub)
    BY <1>2, Basics, LenProperties
  <2> QED
    BY <1>2, <2>1, Basics, RangeIs
<1>4. /\ client = "ack" /\ ~ Taken /\ NAK_PACKET_DATA \notin Range(toClient)
      /\ ACK_PACKET_DATA \notin Range(toClient)
  BY <1>3 DEF IInv, OneCopy
<1>5. /\ toStub' \in Seq(Symbols) /\ Framing(toStub')
      /\ Range(toStub') \subseteq Behind(toStub, {PACKET_END_CHAR})
      /\ \A S : Behind(toStub', S) \subseteq Behind(toStub, S)
  BY <1>1, Basics, TakeIs
<1>6. /\ PACKET_END_CHAR \notin Behind(toStub, {PACKET_END_CHAR})
      /\ ACK_PACKET_DATA \notin Behind(toStub, {PACKET_END_CHAR})
  BY <1>1 DEF IInv, Answers, Once
<1>7. Range(toStub') \subseteq Range(toStub)
  BY <1>5, Basics
<1>8. Received = "ok" => toStub[Ends - 2] = LastCommand
  BY <1>2 DEF IInv, LastPacket
<1> QED
  BY <1>2, <1>4, <1>5, <1>6, <1>7, <1>8 DEF Once

\* A packet that is not taken: it is refused, or the process ends.
LEMMA RefuseInv ==
  ASSUME IInv, loc = "recv", Complete, TakePacket,
         Received # "ok", errors' = Append(errors, Received),
         UNCHANGED <<packet, reply, watchPointPCs, core, peer, done, unacknowledged>>,
         \/ \E loop \in {"chksum", "protocol"} :
                Refuse(loop) /\ (loop = "protocol" => Received = "protocol")
         \/ /\ Received = "chksum" /\ receiving = "protocol"
            /\ toClient' = Append(toClient, ACK_PACKET_DATA)
            /\ loc' = "end"
            /\ UNCHANGED <<receiving, nr_retry_times>>
  PROVE  IInv'
<1>1. /\ client = "ack" /\ ~ Taken
      /\ NAK_PACKET_DATA \notin Range(toClient) /\ ACK_PACKET_DATA \notin Range(toClient)
      /\ toStub' \in Seq(Symbols) /\ Framing(toStub')
      /\ PACKET_END_CHAR \notin Range(toStub')
      /\ Range(toStub') \subseteq Range(toStub)
      /\ Once(PACKET_END_CHAR, toStub')
      /\ ACK_PACKET_DATA \notin Behind(toStub', {PACKET_END_CHAR})
      /\ Received \in {"chksum", "protocol"}
  BY Taken1
<1>2. UNCHANGED <<packet, reply, watchPointPCs, core, done, unacknowledged,
                  eof, client, asked, answer, noise>>
  BY DEF peer
<1>3. LastCommand' = LastCommand /\ ~ Taken' /\ ~ Waiting'
  BY <1>1, <1>2 DEF LastCommand, Taken, Waiting
<1>4. /\ errors \in Seq({"chksum", "protocol", "eof"})
      /\ errors' \in Seq({"chksum", "protocol", "eof"})
      /\ Len(errors) = nr_retry_times /\ Len(errors') = nr_retry_times + 1
      /\ errors'[nr_retry_times + 1] = Received /\ errors' # <<>>
      /\ \A i \in 1 .. nr_retry_times : errors'[i] = errors[i]
      /\ nr_retry_times \in 0 .. MaxRetries
  <2>1. /\ errors \in Seq({"chksum", "protocol", "eof"}) /\ Len(errors) = nr_retry_times
        /\ nr_retry_times \in 0 .. MaxRetries
    BY DEF IInv, TypeOK, Counted
  <2> QED
    BY <1>1, <2>1, AppendProperties
<1> DEFINE Newest == {s \in Texts : s.n = packet.n}
<1>5. PICK s \in {NAK_PACKET_DATA, ACK_PACKET_DATA} :
          /\ \/ toClient' = toClient /\ loc' = "end"
             \/ toClient' = Append(toClient, s)
          /\ s = ACK_PACKET_DATA => loc' = "end"
          /\ loc' \in {"recv", "end"}
          /\ receiving' \in {"chksum", "protocol"}
          /\ nr_retry_times' \in {nr_retry_times, nr_retry_times + 1}
          /\ nr_retry_times' \in 0 .. MaxRetries
          /\ loc' = "recv" => /\ nr_retry_times' = nr_retry_times + 1
                              /\ receiving' = "protocol" => Received = "protocol"
          /\ loc' = "end" => \/ nr_retry_times >= MaxRetries
                             \/ Received = "chksum" /\ receiving = "protocol"
  <2>1. CASE \E loop \in {"chksum", "protocol"} :
                 Refuse(loop) /\ (loop = "protocol" => Received = "protocol")
    <3>1. /\ \/ toClient' = toClient /\ loc' = "end"
             \/ toClient' = Append(toClient, NAK_PACKET_DATA)
          /\ loc' \in {"recv", "end"}
          /\ receiving' \in {"chksum", "protocol"}
          /\ nr_retry_times' \in {nr_retry_times, nr_retry_times + 1}
          /\ nr_retry_times' \in 0 .. MaxRetries
          /\ loc' = "recv" => /\ nr_retry_times' = nr_retry_times + 1
                              /\ receiving' = "protocol" => Received = "protocol"
          /\ loc' = "end" => nr_retry_times >= MaxRetries
      BY <1>4, <2>1, GDBStubAssumption DEF Refuse
    <3> QED
      BY <3>1, AreSymbols
  <2>2. CASE /\ Received = "chksum" /\ receiving = "protocol"
             /\ toClient' = Append(toClient, ACK_PACKET_DATA)
             /\ loc' = "end"
             /\ UNCHANGED <<receiving, nr_retry_times>>
    BY <1>4, <2>2 DEF IInv, TypeOK
  <2> QED
    BY <2>1, <2>2
<1>6. /\ toClient' \in Seq(Symbols) /\ Framing(toClient')
      /\ Range(toClient') \subseteq Range(toClient) \cup {s}
      /\ \A S : Behind(toClient', S) \subseteq Behind(toClient, S) \cup {s}
      /\ \A S : Range(toClient) \cap S = {} => Behind(toClient', S) = {}
  <2>1. CASE toClient' = toClient
    BY <2>1, Basics
  <2>2. CASE toClient' = Append(toClient, s)
    <3>1. s \in Symbols /\ s.is \notin {"$", "text", "#"}
      BY AreSymbols
    <3> DEFINE t == Append(toClient, s)
    <3>2. /\ t \in Seq(Symbols) /\ Framing(t)
          /\ Range(t) = Range(toClient) \cup {s}
          /\ \A S : Behind(t, S) = Behind(toClient, S)
                       \cup (IF Range(toClient) \cap S # {} THEN {s} ELSE {})
      BY <3>1, Basics, Adding
    <3> HIDE DEF t
    <3>3. toClient' = t
      BY <2>2 DEF t
    <3>4. \A S : Range(toClient) \cap S = {} => Behind(toClient, S) = {}
      BY Basics
    <3> QED
      BY <3>2, <3>3, <3>4
  <2> QED
    BY <1>5, <2>1, <2>2
<1>7. Behind(toClient', {ACK_PACKET_DATA}) = {} /\ Behind(toClient', {NAK_PACKET_DATA}) = {}
  BY <1>1, <1>6
<1>8. TypeOK' /\ Frames'
  BY <1>1, <1>2, <1>4, <1>5, <1>6 DEF IInv, TypeOK, Frames
<1>9. OneCopy'
  <2>1. ACK_PACKET_DATA \in Range(toClient') => loc' = "end"
    BY <1>1, <1>5, <1>6
  <2> QED
    BY <1>1, <1>2, <1>3, <1>7, <2>1 DEF IInv, OneCopy, Once
<1>10. LastPacket'
  BY <1>1, <1>2, <1>3 DEF IInv, LastPacket
<1>11. LastReply'
  <2>1. Range(toClient') \cap Texts \subseteq Range(toClient)
    BY <1>6, AreSymbols
  <2>2. loc' # "end" => ACK_PACKET_DATA \notin Behind(toClient', Newest)
    <3>1. ACK_PACKET_DATA \notin Behind(toClient, Newest)
      BY DEF IInv, LastReply
    <3> QED
      BY <1>5, <1>6, <3>1
  <2> QED
    BY <1>1, <1>2, <1>5, <1>7, <2>1, <2>2 DEF IInv, LastReply
<1>12. Executed'
  BY <1>2, <1>5 DEF IInv, Executed
<1>13. Answers'
  BY <1>1, <1>3 DEF Answers
<1>14. Counted'
  BY <1>4, <1>5 DEF Counted
<1>15. EffectsInOrder'
  BY <1>2 DEF IInv, EffectsInOrder
<1>16. EndsForACause'
  <2>1. CASE nr_retry_times >= MaxRetries
    BY <1>4, <2>1, GDBStubAssumption DEF EndsForACause
  <2>2. CASE Received = "chksum" /\ receiving = "protocol"
    <3>1. Len(errors) \in 1 .. nr_retry_times /\ errors[Len(errors)] = "protocol"
      BY <1>4, <2>2, EmptySeq DEF IInv, Counted
    <3>2. errors'[nr_retry_times] = "protocol" /\ nr_retry_times + 1 \in 2 .. Len(errors')
      BY <1>4, <3>1
    <3> DEFINE i == nr_retry_times + 1
    <3>3. i - 1 = nr_retry_times
      BY <1>4
    <3>4. i \in 2 .. Len(errors') /\ errors'[i - 1] = "protocol" /\ errors'[i] = "chksum"
      BY <1>4, <2>2, <3>2, <3>3
    <3> HIDE DEF i
    <3> QED
      BY <3>4 DEF EndsForACause
  <2>3. CASE loc' = "recv"
    BY <2>3 DEF EndsForACause
  <2> QED
    BY <1>5, <2>1, <2>2, <2>3
<1> QED
  BY <1>8, <1>9, <1>10, <1>11, <1>12, <1>13, <1>14, <1>15, <1>16 DEF IInv

LEMMA ReceivePacketInv == ASSUME IInv, loc # "end", ReceivePacket PROVE IInv'
<1>1. /\ loc = "recv" /\ Complete /\ TakePacket
      /\ UNCHANGED <<reply, watchPointPCs, core, peer, done, unacknowledged>>
  BY DEF ReceivePacket
<1>2. /\ client = "ack" /\ ~ Taken
      /\ NAK_PACKET_DATA \notin Range(toClient) /\ ACK_PACKET_DATA \notin Range(toClient)
      /\ toStub' \in Seq(Symbols) /\ Framing(toStub')
      /\ PACKET_END_CHAR \notin Range(toStub') /\ ACK_PACKET_DATA \notin Range(toStub')
      /\ Range(toStub') \subseteq Range(toStub)
      /\ Once(PACKET_END_CHAR, toStub')
      /\ ACK_PACKET_DATA \notin Behind(toStub', {PACKET_END_CHAR})
      /\ Received \in {"ok", "chksum", "protocol"}
      /\ Received = "ok" => toStub[Ends - 2] = LastCommand /\ toStub[Ends - 2] \in Texts
  BY <1>1, Taken1
<1>3. CASE Received # "ok"
  <2>1. /\ errors' = Append(errors, Received) /\ UNCHANGED packet
        /\ \/ \E loop \in {"chksum", "protocol"} :
                  Refuse(loop) /\ (loop = "protocol" => Received = "protocol")
           \/ /\ Received = "chksum" /\ receiving = "protocol"
              /\ toClient' = Append(toClient, ACK_PACKET_DATA)
              /\ loc' = "end"
              /\ UNCHANGED <<receiving, nr_retry_times>>
    BY <1>3 DEF ReceivePacket
  <2> QED
    BY <1>1, <1>3, <2>1, RefuseInv
<1>4. CASE Received = "ok"
  <2>1. /\ toClient' = Append(toClient, ACK_PACKET_DATA) /\ loc' = "cmd"
        /\ packet' = toStub[Ends - 2] /\ errors' = <<>>
        /\ UNCHANGED <<receiving, nr_retry_times>>
    BY <1>4 DEF ReceivePacket
  <2>2. UNCHANGED <<reply, watchPointPCs, core, done, unacknowledged,
                    eof, client, asked, answer, noise>>
    BY <1>1 DEF peer
  <2>3. /\ packet' = LastCommand /\ LastCommand' = LastCommand
        /\ packet' \in Texts /\ packet'.n = Len(asked) /\ Taken'
        /\ packet.n < packet'.n
        /\ asked # <<>>
    <3>1. asked # <<>>
      BY <1>2 DEF IInv, OneCopy
    <3>2. LastCommand \in Texts /\ LastCommand.n = Len(asked) /\ LastCommand' = LastCommand
      BY <2>2, <3>1, Basics, LastIs DEF LastCommand
    <3>3. packet' = LastCommand
      BY <1>2, <1>4, <2>1
    <3>4. packet.n < Len(asked)
      BY <1>2, Basics DEF IInv, LastPacket, Taken
    <3> QED
      BY <2>2, <3>1, <3>2, <3>3, <3>4 DEF Taken
  <2>4. ACK_PACKET_DATA \in Symbols /\ ACK_PACKET_DATA.is \notin {"$", "text", "#"}
    BY AreSymbols
  <2> DEFINE t == Append(toClient, ACK_PACKET_DATA)
             Newest == {s \in Texts : s.n = packet'.n}
  <2>5. /\ t \in Seq(Symbols) /\ Framing(t)
        /\ Range(t) = Range(toClient) \cup {ACK_PACKET_DATA}
        /\ \A S : Behind(t, S) = Behind(toClient, S)
                     \cup (IF Range(toClient) \cap S # {} THEN {ACK_PACKET_DATA} ELSE {})
    BY <2>4, Basics, Adding
  <2> HIDE DEF t
  <2>6. toClient' = t
    BY <2>1 DEF t
  <2>7. \A s \in Range(toClient') \cap Texts : s.n < packet'.n
    <3>1. ASSUME NEW s \in Range(toClient') \cap Texts PROVE s.n < packet'.n
      <4>1. s \in Range(toClient) \cap Texts
        BY <2>5, <2>6, <3>1, AreSymbols
      <4>2. s.n <= packet.n
        BY <4>1 DEF IInv, LastReply
      <4>3. s.n \in Nat /\ packet.n \in Nat /\ packet'.n \in Nat
        BY <2>3, <3>1, Basics DEF Texts
      <4> QED
        BY <2>3, <4>2, <4>3
    <3> QED
      BY <3>1
  <2>8. /\ Behind(toClient', {ACK_PACKET_DATA}) = {} /\ Behind(toClient', {NAK_PACKET_DATA}) = {}
        /\ Behind(toClient', Newest) = {}
    <3>1. \A S : Range(toClient) \cap S = {} => Behind(t, S) = {}
      BY <2>5, Basics
    <3>2. Range(toClient) \cap Newest = {}
      <4>1. ASSUME NEW s \in Range(toClient), s \in Newest PROVE FALSE
        <5>1. s \in Range(toClient') \cap Texts /\ s.n = packet'.n /\ packet'.n \in Nat
          BY <2>3, <2>5, <2>6, <4>1, Basics
        <5> QED
          BY <2>7, <5>1
      <4> QED
        BY <4>1
    <3> HIDE DEF Newest
    <3> QED
      BY <1>2, <2>6, <3>1, <3>2
  <2>9. TypeOK' /\ Frames'
    BY <1>2, <2>1, <2>2, <2>3, <2>5, <2>6 DEF IInv, TypeOK, Frames
  <2>10. OneCopy'
    <3>1. NAK_PACKET_DATA \notin Range(toClient') /\ ACK_PACKET_DATA \in Range(toClient')
      BY <1>2, <2>5, <2>6, AreSymbols
    <3> QED
      BY <1>2, <2>2, <2>3, <2>8, <3>1 DEF IInv, OneCopy, Once
  <2>11. LastPacket'
    BY <1>2, <2>2, <2>3, Basics DEF IInv, LastPacket
  <2>12. LastReply'
    <3>1. \A s \in Range(toClient') \cap Texts : s.n <= packet'.n /\ s.n < packet'.n
      BY <2>3, <2>7, Basics DEF Texts
    <3> QED
      BY <1>2, <2>1, <2>2, <2>3, <2>8, <3>1 DEF LastReply
  <2>13. Executed'
    <3>1. ASSUME NEW i \in 1 .. Len(done) PROVE done[i] < packet'.n
      <4>1. done[i] <= packet.n /\ done[i] \in Nat
        BY ElementOfSeq DEF IInv, TypeOK, Executed
      <4> QED
        BY <2>3, <4>1, Basics
    <3>2. \A i \in 1 .. Len(done) : done[i] \in Nat
      BY ElementOfSeq DEF IInv, TypeOK
    <3> QED
      BY <2>1, <2>2, <2>3, <3>1, <3>2, Basics DEF Executed
  <2>14. Answers'
    BY <1>2, <2>1 DEF Answers
  <2>15. Counted' /\ EndsForACause' /\ EffectsInOrder'
    BY <2>1, <2>2 DEF IInv, Counted, EndsForACause, EffectsInOrder
  <2> QED
    BY <2>9, <2>10, <2>11, <2>12, <2>13, <2>14, <2>15 DEF IInv
<1> QED
  BY <1>3, <1>4

LEMMA InputEndsInv == ASSUME IInv, loc # "end", InputEnds PROVE IInv'
<1>1. /\ loc = "recv" /\ eof /\ loc' = "end" /\ errors' = Append(errors, "eof")
      /\ UNCHANGED <<receiving, nr_retry_times, packet, reply, watchPointPCs, core,
                     toStub, toClient, eof, client, asked, answer, noise, done, unacknowledged>>
  BY DEF InputEnds, peer
<1>2. LastCommand' = LastCommand /\ (Taken' <=> Taken) /\ ~ Waiting'
  BY <1>1 DEF IInv, OneCopy, LastCommand, Taken, Waiting
<1>3. errors' \in Seq({"chksum", "protocol", "eof"}) /\ Contains(errors', "eof")
  <2>1. errors \in Seq({"chksum", "protocol", "eof"})
    BY DEF IInv, TypeOK
  <2>2. /\ errors' \in Seq({"chksum", "protocol", "eof"})
        /\ Len(errors) \in Nat /\ Len(errors') = Len(errors) + 1
        /\ errors'[Len(errors) + 1] = "eof"
    BY <1>1, <2>1, AppendProperties, LenProperties
  <2>3. Len(errors) + 1 \in 1 .. Len(errors')
    BY <2>2
  <2> QED
    BY <2>2, <2>3 DEF Contains
<1>4. TypeOK' /\ Frames'
  BY <1>1, <1>3 DEF IInv, TypeOK, Frames
<1>5. OneCopy' /\ LastPacket'
  BY <1>1, <1>2 DEF IInv, OneCopy, LastPacket
<1>6. LastReply'
  BY <1>1, <1>2 DEF IInv, LastReply
<1>7. Executed'
  BY <1>1 DEF IInv, Executed
<1>8. Answers'
  BY <1>1, <1>2 DEF IInv, Answers
<1>9. Counted' /\ EndsForACause' /\ EffectsInOrder'
  BY <1>1, <1>3 DEF IInv, Counted, EndsForACause, EffectsInOrder
<1> QED
  BY <1>4, <1>5, <1>6, <1>7, <1>8, <1>9 DEF IInv

\* A reply is sent when the last one cannot be taken for it any more: behind
\* the acknowledgement of its command, or while the debugger waits for it.
LEMMA Answered ==
  ASSUME IInv, loc \in {"cmd", "step"}, NEW says \in Replies,
         NEW q, q = toClient \/ q = Acked,
         reply' = Text(packet.n, says), toClient' = q \o Framed(reply'), loc' = "ack",
         UNCHANGED <<packet, toStub, peer>>
  PROVE  /\ reply' \in Texts /\ toClient' \in Seq(Symbols)
         /\ Frames' /\ OneCopy' /\ LastPacket' /\ LastReply' /\ Answers'
<1>1. /\ UNCHANGED <<packet, toStub, eof, client, asked, answer, noise>>
      /\ LastCommand' = LastCommand /\ (Taken' <=> Taken) /\ (Waiting' <=> Waiting)
  BY DEF peer, LastCommand, Taken, Waiting
<1>2. /\ Taken /\ client # "idle" /\ Waiting
      /\ PACKET_END_CHAR \notin Range(toStub) /\ NAK_PACKET_DATA \notin Range(toClient)
      /\ client = "ack" => ACK_PACKET_DATA \in Range(toClient)
      /\ \A s \in Range(toClient) \cap Texts : s.n < packet.n
      /\ ACK_PACKET_DATA \notin Range(toStub)
  BY DEF IInv, OneCopy, LastReply, Answers, Waiting
<1> DEFINE r == reply'
           f == {PACKET_BEGIN_CHAR, r, PACKET_END_CHAR, CheckSum(TRUE)}
           Newest == {s \in Texts : s.n = packet.n}
<1>3. r \in Texts /\ r.n = packet.n
  BY Basics DEF Text, Texts
<1>4. ACK_PACKET_DATA \in Symbols /\ ACK_PACKET_DATA.is \notin {"$", "text", "#"}
  BY AreSymbols
<1>5. /\ q \in Seq(Symbols) /\ Framing(q)
      /\ Range(toClient) \subseteq Range(q)
      /\ Range(q) \subseteq Range(toClient) \cup {ACK_PACKET_DATA}
      /\ \A S : Behind(q, S) \subseteq Behind(toClient, S) \cup {ACK_PACKET_DATA}
      /\ \A S : Range(q) \cap S = {} => Behind(q, S) = {}
  <2>1. CASE q = toClient
    BY <2>1, Basics
  <2>2. CASE q = Acked
    <3>1. q = Append(toClient, ACK_PACKET_DATA)
      BY <2>2 DEF Acked
    <3>2. /\ q \in Seq(Symbols) /\ Framing(q)
          /\ Range(q) = Range(toClient) \cup {ACK_PACKET_DATA}
          /\ \A S : Behind(q, S) = Behind(toClient, S)
                       \cup (IF Range(toClient) \cap S # {} THEN {ACK_PACKET_DATA} ELSE {})
      BY <1>4, <3>1, Basics, Adding
    <3>3. \A S : Range(q) \cap S = {} => Behind(q, S) = {}
      BY <3>2, RangeIs
    <3> QED
      BY <3>2, <3>3
  <2> QED
    BY <2>1, <2>2
<1> HIDE DEF r
<1>6. toClient' = q \o Framed(r)
  BY DEF r
<1>7. /\ toClient' \in Seq(Symbols) /\ Framing(toClient')
      /\ Range(toClient') = Range(q) \cup f
      /\ \A S : Behind(toClient', S) \subseteq Behind(q, S) \cup f
      /\ ACK_PACKET_DATA \in Range(q) =>
             Behind(toClient', {ACK_PACKET_DATA}) = Behind(q, {ACK_PACKET_DATA}) \cup f
      /\ NAK_PACKET_DATA \notin Range(q) => Behind(toClient', {NAK_PACKET_DATA}) = {}
  <2>1. q \in Seq(Symbols) /\ Framing(q) /\ r \in Texts
    BY <1>3, <1>5
  <2> QED
    BY <1>6, <2>1, Sending, ZenonT(60)
<1>8. /\ r \in f /\ PACKET_BEGIN_CHAR \in f
      /\ ACK_PACKET_DATA \notin f /\ NAK_PACKET_DATA \notin f /\ ACK_PACKET_DATA # NAK_PACKET_DATA
      /\ f \cap Texts = {r} /\ ACK_PACKET_DATA \notin Texts
  BY <1>3, AreSymbols
<1> HIDE DEF f
<1>9. Frames'
  BY <1>1, <1>7, Basics DEF Frames
<1>10. OneCopy'
  <2>1. /\ NAK_PACKET_DATA \notin Range(toClient') /\ Once(NAK_PACKET_DATA, toClient')
        /\ client = "ack" => ACK_PACKET_DATA \in Range(toClient')
    BY <1>2, <1>5, <1>7, <1>8 DEF Once
  <2>2. Once(PACKET_END_CHAR, toStub')
    BY <1>1 DEF IInv, OneCopy
  <2>3. /\ asked' # <<>>
        /\ eof' => client' = "idle"
    BY <1>1, <1>2 DEF IInv, OneCopy
  <2> QED
    BY <1>1, <1>2, <2>1, <2>2, <2>3 DEF OneCopy
<1>11. LastPacket'
  BY <1>1 DEF IInv, LastPacket
<1>12. \A s \in Range(toClient') \cap Texts : s.n <= packet.n /\ (s.n < packet.n \/ s = r)
  <2>1. ASSUME NEW s \in Range(toClient') \cap Texts
        PROVE  s.n <= packet.n /\ (s.n < packet.n \/ s = r)
    <3>1. s \in Range(toClient) \/ s = r
      BY <1>5, <1>7, <1>8, <2>1
    <3>2. s.n \in Nat /\ packet.n \in Nat
      BY <2>1, Basics DEF Texts
    <3> QED
      BY <1>2, <1>3, <2>1, <3>1, <3>2
  <2> QED
    BY <2>1
<1>13. LastReply'
  <2>1. ASSUME client = "reply", NEW s \in Range(toClient') \cap Texts PROVE s.n = packet.n
    <3>1. s \in Range(toClient) \/ s = r
      BY <1>5, <1>7, <1>8, <2>1
    <3>2. ASSUME NEW u \in Range(toClient) \cap Texts PROVE FALSE
      <4>1. u.n = packet.n /\ u.n < packet.n
        BY <1>2, <2>1, <3>2 DEF IInv, LastReply
      <4> QED
        BY <4>1, Basics
    <3> QED
      BY <1>3, <2>1, <3>1, <3>2
  <2>2. ASSUME client = "ack", NEW s \in Behind(toClient', {ACK_PACKET_DATA}) \cap Texts
        PROVE  s.n = packet.n
    <3>1. s \in Behind(toClient, {ACK_PACKET_DATA}) \/ s = r
      BY <1>5, <1>7, <1>8, <2>2
    <3> QED
      BY <1>3, <2>2, <3>1 DEF IInv, LastReply
  <2>3. ACK_PACKET_DATA \notin Behind(toClient', Newest)
    <3>1. Range(q) \cap Newest = {}
      <4>1. ASSUME NEW s \in Range(q), s \in Newest PROVE FALSE
        <5>1. s \in Range(toClient) \cap Texts /\ s.n = packet.n
          BY <1>5, <1>8, <4>1
        <5>2. s.n < packet.n
          BY <1>2, <5>1
        <5> QED
          BY <5>1, <5>2, Basics
      <4> QED
        BY <4>1
    <3> HIDE DEF Newest
    <3> QED
      BY <1>5, <1>7, <1>8, <3>1
  <2>4. reply'.n = packet'.n
    BY <1>1, <1>3 DEF r
  <2> QED
    BY <1>1, <1>12, <2>1, <2>2, <2>3, <2>4 DEF LastReply
<1>14. Answers'
  <2>1. PACKET_BEGIN_CHAR \in Coming'
    BY <1>1, <1>2, <1>5, <1>7, <1>8 DEF Coming
  <2>2. ACK_PACKET_DATA \notin Behind(toStub', {PACKET_END_CHAR})
    BY <1>1 DEF IInv, Answers
  <2> QED
    BY <1>1, <1>2, <2>1, <2>2 DEF Answers
<1> QED
  BY <1>3, <1>7, <1>9, <1>10, <1>11, <1>13, <1>14 DEF r

\* What the commands come to: a reply, or none when a write has succeeded, or
\* the loop of cmd_Continue, or the end.
LEMMA ExecuteIs ==
  ASSUME IInv, Execute
  PROVE  /\ loc = "cmd" /\ done' = Append(done, packet.n) /\ unacknowledged' = FALSE
         /\ UNCHANGED <<packet, errors, toStub, peer>>
         /\ watchPointPCs' \subseteq Pcs /\ core' \in [pc : Pcs, mem : {0, 1}]
         /\ \/ \E says \in Replies : Send(says)
            \/ NoReply /\ packet.says \in {"G", "M"}
            \/ loc' = "step" /\ toClient' = Acked /\ UNCHANGED <<receiving, nr_retry_times, reply>>
            \/ /\ loc' = "end" /\ packet.says = "p"
               /\ UNCHANGED <<receiving, nr_retry_times, reply, toClient>>
<1> DEFINE Outcome ==
              \/ \E says \in Replies : Send(says)
              \/ NoReply /\ packet.says \in {"G", "M"}
              \/ loc' = "step" /\ toClient' = Acked /\ UNCHANGED <<receiving, nr_retry_times, reply>>
              \/ /\ loc' = "end" /\ packet.says = "p"
                 /\ UNCHANGED <<receiving, nr_retry_times, reply, toClient>>
           Does == \E commands : Executing(commands)
<1>1. watchPointPCs \subseteq Pcs /\ core \in [pc : Pcs, mem : {0, 1}]
  BY DEF IInv, TypeOK
<1>2. CASE Query
  <2>1. /\ Does
        /\ \E says \in {"S05", "registers", "features", "memory", "E01", ""} : Send(says)
        /\ UNCHANGED <<watchPointPCs, core>>
    BY <1>2 DEF Query, HaltReason, ReadAllRegister, QSupported, MemRead, Unknown
  <2>2. Outcome
    BY <2>1 DEF Replies
  <2> QED
    BY <1>1, <2>1, <2>2 DEF Executing
<1>3. CASE WriteAllRegister
  <2>1. /\ Does /\ UNCHANGED watchPointPCs
        /\ \/ Executing({"G"}) /\ NoReply
           \/ \E says \in {"", "E01"} : Send(says)
        /\ UNCHANGED core \/ \E a \in Pcs : core' = [core EXCEPT !.pc = a]
    BY <1>3 DEF WriteAllRegister
  <2>2. Outcome
    BY <2>1 DEF Replies, Executing
  <2>3. core' \in [pc : Pcs, mem : {0, 1}]
    BY <1>1, <2>1
  <2> QED
    BY <1>1, <2>1, <2>2, <2>3 DEF Executing
<1>4. CASE MemWrite
  <2>1. /\ Does /\ UNCHANGED watchPointPCs
        /\ \/ Executing({"M"}) /\ NoReply
           \/ \E says \in {"", "E01"} : Send(says)
        /\ UNCHANGED core \/ core' = [core EXCEPT !.mem = 1 - core.mem]
    BY <1>4 DEF MemWrite
  <2>2. Outcome
    BY <2>1 DEF Replies, Executing
  <2>3. core' \in [pc : Pcs, mem : {0, 1}]
    <3>1. core.mem \in {0, 1} /\ 1 - core.mem \in {0, 1}
      BY <1>1
    <3> QED
      BY <1>1, <2>1, <3>1
  <2> QED
    BY <1>1, <2>1, <2>2, <2>3 DEF Executing
<1>5. CASE InsertBreakpoint \/ RemoveBreakpoint
  <2>1. /\ Does /\ UNCHANGED core
        /\ \E says \in {"", "OK"} : Send(says)
        /\ \/ UNCHANGED watchPointPCs
           \/ \E a \in Pcs : watchPointPCs' \in {watchPointPCs \cup {a}, watchPointPCs \ {a}}
    BY <1>5 DEF InsertBreakpoint, RemoveBreakpoint
  <2>2. Outcome
    BY <2>1 DEF Replies
  <2> QED
    BY <1>1, <2>1, <2>2 DEF Executing
<1>6. CASE ReadIndex
  <2>1. Does /\ Outcome /\ UNCHANGED <<watchPointPCs, core>>
    BY <1>6 DEF ReadIndex, Executing
  <2> QED
    BY <1>1, <2>1 DEF Executing
<1>7. CASE Continue
  <2>1. /\ Does /\ UNCHANGED <<watchPointPCs, core>>
        /\ \/ /\ loc' = "step" /\ toClient' = Acked
              /\ UNCHANGED <<receiving, nr_retry_times, reply>>
           \/ Send("")
    BY <1>7 DEF Continue
  <2>2. Outcome
    BY <2>1 DEF Replies
  <2> QED
    BY <1>1, <2>1, <2>2 DEF Executing
<1> QED
  BY <1>2, <1>3, <1>4, <1>5, <1>6, <1>7 DEF Execute

\* Commands are executed one after the other, each of them once.
LEMMA DoneIs ==
  ASSUME IInv, loc = "cmd", done' = Append(done, packet.n), UNCHANGED <<packet, asked, answer>>,
         loc' # "cmd"
  PROVE  done' \in Seq(Nat) /\ Executed' /\ EffectsInOrder'
<1>1. /\ done \in Seq(Nat) /\ packet.n \in Nat /\ Len(done) \in Nat
      /\ \A i \in 1 .. Len(done) : done[i] \in Nat /\ done[i] < packet.n
      /\ DOMAIN done = 1 .. Len(done)
  <2>1. done \in Seq(Nat)
    BY DEF IInv, TypeOK
  <2> QED
    BY <2>1, Basics, LenProperties, ElementOfSeq DEF IInv, Executed
<1>2. /\ done' \in Seq(Nat) /\ Len(done') = Len(done) + 1
      /\ DOMAIN done' = 1 .. Len(done) + 1
      /\ done'[Len(done) + 1] = packet.n
      /\ \A i \in 1 .. Len(done) : done'[i] = done[i]
  BY <1>1, AppendProperties, LenProperties
<1>3. \A n : Contains(done, n) => Contains(done', n)
  BY <1>1, <1>2 DEF Contains
<1>4. Contains(done', packet.n)
  <2>1. Len(done) + 1 \in 1 .. Len(done')
    BY <1>1, <1>2
  <2> QED
    BY <1>2, <2>1 DEF Contains
<1>5. Executed'
  <2>1. ASSUME NEW i \in 1 .. Len(done') PROVE done'[i] <= packet.n
    <3>1. CASE i = Len(done) + 1
      BY <1>1, <1>2, <3>1
    <3>2. CASE i \in 1 .. Len(done)
      BY <1>1, <1>2, <3>2
    <3> QED
      BY <1>1, <1>2, <3>1, <3>2
  <2> QED
    BY <1>4, <2>1 DEF Executed
<1>6. EffectsInOrder'
  <2>1. ASSUME NEW i \in DOMAIN done', NEW j \in DOMAIN done', i < j PROVE done'[i] < done'[j]
    <3>1. i \in 1 .. Len(done)
      BY <1>1, <1>2, <2>1
    <3>2. CASE j = Len(done) + 1
      BY <1>1, <1>2, <3>1, <3>2
    <3>3. CASE j \in 1 .. Len(done)
      <4>1. done[i] < done[j]
        BY <1>1, <2>1, <3>1, <3>3 DEF IInv, EffectsInOrder
      <4> QED
        BY <1>2, <3>1, <3>3, <4>1
    <3> QED
      BY <1>1, <1>2, <3>2, <3>3
  <2>2. answer' # None => answer'.n = Len(asked') /\ Contains(done', answer'.n)
    BY <1>3 DEF IInv, EffectsInOrder
  <2> QED
    BY <2>1, <2>2 DEF EffectsInOrder
<1> QED
  BY <1>2, <1>5, <1>6

LEMMA ExecuteInv == ASSUME IInv, loc # "end", Execute PROVE IInv'
<1>1. /\ loc = "cmd" /\ done' = Append(done, packet.n) /\ unacknowledged' = FALSE
      /\ UNCHANGED <<packet, errors, toStub, eof, client, asked, answer, noise>>
      /\ watchPointPCs' \subseteq Pcs /\ core' \in [pc : Pcs, mem : {0, 1}]
  BY ExecuteIs DEF peer
<1>2. \/ \E says \in Replies : Send(says)
      \/ NoReply /\ packet.says \in {"G", "M"}
      \/ loc' = "step" /\ toClient' = Acked /\ UNCHANGED <<receiving, nr_retry_times, reply>>
      \/ loc' = "end" /\ packet.says = "p" /\ UNCHANGED <<receiving, nr_retry_times, reply, toClient>>
  BY ExecuteIs
<1>3. LastCommand' = LastCommand /\ (Taken' <=> Taken) /\ (Waiting' <=> Waiting)
  BY <1>1 DEF LastCommand, Taken, Waiting
<1>4. /\ Taken /\ client # "idle" /\ errors = <<>>
      /\ PACKET_END_CHAR \notin Range(toStub) /\ NAK_PACKET_DATA \notin Range(toClient)
      /\ client = "ack" => ACK_PACKET_DATA \in Range(toClient)
      /\ \A s \in Range(toClient) \cap Texts : s.n < packet.n
      /\ ACK_PACKET_DATA \notin Range(toStub)
  BY <1>1 DEF IInv, OneCopy, LastReply, Answers, Waiting, Counted
<1>5. loc' \in {"ack", "recv", "step", "end"} /\ loc' # "cmd"
  BY <1>2 DEF Send, NoReply, GoReceive
<1>6. done' \in Seq(Nat) /\ Executed' /\ EffectsInOrder'
  BY <1>1, <1>5, DoneIs
<1>7. 0 \in 0 .. MaxRetries
  BY GDBStubAssumption
<1>8. CASE \E says \in Replies : Send(says)
  <2>1. PICK says \in Replies : Send(says)
    BY <1>8
  <2>2. /\ reply' = Text(packet.n, says) /\ toClient' = Acked \o Framed(reply')
        /\ loc' = "ack" /\ nr_retry_times' = 0 /\ receiving' = receiving
    BY <2>1 DEF Send
  <2>3. UNCHANGED <<packet, toStub, peer>>
    BY <1>1 DEF peer
  <2>4. /\ reply' \in Texts /\ toClient' \in Seq(Symbols)
        /\ Frames' /\ OneCopy' /\ LastPacket' /\ LastReply' /\ Answers'
    BY <1>1, <2>2, <2>3, Answered
  <2>5. TypeOK'
    BY <1>1, <1>6, <1>7, <2>2, <2>4 DEF IInv, TypeOK
  <2>6. Counted' /\ EndsForACause'
    BY <1>1, <1>4, <2>2 DEF Counted, EndsForACause
  <2> QED
    BY <1>6, <2>4, <2>5, <2>6 DEF IInv
<1>9. CASE /\ UNCHANGED reply
           /\ \/ NoReply /\ packet.says \in {"G", "M"}
              \/ loc' = "step" /\ toClient' = Acked /\ UNCHANGED <<receiving, nr_retry_times, reply>>
              \/ /\ loc' = "end" /\ packet.says = "p"
                 /\ UNCHANGED <<receiving, nr_retry_times, reply, toClient>>
  <2>1. /\ loc' \in {"recv", "step", "end"}
        /\ loc' = "recv" => packet.says \in {"G", "M"} /\ nr_retry_times' = 0 /\ receiving' = "chksum"
        /\ loc' = "end" => packet.says = "p"
        /\ receiving' \in {"chksum", "protocol"} /\ nr_retry_times' \in 0 .. MaxRetries
        /\ toClient' \in {toClient, Acked}
    BY <1>7, <1>9 DEF IInv, TypeOK, NoReply, GoReceive
  <2>2. /\ toClient' \in Seq(Symbols) /\ Framing(toClient')
        /\ Range(toClient) \subseteq Range(toClient')
        /\ Range(toClient') \subseteq Range(toClient) \cup {ACK_PACKET_DATA}
        /\ \A S : Behind(toClient', S) \subseteq Behind(toClient, S) \cup {ACK_PACKET_DATA}
        /\ \A S : Range(toClient) \cap S = {} => Behind(toClient', S) = {}
    <3>1. CASE toClient' = toClient
      BY <3>1, Basics
    <3>2. CASE toClient' = Acked
      <4>1. ACK_PACKET_DATA \in Symbols /\ ACK_PACKET_DATA.is \notin {"$", "text", "#"}
        BY AreSymbols
      <4>2. /\ Acked \in Seq(Symbols) /\ Framing(Acked)
            /\ Range(Acked) = Range(toClient) \cup {ACK_PACKET_DATA}
            /\ \A S : Behind(Acked, S) = Behind(toClient, S)
                         \cup (IF Range(toClient) \cap S # {} THEN {ACK_PACKET_DATA} ELSE {})
        BY <4>1, Basics, Adding DEF Acked
      <4>3. \A S : Range(toClient) \cap S = {} => Behind(toClient, S) = {}
        BY Basics
      <4> QED
        BY <3>2, <4>2, <4>3
    <3> QED
      BY <2>1, <3>1, <3>2
  <2>3. ACK_PACKET_DATA # NAK_PACKET_DATA /\ ACK_PACKET_DATA \notin Texts
    BY AreSymbols
  <2>4. TypeOK' /\ Frames'
    BY <1>1, <1>6, <1>9, <2>1, <2>2 DEF IInv, TypeOK, Frames
  <2>5. OneCopy'
    <3>1. NAK_PACKET_DATA \notin Range(toClient') /\ Once(NAK_PACKET_DATA, toClient')
      BY <1>4, <2>2, <2>3 DEF Once
    <3> QED
      BY <1>1, <1>3, <1>4, <2>2, <3>1 DEF IInv, OneCopy
  <2>6. LastPacket'
    BY <1>1, <1>3 DEF IInv, LastPacket
  <2>7. LastReply'
    <3> DEFINE Newest == {s \in Texts : s.n = packet.n}
    <3>1. Range(toClient') \cap Texts = Range(toClient) \cap Texts
      BY <2>2, <2>3
    <3>2. Behind(toClient', {ACK_PACKET_DATA}) \cap Texts \subseteq
              Behind(toClient, {ACK_PACKET_DATA})
      BY <2>2, <2>3
    <3>3. Range(toClient) \cap Newest = {}
      BY <1>4, Basics
    <3> HIDE DEF Newest
    <3>4. Behind(toClient', Newest) = {}
      BY <2>2, <3>3
    <3>5. /\ \A s \in Range(toClient') \cap Texts :
                 s.n <= packet.n /\ s.n < packet.n /\ (client = "reply" => s.n = packet.n)
          /\ client = "ack" =>
                 \A s \in Behind(toClient', {ACK_PACKET_DATA}) \cap Texts : s.n = packet.n
      BY <1>4, <3>1, <3>2 DEF IInv, LastReply
    <3>6. ACK_PACKET_DATA \notin Behind(toClient', {s \in Texts : s.n = packet.n})
      BY <3>4 DEF Newest
    <3> QED
      BY <1>1, <1>3, <1>4, <2>1, <3>5, <3>6 DEF LastReply
  <2>8. Answers'
    <3>1. ACK_PACKET_DATA \notin Behind(toStub, {PACKET_END_CHAR})
      BY DEF IInv, Answers
    <3> QED
      BY <1>1, <1>3, <1>4, <2>1, <3>1 DEF Answers
  <2>9. Counted' /\ EndsForACause'
    BY <1>1, <1>4, <2>1 DEF Counted, EndsForACause
  <2> QED
    BY <1>6, <2>4, <2>5, <2>6, <2>7, <2>8, <2>9 DEF IInv
<1> QED
  BY <1>2, <1>8, <1>9 DEF NoReply

LEMMA StepInv == ASSUME IInv, loc # "end", Step PROVE IInv'
<1>1. /\ core' = [core EXCEPT !.pc = StepTo[core.pc]]
      /\ UNCHANGED <<loc, receiving, nr_retry_times, packet, reply, watchPointPCs,
                     toStub, toClient, eof, client, asked, answer, noise,
                     done, errors, unacknowledged>>
  BY DEF Step, stub, peer, history
<1>2. core' \in [pc : Pcs, mem : {0, 1}]
  BY <1>1, GDBStubAssumption DEF IInv, TypeOK
<1>3. LastCommand' = LastCommand /\ (Taken' <=> Taken) /\ (Waiting' <=> Waiting) /\ Coming' = Coming
  BY <1>1 DEF LastCommand, Taken, Waiting, Coming
<1>4. TypeOK' /\ Frames'
  BY <1>1, <1>2 DEF IInv, TypeOK, Frames
<1>5. OneCopy' /\ LastPacket'
  BY <1>1, <1>3 DEF IInv, OneCopy, LastPacket
<1>6. LastReply' /\ Executed'
  BY <1>1, <1>3 DEF IInv, LastReply, Executed
<1>7. Answers'
  BY <1>1, <1>3 DEF IInv, Answers
<1>8. Counted' /\ EndsForACause' /\ EffectsInOrder'
  BY <1>1 DEF IInv, Counted, EndsForACause, EffectsInOrder
<1> QED
  BY <1>4, <1>5, <1>6, <1>7, <1>8 DEF IInv

LEMMA StopInv == ASSUME IInv, loc # "end", Stop PROVE IInv'
<1>1. /\ loc = "step" /\ reply' = Text(packet.n, "S05") /\ toClient' = toClient \o Framed(reply')
      /\ loc' = "ack" /\ nr_retry_times' = 0
      /\ UNCHANGED <<receiving, packet, watchPointPCs, core, toStub, peer,
                     done, errors, unacknowledged>>
  BY DEF Stop, history
<1>2. "S05" \in Replies
  BY DEF Replies
<1>3. /\ reply' \in Texts /\ toClient' \in Seq(Symbols)
      /\ Frames' /\ OneCopy' /\ LastPacket' /\ LastReply' /\ Answers'
  BY <1>1, <1>2, Answered
<1>4. UNCHANGED <<eof, client, asked, answer, noise>>
  BY <1>1 DEF peer
<1>5. TypeOK'
  BY <1>1, <1>3, <1>4, GDBStubAssumption DEF IInv, TypeOK
<1>6. Executed'
  BY <1>1 DEF IInv, Executed
<1>7. Counted' /\ EndsForACause' /\ EffectsInOrder'
  BY <1>1, <1>4 DEF IInv, Counted, EndsForACause, EffectsInOrder
<1> QED
  BY <1>3, <1>5, <1>6, <1>7 DEF IInv

\* A symbol read instead of an acknowledgement has the stub repeat its reply,
\* which is of the packet taken last.
LEMMA ResendInv == ASSUME IInv, loc # "end", Resend PROVE IInv'
<1>1. /\ loc = "ack" /\ toStub # <<>> /\ toStub' = Tail(toStub)
      /\ nr_retry_times < MaxRetries /\ nr_retry_times' = nr_retry_times + 1
      /\ toClient' = toClient \o Framed(reply)
      /\ UNCHANGED <<loc, receiving, packet, reply, watchPointPCs, core, eof, client, asked,
                     answer, noise, done, errors, unacknowledged>>
  BY DEF Resend, AckRead, peer, history
<1>2. LastCommand' = LastCommand /\ (Taken' <=> Taken) /\ (Waiting' <=> Waiting)
  BY <1>1 DEF LastCommand, Taken, Waiting
<1>3. /\ toStub' \in Seq(Symbols) /\ Framing(toStub')
      /\ Range(toStub') \subseteq Range(toStub)
      /\ \A S : Behind(toStub', S) \subseteq Behind(toStub, S)
  BY <1>1, Basics, Taking
<1> DEFINE f == {PACKET_BEGIN_CHAR, reply, PACKET_END_CHAR, CheckSum(TRUE)}
           Newest == {s \in Texts : s.n = packet.n}
<1>4. reply \in Texts /\ reply.n = packet.n
  BY <1>1, Basics DEF IInv, LastReply
<1>5. /\ toClient' \in Seq(Symbols) /\ Framing(toClient')
      /\ Range(toClient') = Range(toClient) \cup f
      /\ \A S : Behind(toClient', S) \subseteq Behind(toClient, S) \cup f
      /\ \A s \in {ACK_PACKET_DATA, NAK_PACKET_DATA} :
             /\ s \in Range(toClient) => Behind(toClient', {s}) = Behind(toClient, {s}) \cup f
             /\ s \notin Range(toClient) => Behind(toClient', {s}) = {}
  <2> DEFINE t == toClient \o Framed(reply)
  <2>1. toClient \in Seq(Symbols) /\ Framing(toClient)
    BY Basics
  <2>2. /\ t \in Seq(Symbols) /\ Framing(t) /\ Range(t) = Range(toClient) \cup f
        /\ \A S : Behind(t, S) \subseteq Behind(toClient, S) \cup f
        /\ \A s \in {ACK_PACKET_DATA, NAK_PACKET_DATA} :
               /\ s \in Range(toClient) => Behind(t, {s}) = Behind(toClient, {s}) \cup f
               /\ s \notin Range(toClient) => Behind(t, {s}) = {}
    BY <1>4, <2>1, Sending
  <2>3. toClient' = t
    BY <1>1
  <2> HIDE DEF t, f
  <2> QED
    BY <2>2, <2>3
<1>6. /\ PACKET_BEGIN_CHAR \in f
      /\ ACK_PACKET_DATA \notin f /\ NAK_PACKET_DATA \notin f
      /\ f \cap Texts = {reply}
  BY <1>4, AreSymbols
<1> HIDE DEF f
<1>7. TypeOK' /\ Frames'
  <2>1. nr_retry_times' \in 0 .. MaxRetries
    BY <1>1, GDBStubAssumption DEF IInv, TypeOK
  <2> QED
    BY <1>1, <1>3, <1>5, <2>1 DEF IInv, TypeOK, Frames
<1>8. OneCopy'
  <2>1. /\ ACK_PACKET_DATA \in Range(toClient') <=> ACK_PACKET_DATA \in Range(toClient)
        /\ NAK_PACKET_DATA \in Range(toClient') <=> NAK_PACKET_DATA \in Range(toClient)
    BY <1>5, <1>6
  <2>2. Once(NAK_PACKET_DATA, toClient')
    BY <1>5, <1>6 DEF IInv, OneCopy, Once
  <2>3. Once(PACKET_END_CHAR, toStub')
    BY <1>3 DEF IInv, OneCopy, Once
  <2> QED
    BY <1>1, <1>2, <1>3, <2>1, <2>2, <2>3 DEF IInv, OneCopy
<1>9. LastPacket'
  BY <1>1, <1>2, <1>3 DEF IInv, LastPacket
<1>10. LastReply'
  <2>1. ASSUME NEW s \in Range(toClient') \cap Texts
        PROVE  s.n <= packet.n /\ (client = "reply" => s.n = packet.n)
    <3>1. s \in Range(toClient) \/ s = reply
      BY <1>5, <1>6, <2>1
    <3>2. CASE s = reply
      BY <1>4, <3>2, Basics
    <3>3. CASE s \in Range(toClient)
      BY <2>1, <3>3 DEF IInv, LastReply
    <3> QED
      BY <3>1, <3>2, <3>3
  <2>2. ASSUME client = "ack", NEW s \in Behind(toClient', {ACK_PACKET_DATA}) \cap Texts
        PROVE  s.n = packet.n
    <3>1. s \in Behind(toClient, {ACK_PACKET_DATA}) \/ s = reply
      BY <1>5, <1>6, <2>2
    <3> QED
      BY <1>4, <2>2, <3>1 DEF IInv, LastReply
  <2>3. ACK_PACKET_DATA \notin Behind(toClient', Newest)
    <3>1. ACK_PACKET_DATA \notin Behind(toClient, Newest)
      BY <1>1 DEF IInv, LastReply
    <3> QED
      BY <1>5, <1>6, <3>1
  <2> QED
    BY <1>1, <1>4, <2>1, <2>2, <2>3 DEF LastReply
<1>11. Executed'
  BY <1>1 DEF IInv, Executed
<1>12. Answers'
  <2>1. Waiting => PACKET_BEGIN_CHAR \in Coming'
    <3>1. CASE client = "ack"
      <4>1. Waiting => ACK_PACKET_DATA \in Range(toClient)
        BY <3>1 DEF IInv, OneCopy, Waiting
      <4> QED
        BY <1>1, <1>5, <1>6, <3>1, <4>1 DEF Coming
    <3>2. CASE client # "ack"
      BY <1>1, <1>5, <1>6, <3>2 DEF Coming
    <3> QED
      BY <3>1, <3>2
  <2> QED
    BY <1>1, <1>2, <1>3, <2>1 DEF IInv, Answers
<1>13. Counted' /\ EndsForACause' /\ EffectsInOrder'
  BY <1>1 DEF IInv, Counted, EndsForACause, EffectsInOrder
<1> QED
  BY <1>7, <1>8, <1>9, <1>10, <1>11, <1>12, <1>13 DEF IInv

\* The stub goes on to the next packet, given up, acknowledged or left alone: an
\* acknowledgement comes only when the debugger has its reply.
LEMMA GoOnInv ==
  ASSUME IInv, loc # "end", GiveUp \/ Acknowledged \/ NobodyAcknowledges
  PROVE  IInv'
<1>1. /\ loc = "ack" /\ loc' = "recv" /\ receiving' = "chksum" /\ nr_retry_times' = 0
      /\ UNCHANGED <<packet, reply, watchPointPCs, core, toClient, eof, client, asked,
                     answer, noise, done, errors>>
      /\ unacknowledged' \in BOOLEAN
      /\ \/ toStub' = toStub
         \/ toStub # <<>> /\ toStub' = Tail(toStub)
  <2>0. unacknowledged \in BOOLEAN
    BY DEF IInv, TypeOK
  <2>1. CASE GiveUp
    BY <2>1 DEF GiveUp, AckRead, GoReceive, peer
  <2>2. CASE Acknowledged
    BY <2>0, <2>2 DEF Acknowledged, AckRead, GoReceive, peer, history
  <2>3. CASE NobodyAcknowledges
    BY <2>0, <2>3 DEF NobodyAcknowledges, GoReceive, peer, history
  <2> QED
    BY <2>1, <2>2, <2>3
<1>2. LastCommand' = LastCommand /\ (Taken' <=> Taken) /\ (Waiting' <=> Waiting)
  BY <1>1 DEF LastCommand, Taken, Waiting
<1>3. /\ toStub' \in Seq(Symbols) /\ Framing(toStub')
      /\ Range(toStub') \subseteq Range(toStub)
      /\ \A S : Behind(toStub', S) \subseteq Behind(toStub, S)
  <2>1. CASE toStub' = toStub
    BY <2>1, Basics
  <2>2. CASE toStub # <<>> /\ toStub' = Tail(toStub)
    BY <2>2, Basics, Taking
  <2> QED
    BY <1>1, <2>1, <2>2
<1>4. unacknowledged' \/ ~ Waiting
  <2>1. CASE GiveUp
    BY <2>1 DEF GiveUp
  <2>2. CASE Acknowledged
    <3>1. ACK_PACKET_DATA \in Range(toStub)
      <4>1. toStub # <<>> /\ Head(toStub) = ACK_PACKET_DATA
        BY <2>2 DEF Acknowledged, AckRead
      <4> QED
        BY <4>1, Basics, Taking
    <3> QED
      BY <1>1, <3>1 DEF IInv, Answers
  <2>3. CASE NobodyAcknowledges
    BY <2>3 DEF NobodyAcknowledges, IInv, OneCopy, Waiting
  <2> QED
    BY <2>1, <2>2, <2>3
<1>5. TypeOK' /\ Frames'
  BY <1>1, <1>3, GDBStubAssumption DEF IInv, TypeOK, Frames
<1>6. OneCopy'
  BY <1>1, <1>2, <1>3 DEF IInv, OneCopy, Once
<1>7. LastPacket'
  BY <1>1, <1>2, <1>3 DEF IInv, LastPacket
<1>8. LastReply'
  BY <1>1 DEF IInv, LastReply
<1>9. Executed'
  BY <1>1 DEF IInv, Executed
<1>10. Answers'
  BY <1>1, <1>2, <1>3, <1>4 DEF IInv, Answers
<1>11. Counted' /\ EndsForACause' /\ EffectsInOrder'
  BY <1>1 DEF IInv, Counted, EndsForACause, EffectsInOrder
<1> QED
  BY <1>5, <1>6, <1>7, <1>8, <1>9, <1>10, <1>11 DEF IInv

-----------------------------------------------------------------------------
(* The theorems *)

LEMMA InitInv == Init => IInv
<1> SUFFICES ASSUME Init PROVE IInv
  OBVIOUS
<1>1. /\ loc = "recv" /\ receiving = "chksum" /\ nr_retry_times = 0
      /\ packet = None /\ reply = None /\ watchPointPCs = {}
      /\ core \in [pc : Pcs, mem : {0}]
      /\ toStub = <<>> /\ toClient = <<>> /\ eof = FALSE
      /\ client = "idle" /\ asked = <<>> /\ noise = 0
      /\ answer = None /\ done = <<>> /\ errors = <<>> /\ unacknowledged = FALSE
  BY DEF Init
<1>2. None \in Texts /\ None.n = 0
  BY DEF None, Text, Texts, Replies
<1>3. \A A : <<>> \in Seq(A) /\ Len(<<>>) = 0
  OBVIOUS
<1>4. /\ toStub \in Seq(Symbols) /\ toClient \in Seq(Symbols)
      /\ Len(toStub) = 0 /\ Len(toClient) = 0
  BY <1>1, <1>3
<1>5. Range(toStub) = {} /\ Range(toClient) = {}
  <2>1. 1 .. Len(toStub) = {} /\ 1 .. Len(toClient) = {}
    BY <1>4
  <2> QED
    BY <1>4, <2>1, RangeIs
<1>6. \A S : Behind(toStub, S) = {} /\ Behind(toClient, S) = {}
  BY <1>4, <1>5, RangeIs
<1>7. TypeOK
  <2>1. core \in [pc : Pcs, mem : {0, 1}]
    BY <1>1
  <2>2. 0 \in 0 .. MaxRetries /\ 0 \in 0 .. MaxNoise
    BY GDBStubAssumption
  <2>3. /\ asked \in Seq(Commands) /\ done \in Seq(Nat)
        /\ errors \in Seq({"chksum", "protocol", "eof"})
    BY <1>1, <1>3
  <2> QED
    BY <1>1, <1>2, <1>4, <2>1, <2>2, <2>3 DEF TypeOK
<1>8. Frames
  BY <1>4 DEF Frames, Framing
<1>9. Taken
  BY <1>1, <1>2, <1>3 DEF Taken
<1>10. OneCopy /\ LastPacket
  BY <1>1, <1>2, <1>3, <1>5, <1>6, <1>9 DEF OneCopy, LastPacket, Once
<1>11. LastReply
  BY <1>1, <1>5, <1>6 DEF LastReply
<1>12. Executed /\ EffectsInOrder
  BY <1>1, <1>2, <1>3 DEF Executed, EffectsInOrder
<1>13. Answers
  BY <1>1, <1>5, <1>6 DEF Answers, Waiting
<1>14. Counted /\ EndsForACause
  BY <1>1, <1>3 DEF Counted, EndsForACause
<1> QED
  BY <1>7, <1>8, <1>10, <1>11, <1>12, <1>13, <1>14 DEF IInv

LEMMA NextInv == IInv /\ [Next]_vars => IInv'
<1> SUFFICES ASSUME IInv, [Next]_vars PROVE IInv'
  OBVIOUS
<1>1. CASE Stub /\ loc # "end"
  <2>1. CASE ReceivePacket
    BY <1>1, <2>1, ReceivePacketInv
  <2>2. CASE InputEnds
    BY <1>1, <2>2, InputEndsInv
  <2>3. CASE Execute
    BY <1>1, <2>3, ExecuteInv
  <2>4. CASE Step
    BY <1>1, <2>4, StepInv
  <2>5. CASE Stop
    BY <1>1, <2>5, StopInv
  <2>6. CASE Resend
    BY <1>1, <2>6, ResendInv
  <2>7. CASE GiveUp \/ Acknowledged \/ NobodyAcknowledges
    BY <1>1, <2>7, GoOnInv
  <2> QED
    BY <1>1, <2>1, <2>2, <2>3, <2>4, <2>5, <2>6, <2>7 DEF Stub
<1>2. CASE Environment /\ loc # "end"
  <2>0. Debugger
    BY <1>2 DEF Environment
  <2>1. CASE \E c \in Commands : Ask(c)
    BY <1>2, <2>0, <2>1, AskInv
  <2>2. CASE ReadAck
    BY <1>2, <2>0, <2>2, ReadAckInv
  <2>3. CASE ReadReply
    BY <1>2, <2>0, <2>3, ReadReplyInv
  <2>4. CASE Timeout
    BY <1>2, <2>0, <2>4, TimeoutInv
  <2>5. CASE Interrupt
    BY <1>2, <2>0, <2>5, InterruptInv
  <2>6. CASE Leave
    BY <1>2, <2>0, <2>6, LeaveInv
  <2>7. CASE Noise
    BY <1>2, <2>0, <2>7, NoiseInv
  <2> QED
    BY <1>2, <2>1, <2>2, <2>3, <2>4, <2>5, <2>6, <2>7 DEF Environment, Client
<1>3. CASE UNCHANGED vars
  <2>1. UNCHANGED <<loc, receiving, nr_retry_times, packet, reply, watchPointPCs, core,
                    toStub, toClient, eof, client, asked, answer, noise,
                    done, errors, unacknowledged>>
    BY <1>3 DEF vars, stub, peer, history
  <2>2. LastCommand' = LastCommand /\ (Taken' <=> Taken) /\ (Waiting' <=> Waiting)
        /\ Coming' = Coming
    BY <2>1 DEF LastCommand, Taken, Waiting, Coming
  <2>3. TypeOK' /\ Frames'
    BY <2>1 DEF IInv, TypeOK, Frames
  <2>4. OneCopy' /\ LastPacket'
    BY <2>1, <2>2 DEF IInv, OneCopy, LastPacket
  <2>5. LastReply' /\ Executed'
    BY <2>1, <2>2 DEF IInv, LastReply, Executed
  <2>6. Answers' /\ Counted' /\ EndsForACause' /\ EffectsInOrder'
    BY <2>1, <2>2 DEF IInv, Answers, Counted, EndsForACause, EffectsInOrder
  <2> QED
    BY <2>3, <2>4, <2>5, <2>6 DEF IInv
<1> QED
  BY <1>1, <1>2, <1>3 DEF Next

LEMMA Invariant == Spec => []IInv
<1>1. Init => IInv
  BY InitInv
<1>2. IInv /\ [Next]_vars => IInv'
  BY NextInv
<1> QED
  BY <1>1, <1>2, PTL DEF Spec

\* The stub's state, the symbols on the connection and the debugger's state have
\* their types: no reply is read from behind the end of a packet, nothing but a
\* text is executed, and no count of retries passes its limit
\* (GDBStub_utils.cpp recvPacket, packingAndSend).
THEOREM TypeCorrect == Spec => []TypeOK
<1>1. IInv => TypeOK
  BY DEF IInv
<1> QED
  BY <1>1, Invariant, PTL

\* Whatever is spoilt on the connection, whichever packets and replies are
\* repeated, no command is executed twice or out of order, and the reply the
\* debugger takes answers its last command, which has been executed
\* (GDBStub_utils.cpp recvPacket, packingAndSend; GDBStub.cpp Debug_GDBStub).
THEOREM RepeatedButOnce == Spec => []EffectsInOrder
<1>1. IInv => EffectsInOrder
  BY DEF IInv
<1> QED
  BY <1>1, Invariant, PTL

\* The stub and the debugger wait for each other in silence only after a write
\* that has succeeded, or a reply the stub has given up (GDBStub_cmds.cpp
\* cmd_WriteAllRegister, cmd_MemWrite; GDBStub_utils.cpp packingAndSend).
THEOREM SilenceIsOfWrites == Spec => []BothWaitOnlyAfterWrites
<1>1. ASSUME IInv, Silence, client = "reply"
      PROVE  LastCommand.says \in {"G", "M"} \/ unacknowledged
  <2>1. Taken /\ asked # <<>>
    BY <1>1 DEF IInv, OneCopy
  <2>2. packet = LastCommand /\ Waiting
    BY <1>1, <2>1 DEF IInv, LastPacket, Waiting
  <2>3. CASE loc = "recv"
    BY <1>1, <2>2, <2>3 DEF IInv, Answers
  <2>4. CASE loc = "ack" /\ toStub = <<>>
    <3>1. Range(toClient) = {}
      <4>1. toClient \in Seq(Symbols) /\ 1 .. Len(toClient) = {}
        BY <1>1, Basics DEF Silence
      <4> QED
        BY <4>1, RangeIs
    <3> QED
      BY <1>1, <2>2, <2>4, <3>1 DEF IInv, Answers, Coming
  <2> QED
    BY <1>1, <2>3, <2>4 DEF Silence
<1>2. IInv => BothWaitOnlyAfterWrites
  BY <1>1 DEF BothWaitOnlyAfterWrites
<1> QED
  BY <1>2, Invariant, PTL

\* The process ends at the end of the input, at a packet `p`, after more bad
\* packets in a row than there are retries, or at a bad checksum right behind a
\* malformed packet, and for no other reason (GDBStub_utils.cpp recvPacket;
\* GDBStub.cpp Debug_GDBStub).
THEOREM EndsAreCaused == Spec => []EndsForACause
<1>1. IInv => EndsForACause
  BY DEF IInv
<1> QED
  BY <1>1, Invariant, PTL
=============================================================================
