--------------------------- MODULE RecTcpDataProofs ---------------------------
(***************************************************************************)
(* Proofs about RecTcpData, for any number of messages and pieces: the     *)
(* types, and the refinement of ReceiveCall, which BoxApp is built on.     *)
(* The argument follows the pieces.  In gprs_cache and on the input they   *)
(* are in the order in which they were sent, and a message that began      *)
(* goes on on the input until its last piece is there; so at most one      *)
(* message is in both, at the end of the cache.  What a text or the cache  *)
(* answers is then told from the messages that begin in it, each of which  *)
(* counts for itself, for a mutilated one, or for none.                    *)
(***************************************************************************)
EXTENDS RecTcpData, SequenceTheorems, FiniteSetTheorems, WellFoundedInduction, TLAPS

-----------------------------------------------------------------------------
(* Flattening, by induction: a length for which something fails would be   *)
(* the first one, and fail because of the one before.                      *)

\* The order of the natural numbers, as a relation.
Below == OpToRel(<, Nat)

\* Every set of natural numbers has a least element.
LEMMA NatMin ==
  ASSUME NEW T, T \subseteq Nat, T # {}
  PROVE  \E x \in T : \A y \in T : x <= y
<1>1. IsWellFoundedOn(OpToRel(<,Nat), Nat)
  BY NatLessThanWellFounded
<1>2. IsWellFoundedOn(Below, Nat)
  BY <1>1 DEF Below
<1>3. PICK x \in T : \A y \in T : <<y, x>> \notin Below
  BY <1>2, WFMin
<1>4. \A i, j \in Nat : <<j, i>> \in Below <=> j < i
  BY DEF Below, OpToRel
<1>5. \A y \in T : ~(y < x)
  BY <1>3, <1>4
<1>6. \A y \in T : x <= y
  BY <1>5
<1> QED BY <1>6

\* A set that has 0, and n + 1 with every n below b, has all numbers up to b.
LEMMA UpTo ==
  ASSUME NEW T, NEW b \in Nat, 0 \in T,
         \A n \in 0..(b - 1) : n \in T => n + 1 \in T
  PROVE  \A n \in 0..b : n \in T
<1> DEFINE F == {n \in 0..b : n \notin T}
<1> SUFFICES ASSUME F # {} PROVE FALSE
  OBVIOUS
<1>1. F \subseteq Nat
  OBVIOUS
<1>2. PICK m \in F : \A y \in F : m <= y
  BY <1>1, NatMin
<1>3. m \in 0..b /\ m \notin T /\ m # 0
  OBVIOUS
<1>4. m - 1 \in 0..(b - 1) /\ m - 1 \in 0..b /\ ~(m <= m - 1) /\ (m - 1) + 1 = m
  BY <1>3
<1>5. m - 1 \in T
  BY <1>2, <1>4
<1> QED BY <1>3, <1>4, <1>5

\* The equation by which FlattenSeq defines its function.
Grows(f, ss) == f = [i \in 1..Len(ss) |-> IF i = 1 THEN ss[i] ELSE f[i-1] \o ss[i]]

LEMMA GrowsAt ==
  ASSUME NEW f, NEW ss, Grows(f, ss), NEW i \in 1..Len(ss)
  PROVE  f[i] = IF i = 1 THEN ss[i] ELSE f[i-1] \o ss[i]
BY DEF Grows

\* Some function satisfies it.
LEMMA GrowsSome ==
  ASSUME NEW S, NEW ss \in Seq(Seq(S))
  PROVE  \E f \in [1..Len(ss) -> Seq(S)] : Grows(f, ss)
<1> DEFINE b == Len(ss)
           Equation(f, n) == \A i \in 1..n : f[i] = IF i = 1 THEN ss[i] ELSE f[i-1] \o ss[i]
           T == {n \in 0..b : \E f \in [1..n -> Seq(S)] : Equation(f, n)}
<1>1. b \in Nat /\ \A i \in 1..b : ss[i] \in Seq(S)
  OBVIOUS
<1>2. 0 \in T
  <2>1. [i \in 1..0 |-> <<>>] \in [1..0 -> Seq(S)]
    OBVIOUS
  <2>2. Equation([i \in 1..0 |-> <<>>], 0)
    OBVIOUS
  <2>3. 0 \in 0..b
    BY <1>1
  <2> QED BY <2>1, <2>2, <2>3
<1>3. ASSUME NEW n \in 0..(b - 1), n \in T PROVE n + 1 \in T
  <2>1. PICK f \in [1..n -> Seq(S)] : Equation(f, n)
    BY <1>3
  <2>2. n + 1 \in 1..b /\ n + 1 \in 0..b /\ n \in Nat
    BY <1>1
  <2> DEFINE x == IF n = 0 THEN ss[n + 1] ELSE f[n] \o ss[n + 1]
             g == [i \in 1..(n + 1) |-> IF i = n + 1 THEN x ELSE f[i]]
  <2>3. x \in Seq(S)
    <3>1. ss[n + 1] \in Seq(S)
      BY <1>1, <2>2
    <3>2. CASE n = 0
      BY <3>1, <3>2
    <3>3. CASE n # 0
      <4>1. f[n] \in Seq(S)
        BY <2>2, <3>3
      <4> QED BY <3>1, <3>3, <4>1, ConcatProperties
    <3> QED BY <3>2, <3>3
  <2> HIDE DEF x
  <2>4. \A i \in 1..(n + 1) : i # n + 1 => i \in 1..n
    BY <2>2
  <2>5. g \in [1..(n + 1) -> Seq(S)]
    BY <2>3, <2>4
  <2>6. Equation(g, n + 1)
    <3> SUFFICES ASSUME NEW i \in 1..(n + 1)
                 PROVE  g[i] = IF i = 1 THEN ss[i] ELSE g[i-1] \o ss[i]
      OBVIOUS
    <3>1. CASE i = n + 1
      <4>1. CASE n = 0
        BY <3>1, <4>1 DEF x
      <4>2. CASE n # 0
        <5>1. i # 1 /\ i - 1 = n /\ n \in 1..(n + 1) /\ n # n + 1
          BY <2>2, <3>1, <4>2
        <5> QED BY <3>1, <4>2, <5>1 DEF x
      <4> QED BY <4>1, <4>2
    <3>2. CASE i # n + 1
      <4>1. i \in 1..n
        BY <2>4, <3>2
      <4>2. g[i] = f[i] /\ f[i] = IF i = 1 THEN ss[i] ELSE f[i-1] \o ss[i]
        BY <2>1, <3>2, <4>1
      <4>3. CASE i = 1
        BY <4>2, <4>3
      <4>4. CASE i # 1
        <5>1. i - 1 \in 1..(n + 1) /\ i - 1 # n + 1
          BY <2>2, <4>1, <4>4
        <5> QED BY <4>2, <4>4, <5>1
      <4> QED BY <4>3, <4>4
    <3> QED BY <3>1, <3>2
  <2> QED BY <2>2, <2>5, <2>6
<1> HIDE DEF T
<1>4. b \in T
  <2>1. \A n \in 0..b : n \in T
    BY <1>1, <1>2, <1>3, UpTo
  <2> QED BY <1>1, <2>1
<1>5. PICK f \in [1..b -> Seq(S)] : Equation(f, b)
  BY <1>4 DEF T
<1>6. Grows(f, ss)
  BY <1>5 DEF Grows
<1> QED BY <1>6

\* And no two differ where the sequences begin alike.
LEMMA GrowsAlike ==
  ASSUME NEW ss, NEW tt, NEW f, NEW g, Grows(f, ss), Grows(g, tt),
         Len(ss) \in Nat, Len(tt) \in Nat, Len(ss) <= Len(tt),
         \A i \in 1..Len(ss) : ss[i] = tt[i]
  PROVE  \A i \in 1..Len(ss) : f[i] = g[i]
<1> DEFINE b == Len(ss)
           T == {n \in 0..b : n = 0 \/ f[n] = g[n]}
<1>0. \A i \in 1..b : i \in 1..Len(ss) /\ i \in 1..Len(tt)
  OBVIOUS
<1>1. \A i \in 1..b : f[i] = IF i = 1 THEN ss[i] ELSE f[i-1] \o ss[i]
  BY <1>0, GrowsAt
<1>2. \A i \in 1..b : g[i] = IF i = 1 THEN tt[i] ELSE g[i-1] \o tt[i]
  BY <1>0, GrowsAt
<1>3. 0 \in T
  OBVIOUS
<1>4. ASSUME NEW n \in 0..(b - 1), n \in T PROVE n + 1 \in T
  <2>1. n + 1 \in 1..b /\ n + 1 \in 0..b /\ (n = 0 \/ n + 1 # 1) /\ (n + 1) - 1 = n
    OBVIOUS
  <2>2. ss[n + 1] = tt[n + 1]
    BY <2>1
  <2>3. CASE n = 0
    BY <1>1, <1>2, <2>1, <2>2, <2>3
  <2>4. CASE n # 0
    <3>1. f[n] = g[n]
      BY <1>4, <2>4
    <3> QED BY <1>1, <1>2, <2>1, <2>2, <2>4, <3>1
  <2> QED BY <2>3, <2>4
<1> HIDE DEF T
<1>5. \A n \in 0..b : n \in T
  <2>1. b \in Nat
    OBVIOUS
  <2> HIDE DEF b
  <2> QED BY <1>3, <1>4, <2>1, UpTo
<1> QED BY <1>5 DEF T

\* The function of FlattenSeq.
LEMMA FlattenGrows ==
  ASSUME NEW S, NEW ss \in Seq(Seq(S)), ss # <<>>
  PROVE  \E f \in [1..Len(ss) -> Seq(S)] : Grows(f, ss) /\ FlattenSeq(ss) = f[Len(ss)]
<1> DEFINE flatten == CHOOSE f : Grows(f, ss)
<1>1. Len(ss) \in Nat /\ Len(ss) # 0
  OBVIOUS
<1>2. FlattenSeq(ss) = flatten[Len(ss)]
  BY <1>1 DEF FlattenSeq, Grows
<1>3. PICK f \in [1..Len(ss) -> Seq(S)] : Grows(f, ss)
  BY GrowsSome
<1>4. Grows(flatten, ss)
  BY <1>3
<1> HIDE DEF flatten
<1>5. \A i \in 1..Len(ss) : f[i] = flatten[i]
  BY <1>1, <1>3, <1>4, GrowsAlike
<1>6. f[Len(ss)] = flatten[Len(ss)]
  <2>1. Len(ss) \in 1..Len(ss)
    BY <1>1
  <2> QED BY <1>5, <2>1
<1> QED BY <1>2, <1>3, <1>6

\* FlattenSeq of nothing, its type, and that of one more sequence.
LEMMA FlattenEmpty == FlattenSeq(<<>>) = <<>>
  BY DEF FlattenSeq

LEMMA FlattenType ==
  ASSUME NEW S, NEW ss \in Seq(Seq(S))
  PROVE  FlattenSeq(ss) \in Seq(S)
<1>1. CASE ss = <<>>
  <2>1. FlattenSeq(ss) = <<>>
    BY <1>1, FlattenEmpty, Zenon
  <2>2. <<>> \in Seq(S)
    OBVIOUS
  <2> QED BY <2>1, <2>2, Zenon
<1>2. CASE ss # <<>>
  <2>1. Len(ss) \in 1..Len(ss)
    BY <1>2
  <2>2. PICK f \in [1..Len(ss) -> Seq(S)] : FlattenSeq(ss) = f[Len(ss)]
    BY <1>2, FlattenGrows
  <2> QED BY <2>1, <2>2, Zenon
<1> QED BY <1>1, <1>2

LEMMA FlattenAppend ==
  ASSUME NEW S, NEW ss \in Seq(Seq(S)), NEW x \in Seq(S)
  PROVE  FlattenSeq(Append(ss, x)) = FlattenSeq(ss) \o x
<1> DEFINE tt == Append(ss, x)
           n  == Len(ss)
           m  == Len(tt)
<1>1. /\ tt \in Seq(Seq(S)) /\ tt # <<>> /\ m = n + 1 /\ n \in Nat
      /\ tt[n + 1] = x /\ \A i \in 1..n : ss[i] = tt[i]
  BY AppendProperties
<1> HIDE DEF tt
<1>2. m \in Nat /\ n <= m /\ m \in 1..m /\ tt[m] = x
  BY <1>1
<1>3. PICK g : Grows(g, tt) /\ FlattenSeq(tt) = g[m]
  BY <1>1, FlattenGrows
<1>4. g[m] = IF m = 1 THEN tt[m] ELSE g[m - 1] \o tt[m]
  BY <1>2, <1>3, GrowsAt, Zenon
<1>5. CASE ss = <<>>
  <2>1. m = 1
    BY <1>1, <1>5
  <2>2. FlattenSeq(ss) = <<>> /\ <<>> \o x = x
    BY <1>5, FlattenEmpty
  <2> QED BY <1>2, <1>3, <1>4, <2>1, <2>2 DEF tt
<1>6. CASE ss # <<>>
  <2>1. m # 1 /\ m - 1 = n /\ n \in 1..n
    BY <1>1, <1>6
  <2>2. PICK f : Grows(f, ss) /\ FlattenSeq(ss) = f[n]
    BY <1>6, FlattenGrows
  <2>3. \A i \in 1..n : ss[i] = tt[i]
    BY <1>1
  <2>4. n \in Nat
    BY <1>1
  <2>5. \A i \in 1..n : f[i] = g[i]
    BY <1>2, <1>3, <2>2, <2>3, <2>4, GrowsAlike
  <2>6. f[n] = g[n]
    BY <2>1, <2>5
  <2>7. g[m] = g[n] \o x
    BY <1>2, <1>4, <2>1
  <2> QED BY <1>3, <2>2, <2>6, <2>7, Zenon DEF tt
<1> QED BY <1>5, <1>6

LEMMA FlattenOne ==
  ASSUME NEW S, NEW x \in Seq(S)
  PROVE  FlattenSeq(<<x>>) = x
<1>1. <<>> \in Seq(Seq(S)) /\ <<x>> = Append(<<>>, x)
  OBVIOUS
<1>2. FlattenSeq(<<x>>) = <<>> \o x
  BY <1>1, FlattenAppend, FlattenEmpty
<1> QED BY <1>2

\* Concatenation is associative.
Associates(S) == \A p, q, v \in Seq(S) : (p \o q) \o v = p \o (q \o v)

LEMMA ConcatThree == \A S : Associates(S)
<1> TAKE S
<1> SUFFICES \A p, q, v \in Seq(S) : (p \o q) \o v = p \o (q \o v)
  BY DEF Associates
<1> TAKE p, q, v \in Seq(S)
<1> DEFINE l == (p \o q) \o v
           r == p \o (q \o v)
<1>1. l \in Seq(S) /\ r \in Seq(S)
  OBVIOUS
<1>2. Len(l) = Len(r) /\ \A i \in 1..Len(l) : l[i] = r[i]
  OBVIOUS
<1> HIDE DEF l, r
<1>3. l = r
  BY <1>1, <1>2, SeqEqual
<1> QED BY <1>3 DEF l, r

\* What is flattened in two parts is so as a whole.
LEMMA FlattenConcat ==
  ASSUME NEW S, NEW ss \in Seq(Seq(S)), NEW tt \in Seq(Seq(S))
  PROVE  FlattenSeq(ss \o tt) = FlattenSeq(ss) \o FlattenSeq(tt)
<1> DEFINE Begin(n) == SubSeq(tt, 1, n)
           T == {n \in 0..Len(tt) :
                   FlattenSeq(ss \o Begin(n)) = FlattenSeq(ss) \o FlattenSeq(Begin(n))}
<1>1. Len(tt) \in Nat /\ FlattenSeq(ss) \in Seq(S)
  BY FlattenType
<1>2. 0 \in T
  <2>1. Begin(0) = <<>>
    BY SubSeqEmpty
  <2>2. ss \o <<>> = ss /\ FlattenSeq(ss) \o <<>> = FlattenSeq(ss)
    BY <1>1, ConcatEmptySeq
  <2>3. 0 \in 0..Len(tt)
    BY <1>1
  <2> QED BY <2>1, <2>2, <2>3, FlattenEmpty, Zenon
<1>3. ASSUME NEW n \in 0..(Len(tt) - 1), n \in T PROVE n + 1 \in T
  <2> DEFINE x == tt[n + 1]
             u == Begin(n)
  <2>1. n + 1 \in 1..Len(tt) /\ n \in Nat /\ n + 1 \in 0..Len(tt)
    BY <1>1
  <2>2. x \in Seq(S) /\ u \in Seq(Seq(S))
    <3>1. \A i \in 1..n : tt[i] \in Seq(S)
      BY <2>1
    <3> QED BY <2>1, <3>1, SubSeqProperties
  <2>3. Begin(n + 1) = Append(u, x)
    <3>1. 1 \in 1..Len(tt) /\ n + 1 \in 1..Len(tt) /\ (n + 1) - 1 = n
      BY <2>1
    <3>2. Begin(n + 1) = u \o <<x>>
      BY <3>1, SubSeqRecursiveSecond
    <3>3. Append(u, x) = u \o <<x>>
      BY <2>2, AppendIsConcat
    <3> QED BY <3>2, <3>3, Zenon
  <2>4. FlattenSeq(ss \o u) = FlattenSeq(ss) \o FlattenSeq(u)
    BY <1>3
  <2> HIDE DEF u, x
  <2>5. ss \o Append(u, x) = Append(ss \o u, x) /\ ss \o u \in Seq(Seq(S))
    <3>1. ss \o u \in Seq(Seq(S))
      BY <2>2, ConcatProperties
    <3>2. ss \o Append(u, x) = Append(ss \o u, x)
      BY <2>2, SMTT(30)
    <3> QED BY <3>1, <3>2
  <2>6. FlattenSeq(Append(ss \o u, x)) = FlattenSeq(ss \o u) \o x
    BY <2>2, <2>5, FlattenAppend
  <2>7. FlattenSeq(Append(u, x)) = FlattenSeq(u) \o x /\ FlattenSeq(u) \in Seq(S)
    BY <2>2, FlattenAppend, FlattenType
  <2>8. (FlattenSeq(ss) \o FlattenSeq(u)) \o x = FlattenSeq(ss) \o (FlattenSeq(u) \o x)
    <3>1. Associates(S)
      BY ConcatThree, Zenon
    <3>2. FlattenSeq(ss) \in Seq(S) /\ FlattenSeq(u) \in Seq(S) /\ x \in Seq(S)
      BY <1>1, <2>2, <2>7
    <3> QED BY <3>1, <3>2, Zenon DEF Associates
  <2>9. FlattenSeq(ss \o Begin(n + 1)) = FlattenSeq(ss) \o FlattenSeq(Begin(n + 1))
    BY <2>3, <2>4, <2>5, <2>6, <2>7, <2>8, Zenon
  <2> QED BY <2>1, <2>9, Zenon
<1>4. Len(tt) \in T
  <2> HIDE DEF T
  <2>1. \A n \in 0..Len(tt) : n \in T
    BY <1>1, <1>2, <1>3, UpTo
  <2> QED BY <1>1, <2>1
<1>5. Begin(Len(tt)) = tt
  BY SubSeqFull
<1> QED BY <1>4, <1>5

\* A sequence that has the elements of two, one after the other.
LEMMA IsConcat ==
  ASSUME NEW S, NEW a \in Seq(S), NEW b \in Seq(S), NEW c \in Seq(S),
         Len(c) = Len(a) + Len(b),
         \A i \in 1..Len(c) : c[i] = IF i <= Len(a) THEN a[i] ELSE b[i - Len(a)]
  PROVE  c = a \o b
<1> DEFINE u == a \o b
<1>1. u \in Seq(S) /\ Len(u) = Len(c) /\ \A i \in 1..Len(c) : c[i] = u[i]
  OBVIOUS
<1> HIDE DEF u
<1>2. c = u
  BY <1>1, SeqEqual
<1> QED BY <1>2 DEF u

-----------------------------------------------------------------------------
(* Reading a text.                                                         *)

\* The least of a set of places, when there is one.
LEMMA FirstIs ==
  ASSUME NEW I, I \subseteq Nat, I # {}
  PROVE  First(I) \in I /\ \A j \in I : First(I) <= j
<1>1. \E i \in I : \A j \in I : i <= j
  BY NatMin
<1> QED BY <1>1, Zenon DEF First

\* No other place has that property.
LEMMA FirstOnly ==
  ASSUME NEW I, I \subseteq Nat, NEW i \in I, \A j \in I : i <= j
  PROVE  First(I) = i
<1>1. First(I) \in I /\ \A j \in I : First(I) <= j
  BY FirstIs
<1>2. First(I) <= i /\ i <= First(I) /\ First(I) \in Nat /\ i \in Nat
  BY <1>1
<1> QED BY <1>2

LEMMA KnownTokens ==
  /\ Nothing \in Token /\ Garbled \in Token /\ NoReply \in Reply
  /\ Closed \in Piece /\ \A k \in {1, 2} : Stray(k) \in Piece
  /\ ~IsObject(Nothing) /\ IsObject(Garbled) /\ TypeOf("Heart") = -1 /\ TypeOf("Junk") = -1
BY DEF Nothing, Garbled, NoReply, Reply, Closed, Stray, Piece, Token, Kinds, IsObject, TypeOf

\* What is found in a text is a message, or nothing.
LEMMA FoundType ==
  ASSUME NEW s \in Seq(Piece), Opening(s) # {}
  PROVE  Found(s) \in Token
<1>1. Opening(s) \subseteq Nat /\ Opening(s) \subseteq 1..Len(s)
  BY DEF Opening
<1>2. First(Opening(s)) \in 1..Len(s)
  BY <1>1, FirstIs, Zenon
<1>3. s[First(Opening(s))] \in Piece
  BY <1>2, ElementOfSeq, Zenon
<1>4. s[First(Opening(s))].tok \in Token
  BY <1>3 DEF Piece
<1> QED BY <1>4, KnownTokens, Zenon DEF Found

LEMMA HeartType == ASSUME NEW s PROVE HasHeart(s) \in BOOLEAN
BY Zenon DEF HasHeart

LEMMA CachedType == ASSUME NEW s \in Seq(Piece) PROVE Cached(s) \in Reply
<1> DEFINE o == IF HasBraces(s) /\ TypeOf(Found(s).kind) > 0 THEN Found(s) ELSE Nothing
<1>1. o \in Token
  <2>1. HasBraces(s) => Opening(s) # {}
    BY DEF HasBraces
  <2> QED BY <2>1, FoundType, KnownTokens, Zenon
<1>2. Cached(s) = [obj |-> o, heart |-> HasHeart(s)]
  BY Zenon DEF Cached
<1> HIDE DEF o
<1> QED BY <1>1, <1>2, HeartType DEF Reply

\* A read takes the first pieces of the input, and may put a brace behind them.
LEMMA Reading ==
  ASSUME line \in Seq(Piece), calm \in BOOLEAN, NEW s, Takes(s)
  PROVE  \E n \in 1..Len(line) :
           /\ SubSeq(line, 1, n) \in Seq(Piece) /\ Len(SubSeq(line, 1, n)) = n
           /\ \A i \in 1..n : SubSeq(line, 1, n)[i] = line[i]
           /\ line' = SubSeq(line, n + 1, Len(line)) /\ line' \in Seq(Piece)
           /\ Len(line') = Len(line) - n /\ \A i \in 1..Len(line') : line'[i] = line[i + n]
           /\ line = SubSeq(line, 1, n) \o line'
           /\ \/ s = SubSeq(line, 1, n)
              \/ \E k \in {1, 2} : s = Append(SubSeq(line, 1, n), Stray(k))
           /\ s \in Seq(Piece) /\ calm' \in BOOLEAN
<1>1. PICK n \in 1..Len(line) :
        /\ line' = SubSeq(line, n + 1, Len(line))
        /\ \/ s = SubSeq(line, 1, n) /\ UNCHANGED calm
           \/ Fills /\ s \in {Append(SubSeq(line, 1, n), Stray(k)) : k \in {1, 2}} /\ calm' = FALSE
  BY DEF Takes
<1> DEFINE c == SubSeq(line, 1, n)
<1>2. 1 \in Int /\ n \in Int /\ \A i \in 1..n : line[i] \in Piece
  OBVIOUS
<1>3. c \in Seq(Piece) /\ Len(c) = n /\ \A i \in 1..n : c[i] = line[i]
  BY <1>2, SubSeqProperties
<1>4. n + 1 \in Int /\ Len(line) \in Int /\ \A i \in (n + 1)..Len(line) : line[i] \in Piece
  OBVIOUS
<1>5. /\ line' \in Seq(Piece) /\ Len(line') = Len(line) - n
      /\ \A i \in 1..Len(line') : line'[i] = line[i + n]
  BY <1>1, <1>4, SubSeqProperties
<1> HIDE DEF c
<1>6. line = c \o line'
  <2>1. Len(line) = Len(c) + Len(line')
    BY <1>3, <1>5
  <2>2. \A i \in 1..Len(line) : line[i] = IF i <= Len(c) THEN c[i] ELSE line'[i - Len(c)]
    BY <1>3, <1>5
  <2> QED BY <1>3, <1>5, <2>1, <2>2, IsConcat
<1>7. s = c \/ \E k \in {1, 2} : s = Append(c, Stray(k))
  BY <1>1 DEF c
<1>8. s \in Seq(Piece)
  <2>1. \A k \in {1, 2} : Append(c, Stray(k)) \in Seq(Piece)
    BY <1>3, KnownTokens, AppendProperties
  <2> QED BY <1>3, <1>7, <2>1, Zenon
<1>9. calm' \in BOOLEAN
  BY <1>1
<1> QED BY <1>1, <1>3, <1>5, <1>6, <1>7, <1>8, <1>9 DEF c

-----------------------------------------------------------------------------
(* Types.                                                                  *)

LEMMA ReturnType ==
  ASSUME NEW ok \in BOOLEAN, NEW r \in Reply, Return(ok, r)
  PROVE  /\ got' \in [ok : BOOLEAN, r : Reply] /\ text' \in Seq(Piece)
         /\ pc' = "idle" /\ times' = 0 /\ text' = <<>> /\ Opening(text') = {}
BY DEF Return, Opening

LEMMA JudgedType ==
  ASSUME NEW s \in Seq(Piece), Opening(s) # {}
  PROVE  [obj |-> Found(s), heart |-> HasHeart(s)] \in Reply
BY FoundType, HeartType DEF Reply

LEMMA HeartOnly ==
  ASSUME NEW s PROVE [obj |-> Nothing, heart |-> HasHeart(s)] \in Reply
BY HeartType, KnownTokens DEF Reply

\* An opening brace stays where it is when more is read.
LEMMA OpeningStays ==
  ASSUME NEW s \in Seq(Piece), NEW t \in Seq(Piece), Opening(s) # {}
  PROVE  Opening(s \o t) # {}
<1>1. PICK i \in 1..Len(s) : IsObject(s[i].tok) /\ s[i].k = 1
  BY DEF Opening
<1>2. i \in 1..Len(s \o t) /\ (s \o t)[i] = s[i]
  OBVIOUS
<1> QED BY <1>1, <1>2 DEF Opening

LEMMA TypeInit == Init => TypeOK
<1> SUFFICES ASSUME Init PROVE TypeOK
  OBVIOUS
<1>1. line \in Seq(Piece) /\ cached \in Seq(Piece) /\ text \in Seq(Piece)
  BY DEF Init
<1>2. pc = "idle" /\ times = 0 /\ sent = 0 /\ times \in 0..Reads /\ sent \in 0..MaxSent
      /\ link \in BOOLEAN /\ calm \in BOOLEAN
  BY RecConstantsOK DEF Init
<1>3. got \in [ok : BOOLEAN, r : Reply]
  BY KnownTokens DEF Init
<1>4. Opening(text) = {}
  BY DEF Init, Opening
<1> QED BY <1>1, <1>2, <1>3, <1>4 DEF TypeOK

LEMMA TypeCall == ASSUME TypeOK, Call PROVE TypeOK'
<1>1. cached' \in Seq(Piece) /\ UNCHANGED <<line, sent, link, calm>> /\ pc = "idle"
  BY DEF Call
<1>2. CASE CachedHit(cached)
  <2>1. Return(TRUE, Cached(cached)) /\ Cached(cached) \in Reply
    BY <1>2, CachedType DEF Call, TypeOK
  <2>2. /\ got' \in [ok : BOOLEAN, r : Reply] /\ text' \in Seq(Piece)
        /\ pc' = "idle" /\ times' = 0 /\ Opening(text') = {}
    BY <2>1, ReturnType
  <2> QED BY <1>1, <2>2, RecConstantsOK DEF TypeOK
<1>3. CASE ~CachedHit(cached)
  <2>1. pc' = "first" /\ UNCHANGED <<text, times, got>>
    BY <1>3 DEF Call
  <2>2. Opening(text)' = Opening(text)
    BY <2>1 DEF Opening
  <2> QED BY <1>1, <2>1, <2>2 DEF TypeOK
<1> QED BY <1>2, <1>3

LEMMA TypeReturned ==
  ASSUME TypeOK, NEW ok \in BOOLEAN, NEW r \in Reply, Return(ok, r),
         line' \in Seq(Piece), cached' = cached, UNCHANGED <<sent, link>>, calm' \in BOOLEAN
  PROVE  TypeOK'
<1>1. /\ got' \in [ok : BOOLEAN, r : Reply] /\ text' \in Seq(Piece)
      /\ pc' = "idle" /\ times' = 0 /\ Opening(text') = {}
  BY ReturnType
<1> QED BY <1>1, RecConstantsOK DEF TypeOK

LEMMA TypeFirst == ASSUME TypeOK, FirstRead PROVE TypeOK'
<1>1. UNCHANGED <<cached, sent, link>>
  BY DEF FirstRead
<1>2. CASE TimesOut /\ Return(FALSE, NoReply) /\ UNCHANGED line
  <2>1. calm' \in BOOLEAN /\ line' \in Seq(Piece)
    BY <1>2 DEF TimesOut, TypeOK
  <2> QED BY <1>1, <1>2, <2>1, KnownTokens, TypeReturned
<1>3. ASSUME NEW s \in Strings, Takes(s),
             \/ /\ Opening(s) = {}
                /\ Return(HasHeart(s), [obj |-> Nothing, heart |-> HasHeart(s)])
             \/ /\ HasBraces(s)
                /\ Return(TRUE, [obj |-> Found(s), heart |-> HasHeart(s)])
             \/ /\ Opening(s) # {} /\ Closing(s) = {}
                /\ text' = s /\ times' = 1 /\ pc' = "more" /\ UNCHANGED got
      PROVE TypeOK'
  <2>1. s \in Seq(Piece) /\ line' \in Seq(Piece) /\ calm' \in BOOLEAN
    BY <1>3, Reading DEF TypeOK
  <2>2. CASE Opening(s) = {} /\ Return(HasHeart(s), [obj |-> Nothing, heart |-> HasHeart(s)])
    BY <1>1, <2>1, <2>2, HeartOnly, HeartType, TypeReturned
  <2>3. CASE HasBraces(s) /\ Return(TRUE, [obj |-> Found(s), heart |-> HasHeart(s)])
    <3>1. Opening(s) # {}
      BY <2>3 DEF HasBraces
    <3>2. [obj |-> Found(s), heart |-> HasHeart(s)] \in Reply
      BY <2>1, <3>1, JudgedType
    <3> QED BY <1>1, <2>1, <2>3, <3>2, TypeReturned
  <2>4. CASE Opening(s) # {} /\ text' = s /\ times' = 1 /\ pc' = "more" /\ UNCHANGED got
    <3>1. Opening(text') # {} /\ text' \in Seq(Piece) /\ times' \in 0..Reads /\ times' # 0
      BY <2>1, <2>4, RecConstantsOK
    <3> QED BY <1>1, <2>1, <2>4, <3>1 DEF TypeOK
  <2> QED BY <1>3, <2>2, <2>3, <2>4
<1> QED BY <1>2, <1>3 DEF FirstRead

LEMMA TypeMore == ASSUME TypeOK, MoreReads PROVE TypeOK'
<1>1. UNCHANGED <<cached, got, sent, link>> /\ pc = "more" /\ times # 0
  BY DEF MoreReads, TypeOK
<1>2. ASSUME times < Reads, NEW s \in Strings, Takes(s), text' = text \o s, times' = times + 1,
             pc' = IF Closing(text') # {} THEN "finish" ELSE "more"
      PROVE TypeOK'
  <2>1. s \in Seq(Piece) /\ line' \in Seq(Piece) /\ calm' \in BOOLEAN
    BY <1>2, Reading DEF TypeOK
  <2>2. text' \in Seq(Piece) /\ Opening(text') # {}
    <3>1. text \in Seq(Piece) /\ Opening(text) # {}
      BY <1>1 DEF TypeOK
    <3>2. text \o s \in Seq(Piece) /\ Opening(text \o s) # {}
      BY <2>1, <3>1, OpeningStays, ConcatProperties
    <3> QED BY <1>2, <3>2, Zenon
  <2>3. times' \in 0..Reads /\ times' # 0 /\ pc' \in {"more", "finish"}
    BY <1>2, RecConstantsOK DEF TypeOK
  <2> QED BY <1>1, <2>1, <2>2, <2>3 DEF TypeOK
<1>3. CASE /\ (times >= Reads /\ UNCHANGED calm) \/ TimesOut
           /\ pc' = "finish" /\ UNCHANGED <<line, text, times>>
  <2>1. calm' \in BOOLEAN
    BY <1>3 DEF TypeOK, TimesOut
  <2>2. Opening(text)' = Opening(text)
    BY <1>3 DEF Opening
  <2> QED BY <1>1, <1>3, <2>1, <2>2 DEF TypeOK
<1> QED BY <1>2, <1>3 DEF MoreReads

LEMMA TypeFinish == ASSUME TypeOK, Finish PROVE TypeOK'
<1>1. UNCHANGED <<line, cached, sent, link, calm>> /\ Opening(text) # {} /\ text \in Seq(Piece)
  BY DEF Finish, TypeOK
<1>2. line' \in Seq(Piece) /\ calm' \in BOOLEAN
  BY <1>1 DEF TypeOK
<1>3. [obj |-> Found(text), heart |-> HasHeart(text)] \in Reply
  BY <1>1, JudgedType
<1>4. \E ok \in BOOLEAN, r \in Reply : Return(ok, r)
  BY <1>3, KnownTokens, Zenon DEF Finish
<1> QED BY <1>1, <1>2, <1>4, TypeReturned

LEMMA TypeDialogue == ASSUME TypeOK, Dialogue PROVE TypeOK'
<1>1. UNCHANGED <<pc, text, times, got, sent, link>> /\ calm' = FALSE /\ line # <<>>
  BY DEF Dialogue
<1>2. line' \in Seq(Piece) /\ cached' \in Seq(Piece)
  <2>1. Tail(line) \in Seq(Piece) /\ Head(line) \in Piece /\ cached \in Seq(Piece)
    BY <1>1 DEF TypeOK
  <2> QED BY <2>1 DEF Dialogue
<1>3. Opening(text)' = Opening(text)
  BY <1>1 DEF Opening
<1> QED BY <1>1, <1>2, <1>3 DEF TypeOK

\* The n pieces of the m-th message.
Cut(kind, n, bare, m) ==
  [k \in 1..n |-> [tok |-> [kind |-> kind, of |-> IF kind = "Open" THEN m ELSE 0],
                   id |-> m, k |-> k, n |-> n, bare |-> bare]]

LEMMA CutType ==
  ASSUME NEW kind \in SentKinds, NEW n \in 1..MaxPieces, NEW bare \in BOOLEAN, NEW m \in Nat
  PROVE  Cut(kind, n, bare, m) \in Seq(Piece) /\ Len(Cut(kind, n, bare, m)) = n
<1> DEFINE tok == [kind |-> kind, of |-> IF kind = "Open" THEN m ELSE 0]
<1>1. tok \in Token
  BY RecConstantsOK DEF Token
<1> HIDE DEF tok
<1>2. \A k \in 1..n : [tok |-> tok, id |-> m, k |-> k, n |-> n, bare |-> bare] \in Piece
  BY <1>1 DEF Piece
<1>3. n \in Nat
  BY RecConstantsOK
<1> HIDE DEF tok
<1>4. [k \in 1..n |-> [tok |-> tok, id |-> m, k |-> k, n |-> n, bare |-> bare]] \in Seq(Piece)
  BY <1>2, <1>3
<1> QED BY <1>3, <1>4 DEF Cut, tok

LEMMA TypeSends == ASSUME TypeOK, ServerSends PROVE TypeOK'
<1>1. /\ sent < MaxSent /\ sent' = sent + 1 /\ UNCHANGED <<cached, pc, text, times, got, link>>
      /\ calm' \in BOOLEAN
  BY DEF ServerSends, TypeOK
<1>2. sent' \in 0..MaxSent /\ sent' \in Nat
  BY <1>1, RecConstantsOK DEF TypeOK
<1>3. PICK kind \in SentKinds, n \in 1..MaxPieces, bare \in BOOLEAN :
        line' = line \o Cut(kind, n, bare, sent')
  BY DEF ServerSends, Cut
<1>4. line' \in Seq(Piece)
  BY <1>2, <1>3, CutType DEF TypeOK
<1>5. Opening(text)' = Opening(text)
  BY <1>1 DEF Opening
<1> QED BY <1>1, <1>2, <1>4, <1>5 DEF TypeOK

LEMMA TypeDrops == ASSUME TypeOK, LinkDrops PROVE TypeOK'
<1>1. line' \in Seq(Piece)
  BY KnownTokens DEF LinkDrops, TypeOK
<1>2. Opening(text)' = Opening(text)
  BY DEF LinkDrops, Opening
<1> QED BY <1>1, <1>2 DEF LinkDrops, TypeOK

LEMMA TypeStep == ASSUME TypeOK, [Next]_vars PROVE TypeOK'
<1>1. CASE RecTcpData
  BY <1>1, TypeCall, TypeFirst, TypeMore, TypeFinish DEF RecTcpData
<1>2. CASE UNCHANGED vars
  <2>1. Opening(text)' = Opening(text)
    BY <1>2 DEF vars, Opening
  <2> QED BY <1>2, <2>1 DEF vars, TypeOK
<1> QED BY <1>1, <1>2, TypeDialogue, TypeSends, TypeDrops DEF Next

\* Every variable of rec_tcp_data keeps its type, for any number of messages
\* and pieces; a text in the making has an opening brace, and no call makes
\* more reads than the loop of gprs.cpp allows.
THEOREM ReceiveTypes == Spec => []TypeOK
<1>1. TypeOK /\ [Next]_vars => TypeOK'
  BY TypeStep
<1> QED BY TypeInit, <1>1, PTL DEF Spec
-----------------------------------------------------------------------------
(* What is in a flattened sequence.                                        *)

\* The part before a place, the place, and the part behind it.
Parted(ss, i, a, b) ==
  /\ ss = (a \o <<ss[i]>>) \o b
  /\ Len(a) = i - 1 /\ \A j \in 1..Len(a) : a[j] = ss[j]
  /\ Len(b) = Len(ss) - i /\ \A j \in 1..Len(b) : b[j] = ss[i + j]

LEMMA ThreeParts ==
  ASSUME NEW S, NEW ss \in Seq(S), NEW i \in 1..Len(ss)
  PROVE  \E a, b \in Seq(S) :
           Parted(ss, i, a, b)
<1> DEFINE a == SubSeq(ss, 1, i - 1)
           b == SubSeq(ss, i + 1, Len(ss))
<1>1. 1 \in Int /\ i - 1 \in Int /\ \A j \in 1..(i - 1) : ss[j] \in S
  OBVIOUS
<1>2. a \in Seq(S) /\ Len(a) = i - 1 /\ \A j \in 1..Len(a) : a[j] = ss[j]
  BY <1>1, SubSeqProperties
<1>3. i + 1 \in Int /\ Len(ss) \in Int /\ \A j \in (i + 1)..Len(ss) : ss[j] \in S
  OBVIOUS
<1>4. b \in Seq(S) /\ Len(b) = Len(ss) - i /\ \A j \in 1..Len(b) : b[j] = ss[i + j]
  BY <1>3, SubSeqProperties
<1> HIDE DEF a, b
<1>5. ss[i] \in S
  OBVIOUS
<1> DEFINE c == a \o <<ss[i]>>
<1>6. c \in Seq(S) /\ Len(c) = i /\ \A j \in 1..i : c[j] = ss[j]
  BY <1>2, <1>5
<1> HIDE DEF c
<1>7. Len(ss) = Len(c) + Len(b)
  BY <1>4, <1>6
<1>8. \A j \in 1..Len(ss) : ss[j] = IF j <= Len(c) THEN c[j] ELSE b[j - Len(c)]
  BY <1>4, <1>6
<1>9. ss = c \o b
  BY <1>4, <1>6, <1>7, <1>8, IsConcat
<1> QED BY <1>2, <1>4, <1>9 DEF c, Parted

\* Flattening them one by one.
LEMMA FlattenThree ==
  ASSUME NEW S, NEW ss \in Seq(Seq(S)), NEW i \in 1..Len(ss)
  PROVE  \E a, b \in Seq(Seq(S)) :
           /\ Parted(ss, i, a, b)
           /\ FlattenSeq(ss) = (FlattenSeq(a) \o ss[i]) \o FlattenSeq(b)
           /\ FlattenSeq(a) \in Seq(S) /\ FlattenSeq(b) \in Seq(S)
<1>1. PICK a, b \in Seq(Seq(S)) : Parted(ss, i, a, b)
  BY ThreeParts, Zenon
<1> DEFINE x == ss[i]
<1>2. ss = (a \o <<x>>) \o b
  BY <1>1 DEF Parted
<1>3. x \in Seq(S) /\ a \in Seq(Seq(S)) /\ b \in Seq(Seq(S))
  OBVIOUS
<1> HIDE DEF x
<1>4. <<x>> \in Seq(Seq(S)) /\ a \o <<x>> \in Seq(Seq(S))
  BY <1>3
<1>5. FlattenSeq((a \o <<x>>) \o b) = FlattenSeq(a \o <<x>>) \o FlattenSeq(b)
  BY <1>3, <1>4, FlattenConcat
<1>6. FlattenSeq(a \o <<x>>) = FlattenSeq(a) \o FlattenSeq(<<x>>)
  BY <1>3, <1>4, FlattenConcat
<1>7. FlattenSeq(<<x>>) = x
  BY <1>3, FlattenOne
<1>8. FlattenSeq(a) \in Seq(S) /\ FlattenSeq(b) \in Seq(S)
  BY <1>3, FlattenType
<1>9. FlattenSeq(ss) = (FlattenSeq(a) \o x) \o FlattenSeq(b)
  BY <1>2, <1>5, <1>6, <1>7, Zenon
<1> QED BY <1>1, <1>8, <1>9, Zenon DEF x

\* All that is in it was in one of the sequences.
LEMMA FlattenFrom ==
  ASSUME NEW S, NEW ss \in Seq(Seq(S)), NEW j \in 1..Len(FlattenSeq(ss))
  PROVE  \E i \in 1..Len(ss) : \E m \in 1..Len(ss[i]) : FlattenSeq(ss)[j] = ss[i][m]
<1> DEFINE Upto(n) == FlattenSeq(SubSeq(ss, 1, n))
           Has(x)  == \E i \in 1..Len(ss) : \E m \in 1..Len(ss[i]) : x = ss[i][m]
           T == {n \in 0..Len(ss) : \A d \in 1..Len(Upto(n)) : Has(Upto(n)[d])}
<1>1. Len(ss) \in Nat
  OBVIOUS
<1>2. 0 \in T
  <2>1. SubSeq(ss, 1, 0) = <<>>
    BY SubSeqEmpty
  <2>2. Upto(0) = <<>>
    BY <2>1, FlattenEmpty, Zenon
  <2>3. Len(Upto(0)) = 0
    BY <2>2
  <2> QED BY <1>1, <2>3
<1>3. ASSUME NEW n \in 0..(Len(ss) - 1), n \in T PROVE n + 1 \in T
  <2> DEFINE x == ss[n + 1]
             u == SubSeq(ss, 1, n)
  <2>1. n + 1 \in 1..Len(ss) /\ n \in Nat /\ n + 1 \in 0..Len(ss)
    BY <1>1
  <2>2. x \in Seq(S) /\ u \in Seq(Seq(S))
    <3>1. \A i \in 1..n : ss[i] \in Seq(S)
      BY <2>1
    <3> QED BY <2>1, <3>1, SubSeqProperties
  <2>3. SubSeq(ss, 1, n + 1) = Append(u, x)
    <3>1. 1 \in 1..Len(ss) /\ n + 1 \in 1..Len(ss) /\ (n + 1) - 1 = n
      BY <2>1
    <3>2. SubSeq(ss, 1, n + 1) = u \o <<x>>
      BY <3>1, SubSeqRecursiveSecond
    <3>3. Append(u, x) = u \o <<x>>
      BY <2>2, AppendIsConcat
    <3> QED BY <3>2, <3>3, Zenon
  <2>4. Upto(n + 1) = Upto(n) \o x /\ Upto(n) \in Seq(S)
    BY <2>2, <2>3, FlattenAppend, FlattenType
  <2>5. \A d \in 1..Len(Upto(n)) : Has(Upto(n)[d])
    BY <1>3
  <2>6. \A d \in 1..Len(x) : Has(x[d])
    BY <2>1
  <2> HIDE DEF x, u, Upto, Has
  <2>7. \A d \in 1..Len(Upto(n + 1)) : Has(Upto(n + 1)[d])
    <3> SUFFICES ASSUME NEW d \in 1..Len(Upto(n + 1)) PROVE Has(Upto(n + 1)[d])
      OBVIOUS
    <3>1. CASE d <= Len(Upto(n))
      BY <2>2, <2>4, <2>5, <3>1
    <3>2. CASE ~(d <= Len(Upto(n)))
      <4>1. d - Len(Upto(n)) \in 1..Len(x) /\ Upto(n + 1)[d] = x[d - Len(Upto(n))]
        BY <2>2, <2>4, <3>2
      <4> QED BY <2>6, <4>1
    <3> QED BY <3>1, <3>2
  <2> QED BY <2>1, <2>7
<1>4. Len(ss) \in T
  <2> HIDE DEF T
  <2>1. \A n \in 0..Len(ss) : n \in T
    BY <1>1, <1>2, <1>3, UpTo
  <2> QED BY <1>1, <2>1
<1>5. SubSeq(ss, 1, Len(ss)) = ss
  BY SubSeqFull
<1> QED BY <1>4, <1>5

\* And all that was in one of them is in it.
LEMMA FlattenHas ==
  ASSUME NEW S, NEW ss \in Seq(Seq(S)), NEW i \in 1..Len(ss), NEW m \in 1..Len(ss[i])
  PROVE  \E j \in 1..Len(FlattenSeq(ss)) : FlattenSeq(ss)[j] = ss[i][m]
<1>1. PICK a, b \in Seq(Seq(S)) :
         /\ Parted(ss, i, a, b)
         /\ FlattenSeq(ss) = (FlattenSeq(a) \o ss[i]) \o FlattenSeq(b)
         /\ FlattenSeq(a) \in Seq(S) /\ FlattenSeq(b) \in Seq(S)
  BY FlattenThree, Zenon
<1> DEFINE x == ss[i]
           f == FlattenSeq(a)
           g == FlattenSeq(b)
<1>2. x \in Seq(S)
  OBVIOUS
<1>3. FlattenSeq(ss) = (f \o x) \o g /\ f \in Seq(S) /\ g \in Seq(S)
  BY <1>1, Zenon
<1>4. m \in 1..Len(x)
  OBVIOUS
<1> HIDE DEF x, f, g
<1>5. Len(f) + m \in 1..Len((f \o x) \o g) /\ ((f \o x) \o g)[Len(f) + m] = x[m]
  BY <1>2, <1>3, <1>4
<1> QED BY <1>3, <1>5 DEF x

\* Nothing comes of nothings.
LEMMA FlattenNothing ==
  ASSUME NEW S, NEW ss \in Seq(Seq(S)), \A i \in 1..Len(ss) : ss[i] = <<>>
  PROVE  FlattenSeq(ss) = <<>>
<1>1. FlattenSeq(ss) \in Seq(S)
  BY FlattenType
<1>2. ASSUME FlattenSeq(ss) # <<>> PROVE FALSE
  <2>1. 1 \in 1..Len(FlattenSeq(ss))
    BY <1>1, <1>2
  <2>2. PICK i \in 1..Len(ss) : \E m \in 1..Len(ss[i]) : FlattenSeq(ss)[1] = ss[i][m]
    BY <2>1, FlattenFrom
  <2>3. ss[i] = <<>>
    OBVIOUS
  <2> QED BY <2>2, <2>3
<1> QED BY <1>2

-----------------------------------------------------------------------------
(* What is read in a flattened sequence of messages.                       *)

LEMMA DigestObject ==
  ASSUME NEW s \in Seq(Token), NEW i \in 1..Len(s), IsObject(s[i]),
         \A j \in 1..(i - 1) : ~IsObject(s[j])
  PROVE  Digest(s).obj = s[i]
<1>1. FirstObject(s) = {i}
  <2>1. i \in FirstObject(s)
    BY DEF FirstObject
  <2>2. \A j \in FirstObject(s) : j = i
    <3> SUFFICES ASSUME NEW j \in FirstObject(s) PROVE j = i
      OBVIOUS
    <3>1. j \in 1..Len(s) /\ IsObject(s[j]) /\ \A d \in 1..(j - 1) : ~IsObject(s[d])
      BY DEF FirstObject
    <3>2. ~(j < i)
      <4>1. j < i => j \in 1..(i - 1)
        BY <3>1
      <4> QED BY <3>1, <4>1
    <3>3. ~(i < j)
      <4>1. i < j => i \in 1..(j - 1)
        BY <3>1
      <4> QED BY <3>1, <4>1
    <3> QED BY <3>1, <3>2, <3>3
  <2> QED BY <2>1, <2>2
<1>2. FirstObject(s) # {} /\ (CHOOSE d \in FirstObject(s) : TRUE) = i
  BY <1>1
<1> DEFINE h == \E d \in 1..Len(s) : s[d].kind = "Heart"
<1>3. Digest(s) = [obj |-> s[CHOOSE d \in FirstObject(s) : TRUE], heart |-> h]
  BY <1>2, Zenon DEF Digest
<1> DEFINE c == CHOOSE d \in FirstObject(s) : TRUE
<1>4. Digest(s) = [obj |-> s[c], heart |-> h] /\ c = i
  BY <1>2, <1>3
<1> HIDE DEF h, c
<1> QED BY <1>4

LEMMA DigestNothing ==
  ASSUME NEW s, \A j \in 1..Len(s) : ~IsObject(s[j])
  PROVE  Digest(s).obj = Nothing
<1>1. FirstObject(s) = {}
  BY DEF FirstObject
<1> DEFINE h == \E d \in 1..Len(s) : s[d].kind = "Heart"
<1>2. Digest(s) = [obj |-> Nothing, heart |-> h]
  BY <1>1, Zenon DEF Digest
<1> HIDE DEF h
<1> QED BY <1>2

LEMMA DigestHeart ==
  ASSUME NEW s
  PROVE  Digest(s).heart = (\E i \in 1..Len(s) : s[i].kind = "Heart")
<1> DEFINE h == \E d \in 1..Len(s) : s[d].kind = "Heart"
           o == IF FirstObject(s) = {} THEN Nothing ELSE s[CHOOSE d \in FirstObject(s) : TRUE]
<1>1. Digest(s) = [obj |-> o, heart |-> h]
  BY Zenon DEF Digest
<1>2. Digest(s).heart = h
  <2> HIDE DEF h, o
  <2> QED BY <1>1
<1> QED BY <1>2

\* Object or not, the first of them is a message that was in it.
LEMMA DigestFrom ==
  ASSUME NEW s
  PROVE  Digest(s).obj = Nothing \/ \E i \in 1..Len(s) : Digest(s).obj = s[i]
<1> DEFINE h == \E d \in 1..Len(s) : s[d].kind = "Heart"
           o == IF FirstObject(s) = {} THEN Nothing ELSE s[CHOOSE d \in FirstObject(s) : TRUE]
<1>1. Digest(s) = [obj |-> o, heart |-> h]
  BY Zenon DEF Digest
<1>2. Digest(s).obj = o
  <2> HIDE DEF h, o
  <2> QED BY <1>1
<1>3. FirstObject(s) \subseteq 1..Len(s)
  BY DEF FirstObject
<1>4. FirstObject(s) # {} => (CHOOSE d \in FirstObject(s) : TRUE) \in FirstObject(s)
  BY Zenon
<1> QED BY <1>2, <1>3, <1>4

LEMMA FlatObject ==
  ASSUME NEW ss \in Seq(Seq(Token)), NEW i \in 1..Len(ss), NEW t, ss[i] = <<t>>, IsObject(t),
         \A j \in 1..(i - 1) : \A m \in 1..Len(ss[j]) : ~IsObject(ss[j][m])
  PROVE  Digest(FlattenSeq(ss)).obj = t
<1>0. PICK a, b \in Seq(Seq(Token)) :
         /\ Parted(ss, i, a, b)
         /\ FlattenSeq(ss) = (FlattenSeq(a) \o ss[i]) \o FlattenSeq(b)
         /\ FlattenSeq(a) \in Seq(Token) /\ FlattenSeq(b) \in Seq(Token)
  BY FlattenThree, Zenon
<1>1. Len(a) = i - 1 /\ \A j \in 1..Len(a) : a[j] = ss[j]
  BY <1>0, Zenon DEF Parted
<1> DEFINE f == FlattenSeq(a)
           g == FlattenSeq(b)
<1>2. t \in Token
  <2>1. ss[i] \in Seq(Token)
    BY ElementOfSeq, Zenon
  <2>2. <<t>> \in Seq(Token)
    BY <2>1, Zenon
  <2>3. 1 \in 1..Len(<<t>>) /\ <<t>>[1] = t
    OBVIOUS
  <2> QED BY <2>1, <2>2, <2>3, ElementOfSeq, Zenon
<1>3. FlattenSeq(ss) = (f \o <<t>>) \o g /\ f \in Seq(Token) /\ g \in Seq(Token)
  BY <1>0, Zenon
<1>4. \A j \in 1..Len(f) : ~IsObject(f[j])
  <2> SUFFICES ASSUME NEW j \in 1..Len(f) PROVE ~IsObject(f[j])
    OBVIOUS
  <2>1. PICK d \in 1..Len(a) : \E m \in 1..Len(a[d]) : f[j] = a[d][m]
    BY FlattenFrom
  <2>2. d \in 1..(i - 1) /\ a[d] = ss[d]
    BY <1>1
  <2> QED BY <2>1, <2>2
<1> HIDE DEF f, g
<1> DEFINE w == (f \o <<t>>) \o g
           p == Len(f) + 1
<1>5. w \in Seq(Token) /\ p \in 1..Len(w) /\ w[p] = t
  BY <1>2, <1>3
<1>6. \A j \in 1..(p - 1) : w[j] = f[j] /\ j \in 1..Len(f)
  BY <1>2, <1>3
<1> HIDE DEF w, p
<1>7. Digest(w).obj = w[p]
  <2>1. \A j \in 1..(p - 1) : ~IsObject(w[j])
    BY <1>4, <1>6
  <2>2. IsObject(w[p])
    BY <1>5
  <2> QED BY <1>5, <2>1, <2>2, DigestObject
<1> QED BY <1>3, <1>5, <1>7 DEF w

LEMMA FlatNothing ==
  ASSUME NEW ss \in Seq(Seq(Token)),
         \A i \in 1..Len(ss) : \A m \in 1..Len(ss[i]) : ~IsObject(ss[i][m])
  PROVE  Digest(FlattenSeq(ss)).obj = Nothing
<1>1. ASSUME NEW j \in 1..Len(FlattenSeq(ss)) PROVE ~IsObject(FlattenSeq(ss)[j])
  <2>1. PICK i \in 1..Len(ss) : \E m \in 1..Len(ss[i]) : FlattenSeq(ss)[j] = ss[i][m]
    BY FlattenFrom
  <2> QED BY <2>1
<1> QED BY <1>1, DigestNothing

LEMMA FlatHeart ==
  ASSUME NEW ss \in Seq(Seq(Token))
  PROVE  Digest(FlattenSeq(ss)).heart
           = (\E i \in 1..Len(ss) : \E m \in 1..Len(ss[i]) : ss[i][m].kind = "Heart")
<1>1. ASSUME NEW j \in 1..Len(FlattenSeq(ss)), FlattenSeq(ss)[j].kind = "Heart"
      PROVE  \E i \in 1..Len(ss) : \E m \in 1..Len(ss[i]) : ss[i][m].kind = "Heart"
  <2>1. PICK i \in 1..Len(ss) : \E m \in 1..Len(ss[i]) : FlattenSeq(ss)[j] = ss[i][m]
    BY FlattenFrom
  <2> QED BY <1>1, <2>1
<1>2. ASSUME NEW i \in 1..Len(ss), NEW m \in 1..Len(ss[i]), ss[i][m].kind = "Heart"
      PROVE  \E j \in 1..Len(FlattenSeq(ss)) : FlattenSeq(ss)[j].kind = "Heart"
  <2>1. PICK j \in 1..Len(FlattenSeq(ss)) : FlattenSeq(ss)[j] = ss[i][m]
    BY FlattenHas
  <2> QED BY <1>2, <2>1
<1>3. Digest(FlattenSeq(ss)).heart
        = (\E j \in 1..Len(FlattenSeq(ss)) : FlattenSeq(ss)[j].kind = "Heart")
  BY DigestHeart
<1> QED BY <1>1, <1>2, <1>3
-----------------------------------------------------------------------------
(* The messages that begin in a text.                                      *)
Beginning(p)  == IF Begins(p) THEN <<p.tok>> ELSE <<>>
Beginnings(s) == [i \in 1..Len(s) |-> Beginning(s[i])]

LEMMA BeginningsType ==
  ASSUME NEW s \in Seq(Piece)
  PROVE  /\ Beginnings(s) \in Seq(Seq(Token)) /\ Len(Beginnings(s)) = Len(s)
         /\ \A i \in 1..Len(s) : Beginnings(s)[i] = Beginning(s[i])
         /\ Begun(s) = FlattenSeq(Beginnings(s)) /\ Begun(s) \in Seq(Token)
<1>1. \A i \in 1..Len(s) : Beginning(s[i]) \in Seq(Token)
  <2> SUFFICES ASSUME NEW i \in 1..Len(s) PROVE Beginning(s[i]) \in Seq(Token)
    OBVIOUS
  <2>1. s[i].tok \in Token
    <3>1. s[i] \in Piece
      OBVIOUS
    <3> QED BY <3>1 DEF Piece
  <2>2. <<s[i].tok>> \in Seq(Token) /\ <<>> \in Seq(Token)
    BY <2>1
  <2> QED BY <2>2, Zenon DEF Beginning
<1>2. Len(s) \in Nat
  OBVIOUS
<1>3. Beginnings(s) \in Seq(Seq(Token)) /\ Len(Beginnings(s)) = Len(s)
      /\ \A i \in 1..Len(s) : Beginnings(s)[i] = Beginning(s[i])
  <2> HIDE DEF Beginning
  <2> QED BY <1>1, <1>2 DEF Beginnings
<1>4. Begun(s) = FlattenSeq(Beginnings(s))
  BY Zenon DEF Begun, Beginnings, Beginning
<1>5. FlattenSeq(Beginnings(s)) \in Seq(Token)
  BY <1>3, FlattenType
<1> QED BY <1>3, <1>4, <1>5

LEMMA BegunConcat ==
  ASSUME NEW s \in Seq(Piece), NEW t \in Seq(Piece)
  PROVE  Begun(s \o t) = Begun(s) \o Begun(t)
<1> DEFINE u == s \o t
           a == Beginnings(s)
           b == Beginnings(t)
           c == Beginnings(u)
<1>1. u \in Seq(Piece) /\ Len(u) = Len(s) + Len(t)
      /\ \A i \in 1..Len(u) : u[i] = IF i <= Len(s) THEN s[i] ELSE t[i - Len(s)]
  BY ConcatProperties
<1> HIDE DEF u
<1>2. /\ a \in Seq(Seq(Token)) /\ Len(a) = Len(s)
      /\ \A i \in 1..Len(s) : a[i] = Beginning(s[i])
      /\ Begun(s) = FlattenSeq(a)
  BY BeginningsType
<1>3. /\ b \in Seq(Seq(Token)) /\ Len(b) = Len(t)
      /\ \A i \in 1..Len(t) : b[i] = Beginning(t[i])
      /\ Begun(t) = FlattenSeq(b)
  BY BeginningsType
<1>4. /\ c \in Seq(Seq(Token)) /\ Len(c) = Len(u)
      /\ \A i \in 1..Len(u) : c[i] = Beginning(u[i])
      /\ Begun(u) = FlattenSeq(c)
  BY <1>1, BeginningsType
<1> HIDE DEF a, b, c
<1>5. Len(c) = Len(a) + Len(b)
  BY <1>1, <1>2, <1>3, <1>4
<1>6. \A i \in 1..Len(c) : c[i] = IF i <= Len(a) THEN a[i] ELSE b[i - Len(a)]
  <2> SUFFICES ASSUME NEW i \in 1..Len(u)
               PROVE  c[i] = IF i <= Len(s) THEN a[i] ELSE b[i - Len(s)]
    BY <1>2, <1>4
  <2>1. CASE i <= Len(s)
    <3>1. i \in 1..Len(s) /\ u[i] = s[i]
      BY <1>1, <2>1
    <3> QED BY <1>2, <1>4, <2>1, <3>1
  <2>2. CASE ~(i <= Len(s))
    <3>1. i - Len(s) \in 1..Len(t) /\ u[i] = t[i - Len(s)]
      BY <1>1, <2>2
    <3> QED BY <1>3, <1>4, <2>2, <3>1
  <2> QED BY <2>1, <2>2
<1>7. c = a \o b
  BY <1>2, <1>3, <1>4, <1>5, <1>6, IsConcat
<1>8. FlattenSeq(a \o b) = FlattenSeq(a) \o FlattenSeq(b)
  BY <1>2, <1>3, FlattenConcat
<1> QED BY <1>2, <1>3, <1>4, <1>7, <1>8 DEF u

LEMMA BegunEmpty == Begun(<<>>) = <<>>
<1>1. Beginnings(<<>>) = <<>>
  BY DEF Beginnings
<1>2. <<>> \in Seq(Piece)
  OBVIOUS
<1>3. Begun(<<>>) = FlattenSeq(Beginnings(<<>>))
  BY <1>2, BeginningsType
<1> QED BY <1>1, <1>3, FlattenEmpty, Zenon

LEMMA BegunOne == ASSUME NEW p \in Piece PROVE Begun(<<p>>) = Beginning(p)
<1> DEFINE s == <<p>>
           b == Beginnings(s)
<1>1. s \in Seq(Piece) /\ Len(s) = 1 /\ s[1] = p
  OBVIOUS
<1> HIDE DEF s
<1>2. b \in Seq(Seq(Token)) /\ Len(b) = 1 /\ b[1] = Beginning(p) /\ Begun(s) = FlattenSeq(b)
  BY <1>1, BeginningsType
<1> HIDE DEF b
<1>3. b = <<b[1]>> /\ b[1] \in Seq(Token)
  BY <1>2
<1> DEFINE x == b[1]
<1>4. FlattenSeq(<<x>>) = x
  <2> HIDE DEF x
  <2>1. x \in Seq(Token)
    BY <1>3 DEF x
  <2> QED BY <2>1, FlattenOne
<1>5. FlattenSeq(b) = x
  BY <1>3, <1>4, Zenon
<1> QED BY <1>2, <1>5 DEF s

\* Nobody sent a stray brace.
LEMMA BegunStray ==
  ASSUME NEW c \in Seq(Piece), NEW k \in {1, 2}
  PROVE  Begun(Append(c, Stray(k))) = Begun(c)
<1> DEFINE p == Stray(k)
<1>1. p \in Piece
  BY KnownTokens
<1>2. Beginning(p) = <<>>
  BY DEF Beginning, Begins, Stray
<1> HIDE DEF p
<1>3. <<p>> \in Seq(Piece) /\ Append(c, p) = c \o <<p>>
  BY <1>1, AppendIsConcat
<1>4. Begun(c \o <<p>>) = Begun(c) \o Begun(<<p>>)
  BY <1>3, BegunConcat
<1>5. Begun(<<p>>) = <<>>
  BY <1>1, <1>2, BegunOne
<1>6. Begun(c) \in Seq(Token)
  BY BeginningsType
<1>7. Begun(c) \o <<>> = Begun(c)
  BY <1>6, ConcatEmptySeq
<1> QED BY <1>3, <1>4, <1>5, <1>7, Zenon DEF p

\* An opening brace in a text is that of a message, or a stray one that no
\* stray closing brace follows.
Readable(s) ==
  \A i \in 1..Len(s) : s[i].k = 1 /\ s[i].id = 0 =>
    s[i] = Stray(1) /\ (i = Len(s) \/ s[i + 1].id > 0 \/ s[i + 1].k # 2)

LEMMA CompleteBegins ==
  ASSUME NEW s \in Seq(Piece), Readable(s), NEW i \in 1..Len(s), Complete(s, i)
  PROVE  Begins(s[i])
<1>1. s[i] \in Piece
  OBVIOUS
<1>2. s[i].id \in Nat /\ s[i].n \in Nat
  BY <1>1 DEF Piece
<1>3. s[i].k = 1 /\ i + s[i].n - 1 <= Len(s)
      /\ \A d \in 0..(s[i].n - 1) : s[i + d].id = s[i].id /\ s[i + d].k = d + 1
  BY DEF Complete
<1>4. ASSUME s[i].id = 0 PROVE FALSE
  <2>1. s[i] = Stray(1) /\ (i = Len(s) \/ s[i + 1].id > 0 \/ s[i + 1].k # 2)
    BY <1>3, <1>4 DEF Readable
  <2>2. s[i].n = 2
    BY <2>1 DEF Stray
  <2>3. s[i + 1].id = 0 /\ s[i + 1].k = 2 /\ i + 1 <= Len(s)
    BY <1>3, <1>4, <2>2
  <2> QED BY <2>1, <2>3
<1> QED BY <1>2, <1>3, <1>4 DEF Begins

LEMMA JudgedHeart ==
  ASSUME NEW s \in Seq(Piece), Readable(s)
  PROVE  HasHeart(s) => Digest(Begun(s)).heart
<1> SUFFICES ASSUME HasHeart(s) PROVE Digest(Begun(s)).heart
  OBVIOUS
<1>1. PICK i \in 1..Len(s) : s[i].tok.kind = "Heart" /\ Complete(s, i)
  BY DEF HasHeart
<1>2. Begins(s[i])
  BY <1>1, CompleteBegins
<1> DEFINE b == Beginnings(s)
<1>3. /\ b \in Seq(Seq(Token)) /\ Len(b) = Len(s) /\ b[i] = Beginning(s[i])
      /\ Begun(s) = FlattenSeq(b)
  BY BeginningsType
<1>4. 1 \in 1..Len(b[i]) /\ b[i][1].kind = "Heart" /\ i \in 1..Len(b)
  BY <1>1, <1>2, <1>3 DEF Beginning
<1> HIDE DEF b
<1>5. Digest(FlattenSeq(b)).heart
  BY <1>3, <1>4, FlatHeart
<1> QED BY <1>3, <1>5, Zenon

\* The object that is found in a text is the first that begins there.
LEMMA JudgedObject ==
  ASSUME NEW s \in Seq(Piece), Readable(s), Opening(s) # {}
  PROVE  Found(s) \in {Nothing, Digest(Begun(s)).obj}
<1> SUFFICES ASSUME Found(s) # Nothing PROVE Found(s) = Digest(Begun(s)).obj
  OBVIOUS
<1> DEFINE bj == First(Opening(s))
<1>1. Complete(s, bj) /\ Found(s) = s[bj].tok
  BY Zenon DEF Found
<1>2. Opening(s) \subseteq Nat
  BY DEF Opening
<1>3. bj \in Opening(s) /\ \A j \in Opening(s) : bj <= j
  BY <1>2, FirstIs, Zenon
<1> HIDE DEF bj
<1>4. bj \in 1..Len(s) /\ IsObject(s[bj].tok)
  BY <1>3 DEF Opening
<1>5. Begins(s[bj])
  BY <1>1, <1>4, CompleteBegins
<1> DEFINE b == Beginnings(s)
           t == s[bj].tok
<1>6. /\ b \in Seq(Seq(Token)) /\ Len(b) = Len(s)
      /\ \A i \in 1..Len(s) : b[i] = Beginning(s[i])
      /\ Begun(s) = FlattenSeq(b)
  BY BeginningsType
<1> HIDE DEF b
<1>7. b[bj] = <<t>> /\ IsObject(t) /\ bj \in 1..Len(b)
  BY <1>4, <1>5, <1>6 DEF Beginning
<1>8. \A j \in 1..(bj - 1) : \A m \in 1..Len(b[j]) : ~IsObject(b[j][m])
  <2> SUFFICES ASSUME NEW j \in 1..(bj - 1), NEW m \in 1..Len(b[j]) PROVE ~IsObject(b[j][m])
    OBVIOUS
  <2>1. j \in 1..Len(s) /\ ~(bj <= j)
    BY <1>4
  <2>2. j \notin Opening(s)
    BY <1>3, <2>1
  <2>3. s[j].k = 1 => ~IsObject(s[j].tok)
    BY <2>1, <2>2 DEF Opening
  <2>4. b[j] = Beginning(s[j])
    BY <1>6, <2>1
  <2>5. Begins(s[j]) /\ b[j][m] = s[j].tok
    BY <2>4 DEF Beginning
  <2> QED BY <2>3, <2>5 DEF Begins
<1> HIDE DEF t
<1>9. Digest(FlattenSeq(b)).obj = t
  BY <1>6, <1>7, <1>8, FlatObject
<1> QED BY <1>1, <1>6, <1>9 DEF t

LEMMA Judged ==
  ASSUME NEW s \in Seq(Piece), Readable(s),
         NEW o, o = Nothing \/ (Opening(s) # {} /\ o = Found(s))
  PROVE  [obj |-> o, heart |-> HasHeart(s)] \in Answers(Begun(s))
<1>1. o \in {Nothing, Digest(Begun(s)).obj}
  BY JudgedObject
<1>2. HasHeart(s) \in {FALSE, Digest(Begun(s)).heart}
  <2>1. HasHeart(s) \in BOOLEAN /\ Digest(Begun(s)).heart \in BOOLEAN
    BY HeartType, DigestHeart
  <2> QED BY <2>1, JudgedHeart
<1> DEFINE A == {Nothing, Digest(Begun(s)).obj}
           B == {FALSE, Digest(Begun(s)).heart}
<1>3. Answers(Begun(s)) = [obj : A, heart : B]
  BY Zenon DEF Answers
<1> HIDE DEF A, B
<1>4. o \in A /\ HasHeart(s) \in B
  BY <1>1, <1>2 DEF A, B
<1> QED BY <1>3, <1>4
-----------------------------------------------------------------------------
(* The pieces in the cache, c, and on the input, l: what the server and the *)
(* modem sent, n messages so far, in the order in which they sent it.      *)
Came(c, l) == {c[i] : i \in 1..Len(c)} \cup {l[i] : i \in 1..Len(l)}

SentPiece(p, n) == p = Closed \/ (p.id \in 1..n /\ p.k \in 1..p.n)
Alike(p, q) == p.id = q.id /\ p.id > 0 => p.tok = q.tok /\ p.n = q.n /\ p.bare = q.bare
Before(p, q) == q.id > 0 => p.id < q.id \/ (p.id = q.id /\ p.k < q.k)

AllSent(c, l, n) == \A p \in Came(c, l) : SentPiece(p, n)
AllAlike(c, l)   == \A p, q \in Came(c, l) : Alike(p, q)
InTurn(c, l) ==
  /\ \A i, j \in 1..Len(l) : i < j => Before(l[i], l[j])
  /\ \A i \in 1..Len(c), j \in 1..Len(l) : Before(c[i], l[j])
Unbroken(l) ==
  \A i \in 1..Len(l) : l[i].id > 0 /\ l[i].k < l[i].n =>
    i < Len(l) /\ l[i + 1].id = l[i].id /\ l[i + 1].k = l[i].k + 1
ClosedLast(l) == \A i \in 1..Len(l) : l[i].id = 0 => i = Len(l)
Orderly(c, l, n) ==
  AllSent(c, l, n) /\ AllAlike(c, l) /\ InTurn(c, l) /\ Unbroken(l) /\ ClosedLast(l)

\* Opening braces in a text that is read are those of messages.
NoStray(l) == \A i \in 1..Len(l) : l[i].id > 0 \/ l[i].k # 1

LEMMA PieceNumbers ==
  ASSUME NEW p \in Piece
  PROVE  p.id \in Nat /\ p.k \in Nat /\ p.n \in Nat /\ p.tok \in Token /\ p.bare \in BOOLEAN
BY DEF Piece

LEMMA ClosedParts == Closed.id = 0 /\ Closed.k = 0 /\ Closed.n = 9 /\ ~IsObject(Closed.tok)
BY KnownTokens DEF Closed

LEMMA OrderlyPieces ==
  ASSUME NEW c \in Seq(Piece), NEW l \in Seq(Piece), NEW n \in Nat, Orderly(c, l, n)
  PROVE  /\ \A i \in 1..Len(l) : l[i] \in Came(c, l) /\ SentPiece(l[i], n)
         /\ \A i \in 1..Len(c) : c[i] \in Came(c, l) /\ SentPiece(c[i], n)
         /\ NoStray(l) /\ NoStray(c)
<1>1. \A i \in 1..Len(l) : l[i] \in Came(c, l)
  BY DEF Came
<1>2. \A i \in 1..Len(c) : c[i] \in Came(c, l)
  BY DEF Came
<1>3. \A p \in Came(c, l) : SentPiece(p, n)
  BY DEF Orderly, AllSent
<1>4. \A p \in Came(c, l) : p.id > 0 \/ p.k # 1
  BY <1>3, ClosedParts DEF SentPiece
<1> QED BY <1>1, <1>2, <1>3, <1>4 DEF NoStray

\* What is left of it when a part was read: of the input all but the first m
\* pieces, of the cache what was in it, and at most what was read of the input.
RestOf(l, m, l2) ==
  m \in 0..Len(l) /\ Len(l2) = Len(l) - m /\ \A i \in 1..Len(l2) : l2[i] = l[i + m]
KeptOf(c, l, m, c2) ==
  \A i \in 1..Len(c2) : (\E j \in 1..Len(c) : c2[i] = c[j]) \/ (\E j \in 1..m : c2[i] = l[j])

LEMMA OrderlyRest ==
  ASSUME NEW c \in Seq(Piece), NEW l \in Seq(Piece), NEW n \in Nat, Orderly(c, l, n),
         NEW m, NEW l2 \in Seq(Piece), RestOf(l, m, l2),
         NEW c2 \in Seq(Piece), KeptOf(c, l, m, c2)
  PROVE  Orderly(c2, l2, n)
<1>00. /\ m \in 0..Len(l) /\ Len(l2) = Len(l) - m /\ \A i \in 1..Len(l2) : l2[i] = l[i + m]
       /\ \A i \in 1..Len(c2) : (\E j \in 1..Len(c) : c2[i] = c[j])
                                \/ (\E j \in 1..m : c2[i] = l[j])
  BY Zenon DEF RestOf, KeptOf
<1>0. \A i \in 1..Len(l2) : i + m \in 1..Len(l) /\ l2[i] = l[i + m]
  BY <1>00
<1>1. Came(c2, l2) \subseteq Came(c, l)
  <2>1. \A i \in 1..Len(l2) : l2[i] \in Came(c, l)
    BY <1>0 DEF Came
  <2>2. \A i \in 1..Len(c2) : c2[i] \in Came(c, l)
    <3> SUFFICES ASSUME NEW i \in 1..Len(c2) PROVE c2[i] \in Came(c, l)
      OBVIOUS
    <3>1. \A j \in 1..m : j \in 1..Len(l)
      BY <1>00
    <3> QED BY <1>00, <3>1 DEF Came
  <2> QED BY <2>1, <2>2 DEF Came
<1>2. AllSent(c2, l2, n) /\ AllAlike(c2, l2)
  BY <1>1, Zenon DEF Orderly, AllSent, AllAlike
<1>3. \A i, j \in 1..Len(l) : i < j => Before(l[i], l[j])
  BY DEF Orderly, InTurn
<1>4. \A i \in 1..Len(c), j \in 1..Len(l) : Before(c[i], l[j])
  BY DEF Orderly, InTurn
<1>5. InTurn(c2, l2)
  <2>1. ASSUME NEW i \in 1..Len(l2), NEW j \in 1..Len(l2), i < j PROVE Before(l2[i], l2[j])
    <3>1. i + m < j + m
      BY <1>00, <2>1
    <3> QED BY <1>0, <1>3, <3>1
  <2>2. ASSUME NEW i \in 1..Len(c2), NEW j \in 1..Len(l2) PROVE Before(c2[i], l2[j])
    <3>1. CASE \E d \in 1..Len(c) : c2[i] = c[d]
      BY <1>0, <1>4, <3>1
    <3>2. CASE \E d \in 1..m : c2[i] = l[d]
      <4>1. PICK d \in 1..m : c2[i] = l[d]
        BY <3>2
      <4>2. d < j + m /\ d \in 1..Len(l)
        BY <1>00
      <4> QED BY <1>0, <1>3, <4>1, <4>2
    <3> QED BY <1>00, <3>1, <3>2
  <2> QED BY <2>1, <2>2 DEF InTurn
<1>6. Unbroken(l2)
  <2> SUFFICES ASSUME NEW i \in 1..Len(l2), l2[i].id > 0 /\ l2[i].k < l2[i].n
               PROVE  i < Len(l2) /\ l2[i + 1].id = l2[i].id /\ l2[i + 1].k = l2[i].k + 1
    BY DEF Unbroken
  <2>1. i + m < Len(l) /\ l[(i + m) + 1].id = l2[i].id /\ l[(i + m) + 1].k = l2[i].k + 1
    BY <1>0 DEF Orderly, Unbroken
  <2>2. i + 1 \in 1..Len(l2) /\ (i + 1) + m = (i + m) + 1
    BY <1>00, <2>1
  <2>3. l2[i + 1] = l[(i + m) + 1]
    BY <1>0, <2>2
  <2> QED BY <2>1, <2>2, <2>3
<1>7. ClosedLast(l2)
  <2> SUFFICES ASSUME NEW i \in 1..Len(l2), l2[i].id = 0 PROVE i = Len(l2)
    BY DEF ClosedLast
  <2>1. i + m = Len(l)
    BY <1>0 DEF Orderly, ClosedLast
  <2>2. Len(l2) = Len(l) - m /\ m \in Nat /\ i \in Nat /\ Len(l) \in Nat
    BY <1>00
  <2> QED BY <2>1, <2>2
<1> QED BY <1>2, <1>5, <1>6, <1>7 DEF Orderly

\* A new message behind it all.
CutPart(p, kind, n, bare, m, i) ==
  /\ p.id = m /\ p.k = i /\ p.n = n /\ p.bare = bare
  /\ p.tok = [kind |-> kind, of |-> IF kind = "Open" THEN m ELSE 0]

LEMMA CutParts ==
  ASSUME NEW kind \in SentKinds, NEW n \in 1..MaxPieces, NEW bare \in BOOLEAN, NEW m \in Nat \ {0}
  PROVE  \A i \in 1..n : CutPart(Cut(kind, n, bare, m)[i], kind, n, bare, m, i)
<1> DEFINE tok == [kind |-> kind, of |-> IF kind = "Open" THEN m ELSE 0]
<1> HIDE DEF tok
<1>1. Cut(kind, n, bare, m)
        = [k \in 1..n |-> [tok |-> tok, id |-> m, k |-> k, n |-> n, bare |-> bare]]
  BY Zenon DEF Cut, tok
<1>2. ASSUME NEW i \in 1..n, NEW p, p = Cut(kind, n, bare, m)[i]
      PROVE  p.id = m /\ p.k = i /\ p.n = n /\ p.bare = bare /\ p.tok = tok
  BY <1>1, <1>2
<1> QED BY <1>2, Zenon DEF tok, CutPart

LEMMA OrderlySent ==
  ASSUME NEW c \in Seq(Piece), NEW l \in Seq(Piece), NEW n \in Nat, Orderly(c, l, n),
         \A i \in 1..Len(l) : l[i].id > 0,
         NEW kind \in SentKinds, NEW b \in 1..MaxPieces, NEW bare \in BOOLEAN,
         NEW l2 \in Seq(Piece), l2 = l \o Cut(kind, b, bare, n + 1)
  PROVE  Orderly(c, l2, n + 1) /\ \A i \in 1..Len(l2) : l2[i].id > 0
<1> DEFINE t == Cut(kind, b, bare, n + 1)
           tok == [kind |-> kind, of |-> IF kind = "Open" THEN n + 1 ELSE 0]
<1>0. n + 1 \in Nat \ {0} /\ b \in Nat
  BY RecConstantsOK
<1>1. t \in Seq(Piece) /\ Len(t) = b
  BY <1>0, CutType
<1>2. \A i \in 1..b : /\ t[i].id = n + 1 /\ t[i].k = i /\ t[i].n = b /\ t[i].bare = bare
                      /\ t[i].tok = tok
  <2>1. \A i \in 1..b : CutPart(t[i], kind, b, bare, n + 1, i)
    BY <1>0, CutParts
  <2> QED BY <2>1, Zenon DEF CutPart
<1> HIDE DEF t, tok
<1>3. /\ Len(l2) = Len(l) + b
      /\ \A i \in 1..Len(l) : l2[i] = l[i]
      /\ \A i \in (Len(l) + 1)..Len(l2) : i - Len(l) \in 1..b /\ l2[i] = t[i - Len(l)]
  <2>1. l2 = l \o t
    BY DEF t
  <2>2. Len(l \o t) = Len(l) + b
    BY <1>1, ConcatProperties
  <2>3. \A i \in 1..(Len(l) + b) : (l \o t)[i] = IF i <= Len(l) THEN l[i] ELSE t[i - Len(l)]
    BY <1>1, ConcatProperties
  <2>4. Len(l2) = Len(l) + b
    BY <2>1, <2>2
  <2>5. \A i \in 1..(Len(l) + b) : l2[i] = IF i <= Len(l) THEN l[i] ELSE t[i - Len(l)]
    BY <2>1, <2>3, Zenon
  <2>6. \A i \in 1..Len(l) : i \in 1..(Len(l) + b) /\ i <= Len(l)
    BY <1>0
  <2>7. \A i \in (Len(l) + 1)..Len(l2) :
          i - Len(l) \in 1..b /\ i \in 1..(Len(l) + b) /\ ~(i <= Len(l))
    BY <1>0, <2>4
  <2> QED BY <2>4, <2>5, <2>6, <2>7, Zenon
<1>4. /\ \A i \in 1..Len(l) : l[i] \in Came(c, l) /\ SentPiece(l[i], n)
      /\ \A i \in 1..Len(c) : c[i] \in Came(c, l) /\ SentPiece(c[i], n)
  BY OrderlyPieces
<1> DEFINE New == {t[i] : i \in 1..b}
<1>5. \A p \in Came(c, l2) : p \in Came(c, l) \/ p \in New
  <2>1. \A i \in 1..Len(c) : c[i] \in Came(c, l)
    BY <1>4
  <2>2. \A i \in 1..Len(l2) : l2[i] \in Came(c, l) \/ l2[i] \in New
    <3> SUFFICES ASSUME NEW i \in 1..Len(l2) PROVE l2[i] \in Came(c, l) \/ l2[i] \in New
      OBVIOUS
    <3>1. CASE i <= Len(l)
      BY <1>3, <1>4, <3>1
    <3>2. CASE ~(i <= Len(l))
      <4>1. i \in (Len(l) + 1)..Len(l2)
        BY <1>3, <3>2
      <4> QED BY <1>3, <4>1
    <3> QED BY <3>1, <3>2
  <2> QED BY <2>1, <2>2 DEF Came
<1>6. \A p \in Came(c, l) : SentPiece(p, n)
  BY DEF Orderly, AllSent
<1>7. \A p \in New : p.id = n + 1 /\ p.k \in 1..p.n /\ p.n = b /\ p.tok = tok /\ p.bare = bare
  BY <1>2
<1> HIDE DEF New
<1>8. \A p \in Came(c, l) : p.id \in 0..n
  BY <1>6, ClosedParts DEF SentPiece
<1>9. AllSent(c, l2, n + 1)
  <2>1. \A p \in Came(c, l) : SentPiece(p, n + 1)
    BY <1>6 DEF SentPiece
  <2>2. \A p \in New : SentPiece(p, n + 1)
    BY <1>7 DEF SentPiece
  <2> QED BY <1>5, <2>1, <2>2, Zenon DEF AllSent
<1>10. AllAlike(c, l2)
  <2> SUFFICES ASSUME NEW p \in Came(c, l2), NEW q \in Came(c, l2) PROVE Alike(p, q)
    BY DEF AllAlike
  <2>1. CASE p \in Came(c, l) /\ q \in Came(c, l)
    BY <2>1 DEF Orderly, AllAlike
  <2>2. CASE p \in New /\ q \in New
    BY <1>7, <2>2 DEF Alike
  <2>3. CASE p \in Came(c, l) /\ q \in New
    BY <1>7, <1>8, <2>3 DEF Alike
  <2>4. CASE p \in New /\ q \in Came(c, l)
    BY <1>7, <1>8, <2>4 DEF Alike
  <2> QED BY <1>5, <2>1, <2>2, <2>3, <2>4
<1>11. InTurn(c, l2)
  <2>1. ASSUME NEW p \in Came(c, l), NEW j \in (Len(l) + 1)..Len(l2) PROVE Before(p, l2[j])
    <3>1. p.id \in 0..n
      BY <1>8
    <3>2. l2[j].id = n + 1
      BY <1>2, <1>3
    <3> QED BY <3>1, <3>2 DEF Before
  <2>2. ASSUME NEW i \in 1..Len(l2), NEW j \in 1..Len(l2), i < j PROVE Before(l2[i], l2[j])
    <3>1. CASE j <= Len(l)
      <4>1. i \in 1..Len(l) /\ j \in 1..Len(l)
        BY <2>2, <3>1
      <4>2. Before(l[i], l[j])
        BY <2>2, <4>1 DEF Orderly, InTurn
      <4> QED BY <1>3, <4>1, <4>2
    <3>2. CASE ~(j <= Len(l)) /\ i <= Len(l)
      <4>1. i \in 1..Len(l) /\ j \in (Len(l) + 1)..Len(l2)
        BY <3>2
      <4>2. l2[i] = l[i] /\ l[i] \in Came(c, l)
        BY <1>3, <1>4, <4>1, Zenon
      <4> QED BY <2>1, <4>1, <4>2, Zenon
    <3>3. CASE ~(j <= Len(l)) /\ ~(i <= Len(l))
      <4>1. i \in (Len(l) + 1)..Len(l2) /\ j \in (Len(l) + 1)..Len(l2)
        BY <3>3
      <4>2. l2[i].id = n + 1 /\ l2[j].id = n + 1 /\ l2[i].k = i - Len(l) /\ l2[j].k = j - Len(l)
        <5>1. /\ i - Len(l) \in 1..b /\ l2[i] = t[i - Len(l)]
              /\ j - Len(l) \in 1..b /\ l2[j] = t[j - Len(l)]
          BY <1>3, <4>1, Zenon
        <5> QED BY <1>2, <5>1, Zenon
      <4> QED BY <2>2, <4>2 DEF Before
    <3> QED BY <3>1, <3>2, <3>3
  <2>3. ASSUME NEW i \in 1..Len(c), NEW j \in 1..Len(l2) PROVE Before(c[i], l2[j])
    <3>1. CASE j <= Len(l)
      <4>1. j \in 1..Len(l)
        BY <3>1
      <4>2. Before(c[i], l[j])
        BY <4>1 DEF Orderly, InTurn
      <4> QED BY <1>3, <4>1, <4>2
    <3>2. CASE ~(j <= Len(l))
      BY <1>4, <2>1, <3>2
    <3> QED BY <3>1, <3>2
  <2> QED BY <2>2, <2>3 DEF InTurn
<1>12. Unbroken(l2)
  <2> SUFFICES ASSUME NEW i \in 1..Len(l2), l2[i].id > 0 /\ l2[i].k < l2[i].n
               PROVE  i < Len(l2) /\ l2[i + 1].id = l2[i].id /\ l2[i + 1].k = l2[i].k + 1
    BY DEF Unbroken
  <2>1. CASE i <= Len(l)
    <3>1. i \in 1..Len(l) /\ l2[i] = l[i]
      BY <1>3, <2>1
    <3>2. i < Len(l) /\ l[i + 1].id = l[i].id /\ l[i + 1].k = l[i].k + 1
      BY <3>1 DEF Orderly, Unbroken
    <3>3. i + 1 \in 1..Len(l) /\ l2[i + 1] = l[i + 1] /\ i < Len(l2)
      BY <1>3, <3>2
    <3> QED BY <3>1, <3>2, <3>3
  <2>2. CASE ~(i <= Len(l))
    <3>1. i \in (Len(l) + 1)..Len(l2)
      BY <2>2
    <3>2. l2[i].id = n + 1 /\ l2[i].k = i - Len(l) /\ l2[i].n = b
      BY <1>2, <1>3, <3>1
    <3>3. i < Len(l2) /\ i + 1 \in (Len(l) + 1)..Len(l2) /\ (i + 1) - Len(l) = (i - Len(l)) + 1
      BY <1>3, <3>1, <3>2
    <3>4. l2[i + 1].id = n + 1 /\ l2[i + 1].k = (i + 1) - Len(l)
      BY <1>2, <1>3, <3>3
    <3> QED BY <3>2, <3>3, <3>4
  <2> QED BY <2>1, <2>2
<1>13. \A i \in 1..Len(l2) : l2[i].id > 0
  <2> SUFFICES ASSUME NEW i \in 1..Len(l2) PROVE l2[i].id > 0
    OBVIOUS
  <2>1. CASE i <= Len(l)
    BY <1>3, <2>1
  <2>2. CASE ~(i <= Len(l))
    <3>1. i \in (Len(l) + 1)..Len(l2)
      BY <2>2
    <3>2. l2[i].id = n + 1
      BY <1>2, <1>3, <3>1
    <3> QED BY <3>2
  <2> QED BY <2>1, <2>2
<1>14. ClosedLast(l2)
  BY <1>13 DEF ClosedLast
<1> QED BY <1>9, <1>10, <1>11, <1>12, <1>13, <1>14 DEF Orderly

\* The modem's CLOSED behind it all.
LEMMA OrderlyClosed ==
  ASSUME NEW c \in Seq(Piece), NEW l \in Seq(Piece), NEW n \in Nat, Orderly(c, l, n),
         \A i \in 1..Len(l) : l[i].id > 0
  PROVE  Orderly(c, Append(l, Closed), n)
<1> DEFINE l2 == Append(l, Closed)
<1>1. /\ l2 \in Seq(Piece) /\ Len(l2) = Len(l) + 1
      /\ \A i \in 1..Len(l) : l2[i] = l[i]
      /\ l2[Len(l) + 1] = Closed
  BY KnownTokens, AppendProperties
<1> HIDE DEF l2
<1>2. \A i \in 1..Len(l2) : i \in 1..Len(l) \/ i = Len(l) + 1
  BY <1>1
<1>3. \A p \in Came(c, l2) : p \in Came(c, l) \/ p = Closed
  <2>1. \A i \in 1..Len(l2) : l2[i] \in {l[j] : j \in 1..Len(l)} \/ l2[i] = Closed
    BY <1>1, <1>2
  <2> QED BY <2>1 DEF Came
<1>4. AllSent(c, l2, n)
  BY <1>3, Zenon DEF Orderly, AllSent, SentPiece
<1>5. AllAlike(c, l2)
  <2>1. \A p, q \in Came(c, l) : Alike(p, q)
    BY DEF Orderly, AllAlike
  <2>2. \A p \in Came(c, l) : Alike(p, Closed) /\ Alike(Closed, p)
    BY ClosedParts DEF Alike
  <2>3. Alike(Closed, Closed)
    BY DEF Alike
  <2> QED BY <1>3, <2>1, <2>2, <2>3, Zenon DEF AllAlike
<1>6. \A p : Before(p, Closed)
  BY ClosedParts DEF Before
<1>7. InTurn(c, l2)
  <2>1. ASSUME NEW i \in 1..Len(l2), NEW j \in 1..Len(l2), i < j PROVE Before(l2[i], l2[j])
    <3>1. CASE j = Len(l) + 1
      BY <1>1, <1>6, <3>1
    <3>2. CASE j # Len(l) + 1
      <4>0. j \in 1..Len(l) /\ i \in Nat /\ i >= 1 /\ Len(l) \in Nat
        BY <1>2, <3>2
      <4>1. i \in 1..Len(l) /\ j \in 1..Len(l)
        BY <2>1, <4>0
      <4>2. Before(l[i], l[j])
        BY <2>1, <4>1 DEF Orderly, InTurn
      <4> QED BY <1>1, <4>1, <4>2
    <3> QED BY <3>1, <3>2
  <2>2. ASSUME NEW i \in 1..Len(c), NEW j \in 1..Len(l2) PROVE Before(c[i], l2[j])
    <3>1. CASE j = Len(l) + 1
      BY <1>1, <1>6, <3>1
    <3>2. CASE j # Len(l) + 1
      <4>1. j \in 1..Len(l)
        BY <1>1, <3>2
      <4>2. Before(c[i], l[j])
        BY <4>1 DEF Orderly, InTurn
      <4> QED BY <1>1, <4>1, <4>2
    <3> QED BY <3>1, <3>2
  <2> QED BY <2>1, <2>2 DEF InTurn
<1>8. Unbroken(l2)
  <2> SUFFICES ASSUME NEW i \in 1..Len(l2), l2[i].id > 0 /\ l2[i].k < l2[i].n
               PROVE  i < Len(l2) /\ l2[i + 1].id = l2[i].id /\ l2[i + 1].k = l2[i].k + 1
    BY DEF Unbroken
  <2>1. i # Len(l) + 1
    BY <1>1, ClosedParts
  <2>2. i \in 1..Len(l) /\ l2[i] = l[i]
    BY <1>1, <1>2, <2>1
  <2>3. i < Len(l) /\ l[i + 1].id = l[i].id /\ l[i + 1].k = l[i].k + 1
    BY <2>2 DEF Orderly, Unbroken
  <2>4. i + 1 \in 1..Len(l) /\ l2[i + 1] = l[i + 1] /\ i < Len(l2)
    BY <1>1, <2>3
  <2> QED BY <2>2, <2>3, <2>4
<1>9. ClosedLast(l2)
  <2> SUFFICES ASSUME NEW i \in 1..Len(l2), l2[i].id = 0 PROVE i = Len(l2)
    BY DEF ClosedLast
  <2>1. i \notin 1..Len(l)
    BY <1>1
  <2> QED BY <1>1, <1>2, <2>1
<1> QED BY <1>4, <1>5, <1>7, <1>8, <1>9 DEF Orderly, l2
-----------------------------------------------------------------------------
(* The cache as whole messages, and the message that goes on on the input. *)
HeldIn(c, l) ==
  {i \in 1..Len(c) :
     /\ l # <<>> /\ c[i].k = 1
     /\ \A j \in i..Len(c) : c[j].id = c[i].id /\ c[j].k = j - i + 1
     /\ l[1].id = c[i].id /\ l[1].k = Len(c) - i + 2}

Share(s, H, i) ==
  IF s[i].k # 1 \/ i \in H THEN <<>>
  ELSE IF ~IsObject(s[i].tok) THEN (IF Complete(s, i) THEN <<s[i].tok>> ELSE <<>>)
  ELSE <<IF Complete(s, i) /\ ~Spoilt(s, i) THEN s[i].tok ELSE Garbled>>
Shares(s, H) == [i \in 1..Len(s) |-> Share(s, H, i)]

LEMMA ShareType ==
  ASSUME NEW s \in Seq(Piece), NEW H, NEW i \in 1..Len(s)
  PROVE  /\ Share(s, H, i) \in Seq(Token)
         /\ Share(s, H, i) \in {<<>>, <<s[i].tok>>, <<Garbled>>}
<1>1. s[i].tok \in Token
  <2>1. s[i] \in Piece
    OBVIOUS
  <2> QED BY <2>1, PieceNumbers
<1>2. <<>> \in Seq(Token) /\ <<s[i].tok>> \in Seq(Token) /\ <<Garbled>> \in Seq(Token)
  <2> DEFINE t == s[i].tok
  <2> HIDE DEF t
  <2>1. t \in Token
    BY <1>1 DEF t
  <2>2. <<>> \in Seq(Token) /\ <<t>> \in Seq(Token) /\ <<Garbled>> \in Seq(Token)
    BY <2>1, KnownTokens
  <2> QED BY <2>2 DEF t
<1>3. Share(s, H, i) \in {<<>>, <<s[i].tok>>, <<Garbled>>}
  <2> DEFINE x == IF Complete(s, i) /\ ~Spoilt(s, i) THEN s[i].tok ELSE Garbled
  <2>1. x = s[i].tok \/ x = Garbled
    BY Zenon
  <2>2. <<x>> = <<s[i].tok>> \/ <<x>> = <<Garbled>>
    <3> HIDE DEF x
    <3> QED BY <2>1, Zenon
  <2>3. Share(s, H, i) = <<>> \/ Share(s, H, i) = <<s[i].tok>> \/ Share(s, H, i) = <<x>>
    BY Zenon DEF Share
  <2> QED BY <2>2, <2>3, Zenon
<1> QED BY <1>2, <1>3, Zenon

LEMMA SharesType ==
  ASSUME NEW s \in Seq(Piece), NEW H
  PROVE  /\ Shares(s, H) \in Seq(Seq(Token)) /\ Len(Shares(s, H)) = Len(s)
         /\ \A i \in 1..Len(s) : Shares(s, H)[i] = Share(s, H, i)
<1>1. \A i \in 1..Len(s) : Share(s, H, i) \in Seq(Token)
  BY ShareType
<1>2. Len(s) \in Nat
  OBVIOUS
<1> QED BY <1>1, <1>2 DEF Shares

\* Which brace is first is settled by what comes before it.
Hidden(s, i) ==
  /\ s[i].bare /\ i > 1 /\ i - 1 \in Closing(s)
  /\ \A j \in 1..(i - 2) : j \notin Closing(s)
  /\ \A j \in 1..(i - 1) : j \notin Opening(s)

LEMMA FirstAt ==
  ASSUME NEW I, I \subseteq Nat \ {0}, I # {}, NEW i \in Nat
  PROVE  First(I) = i <=> i \in I /\ \A j \in 1..(i - 1) : j \notin I
<1>1. First(I) \in I /\ \A j \in I : First(I) <= j
  BY FirstIs
<1>2. ASSUME First(I) = i PROVE i \in I /\ \A j \in 1..(i - 1) : j \notin I
  BY <1>1, <1>2
<1>3. ASSUME i \in I, \A j \in 1..(i - 1) : j \notin I PROVE First(I) = i
  <2>1. First(I) <= i /\ First(I) \in Nat \ {0}
    BY <1>1, <1>3
  <2>2. First(I) \notin 1..(i - 1)
    BY <1>1, <1>3
  <2> QED BY <2>1, <2>2
<1> QED BY <1>2, <1>3

LEMMA SpoiltHidden ==
  ASSUME NEW s \in Seq(Piece), NEW i \in Opening(s)
  PROVE  Spoilt(s, i) <=> Hidden(s, i)
<1>1. Opening(s) \subseteq Nat \ {0} /\ i \in 1..Len(s) /\ Len(s) \in Nat
  BY DEF Opening
<1> DEFINE C == Closing(s) \cup {Len(s) + 1}
<1>2. C \subseteq Nat \ {0} /\ C # {} /\ Closing(s) \subseteq 1..Len(s)
  BY DEF Closing
<1>3. First(Opening(s)) = i <=> i \in Opening(s) /\ \A j \in 1..(i - 1) : j \notin Opening(s)
  BY <1>1, FirstAt
<1>4. First(C) = i - 1 <=> i - 1 \in C /\ \A j \in 1..((i - 1) - 1) : j \notin C
  <2>1. i - 1 \in Nat
    BY <1>1
  <2> HIDE DEF C
  <2> QED BY <1>2, <2>1, FirstAt
<1>5. (i - 1 \in C <=> i - 1 \in Closing(s)) /\ (i - 1) - 1 = i - 2
      /\ \A j \in 1..(i - 2) : j \in C <=> j \in Closing(s)
  BY <1>1
<1>6. Spoilt(s, i) <=> s[i].bare /\ i > 1 /\ i = First(Opening(s)) /\ i - 1 = First(C)
  BY Zenon DEF Spoilt
<1> HIDE DEF C
<1>7. First(C) = i - 1 <=> i - 1 \in Closing(s) /\ \A j \in 1..(i - 2) : j \notin Closing(s)
  BY <1>4, <1>5
<1> QED BY <1>3, <1>6, <1>7, Zenon DEF Hidden

\* What a piece more changes: nothing about the braces before it.
LEMMA SpoiltSame ==
  ASSUME NEW c \in Seq(Piece), NEW h \in Piece, NEW i \in Opening(c)
  PROVE  Spoilt(Append(c, h), i) <=> Spoilt(c, i)
<1> DEFINE d == Append(c, h)
<1>1. /\ d \in Seq(Piece) /\ Len(d) = Len(c) + 1
      /\ \A j \in 1..Len(c) : d[j] = c[j] /\ j \in 1..Len(d)
  BY AppendProperties
<1> HIDE DEF d
<1>2. i \in 1..Len(c)
  BY DEF Opening
<1>3. \A j \in 1..Len(c) : (j \in Opening(d) <=> j \in Opening(c))
                           /\ (j \in Closing(d) <=> j \in Closing(c))
  BY <1>1 DEF Opening, Closing
<1>4. i \in Opening(d)
  BY <1>2, <1>3
<1>5. Hidden(d, i) <=> Hidden(c, i)
  <2>1. \A j \in 1..(i - 1) : j \in 1..Len(c)
    BY <1>2
  <2>2. \A j \in 1..(i - 2) : j \in 1..Len(c)
    BY <1>2
  <2>3. i > 1 => i - 1 \in 1..Len(c)
    BY <1>2
  <2>4. d[i] = c[i]
    BY <1>1, <1>2
  <2> QED BY <1>3, <2>1, <2>2, <2>3, <2>4 DEF Hidden
<1>6. Spoilt(d, i) <=> Hidden(d, i)
  BY <1>1, <1>4, SpoiltHidden
<1>7. Spoilt(c, i) <=> Hidden(c, i)
  BY SpoiltHidden
<1> QED BY <1>5, <1>6, <1>7, Zenon DEF d

-----------------------------------------------------------------------------
(* One piece less on the input.                                            *)

\* What is behind it, and what is known of it.
Behind(l, l2) == l # <<>> /\ l2 = Tail(l)

LEMMA HeadFacts ==
  ASSUME NEW c \in Seq(Piece), NEW l \in Seq(Piece), NEW n \in Nat, Orderly(c, l, n),
         NEW l2, Behind(l, l2)
  PROVE  /\ l[1] \in Piece /\ Head(l) = l[1] /\ l2 \in Seq(Piece)
         /\ l[1] = Closed => l2 = <<>>
         /\ l[1] # Closed => l[1].id > 0 /\ l[1].k \in 1..l[1].n
         /\ l[1].id > 0 /\ l[1].k < l[1].n =>
              l2 # <<>> /\ l2[1].id = l[1].id /\ l2[1].k = l[1].k + 1 /\ l2[1].tok = l[1].tok
         /\ \A i \in 1..Len(c) : Before(c[i], l[1]) /\ Alike(c[i], l[1]) /\ c[i] \in Piece
                                 /\ (c[i].k = 1 => c[i].id > 0)
         /\ l2 # <<>> => l2[1] \in Piece /\ Before(l[1], l2[1]) /\ Alike(l[1], l2[1])
                         /\ (l2[1].id > 0 => l2[1].k \in 1..l2[1].n)
         /\ l2 # <<>> => \A i \in 1..Len(c) : Alike(c[i], l2[1])
         /\ Orderly(c, l2, n)
<1>1. /\ Len(l) \in Nat /\ Len(l) >= 1 /\ l2 \in Seq(Piece) /\ Len(l2) = Len(l) - 1
      /\ \A i \in 1..Len(l2) : l2[i] = l[i + 1]
      /\ Head(l) = l[1] /\ 1 \in 1..Len(l) /\ l[1] \in Piece
  BY DEF Behind
<1>2. /\ \A i \in 1..Len(l) : l[i] \in Came(c, l) /\ SentPiece(l[i], n)
      /\ \A i \in 1..Len(c) : c[i] \in Came(c, l) /\ SentPiece(c[i], n)
  BY OrderlyPieces
<1>3. l2 # <<>> => Len(l) > 1 /\ 2 \in 1..Len(l) /\ l2[1] = l[2] /\ 1 \in 1..Len(l2)
  BY <1>1
<1>4. l[1] = Closed => l2 = <<>>
  <2>1. l[1] = Closed => Len(l) = 1
    BY <1>1, ClosedParts DEF Orderly, ClosedLast
  <2> QED BY <1>1, <2>1
<1>5. l[1] # Closed => l[1].id > 0 /\ l[1].k \in 1..l[1].n
  BY <1>1, <1>2 DEF SentPiece
<1>6. \A p, q \in Came(c, l) : Alike(p, q)
  BY DEF Orderly, AllAlike
<1>7. l[1].id > 0 /\ l[1].k < l[1].n =>
        l2 # <<>> /\ l2[1].id = l[1].id /\ l2[1].k = l[1].k + 1 /\ l2[1].tok = l[1].tok
  <2> SUFFICES ASSUME l[1].id > 0 /\ l[1].k < l[1].n
               PROVE  /\ l2 # <<>> /\ l2[1].id = l[1].id /\ l2[1].k = l[1].k + 1
                      /\ l2[1].tok = l[1].tok
    OBVIOUS
  <2>1. 1 < Len(l) /\ l[2].id = l[1].id /\ l[2].k = l[1].k + 1
    BY <1>1 DEF Orderly, Unbroken
  <2>2. l2 # <<>> /\ l2[1] = l[2] /\ 2 \in 1..Len(l)
    BY <1>1, <1>3, <2>1
  <2>3. Alike(l[1], l[2])
    BY <1>1, <1>2, <1>6, <2>2
  <2> QED BY <2>1, <2>2, <2>3 DEF Alike
<1>8. \A i \in 1..Len(c) : Before(c[i], l[1]) /\ Alike(c[i], l[1]) /\ c[i] \in Piece
                           /\ (c[i].k = 1 => c[i].id > 0)
  <2> SUFFICES ASSUME NEW i \in 1..Len(c)
               PROVE  Before(c[i], l[1]) /\ Alike(c[i], l[1]) /\ c[i] \in Piece
                      /\ (c[i].k = 1 => c[i].id > 0)
    OBVIOUS
  <2>1. Before(c[i], l[1])
    BY <1>1 DEF Orderly, InTurn
  <2>2. Alike(c[i], l[1])
    BY <1>1, <1>2, <1>6
  <2>3. c[i].k = 1 => c[i].id > 0
    BY <1>2, ClosedParts DEF SentPiece
  <2> QED BY <2>1, <2>2, <2>3
<1>9. l2 # <<>> => l2[1] \in Piece /\ Before(l[1], l2[1]) /\ Alike(l[1], l2[1])
                   /\ (l2[1].id > 0 => l2[1].k \in 1..l2[1].n)
  <2> SUFFICES ASSUME l2 # <<>>
               PROVE  /\ l2[1] \in Piece /\ Before(l[1], l2[1]) /\ Alike(l[1], l2[1])
                      /\ (l2[1].id > 0 => l2[1].k \in 1..l2[1].n)
    OBVIOUS
  <2>1. 2 \in 1..Len(l) /\ l2[1] = l[2] /\ l[2] \in Piece
    BY <1>3
  <2>2. \A i, j \in 1..Len(l) : i < j => Before(l[i], l[j])
    BY DEF Orderly, InTurn
  <2>3. Before(l[1], l[2])
    BY <1>1, <2>1, <2>2
  <2>4. Alike(l[1], l[2])
    BY <1>1, <1>2, <1>6, <2>1
  <2>5. l[2].id > 0 => l[2].k \in 1..l[2].n
    BY <1>2, <2>1, ClosedParts DEF SentPiece
  <2> QED BY <2>1, <2>3, <2>4, <2>5
<1>10. l2 # <<>> => \A i \in 1..Len(c) : Alike(c[i], l2[1])
  BY <1>2, <1>3, <1>6
<1>11. Orderly(c, l2, n)
  <2>1. RestOf(l, 1, l2)
    BY <1>1 DEF RestOf
  <2>2. KeptOf(c, l, 1, c)
    BY DEF KeptOf
  <2> QED BY <1>1, <2>1, <2>2, OrderlyRest
<1> QED BY <1>1, <1>4, <1>5, <1>7, <1>8, <1>9, <1>10, <1>11

\* Of a message that goes on on the input the last piece is not in the cache,
\* and nothing else begins behind its first.
LEMMA HeldFacts ==
  ASSUME NEW c \in Seq(Piece), NEW l \in Seq(Piece), NEW n \in Nat, Orderly(c, l, n),
         NEW i \in HeldIn(c, l)
  PROVE  /\ i \in 1..Len(c) /\ c[i].k = 1 /\ c[i].id > 0 /\ ~Complete(c, i)
         /\ l[1].tok = c[i].tok /\ l[1].id = c[i].id /\ l[1].k > 1 /\ l # <<>>
         /\ \A j \in (i + 1)..Len(c) : c[j].k # 1
         /\ HeldIn(c, l) = {i}
<1>1. /\ i \in 1..Len(c) /\ l # <<>> /\ c[i].k = 1
      /\ \A j \in i..Len(c) : c[j].id = c[i].id /\ c[j].k = j - i + 1
      /\ l[1].id = c[i].id /\ l[1].k = Len(c) - i + 2
  BY DEF HeldIn
<1>2. Behind(l, Tail(l))
  BY <1>1 DEF Behind
<1>3. /\ l[1] # Closed => l[1].id > 0 /\ l[1].k \in 1..l[1].n
      /\ Alike(c[i], l[1]) /\ c[i].id > 0 /\ c[i] \in Piece
  BY <1>1, <1>2, HeadFacts
<1>4. l[1].k > 1 /\ l[1].k <= l[1].n /\ l[1].tok = c[i].tok /\ l[1].n = c[i].n
  <2>1. l[1] # Closed
    BY <1>1, <1>3, ClosedParts
  <2> QED BY <1>1, <1>3, <2>1 DEF Alike
<1>5. ~Complete(c, i)
  <2>1. c[i].n \in Nat /\ c[i].n >= Len(c) - i + 2
    BY <1>1, <1>3, <1>4, PieceNumbers
  <2>2. ~(i + c[i].n - 1 <= Len(c))
    BY <1>1, <2>1
  <2> QED BY <2>2 DEF Complete
<1>6. \A j \in (i + 1)..Len(c) : c[j].k # 1
  BY <1>1
<1>7. \A j \in HeldIn(c, l) : j = i
  <2> SUFFICES ASSUME NEW j \in HeldIn(c, l) PROVE j = i
    OBVIOUS
  <2>1. j \in 1..Len(c) /\ l[1].k = Len(c) - j + 2
    BY DEF HeldIn
  <2> QED BY <1>1, <2>1
<1> QED BY <1>1, <1>3, <1>4, <1>5, <1>6, <1>7
-----------------------------------------------------------------------------
(* What a dialogue that reads one piece makes of the cache.                *)

\* Dropped: no message of the cache goes on then.
LEMMA HeldDropped ==
  ASSUME NEW c \in Seq(Piece), NEW l \in Seq(Piece), NEW n \in Nat, Orderly(c, l, n),
         NEW l2, Behind(l, l2)
  PROVE  HeldIn(c, l2) = {}
<1> SUFFICES ASSUME NEW i \in HeldIn(c, l2) PROVE FALSE
  OBVIOUS
<1> DEFINE m == Len(c)
<1>1. /\ i \in 1..m /\ l2 # <<>> /\ c[i].k = 1
      /\ c[m].id = c[i].id /\ c[m].k = m - i + 1
      /\ l2[1].id = c[i].id /\ l2[1].k = m - i + 2 /\ m \in 1..m /\ m \in Nat
  BY DEF HeldIn
<1>2. /\ l[1] # Closed /\ l[1].id > 0 /\ l[1] \in Piece /\ l2[1] \in Piece
      /\ Before(l[1], l2[1]) /\ Before(c[m], l[1]) /\ c[m] \in Piece /\ c[i].id > 0
  <2>1. l[1] = Closed => l2 = <<>>
    BY HeadFacts
  <2>2. l[1] # Closed
    BY <1>1, <2>1
  <2> QED BY <1>1, <2>2, HeadFacts
<1> HIDE DEF m
<1>3. c[m].id <= l[1].id /\ l[1].id <= l2[1].id
  BY <1>1, <1>2, PieceNumbers DEF Before
<1>4. c[m].id = l[1].id /\ l[1].id = l2[1].id
  <2>1. c[m].id \in Nat /\ l[1].id \in Nat /\ l2[1].id \in Nat
    BY <1>2, PieceNumbers
  <2>2. c[m].id = l2[1].id
    BY <1>1
  <2> QED BY <1>3, <2>1, <2>2
<1>5. c[m].k < l[1].k /\ l[1].k < l2[1].k
  BY <1>1, <1>2, <1>4, PieceNumbers DEF Before
<1> QED BY <1>1, <1>2, <1>5, PieceNumbers

\* Kept: a message goes on behind it if it does.
LEMMA Kept ==
  ASSUME NEW c \in Seq(Piece), NEW h \in Piece, NEW d, d = Append(c, h)
  PROVE  /\ d \in Seq(Piece) /\ Len(d) = Len(c) + 1 /\ d[Len(c) + 1] = h
         /\ \A j \in 1..Len(c) : d[j] = c[j] /\ j \in 1..Len(d)
BY AppendProperties

Keeps(c, l, n, l2, d) ==
  /\ c \in Seq(Piece) /\ l \in Seq(Piece) /\ n \in Nat /\ Orderly(c, l, n)
  /\ Behind(l, l2) /\ d = Append(c, l[1])

LEMMA HeldKept ==
  ASSUME NEW c, NEW l, NEW n, NEW l2, NEW d, Keeps(c, l, n, l2, d)
  PROVE  \A i \in 1..Len(d) :
           i \in HeldIn(d, l2) <=>
             /\ l[1].id > 0 /\ l[1].k < l[1].n
             /\ i \in HeldIn(c, l) \/ (i = Len(c) + 1 /\ Begins(l[1]))
<1> DEFINE h == l[1]
           m == Len(c)
<1>9. /\ c \in Seq(Piece) /\ l \in Seq(Piece) /\ n \in Nat /\ Orderly(c, l, n)
      /\ Behind(l, l2) /\ d = Append(c, l[1])
  BY DEF Keeps
<1>0. h \in Piece
  BY <1>9, HeadFacts
<1>1. /\ d \in Seq(Piece) /\ Len(d) = m + 1 /\ d[m + 1] = h /\ m \in Nat
      /\ \A j \in 1..m : d[j] = c[j]
  BY <1>0, <1>9, Kept
<1>2. /\ h.id > 0 /\ h.k < h.n => l2 # <<>> /\ l2[1].id = h.id /\ l2[1].k = h.k + 1
      /\ l2 # <<>> => Alike(h, l2[1]) /\ (l2[1].id > 0 => l2[1].k \in 1..l2[1].n)
      /\ h.id \in Nat /\ h.k \in Nat /\ h.n \in Nat /\ l # <<>>
  BY <1>0, <1>9, HeadFacts, PieceNumbers DEF Behind
<1>3. \A i \in 1..m : c[i].k = 1 => c[i].id > 0
  BY <1>9, HeadFacts
<1> HIDE DEF h, m
<1> SUFFICES ASSUME NEW i \in 1..(m + 1)
             PROVE  i \in HeldIn(d, l2) <=>
                      /\ h.id > 0 /\ h.k < h.n
                      /\ i \in HeldIn(c, l) \/ (i = m + 1 /\ Begins(h))
  BY <1>1 DEF h, m
<1>4. i \in HeldIn(d, l2) <=>
        /\ l2 # <<>> /\ d[i].k = 1
        /\ \A j \in i..(m + 1) : d[j].id = d[i].id /\ d[j].k = j - i + 1
        /\ l2[1].id = d[i].id /\ l2[1].k = (m + 1) - i + 2
  BY <1>1 DEF HeldIn
<1>5. i \in HeldIn(c, l) <=>
        /\ i \in 1..m /\ l # <<>> /\ c[i].k = 1
        /\ \A j \in i..m : c[j].id = c[i].id /\ c[j].k = j - i + 1
        /\ h.id = c[i].id /\ h.k = m - i + 2
  BY DEF HeldIn, h, m
<1>6. ASSUME i \in HeldIn(d, l2)
      PROVE  /\ h.id > 0 /\ h.k < h.n
             /\ i \in HeldIn(c, l) \/ (i = m + 1 /\ Begins(h))
  <2>1. /\ l2 # <<>> /\ d[i].k = 1
        /\ \A j \in i..(m + 1) : d[j].id = d[i].id /\ d[j].k = j - i + 1
        /\ l2[1].id = d[i].id /\ l2[1].k = (m + 1) - i + 2
    BY <1>4, <1>6, Zenon
  <2>2. h.id = d[i].id /\ h.k = (m + 1) - i + 1
    <3>1. m + 1 \in i..(m + 1)
      BY <1>1
    <3> QED BY <1>1, <2>1, <3>1
  <2>3. h.id > 0
    <3>1. CASE h = Closed
      <4>1. l2 = <<>>
        BY <3>1, <1>9, HeadFacts DEF h
      <4> QED BY <2>1, <4>1
    <3>2. CASE h # Closed
      BY <3>2, <1>9, HeadFacts DEF h
    <3> QED BY <3>1, <3>2
  <2>4. h.k < h.n
    <3>1. Alike(h, l2[1]) /\ l2[1].id > 0 /\ l2[1].k \in 1..l2[1].n
      BY <1>2, <2>1, <2>2, <2>3
    <3>2. l2[1].n = h.n /\ l2[1].k = h.k + 1
      BY <1>1, <2>1, <2>2, <2>3, <3>1 DEF Alike
    <3> QED BY <1>2, <3>1, <3>2
  <2>5. CASE i = m + 1
    <3>1. d[i] = h
      BY <1>1, <2>5
    <3>2. h.k = 1
      BY <2>1, <3>1
    <3> QED BY <2>3, <2>4, <2>5, <3>2, Zenon DEF Begins
  <2>6. CASE i # m + 1
    <3>1. i \in 1..m /\ d[i] = c[i]
      BY <1>1, <2>6
    <3>2. \A j \in i..m : j \in i..(m + 1) /\ d[j] = c[j]
      BY <1>1, <3>1
    <3>3. \A j \in i..m : c[j].id = c[i].id /\ c[j].k = j - i + 1
      BY <2>1, <3>1, <3>2
    <3>4. h.id = c[i].id /\ h.k = m - i + 2 /\ c[i].k = 1
      BY <1>1, <2>1, <2>2, <3>1
    <3> QED BY <1>2, <1>5, <2>3, <2>4, <3>1, <3>3, <3>4, Zenon
  <2> QED BY <2>3, <2>4, <2>5, <2>6
<1>7. ASSUME h.id > 0, h.k < h.n, i \in HeldIn(c, l) \/ (i = m + 1 /\ Begins(h))
      PROVE  i \in HeldIn(d, l2)
  <2>1. l2 # <<>> /\ l2[1].id = h.id /\ l2[1].k = h.k + 1
    BY <1>2, <1>7
  <2>2. CASE i = m + 1 /\ Begins(h)
    <3>1. d[i] = h /\ h.k = 1
      BY <1>1, <2>2 DEF Begins
    <3>2. \A j \in i..(m + 1) : j = i
      BY <1>1, <2>2
    <3>3. \A j \in i..(m + 1) : d[j].id = d[i].id /\ d[j].k = j - i + 1
      BY <3>1, <3>2, <1>1
    <3>4. l2[1].id = d[i].id /\ l2[1].k = (m + 1) - i + 2
      BY <1>1, <2>1, <2>2, <3>1
    <3> QED BY <1>4, <2>1, <3>1, <3>3, <3>4, Zenon
  <2>3. CASE i \in HeldIn(c, l)
    <3>1. /\ i \in 1..m /\ c[i].k = 1
          /\ \A j \in i..m : c[j].id = c[i].id /\ c[j].k = j - i + 1
          /\ h.id = c[i].id /\ h.k = m - i + 2
      BY <1>5, <2>3, Zenon
    <3>2. d[i] = c[i]
      BY <1>1, <3>1
    <3>3. \A j \in i..(m + 1) : d[j].id = d[i].id /\ d[j].k = j - i + 1
      <4> SUFFICES ASSUME NEW j \in i..(m + 1) PROVE d[j].id = d[i].id /\ d[j].k = j - i + 1
        OBVIOUS
      <4>1. CASE j = m + 1
        <5>1. d[j] = h /\ j - i + 1 = m - i + 2
          BY <1>1, <3>1, <4>1
        <5> QED BY <3>1, <3>2, <5>1
      <4>2. CASE j # m + 1
        <5>1. j \in i..m /\ j \in 1..m
          BY <1>1, <3>1, <4>2
        <5> QED BY <1>1, <3>1, <3>2, <5>1
      <4> QED BY <4>1, <4>2
    <3>4. l2[1].id = d[i].id /\ l2[1].k = (m + 1) - i + 2
      BY <1>1, <2>1, <3>1, <3>2
    <3> QED BY <1>4, <2>1, <3>1, <3>2, <3>3, <3>4, Zenon
  <2> QED BY <1>7, <2>2, <2>3
<1> QED BY <1>6, <1>7, Zenon

\* And its last piece makes a message of the cache complete.
LEMMA CompleteKept ==
  ASSUME NEW c, NEW l, NEW n, NEW l2, NEW d, Keeps(c, l, n, l2, d), NEW i \in 1..Len(c)
  PROVE  Complete(d, i) <=> Complete(c, i) \/ (i \in HeldIn(c, l) /\ l[1].k = l[1].n)
<1> DEFINE h == l[1]
           m == Len(c)
<1>9. /\ c \in Seq(Piece) /\ l \in Seq(Piece) /\ n \in Nat /\ Orderly(c, l, n)
      /\ Behind(l, l2) /\ d = Append(c, l[1])
  BY DEF Keeps
<1>0. h \in Piece
  BY <1>9, HeadFacts
<1>1. /\ d \in Seq(Piece) /\ Len(d) = m + 1 /\ d[m + 1] = h /\ m \in Nat
      /\ \A j \in 1..m : d[j] = c[j]
  BY <1>0, <1>9, Kept
<1>2. /\ h.k \in Nat /\ h.n \in Nat /\ l # <<>> /\ Alike(c[i], h)
      /\ c[i] \in Piece /\ (c[i].k = 1 => c[i].id > 0)
  BY <1>0, <1>9, HeadFacts, PieceNumbers DEF Behind
<1> HIDE DEF h, m
<1>3. d[i] = c[i] /\ i \in 1..m /\ c[i].n \in Nat
  BY <1>1, <1>2, PieceNumbers DEF m
<1>4. i \in HeldIn(c, l) <=>
        /\ c[i].k = 1
        /\ \A j \in i..m : c[j].id = c[i].id /\ c[j].k = j - i + 1
        /\ h.id = c[i].id /\ h.k = m - i + 2
  BY <1>2, <1>3 DEF HeldIn, h, m
<1>5. ASSUME Complete(d, i) PROVE Complete(c, i) \/ (i \in HeldIn(c, l) /\ h.k = h.n)
  <2>1. /\ c[i].k = 1 /\ i + c[i].n - 1 <= m + 1
        /\ \A e \in 0..(c[i].n - 1) : d[i + e].id = c[i].id /\ d[i + e].k = e + 1
    BY <1>1, <1>3, <1>5 DEF Complete
  <2>2. CASE i + c[i].n - 1 <= m
    <3>1. \A e \in 0..(c[i].n - 1) : i + e \in 1..m
      BY <1>1, <1>3, <2>2
    <3>2. \A e \in 0..(c[i].n - 1) : d[i + e] = c[i + e]
      BY <1>1, <3>1, Zenon
    <3> QED BY <2>1, <2>2, <3>2 DEF Complete, m
  <2>3. CASE ~(i + c[i].n - 1 <= m)
    <3>1. c[i].n = m - i + 2
      BY <1>1, <1>3, <2>1, <2>3
    <3>2. \A j \in i..m : j - i \in 0..(c[i].n - 1) /\ i + (j - i) = j /\ j \in 1..m
      BY <1>1, <1>3, <3>1
    <3>3. \A j \in i..m : d[j].id = c[i].id /\ d[j].k = (j - i) + 1
      <4> SUFFICES ASSUME NEW j \in i..m PROVE d[j].id = c[i].id /\ d[j].k = (j - i) + 1
        OBVIOUS
      <4>1. d[i + (j - i)].id = c[i].id /\ d[i + (j - i)].k = (j - i) + 1
        BY <2>1, <3>2
      <4>2. i + (j - i) = j
        BY <3>2, Zenon
      <4> QED BY <4>1, <4>2, Zenon
    <3>4. \A j \in i..m : c[j].id = c[i].id /\ c[j].k = j - i + 1
      BY <1>1, <3>2, <3>3
    <3>5. (m - i) + 1 \in 0..(c[i].n - 1) /\ i + ((m - i) + 1) = m + 1
      <4>1. c[i].n - 1 = (m - i) + 1 /\ (m - i) + 1 \in Nat
        BY <1>1, <1>3, <3>1
      <4>2. i \in Nat /\ m \in Nat
        BY <1>1, <1>3
      <4>3. i + ((m - i) + 1) = m + 1
        BY <4>2
      <4>4. (m - i) + 1 \in 0..((m - i) + 1)
        BY <4>1
      <4> QED BY <4>1, <4>3, <4>4, Zenon
    <3>6. h.id = c[i].id /\ h.k = m - i + 2
      <4>1. d[i + ((m - i) + 1)].id = c[i].id /\ d[i + ((m - i) + 1)].k = ((m - i) + 1) + 1
        BY <2>1, <3>5
      <4> QED BY <1>1, <1>3, <3>5, <4>1
    <3>7. h.k = h.n
      BY <1>2, <2>1, <3>1, <3>6 DEF Alike
    <3> QED BY <1>4, <2>1, <3>4, <3>6, <3>7
  <2> QED BY <2>2, <2>3
<1>6. ASSUME Complete(c, i) PROVE Complete(d, i)
  <2>1. /\ c[i].k = 1 /\ i + c[i].n - 1 <= m
        /\ \A e \in 0..(c[i].n - 1) : c[i + e].id = c[i].id /\ c[i + e].k = e + 1
    BY <1>6 DEF Complete, m
  <2>2. \A e \in 0..(c[i].n - 1) : i + e \in 1..m
    BY <1>1, <1>3, <2>1
  <2>3. \A e \in 0..(c[i].n - 1) : d[i + e] = c[i + e]
    BY <1>1, <2>2, Zenon
  <2>4. i + c[i].n - 1 <= m + 1
    BY <1>1, <1>3, <2>1
  <2> QED BY <1>1, <1>3, <2>1, <2>3, <2>4 DEF Complete
<1>7. ASSUME i \in HeldIn(c, l), h.k = h.n PROVE Complete(d, i)
  <2>1. /\ c[i].k = 1
        /\ \A j \in i..m : c[j].id = c[i].id /\ c[j].k = j - i + 1
        /\ h.id = c[i].id /\ h.k = m - i + 2
    BY <1>4, <1>7, Zenon
  <2>2. c[i].n = m - i + 2
    BY <1>2, <1>7, <2>1 DEF Alike
  <2>3. \A e \in 0..(c[i].n - 1) : d[i + e].id = c[i].id /\ d[i + e].k = e + 1
    <3> SUFFICES ASSUME NEW e \in 0..(c[i].n - 1)
                 PROVE  d[i + e].id = c[i].id /\ d[i + e].k = e + 1
      OBVIOUS
    <3>1. CASE i + e = m + 1
      <4>1. d[i + e] = h /\ e + 1 = m - i + 2
        BY <1>1, <1>3, <3>1
      <4> QED BY <2>1, <4>1
    <3>2. CASE i + e # m + 1
      <4>1. i + e \in i..m /\ i + e \in 1..m /\ (i + e) - i + 1 = e + 1
        BY <1>1, <1>3, <2>2, <3>2
      <4>2. c[i + e].id = c[i].id /\ c[i + e].k = (i + e) - i + 1
        BY <2>1, <4>1
      <4> QED BY <1>1, <4>1, <4>2
    <3> QED BY <3>1, <3>2
  <2>4. i + c[i].n - 1 <= m + 1
    BY <1>1, <1>3, <2>2
  <2> QED BY <1>1, <1>3, <2>1, <2>3, <2>4 DEF Complete
<1> QED BY <1>5, <1>6, <1>7 DEF h
-----------------------------------------------------------------------------
\* The cache, told message by message.
Cache(s, H) == FlattenSeq(Shares(s, H))

\* The shares are the same but for one that was empty and is not any more.
LEMMA SharesFilled ==
  ASSUME NEW a \in Seq(Seq(Token)), NEW b \in Seq(Seq(Token)),
         NEW i \in 1..Len(a), i <= Len(b),
         a[i] = <<>>, \A j \in 1..(i - 1) : a[j] = b[j],
         \A j \in (i + 1)..Len(a) : a[j] = <<>>, \A j \in (i + 1)..Len(b) : b[j] = <<>>
  PROVE  FlattenSeq(b) = FlattenSeq(a) \o b[i]
<1>1. PICK p, q \in Seq(Seq(Token)) :
         /\ Parted(a, i, p, q)
         /\ FlattenSeq(a) = (FlattenSeq(p) \o a[i]) \o FlattenSeq(q)
         /\ FlattenSeq(p) \in Seq(Token) /\ FlattenSeq(q) \in Seq(Token)
  BY FlattenThree, Zenon
<1>2. i \in 1..Len(b)
  OBVIOUS
<1>3. PICK u, v \in Seq(Seq(Token)) :
         /\ Parted(b, i, u, v)
         /\ FlattenSeq(b) = (FlattenSeq(u) \o b[i]) \o FlattenSeq(v)
         /\ FlattenSeq(u) \in Seq(Token) /\ FlattenSeq(v) \in Seq(Token)
  BY <1>2, FlattenThree, Zenon
<1>4. /\ Len(p) = i - 1 /\ \A j \in 1..Len(p) : p[j] = a[j]
      /\ Len(q) = Len(a) - i /\ \A j \in 1..Len(q) : q[j] = a[i + j]
  BY <1>1, Zenon DEF Parted
<1>5. /\ Len(u) = i - 1 /\ \A j \in 1..Len(u) : u[j] = b[j]
      /\ Len(v) = Len(b) - i /\ \A j \in 1..Len(v) : v[j] = b[i + j]
  BY <1>3, Zenon DEF Parted
<1>6. p = u
  <2>1. Len(p) = Len(u) /\ \A j \in 1..Len(p) : p[j] = u[j]
    BY <1>4, <1>5
  <2>2. p \in Seq(Seq(Token)) /\ u \in Seq(Seq(Token))
    OBVIOUS
  <2> QED BY <2>1, <2>2, SeqEqual
<1>7. FlattenSeq(q) = <<>>
  <2>0. Len(q) = Len(a) - i /\ Len(a) \in Nat /\ i \in Nat
    BY <1>4
  <2>1. \A j \in 1..Len(q) : i + j \in (i + 1)..Len(a)
    BY <2>0
  <2>2. \A j \in 1..Len(q) : q[j] = <<>>
    BY <1>4, <2>1
  <2> QED BY <2>2, FlattenNothing
<1>8. FlattenSeq(v) = <<>>
  <2>0. Len(v) = Len(b) - i /\ Len(b) \in Nat /\ i \in Nat
    BY <1>5
  <2>1. \A j \in 1..Len(v) : i + j \in (i + 1)..Len(b)
    BY <2>0
  <2>2. \A j \in 1..Len(v) : v[j] = <<>>
    BY <1>5, <2>1
  <2> QED BY <2>2, FlattenNothing
<1> DEFINE f == FlattenSeq(p)
           x == b[i]
<1>9. f \in Seq(Token) /\ x \in Seq(Token)
  BY <1>1, <1>2
<1>10. FlattenSeq(a) = (f \o <<>>) \o <<>> /\ FlattenSeq(b) = (f \o x) \o <<>>
  BY <1>1, <1>3, <1>6, <1>7, <1>8, Zenon
<1> HIDE DEF f, x
<1>11. (f \o <<>>) \o <<>> = f /\ f \o x \in Seq(Token) /\ (f \o x) \o <<>> = f \o x
  <2>1. f \o <<>> = f
    BY <1>9, ConcatEmptySeq
  <2>2. f \o x \in Seq(Token)
    BY <1>9, ConcatProperties
  <2>3. (f \o x) \o <<>> = f \o x
    BY <2>2, ConcatEmptySeq
  <2> QED BY <2>1, <2>2, <2>3
<1> QED BY <1>10, <1>11, Zenon DEF x

\* The shares are the same, and there is one more.
LEMMA SharesMore ==
  ASSUME NEW a \in Seq(Seq(Token)), NEW b \in Seq(Seq(Token)), Len(b) = Len(a) + 1,
         \A j \in 1..Len(a) : a[j] = b[j]
  PROVE  FlattenSeq(b) = FlattenSeq(a) \o b[Len(a) + 1]
<1> DEFINE x == b[Len(a) + 1]
<1>1. x \in Seq(Token) /\ Len(a) \in Nat
  <2>1. Len(a) \in Nat
    OBVIOUS
  <2>2. Len(a) + 1 \in 1..Len(b)
    BY <2>1
  <2>3. b[Len(a) + 1] \in Seq(Token)
    BY <2>2, ElementOfSeq, Zenon
  <2> QED BY <2>1, <2>3
<1>2. \A j \in 1..(Len(a) + 1) : b[j] = IF j = Len(a) + 1 THEN x ELSE a[j]
  <2>1. \A j \in 1..(Len(a) + 1) : j = Len(a) + 1 \/ j \in 1..Len(a)
    BY <1>1
  <2> QED BY <2>1, Zenon
<1> HIDE DEF x
<1>3. b = Append(a, x)
  <2> DEFINE d == Append(a, x)
  <2>1. d \in Seq(Seq(Token)) /\ Len(d) = Len(b) /\ \A j \in 1..Len(b) : b[j] = d[j]
    BY <1>1, <1>2
  <2> HIDE DEF d
  <2>2. b = d
    BY <2>1, SeqEqual
  <2> QED BY <2>2 DEF d
<1>4. FlattenSeq(Append(a, x)) = FlattenSeq(a) \o x
  BY <1>1, FlattenAppend
<1> QED BY <1>3, <1>4, Zenon DEF x

\* A message counts for one message whoever it was, or for none.
Counted(x, t) == x = <<t>> \/ x = <<Garbled>>

LEMMA ShareOf ==
  ASSUME NEW s, NEW H, NEW i, s[i].k = 1, i \notin H
  PROVE  /\ IsObject(s[i].tok) => Counted(Share(s, H, i), s[i].tok)
         /\ IsObject(s[i].tok) /\ ~Complete(s, i) => Share(s, H, i) = <<Garbled>>
         /\ ~IsObject(s[i].tok) /\ ~Complete(s, i) => Share(s, H, i) = <<>>
         /\ ~IsObject(s[i].tok) /\ Complete(s, i) => Share(s, H, i) = <<s[i].tok>>
<1> DEFINE x == IF Complete(s, i) /\ ~Spoilt(s, i) THEN s[i].tok ELSE Garbled
<1>1. Share(s, H, i) = IF ~IsObject(s[i].tok) THEN (IF Complete(s, i) THEN <<s[i].tok>> ELSE <<>>)
                       ELSE <<x>>
  BY Zenon DEF Share
<1>2. x = s[i].tok \/ x = Garbled
  BY Zenon
<1>3. ~Complete(s, i) => x = Garbled
  BY Zenon
<1> HIDE DEF x
<1>4. <<x>> = <<s[i].tok>> \/ <<x>> = <<Garbled>>
  BY <1>2, Zenon
<1>5. ~Complete(s, i) => <<x>> = <<Garbled>>
  BY <1>3, Zenon
<1>6. ASSUME IsObject(s[i].tok) PROVE Share(s, H, i) = <<x>>
  BY <1>1, <1>6, Zenon
<1> QED BY <1>1, <1>4, <1>5, <1>6, Zenon DEF Counted

\* The input loses a piece that nobody keeps.
LEMMA CacheDropped ==
  ASSUME NEW c \in Seq(Piece), NEW l \in Seq(Piece), NEW n \in Nat, Orderly(c, l, n), l # <<>>
  PROVE  /\ HeldIn(c, l) = {} => Cache(c, {}) = Cache(c, HeldIn(c, l))
         /\ HeldIn(c, l) # {} => Cache(c, {}) \in {Cache(c, HeldIn(c, l)),
                                                   Append(Cache(c, HeldIn(c, l)), Garbled)}
<1> DEFINE H == HeldIn(c, l)
           a == Shares(c, H)
           b == Shares(c, {})
<1> SUFFICES ASSUME H # {} PROVE Cache(c, {}) \in {Cache(c, H), Append(Cache(c, H), Garbled)}
  OBVIOUS
<1>1. PICK i \in H : TRUE
  OBVIOUS
<1>2. /\ i \in 1..Len(c) /\ c[i].k = 1 /\ ~Complete(c, i)
      /\ \A j \in (i + 1)..Len(c) : c[j].k # 1
      /\ H = {i}
  BY <1>1, HeldFacts
<1> HIDE DEF H
<1>3. /\ a \in Seq(Seq(Token)) /\ Len(a) = Len(c)
      /\ \A j \in 1..Len(c) : a[j] = Share(c, H, j)
  BY SharesType
<1>4. /\ b \in Seq(Seq(Token)) /\ Len(b) = Len(c)
      /\ \A j \in 1..Len(c) : b[j] = Share(c, {}, j)
  BY SharesType
<1> HIDE DEF a, b
<1>5. Len(c) \in Nat /\ i \in 1..Len(a) /\ i <= Len(b)
  BY <1>2, <1>3, <1>4
<1>6. a[i] = <<>>
  <2>1. Share(c, H, i) = <<>>
    BY <1>2, Zenon DEF Share
  <2> QED BY <1>2, <1>3, <2>1
<1>7. \A j \in 1..(i - 1) : a[j] = b[j]
  <2> SUFFICES ASSUME NEW j \in 1..(i - 1) PROVE a[j] = b[j]
    OBVIOUS
  <2>1. j \in 1..Len(c) /\ j # i
    BY <1>2
  <2>2. j \notin H /\ j \notin {}
    BY <1>2, <2>1
  <2>3. Share(c, H, j) = Share(c, {}, j)
    BY <2>2, Zenon DEF Share
  <2> QED BY <1>3, <1>4, <2>1, <2>3
<1>8. \A j \in (i + 1)..Len(c) : a[j] = <<>> /\ b[j] = <<>>
  <2> SUFFICES ASSUME NEW j \in (i + 1)..Len(c) PROVE a[j] = <<>> /\ b[j] = <<>>
    OBVIOUS
  <2>1. j \in 1..Len(c) /\ c[j].k # 1
    BY <1>2
  <2>2. Share(c, H, j) = <<>> /\ Share(c, {}, j) = <<>>
    BY <2>1, Zenon DEF Share
  <2> QED BY <1>3, <1>4, <2>1, <2>2
<1>9. FlattenSeq(b) = FlattenSeq(a) \o b[i]
  BY <1>3, <1>4, <1>5, <1>6, <1>7, <1>8, SharesFilled
<1>10. b[i] = <<>> \/ b[i] = <<Garbled>>
  <2>1. Share(c, {}, i) = <<>> \/ Share(c, {}, i) = <<Garbled>>
    BY <1>2, ShareOf
  <2> QED BY <1>2, <1>4, <2>1
<1>11. FlattenSeq(a) \in Seq(Token)
  BY <1>3, FlattenType
<1>12. CASE b[i] = <<>>
  <2>1. FlattenSeq(a) \o <<>> = FlattenSeq(a)
    BY <1>11, ConcatEmptySeq
  <2>2. FlattenSeq(b) = FlattenSeq(a)
    BY <1>9, <1>12, <2>1, Zenon
  <2> QED BY <2>2 DEF Cache, a, b
<1>13. CASE b[i] = <<Garbled>>
  <2>1. Append(FlattenSeq(a), Garbled) = FlattenSeq(a) \o <<Garbled>>
    BY <1>11, KnownTokens, AppendIsConcat
  <2>2. FlattenSeq(b) = Append(FlattenSeq(a), Garbled)
    BY <1>9, <1>13, <2>1, Zenon
  <2> QED BY <2>2 DEF Cache, a, b
<1> QED BY <1>10, <1>12, <1>13

LEMMA ShareWhole ==
  ASSUME NEW s, NEW H, NEW i, s[i].k = 1, i \notin H, Complete(s, i)
  PROVE  Counted(Share(s, H, i), s[i].tok)
BY ShareOf, Zenon DEF Counted

LEMMA CountedAdds ==
  ASSUME NEW f \in Seq(Token), NEW t \in Token, NEW x, Counted(x, t)
  PROVE  f \o x = Append(f, t) \/ f \o x = Append(f, Garbled)
<1>1. Append(f, t) = f \o <<t>> /\ Append(f, Garbled) = f \o <<Garbled>>
  BY KnownTokens, AppendIsConcat
<1> QED BY <1>1, Zenon DEF Counted

\* A piece is kept behind the others: which of the shares are as before.
SharesAre(c, l, d, H, G) ==
  /\ \A j \in 1..Len(c) : j \notin H => Share(d, G, j) = Share(c, H, j)
  /\ \A j \in H : Share(c, H, j) = <<>>
  /\ \A j \in H : l[1].k < l[1].n => Share(d, G, j) = <<>>
  /\ \A j \in H : l[1].k = l[1].n => Counted(Share(d, G, j), l[1].tok)
  /\ ~Begins(l[1]) => Share(d, G, Len(c) + 1) = <<>>
  /\ Begins(l[1]) /\ l[1].k < l[1].n => Share(d, G, Len(c) + 1) = <<>>
  /\ Begins(l[1]) /\ l[1].k = l[1].n => Counted(Share(d, G, Len(c) + 1), l[1].tok)

LEMMA SharesKept ==
  ASSUME NEW c, NEW l, NEW n, NEW l2, NEW d, Keeps(c, l, n, l2, d)
  PROVE  SharesAre(c, l, d, HeldIn(c, l), HeldIn(d, l2))
<1> DEFINE h == l[1]
           m == Len(c)
           H == HeldIn(c, l)
           G == HeldIn(d, l2)
<1>20. /\ c \in Seq(Piece) /\ l \in Seq(Piece) /\ n \in Nat /\ Orderly(c, l, n)
       /\ Behind(l, l2) /\ d = Append(c, l[1])
  BY DEF Keeps
<1>0. h \in Piece /\ m \in Nat /\ h.k \in Nat /\ h.n \in Nat /\ h.id \in Nat
  BY <1>20, HeadFacts, PieceNumbers
<1>1. /\ d \in Seq(Piece) /\ Len(d) = m + 1 /\ d[m + 1] = h
      /\ \A j \in 1..m : d[j] = c[j]
  BY <1>0, <1>20, Kept
<1>2. \A j \in 1..Len(d) : j \in G <=> /\ h.id > 0 /\ h.k < h.n
                                       /\ j \in H \/ (j = m + 1 /\ Begins(h))
  <2>1. \A j \in 1..Len(d) :
          j \in HeldIn(d, l2) <=>
            /\ l[1].id > 0 /\ l[1].k < l[1].n
            /\ j \in HeldIn(c, l) \/ (j = Len(c) + 1 /\ Begins(l[1]))
    BY HeldKept, Zenon
  <2> QED BY <2>1, Zenon
<1>3. \A j \in 1..m : Complete(d, j) <=> Complete(c, j) \/ (j \in H /\ h.k = h.n)
  BY CompleteKept, Zenon
<1>4. \A j \in H : j \in 1..m /\ c[j].k = 1 /\ h.tok = c[j].tok /\ h.id > 0
  BY <1>20, HeldFacts
<1> HIDE DEF h, m, H, G
<1>5. \A j \in 1..m : j \in 1..Len(d) /\ j # m + 1
  BY <1>0, <1>1
<1>6. ASSUME NEW j \in 1..m, j \notin H PROVE Share(d, G, j) = Share(c, H, j)
  <2>1. j \notin G /\ d[j] = c[j] /\ (Complete(d, j) <=> Complete(c, j))
    BY <1>1, <1>2, <1>3, <1>5, <1>6
  <2>2. CASE c[j].k # 1
    BY <2>1, <2>2, Zenon DEF Share
  <2>3. CASE c[j].k = 1 /\ ~IsObject(c[j].tok)
    BY <1>6, <2>1, <2>3, Zenon DEF Share
  <2>4. CASE c[j].k = 1 /\ IsObject(c[j].tok)
    <3>1. j \in Opening(c)
      BY <2>4 DEF Opening, m
    <3>2. Spoilt(d, j) <=> Spoilt(c, j)
      BY <1>0, <1>20, <3>1, SpoiltSame DEF h
    <3> QED BY <1>6, <2>1, <2>4, <3>2, Zenon DEF Share
  <2> QED BY <2>2, <2>3, <2>4, Zenon
<1>7. \A j \in H : Share(c, H, j) = <<>>
  BY Zenon DEF Share
<1>8. ASSUME NEW j \in H, h.k < h.n PROVE Share(d, G, j) = <<>>
  <2>1. j \in G
    BY <1>2, <1>4, <1>5, <1>8
  <2> QED BY <2>1, Zenon DEF Share
<1>9. ASSUME NEW j \in H, h.k = h.n PROVE Counted(Share(d, G, j), h.tok)
  <2>1. j \in 1..m /\ j \in 1..Len(d) /\ d[j] = c[j] /\ ~(h.k < h.n)
    BY <1>0, <1>1, <1>4, <1>5, <1>9
  <2>2. j \notin G /\ Complete(d, j) /\ d[j].k = 1 /\ d[j].tok = h.tok
    BY <1>2, <1>3, <1>4, <1>9, <2>1
  <2>3. Counted(Share(d, G, j), d[j].tok)
    BY <2>2, ShareWhole, Zenon
  <2> QED BY <2>2, <2>3, Zenon
<1>10. m + 1 \in 1..Len(d) /\ m + 1 \notin 1..m
  BY <1>0, <1>1
<1>11. ASSUME ~Begins(h) PROVE Share(d, G, m + 1) = <<>>
  <2>1. h.k # 1
    <3>1. CASE h = Closed
      BY <3>1, ClosedParts
    <3>2. CASE h # Closed
      <4>1. h.id > 0
        BY <3>2, <1>20, HeadFacts DEF h
      <4> QED BY <1>11, <4>1 DEF Begins
    <3> QED BY <3>1, <3>2
  <2>2. d[m + 1].k # 1
    BY <1>1, <2>1
  <2> QED BY <2>2, Zenon DEF Share
<1>12. ASSUME Begins(h), h.k < h.n PROVE Share(d, G, m + 1) = <<>>
  <2>1. m + 1 \in G
    BY <1>2, <1>10, <1>12 DEF Begins
  <2> QED BY <2>1, Zenon DEF Share
<1>13. ASSUME Begins(h), h.k = h.n PROVE Counted(Share(d, G, m + 1), h.tok)
  <2>1. d[m + 1] = h /\ h.k = 1 /\ h.n = 1 /\ ~(h.k < h.n)
    BY <1>0, <1>1, <1>13 DEF Begins
  <2>2. m + 1 \notin G
    BY <1>2, <1>10, <2>1
  <2>3. Complete(d, m + 1)
    <3>1. \A e \in 0..(h.n - 1) : e = 0 /\ (m + 1) + e = m + 1
      BY <1>0, <2>1
    <3>2. \A e \in 0..(h.n - 1) : d[(m + 1) + e].id = h.id /\ d[(m + 1) + e].k = e + 1
      <4> SUFFICES ASSUME NEW e \in 0..(h.n - 1)
                   PROVE  d[(m + 1) + e].id = h.id /\ d[(m + 1) + e].k = e + 1
        OBVIOUS
      <4>1. e = 0 /\ d[(m + 1) + e] = h
        BY <2>1, <3>1
      <4> QED BY <2>1, <4>1
    <3>3. (m + 1) + h.n - 1 <= Len(d)
      BY <1>0, <1>1, <2>1
    <3> QED BY <2>1, <3>2, <3>3 DEF Complete
  <2>4. Counted(Share(d, G, m + 1), d[m + 1].tok)
    BY <2>1, <2>2, <2>3, ShareWhole
  <2> QED BY <2>1, <2>4, Zenon
<1> QED BY <1>6, <1>7, <1>8, <1>9, <1>11, <1>12, <1>13 DEF h, m, H, G, SharesAre

KeptAs(c, H, h, d, G) ==
  /\ (Begins(h) \/ H # {}) /\ h.k = h.n =>
        G = {} /\ (Cache(d, G) = Append(Cache(c, H), h.tok) \/ Cache(d, G) = Append(Cache(c, H), Garbled))
  /\ (Begins(h) \/ H # {}) /\ h.k < h.n => (\E i : G = {i}) /\ Cache(d, G) = Cache(c, H)
  /\ ~Begins(h) /\ H = {} => G = {} /\ Cache(d, G) = Cache(c, H)

LEMMA CacheKept ==
  ASSUME NEW c, NEW l, NEW n, NEW l2, NEW d, Keeps(c, l, n, l2, d)
  PROVE  KeptAs(c, HeldIn(c, l), l[1], d, HeldIn(d, l2))
<1> DEFINE H == HeldIn(c, l)
           G == HeldIn(d, l2)
<1> SUFFICES /\ (Begins(l[1]) \/ H # {}) /\ l[1].k = l[1].n =>
                  /\ G = {}
                  /\ Cache(d, G) = Append(Cache(c, H), l[1].tok)
                     \/ Cache(d, G) = Append(Cache(c, H), Garbled)
             /\ (Begins(l[1]) \/ H # {}) /\ l[1].k < l[1].n =>
                  (\E i : G = {i}) /\ Cache(d, G) = Cache(c, H)
             /\ ~Begins(l[1]) /\ H = {} => G = {} /\ Cache(d, G) = Cache(c, H)
  BY Zenon DEF KeptAs
<1>00. H = HeldIn(c, l) /\ G = HeldIn(d, l2)
  OBVIOUS
<1> HIDE DEF H, G
<1> USE <1>00
<1> DEFINE h == l[1]
           m == Len(c)
           a == Shares(c, H)
           b == Shares(d, G)
<1>20. /\ c \in Seq(Piece) /\ l \in Seq(Piece) /\ n \in Nat /\ Orderly(c, l, n)
       /\ Behind(l, l2) /\ d = Append(c, l[1])
  BY DEF Keeps
<1>0. h \in Piece /\ m \in Nat /\ h.k \in Nat /\ h.n \in Nat /\ h.id \in Nat /\ h.tok \in Token
  BY <1>20, HeadFacts, PieceNumbers
<1>1. /\ d \in Seq(Piece) /\ Len(d) = m + 1 /\ d[m + 1] = h
      /\ \A j \in 1..m : d[j] = c[j]
  BY <1>0, <1>20, Kept
<1>2. \A j \in 1..Len(d) : j \in G <=> /\ h.id > 0 /\ h.k < h.n
                                       /\ j \in H \/ (j = m + 1 /\ Begins(h))
  <2>1. \A j \in 1..Len(d) :
          j \in HeldIn(d, l2) <=>
            /\ l[1].id > 0 /\ l[1].k < l[1].n
            /\ j \in HeldIn(c, l) \/ (j = Len(c) + 1 /\ Begins(l[1]))
    BY HeldKept, Zenon
  <2> QED BY <2>1, Zenon
<1>3. G \subseteq 1..Len(d)
  BY DEF HeldIn
<1>4. /\ \A j \in 1..m : j \notin H => Share(d, G, j) = Share(c, H, j)
      /\ \A j \in H : Share(c, H, j) = <<>>
      /\ \A j \in H : h.k < h.n => Share(d, G, j) = <<>>
      /\ \A j \in H : h.k = h.n => Counted(Share(d, G, j), h.tok)
      /\ ~Begins(h) => Share(d, G, m + 1) = <<>>
      /\ Begins(h) /\ h.k < h.n => Share(d, G, m + 1) = <<>>
      /\ Begins(h) /\ h.k = h.n => Counted(Share(d, G, m + 1), h.tok)
  <2>1. SharesAre(c, l, d, H, G)
    BY SharesKept, Zenon
  <2> QED BY <2>1, Zenon DEF SharesAre
<1>5. \A i \in H : /\ i \in 1..m /\ c[i].k = 1 /\ h.id > 0 /\ h.k > 1
                   /\ \A j \in (i + 1)..m : c[j].k # 1
                   /\ H = {i}
  BY <1>20, HeldFacts
<1>6. a \in Seq(Seq(Token)) /\ Len(a) = m /\ \A j \in 1..m : a[j] = Share(c, H, j)
  BY <1>20, SharesType
<1>7. b \in Seq(Seq(Token)) /\ Len(b) = m + 1 /\ \A j \in 1..(m + 1) : b[j] = Share(d, G, j)
  <2>1. b \in Seq(Seq(Token)) /\ Len(b) = Len(d) /\ \A j \in 1..Len(d) : b[j] = Share(d, G, j)
    BY <1>1, SharesType
  <2> QED BY <1>1, <2>1, Zenon
<1> HIDE DEF h, m, a, b
<1>8. Cache(c, H) = FlattenSeq(a) /\ Cache(d, G) = FlattenSeq(b) /\ FlattenSeq(a) \in Seq(Token)
  BY <1>6, FlattenType DEF Cache, a, b
<1>9. m + 1 \in 1..(m + 1) /\ \A j \in 1..m : j \in 1..(m + 1) /\ j # m + 1
  BY <1>0
\* The shares of before are the same: only the last one counts.
<1>10. ASSUME \A j \in 1..m : Share(d, G, j) = Share(c, H, j)
       PROVE  FlattenSeq(b) = FlattenSeq(a) \o Share(d, G, m + 1)
  <2>1. \A j \in 1..Len(a) : a[j] = b[j]
    BY <1>6, <1>7, <1>9, <1>10
  <2>2. Len(b) = Len(a) + 1 /\ b[Len(a) + 1] = Share(d, G, m + 1)
    BY <1>6, <1>7, <1>9
  <2>3. FlattenSeq(b) = FlattenSeq(a) \o b[Len(a) + 1]
    BY <1>6, <1>7, <2>1, <2>2, SharesMore
  <2> QED BY <2>2, <2>3, Zenon
<1>11. ASSUME \A j \in 1..m : Share(d, G, j) = Share(c, H, j), Share(d, G, m + 1) = <<>>
       PROVE  Cache(d, G) = Cache(c, H)
  <2>1. FlattenSeq(b) = FlattenSeq(a) \o <<>>
    BY <1>10, <1>11, Zenon
  <2>2. FlattenSeq(a) \o <<>> = FlattenSeq(a)
    BY <1>8, ConcatEmptySeq
  <2> QED BY <1>8, <2>1, <2>2, Zenon
<1>12. ASSUME Begins(h) PROVE H = {}
  BY <1>5, <1>12 DEF Begins
<1>13. CASE Begins(h) /\ h.k = h.n
  <2>1. ~(h.k < h.n) /\ H = {}
    BY <1>0, <1>12, <1>13
  <2>2. G = {}
    BY <1>2, <1>3, <2>1
  <2>3. FlattenSeq(b) = FlattenSeq(a) \o Share(d, G, m + 1)
    BY <1>4, <1>10, <2>1, Zenon
  <2>4. Counted(Share(d, G, m + 1), h.tok)
    BY <1>4, <1>13, Zenon
  <2>5. Cache(d, G) = Append(Cache(c, H), h.tok) \/ Cache(d, G) = Append(Cache(c, H), Garbled)
    BY <1>0, <1>8, <2>3, <2>4, CountedAdds, Zenon
  <2> QED BY <1>13, <2>1, <2>2, <2>5, Zenon DEF h
<1>14. CASE Begins(h) /\ h.k < h.n
  <2>1. H = {} /\ h.id > 0
    BY <1>12, <1>14 DEF Begins
  <2>2. G = {m + 1}
    <3>1. \A j \in G : j = m + 1
      BY <1>2, <1>3, <2>1
    <3>2. m + 1 \in G
      BY <1>1, <1>2, <1>9, <1>14, <2>1
    <3> QED BY <3>1, <3>2
  <2>3. Cache(d, G) = Cache(c, H)
    BY <1>4, <1>11, <1>14, <2>1, Zenon
  <2>4. ~(h.k = h.n) /\ \E i : G = {i}
    <3>1. ~(h.k = h.n)
      BY <1>0, <1>14
    <3> QED BY <2>2, <3>1, Zenon
  <2> QED BY <1>14, <2>3, <2>4, Zenon DEF h
<1>15. CASE ~Begins(h) /\ H = {}
  <2>1. G = {}
    BY <1>2, <1>3, <1>15
  <2>2. Cache(d, G) = Cache(c, H)
    BY <1>4, <1>11, <1>15, Zenon
  <2> QED BY <1>15, <2>1, <2>2, Zenon DEF h
<1>16. CASE H # {} /\ h.k < h.n
  <2>1. PICK i \in H : TRUE
    BY <1>16
  <2>2. i \in 1..m /\ h.id > 0 /\ H = {i} /\ ~Begins(h)
    BY <1>5, <1>12, <2>1
  <2>3. G = {i}
    <3>1. \A j \in G : j = i
      BY <1>2, <1>3, <2>2
    <3>2. i \in G
      BY <1>1, <1>2, <1>9, <1>16, <2>2
    <3> QED BY <3>1, <3>2
  <2>4. \A j \in 1..m : Share(d, G, j) = Share(c, H, j)
    <3> SUFFICES ASSUME NEW j \in 1..m PROVE Share(d, G, j) = Share(c, H, j)
      OBVIOUS
    <3>1. CASE j \in H
      BY <1>4, <1>16, <3>1, Zenon
    <3>2. CASE j \notin H
      BY <1>4, <3>2, Zenon
    <3> QED BY <3>1, <3>2
  <2>5. Cache(d, G) = Cache(c, H)
    BY <1>4, <1>11, <2>2, <2>4, Zenon
  <2>6. ~(h.k = h.n) /\ \E j : G = {j}
    <3>1. ~(h.k = h.n)
      BY <1>0, <1>16
    <3> QED BY <2>3, <3>1, Zenon
  <2> QED BY <1>16, <2>5, <2>6, Zenon DEF h
<1>17. CASE H # {} /\ h.k = h.n
  <2>1. PICK i \in H : TRUE
    BY <1>17
  <2>2. /\ i \in 1..m /\ H = {i} /\ ~Begins(h) /\ ~(h.k < h.n)
        /\ \A j \in (i + 1)..m : c[j].k # 1
    <3>1. ~(h.k < h.n)
      BY <1>0, <1>17
    <3>2. ~Begins(h)
      BY <1>12, <1>17
    <3> QED BY <1>5, <2>1, <3>1, <3>2, Zenon
  <2>3. G = {}
    BY <1>2, <1>3, <2>2
  <2>4. i \in 1..Len(a) /\ i <= Len(b) /\ i \in 1..(m + 1)
    BY <1>0, <1>6, <1>7, <2>2
  <2>5. a[i] = <<>>
    BY <1>4, <1>6, <2>1, <2>2
  <2>6. \A j \in 1..(i - 1) : a[j] = b[j]
    <3> SUFFICES ASSUME NEW j \in 1..(i - 1) PROVE a[j] = b[j]
      OBVIOUS
    <3>1. j \in 1..m /\ j \in 1..(m + 1) /\ j # i
      BY <1>0, <2>2
    <3>2. j \notin H
      BY <2>2, <3>1
    <3> QED BY <1>4, <1>6, <1>7, <3>1, <3>2
  <2>7. \A j \in (i + 1)..Len(a) : a[j] = <<>>
    <3> SUFFICES ASSUME NEW j \in (i + 1)..m PROVE a[j] = <<>>
      BY <1>6
    <3>1. j \in 1..m /\ c[j].k # 1
      BY <1>0, <2>2
    <3>2. Share(c, H, j) = <<>>
      BY <3>1, Zenon DEF Share
    <3> QED BY <1>6, <3>1, <3>2
  <2>8. \A j \in (i + 1)..Len(b) : b[j] = <<>>
    <3> SUFFICES ASSUME NEW j \in (i + 1)..(m + 1) PROVE b[j] = <<>>
      BY <1>7
    <3>1. CASE j = m + 1
      BY <1>4, <1>7, <1>9, <2>2, <3>1
    <3>2. CASE j # m + 1
      <4>1. j \in 1..m /\ j \in (i + 1)..m /\ j \in 1..(m + 1)
        BY <1>0, <2>2, <3>2
      <4>2. d[j].k # 1
        BY <1>1, <2>2, <4>1
      <4>3. Share(d, G, j) = <<>>
        BY <4>2, Zenon DEF Share
      <4> QED BY <1>7, <4>1, <4>3
    <3> QED BY <3>1, <3>2
  <2>9. FlattenSeq(b) = FlattenSeq(a) \o b[i]
    BY <1>6, <1>7, <2>4, <2>5, <2>6, <2>7, <2>8, SharesFilled
  <2>10. Counted(b[i], h.tok)
    <3>1. b[i] = Share(d, G, i)
      BY <1>7, <2>4
    <3> QED BY <1>4, <1>17, <2>1, <3>1, Zenon
  <2>11. Cache(d, G) = Append(Cache(c, H), h.tok) \/ Cache(d, G) = Append(Cache(c, H), Garbled)
    BY <1>0, <1>8, <2>9, <2>10, CountedAdds, Zenon
  <2> QED BY <1>17, <2>2, <2>3, <2>11, Zenon DEF h
<1> QED BY <1>13, <1>14, <1>15, <1>16, <1>17 DEF h
-----------------------------------------------------------------------------
(* What gprs_cache answers, told message by message.                       *)

LEMMA FromCacheIs ==
  ASSUME NEW s
  PROVE  FromCache(s) = [obj   |-> IF TypeOf(Digest(s).obj.kind) > 0 THEN Digest(s).obj ELSE Nothing,
                         heart |-> Digest(s).heart]
<1> DEFINE h == \E i \in 1..Len(s) : s[i].kind = "Heart"
           o == IF FirstObject(s) = {} THEN Nothing ELSE s[CHOOSE i \in FirstObject(s) : TRUE]
           d == [obj |-> o, heart |-> h]
<1>1. Digest(s) = d
  BY Zenon DEF Digest
<1>2. FromCache(s) = [d EXCEPT !.obj = IF TypeOf(@.kind) > 0 THEN @ ELSE Nothing]
  BY <1>1, Zenon DEF FromCache
<1> HIDE DEF h, o
<1>3. [d EXCEPT !.obj = IF TypeOf(@.kind) > 0 THEN @ ELSE Nothing]
        = [obj |-> IF TypeOf(o.kind) > 0 THEN o ELSE Nothing, heart |-> h]
  OBVIOUS
<1>4. d.obj = o /\ d.heart = h
  OBVIOUS
<1> HIDE DEF d
<1> QED BY <1>1, <1>2, <1>3, <1>4, Zenon

LEMMA CachedHeart ==
  ASSUME NEW c \in Seq(Piece), NEW l \in Seq(Piece), NEW n \in Nat, Orderly(c, l, n)
  PROVE  HasHeart(c) = Digest(Cache(c, HeldIn(c, l))).heart
<1> DEFINE H == HeldIn(c, l)
           a == Shares(c, H)
<1>1. a \in Seq(Seq(Token)) /\ Len(a) = Len(c) /\ \A i \in 1..Len(c) : a[i] = Share(c, H, i)
  BY SharesType
<1>2. \A i \in H : ~Complete(c, i)
  BY HeldFacts
<1> HIDE DEF H, a
<1>3. ASSUME HasHeart(c) PROVE \E i \in 1..Len(a) : \E m \in 1..Len(a[i]) : a[i][m].kind = "Heart"
  <2>1. PICK i \in 1..Len(c) : c[i].tok.kind = "Heart" /\ Complete(c, i)
    BY <1>3 DEF HasHeart
  <2>2. c[i].k = 1 /\ i \notin H /\ ~IsObject(c[i].tok)
    BY <1>2, <2>1 DEF Complete, IsObject
  <2>3. a[i] = <<c[i].tok>>
    BY <1>1, <2>1, <2>2, ShareOf, Zenon
  <2>4. 1 \in 1..Len(a[i]) /\ a[i][1].kind = "Heart"
    BY <2>1, <2>3
  <2> QED BY <1>1, <2>4
<1>4. ASSUME NEW i \in 1..Len(a), NEW m \in 1..Len(a[i]), a[i][m].kind = "Heart"
      PROVE  HasHeart(c)
  <2>1. i \in 1..Len(c) /\ a[i] = Share(c, H, i) /\ a[i] # <<>>
    BY <1>1
  <2>2. a[i] \in {<<>>, <<c[i].tok>>, <<Garbled>>}
    BY <2>1, ShareType
  <2>3. a[i] # <<Garbled>>
    BY <1>4 DEF Garbled
  <2>4. a[i] = <<c[i].tok>>
    BY <2>1, <2>2, <2>3
  <2>5. c[i].tok.kind = "Heart"
    BY <1>4, <2>4
  <2>6. ~IsObject(c[i].tok)
    BY <2>5 DEF IsObject
  <2>7. Complete(c, i)
    BY <2>1, <2>6, Zenon DEF Share
  <2> QED BY <2>1, <2>5, <2>7 DEF HasHeart
<1>5. Digest(FlattenSeq(a)).heart
        = (\E i \in 1..Len(a) : \E m \in 1..Len(a[i]) : a[i][m].kind = "Heart")
  BY <1>1, FlatHeart
<1>6. HasHeart(c) \in BOOLEAN
  BY HeartType
<1>7. HasHeart(c) <=> \E i \in 1..Len(a) : \E m \in 1..Len(a[i]) : a[i][m].kind = "Heart"
  BY <1>3, <1>4
<1> QED BY <1>5, <1>6, <1>7, Zenon DEF Cache, a, H

\* A message all of whose pieces are there has a closing brace.
LEMMA CompleteCloses ==
  ASSUME NEW c \in Seq(Piece), NEW l \in Seq(Piece), NEW n \in Nat, Orderly(c, l, n),
         NEW i \in Opening(c), Complete(c, i)
  PROVE  Closing(c) # {}
<1>1. i \in 1..Len(c) /\ IsObject(c[i].tok) /\ c[i].k = 1
  BY DEF Opening
<1>2. /\ i + c[i].n - 1 <= Len(c)
      /\ \A d \in 0..(c[i].n - 1) : c[i + d].id = c[i].id /\ c[i + d].k = d + 1
  BY DEF Complete
<1>3. /\ \A j \in 1..Len(c) : c[j] \in Came(c, l) /\ SentPiece(c[j], n)
      /\ NoStray(c)
  BY OrderlyPieces
<1>4. c[i].id > 0 /\ c[i].n \in Nat /\ c[i].n >= 1
  <2>1. c[i].id > 0
    BY <1>1, <1>3 DEF NoStray
  <2>2. c[i] # Closed
    BY <2>1, ClosedParts
  <2>3. 1 \in 1..c[i].n /\ c[i] \in Piece
    BY <1>1, <1>3, <2>2 DEF SentPiece
  <2> QED BY <2>1, <2>3, PieceNumbers
<1> DEFINE e == c[i].n - 1
           j == i + e
<1>5. e \in 0..(c[i].n - 1) /\ j \in 1..Len(c) /\ e + 1 = c[i].n
  BY <1>1, <1>2, <1>4
<1>6. c[j].id = c[i].id /\ c[j].k = c[i].n
  BY <1>2, <1>5
<1>7. Alike(c[i], c[j])
  BY <1>1, <1>3, <1>5 DEF Orderly, AllAlike
<1> HIDE DEF j
<1>8. c[j].tok = c[i].tok /\ c[j].n = c[i].n
  BY <1>4, <1>6, <1>7 DEF Alike
<1> QED BY <1>1, <1>5, <1>6, <1>8 DEF Closing

\* What is found in the cache, for the purposes of the category check.
Categorised(o) == IF TypeOf(o.kind) > 0 THEN o ELSE Nothing

LEMMA CategorisedKnown == Categorised(Nothing) = Nothing /\ Categorised(Garbled) = Nothing
<1>1. TypeOf(Nothing.kind) = -1 /\ TypeOf(Garbled.kind) = -1
  BY KnownTokens DEF Nothing, Garbled
<1> QED BY <1>1 DEF Categorised

LEMMA CachedObject ==
  ASSUME NEW c \in Seq(Piece), NEW l \in Seq(Piece), NEW n \in Nat, Orderly(c, l, n)
  PROVE  (IF HasBraces(c) THEN Categorised(Found(c)) ELSE Nothing)
           = Categorised(Digest(Cache(c, HeldIn(c, l))).obj)
<1> DEFINE H == HeldIn(c, l)
           a == Shares(c, H)
           O == Opening(c)
           C == Closing(c)
           b == First(O)
           D == Digest(FlattenSeq(a)).obj
<1>1. a \in Seq(Seq(Token)) /\ Len(a) = Len(c) /\ \A i \in 1..Len(c) : a[i] = Share(c, H, i)
  BY SharesType
<1>2. \A i \in H : ~Complete(c, i) /\ \A j \in (i + 1)..Len(c) : c[j].k # 1
  BY HeldFacts
<1>3. O \subseteq 1..Len(c) /\ C \subseteq 1..Len(c) /\ Len(c) \in Nat
      /\ \A i \in 1..Len(c) : i \in O <=> IsObject(c[i].tok) /\ c[i].k = 1
  BY DEF Opening, Closing
<1>4. O # {} => b \in O /\ \A j \in O : b <= j
  <2>1. O \subseteq Nat
    BY <1>3
  <2> QED BY <2>1, FirstIs
<1>5. HasBraces(c) <=> O # {} /\ C # {}
  BY DEF HasBraces
<1>6. Found(c) = IF ~Complete(c, b) \/ (First(C) = b - 1 /\ c[b].bare) THEN Nothing ELSE c[b].tok
  BY Zenon DEF Found
<1>7. \A i \in O : Complete(c, i) => C # {}
  BY CompleteCloses
<1>8. \A i \in O : Spoilt(c, i) <=> c[i].bare /\ i > 1 /\ i = b /\ i - 1 = First(C \cup {Len(c) + 1})
  BY Zenon DEF Spoilt
<1>9. Cache(c, H) = FlattenSeq(a)
  BY Zenon DEF Cache
<1> SUFFICES (IF HasBraces(c) THEN Categorised(Found(c)) ELSE Nothing) = Categorised(D)
  BY <1>9, Zenon
<1> HIDE DEF H, a, O, C, b, D
<1>10. \A i \in 1..Len(c), m \in Nat : m \in 1..Len(a[i]) /\ IsObject(a[i][m]) => i \in O /\ i \notin H
  <2> SUFFICES ASSUME NEW i \in 1..Len(c), NEW m \in Nat, m \in 1..Len(a[i]), IsObject(a[i][m])
               PROVE  i \in O /\ i \notin H
    OBVIOUS
  <2>1. a[i] = Share(c, H, i) /\ a[i] # <<>>
    BY <1>1
  <2>2. c[i].k = 1 /\ i \notin H
    BY <2>1, Zenon DEF Share
  <2>3. IsObject(c[i].tok)
    <3>1. SUFFICES ASSUME ~IsObject(c[i].tok) PROVE FALSE
      OBVIOUS
    <3>2. a[i] = <<>> \/ a[i] = <<c[i].tok>>
      BY <2>1, <2>2, <3>1, ShareOf, Zenon
    <3>3. a[i] = <<c[i].tok>>
      BY <2>1, <3>2
    <3>4. a[i][m] = c[i].tok
      BY <3>3
    <3> QED BY <3>1, <3>4
  <2> QED BY <1>3, <2>2, <2>3
<1>11. CASE O \subseteq H
  <2>1. \A i \in 1..Len(a) : \A m \in 1..Len(a[i]) : ~IsObject(a[i][m])
    <3> SUFFICES ASSUME NEW i \in 1..Len(a), NEW m \in 1..Len(a[i]) PROVE ~IsObject(a[i][m])
      OBVIOUS
    <3>1. i \in 1..Len(c) /\ m \in Nat
      BY <1>1
    <3> QED BY <1>10, <1>11, <3>1
  <2>2. D = Nothing
    BY <1>1, <2>1, FlatNothing DEF D
  <2>3. (IF HasBraces(c) THEN Categorised(Found(c)) ELSE Nothing) = Nothing
    <3>1. CASE HasBraces(c)
      <4>1. b \in O
        BY <1>4, <1>5, <3>1
      <4>2. ~Complete(c, b)
        BY <1>2, <1>11, <4>1
      <4>3. Found(c) = Nothing
        BY <1>6, <4>2, Zenon
      <4> QED BY <3>1, <4>3, CategorisedKnown, Zenon
    <3> QED BY <3>1, Zenon
  <2> QED BY <2>2, <2>3, CategorisedKnown, Zenon
<1>12. CASE ~(O \subseteq H)
  <2>1. b \in O /\ \A j \in O : b <= j
    BY <1>4, <1>12
  <2>2. b \in 1..Len(c) /\ c[b].k = 1 /\ IsObject(c[b].tok)
    BY <1>3, <2>1
  <2>3. b \notin H
    <3>1. PICK i \in O : i \notin H
      BY <1>12
    <3>2. SUFFICES ASSUME b \in H PROVE FALSE
      OBVIOUS
    <3>3. i \in 1..Len(c) /\ c[i].k = 1 /\ b <= i /\ i # b
      BY <1>3, <2>1, <3>1, <3>2
    <3>4. i \in (b + 1)..Len(c)
      BY <2>2, <3>3
    <3> QED BY <1>2, <3>2, <3>3, <3>4
  <2> DEFINE x == IF Complete(c, b) /\ ~Spoilt(c, b) THEN c[b].tok ELSE Garbled
  <2>4. a[b] = <<x>>
    BY <1>1, <2>2, <2>3, Zenon DEF Share
  <2>5. IsObject(x)
    BY <2>2, KnownTokens
  <2>6. \A j \in 1..(b - 1) : \A m \in 1..Len(a[j]) : ~IsObject(a[j][m])
    <3> SUFFICES ASSUME NEW j \in 1..(b - 1), NEW m \in 1..Len(a[j]) PROVE ~IsObject(a[j][m])
      OBVIOUS
    <3>0. j \in 1..Len(c)
      BY <2>2
    <3>1. m \in Nat /\ ~(b <= j)
      BY <2>2
    <3>2. j \notin O
      BY <2>1, <3>1
    <3> QED BY <1>10, <3>0, <3>1, <3>2
  <2>7. D = x
    <3> HIDE DEF x
    <3>1. b \in 1..Len(a)
      BY <1>1, <2>2
    <3> QED BY <1>1, <2>4, <2>5, <2>6, <3>1, FlatObject DEF D
  <2>8. CASE ~Complete(c, b)
    <3>1. x = Garbled /\ Found(c) = Nothing
      BY <1>6, <2>8, Zenon
    <3> HIDE DEF x
    <3> QED BY <2>7, <3>1, CategorisedKnown, Zenon
  <2>9. CASE Complete(c, b)
    <3>1. O # {} /\ C # {} /\ HasBraces(c)
      BY <1>5, <1>7, <2>1, <2>9
    <3>2. First(C \cup {Len(c) + 1}) = First(C) /\ First(C) \in 1..Len(c)
      <4>0. C \subseteq 1..Len(c) /\ Len(c) \in Nat
        BY <1>3
      <4>1. \A j \in C : j \in Nat /\ j \in 1..Len(c) /\ j <= Len(c) + 1
        BY <4>0
      <4>2. Len(c) + 1 \in Nat
        BY <4>0
      <4> DEFINE E == C \cup {Len(c) + 1}
                 f == First(C)
      <4>3. C \subseteq Nat /\ E \subseteq Nat
        BY <4>1, <4>2, Zenon
      <4>4. f \in C /\ \A j \in C : f <= j
        BY <3>1, <4>3, FirstIs
      <4>5. f \in E /\ f \in Nat /\ f <= Len(c) + 1
        BY <4>1, <4>4, Zenon
      <4>6. \A j \in E : f <= j
        BY <4>4, <4>5, Zenon
      <4> HIDE DEF E, f
      <4>7. First(E) = f
        BY <4>3, <4>5, <4>6, FirstOnly
      <4> QED BY <4>1, <4>4, <4>7 DEF E, f
    <3>3. Spoilt(c, b) <=> c[b].bare /\ b - 1 = First(C)
      <4>1. b - 1 = First(C) => b > 1
        BY <2>2, <3>2
      <4> QED BY <1>8, <2>1, <3>2, <4>1, Zenon
    <3>4. Found(c) = IF Spoilt(c, b) THEN Nothing ELSE c[b].tok
      <4>1. First(C) = b - 1 <=> b - 1 = First(C)
        OBVIOUS
      <4> QED BY <1>6, <2>9, <3>3, <4>1, Zenon
    <3>5. CASE Spoilt(c, b)
      <4>1. x = Garbled /\ Found(c) = Nothing
        BY <3>4, <3>5, Zenon
      <4> HIDE DEF x
      <4> QED BY <2>7, <3>1, <4>1, CategorisedKnown, Zenon
    <3>6. CASE ~Spoilt(c, b)
      <4>1. x = c[b].tok /\ Found(c) = c[b].tok
        BY <2>9, <3>4, <3>6, Zenon
      <4> HIDE DEF x
      <4> QED BY <2>7, <3>1, <4>1, Zenon
    <3> QED BY <3>5, <3>6
  <2> QED BY <2>8, <2>9
<1> QED BY <1>11, <1>12

LEMMA CacheRead ==
  ASSUME NEW c \in Seq(Piece), NEW l \in Seq(Piece), NEW n \in Nat, Orderly(c, l, n)
  PROVE  /\ Cached(c) = FromCache(Cache(c, HeldIn(c, l)))
         /\ CachedHit(c) <=> CacheHit(Cache(c, HeldIn(c, l)))
<1> DEFINE s == Cache(c, HeldIn(c, l))
           o == IF HasBraces(c) /\ TypeOf(Found(c).kind) > 0 THEN Found(c) ELSE Nothing
           p == IF TypeOf(Digest(s).obj.kind) > 0 THEN Digest(s).obj ELSE Nothing
<1>1. Cached(c) = [obj |-> o, heart |-> HasHeart(c)]
  BY Zenon DEF Cached
<1>2. FromCache(s) = [obj |-> p, heart |-> Digest(s).heart]
  BY FromCacheIs
<1>3. HasHeart(c) = Digest(s).heart
  BY CachedHeart
<1>4. (IF HasBraces(c) THEN Categorised(Found(c)) ELSE Nothing) = Categorised(Digest(s).obj)
  BY CachedObject
<1>5. o = (IF HasBraces(c) THEN Categorised(Found(c)) ELSE Nothing) /\ p = Categorised(Digest(s).obj)
  BY Zenon DEF Categorised
<1>6. o = p
  BY <1>4, <1>5, Zenon
<1> HIDE DEF o, p, s
<1>7. Cached(c) = FromCache(s)
  BY <1>1, <1>2, <1>3, <1>6, Zenon
<1>8. CachedHit(c) <=> CacheHit(s)
  BY <1>7, Zenon DEF CachedHit, CacheHit
<1> QED BY <1>7, <1>8 DEF s
-----------------------------------------------------------------------------
(* The invariant: the pieces are in order, the cache is empty while a call *)
(* reads, and so is the text while none does.                              *)
PieceInv ==
  /\ Orderly(cached, line, sent)
  /\ link => \A i \in 1..Len(line) : line[i].id > 0
  /\ pc # "idle" => cached = <<>>
  /\ pc \in {"idle", "first"} => text = <<>>
  /\ Readable(text)

LEMMA ReadableEmpty == Readable(<<>>)
BY DEF Readable

\* What is read of the input is readable, alone or behind a readable text.
LEMMA ReadableMore ==
  ASSUME TypeOK, PieceInv, NEW s, Takes(s),
         NEW t \in Seq(Piece), Readable(t)
  PROVE  Readable(t \o s)
<1>1. PICK n \in 1..Len(line) :
           /\ SubSeq(line, 1, n) \in Seq(Piece) /\ Len(SubSeq(line, 1, n)) = n
           /\ \A i \in 1..n : SubSeq(line, 1, n)[i] = line[i]
           /\ line' = SubSeq(line, n + 1, Len(line)) /\ line' \in Seq(Piece)
           /\ Len(line') = Len(line) - n /\ \A i \in 1..Len(line') : line'[i] = line[i + n]
           /\ line = SubSeq(line, 1, n) \o line'
           /\ \/ s = SubSeq(line, 1, n)
              \/ \E k \in {1, 2} : s = Append(SubSeq(line, 1, n), Stray(k))
           /\ s \in Seq(Piece) /\ calm' \in BOOLEAN
  BY Reading DEF TypeOK
<1>2. \A i \in 1..n : line[i].id > 0 \/ line[i].k = 0
  <2>1. line \in Seq(Piece) /\ cached \in Seq(Piece) /\ sent \in Nat
    BY RecConstantsOK DEF TypeOK
  <2>2. \A i \in 1..Len(line) : SentPiece(line[i], sent)
    BY <2>1, OrderlyPieces DEF PieceInv
  <2>3. \A i \in 1..n : i \in 1..Len(line)
    OBVIOUS
  <2> QED BY <2>2, <2>3, ClosedParts DEF SentPiece
<1> DEFINE c == SubSeq(line, 1, n)
<1>3. c \in Seq(Piece) /\ Len(c) = n /\ \A i \in 1..n : c[i] = line[i]
  BY <1>1
<1>4. s = c \/ \E k \in {1, 2} : s = Append(c, Stray(k))
  BY <1>1
<1> HIDE DEF c
<1>5. /\ s \in Seq(Piece) /\ Len(s) >= n /\ n \in Nat /\ n >= 1 /\ Len(s) \in Nat
      /\ \A i \in 1..n : s[i].id > 0 \/ s[i].k = 0
      /\ \A i \in 1..Len(s) : i > n => i = Len(s) /\ \E k \in {1, 2} : s[i] = Stray(k)
  <2>1. CASE s = c
    BY <1>2, <1>3, <2>1
  <2>2. CASE \E k \in {1, 2} : s = Append(c, Stray(k))
    <3>1. PICK k \in {1, 2} : s = Append(c, Stray(k))
      BY <2>2
    <3>2. Stray(k) \in Piece
      BY KnownTokens
    <3> DEFINE p == Stray(k)
    <3> HIDE DEF p
    <3>3. /\ s \in Seq(Piece) /\ Len(s) = n + 1 /\ s[n + 1] = p
          /\ \A i \in 1..n : s[i] = line[i]
      BY <1>3, <3>1, <3>2, AppendProperties DEF p
    <3>4. \A i \in 1..Len(s) : i > n => i = n + 1
      BY <3>3
    <3> QED BY <1>2, <3>3, <3>4 DEF p
  <2> QED BY <1>4, <2>1, <2>2
<1> DEFINE u == t \o s
<1>6. /\ Len(u) = Len(t) + Len(s) /\ Len(t) \in Nat
      /\ \A i \in 1..Len(u) : u[i] = IF i <= Len(t) THEN t[i] ELSE s[i - Len(t)]
  BY <1>5, ConcatProperties
<1> HIDE DEF u
<1> SUFFICES ASSUME NEW i \in 1..Len(u), u[i].k = 1, u[i].id = 0
             PROVE  u[i] = Stray(1) /\ (i = Len(u) \/ u[i + 1].id > 0 \/ u[i + 1].k # 2)
  BY DEF Readable, u
<1>7. CASE i <= Len(t)
  <2>1. i \in 1..Len(t) /\ u[i] = t[i]
    BY <1>6, <1>7
  <2>2. t[i] = Stray(1) /\ (i = Len(t) \/ t[i + 1].id > 0 \/ t[i + 1].k # 2)
    BY <2>1 DEF Readable
  <2>3. CASE i = Len(t)
    <3>1. i + 1 \in 1..Len(u) /\ ~(i + 1 <= Len(t)) /\ (i + 1) - Len(t) = 1
      BY <1>5, <1>6, <2>3
    <3>2. u[i + 1] = s[1] /\ 1 \in 1..n
      BY <1>5, <1>6, <3>1
    <3> QED BY <1>5, <2>1, <2>2, <3>2
  <2>4. CASE i # Len(t)
    <3>1. i + 1 \in 1..Len(u) /\ i + 1 <= Len(t)
      BY <1>5, <1>6, <2>1, <2>4
    <3>2. u[i + 1] = t[i + 1]
      BY <1>6, <3>1
    <3> QED BY <2>1, <2>2, <2>4, <3>2
  <2> QED BY <2>3, <2>4
<1>8. CASE ~(i <= Len(t))
  <2> DEFINE j == i - Len(t)
  <2>1. j \in 1..Len(s) /\ u[i] = s[j]
    BY <1>5, <1>6, <1>8
  <2>2. i = Len(u) <=> j = Len(s)
    BY <1>5, <1>6
  <2> HIDE DEF j
  <2>3. j > n
    <3>1. j \in 1..n => FALSE
      BY <1>5, <2>1
    <3> QED BY <1>5, <2>1, <3>1
  <2>4. j = Len(s) /\ \E k \in {1, 2} : s[j] = Stray(k)
    BY <1>5, <2>1, <2>3
  <2>5. s[j] = Stray(1)
    BY <2>1, <2>4 DEF Stray
  <2> QED BY <2>1, <2>2, <2>4, <2>5
<1> QED BY <1>7, <1>8

LEMMA ReadableRead ==
  ASSUME TypeOK, PieceInv, NEW s, Takes(s)
  PROVE  Readable(s)
<1>1. <<>> \in Seq(Piece) /\ Readable(<<>>)
  BY ReadableEmpty
<1>2. Readable(<<>> \o s)
  BY <1>1, ReadableMore
<1>3. s \in Seq(Piece)
  BY Reading DEF TypeOK
<1>4. <<>> \o s = s
  BY <1>3, ConcatEmptySeq
<1> QED BY <1>2, <1>4

LEMMA PieceInit == Init => PieceInv
<1> SUFFICES ASSUME Init PROVE PieceInv
  OBVIOUS
<1>1. line = <<>> /\ cached = <<>> /\ text = <<>> /\ pc = "idle"
  BY DEF Init
<1>2. Orderly(<<>>, <<>>, sent)
  <2>1. Came(<<>>, <<>>) = {}
    BY DEF Came
  <2>2. AllSent(<<>>, <<>>, sent) /\ AllAlike(<<>>, <<>>)
    BY <2>1 DEF AllSent, AllAlike
  <2>3. InTurn(<<>>, <<>>) /\ Unbroken(<<>>) /\ ClosedLast(<<>>)
    BY DEF InTurn, Unbroken, ClosedLast
  <2> QED BY <2>2, <2>3 DEF Orderly
<1>3. Orderly(cached, line, sent) /\ Readable(text)
  BY <1>1, <1>2, ReadableEmpty
<1> QED BY <1>1, <1>3 DEF PieceInv

\* A step that takes m pieces off the input.
LEMMA PieceTaken ==
  ASSUME TypeOK, TypeOK', PieceInv, UNCHANGED <<sent, link>>, NEW m,
         RestOf(line, m, line'), KeptOf(cached, line, m, cached'),
         pc' # "idle" => cached' = <<>>, pc' \in {"idle", "first"} => text' = <<>>,
         Readable(text')
  PROVE  PieceInv'
<1>1. /\ cached \in Seq(Piece) /\ line \in Seq(Piece) /\ cached' \in Seq(Piece)
      /\ line' \in Seq(Piece) /\ sent \in Nat /\ sent' = sent /\ link' = link
  BY RecConstantsOK DEF TypeOK
<1>2. Orderly(cached, line, sent)
  BY DEF PieceInv
<1>3. Orderly(cached', line', sent)
  BY <1>1, <1>2, OrderlyRest
<1>4. link' => \A i \in 1..Len(line') : line'[i].id > 0
  <2>1. \A i \in 1..Len(line') : i + m \in 1..Len(line) /\ line'[i] = line[i + m]
    BY <1>1 DEF RestOf
  <2>2. link => \A i \in 1..Len(line) : line[i].id > 0
    BY DEF PieceInv
  <2> QED BY <1>1, <2>1, <2>2
<1> QED BY <1>1, <1>3, <1>4 DEF PieceInv

LEMMA PieceUntaken ==
  ASSUME TypeOK, TypeOK', PieceInv, UNCHANGED <<sent, link, line>>,
         cached' \in {cached, <<>>},
         pc' # "idle" => cached' = <<>>, pc' \in {"idle", "first"} => text' = <<>>,
         Readable(text')
  PROVE  PieceInv'
<1>1. RestOf(line, 0, line')
  BY DEF TypeOK, RestOf
<1>2. KeptOf(cached, line, 0, cached')
  <2>1. CASE cached' = cached
    BY <2>1 DEF KeptOf
  <2>2. CASE cached' = <<>>
    BY <2>2 DEF KeptOf
  <2> QED BY <2>1, <2>2
<1> QED BY <1>1, <1>2, PieceTaken

LEMMA PieceRead ==
  ASSUME TypeOK, TypeOK', PieceInv, UNCHANGED <<sent, link, cached>>, NEW s, Takes(s),
         pc # "idle", pc' \in {"idle", "first"} => text' = <<>>, Readable(text')
  PROVE  PieceInv'
<1>1. PICK n \in 1..Len(line) :
        Len(line') = Len(line) - n /\ \A i \in 1..Len(line') : line'[i] = line[i + n]
  BY Reading DEF TypeOK
<1>2. cached' = <<>>
  BY DEF PieceInv
<1>3. n \in 0..Len(line)
  OBVIOUS
<1>4. RestOf(line, n, line')
  BY <1>1, <1>3, Zenon DEF RestOf
<1>5. KeptOf(cached, line, n, cached')
  BY <1>2 DEF KeptOf
<1> QED BY <1>2, <1>4, <1>5, PieceTaken

LEMMA PieceCall == ASSUME TypeOK, TypeOK', PieceInv, Call PROVE PieceInv'
<1>1. UNCHANGED <<line, sent, link>> /\ cached' = <<>> /\ pc = "idle"
  BY DEF Call
<1>2. text' = <<>>
  <2>1. text = <<>>
    BY <1>1 DEF PieceInv
  <2> QED BY <2>1 DEF Call, Return
<1> QED BY <1>1, <1>2, ReadableEmpty, PieceUntaken

LEMMA PieceFirst == ASSUME TypeOK, TypeOK', PieceInv, FirstRead PROVE PieceInv'
<1>1. UNCHANGED <<cached, sent, link>> /\ pc # "idle" /\ cached = <<>>
  BY DEF FirstRead, PieceInv
<1>2. CASE TimesOut /\ Return(FALSE, NoReply) /\ UNCHANGED line
  <2>1. text' = <<>>
    BY <1>2 DEF Return
  <2> QED BY <1>1, <1>2, <2>1, ReadableEmpty, PieceUntaken
<1>3. ASSUME NEW s, Takes(s), text' = <<>> \/ (text' = s /\ pc' = "more")
      PROVE  PieceInv'
  <2>1. Readable(text')
    BY <1>3, ReadableEmpty, ReadableRead
  <2>2. pc' \in {"idle", "first"} => text' = <<>>
    BY <1>3
  <2> QED BY <1>1, <1>3, <2>1, <2>2, PieceRead
<1> QED BY <1>2, <1>3 DEF FirstRead, Return

LEMMA PieceMore == ASSUME TypeOK, TypeOK', PieceInv, MoreReads PROVE PieceInv'
<1>1. UNCHANGED <<cached, sent, link>> /\ pc # "idle" /\ cached = <<>> /\ pc' \notin {"idle", "first"}
  BY DEF MoreReads, PieceInv
<1>2. text \in Seq(Piece) /\ Readable(text)
  BY DEF TypeOK, PieceInv
<1>3. CASE UNCHANGED <<line, text>>
  <2>1. Readable(text') /\ UNCHANGED line
    BY <1>2, <1>3
  <2> QED BY <1>1, <2>1, PieceUntaken
<1>4. ASSUME NEW s, Takes(s), text' = text \o s PROVE PieceInv'
  <2>1. Readable(text \o s)
    BY <1>2, <1>4, ReadableMore
  <2> QED BY <1>1, <1>4, <2>1, PieceRead
<1> QED BY <1>3, <1>4 DEF MoreReads

LEMMA PieceFinish == ASSUME TypeOK, TypeOK', PieceInv, Finish PROVE PieceInv'
<1>1. UNCHANGED <<line, cached, sent, link>> /\ text' = <<>> /\ pc' = "idle"
  BY DEF Finish, Return
<1> QED BY <1>1, ReadableEmpty, PieceUntaken

LEMMA PieceDialogue == ASSUME TypeOK, TypeOK', PieceInv, Dialogue PROVE PieceInv'
<1>1. /\ UNCHANGED <<pc, text, sent, link>> /\ line # <<>> /\ pc = "idle"
      /\ line' = Tail(line) /\ cached' \in {cached, Append(cached, Head(line))}
      /\ line \in Seq(Piece) /\ cached \in Seq(Piece)
  BY DEF Dialogue, TypeOK
<1>2. RestOf(line, 1, line') /\ Head(line) = line[1] /\ Head(line) \in Piece
  BY <1>1 DEF RestOf
<1>3. KeptOf(cached, line, 1, cached')
  <2>1. CASE cached' = cached
    BY <2>1 DEF KeptOf
  <2>2. CASE cached' = Append(cached, Head(line))
    <3>1. /\ Len(cached') = Len(cached) + 1 /\ cached'[Len(cached) + 1] = line[1]
          /\ \A j \in 1..Len(cached) : cached'[j] = cached[j]
      BY <1>1, <1>2, <2>2, AppendProperties
    <3>2. \A i \in 1..Len(cached') : i \in 1..Len(cached) \/ i = Len(cached) + 1
      BY <1>1, <3>1
    <3> QED BY <3>1, <3>2 DEF KeptOf
  <2> QED BY <1>1, <2>1, <2>2
<1>4. pc' = "idle" /\ text' = <<>> /\ Readable(text')
  BY <1>1, ReadableEmpty DEF PieceInv
<1> QED BY <1>1, <1>2, <1>3, <1>4, PieceTaken

LEMMA PieceSends == ASSUME TypeOK, TypeOK', PieceInv, ServerSends PROVE PieceInv'
<1>1. link /\ sent' = sent + 1 /\ UNCHANGED <<cached, pc, text, link>>
  BY DEF ServerSends
<1>2. PICK kind \in SentKinds, n \in 1..MaxPieces, bare \in BOOLEAN :
        line' = line \o Cut(kind, n, bare, sent + 1)
  BY <1>1 DEF ServerSends, Cut
<1>3. /\ cached \in Seq(Piece) /\ line \in Seq(Piece) /\ line' \in Seq(Piece) /\ sent \in Nat
      /\ Orderly(cached, line, sent) /\ \A i \in 1..Len(line) : line[i].id > 0
  BY <1>1, RecConstantsOK DEF TypeOK, PieceInv
<1>4. Orderly(cached, line', sent + 1) /\ \A i \in 1..Len(line') : line'[i].id > 0
  BY <1>2, <1>3, OrderlySent
<1> QED BY <1>1, <1>4 DEF PieceInv

LEMMA PieceDrops == ASSUME TypeOK, TypeOK', PieceInv, LinkDrops PROVE PieceInv'
<1>1. link /\ ~link' /\ UNCHANGED <<cached, pc, text, sent>> /\ line' = Append(line, Closed)
  BY DEF LinkDrops
<1>2. /\ cached \in Seq(Piece) /\ line \in Seq(Piece) /\ sent \in Nat
      /\ Orderly(cached, line, sent) /\ \A i \in 1..Len(line) : line[i].id > 0
  BY <1>1, RecConstantsOK DEF TypeOK, PieceInv
<1>3. Orderly(cached, line', sent)
  BY <1>1, <1>2, OrderlyClosed
<1> QED BY <1>1, <1>3 DEF PieceInv

LEMMA PieceStep == ASSUME TypeOK, TypeOK', PieceInv, [Next]_vars PROVE PieceInv'
<1>1. CASE RecTcpData
  BY <1>1, PieceCall, PieceFirst, PieceMore, PieceFinish DEF RecTcpData
<1>2. CASE UNCHANGED vars
  BY <1>2 DEF vars, PieceInv
<1> QED BY <1>1, <1>2, PieceDialogue, PieceSends, PieceDrops DEF Next

\* The cache keeps the order in which its pieces were sent.
CachedInTurn == \A i, j \in 1..Len(cached) : i < j => Before(cached[i], cached[j])

LEMMA CachedStep ==
  ASSUME TypeOK, PieceInv, CachedInTurn, [Next]_vars
  PROVE  CachedInTurn'
<1>1. CASE UNCHANGED cached
  BY <1>1 DEF CachedInTurn
<1>2. CASE cached' = <<>>
  BY <1>2 DEF CachedInTurn
<1>3. CASE cached' = Append(cached, Head(line)) /\ line # <<>>
  <2> DEFINE m == Len(cached)
  <2>1. cached \in Seq(Piece) /\ line \in Seq(Piece) /\ m \in Nat
    BY DEF TypeOK
  <2>2. Head(line) = line[1] /\ Head(line) \in Piece /\ 1 \in 1..Len(line)
    BY <1>3, <2>1
  <2>3. /\ Len(cached') = m + 1 /\ cached'[m + 1] = line[1]
        /\ \A k \in 1..m : cached'[k] = cached[k]
    BY <1>3, <2>1, <2>2, AppendProperties
  <2>4. \A k \in 1..m : Before(cached[k], line[1])
    BY <2>2 DEF PieceInv, Orderly, InTurn
  <2>5. ASSUME NEW i \in 1..Len(cached'), NEW j \in 1..Len(cached'), i < j
        PROVE  Before(cached'[i], cached'[j])
    <3>1. i \in 1..m /\ (j \in 1..m \/ j = m + 1)
      BY <2>1, <2>3, <2>5
    <3>2. CASE j \in 1..m
      <4>1. Before(cached[i], cached[j])
        BY <2>5, <3>1, <3>2 DEF CachedInTurn
      <4> QED BY <2>3, <3>1, <3>2, <4>1, Zenon
    <3>3. CASE j = m + 1
      BY <2>3, <2>4, <3>1, <3>3, Zenon
    <3> QED BY <3>1, <3>2, <3>3
  <2> QED BY <2>5 DEF CachedInTurn
<1>4. UNCHANGED cached \/ cached' = <<>> \/ (cached' = Append(cached, Head(line)) /\ line # <<>>)
  BY DEF Next, RecTcpData, Call, FirstRead, MoreReads, Finish, Dialogue, ServerSends,
         LinkDrops, vars
<1> QED BY <1>1, <1>2, <1>3, <1>4

\* On the serial input and in gprs_cache the pieces stay in the order in which
\* they were sent, whatever calls and dialogues read of them and keep; on the
\* input no message that began lacks its end.
THEOREM PiecesInOrder == Spec => [](PieceInv /\ CachedInTurn)
<1>1. TypeOK /\ TypeOK' /\ PieceInv /\ [Next]_vars => PieceInv'
  BY PieceStep
<1>2. TypeOK /\ PieceInv /\ CachedInTurn /\ [Next]_vars => CachedInTurn'
  BY CachedStep
<1>3. Init => CachedInTurn
  BY DEF Init, CachedInTurn
<1> QED BY PieceInit, <1>1, <1>2, <1>3, ReceiveTypes, PTL DEF Spec
-----------------------------------------------------------------------------
(* The wire as whole messages.                                             *)
Ahead(H, l)   == [i \in 1..Cardinality(H) |-> Head(l).tok]
Wire(t, H, l) == Begun(t) \o Ahead(H, l) \o Begun(l)

LEMMA WireNone ==
  ASSUME NEW t \in Seq(Piece), NEW l \in Seq(Piece)
  PROVE  /\ Wire(t, {}, l) = Begun(t) \o Begun(l)
         /\ Wire(<<>>, {}, l) = Begun(l)
<1>1. Ahead({}, l) = <<>>
  <2>1. Cardinality({}) = 0
    BY FS_EmptySet
  <2> DEFINE x == Head(l).tok
  <2> HIDE DEF x
  <2>2. [i \in 1..0 |-> x] = <<>>
    OBVIOUS
  <2> QED BY <2>1, <2>2 DEF Ahead, x
<1>2. Begun(t) \in Seq(Token) /\ Begun(l) \in Seq(Token) /\ Begun(<<>>) = <<>>
  BY BegunEmpty, BegunConcat, BeginningsType
<1>3. Begun(t) \o <<>> = Begun(t) /\ <<>> \o Begun(l) = Begun(l) /\ <<>> \o <<>> = <<>>
  BY <1>2, ConcatEmptySeq
<1> QED BY <1>1, <1>2, <1>3, Zenon DEF Wire

LEMMA WireOne ==
  ASSUME NEW l \in Seq(Piece), l # <<>>, NEW i
  PROVE  Wire(<<>>, {i}, l) = <<l[1].tok>> \o Begun(l)
<1>1. Ahead({i}, l) = <<l[1].tok>>
  <2>1. Cardinality({i}) = 1
    BY FS_Singleton
  <2>2. Head(l) = l[1]
    OBVIOUS
  <2> DEFINE x == l[1].tok
  <2> HIDE DEF x
  <2>3. [j \in 1..1 |-> x] = <<x>>
    OBVIOUS
  <2>4. Ahead({i}, l) = [j \in 1..1 |-> x]
    BY <2>1, <2>2, Zenon DEF Ahead, x
  <2> QED BY <2>3, <2>4 DEF x
<1> DEFINE y == <<l[1].tok>>
<1>2. y \in Seq(Token)
  <2>1. l[1] \in Piece
    OBVIOUS
  <2>2. l[1].tok \in Token
    BY <2>1, PieceNumbers
  <2> QED BY <2>2
<1>3. Begun(<<>>) = <<>>
  BY BegunEmpty
<1> HIDE DEF y
<1>4. <<>> \o y = y
  BY <1>2, ConcatEmptySeq
<1> QED BY <1>1, <1>3, <1>4, Zenon DEF Wire, y

LEMMA BegunBehind ==
  ASSUME NEW l \in Seq(Piece), NEW l2, Behind(l, l2)
  PROVE  l2 \in Seq(Piece) /\ Begun(l) = Beginning(l[1]) \o Begun(l2) /\ l[1] \in Piece
<1>1. /\ l2 \in Seq(Piece) /\ l[1] \in Piece /\ l # <<>> /\ Len(l) \in Nat /\ Len(l2) = Len(l) - 1
      /\ \A i \in 1..Len(l2) : l2[i] = l[i + 1]
  BY DEF Behind
<1> DEFINE p == l[1]
           s == <<p>>
<1> HIDE DEF p
<1>2. s \in Seq(Piece) /\ Len(s) = 1 /\ s[1] = p
  BY <1>1 DEF p
<1>3. l = s \o l2
  <2> HIDE DEF s
  <2>1. Len(l) = Len(s) + Len(l2)
    BY <1>1, <1>2
  <2>2. \A i \in 1..Len(l) : l[i] = IF i <= Len(s) THEN s[i] ELSE l2[i - Len(s)]
    BY <1>1, <1>2 DEF p
  <2> QED BY <1>1, <1>2, <2>1, <2>2, IsConcat
<1>4. Begun(s \o l2) = Begun(s) \o Begun(l2)
  <2> HIDE DEF s
  <2> QED BY <1>1, <1>2, BegunConcat
<1>5. Begun(<<p>>) = Beginning(p)
  BY <1>1, BegunOne DEF p
<1> QED BY <1>1, <1>3, <1>4, <1>5, Zenon DEF p

\* The pieces of a message begin one message.
LEMMA BegunCut ==
  ASSUME NEW kind \in SentKinds, NEW n \in 1..MaxPieces, NEW bare \in BOOLEAN, NEW m \in Nat \ {0}
  PROVE  Begun(Cut(kind, n, bare, m)) = <<[kind |-> kind, of |-> IF kind = "Open" THEN m ELSE 0]>>
<1> DEFINE s == Cut(kind, n, bare, m)
           tok == [kind |-> kind, of |-> IF kind = "Open" THEN m ELSE 0]
           b == Beginnings(s)
<1>1. s \in Seq(Piece) /\ Len(s) = n /\ n \in Nat /\ n >= 1
  BY CutType, RecConstantsOK
<1>2. \A i \in 1..n : s[i].id = m /\ s[i].k = i /\ s[i].tok = tok
  <2>1. \A i \in 1..n : CutPart(s[i], kind, n, bare, m, i)
    BY CutParts
  <2> QED BY <2>1, Zenon DEF CutPart
<1> HIDE DEF s, tok
<1>3. /\ b \in Seq(Seq(Token)) /\ Len(b) = n /\ Begun(s) = FlattenSeq(b)
      /\ \A i \in 1..n : b[i] = Beginning(s[i])
  BY <1>1, BeginningsType
<1> HIDE DEF b
<1>4. b[1] = <<tok>>
  BY <1>1, <1>2, <1>3 DEF Beginning, Begins
<1>5. \A i \in 2..n : b[i] = <<>>
  BY <1>1, <1>2, <1>3 DEF Beginning, Begins
<1>6. 1 \in 1..Len(b)
  BY <1>1, <1>3
<1>7. PICK a, d \in Seq(Seq(Token)) :
         /\ Parted(b, 1, a, d)
         /\ FlattenSeq(b) = (FlattenSeq(a) \o b[1]) \o FlattenSeq(d)
         /\ FlattenSeq(a) \in Seq(Token) /\ FlattenSeq(d) \in Seq(Token)
  BY <1>3, <1>6, FlattenThree, Zenon
<1>8. /\ Len(a) = 1 - 1
      /\ Len(d) = Len(b) - 1 /\ \A j \in 1..Len(d) : d[j] = b[1 + j]
  BY <1>7, Zenon DEF Parted
<1>9. a = <<>> /\ \A j \in 1..Len(d) : d[j] = <<>>
  <2>1. Len(a) = 0
    BY <1>8
  <2>2. a = <<>>
    BY <2>1
  <2>3. \A j \in 1..Len(d) : 1 + j \in 2..n
    BY <1>1, <1>3, <1>8
  <2> QED BY <1>5, <1>8, <2>2, <2>3, Zenon
<1>10. FlattenSeq(a) = <<>> /\ FlattenSeq(d) = <<>>
  BY <1>9, FlattenEmpty, FlattenNothing
<1>11. b[1] \in Seq(Token)
  BY <1>3, <1>6
<1>12. (<<>> \o b[1]) \o <<>> = b[1]
  BY <1>11, ConcatEmptySeq
<1> QED BY <1>3, <1>4, <1>7, <1>10, <1>12, Zenon DEF s, tok

\* What is put behind the input does not change what is held, unless it goes
\* on with a message.
LEMMA HeldMore ==
  ASSUME NEW c \in Seq(Piece), NEW l \in Seq(Piece), NEW t \in Seq(Piece), t # <<>>,
         t[1].k \in {0, 1}
  PROVE  /\ HeldIn(c, l \o t) = HeldIn(c, l)
         /\ Ahead(HeldIn(c, l \o t), l \o t) = Ahead(HeldIn(c, l), l)
<1> DEFINE u == l \o t
<1>1. u \in Seq(Piece) /\ u # <<>> /\ (l # <<>> => u[1] = l[1]) /\ (l = <<>> => u[1] = t[1])
  OBVIOUS
<1>2. HeldIn(c, u) = HeldIn(c, l)
  <2> HIDE DEF u
  <2>1. \A i \in 1..Len(c) : t[1].k # Len(c) - i + 2
    OBVIOUS
  <2>2. CASE l = <<>>
    <3>1. \A i \in 1..Len(c) : u[1].k # Len(c) - i + 2
      BY <1>1, <2>1, <2>2
    <3> QED BY <2>2, <3>1, Zenon DEF HeldIn
  <2>3. CASE l # <<>>
    BY <1>1, <2>3, Zenon DEF HeldIn
  <2> QED BY <2>2, <2>3
<1>3. Ahead(HeldIn(c, u), u) = Ahead(HeldIn(c, l), l)
  <2>1. CASE l = <<>>
    <3>1. HeldIn(c, l) = {}
      BY <2>1 DEF HeldIn
    <3>2. Cardinality({}) = 0
      BY FS_EmptySet
    <3>3. \A x : [i \in 1..0 |-> x] = <<>>
      OBVIOUS
    <3> HIDE DEF u
    <3>4. \A v : Ahead({}, v) = <<>>
      BY <3>2, <3>3, Zenon DEF Ahead
    <3> QED BY <1>2, <3>1, <3>4, Zenon
  <2>2. CASE l # <<>>
    <3>1. Head(u) = u[1] /\ Head(l) = l[1]
      BY <1>1, <2>2
    <3> HIDE DEF u
    <3> QED BY <1>1, <1>2, <2>2, <3>1, Zenon DEF Ahead
  <2> QED BY <2>1, <2>2
<1> QED BY <1>2, <1>3
-----------------------------------------------------------------------------
(* Each step, told in whole messages.                                      *)
AbsWire  == Wire(text, HeldIn(cached, line), line)
AbsCache == Cache(cached, HeldIn(cached, line))

LEMMA AbsTypes ==
  ASSUME TypeOK
  PROVE  /\ line \in Seq(Piece) /\ cached \in Seq(Piece) /\ text \in Seq(Piece)
         /\ Begun(text) \in Seq(Token) /\ Begun(line) \in Seq(Token)
         /\ sent \in Nat /\ MaxSent \in Nat
BY BeginningsType, RecConstantsOK DEF TypeOK

LEMMA NoneHeld == ASSUME NEW l PROVE HeldIn(<<>>, l) = {} /\ Cache(<<>>, {}) = <<>>
<1>1. HeldIn(<<>>, l) = {}
  BY DEF HeldIn
<1>2. Shares(<<>>, {}) = <<>>
  BY DEF Shares
<1> QED BY <1>1, <1>2, FlattenEmpty, Zenon DEF Cache

\* With nothing in the cache the wire is what begins in the text and the input.
LEMMA WireReading ==
  ASSUME NEW t \in Seq(Piece), NEW l \in Seq(Piece)
  PROVE  /\ Wire(t, HeldIn(<<>>, l), l) = Begun(t) \o Begun(l)
         /\ Wire(<<>>, HeldIn(<<>>, l), l) = Begun(l)
         /\ Cache(<<>>, HeldIn(<<>>, l)) = <<>>
BY NoneHeld, WireNone, Zenon

\* A call that returns after what it read, x, with y still to be read.
Answered(w, w2, ok, r) ==
  \E n \in 0..Len(w) :
    Chunk(w, n, ok, r) /\ w2 = SubSeq(w, n + 1, Len(w)) /\ r \in Results(<<>>, w)

LEMMA NoReplyAnswers == ASSUME NEW x PROVE NoReply \in Answers(x)
<1> DEFINE A == {Nothing, Digest(x).obj}
           B == {FALSE, Digest(x).heart}
<1>1. Answers(x) = [obj : A, heart : B] /\ Nothing \in A /\ FALSE \in B
  BY Zenon DEF Answers
<1> HIDE DEF A, B
<1> QED BY <1>1 DEF NoReply

LEMMA AnswersAre ==
  ASSUME NEW x \in Seq(Token), NEW r \in Answers(x)
  PROVE  /\ r = [obj |-> r.obj, heart |-> r.heart] /\ r.heart \in BOOLEAN
         /\ r.obj = Nothing \/ \E i \in 1..Len(x) : r.obj = x[i]
<1> DEFINE A == {Nothing, Digest(x).obj}
           B == {FALSE, Digest(x).heart}
<1>1. r \in [obj : A, heart : B]
  BY Zenon DEF Answers
<1>2. \A h \in B : h \in BOOLEAN
  BY DigestHeart, Zenon
<1>3. \A o \in A : o = Nothing \/ \E i \in 1..Len(x) : o = x[i]
  BY DigestFrom, Zenon
<1> HIDE DEF A, B
<1>4. r = [obj |-> r.obj, heart |-> r.heart] /\ r.obj \in A /\ r.heart \in B
  BY <1>1
<1> QED BY <1>2, <1>3, <1>4

LEMMA AnswerGiven ==
  ASSUME NEW x \in Seq(Token), NEW y \in Seq(Token), NEW ok \in BOOLEAN, NEW r,
         r \in Answers(x), ok \/ r = NoReply, NEW w, w = x \o y
  PROVE  Answered(w, y, ok, r)
<1>1. /\ w \in Seq(Token) /\ Len(x) \in 0..Len(w) /\ Len(w) = Len(x) + Len(y)
      /\ \A i \in 1..Len(x) : w[i] = x[i] /\ i \in 1..Len(w)
      /\ \A i \in 1..Len(y) : w[Len(x) + i] = y[i]
  OBVIOUS
<1> DEFINE n == Len(x)
<1>2. SubSeq(w, 1, n) = x
  <2> DEFINE v == SubSeq(w, 1, n)
  <2>1. 1 \in Int /\ n \in Int /\ \A i \in 1..n : w[i] \in Token
    BY <1>1
  <2>2. v \in Seq(Token) /\ Len(v) = n /\ \A i \in 1..n : v[i] = w[i]
    BY <1>1, <2>1, SubSeqProperties
  <2> HIDE DEF v
  <2>3. v \in Seq(Token) /\ Len(v) = Len(x) /\ \A i \in 1..Len(v) : v[i] = x[i]
    BY <1>1, <2>2
  <2> QED BY <2>3, SeqEqual DEF v
<1>3. y = SubSeq(w, n + 1, Len(w))
  <2> DEFINE v == SubSeq(w, n + 1, Len(w))
  <2>1. n + 1 \in Int /\ Len(w) \in Int /\ \A i \in (n + 1)..Len(w) : w[i] \in Token
    BY <1>1
  <2>2. /\ v \in Seq(Token) /\ Len(v) = Len(w) - n
        /\ \A i \in 1..(Len(w) - n) : v[i] = w[n + i]
    BY <1>1, <2>1, SubSeqProperties
  <2> HIDE DEF v
  <2>3. v \in Seq(Token) /\ Len(v) = Len(y) /\ \A i \in 1..Len(v) : v[i] = y[i]
    BY <1>1, <2>2
  <2> QED BY <2>3, SeqEqual DEF v
<1>4. Chunk(w, n, ok, r)
  BY <1>2, Zenon DEF Chunk
<1>5. r \in Results(<<>>, w)
  <2> DEFINE A == {Nothing, FromCache(<<>>).obj} \cup {w[i] : i \in 1..Len(w)}
  <2>1. Results(<<>>, w) = [obj : A, heart : BOOLEAN]
    BY Zenon DEF Results
  <2>2. r.obj = Nothing \/ \E i \in 1..Len(x) : r.obj = x[i]
    BY AnswersAre
  <2>3. r.obj \in A
    BY <1>1, <2>2
  <2>4. r = [obj |-> r.obj, heart |-> r.heart] /\ r.heart \in BOOLEAN
    BY AnswersAre
  <2> HIDE DEF A
  <2> QED BY <2>1, <2>3, <2>4
<1> QED BY <1>1, <1>3, <1>4, <1>5, Zenon DEF Answered

\* Call: Ask.
Asked(w, k, w2, k2) ==
  /\ k2 = <<>> /\ w2 \in Skips(w)
  /\ IF CacheHit(k)
     THEN got' = [ok |-> TRUE, r |-> FromCache(k)] /\ pc' = "idle"
     ELSE pc' # "idle" /\ UNCHANGED got

LEMMA CallAsks ==
  ASSUME TypeOK, PieceInv, Call
  PROVE  pc = "idle" /\ Asked(AbsWire, AbsCache, AbsWire', AbsCache')
<1>1. pc = "idle" /\ text = <<>> /\ cached' = <<>> /\ line' = line
  BY DEF Call, PieceInv
<1>2. text' = <<>>
  BY <1>1 DEF Call, Return
<1>3. line \in Seq(Piece) /\ cached \in Seq(Piece) /\ sent \in Nat /\ Orderly(cached, line, sent)
  BY AbsTypes DEF PieceInv
<1>4. AbsWire' = Begun(line) /\ AbsCache' = <<>>
  <2>1. AbsWire' = Wire(<<>>, HeldIn(<<>>, line), line) /\ AbsCache' = Cache(<<>>, HeldIn(<<>>, line))
    BY <1>1, <1>2 DEF AbsWire, AbsCache
  <2>2. <<>> \in Seq(Piece)
    OBVIOUS
  <2> QED BY <1>3, <2>1, <2>2, WireReading, Zenon
<1>5. AbsWire' \in Skips(AbsWire)
  <2> DEFINE H == HeldIn(cached, line)
             y == Begun(line)
  <2>0. y \in Seq(Token) /\ AbsWire = Wire(<<>>, H, line)
    BY <1>1, AbsTypes DEF AbsWire
  <2>1. CASE H = {}
    <3>1. AbsWire = y
      BY <1>3, <2>0, <2>1, WireNone, Zenon
    <3> QED BY <1>4, <3>1, Zenon DEF Skips
  <2>2. CASE H # {}
    <3>1. PICK i : i \in H
      BY <2>2
    <3>2. H = {i} /\ line # <<>>
      BY <1>3, <3>1, HeldFacts
    <3> DEFINE t == line[1].tok
    <3>3. AbsWire = <<t>> \o y
      BY <1>3, <2>0, <3>2, WireOne, Zenon
    <3>4. t \in Token
      <4>1. line[1] \in Piece
        BY <1>3, <3>2
      <4> QED BY <4>1, PieceNumbers
    <3> HIDE DEF t, y, H
    <3>5. Tail(<<t>> \o y) = y /\ <<t>> \o y # <<>>
      BY <2>0, <3>4
    <3>6. Skips(<<t>> \o y) = {<<t>> \o y} \cup {Tail(<<t>> \o y)}
      BY <3>5, Zenon DEF Skips
    <3>7. y \in Skips(<<t>> \o y)
      BY <3>5, <3>6, Zenon
    <3> QED BY <1>4, <3>3, <3>7 DEF y
  <2> QED BY <2>1, <2>2
<1>6. Cached(cached) = FromCache(AbsCache) /\ (CachedHit(cached) <=> CacheHit(AbsCache))
  BY <1>3, CacheRead DEF AbsCache
<1>7. CASE CachedHit(cached)
  <2>1. got' = [ok |-> TRUE, r |-> Cached(cached)] /\ pc' = "idle"
    BY <1>7 DEF Call, Return
  <2> QED BY <1>1, <1>4, <1>5, <1>6, <1>7, <2>1, Zenon DEF Asked
<1>8. CASE ~CachedHit(cached)
  <2>1. pc' = "first" /\ UNCHANGED got
    BY <1>8 DEF Call
  <2>2. pc' # "idle"
    BY <2>1
  <2> QED BY <1>1, <1>4, <1>5, <1>6, <1>8, <2>1, <2>2, Zenon DEF Asked
<1> QED BY <1>7, <1>8

\* A read that takes s: what begins in it was at the front of the wire.
LEMMA ReadBegins ==
  ASSUME TypeOK, NEW s, Takes(s)
  PROVE  /\ Begun(line) = Begun(s) \o Begun(line')
         /\ s \in Seq(Piece) /\ line' \in Seq(Piece)
<1>1. PICK n \in 1..Len(line) :
           /\ SubSeq(line, 1, n) \in Seq(Piece) /\ Len(SubSeq(line, 1, n)) = n
           /\ \A i \in 1..n : SubSeq(line, 1, n)[i] = line[i]
           /\ line' = SubSeq(line, n + 1, Len(line)) /\ line' \in Seq(Piece)
           /\ Len(line') = Len(line) - n /\ \A i \in 1..Len(line') : line'[i] = line[i + n]
           /\ line = SubSeq(line, 1, n) \o line'
           /\ \/ s = SubSeq(line, 1, n)
              \/ \E k \in {1, 2} : s = Append(SubSeq(line, 1, n), Stray(k))
           /\ s \in Seq(Piece) /\ calm' \in BOOLEAN
  BY Reading DEF TypeOK
<1> DEFINE c == SubSeq(line, 1, n)
           l2 == line'
<1>2. /\ c \in Seq(Piece) /\ l2 \in Seq(Piece) /\ line = c \o l2
      /\ s = c \/ \E k \in {1, 2} : s = Append(c, Stray(k))
  BY <1>1
<1> HIDE DEF c, l2
<1>3. Begun(c \o l2) = Begun(c) \o Begun(l2)
  BY <1>2, BegunConcat
<1>4. Begun(s) = Begun(c)
  BY <1>2, BegunStray, Zenon
<1>5. Begun(line) = Begun(s) \o Begun(l2)
  BY <1>2, <1>3, <1>4, Zenon
<1> QED BY <1>1, <1>5 DEF l2

\* A step that returns r, having read what x began.
LEMMA Answering ==
  ASSUME TypeOK, PieceInv, pc # "idle", UNCHANGED cached, line' \in Seq(Piece),
         NEW x \in Seq(Token), AbsWire = x \o Begun(line'),
         NEW ok \in BOOLEAN, NEW r, r \in Answers(x), ok \/ r = NoReply, Return(ok, r)
  PROVE  /\ AbsCache = <<>> /\ AbsCache' = <<>> /\ pc' = "idle"
         /\ Answered(AbsWire, AbsWire', ok, r) /\ got' = [ok |-> ok, r |-> r]
<1>1. cached = <<>> /\ cached' = <<>> /\ text' = <<>> /\ pc' = "idle" /\ got' = [ok |-> ok, r |-> r]
  BY DEF PieceInv, Return
<1> DEFINE y == Begun(line')
<1>2. AbsWire' = y /\ AbsCache' = <<>>
  <2>1. AbsWire' = Wire(<<>>, HeldIn(<<>>, line'), line') /\ AbsCache' = Cache(<<>>, HeldIn(<<>>, line'))
    BY <1>1 DEF AbsWire, AbsCache
  <2>2. <<>> \in Seq(Piece)
    OBVIOUS
  <2> QED BY <2>1, <2>2, WireReading, Zenon
<1>3. AbsCache = <<>>
  <2>1. AbsCache = Cache(<<>>, HeldIn(<<>>, line))
    BY <1>1 DEF AbsCache
  <2> QED BY <2>1, NoneHeld, Zenon
<1>4. y \in Seq(Token)
  BY BeginningsType
<1> HIDE DEF y
<1>5. AbsWire = x \o y
  BY DEF y
<1>6. Answered(AbsWire, y, ok, r)
  BY <1>4, <1>5, AnswerGiven
<1> QED BY <1>1, <1>2, <1>3, <1>6, Zenon

\* A call returns; or it does not, and nothing is seen of the step.
Returned ==
  /\ AbsCache = <<>> /\ AbsCache' = <<>> /\ pc # "idle" /\ pc' = "idle"
  /\ \E ok \in BOOLEAN, r \in Reply :
       Answered(AbsWire, AbsWire', ok, r) /\ got' = [ok |-> ok, r |-> r]
Unseen ==
  /\ AbsWire' = AbsWire /\ AbsCache' = AbsCache /\ UNCHANGED got
  /\ (pc' # "idle") <=> (pc # "idle")

LEMMA ReadsUnseen ==
  ASSUME TypeOK, TypeOK', PieceInv, pc # "idle", pc' # "idle", UNCHANGED <<got, cached>>,
         Begun(text') \o Begun(line') = Begun(text) \o Begun(line)
  PROVE  Unseen
<1>1. cached = <<>> /\ cached' = <<>>
  BY DEF PieceInv
<1>2. /\ line \in Seq(Piece) /\ text \in Seq(Piece)
      /\ line' \in Seq(Piece) /\ text' \in Seq(Piece)
  BY DEF TypeOK
<1>3. /\ AbsWire' = Wire(text', HeldIn(<<>>, line'), line')
      /\ AbsCache' = Cache(<<>>, HeldIn(<<>>, line'))
      /\ AbsWire = Wire(text, HeldIn(<<>>, line), line)
      /\ AbsCache = Cache(<<>>, HeldIn(<<>>, line))
  BY <1>1 DEF AbsWire, AbsCache
<1>4. /\ AbsWire' = Begun(text') \o Begun(line') /\ AbsCache' = <<>>
      /\ AbsWire = Begun(text) \o Begun(line) /\ AbsCache = <<>>
  BY <1>2, <1>3, WireReading, Zenon
<1> QED BY <1>4, Zenon DEF Unseen

LEMMA ReadingWire ==
  ASSUME TypeOK, PieceInv, pc # "idle"
  PROVE  AbsWire = Begun(text) \o Begun(line) /\ (text = <<>> => AbsWire = Begun(line))
<1>1. cached = <<>> /\ line \in Seq(Piece) /\ text \in Seq(Piece)
  BY AbsTypes DEF PieceInv
<1>2. AbsWire = Wire(text, HeldIn(<<>>, line), line)
  BY <1>1 DEF AbsWire
<1> QED BY <1>1, <1>2, WireReading, Zenon

LEMMA FirstReturns ==
  ASSUME TypeOK, TypeOK', PieceInv, FirstRead
  PROVE  Returned \/ Unseen
<1>1. UNCHANGED <<cached, sent, link>> /\ pc = "first" /\ text = <<>> /\ pc # "idle"
  BY DEF FirstRead, PieceInv
<1>2. AbsWire = Begun(line) /\ line' \in Seq(Piece)
  BY <1>1, ReadingWire DEF TypeOK
<1>3. CASE TimesOut /\ Return(FALSE, NoReply) /\ UNCHANGED line
  <2>1. <<>> \in Seq(Token) /\ Begun(line') \in Seq(Token)
    BY <1>2, BeginningsType
  <2>2. AbsWire = <<>> \o Begun(line')
    <3>1. <<>> \o Begun(line') = Begun(line')
      BY <2>1, ConcatEmptySeq
    <3> QED BY <1>2, <1>3, <3>1
  <2>3. NoReply \in Answers(<<>>) /\ NoReply \in Reply
    BY NoReplyAnswers, KnownTokens
  <2>4. /\ AbsCache = <<>> /\ AbsCache' = <<>> /\ pc' = "idle"
        /\ Answered(AbsWire, AbsWire', FALSE, NoReply) /\ got' = [ok |-> FALSE, r |-> NoReply]
    BY <1>1, <1>2, <1>3, <2>1, <2>2, <2>3, Answering
  <2> QED BY <1>1, <2>3, <2>4, Zenon DEF Returned
<1>4. ASSUME NEW s, Takes(s), NEW ok \in BOOLEAN, NEW o,
             o = Nothing \/ (Opening(s) # {} /\ o = Found(s)),
             ok \/ [obj |-> o, heart |-> HasHeart(s)] = NoReply,
             Return(ok, [obj |-> o, heart |-> HasHeart(s)])
      PROVE  Returned
  <2> DEFINE r == [obj |-> o, heart |-> HasHeart(s)]
  <2>1. Begun(line) = Begun(s) \o Begun(line') /\ s \in Seq(Piece)
    BY <1>4, ReadBegins
  <2>2. Readable(s)
    BY <1>4, ReadableRead
  <2>3. r \in Answers(Begun(s))
    BY <1>4, <2>1, <2>2, Judged
  <2>4. r \in Reply
    BY <1>4, <2>1, HeartOnly, JudgedType, Zenon
  <2>5. Begun(s) \in Seq(Token)
    BY <2>1, BeginningsType
  <2>6. Return(ok, r) /\ (ok \/ r = NoReply)
    BY <1>4
  <2> HIDE DEF r
  <2>7. AbsWire = Begun(s) \o Begun(line')
    BY <1>2, <2>1
  <2>8. /\ AbsCache = <<>> /\ AbsCache' = <<>> /\ pc' = "idle"
        /\ Answered(AbsWire, AbsWire', ok, r) /\ got' = [ok |-> ok, r |-> r]
    BY <1>1, <1>2, <1>4, <2>3, <2>5, <2>6, <2>7, Answering
  <2> QED BY <1>1, <1>4, <2>4, <2>8, Zenon DEF Returned
<1>5. ASSUME NEW s \in Strings, Takes(s),
             \/ /\ Opening(s) = {}
                /\ Return(HasHeart(s), [obj |-> Nothing, heart |-> HasHeart(s)])
             \/ /\ HasBraces(s)
                /\ Return(TRUE, [obj |-> Found(s), heart |-> HasHeart(s)])
             \/ /\ Opening(s) # {} /\ Closing(s) = {}
                /\ text' = s /\ times' = 1 /\ pc' = "more" /\ UNCHANGED got
      PROVE  Returned \/ Unseen
  <2>1. CASE Return(HasHeart(s), [obj |-> Nothing, heart |-> HasHeart(s)])
    <3>1. HasHeart(s) \in BOOLEAN
      BY HeartType
    <3>2. HasHeart(s) \/ [obj |-> Nothing, heart |-> HasHeart(s)] = NoReply
      BY <3>1 DEF NoReply
    <3> QED BY <1>4, <1>5, <2>1, <3>1, <3>2
  <2>2. CASE HasBraces(s) /\ Return(TRUE, [obj |-> Found(s), heart |-> HasHeart(s)])
    <3>1. Opening(s) # {}
      BY <2>2 DEF HasBraces
    <3>2. Found(s) = Nothing \/ (Opening(s) # {} /\ Found(s) = Found(s))
      BY <3>1
    <3> QED BY <1>4, <1>5, <2>2, <3>2
  <2>3. CASE text' = s /\ pc' = "more" /\ UNCHANGED got
    <3>1. Begun(line) = Begun(s) \o Begun(line')
      BY <1>5, ReadBegins
    <3>2. Begun(line) = Begun(text) \o Begun(line)
      BY <1>1, <1>2, ReadingWire
    <3> QED BY <1>1, <2>3, <3>1, <3>2, ReadsUnseen
  <2> QED BY <1>5, <2>1, <2>2, <2>3
<1> QED BY <1>3, <1>5 DEF FirstRead

LEMMA MoreUnseen == ASSUME TypeOK, TypeOK', PieceInv, MoreReads PROVE Unseen
<1>1. UNCHANGED <<cached, got, sent, link>> /\ pc = "more" /\ pc' \in {"more", "finish"}
  BY DEF MoreReads
<1>2. CASE UNCHANGED <<line, text>>
  BY <1>1, <1>2, ReadsUnseen
<1>3. ASSUME NEW s, Takes(s), text' = text \o s PROVE Unseen
  <2>1. Begun(line) = Begun(s) \o Begun(line') /\ s \in Seq(Piece) /\ line' \in Seq(Piece)
    BY <1>3, ReadBegins
  <2>2. text \in Seq(Piece)
    BY AbsTypes
  <2>3. Begun(text') = Begun(text) \o Begun(s)
    BY <1>3, <2>1, <2>2, BegunConcat
  <2>4. Begun(text) \in Seq(Token) /\ Begun(s) \in Seq(Token) /\ Begun(line') \in Seq(Token)
    BY <2>1, <2>2, BeginningsType
  <2>5. (Begun(text) \o Begun(s)) \o Begun(line') = Begun(text) \o (Begun(s) \o Begun(line'))
    <3>1. Associates(Token)
      BY ConcatThree, Zenon
    <3> QED BY <2>4, <3>1, Zenon DEF Associates
  <2> QED BY <1>1, <2>1, <2>3, <2>5, ReadsUnseen
<1> QED BY <1>2, <1>3 DEF MoreReads

LEMMA FinishReturns == ASSUME TypeOK, PieceInv, Finish PROVE Returned
<1>1. UNCHANGED <<line, cached>> /\ pc = "finish" /\ pc # "idle" /\ Readable(text)
      /\ Opening(text) # {} /\ line' \in Seq(Piece)
  BY DEF Finish, TypeOK, PieceInv
<1>2. text \in Seq(Piece) /\ Begun(text) \in Seq(Token)
  BY AbsTypes
<1>3. AbsWire = Begun(text) \o Begun(line')
  BY <1>1, ReadingWire
<1> DEFINE g == [obj |-> Found(text), heart |-> HasHeart(text)]
<1>4. g \in Answers(Begun(text)) /\ g \in Reply
  BY <1>1, <1>2, Judged, JudgedType
<1>5. NoReply \in Answers(Begun(text)) /\ NoReply \in Reply
  BY NoReplyAnswers, KnownTokens
<1>6. Return(FALSE, NoReply) \/ Return(TRUE, g) \/ Return(TRUE, NoReply)
  BY DEF Finish
<1> HIDE DEF g
<1>7. PICK ok \in BOOLEAN, r \in Reply :
        r \in Answers(Begun(text)) /\ (ok \/ r = NoReply) /\ Return(ok, r)
  BY <1>4, <1>5, <1>6
<1>8. /\ AbsCache = <<>> /\ AbsCache' = <<>> /\ pc' = "idle"
      /\ Answered(AbsWire, AbsWire', ok, r) /\ got' = [ok |-> ok, r |-> r]
  BY <1>1, <1>2, <1>3, <1>7, Answering
<1> QED BY <1>1, <1>8, Zenon DEF Returned

\* A dialogue reads a message in passing, or a piece that is none.
PassedBy ==
  /\ AbsWire # <<>> /\ AbsWire' = Tail(AbsWire)
  /\ AbsCache' \in Passed(AbsCache, Head(AbsWire))
  /\ pc = "idle" /\ pc' = "idle" /\ UNCHANGED got

LEMMA PassedOne ==
  ASSUME NEW t \in Token, NEW y \in Seq(Token),
         AbsWire = <<t>> \o y, AbsWire' = y,
         AbsCache' \in {AbsCache, Append(AbsCache, t), Append(AbsCache, Garbled)},
         pc = "idle", pc' = "idle", UNCHANGED got
  PROVE  PassedBy
<1>1. <<t>> \o y # <<>> /\ Tail(<<t>> \o y) = y /\ Head(<<t>> \o y) = t
  OBVIOUS
<1>2. Passed(AbsCache, t) = {AbsCache, Append(AbsCache, t), Append(AbsCache, Garbled)}
  BY Zenon DEF Passed
<1> QED BY <1>1, <1>2, Zenon DEF PassedBy

LEMMA DialoguePasses ==
  ASSUME TypeOK, TypeOK', PieceInv, Dialogue
  PROVE  PassedBy \/ Unseen
<1> DEFINE H == HeldIn(cached, line)
           G == HeldIn(cached', line')
           h == line[1]
           y == Begun(line')
<1>1. /\ UNCHANGED <<pc, text, sent, got>> /\ line # <<>> /\ pc = "idle" /\ pc' = "idle"
      /\ line' = Tail(line) /\ (cached' = cached \/ cached' = Append(cached, Head(line)))
      /\ text = <<>> /\ text' = <<>>
  BY DEF Dialogue, PieceInv
<1>2. /\ line \in Seq(Piece) /\ cached \in Seq(Piece) /\ sent \in Nat /\ line' \in Seq(Piece)
      /\ Orderly(cached, line, sent) /\ Behind(line, line') /\ y \in Seq(Token)
  BY <1>1, AbsTypes, BeginningsType DEF TypeOK, PieceInv, Behind
<1>3. /\ h \in Piece /\ Head(line) = h /\ h.tok \in Token
      /\ h # Closed => h.id > 0 /\ h.k \in 1..h.n
      /\ h.id > 0 /\ h.k < h.n => line' # <<>> /\ line'[1].tok = h.tok
  BY <1>2, HeadFacts, PieceNumbers
<1>4. /\ AbsWire = Wire(<<>>, H, line) /\ AbsWire' = Wire(<<>>, G, line')
      /\ AbsCache = Cache(cached, H) /\ AbsCache' = Cache(cached', G)
  BY <1>1 DEF AbsWire, AbsCache
<1>5. Begun(line) = Beginning(h) \o y
  BY <1>2, BegunBehind
<1>6. \A i \in H : H = {i} /\ h.k > 1 /\ h.id > 0
  <2> SUFFICES ASSUME NEW i \in H PROVE H = {i} /\ h.k > 1 /\ h.id > 0
    OBVIOUS
  <2>1. h.id = cached[i].id /\ cached[i].id > 0
    BY <1>2, HeldFacts
  <2> QED BY <1>2, <2>1, HeldFacts
<1>7. G = {} => AbsWire' = y
  BY <1>2, <1>4, WireNone, Zenon
<1> DEFINE x == <<h.tok>> \o y
<1>8. Begins(h) \/ H # {} => AbsWire = x
  <2>1. CASE Begins(h)
    <3>1. H = {}
      BY <1>6, <2>1 DEF Begins
    <3>2. Begun(line) = <<h.tok>> \o y
      BY <1>5, <2>1, Zenon DEF Beginning
    <3> QED BY <1>2, <1>4, <3>1, <3>2, WireNone, Zenon
  <2>2. CASE H # {} /\ ~Begins(h)
    <3>1. PICK i : H = {i}
      BY <1>6, <2>2
    <3>2. Begun(line) = <<>> \o y
      BY <1>5, <2>2, Zenon DEF Beginning
    <3>3. Begun(line) = y
      BY <1>2, <3>2, ConcatEmptySeq
    <3>4. Wire(<<>>, {i}, line) = <<line[1].tok>> \o Begun(line)
      BY <1>1, <1>2, WireOne
    <3> QED BY <1>4, <3>1, <3>3, <3>4, Zenon
  <2> QED BY <2>1, <2>2
<1>9. ~Begins(h) /\ H = {} => AbsWire = y
  <2> SUFFICES ASSUME ~Begins(h), H = {} PROVE AbsWire = y
    OBVIOUS
  <2>1. Begun(line) = <<>> \o y
    BY <1>5, Zenon DEF Beginning
  <2>2. Begun(line) = y
    BY <1>2, <2>1, ConcatEmptySeq
  <2> QED BY <1>2, <1>4, <2>2, WireNone, Zenon
<1> HIDE DEF H, G, y, h
<1>10. CASE cached' = cached
  <2>1. G = {}
    BY <1>2, <1>10, HeldDropped DEF G
  <2>2. AbsWire' = y /\ AbsCache' = Cache(cached, {})
    BY <1>4, <1>7, <1>10, <2>1
  <2>3. H = {} => AbsCache' = AbsCache
    BY <1>4, <2>2
  <2>4. H # {} => AbsCache' \in {AbsCache, Append(AbsCache, Garbled)}
    <3>1. H # {} => Cache(cached, {}) \in {Cache(cached, H), Append(Cache(cached, H), Garbled)}
      BY <1>1, <1>2, CacheDropped DEF H
    <3> QED BY <1>4, <2>2, <3>1, Zenon
  <2>5. CASE Begins(h) \/ H # {}
    <3>1. AbsCache' \in {AbsCache, Append(AbsCache, h.tok), Append(AbsCache, Garbled)}
      BY <2>3, <2>4, Zenon
    <3> QED BY <1>1, <1>2, <1>3, <1>8, <2>2, <2>5, <3>1, PassedOne
  <2>6. CASE ~Begins(h) /\ H = {}
    BY <1>1, <1>9, <2>2, <2>3, <2>6, Zenon DEF Unseen
  <2> QED BY <2>5, <2>6
<1>11. CASE cached' = Append(cached, Head(line))
  <2>1. Keeps(cached, line, sent, line', cached')
    BY <1>2, <1>3, <1>11 DEF Keeps, h
  <2>2. H = HeldIn(cached, line) /\ G = HeldIn(cached', line') /\ h = line[1]
    BY DEF H, G, h
  <2>3. /\ (Begins(h) \/ H # {}) /\ h.k = h.n =>
              /\ G = {}
              /\ Cache(cached', G) = Append(Cache(cached, H), h.tok)
                 \/ Cache(cached', G) = Append(Cache(cached, H), Garbled)
        /\ (Begins(h) \/ H # {}) /\ h.k < h.n =>
              (\E i : G = {i}) /\ Cache(cached', G) = Cache(cached, H)
        /\ ~Begins(h) /\ H = {} => G = {} /\ Cache(cached', G) = Cache(cached, H)
    <3>1. KeptAs(cached, HeldIn(cached, line), line[1], cached', HeldIn(cached', line'))
      BY <2>1, CacheKept
    <3>2. KeptAs(cached, H, h, cached', G)
      BY <2>2, <3>1, Zenon
    <3> QED BY <3>2, Zenon DEF KeptAs
  <2>4. CASE ~Begins(h) /\ H = {}
    BY <1>1, <1>4, <1>7, <1>9, <2>3, <2>4, Zenon DEF Unseen
  <2>5. CASE Begins(h) \/ H # {}
    <3>1. h.id > 0 /\ h # Closed
      <4>1. h.id > 0
        BY <1>6, <2>5 DEF Begins
      <4> QED BY <4>1, ClosedParts
    <3>2. h.k = h.n \/ h.k < h.n
      <4>1. h.k \in 1..h.n /\ h.n \in Nat
        BY <1>3, <3>1, PieceNumbers
      <4> QED BY <4>1
    <3>3. CASE h.k = h.n
      <4>1. AbsWire' = y
        BY <1>7, <2>3, <2>5, <3>3, Zenon
      <4>2. AbsCache' \in {AbsCache, Append(AbsCache, h.tok), Append(AbsCache, Garbled)}
        BY <1>4, <2>3, <2>5, <3>3, Zenon
      <4> QED BY <1>1, <1>2, <1>3, <1>8, <2>5, <4>1, <4>2, PassedOne
    <3>4. CASE h.k < h.n
      <4>1. PICK i : G = {i}
        BY <2>3, <2>5, <3>4, Zenon
      <4>2. Wire(<<>>, {i}, line') = <<line'[1].tok>> \o Begun(line')
        BY <1>2, <1>3, <3>1, <3>4, WireOne
      <4>3. line'[1].tok = h.tok
        BY <1>3, <3>1, <3>4
      <4>4. AbsWire' = x
        BY <1>4, <4>1, <4>2, <4>3, Zenon DEF y
      <4>5. AbsWire' = AbsWire /\ AbsCache' = AbsCache
        BY <1>4, <1>8, <2>3, <2>5, <3>4, <4>4, Zenon
      <4> QED BY <1>1, <4>5, Zenon DEF Unseen
    <3> QED BY <3>2, <3>3, <3>4
  <2> QED BY <2>4, <2>5
<1> QED BY <1>1, <1>10, <1>11

\* A step that puts pieces t behind the input.
LEMMA WireMore ==
  ASSUME TypeOK, UNCHANGED <<text, cached>>, NEW t \in Seq(Piece), t # <<>>, t[1].k \in {0, 1},
         line' = line \o t
  PROVE  AbsWire' = AbsWire \o Begun(t) /\ AbsWire \in Seq(Token) /\ AbsCache' = AbsCache
<1> DEFINE H == HeldIn(cached, line)
           u == line \o t
<1>1. line \in Seq(Piece) /\ cached \in Seq(Piece) /\ text \in Seq(Piece)
  BY AbsTypes
<1>2. HeldIn(cached, u) = H /\ Ahead(H, u) = Ahead(H, line)
  BY <1>1, HeldMore
<1>3. /\ AbsWire' = Wire(text, HeldIn(cached, u), u) /\ AbsCache' = Cache(cached, HeldIn(cached, u))
      /\ AbsWire = Wire(text, H, line) /\ AbsCache = Cache(cached, H)
  BY DEF AbsWire, AbsCache
<1>4. Begun(u) = Begun(line) \o Begun(t)
  BY <1>1, BegunConcat
<1> DEFINE a == Begun(text) \o Ahead(H, line)
<1>5. a \in Seq(Token)
  <2>1. CASE H = {}
    <3>1. Ahead(H, line) = <<>>
      <4>1. Cardinality({}) = 0
        BY FS_EmptySet
      <4>2. \A z : [i \in 1..0 |-> z] = <<>>
        OBVIOUS
      <4> HIDE DEF H
      <4> QED BY <2>1, <4>1, <4>2, Zenon DEF Ahead
    <3>2. Begun(text) \in Seq(Token)
      BY AbsTypes
    <3> HIDE DEF H
    <3> QED BY <3>1, <3>2, ConcatEmptySeq
  <2>2. CASE H # {}
    <3>1. \E i : i \in HeldIn(cached, line) /\ line # <<>>
      BY <2>2 DEF HeldIn
    <3>2. Head(line).tok \in Token
      <4>1. Head(line) \in Piece
        BY <1>1, <3>1
      <4> QED BY <4>1, PieceNumbers
    <3>3. Cardinality(H) \in Nat
      <4>1. IsFiniteSet(1..Len(cached))
        BY <1>1, FS_Interval
      <4>2. H \subseteq 1..Len(cached)
        BY DEF HeldIn
      <4> HIDE DEF H
      <4>3. IsFiniteSet(H)
        BY <4>1, <4>2, FS_Subset
      <4> QED BY <4>3, FS_CardinalityType
    <3> DEFINE c == Cardinality(H)
               z == Head(line).tok
    <3> HIDE DEF H, c, z
    <3>4. [i \in 1..c |-> z] \in Seq(Token)
      BY <3>2, <3>3 DEF c, z
    <3>5. Ahead(H, line) = [i \in 1..c |-> z]
      BY Zenon DEF Ahead, c, z
    <3>6. Begun(text) \in Seq(Token)
      BY AbsTypes
    <3> DEFINE v == Ahead(H, line)
    <3> HIDE DEF v
    <3>7. v \in Seq(Token)
      BY <3>4, <3>5 DEF v
    <3> QED BY <3>6, <3>7, ConcatProperties DEF v
  <2> QED BY <2>1, <2>2
<1>6. Begun(line) \in Seq(Token) /\ Begun(t) \in Seq(Token)
  BY <1>1, BeginningsType
<1> HIDE DEF a
<1>7. (a \o Begun(line)) \o Begun(t) = a \o (Begun(line) \o Begun(t))
  <2> DEFINE y == Begun(line)
             z == Begun(t)
  <2>1. y \in Seq(Token) /\ z \in Seq(Token)
    BY <1>6
  <2> HIDE DEF y, z
  <2>3. (a \o y) \o z = a \o (y \o z)
    <3>1. Associates(Token)
      BY ConcatThree, Zenon
    <3> QED BY <1>5, <2>1, <3>1, Zenon DEF Associates
  <2> QED BY <2>3 DEF y, z
<1> HIDE DEF H, u
<1>8. AbsWire = a \o Begun(line)
  BY <1>3, Zenon DEF Wire, a
<1>9. AbsWire' = a \o Begun(u)
  BY <1>2, <1>3, Zenon DEF Wire, a
<1>10. AbsCache' = AbsCache
  BY <1>2, <1>3, Zenon
<1>11. a \o Begun(line) \in Seq(Token)
  BY <1>5, <1>6, ConcatProperties
<1> QED BY <1>4, <1>7, <1>8, <1>9, <1>10, <1>11, Zenon

LEMMA SendsMessage ==
  ASSUME TypeOK, PieceInv, ServerSends
  PROVE  /\ \E tok \in Messages : AbsWire' = Append(AbsWire, tok)
         /\ AbsCache' = AbsCache /\ UNCHANGED <<pc, got>>
<1>1. sent < MaxSent /\ sent' = sent + 1 /\ UNCHANGED <<cached, pc, text, got>>
  BY DEF ServerSends
<1>2. sent + 1 \in 1..MaxSent /\ sent + 1 \in Nat \ {0}
  BY <1>1, AbsTypes
<1>3. PICK kind \in SentKinds, n \in 1..MaxPieces, bare \in BOOLEAN :
        line' = line \o Cut(kind, n, bare, sent + 1)
  BY <1>1 DEF ServerSends, Cut
<1> DEFINE t == Cut(kind, n, bare, sent + 1)
           m == sent + 1
           tok == [kind |-> kind, of |-> IF kind = "Open" THEN m ELSE 0]
<1>4. t \in Seq(Piece) /\ t # <<>> /\ t[1].k = 1
  <2>1. t \in Seq(Piece) /\ Len(t) = n
    BY <1>2, CutType
  <2>2. 1 \in 1..n
    BY RecConstantsOK
  <2>3. CutPart(t[1], kind, n, bare, m, 1)
    BY <1>2, <2>2, CutParts
  <2>4. t # <<>>
    <3> HIDE DEF t
    <3> QED BY <2>1, <2>2
  <2> QED BY <2>1, <2>3, <2>4, Zenon DEF CutPart
<1>5. Begun(t) = <<tok>>
  BY <1>2, BegunCut
<1>6. tok \in Messages
  <2> HIDE DEF t, m
  <2>1. m \in 1..MaxSent
    BY <1>2 DEF m
  <2> QED BY <2>1 DEF Messages
<1> HIDE DEF t, tok
<1>7. line' = line \o t
  BY <1>3 DEF t
<1>8. AbsWire' = AbsWire \o Begun(t) /\ AbsWire \in Seq(Token) /\ AbsCache' = AbsCache
  BY <1>1, <1>4, <1>7, WireMore
<1>9. <<tok>> \in Seq(Token)
  BY <1>4, <1>5, BeginningsType
<1>10. tok \in Token
  <2>1. 1 \in 1..Len(<<tok>>) /\ <<tok>>[1] = tok
    OBVIOUS
  <2> QED BY <1>9, <2>1, ElementOfSeq, Zenon
<1>11. Append(AbsWire, tok) = AbsWire \o <<tok>>
  BY <1>8, <1>10, AppendIsConcat
<1> QED BY <1>1, <1>5, <1>6, <1>8, <1>11, Zenon

LEMMA DropsUnseen ==
  ASSUME TypeOK, PieceInv, LinkDrops
  PROVE  Unseen
<1>1. UNCHANGED <<cached, pc, text, got>> /\ line' = Append(line, Closed)
  BY DEF LinkDrops
<1>2. line \in Seq(Piece) /\ Closed \in Piece
  BY AbsTypes, KnownTokens
<1> DEFINE p == Closed
<1>3. p.k = 0 /\ Beginning(p) = <<>>
  BY ClosedParts DEF Beginning, Begins
<1> HIDE DEF p
<1> DEFINE t == <<p>>
<1>4. t \in Seq(Piece) /\ t # <<>> /\ t[1].k = 0
  BY <1>2, <1>3 DEF p
<1>5. line' = line \o t
  BY <1>1, <1>2, AppendIsConcat DEF p
<1>6. Begun(t) = <<>>
  BY <1>2, <1>3, BegunOne DEF p
<1> HIDE DEF t
<1>7. AbsWire' = AbsWire \o Begun(t) /\ AbsWire \in Seq(Token) /\ AbsCache' = AbsCache
  BY <1>1, <1>4, <1>5, WireMore
<1>8. AbsWire \o <<>> = AbsWire
  BY <1>7, ConcatEmptySeq
<1> QED BY <1>1, <1>6, <1>7, <1>8 DEF Unseen
-----------------------------------------------------------------------------
(* The refinement.                                                         *)

\* AbsWire and AbsCache are what RecTcpData puts for wire and cache.
LEMMA AbsSeen ==
  ASSUME TypeOK, PieceInv
  PROVE  /\ Begun(text) \o [i \in 1..Cardinality(Held) |-> Head(line).tok] \o Begun(line) = AbsWire
         /\ FlattenSeq([i \in 1..Len(cached) |-> Whole(cached, i)]) = AbsCache
<1>1. Held = HeldIn(cached, line)
  <2>1. CASE cached = <<>>
    BY <2>1 DEF Held, HeldIn
  <2>2. CASE cached # <<>>
    <3>1. pc = "idle"
      BY <2>2 DEF PieceInv
    <3>2. line # <<>> => Head(line) = line[1]
      OBVIOUS
    <3>3. \A i : HeldFrom(i) <=>
             /\ line # <<>> /\ cached[i].k = 1
             /\ \A j \in i..Len(cached) : cached[j].id = cached[i].id /\ cached[j].k = j - i + 1
             /\ line[1].id = cached[i].id /\ line[1].k = Len(cached) - i + 2
      BY <3>1, <3>2, Zenon DEF HeldFrom
    <3> QED BY <3>3, Zenon DEF Held, HeldIn
  <2> QED BY <2>1, <2>2
<1>2. \A i : Whole(cached, i) = Share(cached, HeldIn(cached, line), i)
  BY <1>1, Zenon DEF Whole, Share
<1> QED BY <1>1, <1>2, Zenon DEF AbsWire, AbsCache, Wire, Ahead, Cache, Shares

\* The words of ReceiveCall are those of Reception.
LEMMA SameWords ==
  /\ \A s : Abs!CacheHit(s) <=> CacheHit(s)
  /\ \A s : Abs!FromCache(s) = FromCache(s)
  /\ \A s : Abs!Skips(s) = Skips(s)
  /\ \A c, t : Abs!Passed(c, t) = Passed(c, t)
  /\ \A c, w : Abs!Results(c, w) = Results(c, w)
  /\ \A w, n, ok, r : Abs!Chunk(w, n, ok, r) <=> Chunk(w, n, ok, r)
  /\ Abs!NoReply = NoReply
<1>1. \A k : Abs!TypeOf(k) = TypeOf(k)
  BY Zenon DEF Abs!TypeOf, TypeOf, Abs!OPEN_DOOR_TYPE, OPEN_DOOR_TYPE, Abs!MSG_TYPE, MSG_TYPE,
               Abs!CLOSE_DOOR_TYPE, CLOSE_DOOR_TYPE
<1>2. \A t : Abs!IsObject(t) <=> IsObject(t)
  BY Zenon DEF Abs!IsObject, IsObject
<1>3. Abs!Nothing = Nothing /\ Abs!Garbled = Garbled
  BY Zenon DEF Abs!Nothing, Nothing, Abs!Garbled, Garbled
<1>4. \A s : Abs!FirstObject(s) = FirstObject(s)
  BY <1>2, Zenon DEF Abs!FirstObject, FirstObject
<1>5. \A s : Abs!Digest(s) = Digest(s)
  BY <1>3, <1>4, Zenon DEF Abs!Digest, Digest
<1>6. \A s : Abs!FromCache(s) = FromCache(s)
  BY <1>1, <1>3, <1>5, Zenon DEF Abs!FromCache, FromCache
<1>7. \A s : Abs!CacheHit(s) <=> CacheHit(s)
  BY <1>2, <1>6, Zenon DEF Abs!CacheHit, CacheHit
<1>8. \A s : Abs!Skips(s) = Skips(s)
  BY Zenon DEF Abs!Skips, Skips
<1>9. \A c, t : Abs!Passed(c, t) = Passed(c, t)
  BY <1>3, Zenon DEF Abs!Passed, Passed
<1>10. \A c, w : Abs!Results(c, w) = Results(c, w)
  BY <1>3, <1>6, Zenon DEF Abs!Results, Results
<1>11. Abs!NoReply = NoReply
  BY <1>3, Zenon DEF Abs!NoReply, NoReply
<1>12. \A s : Abs!Answers(s) = Answers(s)
  BY <1>3, <1>5, Zenon DEF Abs!Answers, Answers
<1>13. \A w, n, ok, r : Abs!Chunk(w, n, ok, r) <=> Chunk(w, n, ok, r)
  BY <1>11, <1>12, Zenon DEF Abs!Chunk, Chunk
<1> QED BY <1>6, <1>7, <1>8, <1>9, <1>10, <1>11, <1>13

\* The state and the next as ReceiveCall sees them.
Mapped ==
  /\ Begun(text) \o [i \in 1..Cardinality(Held) |-> Head(line).tok] \o Begun(line) = AbsWire
  /\ FlattenSeq([i \in 1..Len(cached) |-> Whole(cached, i)]) = AbsCache

LEMMA AbsAsk ==
  ASSUME Mapped, Mapped', pc = "idle", Asked(AbsWire, AbsCache, AbsWire', AbsCache')
  PROVE  Abs!Ask
<1>1. CASE CacheHit(AbsCache)
  <2>1. /\ AbsCache' = <<>> /\ AbsWire' \in Skips(AbsWire)
        /\ got' = [ok |-> TRUE, r |-> FromCache(AbsCache)] /\ pc' = "idle"
    BY <1>1, Zenon DEF Asked
  <2> QED BY <1>1, <2>1, SameWords, Zenon DEF Abs!Ask, Mapped
<1>2. CASE ~CacheHit(AbsCache)
  <2>1. AbsCache' = <<>> /\ AbsWire' \in Skips(AbsWire) /\ pc' # "idle" /\ UNCHANGED got
    BY <1>2, Zenon DEF Asked
  <2> QED BY <1>2, <2>1, SameWords, Zenon DEF Abs!Ask, Mapped
<1> QED BY <1>1, <1>2

LEMMA AbsAnswer == ASSUME Mapped, Mapped', Returned PROVE Abs!Answer
<1>1. AbsCache = <<>> /\ AbsCache' = <<>> /\ pc # "idle" /\ pc' = "idle"
  BY Zenon DEF Returned
<1>2. PICK ok \in BOOLEAN, r \in Reply :
        Answered(AbsWire, AbsWire', ok, r) /\ got' = [ok |-> ok, r |-> r]
  BY Zenon DEF Returned
<1>3. PICK n \in 0..Len(AbsWire) :
        /\ Chunk(AbsWire, n, ok, r) /\ AbsWire' = SubSeq(AbsWire, n + 1, Len(AbsWire))
        /\ r \in Results(<<>>, AbsWire)
  BY <1>2, Zenon DEF Answered
<1>4. r \in Abs!Results(AbsCache, AbsWire) /\ Abs!Chunk(AbsWire, n, ok, r)
  BY <1>1, <1>3, SameWords, Zenon
<1> QED BY <1>1, <1>2, <1>3, <1>4, Zenon DEF Abs!Answer, Mapped

LEMMA AbsPasses == ASSUME Mapped, Mapped', PassedBy PROVE Abs!PassesBy
<1>1. AbsCache' \in Abs!Passed(AbsCache, Head(AbsWire))
  BY SameWords, Zenon DEF PassedBy
<1> QED BY <1>1, Zenon DEF Abs!PassesBy, PassedBy, Mapped

LEMMA AbsUnseen == ASSUME Mapped, Mapped', Unseen PROVE UNCHANGED Abs!vars
BY Zenon DEF Abs!vars, Unseen, Mapped

LEMMA AbsArrives ==
  ASSUME Mapped, Mapped', NEW tok \in Messages, AbsWire' = Append(AbsWire, tok),
         AbsCache' = AbsCache, UNCHANGED <<pc, got>>
  PROVE  Abs!Arrives
BY Zenon DEF Abs!Arrives, Mapped

LEMMA AbsStep ==
  ASSUME TypeOK, TypeOK', PieceInv, Mapped, Mapped', [Next]_vars
  PROVE  Abs!Next \/ UNCHANGED Abs!vars
<1>1. CASE Call
  BY <1>1, CallAsks, AbsAsk, Zenon DEF Abs!Next
<1>2. CASE FirstRead
  BY <1>2, FirstReturns, AbsAnswer, AbsUnseen, Zenon DEF Abs!Next
<1>3. CASE MoreReads
  BY <1>3, MoreUnseen, AbsUnseen, Zenon
<1>4. CASE Finish
  BY <1>4, FinishReturns, AbsAnswer, Zenon DEF Abs!Next
<1>5. CASE Dialogue
  BY <1>5, DialoguePasses, AbsPasses, AbsUnseen, Zenon DEF Abs!Next
<1>6. CASE ServerSends
  BY <1>6, SendsMessage, AbsArrives, Zenon DEF Abs!Next
<1>7. CASE LinkDrops
  BY <1>7, DropsUnseen, AbsUnseen, Zenon
<1>8. CASE UNCHANGED vars
  <2>1. UNCHANGED <<line, cached, pc, text, got>>
    BY <1>8 DEF vars
  <2>2. AbsWire' = AbsWire /\ AbsCache' = AbsCache
    BY <2>1 DEF AbsWire, AbsCache
  <2>3. Unseen
    BY <2>1, <2>2, Zenon DEF Unseen
  <2> QED BY <2>3, AbsUnseen, Zenon
<1> QED BY <1>1, <1>2, <1>3, <1>4, <1>5, <1>6, <1>7, <1>8 DEF Next, RecTcpData

\* Piece by piece, rec_tcp_data returns, takes and caches what it does with
\* whole messages in BoxApp: for any number of messages in any number of pieces,
\* with dialogues, silence, lost connections and full buffers in between.
THEOREM ReceiveCallHolds == Spec => ReceiveCallSpec
<1>1. Init => Abs!Init
  <2> SUFFICES ASSUME Init PROVE Abs!Init
    OBVIOUS
  <2>1. /\ line = <<>> /\ cached = <<>> /\ text = <<>> /\ pc = "idle"
        /\ got = [ok |-> FALSE, r |-> NoReply]
    BY Zenon DEF Init
  <2>2. Mapped
    BY TypeInit, PieceInit, AbsSeen, Zenon DEF Mapped
  <2>3. AbsWire = <<>> /\ AbsCache = <<>>
    <3>1. <<>> \in Seq(Piece)
      OBVIOUS
    <3>2. AbsWire = Begun(<<>>) /\ AbsCache = <<>>
      BY <2>1, <3>1, WireReading, Zenon DEF AbsWire, AbsCache
    <3> QED BY <3>2, BegunEmpty, Zenon
  <2> QED BY <2>1, <2>2, <2>3, SameWords, Zenon DEF Abs!Init, Mapped
<1>2. TypeOK /\ PieceInv => Mapped
  BY AbsSeen, Zenon DEF Mapped
<1>3. TypeOK /\ TypeOK' /\ PieceInv /\ Mapped /\ Mapped' /\ [Next]_vars
        => [Abs!Next]_(Abs!vars)
  BY AbsStep
<1> QED BY <1>1, <1>2, <1>3, ReceiveTypes, PiecesInOrder, PTL
        DEF Spec, ReceiveCallSpec, Abs!Spec
=============================================================================
