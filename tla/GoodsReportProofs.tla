-------------------------- MODULE GoodsReportProofs --------------------------
(***************************************************************************)
(* Proofs about GoodsReport, for any numbers of goods, regions, attempts   *)
(* and reports, and any base of the digits; and about DotMatch, which says *)
(* what one region shows, for the same pictures and any number of matches, *)
(* alone and inside the report (GoodsMatch).                               *)
(***************************************************************************)
EXTENDS GoodsMatch, FiniteSetTheorems, SequenceTheorems, WellFoundedInduction, TLAPS

-----------------------------------------------------------------------------
(* Flattening, by induction: the first place where two functions that      *)
(* satisfy the equation differ would have none before it.                  *)

\* The order of the natural numbers, as a relation.
Below == OpToRel(<, Nat)
\* Every set of natural numbers has a least element.
LEMMA NatMin ==
  ASSUME NEW T, T \subseteq Nat, T # {}
  PROVE  \E x \in T : \A y \in T : x <= y
<1>1. IsWellFoundedOn(OpToRel(<,Nat), Nat)
  BY NatLessThanWellFounded
<1>2. IsWellFoundedOn(Below, Nat)
  BY <1>1 DEF Below
<1>3. PICK x \in T : \A y \in T : <<y, x>> \notin Below
  BY <1>2, WFMin
<1>4. \A i, j \in Nat : <<j, i>> \in Below <=> j < i
  BY DEF Below, OpToRel
<1>5. \A y \in T : ~(y < x)
  BY <1>3, <1>4
<1>6. \A y \in T : x <= y
  BY <1>5
<1> QED BY <1>6

\* What flattening gives for sequences of length 1, for every beginning of them.
Flat(seqs) == [i \in 1..Len(seqs) |-> [j \in 1..i |-> seqs[j][1]]]
\* The equation by which FlattenSeq defines its function.
Grows(f, seqs) == f = [i \in 1..Len(seqs) |-> IF i = 1 THEN seqs[i] ELSE f[i-1] \o seqs[i]]

\* Flat satisfies the equation, and nothing else does.
LEMMA FlatGrows ==
  ASSUME NEW S, NEW seqs \in Seq(Seq(S)), \A i \in 1..Len(seqs) : Len(seqs[i]) = 1
  PROVE  Grows(Flat(seqs), seqs)
<1> DEFINE n == Len(seqs)
<1>1. n \in Nat
  OBVIOUS
<1>2. ASSUME NEW i \in 1..n PROVE Flat(seqs)[i] = IF i = 1 THEN seqs[i] ELSE Flat(seqs)[i-1] \o seqs[i]
  <2>1. seqs[i] \in Seq(S) /\ Len(seqs[i]) = 1
    OBVIOUS
  <2>2. seqs[i] = [j \in 1..1 |-> seqs[i][1]]
    BY <2>1
  <2>3. CASE i = 1
    BY <2>2, <2>3 DEF Flat
  <2>4. CASE i # 1
    <3>1. i - 1 \in 1..n
      BY <1>1, <2>4
    <3> DEFINE g == Flat(seqs)[i-1]
    <3>2. g = [j \in 1..(i-1) |-> seqs[j][1]]
      BY <3>1 DEF Flat
    <3>2a. \A j \in 1..n : seqs[j][1] \in S
      <4>1. \A j \in 1..n : seqs[j] \in Seq(S) /\ Len(seqs[j]) = 1
        OBVIOUS
      <4> QED BY <4>1
    <3>3. g \in Seq(S) /\ Len(g) = i - 1
      BY <3>1, <3>2, <3>2a, <1>1
    <3> HIDE DEF g
    <3>4. g \o seqs[i] = [j \in 1..i |-> IF j <= i - 1 THEN g[j] ELSE seqs[i][j - (i - 1)]]
      <4> DEFINE h == g \o seqs[i]
      <4>1. h \in Seq(S) /\ Len(h) = (i - 1) + 1
        <5>1. h \in Seq(S) /\ Len(h) = Len(g) + Len(seqs[i])
          BY <2>1, <3>3, ConcatProperties
        <5> QED BY <2>1, <3>3, <5>1
      <4>2. \A j \in 1..i : h[j] = IF j <= i - 1 THEN g[j] ELSE seqs[i][j - (i - 1)]
        BY <2>1, <3>1, <3>3
      <4>3. (i - 1) + 1 = i
        BY <3>1
      <4> HIDE DEF h
      <4>4. h = [j \in 1..i |-> h[j]]
        BY <4>1, <4>3
      <4> QED BY <4>2, <4>4 DEF h
    <3>5. ASSUME NEW j \in 1..i PROVE (IF j <= i - 1 THEN g[j] ELSE seqs[i][j - (i - 1)]) = seqs[j][1]
      <4>1. CASE j <= i - 1
        BY <3>2, <4>1
      <4>2. CASE j = i
        BY <4>2
      <4> QED BY <4>1, <4>2
    <3>6. g \o seqs[i] = [j \in 1..i |-> seqs[j][1]]
      BY <3>4, <3>5
    <3> QED BY <2>4, <3>6 DEF Flat, g
  <2> QED BY <2>3, <2>4
<1> QED BY <1>2 DEF Flat, Grows

LEMMA GrowsFlat ==
  ASSUME NEW S, NEW seqs \in Seq(Seq(S)), \A i \in 1..Len(seqs) : Len(seqs[i]) = 1,
         NEW f, Grows(f, seqs)
  PROVE  f = Flat(seqs)
<1> DEFINE n == Len(seqs)
           T == {i \in 1..n : f[i] # Flat(seqs)[i]}
<1>1. \A i \in 1..n : f[i] = IF i = 1 THEN seqs[i] ELSE f[i-1] \o seqs[i]
  BY DEF Grows
<1>2. \A i \in 1..n : Flat(seqs)[i] = IF i = 1 THEN seqs[i] ELSE Flat(seqs)[i-1] \o seqs[i]
  <2>1. Grows(Flat(seqs), seqs)
    BY FlatGrows
  <2> QED BY <2>1 DEF Grows
<1>3. CASE T = {}
  <2>1. \A i \in 1..n : f[i] = Flat(seqs)[i]
    BY <1>3
  <2>2. f = [i \in 1..n |-> f[i]]
    BY DEF Grows
  <2> QED BY <2>1, <2>2 DEF Flat
<1>4. CASE T # {}
  <2>1. T \subseteq Nat
    OBVIOUS
  <2>2. PICK i \in T : \A y \in T : i <= y
    BY <1>4, <2>1, NatMin
  <2>3. i \in 1..n /\ n \in Nat
    OBVIOUS
  <2>4. i # 1
    BY <1>1, <1>2, <2>3
  <2>5. i - 1 \in 1..n /\ ~(i <= i - 1)
    BY <2>3, <2>4
  <2>6. f[i-1] = Flat(seqs)[i-1]
    BY <2>2, <2>5
  <2> QED BY <1>1, <1>2, <2>3, <2>4, <2>6
<1> QED BY <1>3, <1>4

\* Flattening sequences of length 1.
LEMMA FlattenDigits ==
  ASSUME NEW S, NEW seqs \in Seq(Seq(S)), \A i \in 1..Len(seqs) : Len(seqs[i]) = 1
  PROVE  FlattenSeq(seqs) = [i \in 1..Len(seqs) |-> seqs[i][1]]
<1>1. CASE Len(seqs) = 0
  BY <1>1 DEF FlattenSeq
<1>2. CASE Len(seqs) # 0
  <2> DEFINE n == Len(seqs)
             flatten == CHOOSE f : Grows(f, seqs)
  <2>1. FlattenSeq(seqs) = flatten[n]
    BY <1>2 DEF FlattenSeq, Grows
  <2>2. Grows(flatten, seqs)
    BY FlatGrows
  <2> HIDE DEF flatten
  <2>3. flatten = Flat(seqs)
    BY <2>2, GrowsFlat
  <2>4. n \in 1..n
    BY <1>2
  <2> QED BY <2>1, <2>3, <2>4 DEF Flat
<1> QED BY <1>1, <1>2
-----------------------------------------------------------------------------
(* The inductive invariant.                                                *)

\* The regions of s that show picture a.
Positions(s, a) == {r \in 1..Len(s) : s[r] = a}

\* Every variable keeps its type, the history of the regions too.
Typed ==
  /\ pcCap \in {"load", "open", "drain", "gone"} /\ testDesc \in 0..(2 * Goods)
  /\ camera \in BOOLEAN /\ pcMsg \in {"rcv", "try", "regions", "item"}
  /\ chance \in 0..Chances /\ (pcMsg \in {"try", "regions"} => chance < Chances)
  /\ shown \in Seq(Pictures \cup {-1}) /\ Len(shown) <= Regions
  /\ reports \in 0..MaxReports /\ (pcMsg # "rcv" => reports < MaxReports)

\* The camera opens after the last sample picture was loaded.
CameraLast ==
  /\ pcCap # "load" => testDesc = 2 * Goods
  /\ camera => pcCap = "drain"
  /\ pcMsg = "regions" => camera

\* count is what its name says, of the photo taken last.
Counted == count = [a \in Pictures |-> Cardinality(Positions(shown, a))]

\* The digits are those of the numbers of this report, or none.
AllDigits == <<>> \o FlattenSeq([k \in 1..Goods |-> Digits(GJ(k))])
DigitsOfCount ==
  /\ pcMsg \in {"try", "regions"} => object = <<>>
  /\ pcMsg \in {"item", "rcv"} => object \in {<<>>, AllDigits}

\* The report is read off the digits.
Members(digits) == {<<k, digits[k]>> : k \in {d \in 1..Len(digits) : digits[d] # 0}}
ItemOfDigits == Made => item = Members(object)

GoodsInv == Typed /\ CameraLast /\ SamplesLoaded /\ Counted /\ DigitsOfCount /\ ItemOfDigits
-----------------------------------------------------------------------------
(* Counting.                                                               *)

LEMMA Bounds ==
  /\ Goods \in Nat /\ Goods > 0 /\ Regions \in Nat /\ Regions > 0
  /\ Chances \in Nat /\ Chances > 0 /\ MaxReports \in Nat /\ Base \in Nat /\ Base > 1
BY GoodsConstantsOK

LEMMA PositionsFinite ==
  ASSUME NEW S, NEW s \in Seq(S), NEW a
  PROVE  /\ IsFiniteSet(Positions(s, a)) /\ Cardinality(Positions(s, a)) \in 0..Len(s)
<1>1. IsFiniteSet(1..Len(s)) /\ Cardinality(1..Len(s)) = Len(s)
  <2>1. Len(s) \in Nat
    OBVIOUS
  <2>2. IsFiniteSet(1..Len(s)) /\ Cardinality(1..Len(s)) = IF 1 > Len(s) THEN 0 ELSE Len(s) - 1 + 1
    BY <2>1, FS_Interval
  <2> QED BY <2>1, <2>2
<1>2. Positions(s, a) \in SUBSET (1..Len(s))
  BY DEF Positions
<1>3. IsFiniteSet(Positions(s, a)) /\ Cardinality(Positions(s, a)) <= Len(s)
  BY <1>1, <1>2, FS_Subset
<1> QED BY <1>3, FS_CardinalityType

\* One region more.
LEMMA PositionsAppend ==
  ASSUME NEW S, NEW s \in Seq(S), NEW b \in S, NEW a
  PROVE  Cardinality(Positions(Append(s, b), a))
           = IF a = b THEN Cardinality(Positions(s, a)) + 1 ELSE Cardinality(Positions(s, a))
<1> DEFINE n == Len(s)
           t == Append(s, b)
<1>1. /\ n \in Nat /\ Len(t) = n + 1 /\ t[n + 1] = b
      /\ \A r \in 1..n : t[r] = s[r]
  OBVIOUS
<1> HIDE DEF t
<1>2. Positions(t, a) = IF a = b THEN Positions(s, a) \cup {n + 1} ELSE Positions(s, a)
  BY <1>1 DEF Positions
<1>3. n + 1 \notin Positions(s, a)
  BY <1>1 DEF Positions
<1>4. IsFiniteSet(Positions(s, a))
  BY PositionsFinite
<1> QED BY <1>2, <1>3, <1>4, FS_AddElement DEF t

\* A kind of goods is seen where one of its two pictures is.
LEMMA SeenCounted ==
  ASSUME Typed, Counted, NEW k \in 1..Goods
  PROVE  GJ(k) = Seen(k) /\ Seen(k) \in Nat
<1>1. /\ k - 1 \in Pictures /\ k - 1 + Goods \in Pictures /\ k - 1 # k - 1 + Goods
  BY Bounds DEF Pictures
<1> DEFINE p == k - 1
           q == k - 1 + Goods
<1>2. GJ(k) = Cardinality(Positions(shown, p)) + Cardinality(Positions(shown, q))
  BY <1>1 DEF GJ, Counted
<1> HIDE DEF p, q
<1>3. shown \in Seq(Pictures \cup {-1})
  BY DEF Typed
<1>4. /\ IsFiniteSet(Positions(shown, p)) /\ IsFiniteSet(Positions(shown, q))
      /\ Cardinality(Positions(shown, p)) \in Nat /\ Cardinality(Positions(shown, q)) \in Nat
  BY <1>3, PositionsFinite
<1>5. Positions(shown, p) \cap Positions(shown, q) = {}
  BY <1>1 DEF Positions, p, q
<1>6. Cardinality(Positions(shown, p) \cup Positions(shown, q))
        = Cardinality(Positions(shown, p)) + Cardinality(Positions(shown, q)) - Cardinality({})
  BY <1>4, <1>5, FS_Union
<1>7. Cardinality({}) = 0
  BY FS_EmptySet
<1>8. Seen(k) = Cardinality(Positions(shown, p) \cup Positions(shown, q))
  <2>1. {r \in 1..Len(shown) : shown[r] \in {p, q}}
          = Positions(shown, p) \cup Positions(shown, q)
    BY DEF Positions
  <2> QED BY <2>1 DEF Seen, p, q
<1> QED BY <1>2, <1>4, <1>6, <1>7, <1>8
-----------------------------------------------------------------------------
(* Every step keeps GoodsInv: one lemma for each action.                   *)


LEMMA CaptureLoadKeeps == GoodsInv /\ CaptureLoad => GoodsInv'
<1> SUFFICES ASSUME GoodsInv, CaptureLoad PROVE GoodsInv'
  OBVIOUS
<1>0. Typed /\ CameraLast /\ SamplesLoaded /\ Counted /\ DigitsOfCount /\ ItemOfDigits
  BY DEF GoodsInv
<1>1. Typed'
  BY <1>0, Bounds DEF Typed, CaptureLoad, capVars, msgVars
<1>2. CameraLast'
  BY <1>0, Bounds DEF CameraLast, Typed, CaptureLoad, capVars, msgVars
<1>3. SamplesLoaded'
  BY <1>0 DEF SamplesLoaded, CaptureLoad, capVars, msgVars
<1>4. Counted'
  BY <1>0 DEF Counted, CaptureLoad, capVars, msgVars
<1>5. DigitsOfCount'
  BY <1>0 DEF DigitsOfCount, AllDigits, GJ, CaptureLoad, capVars, msgVars
<1>6. ItemOfDigits'
  BY <1>0 DEF ItemOfDigits, Made, CaptureLoad, capVars, msgVars
<1> QED BY <1>1, <1>2, <1>3, <1>4, <1>5, <1>6 DEF GoodsInv

LEMMA CaptureLoadedKeeps == GoodsInv /\ CaptureLoaded => GoodsInv'
<1> SUFFICES ASSUME GoodsInv, CaptureLoaded PROVE GoodsInv'
  OBVIOUS
<1>0. Typed /\ CameraLast /\ SamplesLoaded /\ Counted /\ DigitsOfCount /\ ItemOfDigits
  BY DEF GoodsInv
<1>1. Typed'
  BY <1>0, Bounds DEF Typed, CaptureLoaded, capVars, msgVars
<1>2. CameraLast'
  BY <1>0, Bounds DEF CameraLast, Typed, CaptureLoaded, capVars, msgVars
<1>3. SamplesLoaded'
  BY <1>0 DEF SamplesLoaded, CaptureLoaded, capVars, msgVars
<1>4. Counted'
  BY <1>0 DEF Counted, CaptureLoaded, capVars, msgVars
<1>5. DigitsOfCount'
  BY <1>0 DEF DigitsOfCount, AllDigits, GJ, CaptureLoaded, capVars, msgVars
<1>6. ItemOfDigits'
  BY <1>0 DEF ItemOfDigits, Made, CaptureLoaded, capVars, msgVars
<1> QED BY <1>1, <1>2, <1>3, <1>4, <1>5, <1>6 DEF GoodsInv

LEMMA CaptureOpenKeeps == GoodsInv /\ CaptureOpen => GoodsInv'
<1> SUFFICES ASSUME GoodsInv, CaptureOpen PROVE GoodsInv'
  OBVIOUS
<1>0. Typed /\ CameraLast /\ SamplesLoaded /\ Counted /\ DigitsOfCount /\ ItemOfDigits
  BY DEF GoodsInv
<1>1. Typed'
  BY <1>0, Bounds DEF Typed, CaptureOpen, capVars, msgVars
<1>2. CameraLast'
  BY <1>0, Bounds DEF CameraLast, Typed, CaptureOpen, capVars, msgVars
<1>3. SamplesLoaded'
  BY <1>0 DEF SamplesLoaded, CaptureOpen, capVars, msgVars
<1>4. Counted'
  BY <1>0 DEF Counted, CaptureOpen, capVars, msgVars
<1>5. DigitsOfCount'
  BY <1>0 DEF DigitsOfCount, AllDigits, GJ, CaptureOpen, capVars, msgVars
<1>6. ItemOfDigits'
  BY <1>0 DEF ItemOfDigits, Made, CaptureOpen, capVars, msgVars
<1> QED BY <1>1, <1>2, <1>3, <1>4, <1>5, <1>6 DEF GoodsInv

LEMMA CloseKeeps == GoodsInv /\ Close => GoodsInv'
<1> SUFFICES ASSUME GoodsInv, Close PROVE GoodsInv'
  OBVIOUS
<1>0. Typed /\ CameraLast /\ SamplesLoaded /\ Counted /\ DigitsOfCount /\ ItemOfDigits
  BY DEF GoodsInv
<1>1. Typed'
  BY <1>0, Bounds DEF Typed, Close, capVars, msgVars
<1>2. CameraLast'
  BY <1>0, Bounds DEF CameraLast, Typed, Close, capVars, msgVars
<1>3. SamplesLoaded'
  BY <1>0 DEF SamplesLoaded, Close, capVars, msgVars
<1>4. Counted'
  BY <1>0 DEF Counted, Close, capVars, msgVars
<1>5. DigitsOfCount'
  BY <1>0 DEF DigitsOfCount, AllDigits, GJ, Close, capVars, msgVars
<1>6. ItemOfDigits'
  BY <1>0 DEF ItemOfDigits, Made, Close, capVars, msgVars
<1> QED BY <1>1, <1>2, <1>3, <1>4, <1>5, <1>6 DEF GoodsInv

LEMMA GrabKeeps == GoodsInv /\ Grab => GoodsInv'
<1> SUFFICES ASSUME GoodsInv, Grab PROVE GoodsInv'
  OBVIOUS
<1>0. Typed /\ CameraLast /\ SamplesLoaded /\ Counted /\ DigitsOfCount /\ ItemOfDigits
  BY DEF GoodsInv
<1>1. Typed'
  <2>1. /\ pcMsg = "try" /\ chance' = chance + 1 /\ chance \in 0..Chances /\ chance < Chances
        /\ UNCHANGED <<pcCap, testDesc, camera, reports>>
    BY <1>0 DEF Typed, Grab, capVars
  <2>2. /\ chance' \in 0..Chances /\ pcMsg' \in {"try", "regions", "item"}
        /\ pcMsg' # "item" => chance' < Chances
    BY <2>1, Bounds DEF Grab
  <2>3. shown' = shown \/ shown' = <<>>
    BY DEF Grab
  <2>4. shown' \in Seq(Pictures \cup {-1}) /\ Len(shown') <= Regions
    <3>1. <<>> \in Seq(Pictures \cup {-1}) /\ Len(<<>>) = 0
      OBVIOUS
    <3>2. shown \in Seq(Pictures \cup {-1}) /\ Len(shown) <= Regions
      BY <1>0 DEF Typed
    <3>3. CASE shown' = shown
      BY <3>2, <3>3
    <3>4. CASE shown' = <<>>
      BY <3>1, <3>4, Bounds
    <3> QED BY <2>3, <3>3, <3>4
  <2> QED BY <1>0, <2>1, <2>2, <2>4 DEF Typed
<1>2. CameraLast'
  BY <1>0, Bounds DEF CameraLast, Typed, Grab, capVars, msgVars
<1>3. SamplesLoaded'
  BY <1>0 DEF SamplesLoaded, Grab, capVars, msgVars
<1>4. Counted'
  <2>1. CASE UNCHANGED <<count, shown>>
    BY <1>0, <2>1 DEF Counted
  <2>2. CASE count' = NoCount /\ shown' = <<>>
    <3>1. \A a : Positions(<<>>, a) = {}
      BY DEF Positions
    <3>2. \A a : Cardinality(Positions(<<>>, a)) = 0
      BY <3>1, FS_EmptySet
    <3> QED BY <2>2, <3>2 DEF Counted, NoCount
  <2> QED BY <2>1, <2>2 DEF Grab
<1>5. DigitsOfCount'
  <2>1. CASE pcMsg' = "item"
    BY <1>0, <2>1 DEF DigitsOfCount, Grab
  <2>2. CASE pcMsg' # "item"
    BY <1>0, <2>2 DEF DigitsOfCount, Grab
  <2> QED BY <2>1, <2>2
<1>6. ItemOfDigits'
  BY <1>0 DEF ItemOfDigits, Made, Grab, capVars, msgVars
<1> QED BY <1>1, <1>2, <1>3, <1>4, <1>5, <1>6 DEF GoodsInv

LEMMA RegionKeeps == GoodsInv /\ Region => GoodsInv'
<1> SUFFICES ASSUME GoodsInv, Region PROVE GoodsInv'
  OBVIOUS
<1>0. Typed /\ CameraLast /\ SamplesLoaded /\ Counted /\ DigitsOfCount /\ ItemOfDigits
  BY DEF GoodsInv
<1>1. Typed'
  <2>1. PICK a \in {p \in Pictures : p < testDesc} \cup {-1} : shown' = Append(shown, a)
    BY DEF Region
  <2>2. /\ shown' \in Seq(Pictures \cup {-1}) /\ Len(shown') = Len(shown) + 1
    BY <1>0, <2>1 DEF Typed
  <2>3. Len(shown') <= Regions
    BY <1>0, <2>2, Bounds DEF Typed, Region
  <2> QED BY <1>0, <2>2, <2>3 DEF Typed, Region, capVars
<1>2. CameraLast'
  BY <1>0, Bounds DEF CameraLast, Typed, Region, capVars, msgVars
<1>3. SamplesLoaded'
  <2>1. testDesc = 2 * Goods
    BY <1>0 DEF CameraLast, Region
  <2> QED BY <1>0, <2>1 DEF SamplesLoaded, Region
<1>4. Counted'
  <2>1. PICK a \in {p \in Pictures : p < testDesc} \cup {-1} :
            /\ shown' = Append(shown, a)
            /\ count' = IF a < 0 THEN count ELSE [count EXCEPT ![a] = @ + 1]
    BY DEF Region
  <2>2. shown \in Seq(Pictures \cup {-1}) /\ a \in Pictures \cup {-1}
    BY <1>0 DEF Typed
  <2>3. \A p : Cardinality(Positions(shown', p))
                 = IF p = a THEN Cardinality(Positions(shown, p)) + 1
                   ELSE Cardinality(Positions(shown, p))
    BY <2>1, <2>2, PositionsAppend
  <2>4. CASE a = -1
    <3>1. \A p \in Pictures : p # a
      BY <2>4, Bounds DEF Pictures
    <3>2. count' = count
      BY <2>1, <2>4
    <3> QED BY <1>0, <2>3, <3>1, <3>2 DEF Counted
  <2>5. CASE a \in Pictures
    <3>1. count' = [count EXCEPT ![a] = @ + 1]
      BY <2>1, <2>5, Bounds DEF Pictures
    <3>2. count' = [p \in Pictures |-> IF p = a THEN count[p] + 1 ELSE count[p]]
      BY <1>0, <2>5, <3>1 DEF Counted
    <3>3. \A p \in Pictures : count[p] = Cardinality(Positions(shown, p))
      BY <1>0 DEF Counted
    <3> QED BY <2>3, <3>2, <3>3 DEF Counted
  <2> QED BY <2>2, <2>4, <2>5
<1>5. DigitsOfCount'
  BY <1>0 DEF DigitsOfCount, AllDigits, GJ, Region, capVars, msgVars
<1>6. ItemOfDigits'
  BY <1>0 DEF ItemOfDigits, Made, Region, capVars, msgVars
<1> QED BY <1>1, <1>2, <1>3, <1>4, <1>5, <1>6 DEF GoodsInv

LEMMA NumbersKeeps == GoodsInv /\ Numbers => GoodsInv'
<1> SUFFICES ASSUME GoodsInv, Numbers PROVE GoodsInv'
  OBVIOUS
<1>0. Typed /\ CameraLast /\ SamplesLoaded /\ Counted /\ DigitsOfCount /\ ItemOfDigits
  BY DEF GoodsInv
<1>1. Typed'
  BY <1>0, Bounds DEF Typed, Numbers, capVars, msgVars
<1>2. CameraLast'
  BY <1>0, Bounds DEF CameraLast, Typed, Numbers, capVars, msgVars
<1>3. SamplesLoaded'
  BY <1>0 DEF SamplesLoaded, Numbers, capVars, msgVars
<1>4. Counted'
  BY <1>0 DEF Counted, Numbers, capVars, msgVars
<1>5. DigitsOfCount'
  <2>1. object' = <<>> \o FlattenSeq([k \in 1..Goods |-> Digits(GJ(k))])
    BY <1>0 DEF DigitsOfCount, Numbers
  <2>2. object' = AllDigits
    BY <2>1 DEF AllDigits
  <2>3. AllDigits' = AllDigits
    BY DEF AllDigits, GJ, Numbers
  <2> QED BY <2>2, <2>3 DEF DigitsOfCount, Numbers
<1>6. ItemOfDigits'
  BY <1>0 DEF ItemOfDigits, Made, Numbers, capVars, msgVars
<1> QED BY <1>1, <1>2, <1>3, <1>4, <1>5, <1>6 DEF GoodsInv

LEMMA ItemKeeps == GoodsInv /\ Item => GoodsInv'
<1> SUFFICES ASSUME GoodsInv, Item PROVE GoodsInv'
  OBVIOUS
<1>0. Typed /\ CameraLast /\ SamplesLoaded /\ Counted /\ DigitsOfCount /\ ItemOfDigits
  BY DEF GoodsInv
<1>1. Typed'
  BY <1>0, Bounds DEF Typed, Item, capVars, msgVars
<1>2. CameraLast'
  BY <1>0, Bounds DEF CameraLast, Typed, Item, capVars, msgVars
<1>3. SamplesLoaded'
  BY <1>0 DEF SamplesLoaded, Item, capVars, msgVars
<1>4. Counted'
  BY <1>0 DEF Counted, Item, capVars, msgVars
<1>5. DigitsOfCount'
  BY <1>0 DEF DigitsOfCount, AllDigits, GJ, Item, capVars, msgVars
<1>6. ItemOfDigits'
  BY DEF ItemOfDigits, Members, Item
<1> QED BY <1>1, <1>2, <1>3, <1>4, <1>5, <1>6 DEF GoodsInv
-----------------------------------------------------------------------------
(* The theorems.                                                           *)

LEMMA GoodsInit == Init => GoodsInv
<1> SUFFICES ASSUME Init PROVE GoodsInv
  OBVIOUS
<1>1. Typed
  <2>1. <<>> \in Seq(Pictures \cup {-1}) /\ Len(<<>>) = 0
    OBVIOUS
  <2>2. testDesc = 0 /\ chance = 0 /\ reports = 0 /\ shown = <<>>
    BY DEF Init
  <2>3. /\ testDesc \in 0..(2 * Goods) /\ chance \in 0..Chances /\ reports \in 0..MaxReports
        /\ Len(shown) <= Regions
    BY <2>1, <2>2, Bounds
  <2> QED BY <2>1, <2>2, <2>3 DEF Init, Typed
<1>2. CameraLast /\ SamplesLoaded /\ DigitsOfCount /\ ItemOfDigits
  BY DEF Init, CameraLast, SamplesLoaded, DigitsOfCount, ItemOfDigits, Made
<1>3. Counted
  <2>1. \A a : Positions(<<>>, a) = {}
    BY DEF Positions
  <2>2. \A a : Cardinality(Positions(<<>>, a)) = 0
    BY <2>1, FS_EmptySet
  <2> QED BY <2>2 DEF Init, Counted, NoCount
<1> QED BY <1>1, <1>2, <1>3 DEF GoodsInv

LEMMA GoodsStutter == GoodsInv /\ UNCHANGED vars => GoodsInv'
<1> SUFFICES ASSUME GoodsInv, UNCHANGED vars PROVE GoodsInv'
  OBVIOUS
<1>0. UNCHANGED <<pcCap, testDesc, camera, pcMsg, chance, count, shown, known, object, item, reports>>
  BY DEF vars, capVars, msgVars
<1>1. Typed' /\ CameraLast' /\ SamplesLoaded' /\ Counted'
  BY <1>0 DEF GoodsInv, Typed, CameraLast, SamplesLoaded, Counted
<1>2. DigitsOfCount' /\ ItemOfDigits'
  BY <1>0 DEF GoodsInv, DigitsOfCount, AllDigits, GJ, ItemOfDigits, Made
<1> QED BY <1>1, <1>2 DEF GoodsInv

LEMMA GoodsStep == GoodsInv /\ [Next]_vars => GoodsInv'
BY CaptureLoadKeeps, CaptureLoadedKeeps, CaptureOpenKeeps, CloseKeeps, GrabKeeps,
   RegionKeeps, NumbersKeeps, ItemKeeps, GoodsStutter
   DEF Next, Capture, Message, Idle

LEMMA GoodsHolds == Spec => []GoodsInv
BY GoodsInit, GoodsStep, PTL DEF Spec

\* Every variable keeps its type; get_good_num is called at most Chances - 1
\* times for a report, and no number in count exceeds the regions.
THEOREM GoodsTypes == Spec => []TypeOK
<1>1. GoodsInv => TypeOK
  <2> SUFFICES ASSUME GoodsInv PROVE TypeOK
    OBVIOUS
  <2>1. Typed /\ Counted
    BY DEF GoodsInv
  <2>2. \A a : Cardinality(Positions(shown, a)) \in 0..Len(shown)
    BY <2>1, PositionsFinite DEF Typed
  <2>3. \A a : Cardinality(Positions(shown, a)) \in 0..Regions
    BY <2>1, <2>2, Bounds DEF Typed
  <2>4. count \in [Pictures -> 0..Regions]
    BY <2>1, <2>3 DEF Counted
  <2> QED BY <2>1, <2>4 DEF TypeOK, Typed
<1> QED BY <1>1, GoodsHolds, PTL

\* For any number of sample pictures in a file that has them all, none is
\* missing when a region is compared with them, although the two threads do not
\* wait for each other: a photo needs the camera, and the camera opens last
\* (surfPictureMatch.cpp:81-100).
THEOREM ComparedWithAll == Spec => []SamplesLoaded
<1>1. GoodsInv => SamplesLoaded
  BY DEF GoodsInv
<1> QED BY <1>1, GoodsHolds, PTL

\* However many regions, kinds and digits there are, the report made from a
\* photo says of every kind how many regions show it, and of nothing else, as
\* long as no number needs two digits (surfPictureMatch.cpp:141-161,
\* msg_process.cpp:241-249).
THEOREM ReportsWhatIsSeen == Spec => []ReportFaithful
<1>1. GoodsInv => ReportFaithful
  <2> SUFFICES ASSUME GoodsInv, Made, object # <<>>, \A k \in 1..Goods : Seen(k) < Base
               PROVE  item = {<<k, Seen(k)>> : k \in {g \in 1..Goods : Seen(g) > 0}}
    BY DEF ReportFaithful
  <2>1. Typed /\ Counted /\ DigitsOfCount /\ ItemOfDigits
    BY DEF GoodsInv
  <2>2. \A k \in 1..Goods : GJ(k) = Seen(k) /\ Seen(k) \in Nat
    BY <2>1, SeenCounted
  <2> DEFINE seqs == [k \in 1..Goods |-> Digits(GJ(k))]
  <2>3. object = <<>> \o FlattenSeq(seqs)
    BY <2>1 DEF DigitsOfCount, AllDigits, Made
  <2>4. \A k \in 1..Goods : Digits(GJ(k)) = <<Seen(k)>>
    BY <2>2 DEF Digits
  <2>5. seqs = [k \in 1..Goods |-> <<Seen(k)>>]
    BY <2>4
  <2> HIDE DEF seqs
  <2>6. /\ seqs \in Seq(Seq(Nat)) /\ Len(seqs) = Goods
        /\ \A k \in 1..Goods : seqs[k] = <<Seen(k)>>
    <3>1. \A k \in 1..Goods : <<Seen(k)>> \in Seq(Nat)
      BY <2>2
    <3> QED BY <2>5, <3>1, Bounds
  <2>7. \A k \in 1..Len(seqs) : Len(seqs[k]) = 1 /\ seqs[k][1] = Seen(k)
    <3>1. \A k \in 1..Goods : Len(<<Seen(k)>>) = 1 /\ <<Seen(k)>>[1] = Seen(k)
      OBVIOUS
    <3> QED BY <2>6, <3>1
  <2>8. FlattenSeq(seqs) = [k \in 1..Goods |-> seqs[k][1]]
    BY <2>6, <2>7, FlattenDigits
  <2>9. FlattenSeq(seqs) = [k \in 1..Goods |-> Seen(k)]
    BY <2>6, <2>7, <2>8
  <2>10. [k \in 1..Goods |-> Seen(k)] \in Seq(Nat)
    BY <2>2, Bounds
  <2>11. object = [k \in 1..Goods |-> Seen(k)]
    BY <2>3, <2>9, <2>10, ConcatEmptySeq
  <2>12. Len(object) = Goods /\ \A k \in 1..Goods : object[k] = Seen(k)
    BY <2>2, <2>11, Bounds
  <2>13. item = {<<k, object[k]>> : k \in {d \in 1..Len(object) : object[d] # 0}}
    BY <2>1 DEF ItemOfDigits, Members
  <2>14. {d \in 1..Len(object) : object[d] # 0} = {g \in 1..Goods : Seen(g) > 0}
    BY <2>2, <2>12
  <2> QED BY <2>12, <2>13, <2>14
<1> QED BY <1>1, GoodsHolds, PTL
-----------------------------------------------------------------------------
(* What one region is taken for (DotMatch).                                *)

LEMMA MatchTypeInit == MatchInit => MatchTypeOK
BY DotMatchConstantsOK DEF MatchInit, MatchTypeOK

LEMMA MatchTypeStep == ASSUME MatchTypeOK, [MatchNext]_matchVars PROVE MatchTypeOK'
<1> USE DotMatchConstantsOK DEF MatchTypeOK
<1>1. CASE Match
  BY <1>1 DEF Match
<1>2. CASE Judge
  BY <1>2 DEF Judge
<1>3. CASE Compare
  BY <1>3 DEF Compare, Longer
<1>4. CASE Return
  BY <1>4 DEF Return
<1>5. CASE MatchDone \/ UNCHANGED matchVars
  BY <1>5 DEF MatchDone, matchVars
<1> QED
  BY <1>1, <1>2, <1>3, <1>4, <1>5 DEF MatchNext

(* What the loop knows when it comes to position at: run is the length of   *)
(* the run that ends there, most that of the longest run so far, and best   *)
(* its name.                                                                *)
AtRun == at <= Len(count1) =>
  /\ run \in 1..at /\ RunAt(count1[at], run, at)
  /\ run < at => count1[at - run] # count1[at]
  /\ run <= most
NoLonger == \A v \in Images, n \in Nat \ {0, 1}, r \in 1..Len(count1) :
              r <= at /\ RunAt(v, n, r) => n <= most
HasBest == most >= 2 => HasRun(best, most) \/ RunAt(best, most - 1, Len(count1))
LoopInv == pcMatch = "loop" => AtRun /\ NoLonger /\ HasBest
NoneYet == pcMatch = "match" => at = 1 /\ best = 0 /\ most = 1 /\ run = 1 /\ answer = -1
DotInv == MatchTypeOK /\ NoneYet /\ LoopInv /\ LongestRunWins

LEMMA LoopStarts == ASSUME MatchTypeOK, NoneYet, Judge PROVE LoopInv'
<1> USE DEF MatchTypeOK, NoneYet, Judge
<1>1. AtRun'
  BY DEF AtRun, RunAt
<1>2. NoLonger'
  BY DEF NoLonger, RunAt
<1>3. HasBest'
  BY DEF HasBest
<1> QED
  BY <1>1, <1>2, <1>3 DEF LoopInv

LEMMA LoopStep == ASSUME MatchTypeOK, LoopInv, Compare PROVE LoopInv'
<1> USE DEF MatchTypeOK
<1>1. AtRun /\ NoLonger /\ HasBest /\ at \in 1..Len(count1) /\ at' = at + 1
      /\ UNCHANGED <<pcMatch, count1>>
  BY DEF Compare, LoopInv
<1>0. MatchTypeOK'
  BY MatchTypeStep DEF MatchNext
<1>2. PICK next \in Follower :
        IF count1[at] = next THEN Longer ELSE run' = 1 /\ UNCHANGED <<best, most>>
  BY DEF Compare
<1>3. at < Len(count1) => next = count1[at + 1]
  BY DEF Follower
<1>4. AtRun'
  BY <1>1, <1>2, <1>3 DEF AtRun, RunAt, Longer
<1>5. NoLonger'
  <2>1. SUFFICES ASSUME NEW v \in Images, NEW n \in Nat \ {0, 1},
                        NEW r \in 1..Len(count1), r <= at + 1, RunAt(v, n, r)
                 PROVE  n <= most'
    BY <1>1 DEF NoLonger, RunAt
  <2>2. most <= most'
    BY <1>2 DEF Longer
  <2>3. CASE r <= at
    BY <1>0, <1>1, <2>1, <2>2, <2>3 DEF NoLonger
  <2>4. CASE r = at + 1
    <3>1. at < Len(count1) /\ count1[at + 1] = v /\ count1[at] = v
      BY <2>1, <2>4 DEF RunAt
    <3>2. run' = run + 1 /\ run' <= most'
      BY <1>2, <1>3, <3>1 DEF Longer
    <3>3. n <= run + 1
      BY <1>1, <2>1, <2>4, <3>1 DEF AtRun, RunAt
    <3> QED
      BY <3>2, <3>3, <1>2 DEF Longer
  <2> QED
    BY <2>1, <2>3, <2>4
<1>6. HasBest'
  <2>1. CASE most' = most /\ best' = best
    BY <1>1, <2>1 DEF HasBest, HasRun, RunAt
  <2>2. CASE count1[at] = next /\ run + 1 > most
    <3>1. most' = run + 1 /\ best' = count1[at] /\ RunAt(count1[at], run, at)
          /\ run \in 1..at
      BY <1>1, <1>2, <2>2 DEF Longer, AtRun
    <3>2. CASE at < Len(count1)
      <4>1. RunAt(count1[at], run + 1, at + 1)
        BY <1>1, <1>3, <2>2, <3>1, <3>2 DEF RunAt
      <4>2. HasRun(best', most')
        BY <1>1, <3>1, <3>2, <4>1 DEF HasRun
      <4>3. HasRun(best, most)'
        BY <1>1, <4>2 DEF HasRun, RunAt
      <4> QED
        BY <4>3 DEF HasBest
    <3>3. CASE at = Len(count1)
      BY <1>1, <3>1, <3>3 DEF HasBest, RunAt
    <3> QED
      BY <1>1, <3>2, <3>3
  <2> QED
    BY <1>2, <2>1, <2>2 DEF Longer
<1> QED
  BY <1>4, <1>5, <1>6 DEF LoopInv

LEMMA DotWins ==
  ASSUME MatchTypeOK, LoopInv, Return PROVE LongestRunWins'
<1>1. SUFFICES ASSUME NEW v \in Images, NEW n \in 2..Len(count1), HasRun(v, n)
               PROVE  HasRun(best, n) \/ RunAt(best, n - 1, Len(count1))
  <2>1. answer' = best /\ count1' = count1
    BY DEF Return
  <2> QED
    BY <2>1 DEF LongestRunWins, HasRun, RunAt
<1>2. AtRun /\ NoLonger /\ HasBest /\ at = Len(count1) + 1
  BY DEF Return, LoopInv, MatchTypeOK
<1>3. n <= most
  BY <1>1, <1>2 DEF NoLonger, HasRun, MatchTypeOK
<1>4. HasRun(best, most) \/ RunAt(best, most - 1, Len(count1))
  BY <1>2, <1>3 DEF HasBest, MatchTypeOK
<1> QED
  BY <1>3, <1>4 DEF HasRun, RunAt, MatchTypeOK

LEMMA DotInit == MatchInit => DotInv
BY MatchTypeInit DEF MatchInit, DotInv, NoneYet, LoopInv, LongestRunWins

LEMMA DotStep == ASSUME DotInv, [MatchNext]_matchVars PROVE DotInv'
<1>1. MatchTypeOK'
  BY MatchTypeStep DEF DotInv
<1>2. CASE Match
  BY <1>1, <1>2 DEF Match, DotInv, NoneYet, LoopInv, LongestRunWins
<1>3. CASE Judge
  <2>1. LoopInv'
    BY <1>3, LoopStarts DEF DotInv
  <2>2. NoneYet' /\ LongestRunWins'
    BY <1>3 DEF Judge, DotInv, NoneYet, LongestRunWins
  <2> QED
    BY <1>1, <2>1, <2>2 DEF DotInv
<1>4. CASE Compare
  <2>1. LoopInv'
    BY <1>4, LoopStep DEF DotInv
  <2>2. NoneYet' /\ LongestRunWins'
    BY <1>4 DEF Compare, DotInv, NoneYet, LongestRunWins
  <2> QED
    BY <1>1, <2>1, <2>2 DEF DotInv
<1>5. CASE Return
  <2>1. LongestRunWins'
    BY <1>5, DotWins DEF DotInv
  <2>2. NoneYet' /\ LoopInv'
    BY <1>5 DEF Return, NoneYet, LoopInv
  <2> QED
    BY <1>1, <2>1, <2>2 DEF DotInv
<1>6. CASE MatchDone \/ UNCHANGED matchVars
  <2>1. UNCHANGED matchVars
    BY <1>6 DEF MatchDone
  <2>2. NoneYet'
    BY <2>1 DEF matchVars, DotInv, NoneYet
  <2>3. LoopInv'
    BY <2>1 DEF matchVars, DotInv, LoopInv, AtRun, NoLonger, HasBest, HasRun, RunAt
  <2>4. LongestRunWins'
    BY <2>1 DEF matchVars, DotInv, LongestRunWins, HasRun, RunAt
  <2> QED
    BY <1>1, <2>2, <2>3, <2>4 DEF DotInv
<1> QED
  BY <1>2, <1>3, <1>4, <1>5, <1>6 DEF MatchNext

(* The answer of surfFeatureDotMatch is none or a picture's index, whatever *)
(* lies behind the array (surfPictureMatch.cpp:296).                        *)
THEOREM AnswerInRange == MatchSpec => []MatchTypeOK
BY MatchTypeInit, MatchTypeStep, PTL DEF MatchSpec

(* The longest run of equal count1 wins, for any number of pictures and      *)
(* matches (surfPictureMatch.cpp:290-306).                                  *)
THEOREM LongestWins == MatchSpec => []LongestRunWins
<1>1. MatchInit => DotInv
  BY DotInit
<1>2. DotInv /\ [MatchNext]_matchVars => DotInv'
  BY DotStep
<1>3. DotInv => LongestRunWins
  BY DEF DotInv
<1> QED
  BY <1>1, <1>2, <1>3, PTL DEF MatchSpec
-----------------------------------------------------------------------------
(* The matching inside the report (GoodsMatch).                            *)

\* Whatever surfFeatureDotMatch returns, GoodsReport lets a region show: what is
\* proved of the report holds with the matching in it
\* (surfPictureMatch.cpp:141-146).
THEOREM MatchingReports == MatchingSpec => Spec
<1>1. MatchingInit => Init
  BY DEF MatchingInit
<1>2. [MatchingNext]_allVars => [Next]_vars
  BY DEF MatchingNext, CaptureMatching, MessageMatching, RegionCalls, RegionReturns,
         RegionAtOnce, Next, Message, allVars
<1> QED BY <1>1, <1>2, PTL DEF MatchingSpec, Spec

LEMMA DotRestarts == ASSUME RegionReturns PROVE DotInv'
<1>1. /\ pcMatch' = "match" /\ count1' = <<>> /\ answer' = -1
      /\ at' = 1 /\ best' = 0 /\ most' = 1 /\ run' = 1
  BY DEF RegionReturns
<1>2. MatchTypeOK'
  BY <1>1, DotMatchConstantsOK DEF MatchTypeOK
<1> QED BY <1>1, <1>2 DEF DotInv, NoneYet, LoopInv, LongestRunWins

\* The longest run wins also in a call of get_good_num, and the answer is none or
\* an index of count, however the capture thread and the report go on
\* (surfPictureMatch.cpp:141-146, 290-306).
THEOREM LongestWinsInReport == MatchingSpec => [](MatchTypeOK /\ LongestRunWins)
<1>1. MatchingInit => DotInv
  BY DotInit DEF MatchingInit
<1>2. DotInv /\ [MatchingNext]_allVars => DotInv'
  <2> SUFFICES ASSUME DotInv, [MatchingNext]_allVars PROVE DotInv'
    OBVIOUS
  <2>1. CASE RegionReturns
    BY <2>1, DotRestarts
  <2>2. CASE RegionCalls
    BY <2>2, DotStep DEF RegionCalls, MatchNext
  <2>3. CASE UNCHANGED matchVars
    BY <2>3, DotStep
  <2> QED
    BY <2>1, <2>2, <2>3
       DEF MatchingNext, CaptureMatching, MessageMatching, RegionAtOnce, allVars
<1>3. DotInv => MatchTypeOK /\ LongestRunWins
  BY DEF DotInv
<1> QED BY <1>1, <1>2, <1>3, PTL DEF MatchingSpec
==============================================================================
