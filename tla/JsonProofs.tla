------------------------------ MODULE JsonProofs ------------------------------
EXTENDS JsonProps, SequenceTheorems, FiniteSetTheorems, WellFoundedInduction, TLAPS
Below_ == OpToRel(<, Nat)

\* Every set of natural numbers has a least element.
LEMMA NatMin ==
  ASSUME NEW T, T \subseteq Nat, T # {}
  PROVE  \E x \in T : \A y \in T : x <= y
<1>1. IsWellFoundedOn(OpToRel(<,Nat), Nat)
  BY NatLessThanWellFounded
<1>2. IsWellFoundedOn(Below_, Nat)
  BY <1>1 DEF Below_
<1>3. PICK x \in T : \A y \in T : <<y, x>> \notin Below_
  BY <1>2, WFMin
<1>4. \A i, j \in Nat : <<j, i>> \in Below_ <=> j < i
  BY DEF Below_, OpToRel
<1>5. \A y \in T : ~(y < x)
  BY <1>3, <1>4
<1>6. \A y \in T : x <= y
  BY <1>5
<1> QED BY <1>6

\* A set that has 0, and n + 1 with every n below b, has all numbers up to b.
LEMMA UpTo ==
  ASSUME NEW T, NEW b \in Nat, 0 \in T,
         \A n \in 0..(b - 1) : n \in T => n + 1 \in T
  PROVE  \A n \in 0..b : n \in T
<1> DEFINE F == {n \in 0..b : n \notin T}
<1> SUFFICES ASSUME F # {} PROVE FALSE
  OBVIOUS
<1>1. F \subseteq Nat
  OBVIOUS
<1>2. PICK m \in F : \A y \in F : m <= y
  BY <1>1, NatMin
<1>3. m \in 0..b /\ m \notin T /\ m # 0
  OBVIOUS
<1>4. m - 1 \in 0..(b - 1) /\ m - 1 \in 0..b /\ ~(m <= m - 1) /\ (m - 1) + 1 = m
  BY <1>3
<1>5. m - 1 \in T
  BY <1>2, <1>4
<1> QED BY <1>3, <1>4, <1>5

\* Min finds the least element.
LEMMA MinIs ==
  ASSUME NEW T, T \subseteq Nat, T # {}
  PROVE  Min(T) \in T /\ \A y \in T : Min(T) <= y
<1>1. \E x \in T : \A y \in T : x <= y
  BY NatMin
<1> QED BY <1>1 DEF Min
-----------------------------------------------------------------------------
(* The control of the reader. *)

Frame == [in : {"object"}, name : Int, empty : BOOLEAN] \cup [in : {"array"}, index : Nat]
Pcs   == {"value", "name", "colon", "comma", "comment", "first", "item", "recover",
          "close", "done"}
Inner == calls[Len(calls)]

\* The innermost activation is the one that pc belongs to, and the last of all
\* is left when the value of the root is there.
ControlOK ==
  /\ calls \in Seq(Frame)
  /\ pc \in Pcs
  /\ pc \in {"name", "colon", "comma", "comment"} => calls # <<>> /\ Inner.in = "object"
  /\ pc \in {"first", "item"} => calls # <<>> /\ Inner.in = "array"
  /\ pc = "recover" => calls # <<>>
  /\ pc \in {"close", "done"} => calls = <<>>

TextOK == text \in Seq(Lexeme)

\* A line of a comment ends within the text.
LEMMA LineEndsIn ==
  ASSUME TextOK
  PROVE  LineEnds \in 0 .. Len(text)
<1> DEFINE I == {i \in 1 .. Len(text) : text[i].tok \in NewLines}
<1>1. LineEnds = IF I # {} THEN Min(I) ELSE 0
  BY DEF LineEnds, SelectInSeq
<1>2. Len(text) \in Nat
  BY DEF TextOK
<1>3. CASE I = {}
  BY <1>1, <1>2, <1>3
<1>4. CASE I # {}
  <2>1. I \subseteq Nat
    BY <1>2
  <2>2. Min(I) \in I
    BY <2>1, <1>4, MinIs
  <2> QED BY <1>1, <1>4, <2>2
<1> QED BY <1>3, <1>4

\* What is left behind the token is a text, and shorter.
Rest == SubSeq(text, TokenLength + 1, Len(text))

\* What is left behind a token is a text, and shorter.
LEMMA RestOfText ==
  ASSUME TextOK
  PROVE  /\ TokenLength \in Nat
         /\ Rest \in Seq(Lexeme)
         /\ Len(Rest) \in Nat /\ Len(text) \in Nat
         /\ text = <<>> => Rest = <<>> /\ Len(Rest) = 0 /\ Len(text) = 0
         /\ text # <<>> => TokenLength \in 1 .. Len(text) /\ Len(Rest) < Len(text)
<1> DEFINE n == TokenLength
<1>1. LineEnds \in 0 .. Len(text) /\ Len(text) \in Nat
  BY LineEndsIn DEF TextOK
<1>2. CASE text = <<>>
  <2>1. n = 1 /\ Len(text) = 0
    BY <1>2 DEF TokenLength, Token, Mark, Lex
  <2>2. SubSeq(text, n + 1, Len(text)) = <<>>
    BY <1>2, <2>1
  <2>3. Rest = <<>>
    BY <2>2 DEF Rest
  <2> QED BY <2>1, <2>3, <1>2
<1>3. CASE text # <<>>
  <2>1. Len(text) > 0
    BY <1>3, <1>1 DEF TextOK
  <2>2. n \in 1 .. Len(text)
    BY <2>1, <1>1 DEF TokenLength
  <2>3. SubSeq(text, n + 1, Len(text)) \in Seq(Lexeme) /\ Len(SubSeq(text, n + 1, Len(text))) = Len(text) - n
    BY <2>2, <1>1, SubSeqProperties DEF TextOK
  <2> HIDE DEF n
  <2>4. Rest = SubSeq(text, n + 1, Len(text))
    BY DEF Rest, n
  <2>5. Rest \in Seq(Lexeme) /\ Len(Rest) = Len(text) - n
    BY <2>3, <2>4
  <2>6. n = TokenLength
    BY DEF n
  <2> QED BY <2>2, <2>5, <2>6, <1>1, <1>3
<1> QED BY <1>2, <1>3

\* A sequence without its last element.
LEMMA FrontOf ==
  ASSUME NEW S, NEW s \in Seq(S), s # <<>>
  PROVE  /\ Front(s) \in Seq(S)
         /\ Len(Front(s)) = Len(s) - 1
         /\ \A i \in 1 .. Len(s) - 1 : Front(s)[i] = s[i]
         /\ s[Len(s)] \in S
<1>1. Len(s) \in Nat /\ Len(s) > 0 /\ \A i \in 1 .. Len(s) : s[i] \in S
  OBVIOUS
<1> DEFINE n == Len(s) - 1
           f == SubSeq(s, 1, n)
<1>2. n \in Nat /\ n + 1 = Len(s) /\ n - 1 + 1 = n /\ \A i \in 1 .. n : s[i] \in S /\ 1 + i - 1 = i
  BY <1>1
<1>3. f \in Seq(S) /\ Len(f) = (IF 1 <= n THEN n - 1 + 1 ELSE 0)
      /\ \A i \in 1 .. n - 1 + 1 : f[i] = s[1 + i - 1]
  BY <1>2, SubSeqProperties
<1>4. f \in Seq(S) /\ Len(f) = n /\ \A i \in 1 .. n : f[i] = s[i]
  BY <1>2, <1>3
<1> QED BY <1>1, <1>4 DEF Front

\* Returning from readObject or readArray.
LEMMA ReturnControl ==
  ASSUME NEW outer \in Seq(Frame), NEW ok \in BOOLEAN, ReturnTo(outer, ok)
  PROVE  ControlOK' /\ calls' = outer
         /\ pc' \in {"comma", "item", "recover", "close"}
         /\ (ok = FALSE => pc' \in {"recover", "close"})
<1>1. CASE outer = <<>>
  <2>1. calls' = <<>> /\ pc' = "close"
    BY <1>1 DEF ReturnTo, Resume
  <2> QED BY <2>1, <1>1 DEF ControlOK, Pcs
<1>2. CASE outer # <<>>
  <2>1. outer[Len(outer)] \in Frame
    BY <1>2, FrontOf
  <2>2. outer[Len(outer)].in \in {"object", "array"}
    BY <2>1 DEF Frame
  <2>3. calls' = outer
    BY DEF ReturnTo
  <2>4. CASE ok = FALSE
    <3>1. pc' = "recover"
      BY <2>4, <1>2 DEF ReturnTo, Resume
    <3> QED BY <3>1, <2>3, <1>2, <2>4 DEF ControlOK, Pcs
  <2>5. CASE ok = TRUE
    <3>1. pc' = IF outer[Len(outer)].in = "object" THEN "comma" ELSE "item"
      BY <2>5, <1>2 DEF ReturnTo, Resume
    <3> QED BY <3>1, <2>2, <2>3, <1>2, <2>5 DEF ControlOK, Pcs, Inner
  <2> QED BY <2>4, <2>5
<1> QED BY <1>1, <1>2

\* Going into a value.
LEMMA DescendControl ==
  ASSUME calls \in Seq(Frame), calls # <<>>, NEW frame \in Frame, NEW k, Descend(frame, k)
  PROVE  ControlOK' /\ Len(calls') = Len(calls) /\ pc' = "value"
<1>1. Front(calls) \in Seq(Frame) /\ Len(Front(calls)) = Len(calls) - 1
  BY FrontOf
<1>2. calls' \in Seq(Frame) /\ Len(calls') = Len(calls)
  BY <1>1, AppendProperties DEF Descend
<1> QED BY <1>2 DEF Descend, ControlOK, Pcs

\* An error leads to the recovery.
LEMMA FailControl ==
  ASSUME calls \in Seq(Frame), calls # <<>>, NEW m, Fail(m), UNCHANGED calls
  PROVE  ControlOK' /\ pc' = "recover"
BY DEF Fail, ControlOK, Pcs

\* Taking a token shortens the text.
LEMMA TakeText ==
  ASSUME TextOK, Take
  PROVE  /\ TextOK'
         /\ Len(text') \in Nat /\ Len(text) \in Nat /\ Len(text') <= Len(text)
         /\ text # <<>> => Len(text') < Len(text)
<1>1. text' = Rest
  BY DEF Take, Rest
<1> QED BY <1>1, RestOfText DEF TextOK

\* A token that is not the end is in the text.
LEMMA TokenThere ==
  ASSUME NEW tok, tok # "end", Token.tok = tok
  PROVE  text # <<>> /\ Token = Head(text)
BY DEF Token, Mark, Lex

\* A comment is a token of the text.
LEMMA CommentThere == IsComment => text # <<>> /\ Ready /\ Token.tok # "end"
BY TokenThere DEF IsComment, CommentTokens

\* Every step of parse keeps the order of the activations, and comes nearer to
\* the end.
Near == Distance' < Distance

\* What brings the reader nearer to its end.
LEMMA Nearer ==
  ASSUME Len(text) \in Nat, Len(text') \in Nat, Len(calls) \in Nat, Len(calls') \in Nat,
         pc \in Pcs, pc' \in Pcs,
         3 * Len(text') + Len(calls') + Ahead[pc'] < 3 * Len(text) + Len(calls) + Ahead[pc]
  PROVE  Near
BY DEF Near, Distance

\* The steps of an activation that are still ahead.
LEMMA AheadOf == \A p \in Pcs :
  /\ Ahead[p] \in 0 .. 4
  /\ p \in {"first", "comment", "item"} => Ahead[p] = 4
  /\ p \in {"value", "name", "colon", "comma"} => Ahead[p] = 3
  /\ p = "recover" => Ahead[p] = 2
  /\ p = "close" => Ahead[p] = 1
  /\ p = "done" => Ahead[p] = 0
BY DEF Ahead, Pcs

\* The names of members are numbers.
LEMMA NameOfInt == \A chars : NameOf(chars) \in Int
<1> TAKE chars
<1> DEFINE I == {i \in 1 .. Len(Names) : Names[i] = CStr(chars)}
<1>1. Len(Names) \in Nat
  BY NamesAssumption
<1>2. I \subseteq Nat
  BY <1>1
<1>3. I # {} => Min(I) \in Int
  BY <1>2, MinIs
<1>4. NameOf(chars) = (IF I # {} THEN Min(I) ELSE 0) - 1
  BY DEF NameOf, SelectInSeq
<1> HIDE DEF I
<1> QED BY <1>3, <1>4

\* A sequence and one more element.
LEMMA AppendOf ==
  ASSUME NEW S, NEW s \in Seq(S), NEW e \in S
  PROVE  /\ Append(s, e) \in Seq(S) /\ Append(s, e) # <<>>
         /\ Len(Append(s, e)) = Len(s) + 1
         /\ Append(s, e)[Len(Append(s, e))] = e
         /\ \A i \in 1 .. Len(s) : Append(s, e)[i] = s[i]
<1>1. Append(s, e) \in Seq(S) /\ Append(s, e) # <<>> /\ Len(Append(s, e)) = Len(s) + 1
      /\ Append(s, e)[Len(s) + 1] = e /\ \A i \in 1 .. Len(s) : Append(s, e)[i] = s[i]
  BY AppendProperties
<1> QED BY <1>1

\* Decoding succeeds or fails.
LEMMA DecodedOk ==
  ASSUME NEW chars, NEW tok \in {"number", "string", "true", "false", "null"}
  PROVE  Decoded(tok, chars).ok \in BOOLEAN
BY DEF Decoded, Bad

Advance == ControlOK' /\ TextOK' /\ Near

\* A step advances when it shortens the text, or its activation.
LEMMA AdvanceBy ==
  ASSUME ControlOK, TextOK, ControlOK', TextOK',
         \/ Len(text') < Len(text) /\ Len(calls') + Ahead[pc'] < 3 + Len(calls) + Ahead[pc]
         \/ Len(text') <= Len(text) /\ Len(calls') + Ahead[pc'] < Len(calls) + Ahead[pc]
  PROVE  Advance
<1>1. Len(text) \in Nat /\ Len(text') \in Nat /\ Len(calls) \in Nat /\ Len(calls') \in Nat
      /\ pc \in Pcs /\ pc' \in Pcs
  BY DEF ControlOK, TextOK
<1>2. Ahead[pc] \in 0 .. 4 /\ Ahead[pc'] \in 0 .. 4
  BY <1>1, AheadOf
<1>3. ASSUME NEW t \in Nat, NEW u \in Nat, NEW c \in Nat, NEW d \in Nat, NEW a \in 0 .. 4, NEW b \in 0 .. 4,
             (u < t /\ d + b < 3 + c + a) \/ (u <= t /\ d + b < c + a)
      PROVE  3 * u + d + b < 3 * t + c + a
  BY <1>3
<1>4. 3 * Len(text') + Len(calls') + Ahead[pc'] < 3 * Len(text) + Len(calls) + Ahead[pc]
  BY <1>1, <1>2, <1>3
<1> QED BY <1>1, <1>4, Nearer DEF Advance

\* Every step of the reader advances.
LEMMA ReadStep ==
  ASSUME ControlOK, TextOK, ParseStep
  PROVE  Advance
<1>1. Len(calls) \in Nat /\ calls \in Seq(Frame) /\ Len(text) \in Nat /\ pc \in Pcs
      /\ (pc \in {"name", "colon", "comma", "comment", "first", "item", "recover"} => calls # <<>>)
  BY DEF ControlOK, TextOK
<1>2. calls # <<>> => Front(calls) \in Seq(Frame) /\ Len(Front(calls)) = Len(calls) - 1 /\ Inner \in Frame
  BY <1>1, FrontOf DEF Inner
<1>3. CASE SkipSpaces
  <2>1. text # <<>> /\ text' = Tail(text) /\ UNCHANGED <<pc, calls>>
    BY <1>3 DEF SkipSpaces
  <2>2. text' \in Seq(Lexeme) /\ Len(text') = Len(text) - 1
    BY <2>1, HeadTailProperties DEF TextOK
  <2>3. TextOK' /\ Len(text') < Len(text)
    BY <2>2, <1>1 DEF TextOK
  <2>4. ControlOK'
    BY <2>1 DEF ControlOK, Inner
  <2>5. Len(calls') + Ahead[pc'] < 3 + Len(calls) + Ahead[pc]
    BY <2>1, <1>1, AheadOf
  <2> QED BY <2>3, <2>4, <2>5, AdvanceBy
<1>4. CASE SkipComment
  <2>1. Take /\ UNCHANGED calls /\ IsComment
        /\ pc \in {"name", "comma", "comment", "item", "recover", "value", "close"}
        /\ pc' = (IF pc = "comma" THEN "comment" ELSE pc)
    BY <1>4 DEF SkipComment, TakeComment
  <2>2. TextOK' /\ Len(text') < Len(text)
    BY <2>1, CommentThere, TakeText
  <2>3. ControlOK'
    BY <2>1 DEF ControlOK, Pcs, Inner
  <2>4. Len(calls') + Ahead[pc'] < 3 + Len(calls) + Ahead[pc]
    BY <2>1, <1>1, AheadOf DEF Pcs
  <2> QED BY <2>2, <2>3, <2>4, AdvanceBy
<1>5. CASE ReadScalar
  <2>1. PICK ok \in BOOLEAN : ReturnTo(calls, ok)
    BY <1>5, DecodedOk DEF ReadScalar, Finished
  <2>2. pc = "value" /\ Take /\ text # <<>>
    BY <1>5, TokenThere DEF ReadScalar, ValueToken
  <2>3. TextOK' /\ Len(text') < Len(text)
    BY <2>2, TakeText
  <2>4. calls' = calls /\ pc' \in {"comma", "item", "recover", "close"} /\ ControlOK'
    BY <2>1, <1>1, ReturnControl
  <2>5. Len(calls') + Ahead[pc'] < 3 + Len(calls) + Ahead[pc]
    BY <2>2, <2>4, <1>1, AheadOf DEF Pcs
  <2> QED BY <2>3, <2>4, <2>5, AdvanceBy
<1>6. ASSUME NEW tok, tok # "end", NEW type, NEW frame \in Frame, NEW next \in {"name", "first"},
             ReadContainer(tok, type, frame, next),
             next = "name" => frame.in = "object", next = "first" => frame.in = "array"
      PROVE  Advance
  <2>1. pc = "value" /\ Take /\ text # <<>> /\ calls' = Append(calls, frame) /\ pc' = next
    BY <1>6, TokenThere DEF ReadContainer, ValueToken
  <2>2. TextOK' /\ Len(text') < Len(text)
    BY <2>1, TakeText
  <2>3. calls' \in Seq(Frame) /\ Len(calls') = Len(calls) + 1 /\ calls' # <<>> /\ Inner' = frame
    <3>1. Append(calls, frame) \in Seq(Frame) /\ Append(calls, frame) # <<>>
          /\ Len(Append(calls, frame)) = Len(calls) + 1
          /\ Append(calls, frame)[Len(Append(calls, frame))] = frame
      BY <1>1, AppendOf
    <3> QED BY <2>1, <3>1 DEF Inner
  <2>4. ControlOK'
    BY <2>1, <2>3, <1>6 DEF ControlOK, Pcs
  <2>5. Len(calls') + Ahead[pc'] < 3 + Len(calls) + Ahead[pc]
    <3>1. Ahead[pc] = 3 /\ Ahead[pc'] \in 0 .. 4
      BY <2>1, AheadOf DEF Pcs
    <3>2. ASSUME NEW c \in Nat, NEW a \in 0 .. 4 PROVE (c + 1) + a < 3 + c + 3
      OBVIOUS
    <3> QED BY <3>1, <3>2, <2>3, <1>1
  <2> QED BY <2>2, <2>4, <2>5, AdvanceBy
<1>7. CASE ReadObject \/ ReadArray
  <2>1. Object(0, TRUE) \in Frame /\ Array(0) \in Frame /\ Object(0, TRUE).in = "object" /\ Array(0).in = "array"
    BY DEF Object, Array, Frame
  <2> QED BY <1>7, <2>1, <1>6 DEF ReadObject, ReadArray
<1>8. CASE NoValue
  <2>1. pc = "value" /\ Take /\ ReturnTo(calls, FALSE)
    BY <1>8 DEF NoValue, ValueToken
  <2>2. TextOK' /\ Len(text') <= Len(text)
    BY <2>1, TakeText
  <2>3. calls' = calls /\ pc' \in {"recover", "close"} /\ ControlOK'
    BY <2>1, <1>1, ReturnControl
  <2>4. Len(calls') + Ahead[pc'] < Len(calls) + Ahead[pc]
    BY <2>1, <2>3, <1>1, AheadOf DEF Pcs
  <2> QED BY <2>2, <2>3, <2>4, AdvanceBy
<1>9. ASSUME Take, NEW ok \in BOOLEAN, Finished(Front(calls), ok), calls # <<>>,
             text # <<>> \/ (pc = "recover" /\ ok = FALSE)
      PROVE  Advance
  <2>1. TextOK' /\ Len(text') <= Len(text) /\ (text # <<>> => Len(text') < Len(text))
    BY <1>9, TakeText
  <2>2. calls' = Front(calls) /\ pc' \in {"comma", "item", "recover", "close"} /\ ControlOK'
        /\ (ok = FALSE => pc' \in {"recover", "close"})
    BY <1>9, <1>2, ReturnControl DEF Finished
  <2>3. Len(calls') = Len(calls) - 1
    BY <2>2, <1>2, <1>9
  <2>4. CASE text # <<>>
    <3>1. Ahead[pc] \in 2 .. 4 /\ Ahead[pc'] \in 0 .. 4
      BY <2>2, <1>9, AheadOf DEF Pcs, ControlOK
    <3>2. ASSUME NEW c \in Nat, NEW a \in 0 .. 4, NEW b \in 2 .. 4 PROVE (c - 1) + a < 3 + c + b
      OBVIOUS
    <3>3. Len(calls') + Ahead[pc'] < 3 + Len(calls) + Ahead[pc]
      BY <3>1, <3>2, <2>3, <1>1
    <3> QED BY <2>1, <2>2, <2>4, <3>3, AdvanceBy
  <2>5. CASE pc = "recover" /\ ok = FALSE
    <3>1. Len(calls') + Ahead[pc'] < Len(calls) + Ahead[pc]
      BY <2>2, <2>3, <2>5, <1>1, AheadOf DEF Pcs
    <3> QED BY <2>1, <2>2, <3>1, AdvanceBy
  <2> QED BY <2>4, <2>5, <1>9
<1>10. CASE EndObject
  <2>1. Take /\ Finished(Front(calls), TRUE) /\ text # <<>> /\ pc \in {"name", "comma", "comment"}
    BY <1>10, TokenThere DEF EndObject, Reads
  <2> QED BY <2>1, <1>1, <1>9
<1>11. CASE EndArray
  <2>1. Take /\ Finished(Front(calls), TRUE) /\ text # <<>> /\ pc \in {"first", "item"}
    BY <1>11, TokenThere DEF EndArray, Reads
  <2> QED BY <2>1, <1>1, <1>9
<1>12. ASSUME NEW m, Fail(m), UNCHANGED calls, Take, pc \in {"name", "colon", "comma"}
       PROVE  Advance
  <2>1. TextOK' /\ Len(text') <= Len(text)
    BY <1>12, TakeText
  <2>2. ControlOK' /\ pc' = "recover" /\ calls' = calls
    BY <1>12, <1>1, FailControl
  <2>3. Len(calls') + Ahead[pc'] < Len(calls) + Ahead[pc]
    BY <2>2, <1>12, <1>1, AheadOf DEF Pcs
  <2> QED BY <2>1, <2>2, <2>3, AdvanceBy
<1>13. CASE ReadName
  <2>1. pc = "name" /\ Take /\ text # <<>>
    BY <1>13, TokenThere DEF ReadName, Reads
  <2>2. CASE Fail("string") /\ UNCHANGED calls
    BY <2>1, <2>2, <1>12
  <2> DEFINE chars == DecodeString(Token.chars).chars
  <2>3. CASE pc' = "colon" /\ calls' = Append(Front(calls), Object(NameOf(chars), chars = <<>>))
    <3> DEFINE frame == Object(NameOf(chars), chars = <<>>)
    <3>1. frame \in Frame /\ frame.in = "object"
      BY NameOfInt DEF Object, Frame
    <3>2. calls # <<>> /\ Front(calls) \in Seq(Frame)
      BY <1>1, <1>2, <2>1
    <3> HIDE DEF frame
    <3>3. calls' = Append(Front(calls), frame)
      BY <2>3 DEF frame
    <3>4. calls' \in Seq(Frame) /\ Len(calls') = Len(calls) /\ calls' # <<>> /\ Inner' = frame
      BY <3>1, <3>2, <3>3, <1>2, <1>1, AppendProperties DEF Inner
    <3>5. ControlOK'
      BY <3>1, <3>4, <2>3 DEF ControlOK, Pcs
    <3>6. TextOK' /\ Len(text') < Len(text)
      BY <2>1, TakeText
    <3>7. Len(calls') + Ahead[pc'] < 3 + Len(calls) + Ahead[pc]
      BY <2>1, <2>3, <3>4, <1>1, AheadOf DEF Pcs
    <3> QED BY <3>5, <3>6, <3>7, AdvanceBy
  <2> QED BY <1>13, <2>2, <2>3 DEF ReadName
<1>14. CASE NoName
  BY <1>14, <1>12 DEF NoName
<1>15. ASSUME NEW frame \in Frame, NEW k, Descend(frame, k),
              \/ Take /\ text # <<>> /\ pc \in {"colon", "item"}
              \/ Take /\ pc = "item"
              \/ UNCHANGED text /\ pc = "first"
       PROVE  Advance
  <2>1. ControlOK' /\ Len(calls') = Len(calls) /\ pc' = "value"
    BY <1>15, <1>1, DescendControl
  <2>2. CASE Take /\ text # <<>> /\ pc \in {"colon", "item"}
    <3>1. TextOK' /\ Len(text') < Len(text)
      BY <2>2, TakeText
    <3>2. Len(calls') + Ahead[pc'] < 3 + Len(calls) + Ahead[pc]
      BY <2>1, <2>2, <1>1, AheadOf DEF Pcs
    <3> QED BY <2>1, <3>1, <3>2, AdvanceBy
  <2>3. CASE pc \in {"first", "item"} /\ (Take \/ UNCHANGED text)
    <3>1. TextOK' /\ Len(text') <= Len(text)
      BY <2>3, <1>1, TakeText DEF TextOK
    <3>2. Len(calls') + Ahead[pc'] < Len(calls) + Ahead[pc]
      BY <2>1, <2>3, <1>1, AheadOf DEF Pcs
    <3> QED BY <2>1, <3>1, <3>2, AdvanceBy
  <2> QED BY <2>2, <2>3, <1>15
<1>16. CASE ReadColon
  <2>1. pc = "colon" /\ Take /\ text # <<>> /\ Descend(Inner, Inner.name)
    BY <1>16, TokenThere DEF ReadColon, Reads, Inner
  <2> QED BY <2>1, <1>1, <1>2, <1>15
<1>17. CASE NextElement
  <2>1. pc \in {"first", "item"} /\ Descend(Array(Inner.index + 1), Inner.index)
        /\ (IF pc = "item" THEN Take ELSE UNCHANGED text)
    BY <1>17 DEF NextElement, Inner
  <2>2. Inner \in Frame /\ Inner.in = "array"
    BY <2>1, <1>1, <1>2 DEF ControlOK
  <2>3. Array(Inner.index + 1) \in Frame
    BY <2>2 DEF Frame, Array
  <2> QED BY <2>1, <2>3, <1>15
<1>18. CASE NoColon
  <2>1. pc = "colon" /\ Fail("colon") /\ UNCHANGED calls /\ Take
    BY <1>18 DEF NoColon, TakeComment
  <2> QED BY <2>1, <1>12
<1>19. CASE ReadComma
  <2>1. pc \in {"comma", "comment"} /\ Take /\ pc' = "name" /\ UNCHANGED calls
        /\ (pc = "comma" => text # <<>>)
    BY <1>19, TokenThere DEF ReadComma
  <2>2. TextOK' /\ Len(text') <= Len(text) /\ (text # <<>> => Len(text') < Len(text))
    BY <2>1, TakeText
  <2>3. ControlOK'
    BY <2>1 DEF ControlOK, Pcs, Inner
  <2>4. CASE pc = "comma"
    <3>1. Len(calls') + Ahead[pc'] < 3 + Len(calls) + Ahead[pc]
      BY <2>1, <2>4, <1>1, AheadOf DEF Pcs
    <3> QED BY <2>1, <2>2, <2>3, <2>4, <3>1, AdvanceBy
  <2>5. CASE pc = "comment"
    <3>1. Len(calls') + Ahead[pc'] < Len(calls) + Ahead[pc]
      BY <2>1, <2>5, <1>1, AheadOf DEF Pcs
    <3> QED BY <2>2, <2>3, <3>1, AdvanceBy
  <2> QED BY <2>1, <2>4, <2>5
<1>20. CASE NoComma
  BY <1>20, <1>12 DEF NoComma
<1>21. CASE Recover
  <2>1. pc = "recover" /\ Take
    BY <1>21 DEF Recover
  <2>2. CASE Finished(Front(calls), FALSE)
    BY <2>1, <2>2, <1>1, <1>9
  <2>3. CASE UNCHANGED <<pc, calls>> /\ Token.tok # "end"
    <3>1. TextOK' /\ Len(text') < Len(text)
      BY <2>1, <2>3, TokenThere, TakeText
    <3>2. ControlOK'
      BY <2>3 DEF ControlOK, Inner
    <3>3. Len(calls') + Ahead[pc'] < 3 + Len(calls) + Ahead[pc]
      BY <2>3, <1>1, AheadOf
    <3> QED BY <3>1, <3>2, <3>3, AdvanceBy
  <2> QED BY <1>21, <2>2, <2>3 DEF Recover
<1>22. CASE Close
  <2>1. pc = "close" /\ Take /\ pc' = "done" /\ UNCHANGED calls
    BY <1>22 DEF Close
  <2>2. TextOK' /\ Len(text') <= Len(text)
    BY <2>1, TakeText
  <2>3. ControlOK'
    BY <2>1 DEF ControlOK, Pcs
  <2>4. Len(calls') + Ahead[pc'] < Len(calls) + Ahead[pc]
    BY <2>1, <1>1, AheadOf DEF Pcs
  <2> QED BY <2>2, <2>3, <2>4, AdvanceBy
<1> QED
  BY <1>3, <1>4, <1>5, <1>7, <1>8, <1>10, <1>11, <1>13, <1>14, <1>16, <1>17, <1>18, <1>19,
     <1>20, <1>21, <1>22 DEF ParseStep
-----------------------------------------------------------------------------
(* Places: prefixes and what is behind them. *)
Place == Seq(Int)

\* Places are equal that agree everywhere.
LEMMA PlaceEqual ==
  ASSUME NEW p \in Place, NEW q \in Place, Len(p) = Len(q), \A i \in 1 .. Len(p) : p[i] = q[i]
  PROVE  p = q
BY SeqEqual DEF Place

\* A place within a place.
LEMMA PlaceConcat ==
  ASSUME NEW p \in Place, NEW r \in Place
  PROVE  /\ p \o r \in Place
         /\ Len(p \o r) = Len(p) + Len(r)
         /\ \A i \in 1 .. Len(p) : (p \o r)[i] = p[i]
         /\ \A i \in 1 .. Len(r) : (p \o r)[Len(p) + i] = r[i]
<1>1. p \o r \in Seq(Int) /\ Len(p \o r) = Len(p) + Len(r)
  BY DEF Place
<1>2. \A i \in 1 .. Len(p) + Len(r) : (p \o r)[i] = IF i <= Len(p) THEN p[i] ELSE r[i - Len(p)]
  BY DEF Place
<1>3. Len(p) \in Nat /\ Len(r) \in Nat
  BY DEF Place
<1>4. \A i \in 1 .. Len(p) : (p \o r)[i] = p[i]
  BY <1>2, <1>3
<1>5. \A i \in 1 .. Len(r) : (p \o r)[Len(p) + i] = r[i]
  <2> TAKE i \in 1 .. Len(r)
  <2>1. Len(p) + i \in 1 .. Len(p) + Len(r) /\ ~(Len(p) + i <= Len(p)) /\ Len(p) + i - Len(p) = i
    BY <1>3
  <2> QED BY <2>1, <1>2
<1> QED BY <1>1, <1>4, <1>5 DEF Place

\* The length of a place; the root has none.
LEMMA PlaceLen == \A p \in Place : Len(p) \in Nat /\ (p = <<>> <=> Len(p) = 0)
<1> TAKE p \in Place
<1>1. p \in Seq(Int)
  BY DEF Place
<1>2. Len(p) \in Nat /\ (p # <<>> => Len(p) > 0)
  BY <1>1
<1>3. Len(<<>>) = 0
  OBVIOUS
<1> QED BY <1>2, <1>3

\* A part of a place.
LEMMA PlaceSub ==
  ASSUME NEW p \in Place, NEW m \in Nat, NEW n \in Nat, m >= 1, n <= Len(p)
  PROVE  /\ SubSeq(p, m, n) \in Place
         /\ Len(SubSeq(p, m, n)) = (IF m <= n THEN n - m + 1 ELSE 0)
         /\ \A i \in 1 .. n - m + 1 : SubSeq(p, m, n)[i] = p[m + i - 1]
<1>1. \A i \in m .. n : p[i] \in Int
  <2> TAKE i \in m .. n
  <2>1. i \in 1 .. Len(p)
    BY PlaceLen
  <2> QED BY <2>1 DEF Place
<1> QED BY <1>1, SubSeqProperties DEF Place

\* A prefix agrees with what it begins, place by place.
LEMMA PrefixIs ==
  ASSUME NEW p \in Place, NEW q \in Place
  PROVE  IsPrefix(p, q) <=> Len(p) <= Len(q) /\ \A i \in 1 .. Len(p) : p[i] = q[i]
<1>1. Len(p) \in Nat /\ Len(q) \in Nat
  BY PlaceLen
<1>2. SUFFICES ASSUME Len(p) <= Len(q)
               PROVE  SubSeq(p, 1, Len(p)) = SubSeq(q, 1, Len(p)) <=> \A i \in 1 .. Len(p) : p[i] = q[i]
  BY DEF IsPrefix
<1> DEFINE a == SubSeq(p, 1, Len(p))
           b == SubSeq(q, 1, Len(p))
<1>3. /\ a \in Place /\ Len(a) = Len(p)
      /\ \A i \in 1 .. Len(p) : a[i] = p[i]
  <2>1. /\ a \in Place /\ Len(a) = (IF 1 <= Len(p) THEN Len(p) - 1 + 1 ELSE 0)
        /\ \A i \in 1 .. Len(p) - 1 + 1 : a[i] = p[1 + i - 1]
    BY <1>1, PlaceSub
  <2> QED BY <2>1, <1>1
<1>4. /\ b \in Place /\ Len(b) = Len(p)
      /\ \A i \in 1 .. Len(p) : b[i] = q[i]
  <2>1. /\ b \in Place /\ Len(b) = (IF 1 <= Len(p) THEN Len(p) - 1 + 1 ELSE 0)
        /\ \A i \in 1 .. Len(p) - 1 + 1 : b[i] = q[1 + i - 1]
    BY <1>1, <1>2, PlaceSub
  <2> QED BY <2>1, <1>1
<1> HIDE DEF a, b
<1>5. a = b <=> \A i \in 1 .. Len(p) : p[i] = q[i]
  <2>1. ASSUME a = b PROVE \A i \in 1 .. Len(p) : p[i] = q[i]
    BY <2>1, <1>3, <1>4
  <2>2. ASSUME \A i \in 1 .. Len(p) : p[i] = q[i] PROVE a = b
    <3>1. \A i \in 1 .. Len(a) : a[i] = b[i]
      BY <2>2, <1>3, <1>4
    <3> QED BY <3>1, <1>3, <1>4, PlaceEqual
  <2> QED BY <2>1, <2>2
<1> QED BY <1>5 DEF a, b

\* What is behind a prefix.
LEMMA SuffixIs ==
  ASSUME NEW p \in Place, NEW q \in Place, Len(p) <= Len(q)
  PROVE  /\ Suffix(p, q) \in Place /\ Len(Suffix(p, q)) = Len(q) - Len(p)
         /\ \A i \in 1 .. Len(q) - Len(p) : Suffix(p, q)[i] = q[Len(p) + i]
<1>1. Len(p) \in Nat /\ Len(q) \in Nat /\ Len(p) + 1 \in Nat /\ Len(p) + 1 >= 1
  BY PlaceLen
<1> DEFINE s == SubSeq(q, Len(p) + 1, Len(q))
<1>2. /\ s \in Place /\ Len(s) = (IF Len(p) + 1 <= Len(q) THEN Len(q) - (Len(p) + 1) + 1 ELSE 0)
      /\ \A i \in 1 .. Len(q) - (Len(p) + 1) + 1 : s[i] = q[(Len(p) + 1) + i - 1]
  BY <1>1, PlaceSub
<1>3. s = Suffix(p, q)
  BY DEF Suffix
<1> HIDE DEF s
<1>4. s \in Place /\ Len(s) = Len(q) - Len(p)
  BY <1>1, <1>2
<1>5. \A i \in 1 .. Len(q) - Len(p) : s[i] = q[Len(p) + i]
  <2> TAKE i \in 1 .. Len(q) - Len(p)
  <2>1. i \in 1 .. Len(q) - (Len(p) + 1) + 1 /\ (Len(p) + 1) + i - 1 = Len(p) + i
    BY <1>1
  <2> QED BY <2>1, <1>2
<1> QED BY <1>3, <1>4, <1>5

\* A place is a prefix of every place within it.
LEMMA PrefixConcat ==
  ASSUME NEW p \in Place, NEW r \in Place
  PROVE  p \o r \in Place /\ IsPrefix(p, p \o r) /\ Suffix(p, p \o r) = r
<1>1. /\ p \o r \in Place /\ Len(p \o r) = Len(p) + Len(r) /\ Len(p) \in Nat /\ Len(r) \in Nat
      /\ \A i \in 1 .. Len(p) : (p \o r)[i] = p[i]
      /\ \A i \in 1 .. Len(r) : (p \o r)[Len(p) + i] = r[i]
  BY PlaceConcat, PlaceLen
<1>2. IsPrefix(p, p \o r)
  <2> DEFINE q == p \o r
  <2>1. q \in Place /\ Len(p) <= Len(q) /\ \A i \in 1 .. Len(p) : p[i] = q[i]
    BY <1>1
  <2> HIDE DEF q
  <2>2. IsPrefix(p, q)
    BY <2>1, PrefixIs
  <2> QED BY <2>2 DEF q
<1>3. /\ Suffix(p, p \o r) \in Place /\ Len(Suffix(p, p \o r)) = Len(r)
      /\ \A i \in 1 .. Len(r) : Suffix(p, p \o r)[i] = (p \o r)[Len(p) + i]
  <2> DEFINE q == p \o r
  <2>1. q \in Place /\ Len(p) <= Len(q) /\ Len(q) - Len(p) = Len(r)
    BY <1>1
  <2> HIDE DEF q
  <2>2. /\ Suffix(p, q) \in Place /\ Len(Suffix(p, q)) = Len(r)
        /\ \A i \in 1 .. Len(r) : Suffix(p, q)[i] = q[Len(p) + i]
    BY <2>1, SuffixIs
  <2> QED BY <2>2 DEF q
<1>4. \A i \in 1 .. Len(Suffix(p, p \o r)) : Suffix(p, p \o r)[i] = r[i]
  BY <1>1, <1>3
<1>5. Suffix(p, p \o r) = r
  BY <1>3, <1>4, PlaceEqual
<1> QED BY <1>1, <1>2, <1>5

\* A place is its prefix and what is behind it.
LEMMA PrefixSuffix ==
  ASSUME NEW p \in Place, NEW q \in Place, IsPrefix(p, q)
  PROVE  /\ Suffix(p, q) \in Place /\ p \o Suffix(p, q) = q
         /\ Len(Suffix(p, q)) = Len(q) - Len(p) /\ Len(p) <= Len(q)
<1> DEFINE s == Suffix(p, q)
<1>1. Len(p) <= Len(q) /\ \A i \in 1 .. Len(p) : p[i] = q[i]
  BY PrefixIs
<1>2. Len(p) \in Nat /\ Len(q) \in Nat
  BY PlaceLen
<1>3. s \in Place /\ Len(s) = Len(q) - Len(p) /\ \A i \in 1 .. Len(q) - Len(p) : s[i] = q[Len(p) + i]
  BY <1>1, SuffixIs
<1> HIDE DEF s
<1>4. /\ p \o s \in Place /\ Len(p \o s) = Len(p) + Len(s)
      /\ \A i \in 1 .. Len(p) : (p \o s)[i] = p[i]
      /\ \A i \in 1 .. Len(s) : (p \o s)[Len(p) + i] = s[i]
  BY <1>3, PlaceConcat
<1>5. Len(p \o s) = Len(q)
  BY <1>2, <1>3, <1>4
<1>6. \A i \in 1 .. Len(q) : (p \o s)[i] = q[i]
  <2> TAKE i \in 1 .. Len(q)
  <2>1. CASE i <= Len(p)
    <3>1. i \in 1 .. Len(p)
      BY <2>1, <1>2
    <3> QED BY <3>1, <1>1, <1>4
  <2>2. CASE i > Len(p)
    <3> DEFINE j == i - Len(p)
    <3>1. j \in 1 .. Len(s) /\ Len(p) + j = i /\ j \in 1 .. Len(q) - Len(p)
      BY <2>2, <1>2, <1>3
    <3> HIDE DEF j
    <3> QED BY <3>1, <1>3, <1>4
  <2>3. i <= Len(p) \/ i > Len(p)
    BY <1>2
  <2> QED BY <2>1, <2>2, <2>3
<1>7. p \o s = q
  BY <1>4, <1>5, <1>6, PlaceEqual
<1> QED BY <1>1, <1>3, <1>7 DEF s

\* Prefixes are ordered.
LEMMA PrefixOrder ==
  /\ \A p \in Place : IsPrefix(p, p) /\ IsPrefix(<<>>, p) /\ Suffix(p, p) = <<>> /\ p \o <<>> = p /\ <<>> \o p = p
  /\ \A p, q \in Place : IsPrefix(p, q) /\ Len(p) = Len(q) => p = q
  /\ \A p, q, r \in Place : IsPrefix(p, q) /\ IsPrefix(q, r) => IsPrefix(p, r)
  /\ \A p, q, r \in Place : IsPrefix(p, r) /\ IsPrefix(q, r) /\ Len(p) <= Len(q) => IsPrefix(p, q)
<1>0. <<>> \in Place /\ Len(<<>>) = 0
  BY DEF Place
<1>1. ASSUME NEW p \in Place PROVE IsPrefix(p, p) /\ IsPrefix(<<>>, p) /\ Suffix(p, p) = <<>> /\ p \o <<>> = p /\ <<>> \o p = p
  <2>1. Len(p) \in Nat
    BY PlaceLen
  <2>2. IsPrefix(p, p)
    BY <2>1, PrefixIs
  <2>3. IsPrefix(<<>>, p)
    BY <2>1, <1>0, PrefixIs
  <2>4. Suffix(p, p) \in Place /\ Len(Suffix(p, p)) = 0
    BY <2>1, SuffixIs
  <2>5. Suffix(p, p) = <<>>
    BY <2>4, PlaceLen
  <2>6. p \o <<>> = p /\ <<>> \o p = p
    BY ConcatEmptySeq DEF Place
  <2> QED BY <2>2, <2>3, <2>5, <2>6
<1>2. ASSUME NEW p \in Place, NEW q \in Place, IsPrefix(p, q), Len(p) = Len(q) PROVE p = q
  BY <1>2, PrefixIs, PlaceEqual
<1>3. ASSUME NEW p \in Place, NEW q \in Place, NEW r \in Place, IsPrefix(p, q), IsPrefix(q, r)
      PROVE  IsPrefix(p, r)
  <2>1. Len(p) \in Nat /\ Len(q) \in Nat /\ Len(r) \in Nat
    BY PlaceLen
  <2>2. /\ Len(p) <= Len(q) /\ \A i \in 1 .. Len(p) : p[i] = q[i]
        /\ Len(q) <= Len(r) /\ \A i \in 1 .. Len(q) : q[i] = r[i]
    BY <1>3, PrefixIs
  <2>3. Len(p) <= Len(r) /\ \A i \in 1 .. Len(p) : p[i] = r[i]
    BY <2>1, <2>2
  <2> QED BY <2>3, PrefixIs
<1>4. ASSUME NEW p \in Place, NEW q \in Place, NEW r \in Place, IsPrefix(p, r), IsPrefix(q, r), Len(p) <= Len(q)
      PROVE  IsPrefix(p, q)
  <2>1. Len(p) \in Nat /\ Len(q) \in Nat /\ Len(r) \in Nat
    BY PlaceLen
  <2>2. /\ Len(p) <= Len(r) /\ \A i \in 1 .. Len(p) : p[i] = r[i]
        /\ Len(q) <= Len(r) /\ \A i \in 1 .. Len(q) : q[i] = r[i]
    BY <1>4, PrefixIs
  <2>3. \A i \in 1 .. Len(p) : p[i] = q[i]
    BY <1>4, <2>1, <2>2
  <2> QED BY <1>4, <2>3, PrefixIs
<1> QED BY <1>1, <1>2, <1>3, <1>4

\* The place of a container, and the last key.
LEMMA FrontPlace ==
  ASSUME NEW p \in Place, p # <<>>
  PROVE  /\ Front(p) \in Place /\ Len(Front(p)) = Len(p) - 1 /\ IsPrefix(Front(p), p) /\ Front(p) # p
         /\ p[Len(p)] \in Int /\ Append(Front(p), p[Len(p)]) = p
<1>1. Len(p) \in Nat /\ Len(p) > 0 /\ p \in Seq(Int)
  BY PlaceLen DEF Place
<1>2. Front(p) \in Seq(Int) /\ Len(Front(p)) = Len(p) - 1 /\ p[Len(p)] \in Int
      /\ \A i \in 1 .. Len(p) - 1 : Front(p)[i] = p[i]
  BY <1>1, FrontOf
<1>3. IsPrefix(Front(p), p)
  <2> DEFINE f == Front(p)
  <2>1. f \in Place /\ Len(f) <= Len(p) /\ \A i \in 1 .. Len(f) : f[i] = p[i]
    BY <1>1, <1>2 DEF Place
  <2> HIDE DEF f
  <2>2. IsPrefix(f, p)
    BY <2>1, PrefixIs
  <2> QED BY <2>2 DEF f
<1> DEFINE e == p[Len(p)]
           a == Append(Front(p), e)
<1>4. a \in Seq(Int) /\ Len(a) = Len(Front(p)) + 1 /\ a[Len(a)] = e
      /\ \A i \in 1 .. Len(Front(p)) : a[i] = Front(p)[i]
  BY <1>2, AppendOf
<1> HIDE DEF a
<1>5. Len(a) = Len(p)
  BY <1>1, <1>2, <1>4
<1>6. \A i \in 1 .. Len(p) : a[i] = p[i]
  <2> TAKE i \in 1 .. Len(p)
  <2>1. CASE i = Len(p)
    BY <2>1, <1>4, <1>5
  <2>2. CASE i # Len(p)
    <3>1. i \in 1 .. Len(p) - 1 /\ i \in 1 .. Len(Front(p))
      BY <2>2, <1>1, <1>2
    <3> QED BY <3>1, <1>2, <1>4
  <2> QED BY <2>1, <2>2
<1>7. a = p
  BY <1>4, <1>5, <1>6, PlaceEqual DEF Place
<1> QED BY <1>1, <1>2, <1>3, <1>7 DEF a, Place

\* The place of an entry.
LEMMA AppendPlace ==
  ASSUME NEW p \in Place, NEW k \in Int
  PROVE  /\ Append(p, k) \in Place /\ Append(p, k) # <<>> /\ Append(p, k) # p
         /\ Len(Append(p, k)) = Len(p) + 1
         /\ Front(Append(p, k)) = p /\ Append(p, k)[Len(Append(p, k))] = k
         /\ IsPrefix(p, Append(p, k))
<1> DEFINE a == Append(p, k)
<1>1. Len(p) \in Nat /\ p \in Seq(Int)
  BY PlaceLen DEF Place
<1>2. a \in Seq(Int) /\ a # <<>> /\ Len(a) = Len(p) + 1 /\ a[Len(a)] = k /\ \A i \in 1 .. Len(p) : a[i] = p[i]
  BY <1>1, AppendOf
<1> HIDE DEF a
<1>3. Front(a) \in Place /\ Len(Front(a)) = Len(a) - 1 /\ \A i \in 1 .. Len(a) - 1 : Front(a)[i] = a[i]
  BY <1>2, FrontOf DEF Place
<1>4. Len(Front(a)) = Len(p) /\ \A i \in 1 .. Len(p) : Front(a)[i] = p[i]
  BY <1>1, <1>2, <1>3
<1>5. Front(a) = p
  BY <1>3, <1>4, PlaceEqual
<1>6. IsPrefix(p, a)
  BY <1>1, <1>2, PrefixIs DEF Place
<1>7. a # p
  BY <1>1, <1>2
<1> QED BY <1>2, <1>5, <1>6, <1>7 DEF a, Place

\* A place is as far below another as its front is, and one more.
LEMMA FrontBelow ==
  ASSUME NEW p \in Place, NEW q \in Place, IsPrefix(p, q), p # q
  PROVE  q # <<>> /\ IsPrefix(p, Front(q)) /\ Len(p) < Len(q)
<1>1. Len(p) \in Nat /\ Len(q) \in Nat /\ Len(p) <= Len(q)
  BY PlaceLen, PrefixIs
<1>2. Len(p) # Len(q)
  BY PrefixOrder
<1>3. Len(p) < Len(q) /\ q # <<>>
  BY <1>1, <1>2, PlaceLen
<1>4. Front(q) \in Place /\ IsPrefix(Front(q), q) /\ Len(Front(q)) = Len(q) - 1
  BY <1>3, FrontPlace
<1>5. Len(p) <= Len(Front(q))
  BY <1>1, <1>3, <1>4
<1> QED BY <1>3, <1>4, <1>5, PrefixOrder

\* The front of a place below another lies there too.
LEMMA FrontConcat ==
  ASSUME NEW p \in Place, NEW r \in Place, r # <<>>
  PROVE  /\ Front(p \o r) = p \o Front(r) /\ p \o r # <<>> /\ (p \o r)[Len(p \o r)] = r[Len(r)]
<1> DEFINE q == p \o r
<1>1. /\ q \in Place /\ Len(q) = Len(p) + Len(r) /\ IsPrefix(p, q) /\ Suffix(p, q) = r
      /\ \A i \in 1 .. Len(p) : q[i] = p[i]
      /\ \A i \in 1 .. Len(r) : q[Len(p) + i] = r[i]
  BY PlaceConcat, PrefixConcat
<1>2. Len(p) \in Nat /\ Len(r) \in Nat /\ Len(r) > 0
  BY PlaceLen
<1> HIDE DEF q
<1>3. q # <<>> /\ p # q
  BY <1>1, <1>2, PlaceLen
<1>4. /\ Front(q) \in Place /\ Len(Front(q)) = Len(q) - 1 /\ \A i \in 1 .. Len(q) - 1 : Front(q)[i] = q[i]
      /\ Front(r) \in Place /\ Len(Front(r)) = Len(r) - 1 /\ \A i \in 1 .. Len(r) - 1 : Front(r)[i] = r[i]
  BY <1>1, <1>3, FrontOf DEF Place
<1> DEFINE f == p \o Front(r)
<1>5. /\ f \in Place /\ Len(f) = Len(p) + Len(Front(r))
      /\ \A i \in 1 .. Len(p) : f[i] = p[i]
      /\ \A i \in 1 .. Len(Front(r)) : f[Len(p) + i] = Front(r)[i]
  BY <1>4, PlaceConcat
<1> HIDE DEF f
<1>6. Len(f) = Len(Front(q))
  BY <1>1, <1>2, <1>4, <1>5
<1>7. \A i \in 1 .. Len(f) : f[i] = Front(q)[i]
  <2> TAKE i \in 1 .. Len(f)
  <2>1. i \in 1 .. Len(q) - 1 /\ Front(q)[i] = q[i]
    BY <1>4, <1>6
  <2>2. CASE i <= Len(p)
    <3>1. i \in 1 .. Len(p)
      BY <2>2, <1>2
    <3> QED BY <3>1, <2>1, <1>1, <1>5
  <2>3. CASE i > Len(p)
    <3> DEFINE j == i - Len(p)
    <3>1. j \in 1 .. Len(Front(r)) /\ j \in 1 .. Len(r) - 1 /\ j \in 1 .. Len(r) /\ Len(p) + j = i
      BY <2>1, <2>3, <1>1, <1>2, <1>4, <1>5
    <3> HIDE DEF j
    <3> QED BY <3>1, <2>1, <1>1, <1>4, <1>5
  <2> QED BY <2>2, <2>3, <1>2, <1>5
<1>8. Front(q) = f
  BY <1>4, <1>5, <1>6, <1>7, PlaceEqual
<1>9. q[Len(q)] = r[Len(r)]
  BY <1>1, <1>2
<1> QED BY <1>3, <1>8, <1>9 DEF f, q
-----------------------------------------------------------------------------
(* Trees.  A discipline D says which values the nodes of a type may have, in   *)
(* D.vals, and which names the members, in D.names.                            *)

\* A node whose destructor releases what belongs to it, and nothing else.
Sound(n, D) ==
  /\ n = [type |-> n.type, val |-> n.val, str |-> n.str, comment |-> n.comment, key |-> n.key]
  /\ n.comment \in [Placements -> Seq(Lexeme)]
  /\ NodeOK(n)
  /\ n.str.at # "lent" /\ n.key.at # "lent"
  /\ n.str.allocated = (n.str.at = "own")
  /\ KeyReleased(n.key) = (n.key.at = "own")
  /\ n.type \in DOMAIN D.vals => n.val \in D.vals[n.type]
  /\ n.type = "null" => n.val = <<>>
  /\ n.type = "string" => n.str.at # "nothing"

Fits(type, k, D) == \/ type = "object" /\ k \in D.names
                    \/ type = "array" /\ k \in Nat

Forest(t, D) ==
  /\ DOMAIN t \subseteq Place /\ IsFiniteSet(DOMAIN t)
  /\ t = [p \in DOMAIN t |-> t[p]]
  /\ \A p \in DOMAIN t : Sound(t[p], D)

Tree(t, D) ==
  /\ Forest(t, D)
  /\ <<>> \in DOMAIN t
  /\ \A p \in DOMAIN t : p # <<>> => Front(p) \in DOMAIN t /\ Fits(t[Front(p)].type, p[Len(p)], D)

\* A Tree is what MemoryOwned asks for.
LEMMA TreeIsOK ==
  ASSUME NEW D, NEW t, Tree(t, D)
  PROVE  TreeOK(t) /\ ReleasesItsOwn(t)
<1>1. \A p \in DOMAIN t : Sound(t[p], D)
  BY DEF Tree, Forest
<1>2. \A p \in DOMAIN t : NodeOK(t[p])
  BY <1>1 DEF Sound
<1>3. \A p \in DOMAIN t : p # <<>> => Front(p) \in DOMAIN t /\ t[Front(p)].type \in Containers
  BY DEF Tree, Fits, Containers
<1>4. TreeOK(t)
  BY <1>2, <1>3 DEF TreeOK, Tree
<1>5. ReleasesItsOwn(t)
  BY <1>1 DEF ReleasesItsOwn, Sound
<1> QED BY <1>4, <1>5

\* What a place is below is in the tree, and a container.
LEMMA Inside ==
  ASSUME NEW D, NEW t, Tree(t, D), NEW p \in Place, NEW q \in DOMAIN t, IsPrefix(p, q)
  PROVE  p \in DOMAIN t /\ (p # q => t[p].type \in Containers)
<1>1. q \in Place /\ Len(p) <= Len(q) /\ Len(p) \in Nat /\ Len(q) \in Nat
  BY PrefixSuffix, PlaceLen DEF Tree, Forest
<1> DEFINE n == Len(q) - Len(p)
           T == {m \in 0 .. n : \E r \in DOMAIN t : /\ IsPrefix(p, r) /\ Len(r) = Len(q) - m
                                                    /\ (r # q => t[r].type \in Containers)}
<1>2. n \in Nat /\ 0 \in T
  BY <1>1
<1>3. ASSUME NEW m \in 0 .. n - 1, m \in T PROVE m + 1 \in T
  <2>1. PICK r \in DOMAIN t : IsPrefix(p, r) /\ Len(r) = Len(q) - m
    BY <1>3
  <2>2. r \in Place /\ p # r
    BY <2>1, <1>1 DEF Tree, Forest
  <2>3. r # <<>> /\ IsPrefix(p, Front(r)) /\ Len(Front(r)) = Len(r) - 1
    BY <2>1, <2>2, FrontBelow, FrontPlace
  <2>4. Front(r) \in DOMAIN t /\ t[Front(r)].type \in Containers
    BY <2>3 DEF Tree, Fits, Containers
  <2>5. m + 1 \in 0 .. n /\ Len(Front(r)) = Len(q) - (m + 1)
    BY <1>1, <2>1, <2>3
  <2> QED BY <2>3, <2>4, <2>5
<1>4. n \in T
  <2> HIDE DEF T
  <2>1. \A m \in 0 .. n : m \in T
    <3> HIDE DEF n
    <3> QED BY <1>2, <1>3, UpTo
  <2> QED BY <1>2, <2>1
<1>5. PICK r \in DOMAIN t : IsPrefix(p, r) /\ Len(r) = Len(q) - n /\ (r # q => t[r].type \in Containers)
  BY <1>4
<1>6. r \in Place /\ Len(r) = Len(p)
  BY <1>1, <1>5 DEF Tree, Forest
<1>7. p = r
  BY <1>5, <1>6, PrefixOrder
<1> QED BY <1>5, <1>7
-----------------------------------------------------------------------------
(* The blocks of a tree. *)

Kinds  == {"string", "map", "key", "comments"} \cup Placements
Own(n) == Blocks(n, n.str.at = "own", n.key.at = "own")

\* There are finitely many kinds of blocks.
LEMMA KindsFinite == IsFiniteSet(Kinds)
<1>1. IsFiniteSet({"string", "map", "key", "comments"}) /\ IsFiniteSet({"before", "sameLine", "after"})
  <2>1. IsFiniteSet({"string"}) /\ IsFiniteSet({"map"}) /\ IsFiniteSet({"key"}) /\ IsFiniteSet({"comments"})
        /\ IsFiniteSet({"before"}) /\ IsFiniteSet({"sameLine"}) /\ IsFiniteSet({"after"})
    BY FS_Singleton
  <2>2. {"string", "map", "key", "comments"} = (({"string"} \cup {"map"}) \cup {"key"}) \cup {"comments"}
        /\ {"before", "sameLine", "after"} = ({"before"} \cup {"sameLine"}) \cup {"after"}
    OBVIOUS
  <2>3. \A S, T : IsFiniteSet(S) /\ IsFiniteSet(T) => IsFiniteSet(S \cup T)
    BY FS_Union
  <2>4. IsFiniteSet(({"string"} \cup {"map"}) \cup {"key"}) /\ IsFiniteSet({"before"} \cup {"sameLine"})
    BY <2>1, <2>3, Zenon
  <2>5. IsFiniteSet((({"string"} \cup {"map"}) \cup {"key"}) \cup {"comments"})
    BY <2>1, <2>3, <2>4, Zenon
  <2>6. IsFiniteSet(({"before"} \cup {"sameLine"}) \cup {"after"})
    BY <2>1, <2>3, <2>4, Zenon
  <2> QED BY <2>2, <2>5, <2>6
<1> QED BY <1>1, FS_Union DEF Kinds, Placements

\* A node has no others.
LEMMA BlocksIn == \A n, s, k : Blocks(n, s, k) \subseteq Kinds
BY DEF Blocks, Kinds

\* The blocks that belong to a set of nodes.
LEMMA OwnIs ==
  ASSUME NEW t
  PROVE  /\ \A x \in ToOwn(t) : x = <<x[1], x[2]>> /\ x[1] \in DOMAIN t /\ x[2] \in Own(t[x[1]]) /\ x[2] \in Kinds
         /\ \A p \in DOMAIN t : \A b \in Own(t[p]) : <<p, b>> \in ToOwn(t)
         /\ ToOwn(t) \subseteq (DOMAIN t) \X Kinds
<1>1. ASSUME NEW x \in ToOwn(t)
      PROVE  x = <<x[1], x[2]>> /\ x[1] \in DOMAIN t /\ x[2] \in Own(t[x[1]]) /\ x[2] \in Kinds
  <2>1. PICK p \in DOMAIN t : x \in {p} \X Own(t[p])
    BY DEF ToOwn, Own
  <2>2. x = <<x[1], x[2]>> /\ x[1] = p /\ x[2] \in Own(t[p])
    BY <2>1
  <2> QED BY <2>2, BlocksIn DEF Own
<1>2. ASSUME NEW p \in DOMAIN t, NEW b \in Own(t[p]) PROVE <<p, b>> \in ToOwn(t)
  <2>1. <<p, b>> \in {p} \X Own(t[p])
    OBVIOUS
  <2> QED BY <2>1 DEF ToOwn, Own
<1>3. ASSUME NEW x \in ToOwn(t) PROVE x \in (DOMAIN t) \X Kinds
  <2>1. x = <<x[1], x[2]>> /\ x[1] \in DOMAIN t /\ x[2] \in Kinds
    BY <1>1
  <2>2. <<x[1], x[2]>> \in (DOMAIN t) \X Kinds
    BY <2>1
  <2> QED BY <2>1, <2>2, Zenon
<1> QED BY <1>1, <1>2, <1>3

\* A tree owns finitely many blocks, and releases these.
LEMMA OwnFinite ==
  ASSUME NEW D, NEW t, Forest(t, D)
  PROVE  /\ IsFiniteSet(ToOwn(t)) /\ Owned(t) \in Nat
         /\ ToRelease(t) = ToOwn(t) /\ Released(t) = Owned(t)
<1>0. IsFiniteSet(DOMAIN t)
  BY DEF Forest
<1>1. IsFiniteSet((DOMAIN t) \X Kinds)
  BY <1>0, KindsFinite, FS_Product
<1>2. IsFiniteSet(ToOwn(t))
  BY <1>1, OwnIs, FS_Subset
<1>3. Owned(t) \in Nat
  BY <1>2, FS_CardinalityType DEF Owned
<1>4. \A p \in DOMAIN t : Blocks(t[p], t[p].str.allocated, KeyReleased(t[p].key)) =
                          Blocks(t[p], t[p].str.at = "own", t[p].key.at = "own")
  <2> TAKE p \in DOMAIN t
  <2>1. t[p].str.allocated = (t[p].str.at = "own") /\ KeyReleased(t[p].key) = (t[p].key.at = "own")
    BY DEF Forest, Sound
  <2> QED BY <2>1
<1>5. ToRelease(t) = ToOwn(t)
  BY <1>4 DEF ToRelease, ToOwn
<1> QED BY <1>2, <1>3, <1>5 DEF Released, Owned

\* Two sets that have nothing in common.
LEMMA CardSplit ==
  ASSUME NEW S, NEW T, NEW U, IsFiniteSet(S), IsFiniteSet(T), S \cap T = {}, U = S \cup T
  PROVE  Cardinality(U) = Cardinality(S) + Cardinality(T)
         /\ Cardinality(S) \in Nat /\ Cardinality(T) \in Nat /\ Cardinality(U) \in Nat /\ IsFiniteSet(U)
<1>1. IsFiniteSet(S \cup T) /\ Cardinality(S \cup T) = Cardinality(S) + Cardinality(T) - Cardinality(S \cap T)
  BY FS_Union
<1>2. Cardinality(S \cap T) = 0
  BY FS_EmptySet
<1>3. Cardinality(S) \in Nat /\ Cardinality(T) \in Nat
  BY FS_CardinalityType
<1> QED BY <1>1, <1>2, <1>3

\* The part of a finite set that is below a place, and the rest.
LEMMA CardParts ==
  ASSUME NEW S, IsFiniteSet(S), NEW A, NEW B, A \cup B = S, A \cap B = {}
  PROVE  /\ Cardinality(S) = Cardinality(A) + Cardinality(B)
         /\ Cardinality(A) \in Nat /\ Cardinality(B) \in Nat /\ IsFiniteSet(A) /\ IsFiniteSet(B)
<1>1. IsFiniteSet(A) /\ IsFiniteSet(B)
  <2>1. A \subseteq S /\ B \subseteq S
    OBVIOUS
  <2> QED BY <2>1, FS_Subset
<1> QED BY <1>1, CardSplit

\* A one-to-one image is as large.
LEMMA CardSame ==
  ASSUME NEW S, NEW T, IsFiniteSet(S), NEW f,
         f \in [S -> T], \A x, y \in S : f[x] = f[y] => x = y, \A y \in T : \E x \in S : f[x] = y
  PROVE  IsFiniteSet(T) /\ Cardinality(T) = Cardinality(S)
<1>1. IsInjective(f)
  BY DEF IsInjective
<1>2. f \in Bijection(S, T)
  BY <1>1 DEF Bijection, Injection, Surjection
<1> QED BY <1>2, FS_Bijection DEF ExistsBijection
-----------------------------------------------------------------------------
(* Nodes. *)
Keying == [at : Targets,
           policy : {"index", "noDuplication", "duplicateOnCopy", "duplicate"}]
KeySound(k) == k \in Keying /\ k.at # "lent" /\ KeyReleased(k) = (k.at = "own")

\* A node is what its five fields are.
NodeOf(n, comment, key, str) ==
  [type |-> n.type, val |-> n.val, str |-> str, comment |-> comment, key |-> key]

StrSound(s) == s \in [at : Targets, allocated : BOOLEAN] /\ s.at # "lent" /\ s.allocated = (s.at = "own")

\* A sound node consists of sound parts.
LEMMA SoundIs ==
  ASSUME NEW D, NEW n, Sound(n, D)
  PROVE  /\ n = NodeOf(n, n.comment, n.key, n.str) /\ n.comment \in [Placements -> Seq(Lexeme)]
         /\ KeySound(n.key) /\ StrSound(n.str)
BY DEF Sound, NodeOK, NodeOf, KeySound, StrSound, Keying

\* Sound parts make a sound node.
LEMMA SoundOf ==
  ASSUME NEW D, NEW n, Sound(n, D), NEW key, KeySound(key), NEW str, StrSound(str),
         n.str.at # "nothing" => str.at # "nothing", NEW comment \in [Placements -> Seq(Lexeme)]
  PROVE  /\ Sound(NodeOf(n, comment, key, str), D)
         /\ NodeOf(n, comment, key, str).type = n.type
         /\ NodeOf(n, comment, key, str).comment = comment
         /\ NodeOf(n, comment, key, str).key = key
         /\ NodeOf(n, comment, key, str).str = str
         /\ NodeOf(n, comment, key, str).val = n.val
<1> DEFINE m == NodeOf(n, comment, key, str)
<1>1. m.type = n.type /\ m.val = n.val /\ m.str = str /\ m.comment = comment /\ m.key = key
  BY DEF NodeOf
<1>2. m = [type |-> m.type, val |-> m.val, str |-> m.str, comment |-> m.comment, key |-> m.key]
  BY DEF NodeOf
<1> HIDE DEF m
<1>3. NodeOK(m)
  <2>1. n.type \in ToSet(Types) /\ (n.type \in {"int", "uint", "real", "boolean"} => n.val \in Seq(Int) /\ Len(n.val) = 1)
        /\ (n.type \in Containers => n.val = <<>>)
    BY DEF Sound, NodeOK
  <2> QED BY <1>1, <2>1 DEF NodeOK, KeySound, StrSound, Keying
<1>4. /\ m.type \in DOMAIN D.vals => m.val \in D.vals[m.type]
      /\ m.type = "null" => m.val = <<>>
      /\ m.type = "string" => m.str.at # "nothing"
  BY <1>1 DEF Sound
<1>5. Sound(m, D)
  BY <1>1, <1>2, <1>3, <1>4 DEF Sound, KeySound, StrSound
<1> QED BY <1>1, <1>5 DEF m

\* Changing fields of a node.
Fields(ty, v, st, co, ke) == [type |-> ty, val |-> v, str |-> st, comment |-> co, key |-> ke]
SetKey(n, k) == [n EXCEPT !.key = k]
SetStr(n, s) == [n EXCEPT !.str = s]
SetNote(n, c) == [n EXCEPT !.comment = c]

\* A node with one field set.
LEMMA FieldsExcept ==
  ASSUME NEW ty, NEW v, NEW st, NEW co, NEW ke, NEW x
  PROVE  /\ SetKey(Fields(ty, v, st, co, ke), x) = Fields(ty, v, st, co, x)
         /\ SetNote(Fields(ty, v, st, co, ke), x) = Fields(ty, v, st, x, ke)
         /\ SetStr(Fields(ty, v, st, co, ke), x) = Fields(ty, v, x, co, ke)
<1>1. ASSUME NEW m, m = [type |-> ty, val |-> v, str |-> st, comment |-> co, key |-> ke]
      PROVE  [m EXCEPT !.key = x] = [type |-> ty, val |-> v, str |-> st, comment |-> co, key |-> x]
  BY <1>1
<1>2. ASSUME NEW m, m = [type |-> ty, val |-> v, str |-> st, comment |-> co, key |-> ke]
      PROVE  [m EXCEPT !.comment = x] = [type |-> ty, val |-> v, str |-> st, comment |-> x, key |-> ke]
  BY <1>2
<1>3. ASSUME NEW m, m = [type |-> ty, val |-> v, str |-> st, comment |-> co, key |-> ke]
      PROVE  [m EXCEPT !.str = x] = [type |-> ty, val |-> v, str |-> x, comment |-> co, key |-> ke]
  BY <1>3
<1> DEFINE m == Fields(ty, v, st, co, ke)
<1>4. m = [type |-> ty, val |-> v, str |-> st, comment |-> co, key |-> ke]
  BY DEF Fields
<1> HIDE DEF m
<1>5. [m EXCEPT !.key = x] = [type |-> ty, val |-> v, str |-> st, comment |-> co, key |-> x]
  BY <1>4
<1>6. [m EXCEPT !.comment = x] = [type |-> ty, val |-> v, str |-> st, comment |-> x, key |-> ke]
  BY <1>4
<1>7. [m EXCEPT !.str = x] = [type |-> ty, val |-> v, str |-> x, comment |-> co, key |-> ke]
  BY <1>4
<1>8. SetKey(m, x) = Fields(ty, v, st, co, x) /\ SetNote(m, x) = Fields(ty, v, st, x, ke)
      /\ SetStr(m, x) = Fields(ty, v, x, co, ke)
  BY <1>5, <1>6, <1>7, Zenon DEF Fields, SetKey, SetNote, SetStr
<1> QED BY <1>8 DEF m

\* NodeOf by its fields.
LEMMA NodeFields == \A n, c, k, s : NodeOf(n, c, k, s) = Fields(n.type, n.val, s, c, k)
BY DEF NodeOf, Fields

\* A node with other comments, and another key.
LEMMA NodeExcept ==
  ASSUME NEW n, NEW c, NEW k, n = NodeOf(n, n.comment, n.key, n.str)
  PROVE  /\ [n EXCEPT !.comment = c, !.key = k] = NodeOf(n, c, k, n.str)
         /\ [n EXCEPT !.key = k] = NodeOf(n, n.comment, k, n.str)
         /\ [n EXCEPT !.comment = c] = NodeOf(n, c, n.key, n.str)
<1>1. n = Fields(n.type, n.val, n.str, n.comment, n.key)
  BY NodeFields
<1>2. SetKey(Fields(n.type, n.val, n.str, n.comment, n.key), k) = Fields(n.type, n.val, n.str, n.comment, k)
      /\ SetNote(Fields(n.type, n.val, n.str, n.comment, n.key), c) = Fields(n.type, n.val, n.str, c, n.key)
      /\ SetKey(Fields(n.type, n.val, n.str, c, n.key), k) = Fields(n.type, n.val, n.str, c, k)
  BY FieldsExcept
<1>3. SetKey(n, k) = Fields(n.type, n.val, n.str, n.comment, k) /\ SetNote(n, c) = Fields(n.type, n.val, n.str, c, n.key)
  BY <1>1, <1>2, Zenon
<1>4. SetKey(SetNote(n, c), k) = Fields(n.type, n.val, n.str, c, k)
  BY <1>2, <1>3, Zenon
<1>5. SetKey(SetNote(n, c), k) = NodeOf(n, c, k, n.str) /\ SetKey(n, k) = NodeOf(n, n.comment, k, n.str)
      /\ SetNote(n, c) = NodeOf(n, c, n.key, n.str)
  BY <1>3, <1>4, NodeFields
<1> QED BY <1>5, Zenon DEF SetKey, SetNote

\* A node with another string, and another key.
LEMMA NodeCopied ==
  ASSUME NEW n, NEW k, NEW s, n = NodeOf(n, n.comment, n.key, n.str)
  PROVE  [n EXCEPT !.str = s, !.key = k] = NodeOf(n, n.comment, k, s)
<1>1. n = Fields(n.type, n.val, n.str, n.comment, n.key)
  BY NodeFields
<1>2. SetStr(Fields(n.type, n.val, n.str, n.comment, n.key), s) = Fields(n.type, n.val, s, n.comment, n.key)
      /\ SetKey(Fields(n.type, n.val, s, n.comment, n.key), k) = Fields(n.type, n.val, s, n.comment, k)
  BY FieldsExcept
<1>3. SetKey(SetStr(n, s), k) = Fields(n.type, n.val, s, n.comment, k)
  BY <1>1, <1>2, Zenon
<1>4. SetKey(SetStr(n, s), k) = NodeOf(n, n.comment, k, s)
  BY <1>3, NodeFields
<1> QED BY <1>4, Zenon DEF SetKey, SetStr

\* The key of an index points to nothing.
LEMMA IndexKeySound == KeySound(IndexKey) /\ IndexKey.at = "nothing"
BY DEF KeySound, IndexKey, Keying, Targets, KeyReleased

\* A copied key owns its text exactly where it copied one.
LEMMA CopyKeySound ==
  ASSUME NEW k, KeySound(k)
  PROVE  KeySound(CopyKey(k)) /\ (CopyKey(k).at = "own") = CopiesText(k)
BY DEF KeySound, CopyKey, CopiesText, Keying, Targets, KeyReleased, Lent

\* A copied node owns what was copied for it.
LEMMA CopySound ==
  ASSUME NEW D, NEW n, Sound(n, D)
  PROVE  /\ Sound(CopyNode(n), D) /\ CopyNode(n).type = n.type
         /\ Own(CopyNode(n)) = Blocks(n, n.str.at # "nothing", CopiesText(n.key))
<1> DEFINE s == IF n.str.at = "nothing" THEN NoString ELSE [at |-> "own", allocated |-> TRUE]
<1>1. n = NodeOf(n, n.comment, n.key, n.str) /\ n.comment \in [Placements -> Seq(Lexeme)]
      /\ KeySound(n.key) /\ StrSound(n.str)
  BY SoundIs
<1>2. StrSound(s) /\ (s.at = "own") = (n.str.at # "nothing") /\ (n.str.at # "nothing" => s.at # "nothing")
  BY DEF StrSound, NoString, Targets
<1>3. KeySound(CopyKey(n.key)) /\ (CopyKey(n.key).at = "own") = CopiesText(n.key)
  BY <1>1, CopyKeySound
<1>4. CopyNode(n) = NodeOf(n, n.comment, CopyKey(n.key), s)
  <2>1. [n EXCEPT !.str = s, !.key = CopyKey(n.key)] = NodeOf(n, n.comment, CopyKey(n.key), s)
    <3> HIDE DEF s
    <3> QED BY <1>1, NodeCopied
  <2> QED BY <2>1 DEF CopyNode
<1> HIDE DEF s
<1>5. /\ Sound(CopyNode(n), D) /\ CopyNode(n).type = n.type /\ CopyNode(n).comment = n.comment
      /\ CopyNode(n).key = CopyKey(n.key) /\ CopyNode(n).str = s
  BY <1>1, <1>2, <1>3, <1>4, SoundOf
<1>6. Own(CopyNode(n)) = Blocks(n, n.str.at # "nothing", CopiesText(n.key))
  BY <1>2, <1>3, <1>5 DEF Own, Blocks, Comments
<1> QED BY <1>5, <1>6

\* What stays with the place when two Values are swapped, and what goes.
Stays == {"key", "comments"} \cup Placements
Mixed(n, m) == NodeOf(n, m.comment, m.key, n.str)

\* swap exchanges everything but the comments and the key.
LEMMA MixedSound ==
  ASSUME NEW D, NEW n, Sound(n, D), NEW m, Sound(m, D)
  PROVE  /\ Sound(Mixed(n, m), D) /\ Mixed(n, m).type = n.type
         /\ Own(Mixed(n, m)) = (Own(n) \ Stays) \cup (Own(m) \cap Stays)
<1>1. KeySound(m.key) /\ m.comment \in [Placements -> Seq(Lexeme)] /\ StrSound(n.str)
  BY SoundIs
<1>2. /\ Sound(Mixed(n, m), D) /\ Mixed(n, m).type = n.type /\ Mixed(n, m).comment = m.comment
      /\ Mixed(n, m).key = m.key /\ Mixed(n, m).str = n.str
  BY <1>1, SoundOf DEF Mixed
<1>3. Own(Mixed(n, m)) = (Own(n) \ Stays) \cup (Own(m) \cap Stays)
  BY <1>2 DEF Own, Blocks, Comments, Stays, Placements
<1> QED BY <1>2, <1>3
-----------------------------------------------------------------------------
(* Trees whose roots are changed. *)
LEMMA Rerooted ==
  ASSUME NEW D, NEW t, Tree(t, D), NEW n, Sound(n, D), n.type = t[<<>>].type,
         NEW u, u = [t EXCEPT ![<<>>] = n]
  PROVE  /\ Tree(u, D)
         /\ DOMAIN u = DOMAIN t
         /\ \A p \in DOMAIN t : u[p] = IF p = <<>> THEN n ELSE t[p]
<1>1. DOMAIN u = DOMAIN t /\ u = [p \in DOMAIN t |-> u[p]]
      /\ \A p \in DOMAIN t : u[p] = IF p = <<>> THEN n ELSE t[p]
  OBVIOUS
<1>2. u = [p \in DOMAIN u |-> u[p]]
  BY <1>1
<1>3. \A p \in DOMAIN u : Sound(u[p], D) /\ u[p].type = t[p].type
  BY <1>1 DEF Tree, Forest
<1>4. Forest(u, D)
  BY <1>1, <1>2, <1>3 DEF Tree, Forest
<1>5. ASSUME NEW p \in DOMAIN u, p # <<>> PROVE Front(p) \in DOMAIN u /\ Fits(u[Front(p)].type, p[Len(p)], D)
  <2>1. Front(p) \in DOMAIN t /\ Fits(t[Front(p)].type, p[Len(p)], D)
    BY <1>1, <1>5 DEF Tree
  <2>2. u[Front(p)].type = t[Front(p)].type
    BY <2>1, <1>1, <1>3
  <2> QED BY <2>1, <2>2, <1>1
<1>6. Tree(u, D)
  BY <1>1, <1>4, <1>5 DEF Tree
<1> QED BY <1>1, <1>6

\* A tree after swap.
LEMMA SwappedIs ==
  ASSUME NEW D, NEW a, Tree(a, D), NEW b, Tree(b, D)
  PROVE  /\ Tree(Swapped(a, b), D) /\ DOMAIN Swapped(a, b) = DOMAIN b
         /\ Swapped(a, b)[<<>>] = Mixed(b[<<>>], a[<<>>])
         /\ \A p \in DOMAIN b : p # <<>> => Swapped(a, b)[p] = b[p]
         /\ \A p \in DOMAIN b : Swapped(a, b)[p].type = b[p].type
<1>1. Sound(a[<<>>], D) /\ Sound(b[<<>>], D)
  BY DEF Tree, Forest
<1> DEFINE n == Mixed(b[<<>>], a[<<>>])
<1>2. Sound(n, D) /\ n.type = b[<<>>].type
  BY <1>1, MixedSound
<1>3. b[<<>>] = NodeOf(b[<<>>], b[<<>>].comment, b[<<>>].key, b[<<>>].str)
  BY <1>1, SoundIs
<1>4. [b[<<>>] EXCEPT !.comment = a[<<>>].comment, !.key = a[<<>>].key] = n
  <2>1. [b[<<>>] EXCEPT !.comment = a[<<>>].comment, !.key = a[<<>>].key]
          = NodeOf(b[<<>>], a[<<>>].comment, a[<<>>].key, b[<<>>].str)
    BY <1>3, NodeExcept
  <2> QED BY <2>1 DEF Mixed
<1>6. Swapped(a, b) = [b EXCEPT ![<<>>] = n]
  <2> HIDE DEF n
  <2>1. Swapped(a, b) = [b EXCEPT ![<<>>] = [b[<<>>] EXCEPT !.comment = a[<<>>].comment, !.key = a[<<>>].key]]
    BY DEF Swapped
  <2> QED BY <2>1, <1>4
<1> HIDE DEF n
<1>7. /\ Tree(Swapped(a, b), D) /\ DOMAIN Swapped(a, b) = DOMAIN b
      /\ \A p \in DOMAIN b : Swapped(a, b)[p] = IF p = <<>> THEN n ELSE b[p]
  BY <1>2, <1>6, Rerooted
<1>8. <<>> \in DOMAIN b
  BY DEF Tree
<1> QED BY <1>2, <1>7, <1>8 DEF n

\* With their places kept, two Values that are swapped own what they owned.
LEMMA SwapOwned ==
  ASSUME NEW D, NEW a, Tree(a, D), NEW b, Tree(b, D)
  PROVE  Owned(Swapped(a, b)) + Owned(Swapped(b, a)) = Owned(a) + Owned(b)
<1> DEFINE H(t) == {x \in ToOwn(t) : x[1] = <<>> /\ x[2] \in Stays}
           R(t) == {x \in ToOwn(t) : ~(x[1] = <<>> /\ x[2] \in Stays)}
<1>1. ASSUME NEW t, Tree(t, D)
      PROVE  /\ Owned(t) = Cardinality(H(t)) + Cardinality(R(t))
             /\ Cardinality(H(t)) \in Nat /\ Cardinality(R(t)) \in Nat
             /\ IsFiniteSet(H(t)) /\ IsFiniteSet(R(t))
  <2>1. IsFiniteSet(ToOwn(t))
    BY <1>1, OwnFinite DEF Tree
  <2>2. H(t) \cup R(t) = ToOwn(t) /\ H(t) \cap R(t) = {}
    OBVIOUS
  <2> HIDE DEF H, R
  <2> QED BY <2>1, <2>2, CardParts DEF Owned
<1>2. ASSUME NEW c, Tree(c, D), NEW d, Tree(d, D)
      PROVE  Owned(Swapped(c, d)) = Cardinality(H(c)) + Cardinality(R(d))
  <2> DEFINE u == Swapped(c, d)
  <2>1. /\ Tree(u, D) /\ DOMAIN u = DOMAIN d /\ u[<<>>] = Mixed(d[<<>>], c[<<>>])
        /\ \A p \in DOMAIN d : p # <<>> => u[p] = d[p]
    BY <1>2, SwappedIs
  <2>2. Sound(c[<<>>], D) /\ Sound(d[<<>>], D) /\ <<>> \in DOMAIN c /\ <<>> \in DOMAIN d
    BY <1>2 DEF Tree, Forest
  <2>3. Own(u[<<>>]) = (Own(d[<<>>]) \ Stays) \cup (Own(c[<<>>]) \cap Stays)
    BY <2>1, <2>2, MixedSound
  <2> HIDE DEF u
  <2>4. ToOwn(u) \subseteq H(c) \cup R(d)
    <3> SUFFICES ASSUME NEW x \in ToOwn(u) PROVE x \in H(c) \cup R(d)
      OBVIOUS
    <3>1. x = <<x[1], x[2]>> /\ x[1] \in DOMAIN d /\ x[2] \in Own(u[x[1]])
      BY <2>1, OwnIs
    <3>2. CASE x[1] # <<>>
      <4>1. <<x[1], x[2]>> \in ToOwn(d)
        BY <3>1, <3>2, <2>1, OwnIs
      <4> QED BY <3>1, <3>2, <4>1
    <3>3. CASE x[1] = <<>> /\ x[2] \in Stays
      <4>1. x[2] \in Own(c[<<>>])
        BY <3>1, <3>3, <2>3
      <4>2. <<x[1], x[2]>> \in ToOwn(c)
        BY <4>1, <3>3, <2>2, OwnIs
      <4> QED BY <3>1, <3>3, <4>2
    <3>4. CASE x[1] = <<>> /\ x[2] \notin Stays
      <4>1. x[2] \in Own(d[<<>>])
        BY <3>1, <3>4, <2>3
      <4>2. <<x[1], x[2]>> \in ToOwn(d)
        BY <4>1, <3>4, <2>2, OwnIs
      <4> QED BY <3>1, <3>4, <4>2
    <3> QED BY <3>2, <3>3, <3>4
  <2>5. H(c) \subseteq ToOwn(u)
    <3> SUFFICES ASSUME NEW x \in H(c) PROVE x \in ToOwn(u)
      OBVIOUS
    <3>1. x = <<x[1], x[2]>> /\ x[1] = <<>> /\ x[2] \in Stays /\ x[2] \in Own(c[<<>>])
      BY OwnIs
    <3>2. x[2] \in Own(u[<<>>])
      BY <3>1, <2>3
    <3>3. <<x[1], x[2]>> \in ToOwn(u)
      BY <3>1, <3>2, <2>1, <2>2, OwnIs
    <3> QED BY <3>1, <3>3
  <2>6. R(d) \subseteq ToOwn(u)
    <3> SUFFICES ASSUME NEW x \in R(d) PROVE x \in ToOwn(u)
      OBVIOUS
    <3>1. x = <<x[1], x[2]>> /\ x[1] \in DOMAIN d /\ x[2] \in Own(d[x[1]]) /\ ~(x[1] = <<>> /\ x[2] \in Stays)
      BY OwnIs
    <3>2. x[2] \in Own(u[x[1]])
      BY <3>1, <2>1, <2>3
    <3>3. <<x[1], x[2]>> \in ToOwn(u)
      BY <3>1, <3>2, <2>1, OwnIs
    <3> QED BY <3>1, <3>3
  <2>7. ToOwn(u) = H(c) \cup R(d)
    BY <2>4, <2>5, <2>6
  <2>8. H(c) \cap R(d) = {}
    OBVIOUS
  <2>9. IsFiniteSet(H(c)) /\ IsFiniteSet(R(d))
    BY <1>1, <1>2
  <2> HIDE DEF H, R
  <2> QED BY <2>7, <2>8, <2>9, CardSplit DEF Owned, u
<1> HIDE DEF H, R
<1>3. /\ Owned(a) = Cardinality(H(a)) + Cardinality(R(a)) /\ Owned(b) = Cardinality(H(b)) + Cardinality(R(b))
      /\ Cardinality(H(a)) \in Nat /\ Cardinality(R(a)) \in Nat /\ Cardinality(H(b)) \in Nat /\ Cardinality(R(b)) \in Nat
  BY <1>1
<1>4. Owned(Swapped(a, b)) = Cardinality(H(a)) + Cardinality(R(b)) /\ Owned(Swapped(b, a)) = Cardinality(H(b)) + Cardinality(R(a))
  BY <1>2
<1> QED BY <1>3, <1>4
-----------------------------------------------------------------------------
(* Taking a part of a tree, copying it, and putting it somewhere.              *)
LEMMA SubIs ==
  ASSUME NEW D, NEW t, Tree(t, D), NEW p \in DOMAIN t
  PROVE  /\ Tree(Sub(t, p), D)
         /\ \A r : r \in DOMAIN Sub(t, p) <=> r \in Place /\ p \o r \in DOMAIN t
         /\ \A r \in DOMAIN Sub(t, p) : Sub(t, p)[r] = t[p \o r]
<1> DEFINE s == Sub(t, p)
<1>1. p \in Place /\ DOMAIN t \subseteq Place /\ IsFiniteSet(DOMAIN t)
  BY DEF Tree, Forest
<1>2. DOMAIN s = {Suffix(p, q) : q \in Below(t, p)} /\ s = [r \in DOMAIN s |-> s[r]]
      /\ \A r \in DOMAIN s : s[r] = t[p \o r]
  BY DEF Sub
<1> HIDE DEF s
<1>3. ASSUME NEW r \in DOMAIN s PROVE r \in Place /\ p \o r \in DOMAIN t
  <2>1. PICK q \in DOMAIN t : IsPrefix(p, q) /\ r = Suffix(p, q)
    BY <1>2 DEF Below
  <2>2. q \in Place
    BY <1>1
  <2> QED BY <2>1, <2>2, <1>1, PrefixSuffix
<1>4. ASSUME NEW r \in Place, p \o r \in DOMAIN t PROVE r \in DOMAIN s
  <2>1. IsPrefix(p, p \o r) /\ Suffix(p, p \o r) = r
    BY <1>1, PrefixConcat
  <2>2. p \o r \in Below(t, p)
    BY <1>4, <2>1 DEF Below
  <2>3. Suffix(p, p \o r) \in {Suffix(p, q) : q \in Below(t, p)}
    BY <2>2
  <2> QED BY <2>1, <2>3, <1>2
<1>5. IsFiniteSet(DOMAIN s)
  <2> DEFINE f == [r \in DOMAIN s |-> p \o r]
             T == {f[r] : r \in DOMAIN s}
  <2>1. f \in [DOMAIN s -> DOMAIN t]
    BY <1>3
  <2>2. \A x, y \in DOMAIN s : f[x] = f[y] => x = y
    <3> TAKE x, y \in DOMAIN s
    <3>1. Suffix(p, p \o x) = x /\ Suffix(p, p \o y) = y
      BY <1>1, <1>3, PrefixConcat
    <3> QED BY <3>1
  <2>3. f \in Injection(DOMAIN s, DOMAIN t)
    <3> HIDE DEF f
    <3>1. DOMAIN f = DOMAIN s
      BY <2>1
    <3> QED BY <2>1, <2>2, <3>1 DEF Injection, IsInjective
  <2> QED BY <2>3, <1>1, FS_Injection
<1>6. Forest(s, D)
  <2>1. \A r \in DOMAIN s : Sound(s[r], D)
    BY <1>2, <1>3 DEF Tree, Forest
  <2> QED BY <2>1, <1>2, <1>3, <1>5 DEF Forest
<1>7. <<>> \in DOMAIN s
  <2>1. <<>> \in Place /\ p \o <<>> = p
    BY <1>1, PrefixOrder DEF Place
  <2> QED BY <2>1, <1>4
<1>8. ASSUME NEW r \in DOMAIN s, r # <<>> PROVE Front(r) \in DOMAIN s /\ Fits(s[Front(r)].type, r[Len(r)], D)
  <2>1. r \in Place /\ p \o r \in DOMAIN t
    BY <1>3
  <2>2. Front(p \o r) = p \o Front(r) /\ p \o r # <<>> /\ (p \o r)[Len(p \o r)] = r[Len(r)] /\ Front(r) \in Place
    BY <2>1, <1>1, <1>8, FrontConcat, FrontPlace
  <2>3. p \o Front(r) \in DOMAIN t /\ Fits(t[p \o Front(r)].type, r[Len(r)], D)
    BY <2>1, <2>2 DEF Tree
  <2>4. Front(r) \in DOMAIN s
    BY <2>2, <2>3, <1>4
  <2> QED BY <2>3, <2>4, <1>2
<1>9. Tree(s, D)
  BY <1>6, <1>7, <1>8 DEF Tree
<1> QED BY <1>2, <1>3, <1>4, <1>9 DEF s

\* A copy is a tree, and allocates what it owns.
LEMMA CopyIs ==
  ASSUME NEW D, NEW v, Tree(v, D)
  PROVE  /\ Tree(Copy(v), D) /\ DOMAIN Copy(v) = DOMAIN v
         /\ \A p \in DOMAIN v : Copy(v)[p].type = v[p].type
         /\ CopyAllocates(v) = Owned(Copy(v))
<1> DEFINE c == Copy(v)
<1>1. DOMAIN c = DOMAIN v /\ \A p \in DOMAIN v : c[p] = CopyNode(v[p])
  BY DEF Copy
<1>2. c = [p \in DOMAIN c |-> c[p]]
  BY DEF Copy
<1>3. ToCopy(v) = UNION {{p} \X Blocks(v[p], v[p].str.at # "nothing", CopiesText(v[p].key)) : p \in DOMAIN v}
  BY DEF ToCopy
<1>4. ToOwn(c) = UNION {{p} \X Own(c[p]) : p \in DOMAIN c}
  BY DEF ToOwn, Own
<1> HIDE DEF c
<1>5. \A p \in DOMAIN v : /\ Sound(c[p], D) /\ c[p].type = v[p].type
                          /\ Own(c[p]) = Blocks(v[p], v[p].str.at # "nothing", CopiesText(v[p].key))
  <2> TAKE p \in DOMAIN v
  <2>1. Sound(v[p], D)
    BY DEF Tree, Forest
  <2> QED BY <2>1, <1>1, CopySound
<1>6. ToOwn(c) = ToCopy(v)
  BY <1>1, <1>3, <1>4, <1>5
<1>7. Forest(c, D)
  BY <1>1, <1>2, <1>5 DEF Tree, Forest
<1>8. ASSUME NEW p \in DOMAIN c, p # <<>> PROVE Front(p) \in DOMAIN c /\ Fits(c[Front(p)].type, p[Len(p)], D)
  <2>1. Front(p) \in DOMAIN v /\ Fits(v[Front(p)].type, p[Len(p)], D)
    BY <1>1, <1>8 DEF Tree
  <2> QED BY <2>1, <1>1, <1>5
<1>9. Tree(c, D)
  BY <1>1, <1>7, <1>8 DEF Tree
<1> QED BY <1>1, <1>5, <1>6, <1>9 DEF c, CopyAllocates, Owned

\* The entry at p may be replaced, or made in the container that p is in.
Open(t, p, D) ==
  \/ p \in DOMAIN t
  \/ p # <<>> /\ Front(p) \in DOMAIN t /\ Fits(t[Front(p)].type, p[Len(p)], D)

\* Where the places of a tree come from when a part is put into it.
LEMMA PutAt ==
  ASSUME NEW t, NEW v, DOMAIN t \subseteq Place, DOMAIN v \subseteq Place, NEW p \in Place
  PROVE  /\ Put(t, p, v) = [q \in DOMAIN Put(t, p, v) |-> Put(t, p, v)[q]]
         /\ \A q \in DOMAIN Put(t, p, v) :
              \/ q \in DOMAIN t /\ ~IsPrefix(p, q)
              \/ IsPrefix(p, q) /\ Suffix(p, q) \in DOMAIN v
         /\ \A q \in DOMAIN t : ~IsPrefix(p, q) => q \in DOMAIN Put(t, p, v) /\ Put(t, p, v)[q] = t[q]
         /\ \A r \in DOMAIN v : p \o r \in DOMAIN Put(t, p, v) /\ Put(t, p, v)[p \o r] = v[r]
         /\ DOMAIN Put(t, p, v) \subseteq Place
<1> DEFINE u == Put(t, p, v)
<1>1. DOMAIN u = (DOMAIN t \ Below(t, p)) \cup {p \o r : r \in DOMAIN v}
      /\ u = [q \in DOMAIN u |-> u[q]]
      /\ \A q \in DOMAIN u : u[q] = IF IsPrefix(p, q) THEN v[Suffix(p, q)] ELSE t[q]
  BY DEF Put
<1> HIDE DEF u
<1>2. \A r \in DOMAIN v : p \o r \in Place /\ IsPrefix(p, p \o r) /\ Suffix(p, p \o r) = r
  BY PrefixConcat
<1>3. ASSUME NEW q \in DOMAIN u
      PROVE  q \in Place /\ ((q \in DOMAIN t /\ ~IsPrefix(p, q)) \/ (IsPrefix(p, q) /\ Suffix(p, q) \in DOMAIN v))
  <2>1. CASE q \in DOMAIN t \ Below(t, p)
    BY <2>1 DEF Below
  <2>2. CASE q \in {p \o r : r \in DOMAIN v}
    <3>1. PICK r \in DOMAIN v : q = p \o r
      BY <2>2
    <3> QED BY <3>1, <1>2
  <2> QED BY <2>1, <2>2, <1>1
<1>4. ASSUME NEW q \in DOMAIN t, ~IsPrefix(p, q) PROVE q \in DOMAIN u /\ u[q] = t[q]
  <2>1. q \in DOMAIN u
    BY <1>1, <1>4 DEF Below
  <2> QED BY <2>1, <1>1, <1>4
<1>5. ASSUME NEW r \in DOMAIN v PROVE p \o r \in DOMAIN u /\ u[p \o r] = v[r]
  <2>1. p \o r \in DOMAIN u
    BY <1>1
  <2> QED BY <2>1, <1>1, <1>2
<1> QED BY <1>1, <1>3, <1>4, <1>5 DEF u

\* Putting a tree into a tree makes a tree.
LEMMA PutIs ==
  ASSUME NEW D, NEW t, Tree(t, D), NEW v, Tree(v, D), NEW p \in Place, Open(t, p, D)
  PROVE  Tree(Put(t, p, v), D)
<1> DEFINE u == Put(t, p, v)
<1>1. DOMAIN t \subseteq Place /\ DOMAIN v \subseteq Place /\ <<>> \in DOMAIN t /\ <<>> \in DOMAIN v
  BY DEF Tree, Forest
<1>2. /\ u = [q \in DOMAIN u |-> u[q]]
      /\ \A q \in DOMAIN u : (q \in DOMAIN t /\ ~IsPrefix(p, q)) \/ (IsPrefix(p, q) /\ Suffix(p, q) \in DOMAIN v)
      /\ \A q \in DOMAIN t : ~IsPrefix(p, q) => q \in DOMAIN u /\ u[q] = t[q]
      /\ \A r \in DOMAIN v : p \o r \in DOMAIN u /\ u[p \o r] = v[r]
      /\ DOMAIN u \subseteq Place
  BY <1>1, PutAt
<1>3. DOMAIN u = (DOMAIN t \ Below(t, p)) \cup {p \o r : r \in DOMAIN v}
  BY DEF Put
<1> HIDE DEF u
<1>4. IsFiniteSet(DOMAIN u)
  <2>1. IsFiniteSet(DOMAIN t \ Below(t, p))
    <3>1. IsFiniteSet(DOMAIN t) /\ DOMAIN t \ Below(t, p) \subseteq DOMAIN t
      BY DEF Tree, Forest
    <3> QED BY <3>1, FS_Subset
  <2>2. IsFiniteSet({p \o r : r \in DOMAIN v})
    <3> DEFINE f == [r \in DOMAIN v |-> p \o r]
               T == {p \o r : r \in DOMAIN v}
    <3>1. f \in [DOMAIN v -> T] /\ \A y \in T : \E x \in DOMAIN v : f[x] = y
      OBVIOUS
    <3>2. f \in Surjection(DOMAIN v, T)
      BY <3>1 DEF Surjection
    <3>3. IsFiniteSet(DOMAIN v)
      BY DEF Tree, Forest
    <3>4. IsFiniteSet(T)
      BY <3>2, <3>3, FS_Surjection
    <3> QED BY <3>4
  <2>3. IsFiniteSet((DOMAIN t \ Below(t, p)) \cup {p \o r : r \in DOMAIN v})
    BY <2>1, <2>2, FS_Union
  <2> QED BY <2>3, <1>3
<1>5. ASSUME NEW q \in DOMAIN u
      PROVE  /\ Sound(u[q], D)
             /\ q # <<>> => Front(q) \in DOMAIN u /\ Fits(u[Front(q)].type, q[Len(q)], D)
  <2>1. CASE q \in DOMAIN t /\ ~IsPrefix(p, q)
    <3>1. u[q] = t[q] /\ Sound(t[q], D) /\ q \in Place
      BY <2>1, <1>1, <1>2 DEF Tree, Forest
    <3>2. ASSUME q # <<>> PROVE Front(q) \in DOMAIN u /\ Fits(u[Front(q)].type, q[Len(q)], D)
      <4>1. Front(q) \in DOMAIN t /\ Fits(t[Front(q)].type, q[Len(q)], D)
        BY <2>1, <3>2 DEF Tree
      <4>2. ~IsPrefix(p, Front(q))
        <5>1. Front(q) \in Place /\ IsPrefix(Front(q), q)
          BY <3>1, <3>2, FrontPlace
        <5> QED BY <5>1, <3>1, <2>1, PrefixOrder
      <4> QED BY <4>1, <4>2, <1>2
    <3> QED BY <3>1, <3>2
  <2>2. CASE IsPrefix(p, q) /\ Suffix(p, q) \in DOMAIN v
    <3> DEFINE r == Suffix(p, q)
    <3>1. q \in Place /\ r \in Place /\ q = p \o r /\ r \in DOMAIN v
      BY <2>2, <1>2, PrefixSuffix
    <3> HIDE DEF r
    <3>2. u[q] = v[r] /\ Sound(v[r], D)
      BY <3>1, <1>2 DEF Tree, Forest
    <3>3. CASE r # <<>>
      <4>1. Front(q) = p \o Front(r) /\ q[Len(q)] = r[Len(r)]
        BY <3>1, <3>3, FrontConcat
      <4>2. Front(r) \in DOMAIN v /\ Fits(v[Front(r)].type, r[Len(r)], D)
        BY <3>1, <3>3 DEF Tree
      <4> QED BY <3>2, <4>1, <4>2, <1>2
    <3>4. CASE r = <<>>
      <4>1. q = p
        BY <3>1, <3>4, PrefixOrder
      <4>2. ASSUME p # <<>> PROVE Front(p) \in DOMAIN u /\ Fits(u[Front(p)].type, p[Len(p)], D)
        <5>1. Front(p) \in DOMAIN t /\ Fits(t[Front(p)].type, p[Len(p)], D)
          BY <4>2 DEF Open, Tree
        <5>2. ~IsPrefix(p, Front(p))
          <6>1. Len(Front(p)) = Len(p) - 1 /\ Len(p) \in Nat
            BY <4>2, FrontPlace, PlaceLen
          <6> QED BY <6>1 DEF IsPrefix
        <5> QED BY <5>1, <5>2, <1>2
      <4> QED BY <3>2, <4>1, <4>2
    <3> QED BY <3>3, <3>4
  <2> QED BY <2>1, <2>2, <1>2
<1>6. <<>> \in DOMAIN u
  <2>1. CASE p = <<>>
    <3>1. p \o <<>> = <<>>
      BY <2>1, PrefixOrder DEF Place
    <3> QED BY <3>1, <1>1, <1>2
  <2>2. CASE p # <<>>
    <3>1. Len(p) \in Nat /\ Len(p) # 0 /\ Len(<<>>) = 0
      BY <2>2, PlaceLen
    <3>2. ~IsPrefix(p, <<>>)
      BY <3>1 DEF IsPrefix
    <3> QED BY <3>2, <1>1, <1>2
  <2> QED BY <2>1, <2>2
<1>7. Tree(u, D)
  BY <1>2, <1>4, <1>5, <1>6 DEF Tree, Forest
<1> QED BY <1>7 DEF u
-----------------------------------------------------------------------------
(* The errors of the reader, and the grammar. *)

\* What the automaton keeps of the activations.
MarkOf(frame) == IF frame.in = "object" THEN "{" ELSE "["
Stack(cs)     == [i \in 1 .. Len(cs) |-> MarkOf(cs[i])]
At(s, st)     == [state |-> s, stack |-> st]
AtState(s, cs) == At(s, Stack(cs))

\* The bracket of an activation.
LEMMA MarkIs == \A frame \in Frame :
  /\ frame.in = "object" => MarkOf(frame) = "{"
  /\ frame.in = "array" => MarkOf(frame) = "["
BY Zenon DEF MarkOf

\* The brackets of the activations.
LEMMA StackIs ==
  ASSUME NEW cs \in Seq(Frame)
  PROVE  /\ Stack(cs) \in Seq({MarkOf(f) : f \in Frame})
         /\ Len(Stack(cs)) = Len(cs)
         /\ \A i \in 1 .. Len(cs) : Stack(cs)[i] = MarkOf(cs[i])
         /\ Stack(cs) = <<>> <=> cs = <<>>
<1> DEFINE M == {MarkOf(f) : f \in Frame}
           s == Stack(cs)
<1>1. Len(cs) \in Nat /\ \A i \in 1 .. Len(cs) : cs[i] \in Frame
  OBVIOUS
<1>2. s = [i \in 1 .. Len(cs) |-> MarkOf(cs[i])]
  BY DEF Stack
<1>3. \A i \in 1 .. Len(cs) : MarkOf(cs[i]) \in M
  BY <1>1
<1> HIDE DEF s, M
<1>4. s \in Seq(M) /\ Len(s) = Len(cs) /\ \A i \in 1 .. Len(cs) : s[i] = MarkOf(cs[i])
  <2>1. s \in [1 .. Len(cs) -> M]
    BY <1>2, <1>3
  <2>2. s \in Seq(M)
    BY <2>1, <1>1
  <2>3. DOMAIN s = 1 .. Len(cs)
    BY <1>2
  <2>4. Len(s) = Len(cs)
    BY <2>2, <2>3, <1>1
  <2> QED BY <2>2, <2>4, <1>2
<1>5. s = <<>> <=> cs = <<>>
  <2>1. s = <<>> <=> Len(s) = 0
    BY <1>4
  <2>2. cs = <<>> <=> Len(cs) = 0
    OBVIOUS
  <2> QED BY <2>1, <2>2, <1>4
<1> QED BY <1>4, <1>5 DEF s, M

\* One more activation is one more bracket.
LEMMA StackAppend ==
  ASSUME NEW cs \in Seq(Frame), NEW f \in Frame
  PROVE  Stack(Append(cs, f)) = Append(Stack(cs), MarkOf(f))
<1> DEFINE M == {MarkOf(g) : g \in Frame}
           a == Append(cs, f)
           m == MarkOf(f)
           b == Append(Stack(cs), m)
<1>1. a \in Seq(Frame) /\ Len(a) = Len(cs) + 1 /\ a[Len(a)] = f /\ \A i \in 1 .. Len(cs) : a[i] = cs[i]
  BY AppendOf
<1>2. Stack(cs) \in Seq(M) /\ Len(Stack(cs)) = Len(cs) /\ \A i \in 1 .. Len(cs) : Stack(cs)[i] = MarkOf(cs[i])
  BY StackIs
<1>3. m \in M
  OBVIOUS
<1> HIDE DEF a, M
<1>4. /\ Stack(a) \in Seq(M) /\ Len(Stack(a)) = Len(a)
      /\ \A i \in 1 .. Len(a) : Stack(a)[i] = MarkOf(a[i])
  BY <1>1, StackIs DEF M
<1> HIDE DEF m
<1>5. b \in Seq(M) /\ Len(b) = Len(cs) + 1 /\ b[Len(b)] = m /\ \A i \in 1 .. Len(cs) : b[i] = Stack(cs)[i]
  BY <1>2, <1>3, AppendOf
<1> HIDE DEF b
<1>6. \A i \in 1 .. Len(b) : Stack(a)[i] = b[i]
  <2> TAKE i \in 1 .. Len(b)
  <2>1. Len(cs) \in Nat
    OBVIOUS
  <2>2. CASE i = Len(cs) + 1
    BY <2>1, <2>2, <1>1, <1>4, <1>5 DEF m
  <2>3. CASE i # Len(cs) + 1
    <3>1. i \in 1 .. Len(cs)
      BY <2>1, <2>3, <1>5
    <3> QED BY <3>1, <2>1, <1>1, <1>2, <1>4, <1>5
  <2> QED BY <2>2, <2>3
<1>7. Stack(a) = b
  BY <1>1, <1>4, <1>5, <1>6, SeqEqual
<1> QED BY <1>7 DEF a, b, m

\* One activation less is one bracket less.
LEMMA StackFront ==
  ASSUME NEW cs \in Seq(Frame), cs # <<>>
  PROVE  /\ Stack(cs) # <<>> /\ Stack(cs)[Len(Stack(cs))] = MarkOf(cs[Len(cs)])
         /\ Front(Stack(cs)) = Stack(Front(cs)) /\ Front(cs) \in Seq(Frame)
<1> DEFINE M == {MarkOf(f) : f \in Frame}
           fs == Front(cs)
           s == Stack(cs)
           b == Front(s)
<1>1. fs \in Seq(Frame) /\ Len(fs) = Len(cs) - 1 /\ \A i \in 1 .. Len(cs) - 1 : fs[i] = cs[i]
  BY FrontOf
<1>2. s \in Seq(M) /\ Len(s) = Len(cs) /\ (\A i \in 1 .. Len(cs) : s[i] = MarkOf(cs[i])) /\ s # <<>>
  BY StackIs
<1>3. Len(cs) \in Nat /\ Len(cs) > 0
  OBVIOUS
<1> HIDE DEF fs, M, s
<1>4. b \in Seq(M) /\ Len(b) = Len(cs) - 1 /\ \A i \in 1 .. Len(cs) - 1 : b[i] = s[i]
  BY <1>2, FrontOf
<1>5. Stack(fs) \in Seq(M) /\ Len(Stack(fs)) = Len(fs) /\ \A i \in 1 .. Len(fs) : Stack(fs)[i] = MarkOf(fs[i])
  BY <1>1, StackIs DEF M
<1> HIDE DEF b
<1>6. \A i \in 1 .. Len(b) : b[i] = Stack(fs)[i]
  <2> TAKE i \in 1 .. Len(b)
  <2>1. i \in 1 .. Len(cs) - 1 /\ i \in 1 .. Len(cs) /\ i \in 1 .. Len(fs)
    BY <1>1, <1>3, <1>4
  <2> QED BY <2>1, <1>1, <1>2, <1>4, <1>5
<1>7. b = Stack(fs)
  BY <1>1, <1>4, <1>5, <1>6, SeqEqual
<1>8. s[Len(s)] = MarkOf(cs[Len(cs)])
  BY <1>2, <1>3
<1> QED BY <1>1, <1>2, <1>7, <1>8 DEF fs, s, b

\* Replacing the innermost activation by one of the same kind.
LEMMA StackSame ==
  ASSUME NEW cs \in Seq(Frame), cs # <<>>, NEW f \in Frame, f.in = cs[Len(cs)].in
  PROVE  Stack(Append(Front(cs), f)) = Stack(cs)
<1> DEFINE a == Append(Front(cs), f)
           M == {MarkOf(g) : g \in Frame}
<1>1. /\ Front(cs) \in Seq(Frame) /\ Len(Front(cs)) = Len(cs) - 1
      /\ \A i \in 1 .. Len(cs) - 1 : Front(cs)[i] = cs[i]
  BY FrontOf
<1>2. Len(cs) \in Nat /\ Len(cs) > 0
  OBVIOUS
<1>3. /\ a \in Seq(Frame) /\ Len(a) = Len(Front(cs)) + 1 /\ a[Len(a)] = f
      /\ \A i \in 1 .. Len(Front(cs)) : a[i] = Front(cs)[i]
  BY <1>1, AppendOf
<1> HIDE DEF a, M
<1>4. Len(a) = Len(cs)
  BY <1>1, <1>2, <1>3
<1>5. \A i \in 1 .. Len(cs) : MarkOf(a[i]) = MarkOf(cs[i])
  <2> TAKE i \in 1 .. Len(cs)
  <2>1. CASE i = Len(cs)
    BY <2>1, <1>3, <1>4, Zenon DEF MarkOf
  <2>2. CASE i # Len(cs)
    <3>1. i \in 1 .. Len(cs) - 1 /\ i \in 1 .. Len(Front(cs))
      BY <2>2, <1>1, <1>2
    <3> QED BY <3>1, <1>1, <1>3
  <2> QED BY <2>1, <2>2
<1>6. Stack(a) = Stack(cs)
  BY <1>4, <1>5 DEF Stack
<1> QED BY <1>6 DEF a
-----------------------------------------------------------------------------
(* What one lexeme does to the automaton. *)
LEMMA GrammarSkips ==
  ASSUME NEW g, NEW l, NEW c
  PROVE  /\ l.tok \in NewLines => GrammarStep(g, l, c) = g
         /\ l.tok \in CommentTokens => GrammarStep(g, l, c) \in {g, Dead}
         /\ l.tok \in CommentTokens /\ c = FALSE => GrammarStep(g, l, c) = Dead
<1>1. \A t \in CommentTokens \cup NewLines :
        t \notin {"{", "["} /\ t \notin {"string", "number", "true", "false", "null"} /\ t # "]" /\ t # "}"
        /\ t # "string" /\ t # ":" /\ t # ","
  BY Zenon DEF CommentTokens, NewLines
<1>2. \A t \in CommentTokens : t \notin NewLines
  BY Zenon DEF CommentTokens, NewLines
<1>p. \A a, b, x, y : <<a, b>> = <<x, y>> => a = x /\ b = y
  OBVIOUS
<1>3. ASSUME l.tok \in CommentTokens \cup NewLines
      PROVE  <<Top(g), l.tok>> \notin {<<"{", "}">>, <<"[", "]">>}
  <2>1. l.tok # "]" /\ l.tok # "}"
    BY <1>1, <1>3
  <2> QED BY <2>1, <1>p, Zenon
<1>4. ASSUME l.tok \in NewLines PROVE GrammarStep(g, l, c) = g
  <2>1. l.tok \notin CommentTokens
    BY <1>2, <1>4, Zenon
  <2> QED BY <2>1, <1>1, <1>3, <1>4, Zenon DEF GrammarStep
<1>5. ASSUME l.tok \in CommentTokens
      PROVE  GrammarStep(g, l, c) = IF c /\ g.state \notin {"valueOrEnd", "colon"} THEN g ELSE Dead
  BY <1>1, <1>2, <1>3, <1>5, Zenon DEF GrammarStep
<1> QED BY <1>4, <1>5, Zenon

\* No comment before the first element of an array.
LEMMA GrammarAtOnce ==
  ASSUME NEW g, NEW l, NEW c, l.tok \in CommentTokens, g.state = "valueOrEnd"
  PROVE  GrammarStep(g, l, c) = Dead
<1>1. \A t \in CommentTokens :
        t \notin {"{", "["} /\ t \notin {"string", "number", "true", "false", "null"} /\ t # "]" /\ t # "}"
        /\ t # "string" /\ t # ":" /\ t # "," /\ t \notin NewLines
  BY Zenon DEF CommentTokens, NewLines
<1>2. g.state \in {"valueOrEnd", "colon"} /\ g.state # "next"
  OBVIOUS
<1> QED BY <1>1, <1>2, Zenon DEF GrammarStep

\* A place where a value is wanted, and nothing else.
Scalars == {"number", "string", "true", "false", "null"}

\* The grammar where a value begins.
LEMMA GrammarValue ==
  ASSUME NEW st, NEW l, NEW c, NEW s \in {"value", "valueOrEnd"}
  PROVE  /\ l.tok = "{" => GrammarStep(At(s, st), l, c) = At("nameOrEnd", Append(st, "{"))
         /\ l.tok = "[" => GrammarStep(At(s, st), l, c) = At("valueOrEnd", Append(st, "["))
         /\ l.tok \in Scalars /\ WellSpelled(l) => GrammarStep(At(s, st), l, c) = Closed(st)
         /\ l.tok = "]" /\ s = "valueOrEnd" => GrammarStep(At(s, st), l, c) = Closed(Front(st))
<1> DEFINE g == At(s, st)
<1>0. g.state = s /\ g.stack = st
  BY DEF At
<1>s. s \notin {"nameOrEnd", "name", "colon", "next"}
  OBVIOUS
<1>1. ASSUME l.tok = "{" PROVE GrammarStep(g, l, c) = At("nameOrEnd", Append(st, "{"))
  <2>1. GrammarStep(g, l, c) = Opened(g, "{")
    BY <1>0, <1>1, Zenon DEF GrammarStep, NewLines, CommentTokens
  <2>2. Opened(g, "{") = At("nameOrEnd", Append(g.stack, "{"))
    BY Zenon DEF Opened, At
  <2> QED BY <2>1, <2>2, <1>0, Zenon
<1>2. ASSUME l.tok = "[" PROVE GrammarStep(g, l, c) = At("valueOrEnd", Append(st, "["))
  <2>1. GrammarStep(g, l, c) = Opened(g, "[")
    BY <1>0, <1>2, Zenon DEF GrammarStep, NewLines, CommentTokens
  <2>2. Opened(g, "[") = At("valueOrEnd", Append(g.stack, "["))
    BY Zenon DEF Opened, At
  <2> QED BY <2>1, <2>2, <1>0, Zenon
<1>3. \A t \in Scalars : t \notin NewLines \cup CommentTokens \cup {"{", "[", "]", "}", ":", ","}
  BY Zenon DEF Scalars, NewLines, CommentTokens
<1>4. \A t \in Scalars : t \in {"string", "number", "true", "false", "null"}
  BY Zenon DEF Scalars
<1>5. ASSUME l.tok \in Scalars, WellSpelled(l) PROVE GrammarStep(g, l, c) = Closed(st)
  <2>1. l.tok \notin NewLines /\ l.tok \notin CommentTokens /\ l.tok \notin {"{", "["}
        /\ l.tok \in {"string", "number", "true", "false", "null"}
    BY <1>3, <1>4, <1>5, Zenon
  <2> QED BY <2>1, <1>0, <1>5, Zenon DEF GrammarStep
<1>7. ASSUME l.tok = "]", s = "valueOrEnd" PROVE GrammarStep(g, l, c) = Closed(Front(st))
  <2>1. g.state = "valueOrEnd"
    BY <1>0, <1>7, Zenon
  <2>2. l.tok \notin {"string", "number", "true", "false", "null"}
    BY <1>7, Zenon
  <2> QED BY <2>1, <2>2, <1>0, <1>7, Zenon DEF GrammarStep, NewLines, CommentTokens
<1> QED BY <1>1, <1>2, <1>5, <1>7, Zenon

\* The grammar where none does.
LEMMA GrammarNoValue ==
  ASSUME NEW st, NEW l, NEW c, NEW s \in {"value", "valueOrEnd"},
         \/ l.tok \in Scalars /\ ~WellSpelled(l)
         \/ /\ l.tok \notin Scalars \cup {"{", "["} \cup NewLines \cup CommentTokens
            /\ l.tok = "]" => s # "valueOrEnd"
  PROVE  GrammarStep(At(s, st), l, c) = Dead
<1> DEFINE g == At(s, st)
<1>0. g.state = s /\ g.stack = st
  BY DEF At
<1>s. s \notin {"nameOrEnd", "name", "colon", "next"}
  OBVIOUS
<1>3. \A t \in Scalars : t \notin NewLines \cup CommentTokens \cup {"{", "[", "]", "}", ":", ","}
  BY Zenon DEF Scalars, NewLines, CommentTokens
<1>4. \A t \in Scalars : t \in {"string", "number", "true", "false", "null"}
  BY Zenon DEF Scalars
<1>6. ASSUME l.tok \in Scalars, ~WellSpelled(l) PROVE GrammarStep(g, l, c) = Dead
  <2>1. l.tok \notin NewLines /\ l.tok \notin CommentTokens /\ l.tok \notin {"{", "["} /\ l.tok # "]"
    BY <1>3, <1>6, Zenon
  <2>2. g.state # "nameOrEnd" /\ g.state # "colon" /\ g.state # "next"
        /\ g.state \notin {"name", "nameOrEnd"}
    BY <1>0, <1>s
  <2> QED BY <2>1, <2>2, <1>6, Zenon DEF GrammarStep
<1>8. ASSUME l.tok \notin Scalars \cup {"{", "["} \cup NewLines \cup CommentTokens,
             l.tok = "]" => s # "valueOrEnd"
      PROVE  GrammarStep(g, l, c) = Dead
  <2>1. l.tok \notin NewLines /\ l.tok \notin CommentTokens /\ l.tok \notin {"{", "["}
        /\ l.tok \notin {"string", "number", "true", "false", "null"}
    BY <1>8, Zenon DEF Scalars
  <2>2. g.state # "nameOrEnd" /\ g.state # "colon" /\ g.state # "next"
        /\ g.state \notin {"name", "nameOrEnd"}
    BY <1>0, <1>s
  <2>3. ~(g.state = "valueOrEnd" /\ l.tok = "]")
    BY <1>0, <1>8, Zenon
  <2> QED BY <2>1, <2>2, <2>3, Zenon DEF GrammarStep
<1> QED BY <1>6, <1>8, Zenon

\* The grammar where a name is due.
LEMMA GrammarName ==
  ASSUME NEW st, NEW l, NEW c, NEW s \in {"name", "nameOrEnd"}
  PROVE  /\ l.tok = "string" /\ WellSpelled(l) => GrammarStep(At(s, st), l, c) = At("colon", st)
         /\ l.tok = "string" /\ ~WellSpelled(l) => GrammarStep(At(s, st), l, c) = Dead
         /\ l.tok = "}" /\ s = "nameOrEnd" => GrammarStep(At(s, st), l, c) = Closed(Front(st))
         /\ /\ l.tok \notin {"string"} \cup NewLines \cup CommentTokens
            /\ l.tok = "}" => s # "nameOrEnd"
            => GrammarStep(At(s, st), l, c) = Dead
<1> DEFINE g == At(s, st)
<1>0. g.state = s /\ g.stack = st
  BY DEF At
<1>s. s \notin {"value", "valueOrEnd", "colon", "next"} /\ s # "valueOrEnd"
  OBVIOUS
<1>t. "string" \notin NewLines /\ "string" \notin CommentTokens
  BY Zenon DEF NewLines, CommentTokens
<1>u. g.state \notin {"value", "valueOrEnd"} /\ g.state # "valueOrEnd" /\ g.state # "colon" /\ g.state # "next"
      /\ g.state \in {"name", "nameOrEnd"}
  BY <1>0, <1>s
<1>1. ASSUME l.tok = "string", WellSpelled(l) PROVE GrammarStep(g, l, c) = At("colon", st)
  <2>1. GrammarStep(g, l, c) = In(g, "colon")
    BY <1>t, <1>u, <1>1, Zenon DEF GrammarStep
  <2>2. In(g, "colon") = At("colon", st)
    BY DEF In, At
  <2> QED BY <2>1, <2>2, Zenon
<1>2. ASSUME l.tok = "string", ~WellSpelled(l) PROVE GrammarStep(g, l, c) = Dead
  BY <1>t, <1>u, <1>2, Zenon DEF GrammarStep
<1>3. ASSUME l.tok = "}", s = "nameOrEnd" PROVE GrammarStep(g, l, c) = Closed(Front(st))
  <2>1. GrammarStep(g, l, c) = Closed(Front(g.stack))
    BY <1>u, <1>0, <1>3, Zenon DEF GrammarStep, NewLines, CommentTokens
  <2> QED BY <2>1, <1>0, Zenon
<1>4. ASSUME l.tok \notin {"string"} \cup NewLines \cup CommentTokens, l.tok = "}" => s # "nameOrEnd"
      PROVE  GrammarStep(g, l, c) = Dead
  <2>1. l.tok \notin NewLines /\ l.tok \notin CommentTokens /\ l.tok # "string"
    BY <1>4, Zenon
  <2>2. ~(g.state = "nameOrEnd" /\ l.tok = "}")
    BY <1>0, <1>4, Zenon
  <2> QED BY <2>1, <2>2, <1>u, Zenon DEF GrammarStep
<1> QED BY <1>1, <1>2, <1>3, <1>4, Zenon

\* The grammar behind a name.
LEMMA GrammarColon ==
  ASSUME NEW st, NEW l, NEW c
  PROVE  /\ l.tok = ":" => GrammarStep(At("colon", st), l, c) = At("value", st)
         /\ l.tok # ":" /\ l.tok \notin NewLines => GrammarStep(At("colon", st), l, c) = Dead
<1> DEFINE g == At("colon", st)
<1>0. g.state = "colon" /\ g.stack = st
  BY DEF At
<1>1. g.state \notin {"value", "valueOrEnd"} /\ g.state # "valueOrEnd" /\ g.state # "nameOrEnd" /\ g.state # "next"
      /\ g.state \notin {"name", "nameOrEnd"} /\ g.state \in {"valueOrEnd", "colon"}
  BY <1>0
<1>2. ASSUME l.tok = ":" PROVE GrammarStep(g, l, c) = At("value", st)
  <2>1. GrammarStep(g, l, c) = In(g, "value")
    BY <1>0, <1>1, <1>2, Zenon DEF GrammarStep, NewLines, CommentTokens
  <2>2. In(g, "value") = At("value", st)
    BY DEF In, At
  <2> QED BY <2>1, <2>2, Zenon
<1>3. ASSUME l.tok # ":", l.tok \notin NewLines PROVE GrammarStep(g, l, c) = Dead
  BY <1>0, <1>1, <1>3, Zenon DEF GrammarStep
<1> QED BY <1>2, <1>3, Zenon

\* Behind a value in a container whose mark is m.
LEMMA GrammarNext ==
  ASSUME NEW st, st # <<>>, NEW l, NEW c,
         NEW m, m = st[Len(st)]
  PROVE  /\ l.tok = "," /\ m = "{" => GrammarStep(At("next", st), l, c) = At("name", st)
         /\ l.tok = "," /\ m = "[" => GrammarStep(At("next", st), l, c) = At("value", st)
         /\ l.tok = "}" /\ m = "{" => GrammarStep(At("next", st), l, c) = Closed(Front(st))
         /\ l.tok = "]" /\ m = "[" => GrammarStep(At("next", st), l, c) = Closed(Front(st))
         /\ m = "{" /\ l.tok \notin {",", "}"} \cup NewLines \cup CommentTokens => GrammarStep(At("next", st), l, c) = Dead
         /\ m = "[" /\ l.tok \notin {",", "]"} \cup NewLines \cup CommentTokens => GrammarStep(At("next", st), l, c) = Dead
<1> DEFINE g == At("next", st)
<1>0. g.state = "next" /\ g.stack = st
  BY DEF At
<1>1. g.state \notin {"value", "valueOrEnd"} /\ g.state # "valueOrEnd" /\ g.state # "nameOrEnd" /\ g.state # "colon"
      /\ g.state \notin {"name", "nameOrEnd"}
  BY <1>0
<1>2. Top(g) = m
  BY <1>0, Zenon DEF Top
<1>3. In(g, "name") = At("name", st) /\ In(g, "value") = At("value", st)
  BY DEF In, At
<1>4. ASSUME l.tok = ",", m = "{" PROVE GrammarStep(g, l, c) = At("name", st)
  BY <1>0, <1>1, <1>2, <1>3, <1>4, Zenon DEF GrammarStep, NewLines, CommentTokens
<1>5. ASSUME l.tok = ",", m = "[" PROVE GrammarStep(g, l, c) = At("value", st)
  <2>1. m # "{"
    BY <1>5, Zenon
  <2> QED BY <2>1, <1>0, <1>1, <1>2, <1>3, <1>5, Zenon DEF GrammarStep, NewLines, CommentTokens
<1>6. ASSUME l.tok \notin NewLines, l.tok \notin CommentTokens, l.tok # ","
      PROVE  GrammarStep(g, l, c) =
               IF <<m, l.tok>> \in {<<"{", "}">>, <<"[", "]">>} THEN Closed(Front(st)) ELSE Dead
  BY <1>0, <1>1, <1>2, <1>6, Zenon DEF GrammarStep
<1>7. ASSUME l.tok = "}", m = "{" PROVE GrammarStep(g, l, c) = Closed(Front(st))
  <2>1. l.tok \notin NewLines /\ l.tok \notin CommentTokens /\ l.tok # ","
    BY <1>7, Zenon DEF NewLines, CommentTokens
  <2>2. <<m, l.tok>> \in {<<"{", "}">>, <<"[", "]">>}
    BY <1>7, Zenon
  <2> QED BY <2>1, <2>2, <1>6, Zenon
<1>8. ASSUME l.tok = "]", m = "[" PROVE GrammarStep(g, l, c) = Closed(Front(st))
  <2>1. l.tok \notin NewLines /\ l.tok \notin CommentTokens /\ l.tok # ","
    BY <1>8, Zenon DEF NewLines, CommentTokens
  <2>2. <<m, l.tok>> \in {<<"{", "}">>, <<"[", "]">>}
    BY <1>8, Zenon
  <2> QED BY <2>1, <2>2, <1>6, Zenon
<1>p. \A a, b, x, y : <<a, b>> = <<x, y>> => a = x /\ b = y
  OBVIOUS
<1>9. ASSUME m = "{", l.tok \notin {",", "}"} \cup NewLines \cup CommentTokens PROVE GrammarStep(g, l, c) = Dead
  <2>1. l.tok \notin NewLines /\ l.tok \notin CommentTokens /\ l.tok # "," /\ l.tok # "}"
    BY <1>9, Zenon
  <2>2. <<m, l.tok>> # <<"{", "}">> /\ <<m, l.tok>> # <<"[", "]">>
    BY <2>1, <1>9, <1>p, Zenon
  <2> QED BY <2>1, <2>2, <1>6, Zenon
<1>10. ASSUME m = "[", l.tok \notin {",", "]"} \cup NewLines \cup CommentTokens PROVE GrammarStep(g, l, c) = Dead
  <2>1. l.tok \notin NewLines /\ l.tok \notin CommentTokens /\ l.tok # "," /\ l.tok # "]"
    BY <1>10, Zenon
  <2>2. <<m, l.tok>> # <<"{", "}">> /\ <<m, l.tok>> # <<"[", "]">>
    BY <2>1, <1>10, <1>p, Zenon
  <2> QED BY <2>1, <2>2, <1>6, Zenon
<1> QED BY <1>4, <1>5, <1>7, <1>8, <1>9, <1>10, Zenon

\* Nothing follows the text.
LEMMA GrammarDone ==
  ASSUME NEW st, NEW l, NEW c, NEW s \in {"done", "dead"},
         l.tok \notin NewLines, l.tok \notin CommentTokens
  PROVE  GrammarStep(At(s, st), l, c) = Dead
<1> DEFINE g == At(s, st)
<1>1. g.state \notin {"value", "valueOrEnd"} /\ g.state # "valueOrEnd" /\ g.state # "nameOrEnd" /\ g.state # "colon"
      /\ g.state \notin {"name", "nameOrEnd"} /\ g.state # "next"
  BY DEF At
<1> QED BY <1>1, Zenon DEF GrammarStep
-----------------------------------------------------------------------------
(* How the reader follows the automaton while a text comes over the line. *)

Pending ==
  \/ text = <<>>
  \/ \E l \in Lexemes : text = IF l.tok = "//" THEN <<l, Mark("NL")>> ELSE <<l>>

\* The state s of the automaton is the one that pc belongs to. Behind an opening
\* bracket readArray has looked at the next token before it calls readValue.
States == {"value", "valueOrEnd", "name", "nameOrEnd", "colon", "next", "done"}
Fit(s) ==
  \/ /\ pc = "value"
     /\ \/ s = "value"
        \/ (s = "valueOrEnd" /\ text # <<>> /\ Head(text).tok \notin NewLines \cup {"]"})
  \/ pc = "first" /\ s = "valueOrEnd"
  \/ pc = "name" /\ (s = "name" \/ (s = "nameOrEnd" /\ Inner.empty))
  \/ pc = "colon" /\ s = "colon"
  \/ pc \in {"comma", "comment", "item"} /\ s = "next"
  \/ pc \in {"close", "done"} /\ s = "done"

\* The automaton is one lexeme ahead while one waits.
Behind(s) ==
  grammar = IF text = <<>> THEN AtState(s, calls)
            ELSE GrammarStep(AtState(s, calls), Head(text), ~strict)

Follows ==
  /\ errors = <<>> /\ result # "rejected"
  /\ \E s \in States : Fit(s) /\ Behind(s)

Justified ==
  \/ grammar = Dead
  \/ ended /\ grammar.state # "done"
  \/ pc = "done" /\ errors = <<"root">>

\* The lexemes of the line are lexemes.
LEMMA LexemesAre == \A l \in Lexemes : l \in Lexeme
BY LexemesAssumption

\* A lexeme that came over the line is taken whole.
LEMMA TakenWhole ==
  ASSUME TextOK, Pending, \/ Ready /\ Take
                          \/ SkipSpaces
  PROVE  text' = <<>>
<1>1. CASE text = <<>>
  <2>1. Take
    BY <1>1 DEF SkipSpaces
  <2>2. text' = Rest
    BY <2>1 DEF Take, Rest
  <2> QED BY <1>1, <2>2, RestOfText
<1>2. ASSUME NEW l \in Lexemes, l.tok # "//", text = <<l>> PROVE text' = <<>>
  <2>1. CASE SkipSpaces
    BY <1>2, <2>1 DEF SkipSpaces
  <2>2. CASE Take
    <3>1. text # <<>> /\ Head(text) = l
      BY <1>2
    <3>2. TokenLength = 1
      BY <1>2, <3>1, Zenon DEF TokenLength, Token
    <3>3. text' = SubSeq(<<l>>, 1 + 1, Len(<<l>>))
      BY <1>2, <2>2, <3>2, Zenon DEF Take
    <3> QED BY <3>3
  <2> QED BY <2>1, <2>2
<1>3. ASSUME NEW l \in Lexemes, l.tok = "//", text = <<l, Mark("NL")>> PROVE text' = <<>>
  <2>1. text # <<>> /\ Head(text) = l /\ text[1] = l /\ text[2] = Mark("NL") /\ Len(text) = 2
    BY <1>3
  <2>2. l.tok \notin NewLines /\ Mark("NL").tok \in NewLines
    BY <1>3 DEF NewLines, Mark, Lex
  <2>3. ~SkipSpaces /\ Take
    BY <2>1, <2>2 DEF SkipSpaces
  <2>4. LineEnds = 2
    <3> DEFINE I == {i \in 1 .. Len(text) : text[i].tok \in NewLines}
    <3>1. LineEnds = IF I # {} THEN Min(I) ELSE 0
      BY DEF LineEnds, SelectInSeq
    <3>2. I = {2}
      <4>1. \A i \in 1 .. Len(text) : i = 1 \/ i = 2
        BY <2>1
      <4>2. 1 \notin I /\ 2 \in I
        BY <2>1, <2>2
      <4> QED BY <4>1, <4>2
    <3>3. Min(I) = 2
      <4>1. {2} \subseteq Nat /\ {2} # {}
        OBVIOUS
      <4>2. Min({2}) \in {2}
        BY <4>1, MinIs
      <4> QED BY <3>2, <4>2
    <3> QED BY <3>1, <3>2, <3>3
  <2>5. TokenLength = 2
    BY <2>1, <2>4, <1>3 DEF TokenLength, Token
  <2>6. text' = SubSeq(text, 2 + 1, 2)
    BY <2>3, <2>5, <2>1, Zenon DEF Take
  <2>7. SubSeq(<<l, Mark("NL")>>, 3, 2) = <<>>
    OBVIOUS
  <2> QED BY <2>6, <2>7, <1>3
<1> QED BY <1>1, <1>2, <1>3, Zenon DEF Pending

\* A text that has ended too early.
LEMMA EndedEarly ==
  ASSUME NEW s \in States, s # "done", Behind(s), text = <<>>, Ready, UNCHANGED <<grammar, ended>>
  PROVE  Justified'
<1>1. ended /\ grammar.state = s
  BY DEF Behind, AtState, At, Ready
<1> QED BY <1>1 DEF Justified

\* How the reader follows the grammar after a step.
LEMMA FollowsBy ==
  ASSUME NEW s \in States, Fit(s)', text' = <<>>, errors' = <<>>, result' # "rejected",
         grammar' = AtState(s, calls')
  PROVE  Follows'
<1>1. Behind(s)'
  BY DEF Behind
<1> QED BY <1>1 DEF Follows

\* How it follows when it returns to the activation outside.
LEMMA FollowsReturn ==
  ASSUME NEW outer \in Seq(Frame), ReturnTo(outer, TRUE), text' = <<>>, errors' = <<>>,
         result # "rejected", grammar' = Closed(Stack(outer))
  PROVE  Follows'
<1>1. Stack(outer) = <<>> <=> outer = <<>>
  BY StackIs
<1>2. calls' = outer /\ result' # "rejected"
  BY DEF ReturnTo
<1>3. CASE outer = <<>>
  <2>1. pc' = "close"
    BY <1>3 DEF ReturnTo, Resume
  <2>2. grammar' = AtState("done", calls')
    BY <1>1, <1>2, <1>3 DEF Closed, AtState, At
  <2>3. Fit("done")'
    BY <2>1 DEF Fit
  <2> QED BY <1>2, <2>2, <2>3, FollowsBy DEF States
<1>4. CASE outer # <<>>
  <2>1. pc' \in {"comma", "item"}
    BY <1>4 DEF ReturnTo, Resume
  <2>2. grammar' = AtState("next", calls')
    BY <1>1, <1>2, <1>4 DEF Closed, AtState, At
  <2>3. Fit("next")'
    BY <2>1 DEF Fit
  <2> QED BY <1>2, <2>2, <2>3, FollowsBy DEF States
<1> QED BY <1>3, <1>4

\* decodeNumber and decodeString take what is spelled well.
LEMMA SpelledIs ==
  ASSUME NEW l, l.tok \in Scalars
  PROVE  Decoded(l.tok, l.chars).ok <=> WellSpelled(l)
<1>1. CASE l.tok = "number"
  <2>1. WellSpelled(l) <=> DecodeNumber(l.chars).ok
    BY <1>1, Zenon DEF WellSpelled
  <2>2. Decoded(l.tok, l.chars).ok <=> DecodeNumber(l.chars).ok
    BY <1>1 DEF Decoded, Bad
  <2> QED BY <2>1, <2>2, Zenon
<1>2. CASE l.tok = "string"
  <2>1. WellSpelled(l) <=> DecodeString(l.chars).ok
    BY <1>2, Zenon DEF WellSpelled
  <2>2. Decoded(l.tok, l.chars).ok <=> DecodeString(l.chars).ok
    BY <1>2 DEF Decoded, Bad
  <2> QED BY <2>1, <2>2, Zenon
<1>3. CASE l.tok \in {"true", "false", "null"}
  <2>1. WellSpelled(l)
    BY <1>3, Zenon DEF WellSpelled
  <2>2. Decoded(l.tok, l.chars).ok
    BY <1>3 DEF Decoded
  <2> QED BY <2>1, <2>2, Zenon
<1> QED BY <1>1, <1>2, <1>3 DEF Scalars
-----------------------------------------------------------------------------
(* Every step of parse follows the automaton, or what it reports is justified. *)
LEMMA FollowStep ==
  ASSUME ControlOK, TextOK, Pending, strict \in BOOLEAN, ParseStep, UNCHANGED grammar, Justified \/ Follows
  PROVE  (Justified \/ Follows)'
<1>1. UNCHANGED <<ended, strict>> /\ pc # "done"
  BY DEF ParseStep, SkipSpaces, SkipComment, ReadScalar, ReadObject, ReadArray, ReadContainer, NoValue, EndObject,
         ReadName, NoName, ReadColon, NoColon, ReadComma, NoComma, EndArray, NextElement, Recover, Close, ValueToken
<1>2. CASE Justified
  BY <1>1, <1>2 DEF Justified
<1>3. SUFFICES ASSUME errors = <<>>, result # "rejected", NEW s \in States, Fit(s), Behind(s)
               PROVE  (Justified \/ Follows)'
  BY <1>2 DEF Follows
<1> DEFINE st == Stack(calls)
           g == AtState(s, calls)
           l == Head(text)
<1>4. g = At(s, st) /\ g.state = s
  BY DEF AtState, At
<1>5. calls \in Seq(Frame) /\ st \in Seq({MarkOf(f) : f \in Frame}) /\ (st = <<>> <=> calls = <<>>)
  BY StackIs DEF ControlOK
<1>6. text # <<>> => grammar = GrammarStep(g, l, ~strict) /\ Token = l
  BY <1>3 DEF Behind, Token
<1>7. text = <<>> => grammar = g
  BY <1>3 DEF Behind
<1>8. grammar = Dead => (Justified \/ Follows)'
  BY DEF Justified
<1>9. ASSUME text = <<>>, Ready, s # "done" PROVE (Justified \/ Follows)'
  BY <1>1, <1>3, <1>9, EndedEarly
<1>10. calls # <<>> => /\ Inner \in Frame /\ Front(calls) \in Seq(Frame) /\ st # <<>> /\ st[Len(st)] = MarkOf(Inner)
                       /\ Front(st) = Stack(Front(calls))
  BY <1>5, FrontOf, StackFront DEF Inner
<1>11. \A t, a : AtState(t, a) = At(t, Stack(a))
  BY DEF AtState
<1> HIDE DEF st, g, l
<1>12. ASSUME NEW outer \in Seq(Frame), ReturnTo(outer, TRUE), text' = <<>>, UNCHANGED errors,
              grammar = Closed(Stack(outer))
       PROVE  Follows'
  BY <1>3, <1>12, FollowsReturn
<1>13. ASSUME NEW t \in States, Fit(t)', text' = <<>>, UNCHANGED errors, result' # "rejected",
              grammar = AtState(t, calls')
       PROVE  Follows'
  BY <1>3, <1>13, FollowsBy
<1>14. CASE SkipSpaces
  <2>1. text # <<>> /\ l.tok \in NewLines /\ UNCHANGED <<pc, calls, errors, result>>
    BY <1>14 DEF SkipSpaces, l
  <2>2. text' = <<>>
    BY <1>14, TakenWhole
  <2>3. grammar = g
    <3>1. GrammarStep(g, l, ~strict) = g
      BY <2>1, GrammarSkips
    <3> QED BY <3>1, <2>1, <1>6
  <2>4. Fit(s)'
    BY <2>1, <1>3 DEF Fit, Inner, l
  <2>5. grammar = AtState(s, calls')
    BY <2>1, <2>3 DEF g
  <2> QED BY <2>1, <2>2, <2>4, <2>5, <1>3, <1>13
<1>15. CASE SkipComment
  <2>1. text # <<>> /\ l.tok \in CommentTokens /\ Ready /\ Take /\ UNCHANGED <<calls, errors, result>>
        /\ pc' = IF pc = "comma" THEN "comment" ELSE pc
    BY <1>6, <1>15, CommentThere DEF SkipComment, TakeComment, IsComment
  <2>2. text' = <<>>
    BY <2>1, TakenWhole
  <2>3. grammar \in {g, Dead}
    <3>1. GrammarStep(g, l, ~strict) \in {g, Dead}
      BY <2>1, GrammarSkips
    <3> QED BY <3>1, <2>1, <1>6
  <2>4. CASE grammar = g
    <3>1. CASE pc = "value" /\ s = "valueOrEnd"
      <4>1. grammar = Dead
        <5>0. g.state = "valueOrEnd"
          BY <1>4, <3>1
        <5>1. GrammarStep(g, l, ~strict) = Dead
          BY <2>1, <5>0, GrammarAtOnce
        <5> QED BY <5>1, <1>6, <2>1
      <4> QED BY <4>1, <1>8
    <3>2. CASE ~(pc = "value" /\ s = "valueOrEnd")
      <4>1. Fit(s)'
        BY <2>1, <3>2, <1>3 DEF Fit, Inner
      <4>2. grammar = AtState(s, calls')
        BY <2>1, <2>4 DEF g
      <4> QED BY <2>1, <2>2, <4>1, <4>2, <1>3, <1>13
    <3> QED BY <3>1, <3>2
  <2> QED BY <2>3, <2>4, <1>8
<1>16. CASE ReadScalar
  <2> DEFINE ok == Decoded(Token.tok, Token.chars).ok
  <2>1. /\ pc = "value" /\ Ready /\ Take /\ Token.tok \in Scalars /\ ReturnTo(calls, ok)
        /\ errors' = IF ok THEN errors ELSE Append(errors, Token.tok)
    BY <1>16, Zenon DEF ReadScalar, ValueToken, Scalars, Finished
  <2>2. text # <<>> /\ Token = l /\ text' = <<>>
    <3>1. text # <<>>
      BY <2>1, TokenThere DEF Scalars
    <3> QED BY <3>1, <2>1, <1>6, TakenWhole
  <2>3. s \in {"value", "valueOrEnd"}
    BY <2>1, <1>3 DEF Fit
  <2>4. ok \in BOOLEAN /\ (ok <=> WellSpelled(l))
    BY <2>1, <2>2, SpelledIs, DecodedOk DEF Scalars
  <2> HIDE DEF ok
  <2>5. CASE ok = TRUE
    <3>1. GrammarStep(g, l, ~strict) = Closed(st)
      BY <2>1, <2>2, <2>3, <2>4, <2>5, <1>4, GrammarValue
    <3>2. grammar = Closed(Stack(calls))
      BY <3>1, <2>2, <1>6 DEF st
    <3>3. ReturnTo(calls, TRUE) /\ UNCHANGED errors
      BY <2>1, <2>5
    <3>4. Follows'
      BY <3>2, <3>3, <2>2, <1>5, <1>12
    <3> QED BY <3>4
  <2>6. CASE ok = FALSE
    <3>0. l.tok \in Scalars /\ ~WellSpelled(l)
      BY <2>1, <2>2, <2>4, <2>6
    <3>1. GrammarStep(At(s, st), l, ~strict) = Dead
      BY <3>0, <2>3, GrammarNoValue, Zenon
    <3> QED BY <3>1, <2>2, <1>4, <1>6, <1>8
  <2> QED BY <2>4, <2>5, <2>6
<1>17. CASE ReadObject
  <2>1. /\ pc = "value" /\ Ready /\ Take /\ Token.tok = "{" /\ calls' = Append(calls, Object(0, TRUE)) /\ pc' = "name"
        /\ UNCHANGED <<errors, result>>
    BY <1>17, Zenon DEF ReadObject, ReadContainer, ValueToken
  <2>2. text # <<>> /\ Token = l /\ text' = <<>>
    <3>1. text # <<>>
      BY <2>1, TokenThere, Zenon
    <3>2. text' = <<>>
      BY <2>1, TakenWhole, Zenon
    <3> QED BY <3>1, <3>2, <1>6, Zenon
  <2>3. s \in {"value", "valueOrEnd"}
    <3>1. pc = "value"
      BY <2>1, Zenon
    <3> QED BY <3>1, <1>3 DEF Fit
  <2>4. GrammarStep(g, l, ~strict) = At("nameOrEnd", Append(st, "{"))
    BY <2>1, <2>2, <2>3, <1>4, GrammarValue, Zenon
  <2>5. Object(0, TRUE) \in Frame /\ MarkOf(Object(0, TRUE)) = "{" /\ Object(0, TRUE).empty
    <3>1. Object(0, TRUE) \in Frame /\ Object(0, TRUE).in = "object" /\ Object(0, TRUE).empty
      BY DEF Object, Frame
    <3> QED BY <3>1, MarkIs, Zenon
  <2>6. Stack(calls') = Append(st, "{")
    <3>1. Stack(Append(calls, Object(0, TRUE))) = Append(st, MarkOf(Object(0, TRUE)))
      BY <1>5, <2>5, StackAppend, Zenon DEF st
    <3> QED BY <3>1, <2>1, <2>5, Zenon
  <2>7. grammar = AtState("nameOrEnd", calls')
    BY <2>2, <2>4, <2>6, <1>6, Zenon DEF AtState
  <2>8. Fit("nameOrEnd")'
    <3>1. pc' = "name" /\ calls' = Append(calls, Object(0, TRUE)) /\ Object(0, TRUE) \in Frame /\ Object(0, TRUE).empty
      BY <2>1, <2>5, Zenon
    <3>2. ASSUME NEW f \in Frame, calls' = Append(calls, f) PROVE Inner' = f
      BY <3>2, <1>5, AppendOf DEF Inner
    <3>3. Inner' = Object(0, TRUE)
      BY <3>1, <3>2, Zenon
    <3>4. pc' = "name" /\ Inner'.empty
      BY <3>1, <3>3, Zenon
    <3> QED BY <3>4 DEF Fit
  <2>9. UNCHANGED <<errors, result>>
    BY <2>1, Zenon
  <2> QED BY <2>2, <2>7, <2>8, <2>9, <1>3, <1>13 DEF States
<1>18. CASE ReadArray
  <2>1. /\ pc = "value" /\ Ready /\ Take /\ Token.tok = "[" /\ calls' = Append(calls, Array(0)) /\ pc' = "first"
        /\ UNCHANGED <<errors, result>>
    BY <1>18 DEF ReadArray, ReadContainer, ValueToken
  <2>2. text # <<>> /\ Token = l /\ text' = <<>>
    BY <2>1, <1>6, TokenThere, TakenWhole
  <2>3. s \in {"value", "valueOrEnd"}
    BY <2>1, <1>3 DEF Fit
  <2>4. GrammarStep(g, l, ~strict) = At("valueOrEnd", Append(st, "["))
    BY <2>1, <2>2, <2>3, <1>4, GrammarValue, Zenon
  <2>5. Array(0) \in Frame /\ MarkOf(Array(0)) = "["
    <3>1. Array(0) \in Frame /\ Array(0).in = "array"
      BY DEF Array, Frame
    <3> QED BY <3>1, MarkIs, Zenon
  <2>6. Stack(calls') = Append(st, "[")
    <3>1. Stack(Append(calls, Array(0))) = Append(st, MarkOf(Array(0)))
      BY <1>5, <2>5, StackAppend, Zenon DEF st
    <3> QED BY <3>1, <2>1, <2>5
  <2>7. grammar = AtState("valueOrEnd", calls')
    BY <2>2, <2>4, <2>6, <1>6, Zenon DEF AtState
  <2>8. Fit("valueOrEnd")'
    BY <2>1 DEF Fit
  <2> QED BY <2>1, <2>2, <2>7, <2>8, <1>3, <1>13 DEF States
<1>19. CASE NoValue
  <2>1. pc = "value" /\ Ready /\ (IsComment => strict)
    BY <1>19 DEF NoValue, ValueToken
  <2>2. s \in {"value", "valueOrEnd"} /\ (s = "valueOrEnd" => text # <<>> /\ l.tok # "]")
    BY <2>1, <1>3 DEF Fit, l
  <2>3. CASE text = <<>>
    BY <2>1, <2>2, <2>3, <1>9
  <2>4. CASE text # <<>>
    <3>1. Token = l /\ l.tok \notin NewLines
      BY <2>1, <2>4, <1>6 DEF Ready, l
    <3>2. CASE l.tok \in CommentTokens
      <4>1. strict = TRUE
        BY <2>1, <3>1, <3>2 DEF IsComment
      <4>2. GrammarStep(g, l, ~strict) = Dead
        BY <3>2, <4>1, GrammarSkips
      <4> QED BY <4>2, <2>4, <1>6, <1>8
    <3>3. CASE l.tok \notin CommentTokens
      <4>1. l.tok \notin Scalars \cup {"{", "["}
        BY <1>19, <3>1, Zenon DEF NoValue, Scalars
      <4>2. l.tok \notin Scalars \cup {"{", "["} \cup NewLines \cup CommentTokens /\ (l.tok = "]" => s # "valueOrEnd")
        BY <4>1, <3>1, <3>3, <2>2, Zenon
      <4>3. GrammarStep(At(s, st), l, ~strict) = Dead
        BY <4>2, <2>2, GrammarNoValue, Zenon
      <4> QED BY <4>3, <2>4, <1>4, <1>6, <1>8
    <3> QED BY <3>2, <3>3
  <2> QED BY <2>3, <2>4
<1>20. CASE EndObject
  <2>1. /\ Ready /\ Token.tok = "}" /\ Take /\ ReturnTo(Front(calls), TRUE) /\ UNCHANGED errors
        /\ pc \in {"name", "comma", "comment"} /\ (pc = "name" => Inner.empty)
    BY <1>20, Zenon DEF EndObject, Reads, Finished, Inner
  <2>2. text # <<>>
    BY <2>1, TokenThere, Zenon
  <2>3. text' = <<>>
    BY <2>1, TakenWhole, Zenon
  <2>4. l.tok = "}" /\ ReturnTo(Front(calls), TRUE) /\ UNCHANGED errors
    BY <2>1, <2>2, <1>6, Zenon
  <2>5. pc \in {"name", "comma", "comment"}
    BY <2>1, Zenon
  <2>6. calls # <<>> /\ Inner.in = "object"
    BY <2>5 DEF ControlOK
  <2>7. st # <<>> /\ st[Len(st)] = "{" /\ Front(st) = Stack(Front(calls)) /\ Front(calls) \in Seq(Frame)
    BY <2>6, <1>10, MarkIs, Zenon
  <2>8. GrammarStep(g, l, ~strict) \in {Closed(Front(st)), Dead}
    <3>1. CASE s = "nameOrEnd"
      BY <3>1, <2>4, <1>4, GrammarName, Zenon
    <3>2. CASE s = "name"
      <4>1. l.tok \notin {"string"} \cup NewLines \cup CommentTokens /\ (l.tok = "}" => s # "nameOrEnd")
        BY <3>2, <2>4, Zenon DEF NewLines, CommentTokens
      <4>2. GrammarStep(At(s, st), l, ~strict) = Dead
        BY <3>2, <4>1, GrammarName, Zenon
      <4> QED BY <4>2, <1>4, Zenon
    <3>3. CASE s = "next"
      <4>1. GrammarStep(At("next", st), l, ~strict) = Closed(Front(st))
        BY <2>4, <2>7, GrammarNext, Zenon
      <4> QED BY <3>3, <4>1, <1>4, Zenon
    <3>4. s \in {"name", "nameOrEnd", "next"}
      BY <2>5, <1>3 DEF Fit
    <3> QED BY <3>1, <3>2, <3>3, <3>4, Zenon
  <2>9. grammar \in {Closed(Stack(Front(calls))), Dead}
    BY <2>2, <2>7, <2>8, <1>6, Zenon
  <2>10. ASSUME grammar = Closed(Stack(Front(calls))) PROVE Follows'
    BY <2>3, <2>4, <2>7, <2>10, <1>12, Zenon
  <2> QED BY <2>9, <2>10, <1>8, Zenon
<1>21. CASE EndArray
  <2>1. /\ Ready /\ Token.tok = "]" /\ Take /\ ReturnTo(Front(calls), TRUE) /\ UNCHANGED errors
        /\ pc \in {"first", "item"}
    BY <1>21 DEF EndArray, Reads, Finished
  <2>2. text # <<>> /\ text' = <<>> /\ l.tok = "]"
    BY <2>1, <1>6, TokenThere, TakenWhole
  <2>3. calls # <<>> /\ Inner.in = "array"
    BY <2>1 DEF ControlOK
  <2>4. st # <<>> /\ st[Len(st)] = "[" /\ Front(st) = Stack(Front(calls)) /\ Front(calls) \in Seq(Frame)
    BY <2>3, <1>10, MarkIs, Zenon
  <2>5. GrammarStep(g, l, ~strict) = Closed(Front(st))
    <3>1. s = "valueOrEnd" \/ s = "next"
      BY <2>1, <1>3 DEF Fit
    <3>2. CASE s = "valueOrEnd"
      BY <3>2, <2>2, <1>4, GrammarValue, Zenon
    <3>3. CASE s = "next"
      <4>1. GrammarStep(At("next", st), l, ~strict) = Closed(Front(st))
        BY <2>2, <2>4, GrammarNext, Zenon
      <4> QED BY <3>3, <4>1, <1>4, Zenon
    <3> QED BY <3>1, <3>2, <3>3
  <2>6. grammar = Closed(Stack(Front(calls)))
    BY <2>2, <2>4, <2>5, <1>6, Zenon
  <2> QED BY <2>1, <2>2, <2>4, <2>6, <1>12
<1>22. CASE ReadName
  <2> DEFINE d == DecodeString(Token.chars)
  <2>1. pc = "name" /\ Ready /\ Token.tok = "string" /\ Take
    BY <1>22 DEF ReadName, Reads
  <2>2. text # <<>> /\ text' = <<>> /\ l.tok = "string" /\ Token = l
    BY <2>1, <1>6, TokenThere, TakenWhole
  <2>3. WellSpelled(l) <=> d.ok
    BY <2>2, Zenon DEF WellSpelled
  <2>4. s \in {"name", "nameOrEnd"} /\ calls # <<>> /\ Inner.in = "object"
    BY <2>1, <1>3 DEF Fit, ControlOK
  <2>5. CASE ~d.ok
    <3>1. GrammarStep(At(s, st), l, ~strict) = Dead
      BY <2>2, <2>3, <2>4, <2>5, GrammarName, Zenon
    <3> QED BY <3>1, <2>2, <1>4, <1>6, <1>8
  <2>6. CASE d.ok
    <3> DEFINE frame == Object(NameOf(d.chars), d.chars = <<>>)
    <3>1. pc' = "colon" /\ calls' = Append(Front(calls), frame) /\ UNCHANGED <<errors, result>>
      BY <2>6, <1>22 DEF ReadName
    <3>2. frame \in Frame /\ frame.in = "object"
      BY NameOfInt DEF Object, Frame
    <3> HIDE DEF frame, d
    <3>3. Stack(calls') = st
      BY <3>1, <3>2, <2>4, <1>5, StackSame DEF Inner, st
    <3>4. GrammarStep(At(s, st), l, ~strict) = At("colon", st)
      BY <2>2, <2>3, <2>4, <2>6, GrammarName, Zenon
    <3>5. grammar = AtState("colon", calls')
      BY <3>3, <3>4, <2>2, <1>4, <1>6, <1>11, Zenon
    <3>6. Fit("colon")'
      BY <3>1 DEF Fit
    <3> QED BY <3>1, <3>5, <3>6, <2>2, <1>3, <1>13 DEF States
  <2> QED BY <2>5, <2>6
<1>23. CASE NoName
  <2>1. pc = "name" /\ Ready /\ ~IsComment /\ Token.tok # "string" /\ ~(Token.tok = "}" /\ Inner.empty)
    BY <1>23, Zenon DEF NoName, Inner
  <2>2. pc = "name" /\ Ready /\ ~IsComment /\ Token.tok # "string"
    BY <2>1, Zenon
  <2>3. s \in {"name", "nameOrEnd"} /\ (s = "nameOrEnd" => Inner.empty)
    BY <2>2, <1>3 DEF Fit
  <2>4. CASE text = <<>>
    <3>1. s # "done"
      BY <2>3
    <3> QED BY <3>1, <2>2, <2>4, <1>9
  <2>5. CASE text # <<>>
    <3>1. Token = l /\ l.tok \notin NewLines /\ l.tok \notin CommentTokens /\ l.tok # "string"
      BY <2>2, <2>5, <1>6 DEF Ready, l, IsComment
    <3>2. l.tok \notin {"string"} \cup NewLines \cup CommentTokens /\ (l.tok = "}" => s # "nameOrEnd")
      BY <3>1, <2>1, <2>3, Zenon
    <3>3. GrammarStep(At(s, st), l, ~strict) = Dead
      BY <3>2, <2>3, GrammarName, Zenon
    <3> QED BY <3>3, <2>5, <1>4, <1>6, <1>8
  <2> QED BY <2>4, <2>5
<1>24. CASE ReadColon
  <2>1. /\ pc = "colon" /\ Ready /\ Token.tok = ":" /\ Take /\ UNCHANGED <<errors, result>>
        /\ Descend(Inner, Inner.name)
    BY <1>24 DEF ReadColon, Reads, Inner
  <2>2. text # <<>> /\ text' = <<>> /\ l.tok = ":"
    BY <2>1, <1>6, TokenThere, TakenWhole
  <2>3. s = "colon" /\ calls # <<>>
    BY <2>1, <1>3 DEF Fit, ControlOK
  <2>4. GrammarStep(At("colon", st), l, ~strict) = At("value", st)
    BY <2>2, GrammarColon, Zenon
  <2>5. Stack(calls') = st /\ pc' = "value"
    <3>1. calls' = Append(Front(calls), Inner) /\ pc' = "value"
      BY <2>1 DEF Descend
    <3> QED BY <3>1, <2>3, <1>5, <1>10, StackSame DEF Inner, st
  <2>6. grammar = AtState("value", calls')
    BY <2>2, <2>3, <2>4, <2>5, <1>4, <1>6, <1>11, Zenon
  <2>7. Fit("value")'
    BY <2>5 DEF Fit
  <2> QED BY <2>1, <2>2, <2>6, <2>7, <1>3, <1>13 DEF States
<1>25. CASE NoColon
  <2>1. pc = "colon" /\ Ready /\ Token.tok # ":"
    BY <1>25 DEF NoColon
  <2>2. s = "colon"
    BY <2>1, <1>3 DEF Fit
  <2>3. CASE text = <<>>
    BY <2>1, <2>2, <2>3, <1>9
  <2>4. CASE text # <<>>
    <3>1. l.tok \notin NewLines /\ l.tok # ":"
      BY <2>1, <2>4, <1>6 DEF Ready, l
    <3>2. GrammarStep(At("colon", st), l, ~strict) = Dead
      BY <3>1, GrammarColon, Zenon
    <3> QED BY <3>2, <2>2, <2>4, <1>4, <1>6, <1>8
  <2> QED BY <2>3, <2>4
<1>26. ASSUME pc \in {"comma", "comment", "item"}
       PROVE  s = "next" /\ calls # <<>> /\ (pc = "item" => Inner.in = "array")
              /\ (pc \in {"comma", "comment"} => Inner.in = "object")
  BY <1>26, <1>3 DEF Fit, ControlOK
<1>27. ASSUME pc \in {"comma", "comment"}, Ready, ~IsComment, text # <<>>, Token.tok \notin {"}", ","}
       PROVE  grammar = Dead
  <2>1. s = "next" /\ calls # <<>> /\ Inner.in = "object" /\ text # <<>>
    BY <1>26, <1>27, Zenon
  <2>2. st # <<>> /\ st[Len(st)] = "{"
    BY <2>1, <1>10, MarkIs, Zenon
  <2>3. l.tok \notin {",", "}"} \cup NewLines \cup CommentTokens
    <3>1. Token = l
      BY <2>1, <1>6
    <3>2. l.tok \notin NewLines
      BY <1>27, <2>1, Zenon DEF Ready, l
    <3>3. l.tok \notin CommentTokens
      BY <1>27, <3>1, Zenon DEF IsComment
    <3> QED BY <1>27, <3>1, <3>2, <3>3, Zenon
  <2>4. GrammarStep(At("next", st), l, ~strict) = Dead
    BY <2>2, <2>3, GrammarNext, Zenon
  <2> QED BY <2>1, <2>4, <1>4, <1>6, Zenon
<1>28. CASE ReadComma
  <2>1. /\ pc \in {"comma", "comment"} /\ Ready /\ ~IsComment /\ Token.tok # "}" /\ Take
        /\ (pc = "comma" => Token.tok = ",") /\ pc' = "name" /\ UNCHANGED <<calls, errors, result>>
    BY <1>28, Zenon DEF ReadComma
  <2>2. pc \in {"comma", "comment"} /\ Ready /\ pc' = "name" /\ UNCHANGED <<calls, errors, result>> /\ Take
    BY <2>1, Zenon
  <2>3. s = "next" /\ calls # <<>> /\ Inner.in = "object"
    BY <2>2, <1>26
  <2>4. CASE text = <<>>
    BY <2>2, <2>3, <2>4, <1>9
  <2>5. CASE text # <<>> /\ Token.tok # ","
    <3>1. Token.tok \notin {"}", ","}
      BY <2>1, <2>5, Zenon
    <3>2. grammar = Dead
      BY <2>1, <2>5, <3>1, <1>27, Zenon
    <3> QED BY <3>2, <1>8
  <2>6. CASE text # <<>> /\ Token.tok = ","
    <3>1. st # <<>> /\ st[Len(st)] = "{" /\ l.tok = ","
      BY <2>3, <2>6, <1>6, <1>10, MarkIs, Zenon
    <3>2. GrammarStep(At("next", st), l, ~strict) = At("name", st)
      BY <3>1, GrammarNext, Zenon
    <3>3. text' = <<>>
      BY <2>2, TakenWhole
    <3>4. grammar = AtState("name", calls')
      <4>1. calls' = calls
        BY <2>2
      <4> QED BY <4>1, <2>3, <2>6, <3>2, <1>4, <1>6, <1>11, Zenon DEF st
    <3>5. Fit("name")'
      BY <2>2 DEF Fit
    <3>6. UNCHANGED <<errors, result>> /\ "name" \in States
      BY <2>2 DEF States
    <3> QED BY <3>3, <3>4, <3>5, <3>6, <1>3, <1>13
  <2> QED BY <2>4, <2>5, <2>6, Zenon
<1>29. CASE NoComma
  <2>1. pc = "comma" /\ Ready /\ ~IsComment /\ Token.tok \notin {"}", ","}
    BY <1>29, Zenon DEF NoComma
  <2>2. pc = "comma" /\ Ready
    BY <2>1, Zenon
  <2>3. CASE text = <<>>
    BY <2>2, <2>3, <1>9, <1>26
  <2>4. CASE text # <<>>
    <3>1. pc \in {"comma", "comment"}
      BY <2>2
    <3>2. grammar = Dead
      BY <2>1, <2>4, <3>1, <1>27, Zenon
    <3> QED BY <3>2, <1>8
  <2> QED BY <2>3, <2>4
<1>30. CASE NextElement
  <2>1. /\ pc \in {"first", "item"} /\ Ready /\ Token.tok # "]" /\ (pc = "item" => ~IsComment)
        /\ Descend(Array(Inner.index + 1), Inner.index) /\ UNCHANGED <<errors, result>>
        /\ (IF pc = "item" THEN Take ELSE UNCHANGED text)
    BY <1>30 DEF NextElement, Inner
  <2>2. calls # <<>> /\ Inner.in = "array" /\ Inner \in Frame
    BY <2>1, <1>10 DEF ControlOK
  <2>3. Stack(calls') = st /\ pc' = "value"
    <3> DEFINE f == Array(Inner.index + 1)
    <3>1. f \in Frame /\ f.in = "array"
      BY <2>2 DEF Array, Frame
    <3>2. calls' = Append(Front(calls), f) /\ pc' = "value"
      BY <2>1 DEF Descend
    <3> HIDE DEF f
    <3> QED BY <3>1, <3>2, <2>2, <1>5, StackSame DEF Inner, st
  <2>4. s = IF pc = "first" THEN "valueOrEnd" ELSE "next"
    BY <2>1, <1>3 DEF Fit
  <2>5. CASE text = <<>>
    <3>1. s # "done"
      BY <2>4
    <3> QED BY <3>1, <2>1, <2>5, <1>9
  <2>6. CASE pc = "first" /\ text # <<>>
    <3>1. text' = text /\ UNCHANGED <<errors, result>> /\ s = "valueOrEnd"
      BY <2>1, <2>4, <2>6
    <3>2. l.tok \notin NewLines \cup {"]"} /\ Token = l
      BY <2>1, <2>6, <1>6 DEF Ready, l
    <3>3. Fit(s)'
      BY <2>3, <2>6, <3>1, <3>2 DEF Fit, l
    <3>4. AtState(s, calls') = g
      BY <2>3, <1>4, <1>11, Zenon
    <3>5. Behind(s)'
      <4>1. grammar' = GrammarStep(AtState(s, calls'), Head(text'), ~strict')
        BY <2>6, <3>1, <3>4, <1>1, <1>6 DEF l
      <4> QED BY <4>1, <2>6, <3>1 DEF Behind
    <3> QED BY <3>1, <3>3, <3>5, <1>3 DEF Follows
  <2>7. CASE pc = "item" /\ text # <<>>
    <3>1. s = "next" /\ Take /\ Ready /\ ~IsComment /\ UNCHANGED <<errors, result>>
      BY <2>1, <2>4, <2>7
    <3>2. st # <<>> /\ st[Len(st)] = "["
      BY <2>2, <1>10, MarkIs, Zenon
    <3>3. Token = l /\ l.tok \notin NewLines \cup CommentTokens \cup {"]"}
      BY <2>1, <3>1, <2>7, <1>6 DEF Ready, l, IsComment
    <3>4. CASE l.tok = ","
      <4>1. GrammarStep(At("next", st), l, ~strict) = At("value", st)
        BY <3>2, <3>4, GrammarNext, Zenon
      <4>2. grammar = AtState("value", calls')
        BY <2>3, <2>7, <3>1, <4>1, <1>4, <1>6, <1>11, Zenon
      <4>3. text' = <<>> /\ Fit("value")' /\ "value" \in States
        BY <2>3, <3>1, TakenWhole DEF Fit, States
      <4> HIDE DEF States
      <4>4. UNCHANGED <<errors, result>>
        BY <3>1
      <4> QED BY <4>2, <4>3, <4>4, <1>3, <1>13, Zenon
    <3>5. CASE l.tok # ","
      <4>1. l.tok \notin {",", "]"} \cup NewLines \cup CommentTokens
        BY <3>3, <3>5, Zenon
      <4>2. GrammarStep(At("next", st), l, ~strict) = Dead
        BY <3>2, <4>1, GrammarNext, Zenon
      <4>3. grammar = Dead
        BY <4>2, <2>7, <3>1, <1>4, <1>6, Zenon
      <4> QED BY <4>3, <1>8
    <3> QED BY <3>4, <3>5, Zenon
  <2> QED BY <2>1, <2>5, <2>6, <2>7
<1>31. CASE Recover
  <2>1. pc = "recover"
    BY <1>31 DEF Recover
  <2> QED BY <2>1, <1>3 DEF Fit
<1>32. CASE Close
  <2> DEFINE bad == strict /\ value.tree[<<>>].type \notin Containers \cup {"null"}
  <2>1. /\ pc = "close" /\ Ready /\ (IsComment => strict) /\ Take /\ pc' = "done" /\ UNCHANGED calls
        /\ errors' = IF bad THEN Append(errors, "root") ELSE errors
        /\ result' = IF bad THEN "rejected" ELSE result
    BY <1>32 DEF Close
  <2> HIDE DEF bad
  <2>2. s = "done"
    BY <2>1, <1>3 DEF Fit
  <2>3. CASE text # <<>>
    <3>1. Token = l /\ l.tok \notin NewLines
      BY <2>1, <2>3, <1>6 DEF Ready, l
    <3>2. GrammarStep(g, l, ~strict) = Dead
      <4>1. CASE l.tok \in CommentTokens
        <5>1. strict = TRUE
          BY <2>1, <3>1, <4>1 DEF IsComment
        <5> QED BY <5>1, <4>1, GrammarSkips
      <4>2. CASE l.tok \notin CommentTokens
        <5>1. GrammarStep(At("done", st), l, ~strict) = Dead
          BY <3>1, <4>2, GrammarDone, Zenon
        <5> QED BY <5>1, <2>2, <1>4
      <4> QED BY <4>1, <4>2
    <3> QED BY <3>2, <2>3, <1>6, <1>8
  <2>4. CASE bad
    <3>1. errors' = <<"root">> /\ pc' = "done"
      BY <2>1, <2>4, <1>3
    <3> QED BY <3>1 DEF Justified
  <2>5. CASE text = <<>> /\ ~bad
    <3>1. text' = <<>>
      BY <2>1, TakenWhole
    <3>2. errors' = errors /\ result' = result /\ calls' = calls
      BY <2>1, <2>5
    <3>3. grammar = AtState("done", calls') /\ Fit("done")'
      BY <2>1, <2>2, <2>5, <3>2, <1>7 DEF Fit, g
    <3> QED BY <3>1, <3>2, <3>3, <1>3, <1>13 DEF States
  <2> QED BY <2>3, <2>4, <2>5
<1> QED
  BY <1>14, <1>15, <1>16, <1>17, <1>18, <1>19, <1>20, <1>21, <1>22, <1>23, <1>24, <1>25, <1>28, <1>29,
     <1>30, <1>31, <1>32, Zenon DEF ParseStep
-----------------------------------------------------------------------------
(* The session over the line. *)
LEMMA ParseTakes ==
  ASSUME ParseStep
  PROVE  UNCHANGED text \/ (Ready /\ Take) \/ SkipSpaces
<1>1. CASE SkipComment
  BY <1>1 DEF SkipComment, TakeComment, IsComment
<1>2. CASE ReadScalar \/ ReadArray \/ NoValue
  BY <1>2, Zenon DEF ReadScalar, ReadArray, ReadContainer, NoValue, ValueToken
<1>3. CASE ReadObject
  BY <1>3, Zenon DEF ReadObject, ReadContainer, ValueToken
<1>4. CASE EndObject \/ ReadName \/ NoName \/ ReadColon
  BY <1>4, Zenon DEF EndObject, ReadName, NoName, ReadColon, Reads
<1>5. CASE NoColon
  BY <1>5, Zenon DEF NoColon, TakeComment
<1>6. CASE ReadComma \/ NoComma
  BY <1>6, Zenon DEF ReadComma, NoComma
<1>7. CASE EndArray \/ NextElement
  BY <1>7 DEF EndArray, NextElement, Reads
<1>8. CASE Recover \/ Close
  BY <1>8, Zenon DEF Recover, Close
<1> QED
  BY <1>1, <1>2, <1>3, <1>4, <1>5, <1>6, <1>7, <1>8, Zenon DEF ParseStep

\* A mark is a lexeme.
LEMMA MarkLexeme == \A tok \in Tokens : tok # "number" => Mark(tok) \in Lexeme
BY DEF Mark, Lex, Lexeme

LineOK == TextOK /\ ControlOK /\ Pending /\ strict \in BOOLEAN /\ phase # "build" /\ (Justified \/ Follows)
LineInv == source = "line" => LineOK

\* The reader starts under control.
LEMMA StartControl == ParseInit => ControlOK
BY DEF ParseInit, ControlOK, Pcs

\* The first state fits the grammar.
LEMMA LineInit == Init => LineInv
<1> SUFFICES ASSUME Init, source = "line" PROVE LineOK
  BY DEF LineInv
<1>1. text = <<>> /\ strict \in BOOLEAN /\ phase = "read" /\ ParseInit /\ grammar = Start
  BY DEF Init
<1>2. TextOK /\ Pending
  BY <1>1 DEF TextOK, Pending
<1>3. ControlOK
  BY <1>1, StartControl
<1>4. Follows
  <2>1. errors = <<>> /\ result = "none" /\ pc = "value" /\ calls = <<>>
    BY <1>1 DEF ParseInit
  <2>2. Stack(calls) = <<>>
    BY <2>1 DEF Stack
  <2>3. Behind("value")
    BY <1>1, <2>2 DEF Behind, AtState, At, Start
  <2>4. Fit("value")
    BY <2>1 DEF Fit
  <2> QED BY <2>1, <2>3, <2>4 DEF Follows, States
<1> QED BY <1>1, <1>2, <1>3, <1>4 DEF LineOK

\* A lexeme comes.
LEMMA ArriveLine == LineOK /\ Arrive => LineOK'
<1> SUFFICES ASSUME LineOK, Arrive PROVE LineOK'
  OBVIOUS
<1>1. PICK l \in Lexemes : /\ grammar' = GrammarStep(grammar, l, ~strict)
                           /\ text' = IF l.tok = "//" THEN <<l, Mark("NL")>> ELSE <<l>>
  BY DEF Arrive
<1>2. UNCHANGED <<strict, ended, pc, calls, errors, result, phase>> /\ text = <<>> /\ ~ended /\ pc # "done"
  BY DEF Arrive
<1>3. text' # <<>> /\ Head(text') = l
  <2>1. CASE l.tok = "//"
    <3>1. text' = <<l, Mark("NL")>>
      BY <1>1, <2>1
    <3> QED BY <3>1
  <2>2. CASE l.tok # "//"
    <3>1. text' = <<l>>
      BY <1>1, <2>2
    <3> QED BY <3>1
  <2> QED BY <2>1, <2>2
<1>4. TextOK' /\ Pending'
  <2>1. l \in Lexeme /\ Mark("NL") \in Lexeme
    <3>1. "NL" \in Tokens /\ "NL" # "number"
      BY Zenon DEF Tokens, NewLines
    <3>2. l \in Lexeme
      BY LexemesAre
    <3> QED BY <3>1, <3>2, MarkLexeme, Zenon
  <2>2. <<l>> \in Seq(Lexeme) /\ <<l, Mark("NL")>> \in Seq(Lexeme)
    BY <2>1
  <2>3. text' \in Seq(Lexeme)
    BY <1>1, <2>2, Zenon
  <2> QED BY <1>1, <2>3 DEF TextOK, Pending
<1>5. ControlOK'
  BY <1>2 DEF LineOK, ControlOK, Inner
<1>6. CASE Justified
  <2>1. grammar = Dead
    BY <1>2, <1>6 DEF Justified
  <2>2. grammar' = Dead
    <3>1. CASE l.tok \in NewLines
      BY <2>1, <1>1, <3>1, GrammarSkips
    <3>2. CASE l.tok \in CommentTokens
      <4>1. GrammarStep(Dead, l, ~strict) \in {Dead, Dead}
        BY <3>2, GrammarSkips
      <4> QED BY <4>1, <2>1, <1>1
    <3>3. CASE l.tok \notin NewLines /\ l.tok \notin CommentTokens
      <4>1. GrammarStep(At("dead", <<>>), l, ~strict) = Dead
        BY <3>3, GrammarDone, Zenon
      <4> QED BY <4>1, <2>1, <1>1 DEF Dead, At
    <3> QED BY <3>1, <3>2, <3>3
  <2>3. Justified'
    BY <2>2 DEF Justified
  <2> QED BY <1>2, <1>4, <1>5, <2>3 DEF LineOK
<1>7. CASE Follows
  <2>1. PICK s \in States : Fit(s) /\ Behind(s)
    BY <1>7 DEF Follows
  <2>2. Fit(s)'
    BY <2>1, <1>2 DEF Fit, Inner
  <2>3. Behind(s)'
    BY <2>1, <1>1, <1>2, <1>3 DEF Behind
  <2>4. Follows'
    BY <2>2, <2>3, <1>2, <1>7 DEF Follows
  <2> QED BY <1>2, <1>4, <1>5, <2>4 DEF LineOK
<1> QED BY <1>6, <1>7 DEF LineOK

\* Every step keeps the reader with the grammar.
LEMMA LineNext == LineInv /\ [Next]_vars => LineInv'
<1> SUFFICES ASSUME LineInv, [Next]_vars, source' = "line" PROVE LineOK'
  BY DEF LineInv
<1>0. source = "line"
  BY DEF Next, Build, Built, SetMember, SetElement, AppendItem, AppendPartOfRoot, RemoveMember, SwapValues, ClearValue,
         ResizeValue, Comment, Report, Misuse, Write, Arrive, TextEnds, Parse, Overrun, Judge, Over, vars, sessionVars
<1>1. LineOK
  BY <1>0 DEF LineInv
<1>2. ASSUME UNCHANGED readerVars, UNCHANGED grammar, phase' # "build" PROVE LineOK'
  BY <1>1, <1>2 DEF LineOK, readerVars, TextOK, ControlOK, Inner, Pending, Justified, Follows, Fit, Behind
<1>3. CASE UNCHANGED vars \/ Overrun \/ Judge \/ Over
  BY <1>1, <1>2, <1>3 DEF LineOK, Overrun, Judge, Over, vars, sessionVars
<1>4. CASE Build \/ Write
  BY <1>1, <1>4 DEF LineOK, Build, Write
<1>5. CASE Arrive
  BY <1>1, <1>5, ArriveLine
<1>6. CASE TextEnds
  <2>1. UNCHANGED <<strict, text, pc, calls, errors, result, grammar, phase>> /\ ended' = TRUE
    BY <1>6 DEF TextEnds, sessionVars
  <2>2. CASE Justified
    BY <2>1, <2>2, <1>1, <1>6 DEF LineOK, TextOK, ControlOK, Inner, Pending, Justified, TextEnds
  <2>3. CASE Follows
    BY <2>1, <2>3, <1>1 DEF LineOK, TextOK, ControlOK, Inner, Pending, Follows, Fit, Behind
  <2> QED BY <2>2, <2>3, <1>1 DEF LineOK
<1>7. CASE Parse
  <2>1. ParseStep /\ UNCHANGED <<grammar, phase>>
    BY <1>7 DEF Parse, sessionVars
  <2>2. TextOK /\ ControlOK /\ Pending /\ strict \in BOOLEAN /\ phase # "build" /\ (Justified \/ Follows)
    BY <1>1 DEF LineOK
  <2>3. ControlOK' /\ TextOK'
    BY <2>1, <2>2, ReadStep DEF Advance
  <2>4. (Justified \/ Follows)'
    BY <2>1, <2>2, FollowStep
  <2>5. Pending'
    <3>1. UNCHANGED text \/ text' = <<>>
      BY <2>1, <2>2, ParseTakes, TakenWhole
    <3> QED BY <3>1, <2>2 DEF Pending
  <2>6. UNCHANGED strict
    BY <2>1 DEF ParseStep, SkipSpaces, SkipComment, ReadScalar, ReadObject, ReadArray, ReadContainer, NoValue, EndObject,
         ReadName, NoName, ReadColon, NoColon, ReadComma, NoComma, EndArray, NextElement, Recover, Close
  <2> QED BY <2>1, <2>2, <2>3, <2>4, <2>5, <2>6 DEF LineOK
<1> QED BY <1>3, <1>4, <1>5, <1>6, <1>7 DEF Next

\* Every error that is reported lies in the text: readObject, readArray,
\* decodeNumber and decodeString add none to a text that the grammar takes.
THEOREM Reported == Spec => []ErrorsJustified
<1>1. LineInv => ErrorsJustified
  BY DEF LineInv, LineOK, Justified, Follows, ErrorsJustified
<1> QED BY LineInit, LineNext, <1>1, PTL DEF Spec
-----------------------------------------------------------------------------
(* What a tree owns after a part of it is replaced. *)

\* s is what is below p in t.
IsBelow(s, t, p) ==
  /\ \A r \in DOMAIN s : p \o r \in DOMAIN t /\ t[p \o r] = s[r]
  /\ \A q \in DOMAIN t : IsPrefix(p, q) => Suffix(p, q) \in DOMAIN s

OwnBelow(t, p) == {x \in ToOwn(t) : IsPrefix(p, x[1])}
OwnBeside(t, p) == {x \in ToOwn(t) : ~IsPrefix(p, x[1])}

\* A tree owns as much wherever it lies.
LEMMA Shifted ==
  ASSUME NEW D, NEW s, Forest(s, D), NEW t, DOMAIN t \subseteq Place, NEW p \in Place, IsBelow(s, t, p)
  PROVE  IsFiniteSet(OwnBelow(t, p)) /\ Cardinality(OwnBelow(t, p)) = Owned(s)
<1> DEFINE f == [x \in ToOwn(s) |-> <<p \o x[1], x[2]>>]
           T == OwnBelow(t, p)
<1>0. DOMAIN s \subseteq Place /\ IsFiniteSet(ToOwn(s))
  BY OwnFinite DEF Forest
<1>1. ASSUME NEW x \in ToOwn(s)
      PROVE  /\ x = <<x[1], x[2]>> /\ x[1] \in Place /\ f[x] \in T
             /\ f[x] = <<p \o x[1], x[2]>> /\ Suffix(p, p \o x[1]) = x[1]
  <2>1. x = <<x[1], x[2]>> /\ x[1] \in DOMAIN s /\ x[2] \in Own(s[x[1]])
    BY OwnIs
  <2>2. p \o x[1] \in DOMAIN t /\ t[p \o x[1]] = s[x[1]] /\ x[1] \in Place
    BY <2>1, <1>0 DEF IsBelow
  <2>3. IsPrefix(p, p \o x[1]) /\ Suffix(p, p \o x[1]) = x[1]
    BY <2>2, PrefixConcat
  <2>4. <<p \o x[1], x[2]>> \in ToOwn(t)
    BY <2>1, <2>2, OwnIs
  <2>5. <<p \o x[1], x[2]>> \in T
    BY <2>3, <2>4 DEF OwnBelow
  <2> QED BY <2>1, <2>2, <2>3, <2>5
<1>2. f \in [ToOwn(s) -> T]
  BY <1>1
<1>3. ASSUME NEW x \in ToOwn(s), NEW y \in ToOwn(s), f[x] = f[y] PROVE x = y
  <2>1. x = <<x[1], x[2]>> /\ y = <<y[1], y[2]>> /\ <<p \o x[1], x[2]>> = <<p \o y[1], y[2]>>
        /\ Suffix(p, p \o x[1]) = x[1] /\ Suffix(p, p \o y[1]) = y[1]
    BY <1>1, <1>3
  <2>2. p \o x[1] = p \o y[1] /\ x[2] = y[2]
    BY <2>1
  <2>3. x[1] = y[1]
    BY <2>1, <2>2
  <2> QED BY <2>1, <2>2, <2>3
<1>4. ASSUME NEW y \in T PROVE \E x \in ToOwn(s) : f[x] = y
  <2>1. y \in ToOwn(t) /\ IsPrefix(p, y[1])
    BY DEF OwnBelow
  <2>2. y = <<y[1], y[2]>> /\ y[1] \in DOMAIN t /\ y[2] \in Own(t[y[1]])
    BY <2>1, OwnIs
  <2> DEFINE r == Suffix(p, y[1])
  <2>3. r \in DOMAIN s /\ p \o r = y[1]
    BY <2>1, <2>2, PrefixSuffix DEF IsBelow
  <2>4. s[r] = t[y[1]]
    BY <2>3 DEF IsBelow
  <2> HIDE DEF r
  <2>5. <<r, y[2]>> \in ToOwn(s)
    BY <2>2, <2>3, <2>4, OwnIs
  <2>6. f[<<r, y[2]>>] = y
    BY <2>2, <2>3, <2>5
  <2> QED BY <2>5, <2>6
<1> HIDE DEF f, T
<1>5. IsFiniteSet(T) /\ Cardinality(T) = Cardinality(ToOwn(s))
  BY <1>0, <1>2, <1>3, <1>4, CardSame
<1> QED BY <1>5 DEF T, Owned

\* The blocks of a tree, below a place and beside it.
LEMMA OwnParts ==
  ASSUME NEW D, NEW t, Tree(t, D), NEW p \in Place
  PROVE  /\ Owned(t) = Cardinality(OwnBelow(t, p)) + Cardinality(OwnBeside(t, p))
         /\ Cardinality(OwnBelow(t, p)) \in Nat /\ Cardinality(OwnBeside(t, p)) \in Nat
<1>1. IsFiniteSet(ToOwn(t))
  BY OwnFinite DEF Tree
<1>2. OwnBelow(t, p) \cup OwnBeside(t, p) = ToOwn(t) /\ OwnBelow(t, p) \cap OwnBeside(t, p) = {}
  BY DEF OwnBelow, OwnBeside
<1> QED BY <1>1, <1>2, CardParts DEF Owned

\* What is owned below a place of the tree is what the part there owns.
LEMMA BelowOwned ==
  ASSUME NEW D, NEW t, Tree(t, D), NEW p \in Place
  PROVE  /\ p \in DOMAIN t => Cardinality(OwnBelow(t, p)) = Owned(Sub(t, p))
         /\ p \notin DOMAIN t => Cardinality(OwnBelow(t, p)) = 0
<1>1. ASSUME p \in DOMAIN t PROVE Cardinality(OwnBelow(t, p)) = Owned(Sub(t, p))
  <2> DEFINE s == Sub(t, p)
  <2>1. /\ Tree(s, D) /\ \A r : r \in DOMAIN s <=> r \in Place /\ p \o r \in DOMAIN t
        /\ \A r \in DOMAIN s : s[r] = t[p \o r]
    BY <1>1, SubIs
  <2> HIDE DEF s
  <2>2. DOMAIN t \subseteq Place
    BY DEF Tree, Forest
  <2>3. \A q \in DOMAIN t : IsPrefix(p, q) => Suffix(p, q) \in DOMAIN s
    BY <2>1, <2>2, PrefixSuffix
  <2>4. IsBelow(s, t, p) /\ Forest(s, D)
    BY <2>1, <2>3 DEF IsBelow, Tree
  <2> QED BY <2>2, <2>4, Shifted DEF s
<1>2. ASSUME p \notin DOMAIN t PROVE Cardinality(OwnBelow(t, p)) = 0
  <2>1. OwnBelow(t, p) = {}
    BY <1>2, OwnIs, Inside DEF OwnBelow
  <2> QED BY <2>1, FS_EmptySet
<1> QED BY <1>1, <1>2

\* The blocks of a tree into which another is put.
LEMMA PutOwned ==
  ASSUME NEW D, NEW t, Tree(t, D), NEW v, Tree(v, D), NEW p \in Place, Open(t, p, D)
  PROVE  Owned(Put(t, p, v)) = Owned(t) - (IF p \in DOMAIN t THEN Owned(Sub(t, p)) ELSE 0) + Owned(v)
<1> DEFINE u == Put(t, p, v)
<1>0. Tree(u, D)
  BY PutIs
<1>1. DOMAIN t \subseteq Place /\ DOMAIN v \subseteq Place
  BY DEF Tree, Forest
<1>2. /\ u = [q \in DOMAIN u |-> u[q]]
      /\ \A q \in DOMAIN u : (q \in DOMAIN t /\ ~IsPrefix(p, q)) \/ (IsPrefix(p, q) /\ Suffix(p, q) \in DOMAIN v)
      /\ \A q \in DOMAIN t : ~IsPrefix(p, q) => q \in DOMAIN u /\ u[q] = t[q]
      /\ \A r \in DOMAIN v : p \o r \in DOMAIN u /\ u[p \o r] = v[r]
      /\ DOMAIN u \subseteq Place
  BY <1>1, PutAt
<1> HIDE DEF u
<1>3. IsBelow(v, u, p) /\ Forest(v, D)
  BY <1>2 DEF IsBelow, Tree
<1>4. Cardinality(OwnBelow(u, p)) = Owned(v)
  BY <1>2, <1>3, Shifted
<1>5. OwnBeside(u, p) = OwnBeside(t, p)
  <2>1. ASSUME NEW x \in OwnBeside(u, p) PROVE x \in OwnBeside(t, p)
    <3>1. x \in ToOwn(u) /\ ~IsPrefix(p, x[1])
      BY DEF OwnBeside
    <3>2. x = <<x[1], x[2]>> /\ x[1] \in DOMAIN u /\ x[2] \in Own(u[x[1]])
      BY <3>1, OwnIs
    <3>3. x[1] \in DOMAIN t /\ u[x[1]] = t[x[1]]
      BY <3>1, <3>2, <1>2
    <3>4. <<x[1], x[2]>> \in ToOwn(t)
      BY <3>2, <3>3, OwnIs
    <3> QED BY <3>1, <3>2, <3>4 DEF OwnBeside
  <2>2. ASSUME NEW x \in OwnBeside(t, p) PROVE x \in OwnBeside(u, p)
    <3>1. x \in ToOwn(t) /\ ~IsPrefix(p, x[1])
      BY DEF OwnBeside
    <3>2. x = <<x[1], x[2]>> /\ x[1] \in DOMAIN t /\ x[2] \in Own(t[x[1]])
      BY <3>1, OwnIs
    <3>3. x[1] \in DOMAIN u /\ u[x[1]] = t[x[1]]
      BY <3>1, <3>2, <1>2
    <3>4. <<x[1], x[2]>> \in ToOwn(u)
      BY <3>2, <3>3, OwnIs
    <3> QED BY <3>1, <3>2, <3>4 DEF OwnBeside
  <2> QED BY <2>1, <2>2
<1>6. Owned(u) = Owned(v) + Cardinality(OwnBeside(t, p)) /\ Cardinality(OwnBeside(t, p)) \in Nat
  BY <1>0, <1>4, <1>5, OwnParts
<1>7. Owned(t) = Cardinality(OwnBelow(t, p)) + Cardinality(OwnBeside(t, p)) /\ Cardinality(OwnBelow(t, p)) \in Nat
  BY OwnParts
<1>8. Owned(v) \in Nat
  BY OwnFinite DEF Tree
<1>9. Owned(u) = Owned(t) - (IF p \in DOMAIN t THEN Owned(Sub(t, p)) ELSE 0) + Owned(v)
  BY <1>6, <1>7, <1>8, BelowOwned
<1> QED BY <1>9 DEF u
-----------------------------------------------------------------------------
(* A tree together with the blocks in use, and the operations on it.           *)
Holder(s, D) == s = [tree |-> s.tree, blocks |-> s.blocks] /\ Tree(s.tree, D) /\ s.blocks \in Int
Balance(s)   == s.blocks - Owned(s.tree)

\* A tree of one node.
LEMMA LeafIs ==
  ASSUME NEW D, NEW n, Sound(n, D)
  PROVE  /\ Tree(Leaf(n), D) /\ DOMAIN Leaf(n) = {<<>>} /\ Leaf(n)[<<>>] = n
         /\ Owned(Leaf(n)) = Cardinality(Own(n)) /\ IsFiniteSet(Own(n))
<1> DEFINE t == Leaf(n)
<1>1. DOMAIN t = {<<>>} /\ t[<<>>] = n /\ t = [p \in DOMAIN t |-> t[p]]
  BY DEF Leaf
<1> HIDE DEF t
<1>2. <<>> \in Place /\ IsFiniteSet({<<>>})
  BY FS_Singleton DEF Place
<1>3. Tree(t, D)
  BY <1>1, <1>2 DEF Tree, Forest
<1>4. IsFiniteSet(Own(n))
  BY BlocksIn, KindsFinite, FS_Subset DEF Own
<1> DEFINE f == [b \in Own(n) |-> <<<<>>, b>>]
           T == ToOwn(t)
<1>5. \A b \in Own(n) : f[b] \in T
  BY <1>1, OwnIs
<1>6. \A y \in T : \E b \in Own(n) : f[b] = y
  <2> TAKE y \in T
  <2>1. y = <<y[1], y[2]>> /\ y[1] = <<>> /\ y[2] \in Own(n)
    BY <1>1, OwnIs
  <2>2. f[y[2]] = y
    BY <2>1
  <2> QED BY <2>1, <2>2
<1>7. \A b, c \in Own(n) : f[b] = f[c] => b = c
  OBVIOUS
<1>8. f \in [Own(n) -> T]
  BY <1>5
<1> HIDE DEF f, T
<1>9. Cardinality(T) = Cardinality(Own(n))
  BY <1>4, <1>6, <1>7, <1>8, CardSame
<1> QED BY <1>1, <1>3, <1>4, <1>9 DEF t, T, Owned

\* The name of a member, or an index, that can be added.
LEMMA KeysAre ==
  ASSUME NEW D, NEW t, Tree(t, D), NEW p \in Place
  PROVE  /\ Keys(t, p) \subseteq Int
         /\ \A k \in Int : k \in Keys(t, p) <=> Append(p, k) \in DOMAIN t
<1>1. DOMAIN t \subseteq Place
  BY DEF Tree, Forest
<1>2. ASSUME NEW k \in Keys(t, p) PROVE k \in Int /\ Append(p, k) \in DOMAIN t
  <2>1. PICK q \in DOMAIN t : IsPrefix(p, q) /\ Len(q) = Len(p) + 1 /\ k = q[Len(q)]
    BY DEF Keys, Below
  <2>2. q \in Place /\ Len(p) \in Nat
    BY <1>1, PlaceLen
  <2>3. q # p
    BY <2>1, <2>2
  <2>4. q # <<>> /\ IsPrefix(p, Front(q))
    BY <2>1, <2>2, <2>3, FrontBelow
  <2>5. Front(q) \in Place /\ Len(Front(q)) = Len(p) /\ q[Len(q)] \in Int /\ Append(Front(q), q[Len(q)]) = q
    BY <2>1, <2>2, <2>4, FrontPlace
  <2>6. Front(q) = p
    BY <2>4, <2>5, PrefixOrder
  <2> QED BY <2>1, <2>5, <2>6
<1>3. ASSUME NEW k \in Int, Append(p, k) \in DOMAIN t PROVE k \in Keys(t, p)
  <2>1. /\ Len(Append(p, k)) = Len(p) + 1 /\ Append(p, k)[Len(Append(p, k))] = k /\ IsPrefix(p, Append(p, k))
    BY AppendPlace
  <2>2. Append(p, k) \in {r \in Below(t, p) : Len(r) = Len(p) + 1}
    BY <1>3, <2>1 DEF Below
  <2>3. Append(p, k)[Len(Append(p, k))] \in Keys(t, p)
    BY <2>2 DEF Keys
  <2> QED BY <2>1, <2>3
<1> QED BY <1>2, <1>3

\* Only a container has entries.
LEMMA EntriesFit ==
  ASSUME NEW D, NEW t, Tree(t, D), NEW p \in Place, NEW k \in Keys(t, p)
  PROVE  p \in DOMAIN t /\ Fits(t[p].type, k, D)
<1>1. k \in Int /\ Append(p, k) \in DOMAIN t
  BY KeysAre
<1>2. Front(Append(p, k)) = p /\ Append(p, k)[Len(Append(p, k))] = k /\ Append(p, k) # <<>>
  BY <1>1, AppendPlace
<1> QED BY <1>1, <1>2 DEF Tree

\* Assigning keeps what is beside the place.
Beside(t, u, p) ==
  /\ \A q \in DOMAIN t : ~IsPrefix(p, q) => q \in DOMAIN u /\ u[q] = t[q]
  /\ \A q \in DOMAIN u : q \in DOMAIN t \/ IsPrefix(p, q)

\* A Value loses its key when it is assigned.
Unkeyed(v) == [v EXCEPT ![<<>>].key = IndexKey]

\* Taking the key away leaves a tree.
LEMMA UnkeyedIs ==
  ASSUME NEW D, NEW v, Tree(v, D)
  PROVE  Tree(Unkeyed(v), D) /\ DOMAIN Unkeyed(v) = DOMAIN v /\ Unkeyed(v)[<<>>].type = v[<<>>].type
<1> DEFINE n == NodeOf(v[<<>>], v[<<>>].comment, IndexKey, v[<<>>].str)
<1>1. <<>> \in DOMAIN v /\ Sound(v[<<>>], D)
  BY DEF Tree, Forest
<1>2. v[<<>>] = NodeOf(v[<<>>], v[<<>>].comment, v[<<>>].key, v[<<>>].str)
      /\ v[<<>>].comment \in [Placements -> Seq(Lexeme)] /\ StrSound(v[<<>>].str)
  BY <1>1, SoundIs
<1>3. Sound(n, D) /\ n.type = v[<<>>].type
  BY <1>1, <1>2, IndexKeySound, SoundOf
<1>4. [v[<<>>] EXCEPT !.key = IndexKey] = n
  BY <1>2, NodeExcept
<1> HIDE DEF n
<1>5. Unkeyed(v) = [v EXCEPT ![<<>>] = [v[<<>>] EXCEPT !.key = IndexKey]]
  BY DEF Unkeyed
<1>6. Unkeyed(v) = [v EXCEPT ![<<>>] = n]
  BY <1>4, <1>5
<1>7. Tree(Unkeyed(v), D) /\ DOMAIN Unkeyed(v) = DOMAIN v
      /\ \A p \in DOMAIN v : Unkeyed(v)[p] = IF p = <<>> THEN n ELSE v[p]
  BY <1>3, <1>6, Rerooted
<1> QED BY <1>1, <1>3, <1>7

\* operator= keeps the balance: what it allocates and releases is what the tree gains and loses.
LEMMA AssignIs ==
  ASSUME NEW D, NEW s, Holder(s, D), NEW p \in DOMAIN s.tree, NEW v, Tree(v, D)
  PROVE  /\ Holder(Assign(s, p, v), D) /\ Balance(Assign(s, p, v)) = Balance(s)
         /\ p \in DOMAIN Assign(s, p, v).tree /\ Assign(s, p, v).tree[p].type = v[<<>>].type
         /\ Beside(s.tree, Assign(s, p, v).tree, p)
         /\ \A r \in Place : p \o r \in DOMAIN Assign(s, p, v).tree <=> r \in DOMAIN v
<1> DEFINE w    == Unkeyed(v)
           t    == s.tree
           this == Sub(t, p)
           temp == Copy(w)
           new  == Swapped(this, temp)
           old  == Swapped(temp, this)
           u    == Put(t, p, new)
           a    == Assign(s, p, v)
<1>1. Tree(t, D) /\ s.blocks \in Int /\ p \in Place
  BY DEF Holder, Tree, Forest
<1>2. a = [tree |-> u, blocks |-> s.blocks + CopyAllocates(w) - Released(old)]
  BY DEF Assign, Unkeyed
<1>3. Tree(w, D) /\ DOMAIN w = DOMAIN v /\ w[<<>>].type = v[<<>>].type
  BY UnkeyedIs
<1> HIDE DEF w, t
<1>4. Tree(this, D)
  BY <1>1, SubIs DEF t
<1>5. Tree(temp, D) /\ DOMAIN temp = DOMAIN w /\ temp[<<>>].type = w[<<>>].type /\ CopyAllocates(w) = Owned(temp)
  <2>1. <<>> \in DOMAIN w
    BY <1>3 DEF Tree
  <2> QED BY <1>3, <2>1, CopyIs
<1> HIDE DEF this, temp
<1>6. /\ Tree(new, D) /\ DOMAIN new = DOMAIN temp /\ Tree(old, D)
      /\ new[<<>>].type = temp[<<>>].type /\ <<>> \in DOMAIN new
  <2>1. <<>> \in DOMAIN temp
    BY <1>5 DEF Tree
  <2> QED BY <1>4, <1>5, <2>1, SwappedIs
<1>7. Owned(new) + Owned(old) = Owned(this) + Owned(temp)
  BY <1>4, <1>5, SwapOwned
<1> HIDE DEF new, old
<1>8. /\ Owned(new) \in Nat /\ Owned(old) \in Nat /\ Owned(this) \in Nat /\ Owned(temp) \in Nat /\ Owned(t) \in Nat
      /\ Released(old) = Owned(old)
  BY <1>1, <1>4, <1>5, <1>6, OwnFinite DEF Tree
<1>9. Open(t, p, D) /\ p \in DOMAIN t
  BY DEF Open, t
<1>10. Tree(u, D)
  BY <1>1, <1>6, <1>9, PutIs
<1>11. Owned(u) = Owned(t) - Owned(this) + Owned(new)
  <2>1. Owned(Put(t, p, new)) = Owned(t) - (IF p \in DOMAIN t THEN Owned(Sub(t, p)) ELSE 0) + Owned(new)
    BY <1>1, <1>6, <1>9, PutOwned
  <2> QED BY <2>1, <1>9 DEF this
<1>12. DOMAIN t \subseteq Place /\ DOMAIN new \subseteq Place
  BY <1>1, <1>6 DEF Tree, Forest
<1>13. /\ u = [q \in DOMAIN u |-> u[q]]
       /\ \A q \in DOMAIN u : (q \in DOMAIN t /\ ~IsPrefix(p, q)) \/ (IsPrefix(p, q) /\ Suffix(p, q) \in DOMAIN new)
       /\ \A q \in DOMAIN t : ~IsPrefix(p, q) => q \in DOMAIN u /\ u[q] = t[q]
       /\ \A r \in DOMAIN new : p \o r \in DOMAIN u /\ u[p \o r] = new[r]
       /\ DOMAIN u \subseteq Place
  BY <1>1, <1>12, PutAt
<1> HIDE DEF u
<1>14. Holder(a, D) /\ a.tree = u /\ a.blocks = s.blocks + Owned(temp) - Owned(old)
  <2>1. a.tree = u /\ a.blocks = s.blocks + Owned(temp) - Owned(old) /\ a = [tree |-> a.tree, blocks |-> a.blocks]
    BY <1>2, <1>5, <1>8
  <2> HIDE DEF a
  <2>2. a.blocks \in Int
    BY <2>1, <1>1, <1>8
  <2> QED BY <2>1, <2>2, <1>10 DEF Holder
<1>15. Balance(a) = Balance(s)
  <2> HIDE DEF a
  <2>1. Balance(a) = (s.blocks + Owned(temp) - Owned(old)) - (Owned(t) - Owned(this) + Owned(new))
    BY <1>14, <1>11 DEF Balance
  <2>2. Balance(s) = s.blocks - Owned(t)
    BY DEF Balance, t
  <2> QED BY <2>1, <2>2, <1>1, <1>7, <1>8
<1>16. p \o <<>> = p
  BY <1>1, PrefixOrder
<1>17. p \in DOMAIN u /\ u[p].type = v[<<>>].type
  BY <1>3, <1>5, <1>6, <1>13, <1>16
<1>18. Beside(t, u, p)
  BY <1>13 DEF Beside
<1>19. ASSUME NEW r \in Place PROVE p \o r \in DOMAIN u <=> r \in DOMAIN v
  <2>1. IsPrefix(p, p \o r) /\ Suffix(p, p \o r) = r
    BY <1>1, PrefixConcat
  <2>2. DOMAIN new = DOMAIN v
    BY <1>3, <1>5, <1>6
  <2> QED BY <2>1, <2>2, <1>13
<1> HIDE DEF a
<1> QED BY <1>14, <1>15, <1>17, <1>18, <1>19 DEF a, t
-----------------------------------------------------------------------------
(* The values that are assigned, and the entries that are made.                *)
TypeNames == {"null", "int", "uint", "real", "string", "boolean", "array", "object"}

\* The types by name.
LEMMA TypesAre == ToSet(Types) = TypeNames
<1>1. DOMAIN Types = 1 .. 8
  BY DEF Types
<1>2. \A x \in TypeNames : \E i \in 1 .. 8 : Types[i] = x
  <2>1. Types[1] = "null" /\ Types[2] = "int" /\ Types[3] = "uint" /\ Types[4] = "real" /\ Types[5] = "string"
        /\ Types[6] = "boolean" /\ Types[7] = "array" /\ Types[8] = "object"
    BY DEF Types
  <2>2. 1 \in 1 .. 8 /\ 2 \in 1 .. 8 /\ 3 \in 1 .. 8 /\ 4 \in 1 .. 8 /\ 5 \in 1 .. 8 /\ 6 \in 1 .. 8 /\ 7 \in 1 .. 8
        /\ 8 \in 1 .. 8
    OBVIOUS
  <2> QED BY <2>1, <2>2 DEF TypeNames
<1>3. \A i \in 1 .. 8 : Types[i] \in TypeNames
  BY DEF Types, TypeNames
<1> QED BY <1>1, <1>2, <1>3 DEF ToSet

Disc(D) == DOMAIN D.vals \cap {"null", "array", "object"} = {} /\ D.names \subseteq Int

NoCommentIs == NoComment \in [Placements -> Seq(Lexeme)] /\ \A c \in Placements : NoComment[c] = <<>>

\* A fresh node has no comment.
LEMMA NoCommentOK == NoCommentIs
<1>1. <<>> \in Seq(Lexeme)
  OBVIOUS
<1> QED BY <1>1 DEF NoComment, NoCommentIs

\* A fresh node: no comment, and the key of an index.
LEMMA FreshSound ==
  ASSUME NEW D, NEW type \in TypeNames, NEW val, NEW str, StrSound(str),
         type \in {"int", "uint", "real", "boolean"} => val \in Seq(Int) /\ Len(val) = 1,
         type \in Containers \cup {"null"} => val = <<>>,
         type = "string" => str.at # "nothing",
         type \in DOMAIN D.vals => val \in D.vals[type]
  PROVE  /\ Sound(Node(type, val, str), D) /\ Node(type, val, str).type = type
         /\ Own(Node(type, val, str)) = (IF str.at = "own" THEN {"string"} ELSE {})
                                          \cup (IF type \in Containers THEN {"map"} ELSE {})
<1> DEFINE n == Node(type, val, str)
<1>1. n.type = type /\ n.val = val /\ n.str = str /\ n.comment = NoComment /\ n.key = IndexKey
      /\ n = [type |-> n.type, val |-> n.val, str |-> n.str, comment |-> n.comment, key |-> n.key]
  BY DEF Node
<1> HIDE DEF n
<1>2. NoComment \in [Placements -> Seq(Lexeme)] /\ DOMAIN NoComment = Placements /\ \A c \in Placements : NoComment[c] = <<>>
  BY NoCommentOK DEF NoCommentIs
<1>3. KeySound(n.key) /\ n.key.at = "nothing"
  BY <1>1, IndexKeySound
<1>4. NodeOK(n)
  BY <1>1, <1>2, <1>3, TypesAre DEF NodeOK, StrSound, KeySound, Keying
<1>5. Sound(n, D)
  BY <1>1, <1>2, <1>3, <1>4 DEF Sound, StrSound, KeySound
<1>6. Comments(n) = {}
  BY <1>1, <1>2 DEF Comments
<1>7. Own(n) = (IF str.at = "own" THEN {"string"} ELSE {}) \cup (IF type \in Containers THEN {"map"} ELSE {})
  BY <1>1, <1>3, <1>6 DEF Own, Blocks, Placements
<1> QED BY <1>1, <1>5, <1>7 DEF n

\* No string is nobody's string.
LEMMA NoStringSound == StrSound(NoString) /\ NoString.at = "nothing"
BY DEF StrSound, NoString, Targets

\* An empty container, or null.
LEMMA EmptyIs ==
  ASSUME NEW D, Disc(D), NEW type \in {"null", "array", "object"}
  PROVE  /\ Tree(Empty(type), D) /\ DOMAIN Empty(type) = {<<>>} /\ Empty(type)[<<>>] = Node(type, <<>>, NoString)
         /\ Empty(type)[<<>>].type = type
         /\ Sound(Node(type, <<>>, NoString), D)
<1>0. /\ type \in TypeNames /\ type \notin {"int", "uint", "real", "boolean", "string"} /\ type \notin DOMAIN D.vals
      /\ StrSound(NoString)
  BY NoStringSound DEF Disc, TypeNames
<1>1. /\ Sound(Node(type, <<>>, NoString), D) /\ Node(type, <<>>, NoString).type = type
  BY <1>0, FreshSound
<1> QED BY <1>1, LeafIs DEF Empty

\* The null Value.
LEMMA NullIs ==
  ASSUME NEW D, Disc(D)
  PROVE  /\ Null = Empty("null") /\ Tree(Null, D) /\ DOMAIN Null = {<<>>} /\ Null[<<>>] = Node("null", <<>>, NoString)
         /\ Null[<<>>].type = "null" /\ Sound(Node("null", <<>>, NoString), D)
         /\ Own(Node("null", <<>>, NoString)) = {}
<1>1. Null = Empty("null")
  BY DEF Null, Empty
<1>2. Own(Node("null", <<>>, NoString)) = {}
  <2>1. "null" \in TypeNames /\ "null" \notin DOMAIN D.vals /\ "null" \notin Containers \cup {"string"} /\ StrSound(NoString)
        /\ NoString.at = "nothing"
    BY NoStringSound DEF Disc, TypeNames, Containers
  <2>2. Own(Node("null", <<>>, NoString)) = (IF NoString.at = "own" THEN {"string"} ELSE {})
                                              \cup (IF "null" \in Containers THEN {"map"} ELSE {})
    BY <2>1, FreshSound
  <2> QED BY <2>1, <2>2
<1> QED BY <1>1, <1>2, EmptyIs

\* null becomes a container when it is accessed as one.
LEMMA ContainerIs ==
  ASSUME NEW D, Disc(D), NEW s, Holder(s, D), NEW p \in DOMAIN s.tree, NEW type \in Containers,
         s.tree[p].type \in {"null", type}
  PROVE  /\ Holder(BecomeContainer(s, p, type), D) /\ Balance(BecomeContainer(s, p, type)) = Balance(s)
         /\ p \in DOMAIN BecomeContainer(s, p, type).tree /\ BecomeContainer(s, p, type).tree[p].type = type
         /\ Beside(s.tree, BecomeContainer(s, p, type).tree, p)
         /\ s.tree[p].type = type => BecomeContainer(s, p, type) = s
<1>1. CASE s.tree[p].type = "null"
  <2>1. Tree(Empty(type), D) /\ Empty(type)[<<>>].type = type
    BY EmptyIs DEF Containers
  <2>2. BecomeContainer(s, p, type) = Assign(s, p, Empty(type)) /\ type # "null"
    BY <1>1 DEF BecomeContainer, Containers
  <2>3. /\ Holder(Assign(s, p, Empty(type)), D) /\ Balance(Assign(s, p, Empty(type))) = Balance(s)
        /\ p \in DOMAIN Assign(s, p, Empty(type)).tree /\ Assign(s, p, Empty(type)).tree[p].type = type
        /\ Beside(s.tree, Assign(s, p, Empty(type)).tree, p)
    BY <2>1, AssignIs
  <2> QED BY <1>1, <2>2, <2>3
<1>2. CASE s.tree[p].type # "null"
  <2>1. BecomeContainer(s, p, type) = s
    BY <1>2 DEF BecomeContainer
  <2>2. Beside(s.tree, s.tree, p)
    BY DEF Beside
  <2> QED BY <1>2, <2>1, <2>2
<1> QED BY <1>1, <1>2

\* The keys an entry can be made with.
Givens == {IndexKey, Name("static", "noDuplication"), Name("lent", "duplicateOnCopy")}
Count(key) == IF CopiesText(key) THEN 1 ELSE 0

\* The copies that CZString makes of a key, and those it releases.
LEMMA GivenIs ==
  ASSUME NEW g \in Givens
  PROVE  /\ KeySound(CopyKey(CopyKey(g)))
         /\ Count(g) + Count(CopyKey(g)) - (IF KeyReleased(CopyKey(g)) THEN 1 ELSE 0) - (IF KeyReleased(g) THEN 1 ELSE 0)
              = (IF CopyKey(CopyKey(g)).at = "own" THEN 1 ELSE 0)
<1>1. CASE g = IndexKey
  BY <1>1 DEF IndexKey, CopyKey, CopiesText, KeyReleased, Count, KeySound, Keying, Targets, Lent
<1>2. CASE g = Name("static", "noDuplication")
  BY <1>2 DEF Name, CopyKey, CopiesText, KeyReleased, Count, KeySound, Keying, Targets, Lent
<1>3. CASE g = Name("lent", "duplicateOnCopy")
  BY <1>3 DEF Name, CopyKey, CopiesText, KeyReleased, Count, KeySound, Keying, Targets, Lent
<1> QED BY <1>1, <1>2, <1>3 DEF Givens

Entry(key) == [Null EXCEPT ![<<>>].key = key]

\* A new entry is null, and owns its key.
LEMMA EntryIs ==
  ASSUME NEW D, Disc(D), NEW key, KeySound(key)
  PROVE  /\ Tree(Entry(key), D) /\ DOMAIN Entry(key) = {<<>>} /\ Entry(key)[<<>>].type = "null"
         /\ Owned(Entry(key)) = (IF key.at = "own" THEN 1 ELSE 0)
<1> DEFINE null == Node("null", <<>>, NoString)
           n    == NodeOf(null, null.comment, key, null.str)
<1>1. Tree(Null, D) /\ DOMAIN Null = {<<>>} /\ Null[<<>>] = null /\ Sound(null, D) /\ null.type = "null" /\ Own(null) = {}
  BY NullIs
<1> HIDE DEF null
<1>2. null = NodeOf(null, null.comment, null.key, null.str)
      /\ null.comment \in [Placements -> Seq(Lexeme)] /\ StrSound(null.str)
  BY <1>1, SoundIs
<1>3. Sound(n, D) /\ n.type = "null" /\ n.comment = null.comment /\ n.key = key /\ n.str = null.str
  BY <1>1, <1>2, SoundOf
<1>4. [null EXCEPT !.key = key] = n
  BY <1>2, NodeExcept
<1> HIDE DEF n
<1>5. Entry(key) = [Null EXCEPT ![<<>>] = [Null[<<>>] EXCEPT !.key = key]]
  BY DEF Entry
<1>6. Entry(key) = [Null EXCEPT ![<<>>] = n]
  BY <1>1, <1>4, <1>5
<1>7. Entry(key) = Leaf(n)
  BY <1>1, <1>6 DEF Leaf, Null
<1>8. /\ Tree(Leaf(n), D) /\ DOMAIN Leaf(n) = {<<>>} /\ Leaf(n)[<<>>] = n /\ Owned(Leaf(n)) = Cardinality(Own(n))
  BY <1>3, LeafIs
<1>9. Own(n) = (IF key.at = "own" THEN {"key"} ELSE {})
  <2>1. Comments(n) = Comments(null)
    BY <1>3 DEF Comments
  <2> QED BY <1>1, <1>3, <2>1 DEF Own, Blocks, Containers, Placements
<1>10. Cardinality(Own(n)) = (IF key.at = "own" THEN 1 ELSE 0)
  <2>1. Cardinality({"key"}) = 1
    BY FS_Singleton
  <2>2. Cardinality({}) = 0
    BY FS_EmptySet
  <2> QED BY <1>9, <2>1, <2>2
<1> QED BY <1>3, <1>7, <1>8, <1>10

\* A null is put where nothing was.
Inserted(s, x, p, k, D) ==
  /\ Holder(x, D) /\ Balance(x) = Balance(s)
  /\ Append(p, k) \in DOMAIN x.tree
  /\ p \in DOMAIN x.tree /\ x.tree[p].type = s.tree[p].type
  /\ \A q \in DOMAIN s.tree : q \in DOMAIN x.tree /\ x.tree[q] = s.tree[q]
  /\ \A q \in DOMAIN x.tree : q \in DOMAIN s.tree \/ q = Append(p, k)

\* std::map::insert of a new entry.
LEMMA InsertIs ==
  ASSUME NEW D, Disc(D), NEW s, Holder(s, D), NEW p \in DOMAIN s.tree, NEW k,
         Fits(s.tree[p].type, k, D), NEW given \in Givens
  PROVE  Inserted(s, Insert(s, p, k, given), p, k, D)
<1> DEFINE t == s.tree
           pk == Append(p, k)
           x == Insert(s, p, k, given)
           key == CopyKey(CopyKey(given))
           e == Entry(key)
           u == Put(t, pk, e)
<1>1. Tree(t, D) /\ s.blocks \in Int /\ DOMAIN t \subseteq Place /\ p \in Place
  BY DEF Holder, Tree, Forest
<1>2. k \in Int
  BY DEF Fits, Disc
<1>3. /\ pk \in Place /\ pk # <<>> /\ pk # p /\ Front(pk) = p /\ pk[Len(pk)] = k /\ IsPrefix(p, pk)
      /\ Len(pk) = Len(p) + 1 /\ Len(p) \in Nat
  BY <1>1, <1>2, AppendPlace, PlaceLen
<1>4. k \in Keys(t, p) <=> pk \in DOMAIN t
  BY <1>1, <1>2, KeysAre
<1>5. CASE pk \in DOMAIN t
  <2>1. x = s
    BY <1>4, <1>5 DEF Insert
  <2> HIDE DEF x
  <2> QED BY <1>5, <2>1 DEF x, Inserted
<1>6. CASE pk \notin DOMAIN t
  <2>1. /\ Tree(e, D) /\ DOMAIN e = {<<>>} /\ e[<<>>].type = "null"
        /\ Owned(e) = (IF key.at = "own" THEN 1 ELSE 0)
    <3> HIDE DEF key
    <3>1. KeySound(key)
      BY GivenIs DEF key
    <3> QED BY <3>1, EntryIs
  <2>2. x = [tree |-> u,
             blocks |-> s.blocks + Count(given) + Count(CopyKey(given))
                         - (IF KeyReleased(CopyKey(given)) THEN 1 ELSE 0) - (IF KeyReleased(given) THEN 1 ELSE 0)]
    BY <1>4, <1>6 DEF Insert, Entry, Count
  <2>3. Open(t, pk, D)
    BY <1>1, <1>3 DEF Open
  <2>4. ASSUME NEW q \in DOMAIN t PROVE ~IsPrefix(pk, q)
    BY <1>1, <1>3, <1>6, <2>4, Inside
  <2> HIDE DEF e, pk
  <2>5. Tree(u, D)
    BY <1>1, <1>3, <2>1, <2>3, PutIs
  <2>6. Owned(u) = Owned(t) + Owned(e)
    <3>1. Owned(Put(t, pk, e)) = Owned(t) - (IF pk \in DOMAIN t THEN Owned(Sub(t, pk)) ELSE 0) + Owned(e)
      BY <1>1, <1>3, <2>1, <2>3, PutOwned
    <3>2. Owned(t) \in Nat /\ Owned(e) \in Nat
      BY <1>1, <2>1, OwnFinite DEF Tree
    <3> QED BY <3>1, <3>2, <1>6
  <2>7. /\ u = [q \in DOMAIN u |-> u[q]]
        /\ \A q \in DOMAIN u : (q \in DOMAIN t /\ ~IsPrefix(pk, q)) \/ (IsPrefix(pk, q) /\ Suffix(pk, q) \in DOMAIN e)
        /\ \A q \in DOMAIN t : ~IsPrefix(pk, q) => q \in DOMAIN u /\ u[q] = t[q]
        /\ \A r \in DOMAIN e : pk \o r \in DOMAIN u /\ u[pk \o r] = e[r]
        /\ DOMAIN u \subseteq Place
    <3>1. DOMAIN e \subseteq Place
      BY <2>1 DEF Tree, Forest
    <3> QED BY <1>1, <1>3, <3>1, PutAt
  <2> HIDE DEF u
  <2>8. pk \o <<>> = pk
    BY <1>3, PrefixOrder
  <2>9. pk \in DOMAIN u /\ u[pk].type = "null"
    BY <2>1, <2>7, <2>8
  <2>10. \A q \in DOMAIN u : q \in DOMAIN t \/ q = pk
    <3> TAKE q \in DOMAIN u
    <3>1. CASE IsPrefix(pk, q) /\ Suffix(pk, q) \in DOMAIN e
      <4>1. Suffix(pk, q) = <<>>
        BY <3>1, <2>1
      <4>2. pk \o Suffix(pk, q) = q
        BY <3>1, <2>7, <1>3, PrefixSuffix
      <4> QED BY <4>1, <4>2, <2>8
    <3> QED BY <3>1, <2>7
  <2>11. x.tree = u /\ x = [tree |-> x.tree, blocks |-> x.blocks] /\ x.blocks = s.blocks + Owned(e)
    <3>1. Count(given) + Count(CopyKey(given)) - (IF KeyReleased(CopyKey(given)) THEN 1 ELSE 0) - (IF KeyReleased(given) THEN 1 ELSE 0)
            = Owned(e)
      BY <2>1, GivenIs
    <3>2. Count(given) \in Int /\ Count(CopyKey(given)) \in Int
      BY DEF Count
    <3>3. x.tree = u /\ x = [tree |-> x.tree, blocks |-> x.blocks]
      BY <2>2
    <3>4. x.blocks = s.blocks + Count(given) + Count(CopyKey(given))
                         - (IF KeyReleased(CopyKey(given)) THEN 1 ELSE 0) - (IF KeyReleased(given) THEN 1 ELSE 0)
      BY <2>2
    <3> HIDE DEF x, key
    <3> QED BY <1>1, <3>1, <3>2, <3>3, <3>4
  <2> HIDE DEF x
  <2>12. Owned(t) \in Nat /\ Owned(e) \in Nat
    BY <1>1, <2>1, OwnFinite DEF Tree
  <2>13. Holder(x, D)
    BY <1>1, <2>5, <2>11, <2>12 DEF Holder
  <2>14. Balance(x) = Balance(s)
    BY <1>1, <2>6, <2>11, <2>12 DEF Balance
  <2>15. p \in DOMAIN u /\ u[p] = t[p] /\ \A q \in DOMAIN t : q \in DOMAIN u /\ u[q] = t[q]
    BY <2>4, <2>7
  <2>16. Inserted(s, x, p, k, D)
    BY <2>9, <2>10, <2>11, <2>13, <2>14, <2>15 DEF Inserted, pk
  <2> QED BY <2>16 DEF x
<1> QED BY <1>5, <1>6
-----------------------------------------------------------------------------
(* Access.                                                                     *)
LEMMA KeysFinite ==
  ASSUME NEW D, NEW t, Tree(t, D), NEW p \in Place
  PROVE  IsFiniteSet(Keys(t, p)) /\ Cardinality(Keys(t, p)) \in Nat
<1>1. Keys(t, p) \subseteq Int /\ \A k \in Keys(t, p) : Append(p, k) \in DOMAIN t
  BY KeysAre
<1> DEFINE f == [k \in Keys(t, p) |-> Append(p, k)]
<1>2. ASSUME NEW k \in Keys(t, p) PROVE Append(p, k)[Len(Append(p, k))] = k
  BY <1>1, AppendPlace
<1>3. \A j, k \in Keys(t, p) : f[j] = f[k] => j = k
  <2> TAKE j, k \in Keys(t, p)
  <2>1. Append(p, j)[Len(Append(p, j))] = j /\ Append(p, k)[Len(Append(p, k))] = k
    BY <1>2
  <2> QED BY <2>1
<1>4. f \in [Keys(t, p) -> DOMAIN t] /\ DOMAIN f = Keys(t, p)
  BY <1>1
<1> HIDE DEF f
<1>5. f \in Injection(Keys(t, p), DOMAIN t)
  BY <1>3, <1>4 DEF Injection, IsInjective
<1>6. IsFiniteSet(DOMAIN t)
  BY DEF Tree, Forest
<1>7. IsFiniteSet(Keys(t, p))
  BY <1>5, <1>6, FS_Injection
<1> QED BY <1>7, FS_CardinalityType

\* Max finds the greatest of finitely many numbers.
LEMMA MaxIs ==
  ASSUME NEW S, S \subseteq Nat, IsFiniteSet(S), S # {}
  PROVE  Max(S) \in S /\ \A y \in S : Max(S) >= y
<1> DEFINE n == Cardinality(S)
           Upper == {m \in Nat : \A y \in S : y <= m}
<1>1. \E m \in Nat : \A y \in S : y <= m
  <2>1. PICK f \in Bijection(1 .. n, S) : n \in Nat
    <3>1. n \in Nat
      BY FS_CardinalityType
    <3>2. ExistsBijection(1 .. n, S)
      BY FS_CardinalityType, FS_CountingElements
    <3> QED BY <3>1, <3>2 DEF ExistsBijection
  <2> DEFINE T == {i \in 0 .. n : \E m \in Nat : \A j \in 1 .. i : f[j] <= m}
  <2>0. f \in [1 .. n -> S] /\ \A y \in S : \E j \in 1 .. n : f[j] = y
    BY DEF Bijection, Surjection
  <2> HIDE DEF n
  <2>2. 0 \in T
    BY <2>1
  <2>3. ASSUME NEW i \in 0 .. n - 1, i \in T PROVE i + 1 \in T
    <3>1. PICK m \in Nat : \A j \in 1 .. i : f[j] <= m
      BY <2>3
    <3>0. n \in Nat /\ \A j \in 1 .. n : f[j] \in S
      BY <2>0, <2>1
    <3>2a. i + 1 \in 1 .. n /\ i + 1 \in 0 .. n
      BY <3>0
    <3>2. i + 1 \in 1 .. n /\ f[i + 1] \in Nat /\ i + 1 \in 0 .. n
      BY <3>0, <3>2a
    <3>3. \A j \in 1 .. i + 1 : f[j] <= m + f[i + 1]
      <4> TAKE j \in 1 .. i + 1
      <4>1. CASE j = i + 1
        BY <4>1, <3>2
      <4>2. CASE j \in 1 .. i
        <5>0. j \in 1 .. n
          BY <4>2, <3>0
        <5>1. f[j] <= m /\ f[j] \in Nat
          BY <4>2, <3>1, <3>0, <5>0
        <5> QED BY <5>1, <3>2
      <4> QED BY <4>1, <4>2
    <3>4. m + f[i + 1] \in Nat
      BY <3>2
    <3> QED BY <3>2, <3>3, <3>4
  <2>4. n \in T
    <3> HIDE DEF T
    <3>1. \A i \in 0 .. n : i \in T
      BY <2>1, <2>2, <2>3, UpTo
    <3> QED BY <3>1, <2>1
  <2>5. PICK m \in Nat : \A j \in 1 .. n : f[j] <= m
    BY <2>4
  <2> QED BY <2>5, <2>0
<1>2. PICK m \in Upper : \A x \in Upper : m <= x
  <2>1. Upper \subseteq Nat /\ Upper # {}
    BY <1>1
  <2> HIDE DEF Upper
  <2> QED BY <2>1, NatMin
<1>3. m \in S
  <2> SUFFICES ASSUME m \notin S PROVE FALSE
    OBVIOUS
  <2>0. m \in Nat /\ m # 0
    <3>1. PICK y \in S : TRUE
      OBVIOUS
    <3>2. y \in Nat /\ y <= m /\ y # m /\ m \in Nat
      OBVIOUS
    <3> QED BY <3>2
  <2>1. \A y \in S : y <= m - 1
    OBVIOUS
  <2>2. m - 1 \in Upper
    BY <2>0, <2>1
  <2>3. ~(m <= m - 1)
    OBVIOUS
  <2> QED BY <1>2, <2>2, <2>3
<1>4. \A y \in S : m >= y
  OBVIOUS
<1> QED BY <1>3, <1>4 DEF Max

\* The size of an array is behind its indices.
LEMMA SizeIs ==
  ASSUME NEW D, NEW t, Tree(t, D), NEW p \in DOMAIN t
  PROVE  /\ Size(t, p) \in Nat
         /\ t[p].type = "array" => \A k \in Keys(t, p) : k < Size(t, p)
<1>0. p \in Place
  BY DEF Tree, Forest
<1>1. CASE t[p].type = "array" /\ Keys(t, p) # {}
  <2>1. Keys(t, p) \subseteq Nat
    <3> SUFFICES ASSUME NEW k \in Keys(t, p) PROVE k \in Nat
      OBVIOUS
    <3>1. Fits(t[p].type, k, D)
      BY <1>0, EntriesFit
    <3> QED BY <3>1, <1>1 DEF Fits
  <2>2. Max(Keys(t, p)) \in Keys(t, p) /\ \A y \in Keys(t, p) : Max(Keys(t, p)) >= y
    BY <1>0, <1>1, <2>1, KeysFinite, MaxIs
  <2>3. Size(t, p) = Max(Keys(t, p)) + 1
    BY <1>1 DEF Size
  <2> QED BY <2>1, <2>2, <2>3
<1>2. CASE ~(t[p].type = "array" /\ Keys(t, p) # {})
  <2>1. Size(t, p) = Cardinality(Keys(t, p))
    BY <1>2 DEF Size
  <2> QED BY <1>0, <1>2, <2>1, KeysFinite
<1> QED BY <1>1, <1>2

\* An access puts an entry there, and disturbs nothing beside the container.
Grown(s, x, p, k, type, D) ==
  /\ Holder(x, D) /\ Balance(x) = Balance(s)
  /\ p \in DOMAIN x.tree /\ x.tree[p].type = type
  /\ Append(p, k) \in DOMAIN x.tree
  /\ Beside(s.tree, x.tree, p)
  /\ s.tree[p].type = type => \A q \in DOMAIN s.tree : q \in DOMAIN x.tree /\ x.tree[q] = s.tree[q]

\* An access makes the container and the entry, where they are not there.
LEMMA AccessIs ==
  ASSUME NEW D, Disc(D), NEW s, Holder(s, D), NEW p \in DOMAIN s.tree, NEW type \in Containers,
         s.tree[p].type \in {"null", type}, NEW k, Fits(type, k, D), NEW given \in Givens
  PROVE  Grown(s, Insert(BecomeContainer(s, p, type), p, k, given), p, k, type, D)
<1> DEFINE a == BecomeContainer(s, p, type)
           x == Insert(a, p, k, given)
<1>1. /\ Holder(a, D) /\ Balance(a) = Balance(s) /\ p \in DOMAIN a.tree /\ a.tree[p].type = type
      /\ Beside(s.tree, a.tree, p) /\ (s.tree[p].type = type => a = s)
  BY ContainerIs
<1> HIDE DEF a
<1>1a. Fits(a.tree[p].type, k, D)
  BY <1>1
<1>2a. Inserted(a, x, p, k, D)
  BY <1>1, <1>1a, InsertIs
<1> HIDE DEF x
<1>2. /\ Holder(x, D) /\ Balance(x) = Balance(a) /\ Append(p, k) \in DOMAIN x.tree
      /\ p \in DOMAIN x.tree /\ x.tree[p].type = a.tree[p].type
      /\ \A q \in DOMAIN a.tree : q \in DOMAIN x.tree /\ x.tree[q] = a.tree[q]
      /\ \A q \in DOMAIN x.tree : q \in DOMAIN a.tree \/ q = Append(p, k)
  BY <1>1, <1>2a DEF Inserted
<1>3. IsPrefix(p, Append(p, k))
  <2>1. p \in Place /\ k \in Int
    BY DEF Holder, Tree, Forest, Fits, Disc
  <2> QED BY <2>1, AppendPlace
<1>4. Beside(s.tree, x.tree, p)
  BY <1>1, <1>2, <1>3 DEF Beside
<1>5. Grown(s, x, p, k, type, D)
  BY <1>1, <1>2, <1>4 DEF Grown
<1> QED BY <1>5 DEF x, a

\* operator[] with a name.
LEMMA AtNameIs ==
  ASSUME NEW D, Disc(D), NEW s, Holder(s, D), NEW p \in DOMAIN s.tree,
         s.tree[p].type \in {"null", "object"}, NEW k \in D.names, NEW static \in BOOLEAN
  PROVE  Grown(s, AtName(s, p, k, static), p, k, "object", D)
<1> DEFINE given == IF static THEN Name("static", "noDuplication") ELSE Name("lent", "duplicateOnCopy")
<1>1. given \in Givens /\ Fits("object", k, D) /\ "object" \in Containers
  BY DEF Givens, Fits, Containers
<1>2. AtName(s, p, k, static) = Insert(BecomeContainer(s, p, "object"), p, k, given)
  BY DEF AtName
<1> HIDE DEF given
<1> QED BY <1>1, <1>2, AccessIs

\* operator[] with an index.
LEMMA AtIndexIs ==
  ASSUME NEW D, Disc(D), NEW s, Holder(s, D), NEW p \in DOMAIN s.tree,
         s.tree[p].type \in {"null", "array"}, NEW k \in Nat
  PROVE  Grown(s, AtIndex(s, p, k), p, k, "array", D)
<1>1. IndexKey \in Givens /\ Fits("array", k, D) /\ "array" \in Containers
  BY DEF Givens, Fits, Containers
<1>2. AtIndex(s, p, k) = Insert(BecomeContainer(s, p, "array"), p, k, IndexKey)
  BY DEF AtIndex
<1> QED BY <1>1, <1>2, AccessIs

\* Assigning to a member or an element, which is made first.
Keeps(s, x, D) == Holder(x, D) /\ Balance(x) = Balance(s)

\* Assigning to a member.
LEMMA MemberIs ==
  ASSUME NEW D, Disc(D), NEW s, Holder(s, D), NEW p \in DOMAIN s.tree,
         s.tree[p].type \in {"null", "object"}, NEW k \in D.names, NEW static \in BOOLEAN, NEW v, Tree(v, D)
  PROVE  Keeps(s, Assign(AtName(s, p, k, static), Append(p, k), v), D)
<1> DEFINE x == AtName(s, p, k, static)
<1>1. Holder(x, D) /\ Balance(x) = Balance(s) /\ Append(p, k) \in DOMAIN x.tree
  BY AtNameIs DEF Grown
<1> HIDE DEF x
<1>2. Holder(Assign(x, Append(p, k), v), D) /\ Balance(Assign(x, Append(p, k), v)) = Balance(x)
  BY <1>1, AssignIs
<1> QED BY <1>1, <1>2 DEF Keeps, x

\* Assigning to an element.
LEMMA ElementIs ==
  ASSUME NEW D, Disc(D), NEW s, Holder(s, D), NEW p \in DOMAIN s.tree,
         s.tree[p].type \in {"null", "array"}, NEW k \in Nat, NEW v, Tree(v, D)
  PROVE  Keeps(s, Assign(AtIndex(s, p, k), Append(p, k), v), D)
<1> DEFINE x == AtIndex(s, p, k)
<1>1. Holder(x, D) /\ Balance(x) = Balance(s) /\ Append(p, k) \in DOMAIN x.tree
  BY AtIndexIs DEF Grown
<1> HIDE DEF x
<1>2. Holder(Assign(x, Append(p, k), v), D) /\ Balance(Assign(x, Append(p, k), v)) = Balance(x)
  BY <1>1, AssignIs
<1> QED BY <1>1, <1>2 DEF Keeps, x

\* append of a Value.
LEMMA AppendValueIs ==
  ASSUME NEW D, Disc(D), NEW s, Holder(s, D), NEW p \in DOMAIN s.tree,
         s.tree[p].type \in {"null", "array"}, NEW v, Tree(v, D)
  PROVE  Keeps(s, AppendValue(s, p, v), D)
<1>1. Size(s.tree, p) \in Nat
  BY SizeIs DEF Holder
<1> DEFINE n == Size(s.tree, p)
<1>2. AppendValue(s, p, v) = Assign(AtIndex(s, p, n), Append(p, n), v)
  BY DEF AppendValue
<1> HIDE DEF n
<1> QED BY <1>1, <1>2, ElementIs DEF n

\* A part of the tree that is appended to the tree: the copy is made when the
\* place for it is there.
LEMMA AppendPartIs ==
  ASSUME NEW D, Disc(D), NEW s, Holder(s, D), NEW p \in DOMAIN s.tree,
         s.tree[p].type \in {"null", "array"}, NEW q \in DOMAIN s.tree
  PROVE  Keeps(s, AppendPart(s, p, q), D)
<1> DEFINE n == Size(s.tree, p)
           x == AtIndex(s, p, n)
<1>1. n \in Nat
  BY SizeIs DEF Holder
<1>2. AppendPart(s, p, q) = Assign(x, Append(p, n), Sub(x.tree, q))
  BY DEF AppendPart, AssignPart
<1> HIDE DEF n
<1>3. Grown(s, x, p, n, "array", D)
  BY <1>1, AtIndexIs
<1> HIDE DEF x
<1>4. q \in DOMAIN x.tree
  <2>1. CASE s.tree[p].type = "array"
    BY <2>1, <1>3 DEF Grown
  <2>2. CASE s.tree[p].type = "null"
    <3>1. Tree(s.tree, D) /\ p \in Place /\ "null" \notin Containers
      BY DEF Holder, Tree, Forest, Containers
    <3>2. IsPrefix(p, q) => p = q
      BY <2>2, <3>1, Inside
    <3> QED BY <3>2, <1>3 DEF Grown, Beside
  <2> QED BY <2>1, <2>2
<1>5. Tree(Sub(x.tree, q), D)
  BY <1>3, <1>4, SubIs DEF Grown, Holder
<1>6. Holder(x, D) /\ Append(p, n) \in DOMAIN x.tree /\ Balance(x) = Balance(s)
  BY <1>3 DEF Grown
<1>7. Keeps(x, Assign(x, Append(p, n), Sub(x.tree, q)), D)
  BY <1>5, <1>6, AssignIs DEF Keeps
<1> QED BY <1>2, <1>6, <1>7 DEF Keeps
-----------------------------------------------------------------------------
(* Removing, resizing, comments.                                               *)
\* What is removed takes what is in it along.
Loose(t, gone) ==
  /\ gone \subseteq DOMAIN t /\ <<>> \notin gone
  /\ \A q \in DOMAIN t : q # <<>> /\ Front(q) \in gone => q \in gone

\* Erasing places that nothing else lies in.
LEMMA ErasedIs ==
  ASSUME NEW D, NEW s, Holder(s, D), NEW gone, Loose(s.tree, gone)
  PROVE  Keeps(s, Erased(s, gone), D)
<1> DEFINE t == s.tree
           u == [q \in DOMAIN t \ gone |-> t[q]]
           r == [q \in gone |-> t[q]]
           x == Erased(s, gone)
<1>1. Tree(t, D) /\ s.blocks \in Int /\ DOMAIN t \subseteq Place /\ IsFiniteSet(DOMAIN t)
      /\ \A p \in DOMAIN t : Sound(t[p], D)
  BY DEF Holder, Tree, Forest
<1>2. /\ gone \subseteq DOMAIN t /\ <<>> \notin gone
      /\ \A q \in DOMAIN t : q # <<>> /\ Front(q) \in gone => q \in gone
  BY DEF Loose
<1>3. x.tree = u /\ x.blocks = s.blocks - Released(r) /\ x = [tree |-> x.tree, blocks |-> x.blocks]
  BY DEF Erased
<1> HIDE DEF x, t
<1>4. /\ DOMAIN u = DOMAIN t \ gone /\ DOMAIN r = gone
      /\ u = [q \in DOMAIN u |-> u[q]] /\ r = [q \in DOMAIN r |-> r[q]]
      /\ \A q \in DOMAIN u : u[q] = t[q]
      /\ \A q \in gone : r[q] = t[q]
  OBVIOUS
<1> HIDE DEF u, r
<1>5. IsFiniteSet(DOMAIN u) /\ IsFiniteSet(DOMAIN r)
  <2>1. DOMAIN t \ gone \subseteq DOMAIN t
    OBVIOUS
  <2> QED BY <1>1, <1>2, <1>4, <2>1, FS_Subset
<1>6. Forest(u, D)
  BY <1>1, <1>2, <1>4, <1>5 DEF Forest
<1>7. Forest(r, D)
  BY <1>1, <1>2, <1>4, <1>5 DEF Forest
<1>8. Tree(u, D)
  <2>1. <<>> \in DOMAIN u
    BY <1>1, <1>2, <1>4 DEF Tree
  <2>2. ASSUME NEW p \in DOMAIN u, p # <<>> PROVE Front(p) \in DOMAIN u /\ Fits(u[Front(p)].type, p[Len(p)], D)
    <3>1. Front(p) \in DOMAIN t /\ Fits(t[Front(p)].type, p[Len(p)], D)
      BY <2>2, <1>1, <1>4 DEF Tree
    <3>2. Front(p) \in DOMAIN u
      BY <3>1, <2>2, <1>2, <1>4
    <3> QED BY <3>1, <3>2, <1>4
  <2> QED BY <2>1, <2>2, <1>6 DEF Tree
<1>9. ToOwn(u) \cup ToOwn(r) = ToOwn(t) /\ ToOwn(u) \cap ToOwn(r) = {}
  <2>1. ASSUME NEW y \in ToOwn(t) PROVE y \in ToOwn(u) \cup ToOwn(r)
    <3>1. y = <<y[1], y[2]>> /\ y[1] \in DOMAIN t /\ y[2] \in Own(t[y[1]])
      BY OwnIs
    <3>2. CASE y[1] \in gone
      <4>1. <<y[1], y[2]>> \in ToOwn(r)
        BY <3>1, <3>2, <1>4, OwnIs
      <4> QED BY <3>1, <4>1
    <3>3. CASE y[1] \notin gone
      <4>1. y[1] \in DOMAIN u /\ u[y[1]] = t[y[1]]
        BY <3>1, <3>3, <1>4
      <4>2. <<y[1], y[2]>> \in ToOwn(u)
        BY <3>1, <4>1, OwnIs
      <4> QED BY <3>1, <4>2
    <3> QED BY <3>2, <3>3
  <2>2. ASSUME NEW y \in ToOwn(u) PROVE y \in ToOwn(t) /\ y[1] \notin gone
    <3>1. y = <<y[1], y[2]>> /\ y[1] \in DOMAIN u /\ y[2] \in Own(u[y[1]])
      BY OwnIs
    <3>2. y[1] \in DOMAIN t /\ y[1] \notin gone /\ u[y[1]] = t[y[1]]
      BY <3>1, <1>4
    <3>3. <<y[1], y[2]>> \in ToOwn(t)
      BY <3>1, <3>2, OwnIs
    <3> QED BY <3>1, <3>2, <3>3
  <2>3. ASSUME NEW y \in ToOwn(r) PROVE y \in ToOwn(t) /\ y[1] \in gone
    <3>1. y = <<y[1], y[2]>> /\ y[1] \in DOMAIN r /\ y[2] \in Own(r[y[1]])
      BY OwnIs
    <3>2. y[1] \in DOMAIN t /\ y[1] \in gone /\ r[y[1]] = t[y[1]]
      BY <3>1, <1>2, <1>4
    <3>3. <<y[1], y[2]>> \in ToOwn(t)
      BY <3>1, <3>2, OwnIs
    <3> QED BY <3>1, <3>2, <3>3
  <2> QED BY <2>1, <2>2, <2>3
<1>10. /\ Owned(t) = Owned(u) + Owned(r) /\ Owned(u) \in Nat /\ Owned(r) \in Nat /\ Released(r) = Owned(r)
  <2>1. IsFiniteSet(ToOwn(t))
    BY <1>1, OwnFinite DEF Tree
  <2>2. Cardinality(ToOwn(t)) = Cardinality(ToOwn(u)) + Cardinality(ToOwn(r))
    BY <2>1, <1>9, CardParts
  <2>3. Owned(u) \in Nat /\ Owned(r) \in Nat /\ Released(r) = Owned(r)
    BY <1>6, <1>7, OwnFinite
  <2> QED BY <2>2, <2>3 DEF Owned
<1>11. x.blocks \in Int
  BY <1>1, <1>3, <1>10
<1>12. Holder(x, D)
  BY <1>3, <1>8, <1>11 DEF Holder
<1>13. Balance(x) = Balance(s)
  BY <1>1, <1>3, <1>10 DEF Balance, t
<1> QED BY <1>12, <1>13 DEF Keeps, x

\* Erasing an entry.
LEMMA EraseIs ==
  ASSUME NEW D, NEW s, Holder(s, D), NEW p \in Place, p # <<>>
  PROVE  Keeps(s, Erase(s, p), D)
<1> DEFINE gone == Below(s.tree, p)
<1>0. DOMAIN s.tree \subseteq Place
  BY DEF Holder, Tree, Forest
<1>1. gone \subseteq DOMAIN s.tree
  BY DEF Below
<1>2. <<>> \notin gone
  <2>1. Len(p) \in Nat /\ Len(p) # 0 /\ Len(<<>>) = 0
    BY PlaceLen
  <2>2. ~IsPrefix(p, <<>>)
    BY <2>1 DEF IsPrefix
  <2> QED BY <2>2 DEF Below
<1>3. ASSUME NEW q \in DOMAIN s.tree, q # <<>>, Front(q) \in gone PROVE q \in gone
  <2>1. q \in Place /\ Front(q) \in Place /\ IsPrefix(Front(q), q)
    BY <1>0, <1>3, FrontPlace
  <2>2. IsPrefix(p, Front(q))
    BY <1>3 DEF Below
  <2>3. IsPrefix(p, q)
    BY <2>1, <2>2, PrefixOrder
  <2> QED BY <2>3 DEF Below
<1>4. Erase(s, p) = Erased(s, gone)
  BY DEF Erase
<1> HIDE DEF gone
<1>5. Loose(s.tree, gone)
  BY <1>1, <1>2, <1>3 DEF Loose
<1> QED BY <1>4, <1>5, ErasedIs

\* Erasing several entries.
LEMMA EraseKeysIs ==
  ASSUME NEW D, NEW s, Holder(s, D), NEW p \in Place, NEW keys, keys \subseteq Int
  PROVE  Keeps(s, EraseKeys(s, p, keys), D)
<1> DEFINE gone == UNION {Below(s.tree, Append(p, k)) : k \in keys}
<1>0. DOMAIN s.tree \subseteq Place
  BY DEF Holder, Tree, Forest
<1>1. gone \subseteq DOMAIN s.tree
  BY DEF Below
<1>2. <<>> \notin gone
  <2>1. ASSUME NEW k \in keys, <<>> \in Below(s.tree, Append(p, k)) PROVE FALSE
    <3>1. Append(p, k) \in Place /\ Append(p, k) # <<>>
      BY AppendPlace
    <3>2. Len(Append(p, k)) \in Nat /\ Len(Append(p, k)) # 0 /\ Len(<<>>) = 0
      BY <3>1, PlaceLen
    <3>3. ~IsPrefix(Append(p, k), <<>>)
      BY <3>2 DEF IsPrefix
    <3> QED BY <3>3, <2>1 DEF Below
  <2> QED BY <2>1
<1>3. ASSUME NEW q \in DOMAIN s.tree, q # <<>>, Front(q) \in gone PROVE q \in gone
  <2>1. q \in Place /\ Front(q) \in Place /\ IsPrefix(Front(q), q)
    BY <1>0, <1>3, FrontPlace
  <2>2. PICK k \in keys : Front(q) \in Below(s.tree, Append(p, k))
    BY <1>3
  <2>3. IsPrefix(Append(p, k), Front(q)) /\ Append(p, k) \in Place
    BY <2>2, AppendPlace DEF Below
  <2>4. IsPrefix(Append(p, k), q)
    BY <2>1, <2>3, PrefixOrder
  <2>5. q \in Below(s.tree, Append(p, k))
    BY <2>4 DEF Below
  <2> QED BY <2>5
<1>4. EraseKeys(s, p, keys) = Erased(s, gone)
  BY DEF EraseKeys
<1> HIDE DEF gone
<1>5. Loose(s.tree, gone)
  BY <1>1, <1>2, <1>3 DEF Loose
<1> QED BY <1>4, <1>5, ErasedIs

\* clear.
LEMMA ClearIs ==
  ASSUME NEW D, NEW s, Holder(s, D), NEW p \in Place
  PROVE  Keeps(s, Clear(s, p), D)
<1>1. Keys(s.tree, p) \subseteq Int
  BY KeysAre DEF Holder
<1> QED BY <1>1, EraseKeysIs DEF Clear

\* resize.
LEMMA ResizeIs ==
  ASSUME NEW D, Disc(D), NEW s, Holder(s, D), NEW p \in DOMAIN s.tree,
         s.tree[p].type \in {"null", "array"}, NEW n \in Nat
  PROVE  Keeps(s, Resize(s, p, n), D)
<1> DEFINE a    == BecomeContainer(s, p, "array")
           size == Size(a.tree, p)
           keys == Keys(a.tree, p) \cap (n .. size - 1)
<1>1. /\ Holder(a, D) /\ Balance(a) = Balance(s) /\ p \in DOMAIN a.tree /\ a.tree[p].type = "array"
  <2>1. "array" \in Containers
    BY DEF Containers
  <2> QED BY <2>1, ContainerIs
<1>2. Resize(s, p, n) = CASE n = 0 -> Clear(a, p)
                          [] n > size -> AtIndex(a, p, n - 1)
                          [] n \in 1 .. size -> EraseKeys(a, p, keys)
  BY DEF Resize
<1> HIDE DEF a
<1>3. size \in Nat /\ p \in Place /\ keys \subseteq Int
  <2>1. Tree(a.tree, D) /\ p \in Place
    BY <1>1 DEF Holder, Tree, Forest
  <2> QED BY <1>1, <2>1, SizeIs
<1> HIDE DEF size, keys
<1>4. CASE n = 0
  <2>1. Resize(s, p, n) = Clear(a, p)
    BY <1>2, <1>3, <1>4
  <2>2. Keeps(a, Clear(a, p), D)
    BY <1>1, <1>3, ClearIs
  <2> QED BY <1>1, <2>1, <2>2 DEF Keeps
<1>5. CASE n > size
  <2>1. Resize(s, p, n) = AtIndex(a, p, n - 1) /\ n - 1 \in Nat
    BY <1>2, <1>3, <1>5
  <2>2. Grown(a, AtIndex(a, p, n - 1), p, n - 1, "array", D)
    BY <1>1, <2>1, AtIndexIs
  <2> QED BY <1>1, <2>1, <2>2 DEF Keeps, Grown
<1>6. CASE n \in 1 .. size
  <2>1. Resize(s, p, n) = EraseKeys(a, p, keys)
    BY <1>2, <1>3, <1>6
  <2>2. Keeps(a, EraseKeys(a, p, keys), D)
    BY <1>1, <1>3, EraseKeysIs
  <2> QED BY <1>1, <2>1, <2>2 DEF Keeps
<1> QED BY <1>3, <1>4, <1>5, <1>6

\* A comment is put to a node.
Noted(n, comment, placement) == [n.comment EXCEPT ![placement] = comment]

\* A node with one more comment.
LEMMA NotedIs ==
  ASSUME NEW D, NEW n, Sound(n, D), NEW placement \in Placements,
         NEW comment \in Seq(Lexeme), comment # <<>>
  PROVE  LET m == [n EXCEPT !.comment = Noted(n, comment, placement)]
         IN  /\ Sound(m, D) /\ m.type = n.type
             /\ Own(m) = Own(n) \cup {"comments", placement}
             /\ "comments" \in Own(n) <=> Comments(n) # {}
             /\ placement \in Own(n) <=> HasComment(n, placement)
<1> DEFINE c == Noted(n, comment, placement)
           m == NodeOf(n, c, n.key, n.str)
<1>1. n = NodeOf(n, n.comment, n.key, n.str) /\ n.comment \in [Placements -> Seq(Lexeme)]
      /\ KeySound(n.key) /\ StrSound(n.str)
  BY SoundIs
<1>2. c \in [Placements -> Seq(Lexeme)] /\ \A x \in Placements : c[x] = IF x = placement THEN comment ELSE n.comment[x]
  BY <1>1 DEF Noted
<1> HIDE DEF c
<1>3. [n EXCEPT !.comment = c] = m
  BY <1>1, NodeExcept
<1>4. Sound(m, D) /\ m.type = n.type /\ m.comment = c /\ m.key = n.key /\ m.str = n.str
  BY <1>1, <1>2, SoundOf
<1> HIDE DEF m
<1>5. Comments(m) = Comments(n) \cup {placement}
  BY <1>2, <1>4 DEF Comments
<1>6. Own(m) = Own(n) \cup {"comments", placement}
  BY <1>4, <1>5 DEF Own, Blocks, Placements, Comments
<1>7. /\ "comments" \in Own(n) <=> Comments(n) # {}
      /\ placement \in Own(n) <=> HasComment(n, placement)
  BY DEF Own, Blocks, Comments, HasComment, Placements
<1> QED BY <1>3, <1>4, <1>6, <1>7 DEF c

\* Two things are two.
LEMMA PairCard ==
  ASSUME NEW a, NEW b, a # b
  PROVE  Cardinality({a, b}) = 2
<1>1. IsFiniteSet({a}) /\ IsFiniteSet({b}) /\ Cardinality({a}) = 1 /\ Cardinality({b}) = 1
  BY FS_Singleton
<1>2. {a} \cap {b} = {} /\ {a, b} = {a} \cup {b}
  OBVIOUS
<1>3. Cardinality({a, b}) = Cardinality({a}) + Cardinality({b})
  BY <1>1, <1>2, CardSplit
<1> QED BY <1>1, <1>3

\* A node of the tree is replaced by one of its type.
Renoded(t, p, n) == [t EXCEPT ![p] = n]

\* A tree with one node changed.
LEMMA RenodedIs ==
  ASSUME NEW D, NEW t, Tree(t, D), NEW p \in DOMAIN t, NEW n, Sound(n, D), n.type = t[p].type
  PROVE  /\ Tree(Renoded(t, p, n), D) /\ DOMAIN Renoded(t, p, n) = DOMAIN t
         /\ \A q \in DOMAIN t : Renoded(t, p, n)[q] = IF q = p THEN n ELSE t[q]
<1> DEFINE u == Renoded(t, p, n)
<1>1. DOMAIN u = DOMAIN t /\ \A q \in DOMAIN t : u[q] = IF q = p THEN n ELSE t[q]
  BY DEF Renoded
<1>2. u = [q \in DOMAIN u |-> u[q]]
  <2>1. u = [q \in DOMAIN t |-> IF q = p THEN n ELSE t[q]]
    <3>1. t = [q \in DOMAIN t |-> t[q]]
      BY DEF Tree, Forest
    <3> QED BY <3>1 DEF Renoded
  <2> HIDE DEF u
  <2> QED BY <2>1
<1> HIDE DEF u
<1>3. \A q \in DOMAIN u : Sound(u[q], D) /\ u[q].type = t[q].type
  BY <1>1 DEF Tree, Forest
<1>4. Forest(u, D)
  BY <1>1, <1>2, <1>3 DEF Tree, Forest
<1>5. ASSUME NEW q \in DOMAIN u, q # <<>> PROVE Front(q) \in DOMAIN u /\ Fits(u[Front(q)].type, q[Len(q)], D)
  <2>1. Front(q) \in DOMAIN t /\ Fits(t[Front(q)].type, q[Len(q)], D)
    BY <1>1, <1>5 DEF Tree
  <2> QED BY <2>1, <1>1, <1>3
<1>6. Tree(u, D)
  BY <1>1, <1>4, <1>5 DEF Tree
<1> QED BY <1>1, <1>6 DEF u

\* setComment.
LEMMA SetCommentIs ==
  ASSUME NEW D, NEW s, Holder(s, D), NEW p \in DOMAIN s.tree, NEW placement \in Placements,
         NEW comment \in Seq(Lexeme), comment # <<>>
  PROVE  /\ Keeps(s, SetComment(s, p, comment, placement), D)
         /\ DOMAIN SetComment(s, p, comment, placement).tree = DOMAIN s.tree
         /\ \A q \in DOMAIN s.tree : SetComment(s, p, comment, placement).tree[q].type = s.tree[q].type
<1> DEFINE t == s.tree
           n == t[p]
           m == [n EXCEPT !.comment = Noted(n, comment, placement)]
           u == Renoded(t, p, m)
           x == SetComment(s, p, comment, placement)
           more == (IF Comments(n) = {} THEN 1 ELSE 0) + 1 - (IF HasComment(n, placement) THEN 1 ELSE 0)
<1>1. Tree(t, D) /\ s.blocks \in Int /\ Sound(n, D)
  BY DEF Holder, Tree, Forest
<1>2. /\ Sound(m, D) /\ m.type = n.type /\ Own(m) = Own(n) \cup {"comments", placement}
      /\ "comments" \in Own(n) <=> Comments(n) # {}
      /\ placement \in Own(n) <=> HasComment(n, placement)
  BY <1>1, NotedIs
<1>3. u = [s.tree EXCEPT ![p].comment[placement] = comment]
  BY DEF Renoded, Noted
<1>4. x = [tree |-> u, blocks |-> s.blocks + (IF Comments(n) = {} THEN 1 ELSE 0) + 1
                                   - (IF HasComment(n, placement) THEN 1 ELSE 0)]
  BY <1>3 DEF SetComment
<1> HIDE DEF m
<1>5. /\ Tree(u, D) /\ DOMAIN u = DOMAIN t /\ \A q \in DOMAIN t : u[q] = IF q = p THEN m ELSE t[q]
  BY <1>1, <1>2, RenodedIs
<1>6. x.tree = u /\ x = [tree |-> x.tree, blocks |-> x.blocks] /\ x.blocks = s.blocks + more /\ x.blocks \in Int
  BY <1>1, <1>4
<1> HIDE DEF u, x
<1>7. Owned(u) = Owned(t) + more
  <2> DEFINE new == {<<p, b>> : b \in {"comments", placement} \ Own(n)}
  <2>1. ToOwn(u) = ToOwn(t) \cup new
    <3>1. ASSUME NEW y \in ToOwn(u) PROVE y \in ToOwn(t) \cup new
      <4>1. y = <<y[1], y[2]>> /\ y[1] \in DOMAIN u /\ y[2] \in Own(u[y[1]])
        BY OwnIs
      <4>2. CASE y[1] = p
        <5>1. y[2] \in Own(n) \cup {"comments", placement}
          BY <4>1, <4>2, <1>2, <1>5
        <5>2. CASE y[2] \in Own(n)
          <6>1. <<p, y[2]>> \in ToOwn(t)
            BY <5>2, OwnIs
          <6> QED BY <6>1, <4>1, <4>2
        <5>3. CASE y[2] \notin Own(n)
          <6>1. <<p, y[2]>> \in new
            BY <5>1, <5>3
          <6> QED BY <6>1, <4>1, <4>2
        <5> QED BY <5>2, <5>3
      <4>3. CASE y[1] # p
        <5>1. u[y[1]] = t[y[1]] /\ y[1] \in DOMAIN t
          BY <4>1, <4>3, <1>5
        <5>2. <<y[1], y[2]>> \in ToOwn(t)
          BY <4>1, <5>1, OwnIs
        <5> QED BY <4>1, <5>2
      <4> QED BY <4>2, <4>3
    <3>2. ASSUME NEW y \in ToOwn(t) PROVE y \in ToOwn(u)
      <4>1. y = <<y[1], y[2]>> /\ y[1] \in DOMAIN t /\ y[2] \in Own(t[y[1]])
        BY OwnIs
      <4>2. y[2] \in Own(u[y[1]]) /\ y[1] \in DOMAIN u
        BY <4>1, <1>2, <1>5
      <4>3. <<y[1], y[2]>> \in ToOwn(u)
        BY <4>2, OwnIs
      <4> QED BY <4>1, <4>3
    <3>3. ASSUME NEW y \in new PROVE y \in ToOwn(u)
      <4>1. PICK b \in {"comments", placement} : y = <<p, b>>
        OBVIOUS
      <4>2. b \in Own(u[p]) /\ p \in DOMAIN u
        BY <1>2, <1>5
      <4>3. <<p, b>> \in ToOwn(u)
        BY <4>2, OwnIs
      <4> QED BY <4>1, <4>3
    <3> HIDE DEF new
    <3> QED BY <3>1, <3>2, <3>3
  <2>2. ToOwn(t) \cap new = {}
    <3> SUFFICES ASSUME NEW y \in new, y \in ToOwn(t) PROVE FALSE
      OBVIOUS
    <3>1. PICK b : b \notin Own(n) /\ y = <<p, b>>
      OBVIOUS
    <3>2. y[1] = p /\ y[2] = b /\ y[2] \in Own(t[y[1]])
      BY <3>1, OwnIs
    <3> QED BY <3>1, <3>2
  <2>3. IsFiniteSet(ToOwn(t)) /\ IsFiniteSet(ToOwn(u))
    BY <1>1, <1>5, OwnFinite DEF Tree
  <2>4. Cardinality(ToOwn(u)) = Cardinality(ToOwn(t)) + Cardinality(new)
        /\ Cardinality(ToOwn(t)) \in Nat
    <3> DEFINE S == ToOwn(u)
               A == ToOwn(t)
    <3>1. A \cup new = S
      BY <2>1
    <3>2. IsFiniteSet(S) /\ A \cap new = {}
      BY <2>2, <2>3
    <3> HIDE DEF new, S, A
    <3>3. Cardinality(S) = Cardinality(A) + Cardinality(new) /\ Cardinality(A) \in Nat
      BY ONLY <3>1, <3>2, CardParts
    <3> QED BY <3>3 DEF S, A
  <2>5. Cardinality(new) = more
    <3>1. placement # "comments"
      BY DEF Placements
    <3>2. CASE Comments(n) = {}
      <4>1. ~HasComment(n, placement)
        BY <3>2 DEF Comments, HasComment
      <4>2. new = {<<p, "comments">>, <<p, placement>>}
        BY <1>2, <3>2, <4>1
      <4>3. <<p, "comments">> # <<p, placement>>
        BY <3>1
      <4>4. Cardinality({<<p, "comments">>, <<p, placement>>}) = 2
        BY <4>3, PairCard
      <4> HIDE DEF new
      <4> QED BY <4>1, <4>2, <4>4, <3>2
    <3>3. CASE Comments(n) # {} /\ ~HasComment(n, placement)
      <4>1. new = {<<p, placement>>}
        BY <1>2, <3>3
      <4>2. Cardinality({<<p, placement>>}) = 1
        BY FS_Singleton
      <4> HIDE DEF new
      <4> QED BY <4>1, <4>2, <3>3
    <3>4. CASE Comments(n) # {} /\ HasComment(n, placement)
      <4>1. new = {}
        BY <1>2, <3>4
      <4>2. Cardinality({}) = 0
        BY FS_EmptySet
      <4> HIDE DEF new
      <4> QED BY <4>1, <4>2, <3>4
    <3> QED BY <3>2, <3>3, <3>4
  <2> HIDE DEF new, more
  <2> QED BY <2>4, <2>5 DEF Owned
<1>8. Owned(t) \in Nat /\ more \in Int
  BY <1>1, OwnFinite DEF Tree
<1>9. Holder(x, D)
  BY <1>5, <1>6 DEF Holder
<1>10. Balance(x) = Balance(s)
  <2> HIDE DEF more
  <2> QED BY <1>1, <1>6, <1>7, <1>8 DEF Balance, t
<1>11. \A q \in DOMAIN t : u[q].type = t[q].type
  BY <1>2, <1>5
<1> HIDE DEF n
<1> QED BY <1>5, <1>6, <1>9, <1>10, <1>11 DEF Keeps, x, t
-----------------------------------------------------------------------------
(* What the program builds.                                                    *)
\* The values of the nodes that are built, and the names.
ValuesOf(type) ==
  CASE type = "int"     -> {<<i>> : i \in MinInt .. MaxInt}
    [] type = "uint"    -> {<<i>> : i \in 0 .. MaxUInt}
    [] type = "boolean" -> {<<i>> : i \in 0 .. 1}
    [] type = "string"  -> Seq(Nat \ {0})
Building == [vals |-> [t \in {"int", "uint", "boolean", "string"} |-> ValuesOf(t)],
             names |-> 0 .. Len(Names) - 1]

\* The bounds of Int and UInt.
LEMMA Ranges ==
  MaxUInt \in Nat /\ MaxInt \in Nat /\ MinInt \in Int /\ MinInt <= 0 /\ MaxInt <= MaxUInt /\ MaxUInt >= 31
  /\ 2 ^ Bits = MaxUInt + 1
<1>1. 2 ^ Bits \in Nat /\ 2 ^ Bits >= 32
  BY BitsAssumption
<1> DEFINE b == 2 ^ Bits
<1>2. MaxUInt = b - 1 /\ MaxInt = (b - 1) \div 2 /\ MinInt = -((b - 1) \div 2 + 1)
  BY DEF MaxUInt, MaxInt, MinInt
<1>2a. MaxUInt = b - 1 /\ b \in Nat
  BY <1>1, <1>2
<1> HIDE DEF b
<1>3. ASSUME NEW m \in Nat PROVE m \div 2 \in Nat /\ m \div 2 <= m
  BY <1>3
<1>4. b - 1 \in Nat /\ b - 1 >= 31
  BY <1>1 DEF b
<1>5. (b - 1) \div 2 \in Nat /\ (b - 1) \div 2 <= b - 1
  BY <1>3, <1>4
<1> DEFINE h == (b - 1) \div 2
<1>6. h \in Nat /\ h <= b - 1 /\ MaxInt = h /\ MinInt = -(h + 1)
  BY <1>2, <1>5
<1> HIDE DEF h
<1>7. MaxUInt \in Nat /\ MaxInt \in Nat /\ MinInt \in Int /\ MinInt <= 0 /\ MaxInt <= MaxUInt /\ MaxUInt >= 31
      /\ b = MaxUInt + 1
  BY <1>2a, <1>4, <1>6
<1> QED BY <1>7 DEF b

\* The names that messages use are there.
LEMMA NamesLen == Len(Names) \in Nat /\ Len(Names) > Version /\ Names \in Seq(Seq(Nat))
BY NamesAssumption, MessageNamesAssumption

\* The discipline of what is built.
LEMMA BuildingIs ==
  /\ Disc(Building) /\ DOMAIN Building.vals = {"int", "uint", "boolean", "string"}
  /\ Building.names = 0 .. Len(Names) - 1
  /\ \A t \in {"int", "uint", "boolean", "string"} : Building.vals[t] = ValuesOf(t)
  /\ ValuesOf("int") = {<<i>> : i \in MinInt .. MaxInt} /\ ValuesOf("uint") = {<<i>> : i \in 0 .. MaxUInt}
  /\ ValuesOf("boolean") = {<<i>> : i \in 0 .. 1} /\ ValuesOf("string") = Seq(Nat \ {0})
<1>1. DOMAIN Building.vals = {"int", "uint", "boolean", "string"} /\ Building.names = 0 .. Len(Names) - 1
      /\ \A t \in {"int", "uint", "boolean", "string"} : Building.vals[t] = ValuesOf(t)
  BY DEF Building
<1>2. ValuesOf("int") = {<<i>> : i \in MinInt .. MaxInt} /\ ValuesOf("uint") = {<<i>> : i \in 0 .. MaxUInt}
      /\ ValuesOf("boolean") = {<<i>> : i \in 0 .. 1} /\ ValuesOf("string") = Seq(Nat \ {0})
  BY DEF ValuesOf
<1>3. Disc(Building)
  BY <1>1, NamesLen DEF Disc
<1> QED BY <1>1, <1>2, <1>3

\* What the program assigns is a tree.
LEMMA LeafOf ==
  ASSUME NEW v, IsLeaf(v)
  PROVE  Tree(v, Building)
<1> DEFINE n == v[<<>>]
<1>1. v = Leaf(Node(n.type, n.val, n.str))
  BY DEF IsLeaf
<1>2. \/ /\ n.str = NoString
         /\ \/ n.type = "int" /\ n.val = <<n.val[1]>> /\ n.val[1] \in MinInt .. MaxInt
            \/ n.type = "uint" /\ n.val = <<n.val[1]>> /\ n.val[1] \in 0 .. MaxUInt
            \/ n.type = "boolean" /\ n.val = <<n.val[1]>> /\ n.val[1] \in 0 .. 1
            \/ n.type = "real" /\ n.val = <<n.val[1]>> /\ n.val[1] \in Int
      \/ /\ n.type = "string" /\ n.val \in Seq(Nat \ {0})
         /\ n.str \in {[at |-> "own", allocated |-> TRUE], [at |-> "static", allocated |-> FALSE]}
  BY DEF IsLeaf
<1>3. DEFINE ty == n.type  va == n.val  st == n.str
<1>4. StrSound(st)
  <2>1. CASE st = NoString
    BY <2>1, NoStringSound
  <2>2. CASE st \in {[at |-> "own", allocated |-> TRUE], [at |-> "static", allocated |-> FALSE]}
    <3> DEFINE s1 == [at |-> "own", allocated |-> TRUE]
               s2 == [at |-> "static", allocated |-> FALSE]
    <3>1. StrSound(s1) /\ StrSound(s2)
      BY DEF StrSound, Targets
    <3>2. st = s1 \/ st = s2
      BY <2>2
    <3> HIDE DEF s1, s2, st
    <3> QED BY <3>1, <3>2
  <2> QED BY <1>2, <2>1, <2>2
<1>5. /\ ty \in TypeNames /\ ty \notin Containers \cup {"null"} /\ (ty = "string" => st.at # "nothing")
      /\ ty \in {"int", "uint", "real", "boolean"} => va \in Seq(Int) /\ Len(va) = 1
  <2>1. ty \in {"int", "uint", "real", "boolean", "string"} /\ (ty = "string" => st.at # "nothing")
    BY <1>2
  <2>2. ASSUME ty \in {"int", "uint", "real", "boolean"} PROVE va \in Seq(Int) /\ Len(va) = 1
    <3>1. va = <<va[1]>> /\ va[1] \in Int
      BY <1>2, <2>2, Ranges
    <3> HIDE DEF va
    <3>2. \A i \in Int : <<i>> \in Seq(Int) /\ Len(<<i>>) = 1
      OBVIOUS
    <3> QED BY <3>1, <3>2
  <2> QED BY <2>1, <2>2 DEF TypeNames, Containers
<1>6. ty \in DOMAIN Building.vals => va \in Building.vals[ty]
  <2> SUFFICES ASSUME ty \in {"int", "uint", "boolean", "string"} PROVE va \in ValuesOf(ty)
    BY BuildingIs
  <2>1. CASE ty = "int"
    <3>1. va = <<va[1]>> /\ va[1] \in MinInt .. MaxInt
      BY <1>2, <2>1
    <3> HIDE DEF va, ty
    <3> QED BY <3>1, <2>1, BuildingIs
  <2>2. CASE ty = "uint"
    <3>1. va = <<va[1]>> /\ va[1] \in 0 .. MaxUInt
      BY <1>2, <2>2
    <3> HIDE DEF va, ty
    <3> QED BY <3>1, <2>2, BuildingIs
  <2>3. CASE ty = "boolean"
    <3>1. va = <<va[1]>> /\ va[1] \in 0 .. 1
      BY <1>2, <2>3
    <3> HIDE DEF va, ty
    <3> QED BY <3>1, <2>3, BuildingIs
  <2>4. CASE ty = "string"
    <3>1. va \in Seq(Nat \ {0})
      BY <1>2, <2>4
    <3> HIDE DEF va, ty
    <3> QED BY <3>1, <2>4, BuildingIs
  <2> QED BY <2>1, <2>2, <2>3, <2>4
<1>7. v = Leaf(Node(ty, va, st))
  BY <1>1
<1> HIDE DEF ty, va, st
<1>8. Sound(Node(ty, va, st), Building)
  BY <1>4, <1>5, <1>6, FreshSound
<1> QED BY <1>7, <1>8, LeafIs

\* A C string is a text.
LEMMA CStrIs == \A s \in Seq(Nat) : CStr(s) \in Seq(Nat \ {0}) /\ Len(CStr(s)) <= Len(s)
<1> TAKE s \in Seq(Nat)
<1> DEFINE z == s \o <<0>>
           I == {i \in 1 .. Len(z) : z[i] = 0}
           n == SelectInSeq(z, LAMBDA c : c = 0)
<1>1. n = IF I # {} THEN Min(I) ELSE 0
  BY DEF SelectInSeq
<1>2. z \in Seq(Nat) /\ Len(z) = Len(s) + 1 /\ Len(s) \in Nat /\ z[Len(s) + 1] = 0
  OBVIOUS
<1>3. Len(s) + 1 \in I
  BY <1>2
<1>4. I \subseteq Nat /\ \A i \in I : i <= Len(s) + 1
  BY <1>2
<1> HIDE DEF I
<1>5. n \in I /\ \A i \in I : n <= i
  BY <1>1, <1>3, <1>4, MinIs
<1>6. n - 1 <= Len(s) /\ n - 1 \in Int
  BY <1>2, <1>4, <1>5
<1>7. CStr(s) = SubSeq(s, 1, n - 1)
  BY DEF CStr
<1> HIDE DEF n
<1>8. SubSeq(s, 1, n - 1) \in Seq(Nat \ {0}) /\ Len(SubSeq(s, 1, n - 1)) <= Len(s)
  <2>0. I \subseteq Nat /\ \A i \in I : i >= 1
    BY <1>2 DEF I
  <2>1. n - 1 >= 0
    BY <1>5, <2>0
  <2> DEFINE m == n - 1
  <2>2. m \in Nat /\ m <= Len(s) /\ Len(s) \in Nat
    BY <1>2, <1>6, <2>1
  <2> HIDE DEF m
  <2>3. ASSUME NEW i \in 1 .. m PROVE s[i] \in Nat \ {0}
    <3>1. i \in 1 .. Len(s) /\ i \in 1 .. Len(z) /\ z[i] = s[i] /\ ~(n <= i)
      BY <1>2, <1>4, <1>5, <2>2 DEF m
    <3>2. z[i] # 0
      BY <1>5, <3>1 DEF I
    <3> QED BY <3>1, <3>2
  <2>4. SubSeq(s, 1, m) \in Seq(Nat \ {0}) /\ Len(SubSeq(s, 1, m)) = IF 1 <= m THEN m - 1 + 1 ELSE 0
    BY <2>2, <2>3, SubSeqProperties
  <2>5. Len(SubSeq(s, 1, m)) <= Len(s)
    BY <2>2, <2>4
  <2> QED BY <2>4, <2>5 DEF m
<1> QED BY <1>7, <1>8

\* A text makes a tree.
LEMMA StringIs ==
  ASSUME NEW s \in Seq(Nat)
  PROVE  Tree(String(s), Building)
<1> DEFINE st == [at |-> "own", allocated |-> TRUE]
           va == CStr(s)
<1>1. StrSound(st)
  BY DEF StrSound, Targets
<1>2. va \in Seq(Nat \ {0}) /\ st.at # "nothing"
  BY CStrIs
<1>3. "string" \in TypeNames /\ "string" \notin Containers /\ "string" \notin {"int", "uint", "real", "boolean"}
      /\ Building.vals["string"] = Seq(Nat \ {0})
  BY BuildingIs DEF TypeNames, Containers
<1>4. String(s) = Leaf(Node("string", va, st))
  BY DEF String
<1> HIDE DEF va, st
<1>5. Sound(Node("string", va, st), Building)
  BY <1>1, <1>2, <1>3, FreshSound
<1> QED BY <1>4, <1>5, LeafIs

\* A message under construction: an object, or nothing yet.
Message(s) == Holder(s, Building) /\ Balance(s) = 0 /\ s.tree[<<>>].type \in {"null", "object"}

\* A new Value.
LEMMA NewIs == ASSUME NEW D, Disc(D) PROVE Holder(New, D) /\ Balance(New) = 0 /\ New.tree = Null /\ New.tree[<<>>].type = "null"
<1>1. Tree(Null, D) /\ Null[<<>>].type = "null" /\ Owned(Null) = 0
  <2>1. /\ Tree(Null, D) /\ Null[<<>>].type = "null" /\ Own(Node("null", <<>>, NoString)) = {}
        /\ Sound(Node("null", <<>>, NoString), D)
    BY NullIs
  <2>2. Owned(Leaf(Node("null", <<>>, NoString))) = Cardinality({})
    BY <2>1, LeafIs
  <2>3. Null = Leaf(Node("null", <<>>, NoString))
    BY DEF Null
  <2> QED BY <2>1, <2>2, <2>3, FS_EmptySet
<1>2. New.tree = Null /\ New.blocks = 0 /\ New = [tree |-> New.tree, blocks |-> New.blocks]
  BY DEF New
<1> QED BY <1>1, <1>2 DEF Holder, Balance

\* A message with one more member.
LEMMA WithIs ==
  ASSUME NEW s, Message(s), NEW name \in 0 .. Len(Names) - 1, NEW v, Tree(v, Building)
  PROVE  Message(With(s, name, v))
<1> DEFINE x == AtName(s, <<>>, name, FALSE)
           y == Assign(x, Append(<<>>, name), v)
<1>1. Holder(s, Building) /\ Balance(s) = 0 /\ s.tree[<<>>].type \in {"null", "object"} /\ <<>> \in DOMAIN s.tree
  BY DEF Message, Holder, Tree
<1>2. Grown(s, x, <<>>, name, "object", Building)
  BY <1>1, BuildingIs, AtNameIs
<1> HIDE DEF x
<1>3. /\ Holder(x, Building) /\ Balance(x) = 0 /\ <<>> \in DOMAIN x.tree /\ x.tree[<<>>].type = "object"
      /\ Append(<<>>, name) \in DOMAIN x.tree
  BY <1>1, <1>2 DEF Grown
<1>4. Holder(y, Building) /\ Balance(y) = 0 /\ Beside(x.tree, y.tree, Append(<<>>, name))
  BY <1>3, AssignIs
<1>5. ~IsPrefix(Append(<<>>, name), <<>>)
  BY DEF IsPrefix
<1>6. y.tree[<<>>] = x.tree[<<>>]
  <2> HIDE DEF y
  <2> QED BY <1>3, <1>4, <1>5 DEF Beside
<1>7. y = With(s, name, v)
  BY DEF With, x
<1> HIDE DEF y
<1>8. Message(y)
  BY <1>3, <1>4, <1>6 DEF Message
<1> QED BY <1>7, <1>8

\* The names and texts of the messages.
LEMMA NamesThere ==
  /\ {Category, DevId, DeviceId, Door, Errno, ErrorNo, Good, Status, Stamp, Version} \subseteq 0 .. Len(Names) - 1
  /\ \A n \in 0 .. 9 : Text(n) \in Seq(Nat)
  /\ \A n \in 0 .. 9 : <<Minus>> \o Text(n) \in Seq(Nat)
<1>1. Len(Names) \in Nat /\ Len(Names) > 10
  BY NamesLen DEF Version
<1>2. {Category, DevId, DeviceId, Door, Errno, ErrorNo, Good, Status, Stamp, Version} \subseteq 0 .. Len(Names) - 1
  BY <1>1 DEF Category, DevId, DeviceId, Door, Errno, ErrorNo, Good, Status, Stamp, Version
<1>3. \A n \in 0 .. 9 : Text(n) \in Seq(Nat) /\ <<Minus>> \in Seq(Nat)
  BY DEF Text, Minus
<1> QED BY <1>2, <1>3

\* A message with one more text.
LEMMA WithTextIs ==
  ASSUME NEW s, Message(s), NEW name \in 0 .. Len(Names) - 1, NEW chars \in Seq(Nat)
  PROVE  Message(WithText(s, name, chars))
BY StringIs, WithIs DEF WithText

\* The messages that the program sends.
LEMMA ReportsAre ==
  ASSUME NEW tree, Tree(tree, Building),
         NEW m \in {CloseType(Text(7)), OpenReport(Text(7), TRUE), OpenReport(Text(7), FALSE), CloseReport(Text(7), tree)}
  PROVE  Message(m)
<1>1. Message(New)
  <2>1. Holder(New, Building) /\ Balance(New) = 0 /\ New.tree[<<>>].type = "null"
    BY BuildingIs, NewIs
  <2> QED BY <2>1 DEF Message
<1>2. Text(7) \in Seq(Nat) /\ Text(4) \in Seq(Nat) /\ Text(0) \in Seq(Nat) /\ <<Minus>> \o Text(1) \in Seq(Nat)
  BY NamesThere
<1>3. /\ DevId \in 0 .. Len(Names) - 1 /\ Category \in 0 .. Len(Names) - 1 /\ DeviceId \in 0 .. Len(Names) - 1
      /\ Status \in 0 .. Len(Names) - 1 /\ Errno \in 0 .. Len(Names) - 1 /\ Good \in 0 .. Len(Names) - 1
  BY NamesThere
<1>4. Message(CloseType(Text(7)))
  <2>1. Message(WithText(New, DevId, Text(7)))
    BY <1>1, <1>2, <1>3, WithTextIs
  <2>2. Message(WithText(WithText(New, DevId, Text(7)), Category, Text(4)))
    BY <2>1, <1>2, <1>3, WithTextIs
  <2> QED BY <2>2 DEF CloseType
<1>5. ASSUME NEW open \in BOOLEAN PROVE Message(OpenReport(Text(7), open))
  <2> DEFINE said == IF open THEN Text(0) ELSE <<Minus>> \o Text(1)
             a == WithText(New, DeviceId, Text(7))
             b == WithText(a, Status, said)
             c == WithText(b, Errno, said)
  <2>1. said \in Seq(Nat)
    BY <1>2
  <2>5. OpenReport(Text(7), open) = c
    BY DEF OpenReport
  <2> HIDE DEF said
  <2>2. Message(a)
    BY <1>1, <1>2, <1>3, WithTextIs
  <2> HIDE DEF a
  <2>3. Message(b)
    BY <2>1, <2>2, <1>3, WithTextIs
  <2> HIDE DEF b
  <2>4. Message(c)
    BY <2>1, <2>3, <1>3, WithTextIs
  <2> QED BY <2>4, <2>5
<1>6. Message(CloseReport(Text(7), tree))
  <2> DEFINE array == AppendValue(New, <<>>, tree)
             a == WithText(New, DevId, Text(7))
  <2>1. Holder(New, Building) /\ New.tree[<<>>].type = "null" /\ <<>> \in DOMAIN New.tree
    BY BuildingIs, NewIs DEF Holder, Tree
  <2>2. Keeps(New, array, Building)
    BY <2>1, BuildingIs, AppendValueIs
  <2>3. Message(a)
    BY <1>1, <1>2, <1>3, WithTextIs
  <2>5. CloseReport(Text(7), tree) = With(a, Good, array.tree)
    BY DEF CloseReport
  <2> HIDE DEF array, a
  <2>4. Tree(array.tree, Building)
    BY <2>2 DEF Keeps, Holder
  <2> QED BY <2>3, <2>4, <2>5, <1>3, WithIs
<1> QED BY <1>4, <1>5, <1>6
-----------------------------------------------------------------------------
(* The program's two Values.                                                   *)
Builds(r, i) == Holder(r, Building) /\ Holder(i, Building) /\ Balance(r) + Balance(i) = 0
BuildInv == Builds(root, item)

\* What keeps root sound and balanced keeps both Values so.
LEMMA KeptBuilds ==
  ASSUME NEW r, NEW i, Builds(r, i), NEW s, Keeps(r, s, Building) PROVE Builds(s, i)
BY DEF Builds, Keeps

\* The same, as a step.
LEMMA RootGoesOn ==
  ASSUME BuildInv, NEW s, Keeps(root, s, Building), root' = s, item' = item
  PROVE  BuildInv'
<1>1. Builds(s, item)
  BY KeptBuilds DEF BuildInv
<1>2. Builds(root', item')
  BY <1>1
<1> QED BY <1>2 DEF BuildInv

\* Nothing is built at first.
LEMMA BuildInit == Init => BuildInv
<1> SUFFICES ASSUME Init PROVE BuildInv
  OBVIOUS
<1>1. root = New /\ item = New
  BY DEF Init
<1>2. Holder(New, Building) /\ Balance(New) = 0
  BY BuildingIs, NewIs
<1> QED BY <1>1, <1>2 DEF BuildInv, Builds

\* Every operation of the program keeps its Values sound.
LEMMA BuildNext ==
  ASSUME BuildInv, [Next]_vars
  PROVE  BuildInv'
<1>0. /\ Holder(root, Building) /\ Holder(item, Building) /\ Disc(Building)
      /\ Tree(root.tree, Building) /\ Tree(item.tree, Building) /\ DOMAIN root.tree \subseteq Place
  BY BuildingIs DEF BuildInv, Builds, Holder, Tree, Forest
<1>1. ASSUME UNCHANGED <<root, item>> PROVE BuildInv'
  BY <1>1 DEF BuildInv
<1>2. CASE SetMember
  <2>1. PICK p \in Places("object"), k \in Members, v \in Leaves, static \in BOOLEAN :
          root' = Assign(AtName(root, p, k, static), Append(p, k), v) /\ item' = item
    BY <1>2 DEF SetMember
  <2>2. p \in DOMAIN root.tree /\ root.tree[p].type \in {"null", "object"}
    BY DEF Places
  <2>3. k \in Building.names /\ Tree(v, Building)
    BY BuildAssumption, BuildingIs, LeafOf
  <2>4. Keeps(root, Assign(AtName(root, p, k, static), Append(p, k), v), Building)
    BY <1>0, <2>2, <2>3, MemberIs
  <2> QED BY <2>1, <2>4, RootGoesOn
<1>3. CASE SetElement
  <2>1. PICK p \in Places("array"), i \in 0 .. MaxIndex, v \in Leaves :
          root' = Assign(AtIndex(root, p, i), Append(p, i), v) /\ item' = item
    BY <1>3 DEF SetElement
  <2>2. p \in DOMAIN root.tree /\ root.tree[p].type \in {"null", "array"} /\ i \in Nat
    BY DEF Places
  <2>3. Tree(v, Building)
    BY BuildAssumption, LeafOf
  <2>4. Keeps(root, Assign(AtIndex(root, p, i), Append(p, i), v), Building)
    BY <1>0, <2>2, <2>3, ElementIs
  <2> QED BY <2>1, <2>4, RootGoesOn
<1>4. CASE AppendItem
  <2>1. PICK p \in Places("array") : root' = AppendValue(root, p, item.tree) /\ item' = item
    BY <1>4 DEF AppendItem
  <2>2. p \in DOMAIN root.tree /\ root.tree[p].type \in {"null", "array"}
    BY DEF Places
  <2>3. Keeps(root, AppendValue(root, p, item.tree), Building)
    BY <1>0, <2>2, AppendValueIs
  <2> QED BY <2>1, <2>3, RootGoesOn
<1>5. CASE AppendPartOfRoot
  <2>1. PICK p \in Places("array"), q \in {<<>>, <<0>>} :
          q \in DOMAIN root.tree /\ root' = AppendPart(root, p, q) /\ item' = item
    BY <1>5 DEF AppendPartOfRoot
  <2>2. p \in DOMAIN root.tree /\ root.tree[p].type \in {"null", "array"}
    BY DEF Places
  <2>3. Keeps(root, AppendPart(root, p, q), Building)
    BY <1>0, <2>1, <2>2, AppendPartIs
  <2> QED BY <2>1, <2>3, RootGoesOn
<1>6. CASE RemoveMember
  <2>1. PICK p \in Places("object"), k \in Members :
          /\ Has(root.tree, p, k)
          /\ item' = Assign(item, <<>>, Sub(root.tree, Append(p, k)))
          /\ root' = Erase(root, Append(p, k))
    BY <1>6 DEF RemoveMember
  <2>2. p \in DOMAIN root.tree /\ p \in Place /\ k \in Int
    BY <1>0, BuildAssumption, NamesLen DEF Places
  <2>3. Append(p, k) \in DOMAIN root.tree /\ Append(p, k) \in Place /\ Append(p, k) # <<>>
    BY <1>0, <2>1, <2>2, KeysAre, AppendPlace DEF Has
  <2>4. Tree(Sub(root.tree, Append(p, k)), Building)
    BY <1>0, <2>3, SubIs
  <2>5. <<>> \in DOMAIN item.tree
    BY <1>0 DEF Tree
  <2> DEFINE v == Sub(root.tree, Append(p, k))
             i == Assign(item, <<>>, v)
             r == Erase(root, Append(p, k))
  <2>6. Keeps(root, r, Building)
    BY <1>0, <2>3, EraseIs
  <2> HIDE DEF v
  <2>7. Holder(i, Building) /\ Balance(i) = Balance(item)
    BY <1>0, <2>4, <2>5, AssignIs DEF v
  <2>8. root' = r /\ item' = i
    BY <2>1 DEF v
  <2> HIDE DEF r, i
  <2>9. Builds(r, i)
    BY <2>6, <2>7 DEF BuildInv, Builds, Keeps
  <2>10. Builds(root', item')
    BY <2>8, <2>9
  <2> QED BY <2>10 DEF BuildInv
<1>7. CASE SwapValues
  <2> DEFINE a == Swapped(root.tree, item.tree)
             b == Swapped(item.tree, root.tree)
             r == [root EXCEPT !.tree = a]
             i == [item EXCEPT !.tree = b]
  <2>1. root' = r /\ item' = i
    BY <1>7 DEF SwapValues
  <2>2. Tree(a, Building) /\ Tree(b, Building) /\ Owned(a) + Owned(b) = Owned(root.tree) + Owned(item.tree)
    BY <1>0, SwappedIs, SwapOwned
  <2> HIDE DEF a, b
  <2>3. /\ r.tree = a /\ r.blocks = root.blocks /\ r = [tree |-> r.tree, blocks |-> r.blocks]
        /\ i.tree = b /\ i.blocks = item.blocks /\ i = [tree |-> i.tree, blocks |-> i.blocks]
    BY <1>0 DEF Holder
  <2> HIDE DEF r, i
  <2>4. /\ Owned(a) \in Nat /\ Owned(b) \in Nat /\ Owned(root.tree) \in Nat /\ Owned(item.tree) \in Nat
        /\ root.blocks \in Int /\ item.blocks \in Int
    BY <1>0, <2>2, OwnFinite DEF Tree, Holder
  <2>5. Balance(root) + Balance(item) = 0
    BY DEF BuildInv, Builds
  <2>6. Balance(r) + Balance(i) = 0
    BY <2>2, <2>3, <2>4, <2>5 DEF Balance
  <2>7. Builds(r, i)
    BY <2>2, <2>3, <2>4, <2>6 DEF Builds, Holder
  <2>8. Builds(root', item')
    BY <2>1, <2>7
  <2> QED BY <2>8 DEF BuildInv
<1>8. CASE ClearValue
  <2>1. PICK p \in Places("array") \cup Places("object") : root' = Clear(root, p) /\ item' = item
    BY <1>8 DEF ClearValue
  <2>2. p \in Place
    BY <1>0 DEF Places
  <2>3. Keeps(root, Clear(root, p), Building)
    BY <1>0, <2>2, ClearIs
  <2> QED BY <2>1, <2>3, RootGoesOn
<1>9. CASE ResizeValue
  <2>1. PICK p \in Places("array"), n \in 0 .. MaxIndex : root' = Resize(root, p, n) /\ item' = item
    BY <1>9 DEF ResizeValue
  <2>2. p \in DOMAIN root.tree /\ root.tree[p].type \in {"null", "array"} /\ n \in Nat
    BY DEF Places
  <2>3. Keeps(root, Resize(root, p, n), Building)
    BY <1>0, <2>2, ResizeIs
  <2> QED BY <2>1, <2>3, RootGoesOn
<1>10. CASE Comment
  <2>1. PICK p \in DOMAIN root.tree, c \in Remarks, placement \in Placements :
          root' = SetComment(root, p, c, placement) /\ item' = item
    BY <1>10 DEF Comment
  <2>2. c \in Seq(Lexeme) /\ c # <<>>
    BY BuildAssumption
  <2>3. Keeps(root, SetComment(root, p, c, placement), Building)
    BY <1>0, <2>2, SetCommentIs
  <2> QED BY <2>1, <2>3, RootGoesOn
<1>11. CASE Report
  <2>1. PICK m \in {CloseType(Text(7)), OpenReport(Text(7), TRUE), OpenReport(Text(7), FALSE),
                    CloseReport(Text(7), item.tree)} :
          root' = [tree |-> m.tree, blocks |-> root.blocks - Released(root.tree) + m.blocks]
    BY <1>11 DEF Report
  <2>2. Message(m)
    BY <1>0, ReportsAre
  <2>3. item' = item
    BY <1>11 DEF Report
  <2> DEFINE s == [tree |-> m.tree, blocks |-> root.blocks - Released(root.tree) + m.blocks]
  <2>4. s.tree = m.tree /\ s.blocks = root.blocks - Released(root.tree) + m.blocks
        /\ s = [tree |-> s.tree, blocks |-> s.blocks] /\ root' = s
    BY <2>1
  <2> HIDE DEF s
  <2>5. Tree(m.tree, Building) /\ m.blocks \in Int /\ m.blocks - Owned(m.tree) = 0
    BY <2>2 DEF Message, Holder, Balance
  <2>6. /\ Released(root.tree) = Owned(root.tree) /\ Owned(root.tree) \in Nat /\ root.blocks \in Int
        /\ Owned(m.tree) \in Nat
    BY <1>0, <2>5, OwnFinite DEF Tree, Holder
  <2>7. Holder(s, Building)
    BY <2>4, <2>5, <2>6 DEF Holder
  <2>8. Balance(s) = Balance(root)
    BY <2>4, <2>5, <2>6 DEF Balance
  <2> QED BY <2>3, <2>4, <2>7, <2>8, RootGoesOn DEF Keeps
<1>12. CASE Misuse
  <2>1. UNCHANGED <<root, item>>
    BY <1>12 DEF Misuse
  <2> QED BY <2>1, <1>1
<1>13. CASE Build
  BY <1>13, <1>12, <1>2, <1>3, <1>4, <1>5, <1>6, <1>7, <1>8, <1>9, <1>10, <1>11 DEF Build
<1>14. CASE Write \/ Arrive \/ TextEnds \/ Parse \/ Overrun \/ Judge \/ Over \/ UNCHANGED vars
  <2>1. UNCHANGED <<root, item>>
    BY <1>14 DEF Write, Arrive, TextEnds, Parse, Overrun, Judge, Over, vars, sessionVars
  <2> QED BY <2>1, <1>1
<1> QED BY <1>13, <1>14 DEF Next
-----------------------------------------------------------------------------
\* What the nodes that are built hold.
LEMMA NumbersThere ==
  ASSUME NEW t, Tree(t, Building), NEW p \in DOMAIN t
  PROVE  /\ t[p].type \in TypeNames
         /\ t[p].type = "int" => t[p].val[1] \in MinInt .. MaxInt
         /\ t[p].type = "uint" => t[p].val[1] \in 0 .. MaxUInt
         /\ t[p].type = "boolean" => t[p].val[1] \in 0 .. 1
         /\ t[p].type = "real" => t[p].val[1] \in Int
<1> DEFINE n == t[p]
<1>1. Sound(n, Building)
  BY DEF Tree, Forest
<1> HIDE DEF n
<1>2. /\ n.type \in TypeNames
      /\ n.type \in {"int", "uint", "real", "boolean"} => n.val \in Seq(Int) /\ Len(n.val) = 1
      /\ n.type \in DOMAIN Building.vals => n.val \in Building.vals[n.type]
  BY <1>1, TypesAre DEF Sound, NodeOK
<1>3. ASSUME n.type = "int" PROVE n.val[1] \in MinInt .. MaxInt
  <2>1. n.val \in {<<i>> : i \in MinInt .. MaxInt}
    BY <1>2, <1>3, BuildingIs
  <2> QED BY <2>1
<1>4. ASSUME n.type = "uint" PROVE n.val[1] \in 0 .. MaxUInt
  <2>1. n.val \in {<<i>> : i \in 0 .. MaxUInt}
    BY <1>2, <1>4, BuildingIs
  <2> QED BY <2>1
<1>5. ASSUME n.type = "boolean" PROVE n.val[1] \in 0 .. 1
  <2>1. n.val \in {<<i>> : i \in 0 .. 1}
    BY <1>2, <1>5, BuildingIs
  <2> QED BY <2>1
<1>6. ASSUME n.type = "real" PROVE n.val[1] \in Int
  BY <1>2, <1>6
<1> QED BY <1>2, <1>3, <1>4, <1>5, <1>6 DEF n

\* isConvertibleTo, type by type.
LEMMA ConvertibleIs ==
  ASSUME NEW t, NEW p \in DOMAIN t, NEW other
  PROVE  /\ t[p].type = "null" => ConvertibleTo(t, p, other)
         /\ t[p].type \in {"int", "uint", "real", "boolean"} =>
              (ConvertibleTo(t, p, other) <=>
                 \/ other = "null" /\ t[p].val[1] = 0
                 \/ other = "int"  /\ (t[p].type \in {"int", "boolean"} \/ t[p].val[1] \in MinInt .. MaxInt)
                 \/ other = "uint" /\ (t[p].type \in {"uint", "boolean"} \/ t[p].val[1] \in 0 .. MaxUInt)
                 \/ other \in {"real", "string", "boolean"})
         /\ t[p].type = "string" =>
              (ConvertibleTo(t, p, other) <=> (other = "string" \/ (other = "null" /\ t[p].val = <<>>)))
<1> DEFINE ty == t[p].type
<1>1. CASE ty = "null"
  <2>1. ty \notin {"int", "uint", "real", "boolean"} /\ ty # "string" /\ ty \notin Containers
    BY <1>1 DEF Containers
  <2> QED BY <1>1, <2>1, Zenon DEF ConvertibleTo
<1>2. CASE ty \in {"int", "uint", "real", "boolean"}
  <2>1. ty # "null" /\ ty # "string" /\ ty \notin Containers
    BY <1>2 DEF Containers
  <2> QED BY <1>2, <2>1, Zenon DEF ConvertibleTo
<1>3. CASE ty = "string"
  <2>1. ty \notin {"int", "uint", "real", "boolean"} /\ ty # "null" /\ ty \notin Containers
    BY <1>3 DEF Containers
  <2> QED BY <1>3, <2>1, Zenon DEF ConvertibleTo
<1> QED BY <1>1, <1>2, <1>3

\* Every conversion, type by type.
LEMMA AnnouncedOf ==
  ASSUME NEW t, Tree(t, Building), NEW p \in DOMAIN t
  PROVE  LET n == t[p]
             Announced(other, x) == x.ok => ConvertibleTo(t, p, other)
         IN  /\ Announced("int", AsInt(n)) /\ Announced("uint", AsUInt(n))
             /\ Announced("real", AsDouble(n)) /\ Announced("string", AsString(n))
             /\ AsInt(n).ok /\ AsUInt(n).ok => AsInt(n) = AsUInt(n)
<1> DEFINE n == t[p]
           Announced(other, x) == x.ok => ConvertibleTo(t, p, other)
           Goal == /\ Announced("int", AsInt(n)) /\ Announced("uint", AsUInt(n))
                   /\ Announced("real", AsDouble(n)) /\ Announced("string", AsString(n))
                   /\ AsInt(n).ok /\ AsUInt(n).ok => AsInt(n) = AsUInt(n)
           x == n.val[1]
<1>1. /\ n.type \in TypeNames
      /\ n.type = "int" => x \in MinInt .. MaxInt
      /\ n.type = "uint" => x \in 0 .. MaxUInt
      /\ n.type = "boolean" => x \in 0 .. 1
      /\ n.type = "real" => x \in Int
  BY NumbersThere
<1>2. MaxUInt \in Nat /\ MaxInt \in Nat /\ MinInt \in Int /\ MinInt <= 0 /\ MaxInt <= MaxUInt /\ MaxUInt >= 31
  BY Ranges
<1>3. ~Throws.ok /\ \A v : Is(v).ok
  BY DEF Throws, Is
<1>4. CASE n.type = "null"
  <2>1. \A other : ConvertibleTo(t, p, other)
    BY <1>4, ConvertibleIs
  <2>2. AsInt(n) = Is(0) /\ AsUInt(n) = Is(0)
    BY <1>4 DEF AsInt, AsUInt
  <2> QED BY <2>1, <2>2
<1>5. CASE n.type = "int"
  <2>1. AsInt(n) = Is(x) /\ AsUInt(n) = (IF x >= 0 THEN Is(x) ELSE Throws) /\ AsString(n) = Throws
    BY <1>5 DEF AsInt, AsUInt, AsString
  <2>2. /\ ConvertibleTo(t, p, "int") /\ ConvertibleTo(t, p, "real")
        /\ (ConvertibleTo(t, p, "uint") <=> x \in 0 .. MaxUInt)
    <3>1. ConvertibleTo(t, p, "int") /\ ConvertibleTo(t, p, "real")
      BY <1>5, ConvertibleIs
    <3>2. ConvertibleTo(t, p, "uint") <=> x \in 0 .. MaxUInt
      BY <1>5, ConvertibleIs
    <3> QED BY <3>1, <3>2
  <2> QED BY <1>1, <1>2, <1>3, <1>5, <2>1, <2>2
<1>6. CASE n.type = "uint"
  <2>1. AsInt(n) = (IF x < MaxInt THEN Is(x) ELSE Throws) /\ AsUInt(n) = Is(x) /\ AsString(n) = Throws
    BY <1>6 DEF AsInt, AsUInt, AsString
  <2>2. /\ ConvertibleTo(t, p, "uint") /\ ConvertibleTo(t, p, "real")
        /\ (ConvertibleTo(t, p, "int") <=> x \in MinInt .. MaxInt)
    <3>1. ConvertibleTo(t, p, "uint") /\ ConvertibleTo(t, p, "real")
      BY <1>6, ConvertibleIs
    <3>2. ConvertibleTo(t, p, "int") <=> x \in MinInt .. MaxInt
      BY <1>6, ConvertibleIs
    <3> QED BY <3>1, <3>2
  <2> QED BY <1>1, <1>2, <1>3, <1>6, <2>1, <2>2
<1>7. CASE n.type = "boolean"
  <2>1. AsInt(n) = Is(x) /\ AsUInt(n) = Is(x)
    BY <1>7 DEF AsInt, AsUInt
  <2>2. /\ ConvertibleTo(t, p, "uint") /\ ConvertibleTo(t, p, "real") /\ ConvertibleTo(t, p, "int")
        /\ ConvertibleTo(t, p, "string")
    BY <1>7, ConvertibleIs
  <2> QED BY <2>1, <2>2
<1>8. CASE n.type = "real"
  <2>1. /\ AsInt(n) = (IF x \in MinInt .. MaxInt THEN Is(x) ELSE Throws)
        /\ AsUInt(n) = (IF x \in 0 .. MaxUInt THEN Is(x) ELSE Throws) /\ AsString(n) = Throws
    BY <1>8 DEF AsInt, AsUInt, AsString
  <2>2. /\ ConvertibleTo(t, p, "real") /\ (ConvertibleTo(t, p, "int") <=> x \in MinInt .. MaxInt)
        /\ (ConvertibleTo(t, p, "uint") <=> x \in 0 .. MaxUInt)
    <3>1. ConvertibleTo(t, p, "real")
      BY <1>8, ConvertibleIs
    <3>2. ConvertibleTo(t, p, "int") <=> x \in MinInt .. MaxInt
      BY <1>8, ConvertibleIs
    <3>3. ConvertibleTo(t, p, "uint") <=> x \in 0 .. MaxUInt
      BY <1>8, ConvertibleIs
    <3> QED BY <3>1, <3>2, <3>3
  <2> QED BY <1>3, <2>1, <2>2
<1>9. CASE n.type = "string"
  <2>1. AsInt(n) = Throws /\ AsUInt(n) = Throws /\ AsDouble(n) = Throws
    BY <1>9 DEF AsInt, AsUInt, AsDouble
  <2>2. ConvertibleTo(t, p, "string")
    BY <1>9, ConvertibleIs
  <2> QED BY <1>3, <2>1, <2>2
<1>10. CASE n.type \in Containers
  <2>1. AsInt(n) = Throws /\ AsUInt(n) = Throws /\ AsDouble(n) = Throws /\ AsString(n) = Throws
    BY <1>10 DEF AsInt, AsUInt, AsDouble, AsString, Containers
  <2> QED BY <1>3, <2>1
<1>11. Goal
  BY <1>1, <1>4, <1>5, <1>6, <1>7, <1>8, <1>9, <1>10 DEF TypeNames, Containers
<1> QED BY <1>11

\* A conversion of what the program has built that is carried out is one that
\* isConvertibleTo announces, and asInt and asUInt agree: the functions of
\* json_value.cpp, at every bound of their types.
THEOREM Announces == Spec => []ConversionsAnnounced
<1>1. BuildInv => ConversionsAnnounced
  <2> SUFFICES ASSUME BuildInv PROVE ConversionsAnnounced
    OBVIOUS
  <2>1. Tree(root.tree, Building)
    BY DEF BuildInv, Builds, Holder
  <2> QED BY <2>1, AnnouncedOf DEF ConversionsAnnounced
<1>2. BuildInv /\ [Next]_vars => BuildInv'
  BY BuildNext
<1> QED BY BuildInit, <1>1, <1>2, PTL DEF Spec
-----------------------------------------------------------------------------
(* Numbers that are read.                                                      *)
\* A value for each number from a to b, made from the one before: g says how.
Chained(a, b, S, z, g) ==
  \E f \in [a .. b -> S] : f[a] = z /\ \A i \in a + 1 .. b : f[i] = g[i, f[i - 1]]

\* A fold over a range of integers has a value.
LEMMA Chain ==
  ASSUME NEW a \in Int, NEW b \in Int, a <= b, NEW S, NEW z \in S, NEW g \in [Int \X S -> S]
  PROVE  Chained(a, b, S, z, g)
<1> DEFINE Fills(n, f) == f[a] = z /\ \A i \in a + 1 .. a + n : f[i] = g[i, f[i - 1]]
           T == {n \in 0 .. b - a : \E f \in [a .. a + n -> S] : Fills(n, f)}
<1>1. b - a \in Nat
  OBVIOUS
<1>2. 0 \in T
  <2> DEFINE f == [i \in a .. a + 0 |-> z]
  <2>1. f \in [a .. a + 0 -> S]
    OBVIOUS
  <2>2. a \in a .. a + 0 /\ \A i \in a + 1 .. a + 0 : FALSE
    OBVIOUS
  <2>3. f[a] = z
    BY <2>2
  <2> HIDE DEF f
  <2>4. Fills(0, f)
    BY <2>2, <2>3
  <2>5. \E k \in [a .. a + 0 -> S] : Fills(0, k)
    BY <2>1, <2>4
  <2> HIDE DEF Fills
  <2> QED BY <2>5, <1>1
<1>3. ASSUME NEW n \in 0 .. b - a - 1, n \in T PROVE n + 1 \in T
  <2>1. PICK f \in [a .. a + n -> S] : Fills(n, f)
    BY <1>3
  <2> DEFINE m == a + n + 1
             h == [i \in a .. m |-> IF i = m THEN g[m, f[a + n]] ELSE f[i]]
  <2>2. n \in Nat /\ m \in Int /\ a + (n + 1) = m /\ a + n \in a .. a + n /\ m > a
    OBVIOUS
  <2>3. g[m, f[a + n]] \in S
    BY <2>2
  <2>4. ASSUME NEW i \in a .. m PROVE h[i] \in S
    <3>1. CASE i = m
      <4>1. h[i] = g[m, f[a + n]]
        BY <3>1
      <4> QED BY <4>1, <2>3
    <3>2. CASE i # m
      <4>1. i \in a .. a + n /\ h[i] = f[i]
        BY <3>2, <2>2
      <4> QED BY <4>1
    <3> QED BY <3>1, <3>2
  <2>5. h \in [a .. m -> S]
    BY <2>4
  <2>6. h[a] = z
    <3>1. f[a] = z
      BY <2>1
    <3>2. a \in a .. m /\ a # m
      <4> HIDE DEF m
      <4> QED BY <2>2
    <3> QED BY <3>1, <3>2
  <2>7. ASSUME NEW i \in a + 1 .. m PROVE h[i] = g[i, h[i - 1]]
    <3>1. CASE i = m
      <4>1. i - 1 = a + n /\ i - 1 \in a .. m /\ i - 1 # m /\ i \in a .. m
        BY <3>1, <2>2
      <4> QED BY <4>1, <3>1
    <3>2. CASE i # m
      <4>1. i \in a + 1 .. a + n /\ i - 1 \in a .. m /\ i - 1 # m /\ i \in a .. m
        BY <3>2, <2>2
      <4>2. f[i] = g[i, f[i - 1]]
        BY <4>1, <2>1
      <4> QED BY <4>1, <4>2, <3>2
    <3> QED BY <3>1, <3>2
  <2>8. \E k \in [a .. a + (n + 1) -> S] : Fills(n + 1, k)
    <3> HIDE DEF h
    <3>1. h \in [a .. a + (n + 1) -> S] /\ Fills(n + 1, h)
      BY <2>2, <2>5, <2>6, <2>7
    <3> QED BY <3>1
  <2>9. n + 1 \in 0 .. b - a
    BY <2>2
  <2> QED BY <2>8, <2>9
<1>4. b - a \in T
  <2> HIDE DEF T
  <2>1. \A n \in 0 .. b - a : n \in T
    BY <1>1, <1>2, <1>3, UpTo
  <2> QED BY <1>1, <2>1
<1>5. a + (b - a) = b
  OBVIOUS
<1> QED BY <1>4, <1>5 DEF Chained

\* A remainder is an integer.
LEMMA ModIs ==
  ASSUME NEW x \in Int PROVE x % 2 ^ Bits \in Int
<1> DEFINE m == 2 ^ Bits
<1>1. m \in Nat /\ m > 0
  BY BitsAssumption
<1> HIDE DEF m
<1>2. x % m \in Int
  BY <1>1
<1> QED BY <1>2 DEF m

\* decodeDouble gives a whole number.
LEMMA DoubleIs ==
  ASSUME NEW s \in Seq(Nat), s # <<>>, DecodeDouble(s).ok
  PROVE  DecodeDouble(s).type = "real" /\ DecodeDouble(s).val \in Int
<1> DEFINE body  == IF s[1] = Minus THEN Tail(s) ELSE s
           end   == SelectInSeq(body \o <<0>>, LAMBDA c : c \notin Digit)
           upTo[i \in 0 .. end - 1] == IF i = 0 THEN 0 ELSE 10 * upTo[i - 1] + body[i] - 48
           whole == upTo[end - 1]
<1>1. body \in Seq(Nat)
  OBVIOUS
<1>2. end \in 1 .. Len(body) + 1
  <2> DEFINE z == body \o <<0>>
             I == {i \in 1 .. Len(z) : z[i] \notin Digit}
  <2> HIDE DEF body
  <2>1. end = IF I # {} THEN Min(I) ELSE 0
    BY DEF SelectInSeq
  <2>2. z \in Seq(Nat) /\ Len(z) = Len(body) + 1 /\ Len(body) \in Nat /\ z[Len(body) + 1] = 0
    BY <1>1
  <2>3. Len(body) + 1 \in I
    BY <2>2 DEF Digit
  <2>4. I \subseteq Nat /\ \A i \in I : i \in 1 .. Len(body) + 1
    BY <2>2
  <2> HIDE DEF I
  <2>5. end \in I
    BY <2>1, <2>3, <2>4, MinIs
  <2> QED BY <2>4, <2>5
<1> HIDE DEF body, end
<1>3. upTo = [i \in 0 .. end - 1 |-> IF i = 0 THEN 0 ELSE 10 * upTo[i - 1] + body[i] - 48]
  <2> DEFINE g == [x \in Int \X Int |-> IF x[1] \in 1 .. Len(body) THEN 10 * x[2] + body[x[1]] - 48 ELSE 0]
  <2>0. Len(body) \in Nat /\ \A i \in 1 .. Len(body) : body[i] \in Nat
    BY <1>1
  <2>1. g \in [Int \X Int -> Int]
    BY <2>0
  <2>2. PICK f \in [0 .. end - 1 -> Int] : f[0] = 0 /\ \A i \in 0 + 1 .. end - 1 : f[i] = g[i, f[i - 1]]
    <3> HIDE DEF g
    <3>1. 0 \in Int /\ end - 1 \in Int /\ 0 <= end - 1
      BY <1>2, <2>0
    <3>2. Chained(0, end - 1, Int, 0, g)
      BY <3>1, <2>1, Chain
    <3> QED BY <3>2 DEF Chained
  <2>3. \A i \in 0 .. end - 1 : f[i] = IF i = 0 THEN 0 ELSE 10 * f[i - 1] + body[i] - 48
    <3> TAKE i \in 0 .. end - 1
    <3>1. CASE i # 0
      <4>1. i \in 0 + 1 .. end - 1 /\ i \in 1 .. Len(body) /\ i - 1 \in 0 .. end - 1 /\ i \in Int
        BY <3>1, <1>2, <2>0
      <4>2. f[i - 1] \in Int
        BY <4>1
      <4>3. g[i, f[i - 1]] = 10 * f[i - 1] + body[i] - 48
        BY <4>1, <4>2
      <4> QED BY <4>1, <4>3, <2>2, <3>1
    <3> QED BY <3>1, <2>2
  <2>4. f = [i \in 0 .. end - 1 |-> IF i = 0 THEN 0 ELSE 10 * f[i - 1] + body[i] - 48]
    BY <2>3
  <2> QED BY <2>4
<1> HIDE DEF upTo
<1>4. whole \in Int
  <2> DEFINE T == {n \in 0 .. end - 1 : upTo[n] \in Int}
  <2>1. 0 \in T
    BY <1>2, <1>3
  <2>2. ASSUME NEW n \in 0 .. end - 1 - 1, n \in T PROVE n + 1 \in T
    <3>1. n + 1 \in 0 .. end - 1 /\ n + 1 # 0 /\ n + 1 - 1 = n /\ n + 1 \in 1 .. Len(body) /\ Len(body) \in Nat
      BY <1>1, <1>2
    <3> DEFINE m == n + 1
    <3>a. m \in 0 .. end - 1 /\ m # 0 /\ m - 1 = n
      BY <3>1
    <3> HIDE DEF m
    <3>b. upTo[m] = 10 * upTo[m - 1] + body[m] - 48
      BY <3>a, <1>3, Zenon
    <3>2. upTo[n + 1] = 10 * upTo[n] + body[n + 1] - 48
      BY <3>a, <3>b DEF m
    <3>3. body[n + 1] \in Int /\ upTo[n] \in Int
      BY <3>1, <1>1, <2>2
    <3> QED BY <3>1, <3>2, <3>3
  <2>3. end - 1 \in Nat
    BY <1>1, <1>2
  <2> HIDE DEF T
  <2>4. \A n \in 0 .. end - 1 : n \in T
    BY <2>1, <2>2, <2>3, UpTo
  <2>5. end - 1 \in T
    BY <2>3, <2>4
  <2> QED BY <2>5 DEF T
<1> HIDE DEF whole
<1>5. DecodeDouble(s) = IF end > 1 \/ (Len(body) > 1 /\ body[1] = Dot /\ body[2] \in Digit)
                        THEN [ok |-> TRUE, type |-> "real", val |-> IF s[1] = Minus THEN -whole ELSE whole]
                        ELSE Bad
  BY DEF DecodeDouble, body, end, upTo, whole
<1>6. ~Bad.ok
  BY DEF Bad
<1>7. DecodeDouble(s) = [ok |-> TRUE, type |-> "real", val |-> IF s[1] = Minus THEN -whole ELSE whole]
  BY <1>5, <1>6
<1>8. DecodeDouble(s).type = "real" /\ DecodeDouble(s).val = IF s[1] = Minus THEN -whole ELSE whole
  BY <1>7
<1> QED BY <1>4, <1>8
-----------------------------------------------------------------------------
\* What each number makes of the one before stays in a set.
LEMMA Climbs ==
  ASSUME NEW a \in Int, NEW b \in Int, a <= b, NEW S, NEW f, f[a] \in S,
         \A i \in a + 1 .. b : f[i - 1] \in S => f[i] \in S
  PROVE  \A i \in a .. b : f[i] \in S
<1> DEFINE T == {n \in 0 .. b - a : f[a + n] \in S}
<1>1. 0 \in T /\ b - a \in Nat
  <2>1. a + 0 = a
    OBVIOUS
  <2> QED BY <2>1
<1>2. ASSUME NEW n \in 0 .. b - a - 1, n \in T PROVE n + 1 \in T
  <2>1. a + n + 1 \in a + 1 .. b /\ a + n + 1 - 1 = a + n /\ a + (n + 1) = a + n + 1 /\ n + 1 \in 0 .. b - a
    OBVIOUS
  <2>2. f[a + n] \in S
    BY <1>2
  <2>3. f[a + n + 1 - 1] \in S
    BY <2>1, <2>2
  <2>4. f[a + n + 1] \in S
    BY <2>1, <2>3
  <2> QED BY <2>1, <2>4
<1>3. \A n \in 0 .. b - a : n \in T
  <2> HIDE DEF T
  <2> QED BY <1>1, <1>2, UpTo
<1>4. ASSUME NEW i \in a .. b PROVE f[i] \in S
  <2>1. i - a \in 0 .. b - a /\ a + (i - a) = i
    OBVIOUS
  <2>2. f[a + (i - a)] \in S
    BY <1>3, <2>1
  <2> QED BY <2>1, <2>2
<1> QED BY <1>4

\* decodeNumber gives a whole number, with one of the types of numbers.
LEMMA NumberIs ==
  ASSUME NEW s \in Seq(Nat), s # <<>>, DecodeNumber(s).ok
  PROVE  DecodeNumber(s).type \in Numbers /\ DecodeNumber(s).val \in Int
<1> DEFINE negative  == s[1] = Minus
           isDouble  == \E i \in DOMAIN s : s[i] \in {Dot, 101, 69, 43} \/ (s[i] = Minus /\ i > 1)
           threshold == (IF negative THEN -MinInt ELSE MaxUInt) \div 10
           first     == IF negative THEN 1 ELSE 0
           upTo[i \in first .. Len(s)] ==
             CASE i = first -> 0
               [] i > first /\ (upTo[i - 1] = -1 \/ upTo[i - 1] >= threshold) -> -1
               [] OTHER -> (upTo[i - 1] * 10 + s[i] - 48) % 2 ^ Bits
           number    == upTo[Len(s)]
<1>1. first \in Int /\ Len(s) \in Nat /\ first <= Len(s) /\ first >= 0
  OBVIOUS
<1> HIDE DEF negative, isDouble, threshold, first
<1>3. upTo = [i \in first .. Len(s) |->
                CASE i = first -> 0
                  [] i > first /\ (upTo[i - 1] = -1 \/ upTo[i - 1] >= threshold) -> -1
                  [] OTHER -> (upTo[i - 1] * 10 + s[i] - 48) % 2 ^ Bits]
  <2> DEFINE Step(i, x) == IF x = -1 \/ x >= threshold THEN -1 ELSE (x * 10 + s[i] - 48) % 2 ^ Bits
             g == [x \in Int \X Int |-> IF x[1] \in 1 .. Len(s) THEN Step(x[1], x[2]) ELSE 0]
  <2>1. ASSUME NEW i \in 1 .. Len(s), NEW x \in Int PROVE Step(i, x) \in Int
    <3>1. x * 10 + s[i] - 48 \in Int
      OBVIOUS
    <3> QED BY <3>1, ModIs
  <2> HIDE DEF Step
  <2>2. g \in [Int \X Int -> Int]
    BY <2>1
  <2>a. \A i \in 1 .. Len(s) : \A x \in Int : g[i, x] = Step(i, x)
    <3> TAKE i \in 1 .. Len(s)
    <3> TAKE x \in Int
    <3>1. i \in Int
      BY <1>1
    <3> QED BY <3>1
  <2> HIDE DEF g
  <2>3. PICK f \in [first .. Len(s) -> Int] : f[first] = 0 /\ \A i \in first + 1 .. Len(s) : f[i] = g[i, f[i - 1]]
    <3>1. Len(s) \in Int /\ 0 \in Int
      BY <1>1
    <3>2. Chained(first, Len(s), Int, 0, g)
      BY <1>1, <3>1, <2>2, Chain
    <3> QED BY <3>2 DEF Chained
  <2>4. ASSUME NEW i \in first .. Len(s)
        PROVE  f[i] = CASE i = first -> 0
                        [] i > first /\ (f[i - 1] = -1 \/ f[i - 1] >= threshold) -> -1
                        [] OTHER -> (f[i - 1] * 10 + s[i] - 48) % 2 ^ Bits
    <3>1. CASE i # first
      <4>1. i \in first + 1 .. Len(s) /\ i \in 1 .. Len(s) /\ i - 1 \in first .. Len(s) /\ i > first /\ i \in Int
        BY <3>1, <1>1
      <4>2. f[i - 1] \in Int
        BY <4>1
      <4>3. f[i] = Step(i, f[i - 1])
        BY <4>1, <4>2, <2>3, <2>a
      <4>4. CASE f[i - 1] = -1 \/ f[i - 1] >= threshold
        <5>1. f[i] = -1
          BY <4>3, <4>4, Zenon DEF Step
        <5> QED BY <4>1, <4>4, <5>1, <3>1, Zenon
      <4>5. CASE ~(f[i - 1] = -1 \/ f[i - 1] >= threshold)
        <5>1. f[i] = (f[i - 1] * 10 + s[i] - 48) % 2 ^ Bits
          BY <4>3, <4>5, Zenon DEF Step
        <5> QED BY <4>5, <5>1, <3>1, Zenon
      <4> QED BY <4>4, <4>5
    <3>2. CASE i = first
      <4>1. ~(i > first)
        BY <3>2, <1>1
      <4> QED BY <3>2, <4>1, <2>3, Zenon
    <3> QED BY <3>1, <3>2
  <2>5. f = [i \in first .. Len(s) |->
                CASE i = first -> 0
                  [] i > first /\ (f[i - 1] = -1 \/ f[i - 1] >= threshold) -> -1
                  [] OTHER -> (f[i - 1] * 10 + s[i] - 48) % 2 ^ Bits]
    <3> DEFINE G == [i \in first .. Len(s) |->
                CASE i = first -> 0
                  [] i > first /\ (f[i - 1] = -1 \/ f[i - 1] >= threshold) -> -1
                  [] OTHER -> (f[i - 1] * 10 + s[i] - 48) % 2 ^ Bits]
    <3>1. \A i \in first .. Len(s) : f[i] = G[i]
      BY <2>4, Zenon
    <3>2. DOMAIN G = first .. Len(s) /\ DOMAIN f = first .. Len(s)
      OBVIOUS
    <3>3. f = [i \in first .. Len(s) |-> f[i]] /\ G = [i \in first .. Len(s) |-> G[i]]
      OBVIOUS
    <3> HIDE DEF G
    <3>4. f = G
      BY <3>1, <3>2, <3>3
    <3> QED BY <3>4 DEF G
  <2> QED BY <2>5
<1> HIDE DEF upTo
<1>4. number \in Int
  <2>1. upTo[first] \in Int
    <3>1. first \in first .. Len(s)
      BY <1>1
    <3> QED BY <3>1, <1>3
  <2>2. ASSUME NEW i \in first + 1 .. Len(s), upTo[i - 1] \in Int PROVE upTo[i] \in Int
    <3>1. i \in first .. Len(s) /\ i # first /\ i \in 1 .. Len(s)
      BY <1>1
    <3>2. upTo[i - 1] * 10 + s[i] - 48 \in Int
      BY <3>1, <2>2
    <3>3. (upTo[i - 1] * 10 + s[i] - 48) % 2 ^ Bits \in Int
      BY <3>2, ModIs
    <3>4. upTo[i] = CASE i = first -> 0
                      [] i > first /\ (upTo[i - 1] = -1 \/ upTo[i - 1] >= threshold) -> -1
                      [] OTHER -> (upTo[i - 1] * 10 + s[i] - 48) % 2 ^ Bits
      BY <3>1, <1>3, Zenon
    <3>5. upTo[i] = -1 \/ upTo[i] = (upTo[i - 1] * 10 + s[i] - 48) % 2 ^ Bits
      BY <3>1, <3>4, Zenon
    <3>6. -1 \in Int
      OBVIOUS
    <3> QED BY <3>3, <3>5, <3>6
  <2>3. Len(s) \in first .. Len(s) /\ Len(s) \in Int
    BY <1>1
  <2>4. \A i \in first .. Len(s) : upTo[i] \in Int
    BY <1>1, <2>1, <2>2, <2>3, Climbs
  <2> QED BY <2>3, <2>4
<1> HIDE DEF number
<1>5. DecodeNumber(s) = IF isDouble \/ number = -1 THEN DecodeDouble(s)
                        ELSE [ok   |-> TRUE,
                              type |-> IF negative \/ number <= MaxInt THEN "int" ELSE "uint",
                              val  |-> IF negative THEN -number ELSE number]
  BY DEF DecodeNumber, negative, isDouble, threshold, first, upTo, number
<1>6. CASE isDouble \/ number = -1
  <2>1. DecodeNumber(s) = DecodeDouble(s)
    BY <1>5, <1>6
  <2> QED BY <2>1, DoubleIs DEF Numbers
<1>7. CASE ~(isDouble \/ number = -1)
  <2>1. DecodeNumber(s) = [ok   |-> TRUE,
                           type |-> IF negative \/ number <= MaxInt THEN "int" ELSE "uint",
                           val  |-> IF negative THEN -number ELSE number]
    BY <1>5, <1>7
  <2>2. DecodeNumber(s).type \in {"int", "uint"} /\ DecodeNumber(s).val \in {-number, number}
    BY <2>1
  <2> QED BY <2>2, <1>4 DEF Numbers
<1> QED BY <1>6, <1>7
-----------------------------------------------------------------------------
(* The Value that the reader builds: any text and any name may be in it.       *)
Reading == [vals |-> [t \in {} |-> {}], names |-> Int]

\* The discipline of what is read.
LEMMA ReadingIs == Disc(Reading) /\ DOMAIN Reading.vals = {} /\ Reading.names = Int
BY DEF Disc, Reading

\* A scalar that was read is a tree.
LEMMA SimpleIs ==
  ASSUME NEW type \in TypeNames \ (Containers \cup {"null"}), NEW val, NEW str, StrSound(str),
         type = "string" => str.at # "nothing",
         type \in Numbers \cup {"boolean"} => val \in Seq(Int) /\ Len(val) = 1
  PROVE  Tree(Leaf(Node(type, val, str)), Reading)
<1>1. Sound(Node(type, val, str), Reading)
  BY ReadingIs, FreshSound DEF Numbers
<1> QED BY <1>1, LeafIs

\* So is a number.
LEMMA NumberTree ==
  ASSUME NEW type \in Numbers \cup {"boolean"}, NEW n \in Int
  PROVE  Tree(Number(type, n), Reading)
<1>1. <<n>> \in Seq(Int) /\ Len(<<n>>) = 1
  OBVIOUS
<1>2. type \in TypeNames \ (Containers \cup {"null"}) /\ type # "string"
  BY DEF Numbers, TypeNames, Containers
<1> QED BY <1>1, <1>2, NoStringSound, SimpleIs DEF Number

\* What a scalar is decoded to is a Value.
LEMMA DecodedIs ==
  ASSUME NEW l \in Lexeme, l.tok \in {"number", "string", "true", "false", "null"}, Decoded(l.tok, l.chars).ok
  PROVE  Tree(Decoded(l.tok, l.chars).v, Reading)
<1>0. ~Bad.ok
  BY DEF Bad
<1>1. CASE l.tok = "number"
  <2> DEFINE d == DecodeNumber(l.chars)
  <2>1. l.chars \in Seq(Nat) /\ l.chars # <<>>
    BY <1>1 DEF Lexeme
  <2>2. Decoded(l.tok, l.chars) = IF d.ok THEN [ok |-> TRUE, v |-> Number(d.type, d.val)] ELSE Bad
    BY <1>1 DEF Decoded
  <2>3. d.type \in Numbers /\ d.val \in Int /\ d.ok
    BY <1>0, <2>1, <2>2, NumberIs
  <2> HIDE DEF d
  <2>4. Tree(Number(d.type, d.val), Reading)
    BY <2>3, NumberTree
  <2>5. Decoded(l.tok, l.chars).v = Number(d.type, d.val)
    BY <2>2, <2>3
  <2> QED BY <2>4, <2>5
<1>2. CASE l.tok = "string"
  <2> DEFINE d == DecodeString(l.chars)
  <2>1. Decoded(l.tok, l.chars) = IF d.ok THEN [ok |-> TRUE, v |-> String(d.chars)] ELSE Bad
    BY <1>2 DEF Decoded
  <2>2. d.ok
    BY <1>0, <2>1
  <2> HIDE DEF d
  <2>3. Decoded(l.tok, l.chars).v = String(d.chars)
    BY <2>1, <2>2
  <2>4. StrSound([at |-> "own", allocated |-> TRUE]) /\ "string" \in TypeNames \ (Containers \cup {"null"})
        /\ "string" \notin Numbers \cup {"boolean"}
    BY DEF StrSound, Targets, TypeNames, Containers, Numbers
  <2>5. Tree(String(d.chars), Reading)
    BY <2>4, SimpleIs DEF String
  <2> QED BY <2>3, <2>5
<1>3. CASE l.tok \in {"true", "false"}
  <2>1. Decoded(l.tok, l.chars).v \in {Number("boolean", 1), Number("boolean", 0)}
    BY <1>3 DEF Decoded
  <2>2. Tree(Number("boolean", 1), Reading) /\ Tree(Number("boolean", 0), Reading)
    BY NumberTree
  <2> QED BY <2>1, <2>2
<1>4. CASE l.tok = "null"
  <2>1. Decoded(l.tok, l.chars).v = Null
    BY <1>4 DEF Decoded
  <2> QED BY <2>1, ReadingIs, NullIs
<1> QED BY <1>1, <1>2, <1>3, <1>4
-----------------------------------------------------------------------------
(* The reader's state. *)
NodesAt(t, ns, cs) ==
  /\ ns \in Seq(Place)
  /\ \A i \in 1 .. Len(ns) : ns[i] \in DOMAIN t /\ Len(ns[i]) = i - 1
  /\ \A i \in 2 .. Len(ns) : Front(ns[i]) = ns[i - 1]
  /\ \A i \in 1 .. Len(cs) : i <= Len(ns) /\ t[ns[i]].type = cs[i].in

Unread(at) == IF at = "value" THEN 1 ELSE 0

LastAt(t, ls, n, on) ==
  /\ ls = [set |-> ls.set, place |-> ls.place, newLine |-> ls.newLine]
  /\ ls.set => on /\ ls.place \in DOMAIN t /\ Len(ls.place) <= n

TreeIs(v, b, ns, cs, ls, at, on) ==
  /\ Holder(v, Reading) /\ Balance(v) = 0
  /\ b \in Seq(Lexeme)
  /\ NodesAt(v.tree, ns, cs)
  /\ Len(ns) = Len(cs) + (IF at = "value" \/ cs = <<>> THEN 1 ELSE 0)
  /\ LastAt(v.tree, ls, Len(ns) - Unread(at), on)

TreeInv == TreeIs(value, before, nodes, calls, last, pc, Collects)

\* The places in the tree t, up to the one at p, are in u too, and but for that
\* one with their types.
Survives(t, u, p) ==
  \A q \in DOMAIN t : Len(q) <= Len(p) => q \in DOMAIN u /\ (q # p => u[q].type = t[q].type)
Stay(t, u) == \A q \in DOMAIN t : q \in DOMAIN u /\ u[q].type = t[q].type

\* Where no node is removed, all survive.
LEMMA StaySurvives == ASSUME NEW t, NEW u, Stay(t, u), NEW p PROVE Survives(t, u, p)
BY DEF Stay, Survives

\* The Value under construction is in the tree.
LEMMA HereIs ==
  ASSUME TreeInv, ControlOK
  PROVE  /\ nodes # <<>> => Here \in DOMAIN value.tree /\ Here \in Place /\ Len(Here) = Len(nodes) - 1
         /\ Len(nodes) \in Nat /\ Len(calls) \in Nat /\ DOMAIN value.tree \subseteq Place
         /\ (calls # <<>> \/ pc = "value") => nodes # <<>>
<1>1. nodes \in Seq(Place) /\ Len(nodes) \in Nat /\ calls \in Seq(Frame) /\ Len(calls) \in Nat
  BY DEF TreeInv, TreeIs, NodesAt, ControlOK
<1>2. DOMAIN value.tree \subseteq Place
  BY DEF TreeInv, TreeIs, Holder, Tree, Forest
<1>3. nodes # <<>> => Len(nodes) \in 1 .. Len(nodes)
  BY <1>1
<1>4. nodes # <<>> => Here \in DOMAIN value.tree /\ Len(Here) = Len(nodes) - 1
  BY <1>3 DEF TreeInv, TreeIs, NodesAt, Here
<1>5. (calls # <<>> \/ pc = "value") => Len(nodes) # 0
  <2>1. calls # <<>> => Len(calls) # 0
    BY <1>1
  <2> QED BY <1>1, <2>1 DEF TreeInv, TreeIs
<1>6. (calls # <<>> \/ pc = "value") => nodes # <<>>
  BY <1>1, <1>5
<1> QED BY <1>1, <1>2, <1>4, <1>6

\* readValue puts the comments collected to the value.
LEMMA CommentedIs ==
  ASSUME TreeInv, ControlOK, nodes # <<>>
  PROVE  /\ Keeps(value, Commented, Reading) /\ Stay(value.tree, Commented.tree)
         /\ DOMAIN Commented.tree = DOMAIN value.tree
<1>1. Here \in DOMAIN value.tree
  BY HereIs
<1>2. CASE Collects /\ before # <<>>
  <2>1. Commented = SetComment(value, Here, before, "before")
    BY <1>2 DEF Commented
  <2>2. "before" \in Placements /\ Holder(value, Reading) /\ before \in Seq(Lexeme)
    BY DEF Placements, TreeInv, TreeIs
  <2>3. /\ Keeps(value, SetComment(value, Here, before, "before"), Reading)
        /\ DOMAIN SetComment(value, Here, before, "before").tree = DOMAIN value.tree
        /\ \A q \in DOMAIN value.tree : SetComment(value, Here, before, "before").tree[q].type = value.tree[q].type
    BY <1>1, <1>2, <2>2, SetCommentIs
  <2> HIDE DEF Here
  <2> QED BY <2>1, <2>3 DEF Stay
<1>3. CASE ~(Collects /\ before # <<>>)
  <2>1. Commented = value
    BY <1>3 DEF Commented
  <2> QED BY <2>1 DEF Keeps, Stay, TreeInv, TreeIs
<1> QED BY <1>2, <1>3

\* ... and puts a new one in its place.
LEMMA ReplacedIs ==
  ASSUME TreeInv, ControlOK, nodes # <<>>, NEW v, Tree(v, Reading)
  PROVE  LET x == Assign(Commented, Here, v)
         IN  /\ Keeps(value, x, Reading)
             /\ Survives(value.tree, x.tree, Here)
             /\ Here \in DOMAIN x.tree /\ x.tree[Here].type = v[<<>>].type
<1> DEFINE c == Commented
           x == Assign(c, Here, v)
<1>1. Keeps(value, c, Reading) /\ Stay(value.tree, c.tree) /\ DOMAIN c.tree = DOMAIN value.tree
  BY CommentedIs
<1>2. Here \in DOMAIN value.tree /\ Here \in Place /\ DOMAIN value.tree \subseteq Place
  BY HereIs
<1> HIDE DEF c
<1>3. Holder(c, Reading) /\ Here \in DOMAIN c.tree
  BY <1>1, <1>2 DEF Keeps
<1>4. /\ Holder(x, Reading) /\ Balance(x) = Balance(c)
      /\ Here \in DOMAIN x.tree /\ x.tree[Here].type = v[<<>>].type
      /\ Beside(c.tree, x.tree, Here)
  BY <1>3, AssignIs
<1> HIDE DEF x
<1>5. Keeps(value, x, Reading)
  BY <1>1, <1>4 DEF Keeps
<1>6. ASSUME NEW q \in DOMAIN value.tree, Len(q) <= Len(Here)
      PROVE  q \in DOMAIN x.tree /\ (q # Here => x.tree[q].type = value.tree[q].type)
  <2>1. q \in DOMAIN c.tree /\ c.tree[q].type = value.tree[q].type /\ q \in Place
    BY <1>1, <1>2 DEF Stay
  <2>2. CASE IsPrefix(Here, q)
    <3>1. Len(Here) <= Len(q) /\ Len(Here) \in Nat /\ Len(q) \in Nat
      BY <1>2, <2>1, <2>2, PrefixSuffix, PlaceLen
    <3>2. Len(Here) = Len(q)
      BY <1>6, <3>1
    <3>3. Here = q
      BY <1>2, <2>1, <2>2, <3>2, PrefixOrder
    <3> QED BY <1>4, <3>3
  <2>3. CASE ~IsPrefix(Here, q)
    <3>1. q \in DOMAIN x.tree /\ x.tree[q] = c.tree[q]
      BY <1>4, <2>1, <2>3 DEF Beside
    <3> QED BY <2>1, <3>1
  <2> QED BY <2>2, <2>3
<1>7. Survives(value.tree, x.tree, Here)
  BY <1>6 DEF Survives
<1> QED BY <1>4, <1>5, <1>7 DEF c, x
-----------------------------------------------------------------------------
\* The Values under construction, in a tree that they survive in.
LEMMA NodesStay ==
  ASSUME NEW t, NEW u, Stay(t, u), NEW ns, NEW cs, NodesAt(t, ns, cs)
  PROVE  NodesAt(u, ns, cs)
<1>1. \A i \in 1 .. Len(ns) : ns[i] \in DOMAIN t
  BY DEF NodesAt
<1>2. \A i \in 1 .. Len(ns) : ns[i] \in DOMAIN u /\ u[ns[i]].type = t[ns[i]].type
  BY <1>1 DEF Stay
<1>3. ASSUME NEW i \in 1 .. Len(cs) PROVE i <= Len(ns) /\ u[ns[i]].type = cs[i].in
  <2>1. i <= Len(ns) /\ t[ns[i]].type = cs[i].in /\ ns \in Seq(Place)
    BY DEF NodesAt
  <2>2. i \in 1 .. Len(ns)
    BY <2>1
  <2> QED BY <1>2, <2>1, <2>2
<1> QED BY <1>2, <1>3 DEF NodesAt

\* The Value of the next comment stays.
LEMMA LastStays ==
  ASSUME NEW t, NEW u, Stay(t, u), NEW ls, NEW n, NEW on, LastAt(t, ls, n, on)
  PROVE  LastAt(u, ls, n, on)
BY DEF LastAt, Stay

\* The outer Values survive what is assigned to the innermost.
LEMMA NodesSurvive ==
  ASSUME NEW t, NEW u, NEW ns, ns # <<>>, Survives(t, u, ns[Len(ns)]), ns[Len(ns)] \in DOMAIN u,
         NEW cs, NodesAt(t, ns, cs), Len(cs) \in Nat, Len(cs) < Len(ns)
  PROVE  NodesAt(u, ns, cs)
<1> DEFINE p == ns[Len(ns)]
<1>0. ns \in Seq(Place) /\ Len(ns) \in Nat /\ Len(ns) > 0 /\ Len(ns) \in 1 .. Len(ns)
  BY DEF NodesAt
<1>1. \A i \in 1 .. Len(ns) : ns[i] \in DOMAIN t /\ Len(ns[i]) = i - 1
  BY DEF NodesAt
<1>2. Len(p) = Len(ns) - 1 /\ p \in DOMAIN u /\ Survives(t, u, p)
  BY <1>0, <1>1
<1> HIDE DEF p
<1>3. ASSUME NEW i \in 1 .. Len(ns) PROVE ns[i] \in DOMAIN u /\ (i # Len(ns) => u[ns[i]].type = t[ns[i]].type)
  <2>1. ns[i] \in DOMAIN t /\ Len(ns[i]) = i - 1 /\ Len(ns[i]) <= Len(p)
    BY <1>0, <1>1, <1>2
  <2>2. i # Len(ns) => ns[i] # p
    BY <1>0, <1>2, <2>1
  <2> QED BY <1>2, <2>1, <2>2 DEF Survives
<1>4. ASSUME NEW i \in 1 .. Len(cs) PROVE i <= Len(ns) /\ u[ns[i]].type = cs[i].in
  <2>1. i \in 1 .. Len(ns) /\ i # Len(ns) /\ i <= Len(ns)
    BY <1>0
  <2>2. t[ns[i]].type = cs[i].in
    BY DEF NodesAt
  <2> QED BY <1>3, <2>1, <2>2
<1>5. \A i \in 1 .. Len(ns) : ns[i] \in DOMAIN u
  BY <1>3
<1> QED BY <1>4, <1>5 DEF NodesAt

\* The Value of the next comment survives it.
LEMMA LastSurvives ==
  ASSUME NEW t, NEW u, NEW p, Survives(t, u, p), NEW ls, NEW on, LastAt(t, ls, Len(p), on)
  PROVE  LastAt(u, ls, Len(p), on)
BY DEF LastAt, Survives

\* The outer Values by themselves.
LEMMA NodesFewer ==
  ASSUME NEW t, NEW ns, ns # <<>>, NEW cs, NodesAt(t, ns, cs), Len(cs) \in Nat, Len(cs) < Len(ns)
  PROVE  NodesAt(t, Front(ns), cs) /\ Len(Front(ns)) = Len(ns) - 1
<1>1. ns \in Seq(Place) /\ Len(ns) \in Nat
  BY DEF NodesAt
<1>2. /\ Front(ns) \in Seq(Place) /\ Len(Front(ns)) = Len(ns) - 1
      /\ \A i \in 1 .. Len(ns) - 1 : Front(ns)[i] = ns[i]
  BY <1>1, FrontOf
<1> DEFINE fs == Front(ns)
<1>3. fs \in Seq(Place) /\ Len(fs) = Len(ns) - 1 /\ \A i \in 1 .. Len(fs) : fs[i] = ns[i] /\ i \in 1 .. Len(ns)
  BY <1>1, <1>2
<1> HIDE DEF fs
<1>4. \A i \in 1 .. Len(fs) : fs[i] \in DOMAIN t /\ Len(fs[i]) = i - 1
  BY <1>3 DEF NodesAt
<1>5. ASSUME NEW i \in 2 .. Len(fs) PROVE Front(fs[i]) = fs[i - 1]
  <2>1. i \in 1 .. Len(fs) /\ i - 1 \in 1 .. Len(fs) /\ i \in 2 .. Len(ns)
    BY <1>1, <1>3
  <2>2. Front(ns[i]) = ns[i - 1]
    BY <2>1 DEF NodesAt
  <2> QED BY <1>3, <2>1, <2>2
<1>6. ASSUME NEW i \in 1 .. Len(cs) PROVE i <= Len(fs) /\ t[fs[i]].type = cs[i].in
  <2>1. i \in 1 .. Len(fs) /\ i <= Len(fs)
    BY <1>1, <1>3
  <2>2. t[ns[i]].type = cs[i].in
    BY DEF NodesAt
  <2> QED BY <1>3, <2>1, <2>2
<1>7. NodesAt(t, fs, cs)
  BY <1>3, <1>4, <1>5, <1>6 DEF NodesAt
<1> QED BY <1>3, <1>7 DEF fs

\* One more Value under construction.
LEMMA NodesMore ==
  ASSUME NEW t, NEW ns, ns # <<>>, NEW cs, NodesAt(t, ns, cs), NEW k \in Int, Append(ns[Len(ns)], k) \in DOMAIN t
  PROVE  LET ms == Append(ns, Append(ns[Len(ns)], k)) IN NodesAt(t, ms, cs) /\ Len(ms) = Len(ns) + 1
<1> DEFINE p  == ns[Len(ns)]
           q  == Append(p, k)
           ms == Append(ns, q)
<1>1. ns \in Seq(Place) /\ Len(ns) \in Nat /\ Len(ns) \in 1 .. Len(ns)
  BY DEF NodesAt
<1>2. p \in Place /\ Len(p) = Len(ns) - 1
  BY <1>1 DEF NodesAt
<1>3. q \in Place /\ Len(q) = Len(ns) /\ Front(q) = p /\ q \in DOMAIN t
  <2>1. q \in Place /\ Len(q) = Len(p) + 1 /\ Front(q) = p
    <3> HIDE DEF p
    <3> QED BY <1>2, AppendPlace
  <2> QED BY <1>1, <1>2, <2>1
<1> HIDE DEF q
<1>4. /\ ms \in Seq(Place) /\ Len(ms) = Len(ns) + 1 /\ \A i \in 1 .. Len(ns) : ms[i] = ns[i]
      /\ ms[Len(ms)] = q
  BY <1>1, <1>3, AppendOf
<1> HIDE DEF ms
<1>5. ASSUME NEW i \in 1 .. Len(ms) PROVE ms[i] \in DOMAIN t /\ Len(ms[i]) = i - 1
  <2>1. CASE i = Len(ms)
    BY <1>1, <1>3, <1>4, <2>1
  <2>2. CASE i # Len(ms)
    <3>1. i \in 1 .. Len(ns)
      BY <1>1, <1>4, <2>2
    <3> QED BY <1>4, <3>1 DEF NodesAt
  <2> QED BY <2>1, <2>2
<1>6. ASSUME NEW i \in 2 .. Len(ms) PROVE Front(ms[i]) = ms[i - 1]
  <2>1. CASE i = Len(ms)
    <3>1. i - 1 = Len(ns)
      BY <1>1, <1>4, <2>1
    <3> QED BY <1>1, <1>3, <1>4, <2>1, <3>1
  <2>2. CASE i # Len(ms)
    <3>1. i \in 2 .. Len(ns) /\ i \in 1 .. Len(ns) /\ i - 1 \in 1 .. Len(ns)
      BY <1>1, <1>4, <2>2
    <3>2. Front(ns[i]) = ns[i - 1]
      BY <3>1 DEF NodesAt
    <3> QED BY <1>4, <3>1, <3>2
  <2> QED BY <2>1, <2>2
<1>7. ASSUME NEW i \in 1 .. Len(cs) PROVE i <= Len(ms) /\ t[ms[i]].type = cs[i].in
  <2>1. i <= Len(ns) /\ t[ns[i]].type = cs[i].in
    BY DEF NodesAt
  <2>2. i \in 1 .. Len(ns) /\ i <= Len(ms)
    BY <1>1, <1>4, <2>1
  <2> QED BY <1>4, <2>1, <2>2
<1>8. NodesAt(t, ms, cs)
  BY <1>4, <1>5, <1>6, <1>7 DEF NodesAt
<1> QED BY <1>4, <1>8 DEF ms, q

\* Only what a frame is of matters to the tree.
LEMMA NodesFrames ==
  ASSUME NEW t, NEW ns, NEW cs, NodesAt(t, ns, cs), NEW ds, Len(ds) = Len(cs),
         \A i \in 1 .. Len(cs) : ds[i].in = cs[i].in
  PROVE  NodesAt(t, ns, ds)
BY DEF NodesAt

\* The Values when an activation has returned.
LEMMA NodesOuter ==
  ASSUME NEW t, NEW ns, NEW cs \in Seq(Frame), cs # <<>>, NodesAt(t, ns, cs)
  PROVE  NodesAt(t, ns, Front(cs)) /\ Len(Front(cs)) = Len(cs) - 1 /\ Front(cs) \in Seq(Frame)
<1>1. /\ Len(cs) \in Nat /\ Front(cs) \in Seq(Frame) /\ Len(Front(cs)) = Len(cs) - 1
      /\ \A i \in 1 .. Len(cs) - 1 : Front(cs)[i] = cs[i]
  BY FrontOf
<1>2. ASSUME NEW i \in 1 .. Len(Front(cs)) PROVE i <= Len(ns) /\ t[ns[i]].type = Front(cs)[i].in
  <2>1. i \in 1 .. Len(cs) - 1 /\ i \in 1 .. Len(cs)
    BY <1>1
  <2> QED BY <1>1, <2>1 DEF NodesAt
<1> QED BY <1>1, <1>2 DEF NodesAt

\* An activation goes on, in the same kind of container.
LEMMA FrameSwap ==
  ASSUME NEW cs \in Seq(Frame), cs # <<>>, NEW f \in Frame, f.in = cs[Len(cs)].in
  PROVE  LET ds == Append(Front(cs), f) IN Len(ds) = Len(cs) /\ \A i \in 1 .. Len(cs) : ds[i].in = cs[i].in
<1> DEFINE fs == Front(cs)
           ds == Append(fs, f)
<1>1. Len(cs) \in Nat /\ fs \in Seq(Frame) /\ Len(fs) = Len(cs) - 1 /\ \A i \in 1 .. Len(cs) - 1 : fs[i] = cs[i]
  BY FrontOf
<1> HIDE DEF fs
<1>2. Len(ds) = Len(fs) + 1 /\ ds[Len(ds)] = f /\ \A i \in 1 .. Len(fs) : ds[i] = fs[i]
  BY <1>1, AppendOf
<1> HIDE DEF ds
<1>3. ASSUME NEW i \in 1 .. Len(cs) PROVE ds[i].in = cs[i].in
  <2>1. CASE i = Len(cs)
    BY <1>1, <1>2, <2>1
  <2>2. CASE i # Len(cs)
    <3>1. i \in 1 .. Len(fs) /\ i \in 1 .. Len(cs) - 1
      BY <1>1, <2>2
    <3> QED BY <1>1, <1>2, <3>1
  <2> QED BY <2>1, <2>2
<1> QED BY <1>1, <1>2, <1>3 DEF ds, fs
-----------------------------------------------------------------------------
(* The steps of the reader. *)
LEMMA FinishTree ==
  ASSUME ControlOK, TreeInv, NEW outer \in Seq(Frame), NEW ok, ReturnTo(outer, ok),
         NodesAt(value.tree, nodes, outer), Len(nodes) = Len(outer) + 1,
         Keeps(value, value', Reading), Survives(value.tree, value'.tree, Here), Here \in DOMAIN value'.tree,
         before' \in Seq(Lexeme), strict' = strict,
         \/ pc = "value" /\ last' = last
         \/ last' = IF Collects THEN [set |-> TRUE, place |-> Here, newLine |-> FALSE] ELSE last
  PROVE  TreeInv'
<1> DEFINE u == value'.tree
           ls == last'
           n == Len(nodes') - Unread(pc')
<1>1. Len(outer) \in Nat /\ Len(nodes) \in Nat /\ Len(nodes) > 0 /\ nodes # <<>> /\ nodes \in Seq(Place)
  <2>1. nodes \in Seq(Place)
    BY DEF TreeInv, TreeIs, NodesAt
  <2>2. Len(outer) \in Nat /\ Len(nodes) \in Nat
    BY <2>1
  <2> QED BY <2>1, <2>2
<1>2. Here \in Place /\ Len(Here) = Len(nodes) - 1 /\ Here = nodes[Len(nodes)]
  BY <1>1, HereIs DEF Here
<1>3. Holder(value', Reading) /\ Balance(value') = 0
  BY DEF TreeInv, TreeIs, Keeps
<1>4. NodesAt(u, nodes, outer)
  <2>1. Survives(value.tree, u, nodes[Len(nodes)]) /\ nodes[Len(nodes)] \in DOMAIN u /\ Len(outer) < Len(nodes)
    BY <1>1, <1>2
  <2> HIDE DEF u
  <2> QED BY <1>1, <2>1, NodesSurvive
<1>5. calls' = outer /\ nodes' = (IF outer = <<>> THEN nodes ELSE Front(nodes)) /\ pc' # "value"
  <2>1. ASSUME outer # <<>> PROVE Resume(ok, outer) # "value"
    BY <2>1 DEF Resume
  <2>2. ASSUME outer = <<>> PROVE Resume(ok, outer) # "value"
    BY <2>2 DEF Resume
  <2> QED BY <2>1, <2>2 DEF ReturnTo
<1>8. /\ NodesAt(u, nodes', calls') /\ Len(nodes') = Len(calls') + (IF pc' = "value" \/ calls' = <<>> THEN 1 ELSE 0)
      /\ Len(nodes') \in Nat /\ Len(nodes') >= Len(nodes) - 1
  <2>1. CASE outer = <<>>
    BY <1>1, <1>4, <1>5, <2>1
  <2>2. CASE outer # <<>>
    <3>1. Len(outer) < Len(nodes)
      BY <1>1
    <3>2. NodesAt(u, Front(nodes), outer) /\ Len(Front(nodes)) = Len(nodes) - 1
      <4> HIDE DEF u
      <4> QED BY <1>1, <1>4, <3>1, NodesFewer
    <3> QED BY <1>1, <1>5, <2>2, <3>2
  <2> QED BY <2>1, <2>2
<1>9. n = Len(nodes') /\ n >= Len(Here)
  BY <1>2, <1>5, <1>8 DEF Unread
<1>10. LastAt(u, ls, n, Collects)
  <2>1. CASE pc = "value" /\ ls = last
    <3>1. LastAt(value.tree, last, Len(Here), Collects)
      <4>1. Len(nodes) - Unread(pc) = Len(Here)
        BY <1>2, <2>1 DEF Unread
      <4> QED BY <4>1 DEF TreeInv, TreeIs
    <3>2. LastAt(u, last, Len(Here), Collects)
      <4> HIDE DEF u, Here
      <4>1. Survives(value.tree, u, Here)
        BY DEF u
      <4> QED BY <3>1, <4>1, LastSurvives
    <3>3. last.set => Len(last.place) <= n
      <4>1. last.set => last.place \in Place
        <5>1. DOMAIN u \subseteq Place
          BY <1>3 DEF Holder, Tree, Forest
        <5> QED BY <3>2, <5>1 DEF LastAt
      <4>2. last.set => Len(last.place) \in Nat /\ Len(last.place) <= Len(Here)
        BY <3>2, <4>1, PlaceLen DEF LastAt
      <4> QED BY <4>2, <1>2, <1>9, <1>1, <1>8
    <3> HIDE DEF n, u
    <3> QED BY <2>1, <3>2, <3>3 DEF LastAt
  <2>2. CASE Collects /\ ls = [set |-> TRUE, place |-> Here, newLine |-> FALSE]
    <3>1. ls.set = TRUE /\ ls.place = Here /\ ls = [set |-> ls.set, place |-> ls.place, newLine |-> ls.newLine]
      BY <2>2
    <3>2. Here \in DOMAIN u /\ Len(Here) <= n
      BY <1>1, <1>2, <1>8, <1>9
    <3> HIDE DEF n, u, ls, Here
    <3> QED BY <2>2, <3>1, <3>2 DEF LastAt
  <2>3. CASE ~Collects /\ ls = last
    <3>1. last = [set |-> last.set, place |-> last.place, newLine |-> last.newLine] /\ ~last.set
      BY <2>3 DEF TreeInv, TreeIs, LastAt
    <3> HIDE DEF n, u, ls
    <3> QED BY <2>3, <3>1 DEF LastAt
  <2> QED BY <2>1, <2>2, <2>3
<1>11. Collects' = Collects
  BY DEF Collects
<1>12. TreeIs(value', before', nodes', calls', last', pc', Collects')
  BY <1>3, <1>8, <1>10, <1>11 DEF TreeIs
<1> QED BY <1>12 DEF TreeInv
-----------------------------------------------------------------------------
\* A step that leaves the Value alone.
LEMMA ValueStays ==
  ASSUME TreeInv, value' = value
  PROVE  Keeps(value, value', Reading) /\ Stay(value.tree, value'.tree)
<1>1. Keeps(value, value, Reading) /\ Stay(value.tree, value.tree)
  BY DEF TreeInv, TreeIs, Keeps, Stay
<1> QED BY <1>1

\* No activation of readValue begins or ends.
LEMMA GoesOn ==
  ASSUME ControlOK, TreeInv, Keeps(value, value', Reading), Stay(value.tree, value'.tree),
         before' \in Seq(Lexeme), strict' = strict, nodes' = nodes,
         NodesAt(value.tree, nodes, calls'), Len(calls') = Len(calls), calls' = <<>> <=> calls = <<>>,
         pc' = "value" <=> pc = "value",
         LastAt(value.tree, last', Len(nodes) - Unread(pc), Collects)
  PROVE  TreeInv'
<1>1. Holder(value', Reading) /\ Balance(value') = 0
  BY DEF TreeInv, TreeIs, Keeps
<1>2. NodesAt(value'.tree, nodes, calls') /\ LastAt(value'.tree, last', Len(nodes) - Unread(pc), Collects)
  BY NodesStay, LastStays
<1>3. Unread(pc') = Unread(pc) /\ Collects' = Collects
  BY DEF Unread, Collects
<1>4. Len(nodes') = Len(calls') + (IF pc' = "value" \/ calls' = <<>> THEN 1 ELSE 0)
  BY DEF TreeInv, TreeIs
<1>5. LastAt(value'.tree, last', Len(nodes') - Unread(pc'), Collects')
  BY <1>2, <1>3
<1>6. NodesAt(value'.tree, nodes', calls')
  BY <1>2
<1>7. TreeIs(value', before', nodes', calls', last', pc', Collects')
  BY <1>1, <1>4, <1>5, <1>6 DEF TreeIs
<1> QED BY <1>7 DEF TreeInv

\* The comment is noted, and where the last value ends.
LEMMA CommentTaken ==
  ASSUME ControlOK, TextOK, TreeInv, IsComment, TakeComment, strict' = strict
  PROVE  /\ Keeps(value, value', Reading) /\ Stay(value.tree, value'.tree)
         /\ before' \in Seq(Lexeme)
         /\ LastAt(value.tree, last', Len(nodes) - Unread(pc), Collects)
<1> DEFINE comment  == SubSeq(text, 1, TokenLength)
           newLine  == Token.tok = "/*NL*/" \/ LineEnds \in 1 .. TokenLength
           sameLine == last.set /\ ~last.newLine /\ Token.tok # "/*NL*/"
<1>1. /\ last'   = [last EXCEPT !.newLine = @ \/ (last.set /\ newLine)]
      /\ before' = IF ~Collects \/ sameLine THEN before
                   ELSE before \o (IF before = <<>> THEN <<>> ELSE <<Mark("NL")>>) \o comment
      /\ value'  = IF Collects /\ sameLine THEN SetComment(value, last.place, comment, "sameLine") ELSE value
  BY DEF TakeComment
<1>2. comment \in Seq(Lexeme) /\ comment # <<>>
  <2>1. text # <<>> /\ text \in Seq(Lexeme)
    BY CommentThere DEF TextOK
  <2>2. TokenLength \in 1 .. Len(text) /\ Len(text) \in Nat
    BY <2>1, RestOfText
  <2> DEFINE m == TokenLength
  <2>3. m \in Int /\ 1 <= m /\ m <= Len(text)
    BY <2>2
  <2> HIDE DEF m
  <2>4. \A i \in 1 .. m : text[i] \in Lexeme
    BY <2>1, <2>2, <2>3
  <2>5. SubSeq(text, 1, m) \in Seq(Lexeme) /\ Len(SubSeq(text, 1, m)) = IF 1 <= m THEN m - 1 + 1 ELSE 0
    BY <2>2, <2>3, <2>4, SubSeqProperties
  <2>6. SubSeq(text, 1, m) # <<>>
    BY <2>3, <2>5
  <2> QED BY <2>5, <2>6 DEF m
<1> HIDE DEF comment, newLine, sameLine
<1>3. before \in Seq(Lexeme) /\ Holder(value, Reading) /\ LastAt(value.tree, last, Len(nodes) - Unread(pc), Collects)
  BY DEF TreeInv, TreeIs
<1>4. before' \in Seq(Lexeme)
  <2>1. Mark("NL") \in Lexeme
    BY MarkLexeme DEF Tokens, NewLines
  <2>2. <<Mark("NL")>> \in Seq(Lexeme) /\ <<>> \in Seq(Lexeme)
    BY <2>1
  <2>3. before \o <<>> \o comment \in Seq(Lexeme) /\ before \o <<Mark("NL")>> \o comment \in Seq(Lexeme)
    BY <1>2, <1>3, <2>2
  <2> QED BY <1>1, <1>3, <2>3
<1>5. Keeps(value, value', Reading) /\ Stay(value.tree, value'.tree)
  <2>1. CASE Collects /\ sameLine
    <3>1. last.place \in DOMAIN value.tree
      BY <1>3, <2>1 DEF sameLine, LastAt
    <3>2. "sameLine" \in Placements
      BY DEF Placements
    <3> DEFINE x == SetComment(value, last.place, comment, "sameLine")
    <3>3. /\ Keeps(value, x, Reading) /\ DOMAIN x.tree = DOMAIN value.tree
          /\ \A q \in DOMAIN value.tree : x.tree[q].type = value.tree[q].type
      BY <1>2, <1>3, <3>1, <3>2, SetCommentIs
    <3>4. value' = x
      BY <1>1, <2>1
    <3> HIDE DEF x
    <3>5. Keeps(value, x, Reading) /\ Stay(value.tree, x.tree)
      BY <3>3 DEF Stay
    <3> QED BY <3>4, <3>5
  <2>2. CASE ~(Collects /\ sameLine)
    <3>1. value' = value
      BY <1>1, <2>2
    <3> QED BY <3>1, ValueStays
  <2> QED BY <2>1, <2>2
<1>6. last'.set = last.set /\ last'.place = last.place
      /\ last' = [set |-> last'.set, place |-> last'.place, newLine |-> last'.newLine]
  <2>1. last = [set |-> last.set, place |-> last.place, newLine |-> last.newLine]
    BY <1>3 DEF LastAt
  <2> QED BY <1>1, <2>1
<1>7. LastAt(value.tree, last', Len(nodes) - Unread(pc), Collects)
  BY <1>3, <1>6 DEF LastAt
<1> QED BY <1>4, <1>5, <1>7

\* A call of readValue for an entry that has just been made.
LEMMA DescendTree ==
  ASSUME ControlOK, TreeInv, calls # <<>>, pc # "value", pc # "close", NEW type, NEW k \in Int,
         value.tree[Here].type = type, Grown(value, value', Here, k, type, Reading),
         NEW frame \in Frame, frame.in = Inner.in, Descend(frame, k),
         UNCHANGED <<strict, before, last>>
  PROVE  TreeInv'
<1> DEFINE u == value'.tree
           n == Len(nodes')
<1>1. nodes # <<>> /\ Here \in Place /\ Len(Here) = Len(nodes) - 1 /\ Here = nodes[Len(nodes)]
      /\ Len(nodes) \in Nat /\ Len(calls) \in Nat /\ Here \in DOMAIN value.tree
  BY HereIs DEF Here
<1>2. Holder(value', Reading) /\ Balance(value') = 0 /\ Stay(value.tree, u) /\ Append(Here, k) \in DOMAIN u
  BY DEF Grown, Stay, TreeInv, TreeIs
<1>3. pc' = "value" /\ nodes' = Append(nodes, Append(Here, k)) /\ calls' = Append(Front(calls), frame)
  BY DEF Descend
<1>4. NodesAt(value.tree, nodes, calls) /\ LastAt(value.tree, last, Len(nodes), Collects) /\ Len(nodes) = Len(calls)
      /\ before \in Seq(Lexeme)
  <2>1. Unread(pc) = 0
    BY DEF Unread
  <2>2. Len(nodes) - Unread(pc) = Len(nodes)
    BY <1>1, <2>1
  <2> QED BY <1>1, <2>2 DEF TreeInv, TreeIs
<1>5. calls \in Seq(Frame) /\ frame.in = calls[Len(calls)].in
  BY DEF ControlOK, Inner
<1>6. Len(calls') = Len(calls) /\ \A i \in 1 .. Len(calls) : calls'[i].in = calls[i].in
  BY <1>3, <1>5, FrameSwap
<1>7. NodesAt(value.tree, nodes, calls')
  BY <1>4, <1>6, NodesFrames
<1> HIDE DEF u
<1>8. NodesAt(u, nodes, calls') /\ LastAt(u, last, Len(nodes), Collects)
  BY <1>2, <1>4, <1>7, NodesStay, LastStays
<1>9. NodesAt(u, nodes', calls') /\ Len(nodes') = Len(nodes) + 1
  <2>1. Append(nodes[Len(nodes)], k) \in DOMAIN u
    BY <1>1, <1>2
  <2> DEFINE ms == Append(nodes, Append(nodes[Len(nodes)], k))
  <2>2. NodesAt(u, ms, calls') /\ Len(ms) = Len(nodes) + 1
    BY <1>1, <1>8, <2>1, NodesMore
  <2>3. nodes' = ms
    BY <1>1, <1>3
  <2> HIDE DEF ms
  <2> QED BY <2>2, <2>3
<1>10. Len(nodes') - Unread(pc') = Len(nodes) /\ Collects' = Collects
  <2>1. Unread(pc') = 1
    BY <1>3 DEF Unread
  <2> QED BY <1>1, <1>9, <2>1 DEF Collects
<1>11. Len(nodes') = Len(calls') + (IF pc' = "value" \/ calls' = <<>> THEN 1 ELSE 0)
  BY <1>3, <1>4, <1>6, <1>9
<1>12. LastAt(u, last', Len(nodes') - Unread(pc'), Collects')
  BY <1>8, <1>10
<1>13. TreeIs(value', before', nodes', calls', last', pc', Collects')
  BY <1>2, <1>4, <1>9, <1>11, <1>12 DEF TreeIs, u
<1> QED BY <1>13 DEF TreeInv
-----------------------------------------------------------------------------
\* A token is skipped: the Value and the last one read stay.
LEMMA TokenSkipped ==
  ASSUME ControlOK, TreeInv, UNCHANGED <<strict, value, nodes, before, last>>,
         NodesAt(value.tree, nodes, calls'), Len(calls') = Len(calls), calls' = <<>> <=> calls = <<>>,
         pc' = "value" <=> pc = "value"
  PROVE  TreeInv'
<1>1. Keeps(value, value', Reading) /\ Stay(value.tree, value'.tree)
  BY ValueStays
<1>2. before' \in Seq(Lexeme) /\ LastAt(value.tree, last', Len(nodes) - Unread(pc), Collects)
  BY DEF TreeInv, TreeIs
<1> QED BY <1>1, <1>2, GoesOn

\* readValue opens an array or an object.
LEMMA OpenedTree ==
  ASSUME ControlOK, TreeInv, NEW tok, NEW type \in Containers, NEW frame \in Frame, frame.in = type, NEW next, next # "value",
         ReadContainer(tok, type, frame, next)
  PROVE  TreeInv'
<1> DEFINE u == value'.tree
           x == Assign(Commented, Here, Empty(type))
<1>1. pc = "value" /\ value' = x /\ calls' = Append(calls, frame) /\ pc' = next
      /\ UNCHANGED <<strict, nodes, last>> /\ before' = IF Collects THEN <<>> ELSE before
  BY DEF ReadContainer, ValueToken
<1>2. nodes # <<>> /\ Here \in Place /\ Len(Here) = Len(nodes) - 1 /\ Here = nodes[Len(nodes)]
      /\ Len(nodes) \in Nat /\ Len(calls) \in Nat
  BY <1>1, HereIs DEF Here
<1>3. Tree(Empty(type), Reading) /\ Empty(type)[<<>>].type = type
  BY ReadingIs, EmptyIs DEF Containers
<1>4. Keeps(value, x, Reading) /\ Survives(value.tree, x.tree, Here) /\ Here \in DOMAIN x.tree /\ x.tree[Here].type = type
  <2> DEFINE e == Empty(type)
  <2>1. Tree(e, Reading) /\ e[<<>>].type = type
    BY <1>3
  <2> HIDE DEF e
  <2>2. /\ Keeps(value, Assign(Commented, Here, e), Reading) /\ Survives(value.tree, Assign(Commented, Here, e).tree, Here)
        /\ Here \in DOMAIN Assign(Commented, Here, e).tree /\ Assign(Commented, Here, e).tree[Here].type = e[<<>>].type
    BY <1>2, <2>1, ReplacedIs
  <2> QED BY <2>1, <2>2 DEF e
<1> HIDE DEF x
<1>5. Keeps(value, value', Reading) /\ Survives(value.tree, u, Here) /\ Here \in DOMAIN u /\ u[Here].type = type
  BY <1>1, <1>4
<1> HIDE DEF u
<1>6. Len(nodes) = Len(calls) + 1 /\ NodesAt(value.tree, nodes, calls) /\ before \in Seq(Lexeme)
      /\ LastAt(value.tree, last, Len(Here), Collects)
  <2>1. Len(nodes) - Unread(pc) = Len(Here)
    BY <1>1, <1>2 DEF Unread
  <2> QED BY <1>1, <2>1 DEF TreeInv, TreeIs
<1>7. NodesAt(u, nodes, calls)
  <2>1. Survives(value.tree, u, nodes[Len(nodes)]) /\ nodes[Len(nodes)] \in DOMAIN u /\ Len(calls) < Len(nodes)
    BY <1>2, <1>5, <1>6
  <2> QED BY <1>2, <1>6, <2>1, NodesSurvive
<1>8. LastAt(u, last, Len(Here), Collects)
  BY <1>5, <1>6, LastSurvives
<1>9. calls \in Seq(Frame) /\ Len(calls') = Len(calls) + 1 /\ calls'[Len(calls')] = frame /\ calls' # <<>>
      /\ \A i \in 1 .. Len(calls) : calls'[i] = calls[i]
  BY <1>1, AppendOf DEF ControlOK
<1>10. ASSUME NEW i \in 1 .. Len(calls') PROVE i <= Len(nodes) /\ u[nodes[i]].type = calls'[i].in
  <2>1. CASE i = Len(calls')
    BY <1>2, <1>5, <1>6, <1>9, <2>1
  <2>2. CASE i # Len(calls')
    <3>1. i \in 1 .. Len(calls)
      BY <1>2, <1>9, <2>2
    <3> QED BY <1>7, <1>9, <3>1 DEF NodesAt
  <2> QED BY <2>1, <2>2
<1>11. NodesAt(u, nodes', calls')
  BY <1>1, <1>7, <1>10 DEF NodesAt
<1>12. Len(nodes') = Len(calls') + (IF pc' = "value" \/ calls' = <<>> THEN 1 ELSE 0)
  BY <1>1, <1>6, <1>9
<1>13. LastAt(u, last', Len(nodes') - Unread(pc'), Collects')
  <2>1. Unread(pc') = 0 /\ Collects' = Collects
    BY <1>1 DEF Unread, Collects
  <2>2. last.set => Len(last.place) <= Len(nodes)
    <3>1. ASSUME last.set PROVE last.place \in Place
      <4>1. last.place \in DOMAIN u
        BY <1>8, <3>1 DEF LastAt
      <4> QED BY <1>5, <4>1 DEF Keeps, Holder, Tree, Forest, u
    <3>2. ASSUME last.set PROVE Len(last.place) <= Len(Here) /\ Len(last.place) \in Nat
      BY <1>8, <3>1, <3>2, PlaceLen DEF LastAt
    <3> QED BY <1>2, <3>2
  <2>3. Len(nodes') - Unread(pc') = Len(nodes) /\ last' = last
    BY <1>1, <1>2, <2>1
  <2>4. LastAt(u, last, Len(nodes), Collects)
    BY <1>8, <2>2 DEF LastAt
  <2> QED BY <2>1, <2>3, <2>4
<1>14. Holder(value', Reading) /\ Balance(value') = 0 /\ before' \in Seq(Lexeme)
  <2>1. <<>> \in Seq(Lexeme)
    OBVIOUS
  <2> QED BY <1>1, <1>5, <1>6, <2>1 DEF Keeps, TreeInv, TreeIs
<1>15. TreeIs(value', before', nodes', calls', last', pc', Collects')
  BY <1>11, <1>12, <1>13, <1>14 DEF TreeIs, u
<1> QED BY <1>15 DEF TreeInv

\* readValue comes to its end with the activations it was called by.
LEMMA ReturnedTree ==
  ASSUME ControlOK, TreeInv, pc = "value", NEW ok, ReturnTo(calls, ok),
         Keeps(value, value', Reading), Survives(value.tree, value'.tree, Here), Here \in DOMAIN value'.tree,
         before' = (IF Collects THEN <<>> ELSE before), strict' = strict,
         last' \in {last, IF Collects THEN [set |-> TRUE, place |-> Here, newLine |-> FALSE] ELSE last}
  PROVE  TreeInv'
<1>1. NodesAt(value.tree, nodes, calls) /\ Len(nodes) = Len(calls) + 1 /\ before \in Seq(Lexeme) /\ calls \in Seq(Frame)
  BY DEF TreeInv, TreeIs, ControlOK
<1>2. <<>> \in Seq(Lexeme)
  OBVIOUS
<1>3. before' \in Seq(Lexeme)
  BY <1>1, <1>2
<1> QED BY <1>1, <1>3, FinishTree

\* ... and at the end of an array or an object with the ones around it.
LEMMA ClosedTree ==
  ASSUME ControlOK, TreeInv, calls # <<>>, pc # "value", NEW ok, Finished(Front(calls), ok),
         UNCHANGED <<strict, value, before>>
  PROVE  TreeInv'
<1>1. calls \in Seq(Frame) /\ NodesAt(value.tree, nodes, calls) /\ before \in Seq(Lexeme) /\ Len(nodes) = Len(calls)
  BY DEF TreeInv, TreeIs, ControlOK
<1>2. NodesAt(value.tree, nodes, Front(calls)) /\ Len(Front(calls)) = Len(calls) - 1 /\ Front(calls) \in Seq(Frame)
  BY <1>1, NodesOuter
<1>3. nodes # <<>> /\ Here \in DOMAIN value.tree /\ Len(calls) \in Nat
  BY HereIs
<1>4. Keeps(value, value', Reading) /\ Stay(value.tree, value'.tree)
  BY ValueStays
<1>5. Survives(value.tree, value'.tree, Here) /\ Here \in DOMAIN value'.tree
  BY <1>3, <1>4, StaySurvives
<1>6. ReturnTo(Front(calls), ok) /\ before' \in Seq(Lexeme) /\ Len(nodes) = Len(Front(calls)) + 1
      /\ last' = (IF Collects THEN [set |-> TRUE, place |-> Here, newLine |-> FALSE] ELSE last)
  BY <1>1, <1>2, <1>3 DEF Finished
<1> QED BY <1>2, <1>4, <1>5, <1>6, FinishTree
-----------------------------------------------------------------------------
\* Every step of the reader keeps its tree and its stack.
LEMMA TreeStep ==
  ASSUME ControlOK, TextOK, TreeInv, ParseStep
  PROVE  TreeInv'
<1>0. /\ calls \in Seq(Frame) /\ Len(calls) \in Nat /\ pc \in Pcs
      /\ pc \in {"name", "colon", "comma", "comment", "first", "item", "recover"} => calls # <<>>
      /\ before \in Seq(Lexeme)
      /\ NodesAt(value.tree, nodes, calls)
      /\ calls # <<>> => Inner \in Frame
  <2>1. calls # <<>> => calls[Len(calls)] \in Frame
    BY FrontOf DEF ControlOK
  <2> QED BY <2>1 DEF ControlOK, TreeInv, TreeIs, Inner
<1>1. CASE SkipSpaces
  <2>1. UNCHANGED <<strict, value, pc, calls, nodes, before>> /\ last' = [last EXCEPT !.newLine = last.set]
    BY <1>1 DEF SkipSpaces
  <2>2. LastAt(value.tree, last, Len(nodes) - Unread(pc), Collects)
    BY DEF TreeInv, TreeIs
  <2>3. last'.set = last.set /\ last'.place = last.place
        /\ last' = [set |-> last'.set, place |-> last'.place, newLine |-> last'.newLine]
    <3>1. last = [set |-> last.set, place |-> last.place, newLine |-> last.newLine]
      BY <2>2 DEF LastAt
    <3> QED BY <2>1, <3>1
  <2>4. LastAt(value.tree, last', Len(nodes) - Unread(pc), Collects)
    BY <2>2, <2>3 DEF LastAt
  <2>5. Keeps(value, value', Reading) /\ Stay(value.tree, value'.tree)
    BY <2>1, ValueStays
  <2>6. NodesAt(value.tree, nodes, calls') /\ before' \in Seq(Lexeme)
    BY <1>0, <2>1
  <2> QED BY <2>1, <2>4, <2>5, <2>6, GoesOn
<1>2. CASE SkipComment
  <2>1. IsComment /\ TakeComment /\ UNCHANGED <<strict, calls, nodes>>
        /\ pc' = IF pc = "comma" THEN "comment" ELSE pc
    BY <1>2 DEF SkipComment
  <2>2. /\ Keeps(value, value', Reading) /\ Stay(value.tree, value'.tree) /\ before' \in Seq(Lexeme)
        /\ LastAt(value.tree, last', Len(nodes) - Unread(pc), Collects)
    BY <2>1, CommentTaken
  <2>3. NodesAt(value.tree, nodes, calls') /\ (pc' = "value" <=> pc = "value")
    BY <1>0, <2>1
  <2> QED BY <2>1, <2>2, <2>3, GoesOn
<1>3. CASE ReadScalar
  <2> DEFINE d == Decoded(Token.tok, Token.chars)
  <2>1. pc = "value" /\ text # <<>> /\ Token = Head(text)
        /\ Token.tok \in {"number", "string", "true", "false", "null"}
    BY <1>3, TokenThere DEF ReadScalar, ValueToken
  <2>2. Token \in Lexeme
    BY <2>1 DEF TextOK
  <2>3. /\ value' = IF d.ok THEN Assign(Commented, Here, d.v) ELSE Commented
        /\ Finished(calls, d.ok) /\ before' = (IF Collects THEN <<>> ELSE before) /\ strict' = strict
    BY <1>3 DEF ReadScalar
  <2>4. d.ok => Tree(d.v, Reading)
    BY <2>1, <2>2, DecodedIs
  <2> HIDE DEF d
  <2>5. nodes # <<>> /\ Here \in DOMAIN value.tree
    BY <2>1, HereIs
  <2>6. Keeps(value, value', Reading) /\ Survives(value.tree, value'.tree, Here) /\ Here \in DOMAIN value'.tree
    <3>1. CASE d.ok
      <4> DEFINE v == d.v
                 x == Assign(Commented, Here, v)
      <4>1. Tree(v, Reading)
        BY <2>4, <3>1
      <4>2. value' = x
        BY <2>3, <3>1
      <4> HIDE DEF v
      <4>3. Keeps(value, x, Reading) /\ Survives(value.tree, x.tree, Here) /\ Here \in DOMAIN x.tree
        BY <2>5, <4>1, ReplacedIs
      <4> HIDE DEF x
      <4> QED BY <4>2, <4>3
    <3>2. CASE ~d.ok
      <4>1. value' = Commented
        BY <2>3, <3>2
      <4>2. Keeps(value, Commented, Reading) /\ Stay(value.tree, Commented.tree) /\ Here \in DOMAIN Commented.tree
        BY <2>5, CommentedIs
      <4>3. Survives(value.tree, Commented.tree, Here)
        BY <4>2, StaySurvives
      <4> QED BY <4>1, <4>2, <4>3
    <3> QED BY <3>1, <3>2
  <2>7. ReturnTo(calls, d.ok)
        /\ last' \in {last, IF Collects THEN [set |-> TRUE, place |-> Here, newLine |-> FALSE] ELSE last}
    BY <2>3 DEF Finished
  <2> QED BY <2>1, <2>3, <2>6, <2>7, ReturnedTree
<1>4. CASE ReadObject
  <2>1. Object(0, TRUE) \in Frame /\ Object(0, TRUE).in = "object" /\ "object" \in Containers
    BY DEF Object, Frame, Containers
  <2>2. ReadContainer("{", "object", Object(0, TRUE), "name")
    BY <1>4 DEF ReadObject
  <2> QED BY <2>1, <2>2, OpenedTree
<1>5. CASE ReadArray
  <2>1. Array(0) \in Frame /\ Array(0).in = "array" /\ "array" \in Containers
    BY DEF Array, Frame, Containers
  <2>2. ReadContainer("[", "array", Array(0), "first")
    BY <1>5 DEF ReadArray
  <2> QED BY <2>1, <2>2, OpenedTree
<1>6. CASE NoValue
  <2>1. /\ pc = "value" /\ value' = Commented /\ ReturnTo(calls, FALSE)
        /\ before' = (IF Collects THEN <<>> ELSE before) /\ strict' = strict /\ last' = last
    BY <1>6, Zenon DEF NoValue, ValueToken
  <2>2. nodes # <<>> /\ Here \in DOMAIN value.tree
    BY <2>1, HereIs
  <2>3. Keeps(value, Commented, Reading) /\ Stay(value.tree, Commented.tree) /\ Here \in DOMAIN Commented.tree
    BY <2>2, CommentedIs
  <2>4. Survives(value.tree, Commented.tree, Here)
    BY <2>3, StaySurvives
  <2>5. Keeps(value, value', Reading) /\ Survives(value.tree, value'.tree, Here) /\ Here \in DOMAIN value'.tree
    BY <2>1, <2>3, <2>4
  <2>6. last' \in {last, IF Collects THEN [set |-> TRUE, place |-> Here, newLine |-> FALSE] ELSE last}
    BY <2>1
  <2> QED BY <2>1, <2>5, <2>6, ReturnedTree
<1>7. CASE EndObject
  <2>1. pc \in {"name", "comma", "comment"} /\ Finished(Front(calls), TRUE) /\ UNCHANGED <<strict, value, before>>
    BY <1>7, Zenon DEF EndObject
  <2> QED BY <1>0, <2>1, ClosedTree
<1>8. CASE EndArray
  <2>1. pc \in {"first", "item"} /\ Finished(Front(calls), TRUE) /\ UNCHANGED <<strict, value, before>>
    BY <1>8, Zenon DEF EndArray
  <2> QED BY <1>0, <2>1, ClosedTree
<1>9. CASE ReadName
  <2> DEFINE d == DecodeString(Token.chars)
  <2>1. pc = "name" /\ UNCHANGED <<strict, value, nodes, before, last>>
        /\ IF d.ok THEN pc' = "colon" /\ calls' = Append(Front(calls), Object(NameOf(d.chars), d.chars = <<>>))
           ELSE pc' = "recover" /\ UNCHANGED calls
    BY <1>9 DEF ReadName, Fail
  <2> HIDE DEF d
  <2>2. CASE d.ok
    <3> DEFINE f == Object(NameOf(d.chars), d.chars = <<>>)
    <3>1. f \in Frame /\ f.in = "object"
      BY NameOfInt DEF Object, Frame
    <3>2. calls[Len(calls)].in = "object" /\ calls # <<>>
      BY <2>1 DEF ControlOK, Inner
    <3>3. calls' = Append(Front(calls), f)
      BY <2>1, <2>2
    <3> HIDE DEF f
    <3>4. Len(calls') = Len(calls) /\ \A i \in 1 .. Len(calls) : calls'[i].in = calls[i].in
      BY <1>0, <3>1, <3>2, <3>3, FrameSwap
    <3>5. NodesAt(value.tree, nodes, calls')
      BY <1>0, <3>4, NodesFrames
    <3>6. calls' # <<>>
      BY <1>0, <3>1, <3>2, <3>3, FrontOf, AppendOf
    <3> QED BY <2>1, <2>2, <3>2, <3>4, <3>5, <3>6, TokenSkipped
  <2>3. CASE ~d.ok
    <3>1. NodesAt(value.tree, nodes, calls') /\ calls' = calls /\ pc' = "recover"
      BY <1>0, <2>1, <2>3
    <3> QED BY <2>1, <3>1, TokenSkipped
  <2> QED BY <2>2, <2>3
<1>10. CASE NoName \/ ReadComma \/ NoComma
  <2>1. pc # "value" /\ pc' # "value" /\ UNCHANGED <<strict, value, calls, nodes, before, last>>
    BY <1>10, Zenon DEF NoName, ReadComma, NoComma, Fail
  <2>2. NodesAt(value.tree, nodes, calls')
    BY <1>0, <2>1
  <2> QED BY <2>1, <2>2, TokenSkipped
<1>11. CASE ReadColon
  <2>1. pc = "colon" /\ UNCHANGED <<strict, before, last>>
        /\ value' = AtName(value, Here, calls[Len(calls)].name, FALSE)
        /\ Descend(calls[Len(calls)], calls[Len(calls)].name)
    BY <1>11 DEF ReadColon
  <2> DEFINE k == Inner.name
  <2>2. calls # <<>> /\ Inner \in Frame /\ Inner.in = "object" /\ k \in Int
    BY <1>0, <2>1 DEF ControlOK, Frame
  <2>3. Here \in DOMAIN value.tree /\ Len(nodes) = Len(calls) /\ Here = nodes[Len(nodes)] /\ nodes # <<>>
    BY <1>0, <2>1, <2>2, HereIs DEF TreeInv, TreeIs, Here
  <2>4. value.tree[Here].type = "object"
    <3>1. Len(calls) \in 1 .. Len(calls)
      BY <1>0, <2>2
    <3> QED BY <1>0, <2>2, <2>3, <3>1 DEF NodesAt, Inner
  <2>5. value' = AtName(value, Here, k, FALSE) /\ Descend(Inner, k)
    BY <2>1 DEF Inner
  <2> HIDE DEF k
  <2>6. Holder(value, Reading) /\ k \in Reading.names /\ value.tree[Here].type \in {"null", "object"} /\ FALSE \in BOOLEAN
    BY <2>2, <2>4, ReadingIs DEF TreeInv, TreeIs
  <2>7. Grown(value, AtName(value, Here, k, FALSE), Here, k, "object", Reading)
    BY <2>3, <2>6, ReadingIs, AtNameIs
  <2>8. Grown(value, value', Here, k, "object", Reading)
    BY <2>5, <2>7
  <2> QED BY <2>1, <2>2, <2>4, <2>5, <2>8, DescendTree
<1>12. CASE NextElement
  <2> DEFINE k == Inner.index
  <2>1. pc \in {"first", "item"} /\ UNCHANGED <<strict, before, last>>
        /\ value' = AtIndex(value, Here, k) /\ Descend(Array(k + 1), k)
    BY <1>12, Zenon DEF NextElement, Inner
  <2>2. calls # <<>> /\ Inner \in Frame /\ Inner.in = "array" /\ k \in Nat /\ k \in Int
    BY <1>0, <2>1 DEF ControlOK, Frame
  <2>3. Here \in DOMAIN value.tree /\ Len(nodes) = Len(calls) /\ Here = nodes[Len(nodes)] /\ nodes # <<>>
    BY <1>0, <2>1, <2>2, HereIs DEF TreeInv, TreeIs, Here
  <2>4. value.tree[Here].type = "array"
    <3>1. Len(calls) \in 1 .. Len(calls)
      BY <1>0, <2>2
    <3> QED BY <1>0, <2>2, <2>3, <3>1 DEF NodesAt, Inner
  <2> HIDE DEF k
  <2>5. Array(k + 1) \in Frame /\ Array(k + 1).in = Inner.in
    BY <2>2 DEF Array, Frame
  <2>6. Holder(value, Reading) /\ value.tree[Here].type \in {"null", "array"}
    BY <2>4 DEF TreeInv, TreeIs
  <2>7. Grown(value, AtIndex(value, Here, k), Here, k, "array", Reading)
    BY <2>2, <2>3, <2>6, ReadingIs, AtIndexIs
  <2>8. Grown(value, value', Here, k, "array", Reading)
    BY <2>1, <2>7
  <2> DEFINE f == Array(k + 1)
  <2>9. f \in Frame /\ f.in = Inner.in /\ Descend(f, k)
    BY <2>1, <2>5
  <2> HIDE DEF f
  <2> QED BY <2>1, <2>2, <2>4, <2>8, <2>9, DescendTree
<1>13. CASE NoColon
  <2>1. pc = "colon" /\ pc' = "recover" /\ UNCHANGED <<strict, calls, nodes>>
        /\ IF IsComment THEN TakeComment ELSE UNCHANGED <<value, before, last>>
    BY <1>13, Zenon DEF NoColon, Fail
  <2>2. NodesAt(value.tree, nodes, calls')
    BY <1>0, <2>1
  <2>3. CASE IsComment
    <3>1. /\ Keeps(value, value', Reading) /\ Stay(value.tree, value'.tree) /\ before' \in Seq(Lexeme)
          /\ LastAt(value.tree, last', Len(nodes) - Unread(pc), Collects)
      BY <2>1, <2>3, CommentTaken
    <3> QED BY <2>1, <2>2, <3>1, GoesOn
  <2>4. CASE ~IsComment
    BY <2>1, <2>2, <2>4, TokenSkipped
  <2> QED BY <2>3, <2>4
<1>14. CASE Recover
  <2>1. pc = "recover" /\ UNCHANGED <<strict, value, before>>
        /\ (Finished(Front(calls), FALSE) \/ UNCHANGED <<pc, calls, nodes, last>>)
    BY <1>14, Zenon DEF Recover
  <2>2. CASE Finished(Front(calls), FALSE)
    BY <1>0, <2>1, <2>2, ClosedTree
  <2>3. CASE UNCHANGED <<pc, calls, nodes, last>>
    <3>1. NodesAt(value.tree, nodes, calls')
      BY <1>0, <2>3
    <3> QED BY <2>1, <2>3, <3>1, TokenSkipped
  <2> QED BY <2>1, <2>2, <2>3
<1>15. CASE Close
  <2>1. pc = "close" /\ pc' = "done" /\ UNCHANGED <<strict, calls, nodes, before, last>>
        /\ value' = IF Collects /\ before # <<>> THEN SetComment(value, <<>>, before, "after") ELSE value
    BY <1>15 DEF Close
  <2>2. <<>> \in DOMAIN value.tree /\ Holder(value, Reading) /\ "after" \in Placements
    BY DEF TreeInv, TreeIs, Holder, Tree, Placements
  <2>3. Keeps(value, value', Reading) /\ Stay(value.tree, value'.tree)
    <3>1. CASE Collects /\ before # <<>>
      <4> DEFINE r == <<>>
                 x == SetComment(value, r, before, "after")
      <4>1. value' = x
        BY <2>1, <3>1
      <4>2. r \in DOMAIN value.tree
        BY <2>2
      <4> HIDE DEF r
      <4>3. /\ Keeps(value, x, Reading) /\ DOMAIN x.tree = DOMAIN value.tree
            /\ \A q \in DOMAIN value.tree : x.tree[q].type = value.tree[q].type
        BY <1>0, <2>2, <3>1, <4>2, SetCommentIs
      <4> HIDE DEF x
      <4>4. Stay(value.tree, x.tree)
        BY <4>3 DEF Stay
      <4> QED BY <4>1, <4>3, <4>4
    <3>2. CASE ~(Collects /\ before # <<>>)
      <4>1. value' = value
        BY <2>1, <3>2
      <4> QED BY <4>1, ValueStays
    <3> QED BY <3>1, <3>2
  <2>4. NodesAt(value.tree, nodes, calls') /\ before' \in Seq(Lexeme)
        /\ LastAt(value.tree, last', Len(nodes) - Unread(pc), Collects)
    BY <1>0, <2>1 DEF TreeInv, TreeIs
  <2> QED BY <2>1, <2>3, <2>4, GoesOn
<1> QED BY <1>1, <1>2, <1>3, <1>4, <1>5, <1>6, <1>7, <1>8, <1>9, <1>10, <1>11, <1>12, <1>13, <1>14, <1>15
        DEF ParseStep
-----------------------------------------------------------------------------
(* What the writers make are lexemes. *)

\* FlattenSeq of texts is a text.
LEMMA FlattenIs ==
  ASSUME NEW S, NEW ss \in Seq(Seq(S))
  PROVE  FlattenSeq(ss) \in Seq(S)
<1> DEFINE n == Len(ss)
<1>1. n \in Nat /\ \A i \in 1 .. n : ss[i] \in Seq(S)
  OBVIOUS
<1>2. CASE n = 0
  <2>1. FlattenSeq(ss) = ss /\ ss = <<>>
    BY <1>2 DEF FlattenSeq
  <2> QED BY <2>1
<1>3. CASE n # 0
  <2> DEFINE flatten[i \in 1 .. n] == IF i = 1 THEN ss[i] ELSE flatten[i - 1] \o ss[i]
             g == [x \in Int \X Seq(S) |-> IF x[1] \in 1 .. n THEN x[2] \o ss[x[1]] ELSE <<>>]
  <2>0. 1 \in Int /\ n \in Int /\ 1 <= n /\ ss[1] \in Seq(S)
    BY <1>1, <1>3
  <2> HIDE DEF n
  <2>1. g \in [Int \X Seq(S) -> Seq(S)] /\ \A i \in 1 .. n : \A x \in Seq(S) : g[i, x] = x \o ss[i]
    <3>1. \A i \in 1 .. n : \A x \in Seq(S) : x \o ss[i] \in Seq(S) /\ i \in Int
      BY <1>1
    <3>2. <<>> \in Seq(S)
      OBVIOUS
    <3> QED BY <3>1, <3>2
  <2> HIDE DEF g
  <2>2. Chained(1, n, Seq(S), ss[1], g)
    BY <2>0, <2>1, Chain
  <2>3. PICK f \in [1 .. n -> Seq(S)] : f[1] = ss[1] /\ \A i \in 1 + 1 .. n : f[i] = g[i, f[i - 1]]
    BY <2>2 DEF Chained
  <2>4. ASSUME NEW i \in 1 .. n PROVE f[i] = IF i = 1 THEN ss[i] ELSE f[i - 1] \o ss[i]
    <3>1. CASE i # 1
      <4>1. i \in 1 + 1 .. n /\ i - 1 \in 1 .. n
        BY <2>0, <3>1
      <4>2. f[i - 1] \in Seq(S)
        BY <4>1
      <4>3. f[i] = f[i - 1] \o ss[i]
        BY <2>1, <2>3, <4>1, <4>2
      <4> QED BY <3>1, <4>3
    <3> QED BY <3>1, <2>3
  <2>5. f = [i \in 1 .. n |-> IF i = 1 THEN ss[i] ELSE f[i - 1] \o ss[i]]
    BY <2>4
  <2>6. flatten = [i \in 1 .. n |-> IF i = 1 THEN ss[i] ELSE flatten[i - 1] \o ss[i]]
    BY <2>5
  <2> HIDE DEF flatten
  <2>7. 1 \in 1 .. n /\ n \in 1 .. n
    BY <2>0
  <2>8. flatten[1] \in Seq(S)
    BY <2>0, <2>6, <2>7
  <2>9. ASSUME NEW i \in 1 + 1 .. n, flatten[i - 1] \in Seq(S) PROVE flatten[i] \in Seq(S)
    <3>1. i \in 1 .. n /\ i # 1
      BY <2>0
    <3>2. flatten[i] = flatten[i - 1] \o ss[i] /\ ss[i] \in Seq(S)
      BY <1>1, <2>6, <3>1 DEF n
    <3> QED BY <2>9, <3>2
  <2>10. \A i \in 1 .. n : flatten[i] \in Seq(S)
    BY <2>0, <2>8, <2>9, Climbs
  <2>11. FlattenSeq(ss) = flatten[n]
    BY <1>3 DEF FlattenSeq, flatten, n
  <2> QED BY <2>7, <2>10, <2>11
<1> QED BY <1>2, <1>3

\* The escapes.
LEMMA EscapesAre == DOMAIN Escapes = {34, 47, 92, 98, 102, 110, 114, 116} /\ DOMAIN Escapes \subseteq Nat
  /\ \A e \in DOMAIN Escapes : e # 47 => Escapes[e] \in {34, 92, 8, 12, 10, 13, 9}
BY DEF Escapes

\* The hexadecimal digits.
LEMMA HexIs == \A i \in 1 .. 16 : Hex[i] \in Nat
<1>1. Hex \in Seq(Nat) /\ Len(Hex) = 16
  BY DEF Hex
<1>2. \A i \in 1 .. 16 : i \in 1 .. Len(Hex)
  BY <1>1
<1> SUFFICES ASSUME NEW i \in 1 .. 16 PROVE Hex[i] \in Nat
  OBVIOUS
<1>3. i \in 1 .. Len(Hex)
  BY <1>2
<1> QED BY <1>1, <1>3, ElementOfSeq

\* A character, quoted.
LEMMA QuotedCharIs == \A c \in Nat : QuotedChar(c) \in Seq(Nat)
<1> TAKE c \in Nat
<1> DEFINE E == {Escapes[e] : e \in DOMAIN Escapes \ {47}}
           C == c \in 1 .. 31 /\ c \notin {8, 9, 10, 12, 13}
           x == CHOOSE e \in DOMAIN Escapes : Escapes[e] = c
           u == <<Backslash, LetterU, 48, 48, Hex[c \div 16 + 1], Hex[(c % 16) + 1]>>
<1>0. QuotedChar(c) = CASE c \in E -> <<Backslash, x>> [] C -> u [] OTHER -> <<c>>
  BY Zenon DEF QuotedChar
<1>1. CASE c \in E
  <2>1. x \in DOMAIN Escapes
    BY <1>1
  <2>2. ~C
    BY <1>1, EscapesAre
  <2> HIDE DEF E, C, x, u
  <2>3. x \in Nat /\ Backslash \in Nat
    BY <2>1, EscapesAre DEF Backslash
  <2>4. <<Backslash, x>> \in Seq(Nat)
    BY <2>3
  <2>5. QuotedChar(c) = <<Backslash, x>>
    BY <1>0, <1>1, <2>2, Zenon
  <2> QED BY <2>4, <2>5
<1>2. CASE c \notin E /\ C
  <2>1. c \in 1 .. 31
    BY <1>2
  <2>2. c \div 16 + 1 \in 1 .. 16 /\ (c % 16) + 1 \in 1 .. 16
    BY <2>1
  <2>3. Hex[c \div 16 + 1] \in Nat /\ Hex[(c % 16) + 1] \in Nat
    BY <2>2, HexIs
  <2>4. u \in Seq(Nat)
    <3> DEFINE h == Hex[c \div 16 + 1]
               k == Hex[(c % 16) + 1]
    <3>1. h \in Nat /\ k \in Nat
      BY <2>3
    <3> HIDE DEF h, k
    <3>2. <<Backslash, LetterU, 48, 48, h, k>> \in Seq(Nat)
      BY <3>1 DEF Backslash, LetterU
    <3> QED BY <3>2 DEF h, k
  <2> HIDE DEF E, C, x, u
  <2>5. QuotedChar(c) = u
    BY <1>0, <1>2, Zenon
  <2> QED BY <2>4, <2>5
<1>3. CASE c \notin E /\ ~C
  <2> HIDE DEF E, C, x, u
  <2>1. QuotedChar(c) = <<c>>
    BY <1>0, <1>3, Zenon
  <2> QED BY <2>1
<1> QED BY <1>1, <1>2, <1>3

\* A text, quoted.
LEMMA QuotedStringIs == \A s \in Seq(Nat) : QuotedString(s) \in Seq(Nat)
<1> TAKE s \in Seq(Nat)
<1> DEFINE t == CStr(s)
           q == [i \in DOMAIN t |-> QuotedChar(s[i])]
<1>1. t \in Seq(Nat) /\ Len(t) <= Len(s)
  BY CStrIs
<1> HIDE DEF t
<1>2. ASSUME NEW i \in 1 .. Len(t) PROVE QuotedChar(s[i]) \in Seq(Nat)
  <2>1. i \in 1 .. Len(s)
    BY <1>1
  <2>2. s[i] \in Nat
    BY <2>1
  <2> QED BY <2>2, QuotedCharIs
<1>3. q \in Seq(Seq(Nat))
  <2>1. DOMAIN t = 1 .. Len(t) /\ Len(t) \in Nat
    BY <1>1
  <2> QED BY <1>2, <2>1
<1> HIDE DEF q
<1>4. FlattenSeq(q) \in Seq(Nat)
  BY <1>3, FlattenIs
<1> QED BY <1>4 DEF QuotedString, q, t
-----------------------------------------------------------------------------
\* uintToString writes at least one digit.
Digits == {s \in Seq(Nat) : s # <<>>}

\* A number, written.
LEMMA UIntIs ==
  ASSUME NEW n \in Nat
  PROVE  UIntToString(n) \in Digits
<1> DEFINE Writes(f, m) == f[m] = (IF m < 10 THEN <<>> ELSE f[m \div 10]) \o <<48 + (m % 10)>>
           T == {k \in 0 .. n : \E f \in [0 .. k -> Digits] : \A m \in 0 .. k : Writes(f, m)}
<1>1. ASSUME NEW m \in Nat
      PROVE  m \div 10 \in Nat /\ m % 10 \in Nat /\ (m >= 10 => m \div 10 < m)
  OBVIOUS
<1>2. ASSUME NEW m \in Nat, NEW s \in Digits \cup {<<>>}
      PROVE  s \o <<48 + (m % 10)>> \in Digits
  <2>1. 48 + (m % 10) \in Nat
    BY <1>1
  <2> DEFINE d == 48 + (m % 10)
  <2> HIDE DEF d
  <2>a. d \in Nat
    BY <2>1 DEF d
  <2>b. s \in Seq(Nat)
    <3>1. <<>> \in Seq(Nat)
      OBVIOUS
    <3>2. Digits \subseteq Seq(Nat)
      BY DEF Digits
    <3> QED BY <3>1, <3>2
  <2>2. s \in Seq(Nat) /\ <<d>> \in Seq(Nat) /\ Len(<<d>>) = 1
    BY <2>a, <2>b
  <2>3. s \o <<d>> \in Seq(Nat) /\ Len(s \o <<d>>) = Len(s) + 1 /\ Len(s) \in Nat
    BY <2>2
  <2>4. s \o <<d>> # <<>>
    BY <2>3
  <2> QED BY <2>3, <2>4 DEF d, Digits
<1>3. 0 \in T
  <2> DEFINE f == [m \in 0 .. 0 |-> <<>> \o <<48 + (0 % 10)>>]
  <2>1. <<>> \o <<48 + (0 % 10)>> \in Digits
    BY <1>2
  <2>2. f \in [0 .. 0 -> Digits]
    BY <2>1
  <2>3. \A m \in 0 .. 0 : Writes(f, m)
    OBVIOUS
  <2> HIDE DEF f, Writes
  <2>4. \E g \in [0 .. 0 -> Digits] : \A m \in 0 .. 0 : Writes(g, m)
    BY <2>2, <2>3
  <2>5. 0 \in 0 .. n
    OBVIOUS
  <2> QED BY <2>4, <2>5
<1>4. ASSUME NEW k \in 0 .. n - 1, k \in T PROVE k + 1 \in T
  <2>1. PICK f \in [0 .. k -> Digits] : \A m \in 0 .. k : Writes(f, m)
    BY <1>4
  <2> DEFINE x == (IF k + 1 < 10 THEN <<>> ELSE f[(k + 1) \div 10]) \o <<48 + ((k + 1) % 10)>>
             h == [m \in 0 .. k + 1 |-> IF m = k + 1 THEN x ELSE f[m]]
  <2>2. (k + 1) \in Nat /\ (k + 1 >= 10 => (k + 1) \div 10 \in 0 .. k) /\ k \in Nat
    BY <1>1
  <2>3. x \in Digits
    <3>1. (IF k + 1 < 10 THEN <<>> ELSE f[(k + 1) \div 10]) \in Digits \cup {<<>>}
      BY <2>2
    <3> QED BY <2>2, <3>1, <1>2
  <2>4. ASSUME NEW m \in 0 .. k + 1 PROVE Writes(h, m)
    <3>1. m >= 10 => m \div 10 \in 0 .. k + 1 /\ m \div 10 # k + 1 /\ m \div 10 \in 0 .. k
      <4>1. m \in Nat
        OBVIOUS
      <4>2. m \div 10 \in Nat /\ (m >= 10 => m \div 10 < m)
        BY <4>1, <1>1
      <4> DEFINE e == m \div 10
      <4> HIDE DEF e
      <4>3. m >= 10 => e \in 0 .. k + 1 /\ e # k + 1 /\ e \in 0 .. k
        BY <2>2, <4>1, <4>2 DEF e
      <4> QED BY <4>3 DEF e
    <3>2. CASE m = k + 1
      <4>1. h[m] = x
        BY <3>2
      <4>2. m >= 10 => h[m \div 10] = f[m \div 10]
        BY <3>1
      <4> HIDE DEF h
      <4>3. (IF k + 1 < 10 THEN <<>> ELSE f[(k + 1) \div 10]) = (IF m < 10 THEN <<>> ELSE h[m \div 10])
        BY <2>2, <3>2, <4>2
      <4> QED BY <3>2, <4>1, <4>3
    <3>3. CASE m # k + 1
      <4>1. m \in 0 .. k /\ h[m] = f[m]
        BY <2>2, <3>3
      <4>2. m >= 10 => h[m \div 10] = f[m \div 10]
        BY <3>1
      <4>3. Writes(f, m)
        BY <2>1, <4>1
      <4> HIDE DEF h
      <4>4. (IF m < 10 THEN <<>> ELSE f[m \div 10]) = (IF m < 10 THEN <<>> ELSE h[m \div 10])
        BY <2>2, <4>1, <4>2
      <4> QED BY <4>1, <4>3, <4>4
    <3> QED BY <3>2, <3>3
  <2>5. h \in [0 .. k + 1 -> Digits]
    <3> HIDE DEF x
    <3>1. \A m \in 0 .. k + 1 : m # k + 1 => m \in 0 .. k
      BY <2>2
    <3> QED BY <2>3, <3>1
  <2>6. k + 1 \in 0 .. n
    BY <2>2
  <2> HIDE DEF h, Writes
  <2>7. \E g \in [0 .. k + 1 -> Digits] : \A m \in 0 .. k + 1 : Writes(g, m)
    BY <2>4, <2>5
  <2> QED BY <2>6, <2>7
<1>5. n \in T
  <2> HIDE DEF T
  <2>1. \A k \in 0 .. n : k \in T
    BY <1>3, <1>4, UpTo
  <2> QED BY <2>1
<1>6. PICK f \in [0 .. n -> Digits] : \A m \in 0 .. n : Writes(f, m)
  BY <1>5
<1> DEFINE digits[m \in 0 .. n] == (IF m < 10 THEN <<>> ELSE digits[m \div 10]) \o <<48 + (m % 10)>>
<1>7. f = [m \in 0 .. n |-> (IF m < 10 THEN <<>> ELSE f[m \div 10]) \o <<48 + (m % 10)>>]
  BY <1>6
<1>8. digits = [m \in 0 .. n |-> (IF m < 10 THEN <<>> ELSE digits[m \div 10]) \o <<48 + (m % 10)>>]
  BY <1>7
<1>9. UIntToString(n) = digits[n]
  BY DEF UIntToString
<1> HIDE DEF digits
<1>10. \A m \in 0 .. n : Writes(digits, m)
  BY <1>8, Zenon
<1> HIDE DEF Writes
<1> DEFINE W == {m \in 0 .. n : digits[m] \notin Digits}
<1>11. W = {}
  <2> SUFFICES ASSUME W # {} PROVE FALSE
    OBVIOUS
  <2>1. W \subseteq Nat
    OBVIOUS
  <2>2. PICK m \in W : \A y \in W : m <= y
    BY <2>1, NatMin
  <2>3. m \in 0 .. n /\ m \in Nat /\ digits[m] \notin Digits
    BY <2>2
  <2> DEFINE e == m \div 10
  <2>4. e \in Nat /\ (m >= 10 => e < m)
    BY <1>1, <2>3
  <2>5. digits[m] = (IF m < 10 THEN <<>> ELSE digits[e]) \o <<48 + (m % 10)>>
    BY <1>10, <2>3 DEF Writes
  <2> HIDE DEF e
  <2>6. m >= 10 => digits[e] \in Digits
    <3>1. m >= 10 => e \in 0 .. n /\ ~(m <= e)
      BY <2>3, <2>4
    <3> QED BY <2>2, <3>1
  <2>7. (IF m < 10 THEN <<>> ELSE digits[e]) \in Digits \cup {<<>>}
    BY <2>3, <2>6
  <2> DEFINE h == IF m < 10 THEN <<>> ELSE digits[e]
  <2>8. h \in Digits \cup {<<>>} /\ digits[m] = h \o <<48 + (m % 10)>>
    BY <2>5, <2>7
  <2> HIDE DEF h
  <2>9. h \o <<48 + (m % 10)>> \in Digits
    BY <1>2, <2>3, <2>8
  <2> QED BY <2>3, <2>8, <2>9
<1>12. n \in 0 .. n
  OBVIOUS
<1>13. digits[n] \in Digits
  BY <1>11, <1>12
<1> QED BY <1>9, <1>13

\* A sign before the digits.
LEMMA SignedIs ==
  ASSUME NEW s \in Digits, NEW sign \in BOOLEAN
  PROVE  (IF sign THEN <<Minus>> ELSE <<>>) \o s \in Digits
<1>1. <<Minus>> \in Seq(Nat) /\ <<>> \in Seq(Nat)
  BY DEF Minus
<1> DEFINE h == IF sign THEN <<Minus>> ELSE <<>>
<1>2. h \in Seq(Nat) /\ s \in Seq(Nat) /\ s # <<>>
  BY <1>1 DEF Digits
<1> HIDE DEF h
<1>3. h \o s \in Seq(Nat) /\ Len(h \o s) = Len(h) + Len(s) /\ Len(h) \in Nat /\ Len(s) \in Nat /\ Len(s) # 0
  BY <1>2
<1>4. h \o s # <<>>
  BY <1>3
<1> QED BY <1>3, <1>4 DEF Digits, h

\* valueToString of Int.
LEMMA IntIs == \A n \in Int : IntToString(n) \in Digits
<1> TAKE n \in Int
<1> DEFINE a == IF n < 0 THEN -n ELSE n
           m == a % 2 ^ Bits
<1>1. m \in Nat
  <2> DEFINE b == 2 ^ Bits
  <2>1. b \in Nat /\ b > 0
    BY BitsAssumption
  <2> HIDE DEF b
  <2>2. a \in Nat
    OBVIOUS
  <2>3. a % b \in Nat
    BY <2>1, <2>2
  <2> QED BY <2>3 DEF b
<1> HIDE DEF m
<1>2. UIntToString(m) \in Digits
  BY <1>1, UIntIs
<1> DEFINE sign == n < 0
<1>3. (IF sign THEN <<Minus>> ELSE <<>>) \o UIntToString(m) \in Digits
  <2>1. sign \in BOOLEAN
    OBVIOUS
  <2> HIDE DEF sign
  <2> QED BY <1>2, <2>1, SignedIs
<1>4. IntToString(n) = (IF sign THEN <<Minus>> ELSE <<>>) \o UIntToString(m)
  BY DEF IntToString, m
<1> QED BY <1>3, <1>4

\* valueToString of double.
LEMMA RealIs == \A n \in Int : DoubleToString(n) \in Digits
<1> TAKE n \in Int
<1> DEFINE m == IF n < 0 THEN -n ELSE n
           sign == n < 0
           head == (IF sign THEN <<Minus>> ELSE <<>>) \o UIntToString(m)
<1>1. m \in Nat /\ sign \in BOOLEAN
  OBVIOUS
<1>2. DoubleToString(n) = head \o <<Dot, 48>>
  BY DEF DoubleToString
<1> HIDE DEF m, sign
<1>3. head \in Digits
  BY <1>1, UIntIs, SignedIs
<1> HIDE DEF head
<1>4. head \in Seq(Nat) /\ <<Dot, 48>> \in Seq(Nat) /\ Len(<<Dot, 48>>) = 2
  BY <1>3 DEF Digits, Dot
<1>5. head \o <<Dot, 48>> \in Seq(Nat) /\ Len(head \o <<Dot, 48>>) = Len(head) + 2 /\ Len(head) \in Nat
  BY <1>4
<1>6. head \o <<Dot, 48>> # <<>>
  BY <1>5
<1> QED BY <1>2, <1>5, <1>6 DEF Digits
-----------------------------------------------------------------------------
\* What was written of a number or a text is a lexeme.
LEMMA LexIs ==
  /\ \A s \in Digits : Lex("number", s) \in Lexeme
  /\ \A s \in Seq(Nat) : Lex("string", s) \in Lexeme
BY DEF Lex, Lexeme, Digits, Tokens

\* What valueToString makes of a scalar is a lexeme.
LEMMA ScalarIs ==
  ASSUME NEW t, Tree(t, Building), NEW p \in DOMAIN t, t[p].type \notin Containers
  PROVE  Scalar(t[p]) \in Lexeme
<1> DEFINE n == t[p]
           x == n.val[1]
<1>1. /\ n.type \in TypeNames
      /\ n.type = "int" => x \in MinInt .. MaxInt
      /\ n.type = "uint" => x \in 0 .. MaxUInt
      /\ n.type = "real" => x \in Int
  BY NumbersThere
<1>2. n.type = "string" => n.val \in Seq(Nat)
  <2>1. Sound(n, Building)
    BY DEF Tree, Forest
  <2> HIDE DEF n
  <2> QED BY <2>1, BuildingIs DEF Sound
<1>3. n.type \in {"int", "uint"} => x \in Int
  BY <1>1, Ranges
<1> HIDE DEF n, x
<1>4. CASE n.type = "null"
  <2>1. Scalar(n) = Mark("null")
    BY <1>4 DEF Scalar
  <2> QED BY <2>1, MarkLexeme DEF Tokens, n
<1>5. CASE n.type \in {"int", "uint"}
  <2>1. Scalar(n) = Lex("number", IntToString(x))
    BY <1>5 DEF Scalar, x
  <2> QED BY <1>3, <1>5, <2>1, IntIs, LexIs DEF n
<1>6. CASE n.type = "real"
  <2>1. Scalar(n) = Lex("number", DoubleToString(x))
    BY <1>6 DEF Scalar, x
  <2> QED BY <1>1, <1>6, <2>1, RealIs, LexIs DEF n
<1>7. CASE n.type = "string"
  <2>1. Scalar(n) = Lex("string", QuotedString(n.val))
    BY <1>7 DEF Scalar
  <2>2. QuotedString(n.val) \in Seq(Nat)
    BY <1>2, <1>7, QuotedStringIs
  <2>3. Lex("string", QuotedString(n.val)) \in Lexeme
    BY <2>2, LexIs
  <2> QED BY <2>1, <2>3 DEF n
<1>8. CASE n.type = "boolean"
  <2>1. Scalar(n) = Mark(IF n.val = <<1>> THEN "true" ELSE "false")
    BY <1>8 DEF Scalar
  <2>2. Mark("true") \in Lexeme /\ Mark("false") \in Lexeme
    BY MarkLexeme DEF Tokens
  <2>3. Scalar(n) \in {Mark("true"), Mark("false")}
    BY <2>1
  <2> QED BY <2>2, <2>3 DEF n
<1>9. n.type \notin Containers
  BY DEF n
<1> QED BY <1>1, <1>4, <1>5, <1>6, <1>7, <1>8, <1>9 DEF TypeNames, Containers

\* So is a name.
LEMMA NameLexIs == \A k \in 0 .. Len(Names) - 1 : NameLex(k) \in Lexeme
<1> TAKE k \in 0 .. Len(Names) - 1
<1>1. Len(Names) \in Nat /\ Names \in Seq(Seq(Nat))
  BY NamesLen
<1>2. k + 1 \in 1 .. Len(Names)
  BY <1>1
<1>3. Names[k + 1] \in Seq(Nat)
  BY <1>1, <1>2, ElementOfSeq
<1> QED BY <1>3, QuotedStringIs, LexIs DEF NameLex
-----------------------------------------------------------------------------
(* What is around the values. *)

Smaller(S, k) == Cardinality({j \in S : j < k})

\* Of a finite set of integers, each rank below its size is the one of one member.
LEMMA RankIs ==
  ASSUME NEW S, S \subseteq Int, IsFiniteSet(S)
  PROVE  /\ \A i \in 1 .. Cardinality(S) : \E k \in S : Smaller(S, k) = i - 1
         /\ \A x, y \in S : Smaller(S, x) = Smaller(S, y) => x = y
         /\ \A x \in S : Smaller(S, x) \in 0 .. Cardinality(S) - 1
<1> DEFINE n == Cardinality(S)
           Less(k) == {j \in S : j < k}
           f == [k \in S |-> Cardinality(Less(k))]
<1>1. n \in Nat
  BY FS_CardinalityType
<1>2. ASSUME NEW k \in S PROVE IsFiniteSet(Less(k)) /\ Cardinality(Less(k)) \in 0 .. n - 1
  <2>1. Less(k) \in SUBSET S /\ k \notin Less(k)
    OBVIOUS
  <2> HIDE DEF Less
  <2>2. IsFiniteSet(Less(k)) /\ Cardinality(Less(k)) <= n /\ (n = Cardinality(Less(k)) => S = Less(k))
    BY <2>1, FS_Subset
  <2>3. Cardinality(Less(k)) \in Nat /\ n # Cardinality(Less(k))
    BY <2>1, <2>2, FS_CardinalityType
  <2> HIDE DEF n
  <2> QED BY <1>1, <2>2, <2>3
<1>3. ASSUME NEW j \in S, NEW k \in S, j < k PROVE f[j] # f[k]
  <2>0. ASSUME NEW x \in S, x < j PROVE x < k
    <3>1. x \in Int /\ j \in Int /\ k \in Int
      OBVIOUS
    <3> QED BY <1>3, <2>0, <3>1
  <2>1. Less(j) \in SUBSET Less(k) /\ j \in Less(k) /\ j \notin Less(j)
    <3>1. j \in Int /\ ~(j < j)
      OBVIOUS
    <3> QED BY <1>3, <2>0, <3>1
  <2>2. IsFiniteSet(Less(k)) /\ f[j] = Cardinality(Less(j)) /\ f[k] = Cardinality(Less(k))
    BY <1>2
  <2> HIDE DEF Less, f
  <2>3. Cardinality(Less(k)) = Cardinality(Less(j)) => Less(k) = Less(j)
    BY <2>1, <2>2, FS_Subset
  <2> QED BY <2>1, <2>2, <2>3
<1>4. f \in [S -> 0 .. n - 1]
  BY <1>2
<1>5. \A j, k \in S : f[j] = f[k] => j = k
  <2> HIDE DEF f
  <2> SUFFICES ASSUME NEW j \in S, NEW k \in S, f[j] = f[k], j # k PROVE FALSE
    OBVIOUS
  <2>1. j < k \/ k < j
    OBVIOUS
  <2> QED BY <1>3, <2>1
<1> HIDE DEF f, n
<1>6. IsFiniteSet(0 .. n - 1) /\ Cardinality(0 .. n - 1) = n
  <2>1. 0 \in Int /\ n - 1 \in Int
    BY <1>1
  <2>2. IsFiniteSet(0 .. n - 1) /\ Cardinality(0 .. n - 1) = IF 0 > n - 1 THEN 0 ELSE n - 1 - 0 + 1
    BY <2>1, FS_Interval
  <2> QED BY <1>1, <2>2
<1>7. f \in Injection(S, 0 .. n - 1)
  BY <1>4, <1>5 DEF Injection, IsInjective
<1>8. f \in Surjection(S, 0 .. n - 1)
  BY <1>6, <1>7, FS_Injection DEF n
<1>9. \A i \in 0 .. n - 1 : \E k \in S : f[k] = i
  BY <1>8 DEF Surjection
<1>10. \A x \in S : f[x] = Smaller(S, x)
  BY DEF f, Smaller
<1>11. ASSUME NEW i \in 1 .. n PROVE \E k \in S : Smaller(S, k) = i - 1
  <2>1. i - 1 \in 0 .. n - 1
    BY <1>1
  <2>2. PICK k \in S : f[k] = i - 1
    BY <1>9, <2>1
  <2> QED BY <1>10, <2>2
<1>12. \A x, y \in S : Smaller(S, x) = Smaller(S, y) => x = y
  BY <1>5, <1>10
<1>13. \A x \in S : Smaller(S, x) \in 0 .. n - 1
  BY <1>4, <1>10
<1> QED BY <1>11, <1>12, <1>13 DEF n

\* The key of a part is one of the container's, or an index.
LEMMA KeyAtIs ==
  ASSUME NEW t, Tree(t, Building), NEW p \in DOMAIN t, t[p].type \in Containers, NEW i \in 1 .. Size(t, p)
  PROVE  /\ KeyAt(t, p, i) \in Int
         /\ t[p].type = "object" => KeyAt(t, p, i) \in 0 .. Len(Names) - 1
<1>0. p \in Place
  BY DEF Tree, Forest
<1>1. CASE t[p].type = "object"
  <2> DEFINE S == Keys(t, p)
  <2>1. IsFiniteSet(S) /\ S \subseteq Int
    BY <1>0, KeysFinite, KeysAre
  <2>2. Size(t, p) = Cardinality(S)
    BY <1>1 DEF Size
  <2>3. \E k \in S : Cardinality({j \in S : j < k}) = i - 1
    <3>1. i \in 1 .. Cardinality(S)
      BY <2>2
    <3> HIDE DEF S
    <3>2. \E k \in S : Smaller(S, k) = i - 1
      BY <2>1, <3>1, RankIs
    <3> QED BY <3>2 DEF Smaller
  <2>4. KeyAt(t, p, i) = CHOOSE k \in S : Cardinality({j \in S : j < k}) = i - 1
    BY <1>1, <2>2 DEF KeyAt, MemberNames
  <2>5. KeyAt(t, p, i) \in S
    <3> HIDE DEF S
    <3> QED BY <2>3, <2>4
  <2>6. \A k \in S : k \in 0 .. Len(Names) - 1
    <3> SUFFICES ASSUME NEW k \in S PROVE k \in 0 .. Len(Names) - 1
      OBVIOUS
    <3>1. k \in Int /\ Append(p, k) \in DOMAIN t
      BY <1>0, <2>1, KeysAre
    <3>2. Append(p, k) # <<>> /\ Front(Append(p, k)) = p /\ Append(p, k)[Len(Append(p, k))] = k
      BY <1>0, <3>1, AppendPlace
    <3>3. Fits(t[Front(Append(p, k))].type, Append(p, k)[Len(Append(p, k))], Building)
      BY <3>1, <3>2 DEF Tree
    <3>4. Fits("object", k, Building)
      BY <1>1, <3>2, <3>3
    <3> QED BY <3>4, BuildingIs DEF Fits
  <2> QED BY <2>1, <2>5, <2>6
<1>2. CASE t[p].type # "object"
  <2>1. KeyAt(t, p, i) = i - 1
    BY <1>2 DEF KeyAt
  <2>2. Size(t, p) \in Nat
    BY SizeIs
  <2>3. i \in Int
    BY <2>2
  <2> QED BY <1>2, <2>1, <2>3
<1> QED BY <1>1, <1>2

\* A member is a tree.
LEMMA MemberTree ==
  ASSUME NEW t, Tree(t, Building), NEW p \in DOMAIN t, NEW k \in Int
  PROVE  Tree(Member(t, p, k), Building)
<1>0. p \in Place
  BY DEF Tree, Forest
<1>1. CASE Has(t, p, k)
  <2>1. Append(p, k) \in DOMAIN t
    BY <1>0, <1>1, KeysAre DEF Has
  <2>2. Tree(Sub(t, Append(p, k)), Building)
    BY <2>1, SubIs
  <2> QED BY <1>1, <2>2 DEF Member
<1>2. CASE ~Has(t, p, k)
  <2>1. Tree(Null, Building)
    BY NullIs, BuildingIs
  <2> QED BY <1>2, <2>1 DEF Member
<1> QED BY <1>1, <1>2
-----------------------------------------------------------------------------
Lines == Seq(Lexeme)

\* The marks that the writers use.
LEMMA MarksAre ==
  /\ \A tok \in {"null", "SP", "NL", ",", ":", "[", "]"} : Mark(tok) \in Lexeme
  /\ Mark("{") \in Lexeme /\ Mark("}") \in Lexeme /\ Space \in Lexeme
<1>1. \A tok \in {"null", "SP", "NL", ",", ":", "[", "]", "{", "}"} : tok \in Tokens /\ tok # "number"
  BY Zenon DEF Tokens, NewLines
<1>2. \A tok \in {"null", "SP", "NL", ",", ":", "[", "]", "{", "}"} : Mark(tok) \in Lexeme
  BY <1>1, MarkLexeme, Zenon
<1> QED BY <1>2, Zenon DEF Space

\* The lemmas on sequences that the rest needs.
LEMMA Joined ==
  /\ <<>> \in Lines
  /\ \A a, b \in Lines : a \o b \in Lines
  /\ \A a \in Lines, l \in Lexeme : Append(a, l) \in Lines
  /\ \A l \in Lexeme : <<l>> \in Lines
  /\ \A l, m \in Lexeme : <<l, m>> \in Lines
  /\ \A k, l, m, n \in Lexeme : <<k, l, m, n>> \in Lines
BY DEF Lines

\* writeIndent.
LEMMA IndentIs ==
  ASSUME NEW doc \in Lines, NEW style, NEW depth
  PROVE  /\ WriteIndent(doc, style, depth) \in Lines
         /\ \A lexemes \in Lines : WithIndent(doc, style, depth, lexemes) \in Lines
<1>1. Indentation(depth) \in Lines
  <2>1. Indentation(depth) \in {<<>>, <<Space>>}
    BY DEF Indentation
  <2> QED BY <2>1, Joined, MarksAre
<1>2. <<Mark("NL")>> \in Lines
  BY Joined, MarksAre
<1>3. doc \o Indentation(depth) \in Lines /\ doc \o <<Mark("NL")>> \o Indentation(depth) \in Lines
  BY <1>1, <1>2, Joined
<1>4. StyledIndent(doc, depth) \in Lines
  <2>1. CASE LastIs(doc, "SP")
    <3>1. ~(doc = <<>> \/ LastIs(doc, "NL"))
      BY <2>1 DEF LastIs
    <3>2. StyledIndent(doc, depth) = doc
      BY <2>1, <3>1, Zenon DEF StyledIndent
    <3> QED BY <3>2
  <2>2. CASE ~LastIs(doc, "SP") /\ (doc = <<>> \/ LastIs(doc, "NL"))
    <3>1. StyledIndent(doc, depth) = doc \o Indentation(depth)
      BY <2>2, Zenon DEF StyledIndent
    <3> QED BY <1>3, <3>1
  <2>3. CASE ~LastIs(doc, "SP") /\ ~(doc = <<>> \/ LastIs(doc, "NL"))
    <3>1. StyledIndent(doc, depth) = doc \o <<Mark("NL")>> \o Indentation(depth)
      BY <2>3, Zenon DEF StyledIndent
    <3> QED BY <1>3, <3>1
  <2> QED BY <2>1, <2>2, <2>3
<1>5. WriteIndent(doc, style, depth) \in Lines
  BY <1>3, <1>4 DEF WriteIndent, StreamIndent
<1> QED BY <1>5, Joined DEF WithIndent

\* The comments before and behind a value.
LEMMA CommentsWritten ==
  ASSUME NEW n, Sound(n, Building)
  PROVE  CommentBefore(n) \in Lines /\ CommentAfter(n) \in Lines
<1>1. ASSUME NEW c \in Lines PROVE NormalizeEOL(c) \in Lines
  <2>1. DOMAIN c = 1 .. Len(c) /\ Len(c) \in Nat /\ \A i \in 1 .. Len(c) : c[i] \in Lexeme
    BY DEF Lines
  <2>2. Mark("NL") \in Lexeme
    BY MarksAre
  <2> DEFINE nl == Mark("NL")
             d == [i \in 1 .. Len(c) |-> IF c[i].tok = "CR" THEN nl ELSE c[i]]
  <2> HIDE DEF nl
  <2>3. nl \in Lexeme
    BY <2>2 DEF nl
  <2>4. d \in Lines
    BY <2>1, <2>3 DEF Lines
  <2> HIDE DEF d
  <2>5. NormalizeEOL(c) = d
    BY <2>1 DEF NormalizeEOL, d, nl
  <2> QED BY <2>4, <2>5
<1>2. \A p \in {"before", "sameLine", "after"} : NormalizeEOL(n.comment[p]) \in Lines
  <2>1. \A p \in {"before", "sameLine", "after"} : n.comment[p] \in Lines
    BY DEF Sound, Placements, Lines
  <2> QED BY <1>1, <2>1
<1>3. Mark("NL") \in Lexeme /\ Space \in Lexeme
  BY MarksAre
<1> DEFINE b == NormalizeEOL(n.comment["before"])
           s == NormalizeEOL(n.comment["sameLine"])
           a == NormalizeEOL(n.comment["after"])
           nl == Mark("NL")
           x == IF HasComment(n, "sameLine") THEN <<Space>> \o s ELSE <<>>
           y == IF HasComment(n, "after") THEN <<nl>> \o a \o <<nl>> ELSE <<>>
<1>4. CommentBefore(n) = (IF HasComment(n, "before") THEN Append(b, nl) ELSE <<>>)
      /\ CommentAfter(n) = x \o y
  BY DEF CommentBefore, CommentAfter
<1>5. b \in Lines /\ s \in Lines /\ a \in Lines /\ nl \in Lexeme
  BY <1>2, <1>3
<1> HIDE DEF b, s, a, nl
<1>6. Append(b, nl) \in Lines /\ <<Space>> \o s \in Lines /\ <<nl>> \o a \o <<nl>> \in Lines /\ <<>> \in Lines
  BY <1>3, <1>5, Joined
<1>7. x \in Lines /\ y \in Lines
  BY <1>6
<1> HIDE DEF x, y
<1> QED BY <1>4, <1>6, <1>7, Joined

\* The brackets of the containers.
LEMMA BracketsAre ==
  ASSUME NEW type \in Containers
  PROVE  Brackets[type] \in Lines /\ Brackets[type][1] \in Lexeme /\ Brackets[type][2] \in Lexeme
<1> DEFINE a == Mark("[")
           b == Mark("]")
           c == Mark("{")
           d == Mark("}")
<1>1. a \in Lexeme /\ b \in Lexeme /\ c \in Lexeme /\ d \in Lexeme
  BY MarksAre, Zenon
<1>2. Brackets = [array |-> <<a, b>>, object |-> <<c, d>>]
  BY Zenon DEF Brackets
<1> HIDE DEF a, b, c, d
<1>3. Brackets[type] = <<a, b>> \/ Brackets[type] = <<c, d>>
  BY <1>2 DEF Containers
<1>4. \A x, y \in Lexeme : <<x, y>> \in Lines /\ <<x, y>>[1] \in Lexeme /\ <<x, y>>[2] \in Lexeme
  <2> TAKE x, y \in Lexeme
  <2>1. <<x, y>> \in Lines
    BY Joined
  <2>2. <<x, y>>[1] = x /\ <<x, y>>[2] = y
    OBVIOUS
  <2> QED BY <2>1, <2>2
<1>5. \E x, y \in Lexeme : Brackets[type] = <<x, y>>
  BY <1>1, <1>3
<1> QED BY <1>4, <1>5

\* pushValue.
LEMMA PushedIs ==
  ASSUME NEW v, Tree(v, Building)
  PROVE  Pushed(v) \in Lines
<1>1. CASE v[<<>>].type \in Containers
  BY <1>1, BracketsAre DEF Pushed
<1>2. CASE v[<<>>].type \notin Containers
  <2>1. <<>> \in DOMAIN v
    BY DEF Tree
  <2>2. Scalar(v[<<>>]) \in Lexeme
    BY <1>2, <2>1, ScalarIs
  <2>3. Pushed(v) = <<Scalar(v[<<>>])>>
    BY <1>2 DEF Pushed
  <2> HIDE DEF Lexeme
  <2> QED BY <2>2, <2>3, Joined
<1> QED BY <1>1, <1>2

\* Parts with commas between them.
LEMMA SeparatedIs ==
  ASSUME NEW parts \in Seq(Lines)
  PROVE  Separated(parts) \in Lines
<1> DEFINE comma == Mark(",")
           s == [i \in DOMAIN parts |-> (IF i > 1 THEN <<comma>> ELSE <<>>) \o parts[i]]
<1>1. comma \in Lexeme
  BY MarksAre
<1>2. DOMAIN parts = 1 .. Len(parts) /\ Len(parts) \in Nat /\ \A i \in 1 .. Len(parts) : parts[i] \in Lines
  BY ElementOfSeq
<1>3. Separated(parts) = FlattenSeq(s)
  BY DEF Separated
<1> HIDE DEF comma
<1>4. <<comma>> \in Lines /\ <<>> \in Lines
  BY <1>1, Joined
<1>5. ASSUME NEW i \in DOMAIN parts PROVE s[i] \in Lines
  <2> DEFINE h == IF i > 1 THEN <<comma>> ELSE <<>>
  <2>1. h \in Lines /\ parts[i] \in Lines
    BY <1>2, <1>4
  <2>2. s[i] = h \o parts[i]
    OBVIOUS
  <2> HIDE DEF h, s
  <2> QED BY <2>1, <2>2, Joined
<1>6. s \in Seq(Lines)
  <2>1. DOMAIN s = 1 .. Len(parts) /\ s = [i \in 1 .. Len(parts) |-> s[i]]
    BY <1>2
  <2> HIDE DEF s
  <2> QED BY <1>2, <1>5, <2>1
<1> HIDE DEF s
<1> QED BY <1>3, <1>6, FlattenIs DEF Lines

\* The text without spaces.
LEMMA UnspacedIs ==
  ASSUME NEW doc \in Lines
  PROVE  Unspaced(doc) \in Lines
<1> DEFINE s == [i \in DOMAIN doc |-> IF doc[i] = Space THEN <<>> ELSE <<doc[i]>>]
<1>1. DOMAIN doc = 1 .. Len(doc) /\ Len(doc) \in Nat /\ \A i \in 1 .. Len(doc) : doc[i] \in Lexeme
  BY DEF Lines
<1>2. Unspaced(doc) = FlattenSeq(s)
  BY DEF Unspaced
<1>3. \A i \in DOMAIN doc : s[i] \in Lines
  BY <1>1, Joined
<1>4. s \in Seq(Lines)
  <2>1. s = [i \in 1 .. Len(doc) |-> s[i]]
    BY <1>1
  <2> HIDE DEF s
  <2> QED BY <1>1, <1>3, <2>1
<1> HIDE DEF s
<1> QED BY <1>2, <1>4, FlattenIs DEF Lines
-----------------------------------------------------------------------------
(* The parts of a container. writes are the calls of writeValue: typed where   *)
(* there are elements, and all that the parts depend on.                       *)
Typed(t, writes, p)    == \A k \in Keys(t, p) : writes[Append(p, k)] \in [Lines -> Lines]
Agree(t, writes, w, p) == \A k \in Keys(t, p) : writes[Append(p, k)] = w[Append(p, k)]

Part(t, style, writes, p, doc, i) ==
  IF style = "fast" THEN FastPart(t, writes, p, doc, i) ELSE StyledPart(t, style, writes, p, doc, i)

\* Writing an entry.
LEMMA WriteAtIs ==
  ASSUME NEW t, NEW writes, NEW p, NEW k
  PROVE  /\ Typed(t, writes, p) => \A doc \in Lines : WriteAt(t, writes, p, k, doc) \in Lines
         /\ \A w : Agree(t, writes, w, p) => \A doc : WriteAt(t, writes, p, k, doc) = WriteAt(t, w, p, k, doc)
<1> DEFINE null == Mark("null")
<1>1. null \in Lexeme
  BY MarksAre
<1> HIDE DEF null
<1>2. \A doc \in Lines : Append(doc, null) \in Lines
  BY <1>1, Joined
<1>3. \A doc, w : WriteAt(t, w, p, k, doc) = IF k \in Keys(t, p) THEN w[Append(p, k)][doc] ELSE Append(doc, null)
  BY DEF WriteAt, Has, null
<1>4. ASSUME Typed(t, writes, p), NEW doc \in Lines PROVE WriteAt(t, writes, p, k, doc) \in Lines
  <2>1. CASE k \in Keys(t, p)
    <3>1. writes[Append(p, k)] \in [Lines -> Lines]
      BY <1>4, <2>1 DEF Typed
    <3>2. writes[Append(p, k)][doc] \in Lines
      BY <3>1
    <3> QED BY <1>3, <2>1, <3>2
  <2>2. CASE k \notin Keys(t, p)
    BY <1>2, <1>3, <2>2
  <2> QED BY <2>1, <2>2
<1>5. ASSUME NEW w, Agree(t, writes, w, p), NEW doc PROVE WriteAt(t, writes, p, k, doc) = WriteAt(t, w, p, k, doc)
  BY <1>3, <1>5 DEF Agree
<1> QED BY <1>4, <1>5

\* A part depends only on the entries.
LEMMA PartSame ==
  ASSUME NEW t, NEW writes, NEW w, NEW p, Agree(t, writes, w, p), NEW style, NEW doc, NEW i
  PROVE  Part(t, style, writes, p, doc, i) = Part(t, style, w, p, doc, i)
<1>1. \A k, d : WriteAt(t, writes, p, k, d) = WriteAt(t, w, p, k, d)
  BY WriteAtIs
<1>2. FastPart(t, writes, p, doc, i) = FastPart(t, w, p, doc, i)
  BY <1>1, Zenon DEF FastPart
<1>3. StyledPart(t, style, writes, p, doc, i) = StyledPart(t, style, w, p, doc, i)
  BY <1>1, Zenon DEF StyledPart
<1> QED BY <1>2, <1>3, Zenon DEF Part

\* An entry with what stands before and behind it.
LEMMA PartIs ==
  ASSUME NEW t, Tree(t, Building), NEW p \in DOMAIN t, t[p].type \in Containers,
         NEW writes, Typed(t, writes, p), NEW i \in 1 .. Size(t, p), NEW doc \in Lines, NEW style
  PROVE  Part(t, style, writes, p, doc, i) \in Lines
<1> DEFINE k     == KeyAt(t, p, i)
           child == Member(t, p, k)
           colon == Mark(":")
           comma == Mark(",")
           key   == NameLex(k)
           depth == Len(p) + 1
<1>1. k \in Int /\ (t[p].type = "object" => key \in Lexeme)
  BY KeyAtIs, NameLexIs
<1>2. Tree(child, Building) /\ Sound(child[<<>>], Building)
  <2>1. Tree(child, Building)
    BY <1>1, MemberTree
  <2> HIDE DEF child
  <2> QED BY <2>1 DEF Tree, Forest
<1>3. colon \in Lexeme /\ comma \in Lexeme /\ Space \in Lexeme
  BY MarksAre
<1>4. \A d \in Lines : WriteAt(t, writes, p, k, d) \in Lines
  <2> HIDE DEF k
  <2> QED BY WriteAtIs
<1>5. FastPart(t, writes, p, doc, i) \in Lines
  <2> DEFINE name == IF t[p].type = "object" THEN <<key, colon>> ELSE <<>>
             sep  == IF i > 1 THEN <<comma>> ELSE <<>>
  <2>1. FastPart(t, writes, p, doc, i) = WriteAt(t, writes, p, k, doc \o sep \o name)
    BY DEF FastPart
  <2> HIDE DEF k, key, colon, comma
  <2>2. name \in Lines
    <3>1. t[p].type = "object" => <<key, colon>> \in Lines
      BY <1>1, <1>3, Joined
    <3> QED BY <3>1, Joined
  <2>3. sep \in Lines
    <3>1. <<comma>> \in Lines
      BY <1>3, Joined
    <3> QED BY <3>1, Joined
  <2> HIDE DEF name, sep
  <2>4. doc \o sep \in Lines
    BY <2>3, Joined
  <2>5. doc \o sep \o name \in Lines
    BY <2>2, <2>4, Joined
  <2> QED BY <1>4, <2>1, <2>5
<1>6. StyledPart(t, style, writes, p, doc, i) \in Lines
  <2> DEFINE head == doc \o CommentBefore(child[<<>>])
             name == WithIndent(head, style, depth, <<key, Space, colon, Space>>)
             body == CASE t[p].type = "object" -> WriteAt(t, writes, p, k, name)
                       [] t[p].type # "object" /\ Kept(Sub(t, p)) ->
                            WithIndent(head, style, depth, Pushed(child))
                       [] t[p].type # "object" /\ ~Kept(Sub(t, p)) ->
                            WriteAt(t, writes, p, k, WriteIndent(head, style, depth))
             sep  == IF i = Size(t, p) THEN <<>> ELSE <<comma>>
  <2>1. StyledPart(t, style, writes, p, doc, i) = body \o sep \o CommentAfter(child[<<>>])
    BY DEF StyledPart
  <2>2. CommentBefore(child[<<>>]) \in Lines /\ CommentAfter(child[<<>>]) \in Lines
    <3> DEFINE n == child[<<>>]
    <3>1. Sound(n, Building)
      BY <1>2
    <3> HIDE DEF n
    <3>2. CommentBefore(n) \in Lines /\ CommentAfter(n) \in Lines
      BY <3>1, CommentsWritten
    <3> QED BY <3>2 DEF n
  <2>3. head \in Lines
    BY <2>2, Joined
  <2>4. Pushed(child) \in Lines
    <3> HIDE DEF child
    <3> QED BY <1>2, PushedIs
  <2> HIDE DEF head, child, k, key, colon, comma, depth
  <2>5. sep \in Lines
    <3>1. <<comma>> \in Lines
      BY <1>3, Joined
    <3> QED BY <3>1, Joined
  <2>6. t[p].type = "object" => name \in Lines
    <3>1. t[p].type = "object" => <<key, Space, colon, Space>> \in Lines
      BY <1>1, <1>3, Joined
    <3> QED BY <2>3, <3>1, IndentIs
  <2>7. WithIndent(head, style, depth, Pushed(child)) \in Lines /\ WriteIndent(head, style, depth) \in Lines
    BY <2>3, <2>4, IndentIs
  <2> HIDE DEF name
  <2>8. body \in Lines
    <3> DEFINE a == WriteAt(t, writes, p, k, name)
               b == WithIndent(head, style, depth, Pushed(child))
               c == WriteAt(t, writes, p, k, WriteIndent(head, style, depth))
    <3>1. (t[p].type = "object" => a \in Lines) /\ b \in Lines /\ c \in Lines
      BY <1>4, <2>6, <2>7
    <3>2. body = CASE t[p].type = "object" -> a
                   [] t[p].type # "object" /\ Kept(Sub(t, p)) -> b
                   [] t[p].type # "object" /\ ~Kept(Sub(t, p)) -> c
      OBVIOUS
    <3> HIDE DEF a, b, c, body
    <3>3. CASE t[p].type = "object"
      <4>1. ~(t[p].type # "object" /\ Kept(Sub(t, p))) /\ ~(t[p].type # "object" /\ ~Kept(Sub(t, p)))
        BY <3>3
      <4>2. body = a
        BY <3>2, <3>3, <4>1, Zenon
      <4> QED BY <3>1, <3>3, <4>2
    <3>4. CASE t[p].type # "object" /\ Kept(Sub(t, p))
      <4>1. ~(t[p].type = "object") /\ ~(t[p].type # "object" /\ ~Kept(Sub(t, p)))
        BY <3>4
      <4>2. body = b
        BY <3>2, <3>4, <4>1, Zenon
      <4> QED BY <3>1, <4>2
    <3>5. CASE t[p].type # "object" /\ ~Kept(Sub(t, p))
      <4>1. ~(t[p].type = "object") /\ ~(t[p].type # "object" /\ Kept(Sub(t, p)))
        BY <3>5
      <4>2. body = c
        BY <3>2, <3>5, <4>1, Zenon
      <4> QED BY <3>1, <4>2
    <3> QED BY <3>3, <3>4, <3>5
  <2> HIDE DEF body, sep
  <2>9. body \o sep \in Lines
    BY <2>5, <2>8, Joined
  <2> QED BY <2>1, <2>2, <2>9, Joined
<1> QED BY <1>5, <1>6 DEF Part
-----------------------------------------------------------------------------
(* All parts of a container, one behind the other. *)
Filled(t, style, writes, p, start, f) ==
  /\ f \in [0 .. Size(t, p) -> Lines] /\ f[0] = start
  /\ \A i \in 1 .. Size(t, p) : f[i] = Part(t, style, writes, p, f[i - 1], i)

\* The parts of a container can be written one behind the other.
LEMMA PartsFill ==
  ASSUME NEW t, Tree(t, Building), NEW p \in DOMAIN t, t[p].type \in Containers,
         NEW writes, Typed(t, writes, p), NEW start \in Lines, NEW style
  PROVE  \E f : Filled(t, style, writes, p, start, f)
<1> DEFINE n == Size(t, p)
           P(d, i) == Part(t, style, writes, p, d, i)
           g == [x \in Int \X Lines |-> IF x[1] \in 1 .. n THEN P(x[2], x[1]) ELSE <<>>]
<1>1. n \in Nat
  BY SizeIs
<1>2. \A i \in 1 .. n : \A d \in Lines : P(d, i) \in Lines
  BY PartIs
<1> HIDE DEF n, P
<1>3. g \in [Int \X Lines -> Lines]
  BY <1>2, Joined
<1>4. \A i \in 1 .. n : \A d \in Lines : g[i, d] = P(d, i)
  <2> TAKE i \in 1 .. n
  <2> TAKE d \in Lines
  <2>1. i \in Int
    BY <1>1
  <2>2. <<i, d>> \in Int \X Lines /\ <<i, d>>[1] = i /\ <<i, d>>[2] = d
    BY <2>1
  <2> QED BY <2>2
<1> HIDE DEF g
<1>5. 0 \in Int /\ n \in Int /\ 0 <= n
  BY <1>1
<1>6. Chained(0, n, Lines, start, g)
  BY <1>3, <1>5, Chain
<1>7. PICK f \in [0 .. n -> Lines] : f[0] = start /\ \A i \in 0 + 1 .. n : f[i] = g[i, f[i - 1]]
  BY <1>6 DEF Chained
<1>8. \A i \in 1 .. n : f[i] = P(f[i - 1], i)
  <2> TAKE i \in 1 .. n
  <2>1. i - 1 \in 0 .. n /\ i \in 0 + 1 .. n
    BY <1>1
  <2>2. f[i - 1] \in Lines
    BY <2>1
  <2> QED BY <1>4, <1>7, <2>1, <2>2
<1>9. Filled(t, style, writes, p, start, f)
  BY <1>7, <1>8 DEF Filled, n, P
<1> QED BY <1>9

\* And that is what Parts is.
LEMMA PartsAre ==
  ASSUME NEW t, NEW p, Size(t, p) \in Nat, NEW writes, NEW start, NEW style,
         NEW f, Filled(t, style, writes, p, start, f)
  PROVE  Parts(t, style, writes, p, start) = f[Size(t, p)]
<1> DEFINE n == Size(t, p)
           Then_(d, i) == CASE i = 0                    -> start
                            [] i > 0 /\ style = "fast"  -> FastPart(t, writes, p, d[i - 1], i)
                            [] i > 0 /\ style # "fast"  -> StyledPart(t, style, writes, p, d[i - 1], i)
           doc[i \in 0 .. n] ==
             CASE i = 0                    -> start
               [] i > 0 /\ style = "fast"  -> FastPart(t, writes, p, doc[i - 1], i)
               [] i > 0 /\ style # "fast"  -> StyledPart(t, style, writes, p, doc[i - 1], i)
<1>1. ASSUME NEW d, NEW i \in 0 .. n
      PROVE  Then_(d, i) = IF i = 0 THEN start ELSE Part(t, style, writes, p, d[i - 1], i)
  <2>0. i \in Nat
    OBVIOUS
  <2>1. CASE i = 0
    <3>1. ~(i > 0 /\ style = "fast") /\ ~(i > 0 /\ style # "fast")
      BY <2>1
    <3>2. Then_(d, i) = start
      BY <2>1, <3>1, Zenon
    <3> QED BY <2>1, <3>2
  <2>2. CASE i # 0 /\ style = "fast"
    <3>1. i > 0 /\ ~(i > 0 /\ style # "fast")
      BY <2>0, <2>2
    <3>2. Then_(d, i) = FastPart(t, writes, p, d[i - 1], i)
      BY <2>2, <3>1, Zenon
    <3> QED BY <2>2, <3>2 DEF Part
  <2>3. CASE i # 0 /\ style # "fast"
    <3>1. i > 0 /\ ~(i > 0 /\ style = "fast")
      BY <2>0, <2>3
    <3>2. Then_(d, i) = StyledPart(t, style, writes, p, d[i - 1], i)
      BY <2>3, <3>1, Zenon
    <3> QED BY <2>3, <3>2 DEF Part
  <2> QED BY <2>1, <2>2, <2>3
<1>2. n \in Nat /\ f \in [0 .. n -> Lines] /\ f[0] = start
      /\ \A i \in 1 .. n : f[i] = Part(t, style, writes, p, f[i - 1], i)
  BY DEF Filled
<1>3. f = [i \in 0 .. n |-> Then_(f, i)]
  <2>1. \A i \in 0 .. n : f[i] = Then_(f, i)
    <3> TAKE i \in 0 .. n
    <3>1. i # 0 => i \in 1 .. n
      BY <1>2
    <3> HIDE DEF n, Then_
    <3> QED BY <1>1, <1>2, <3>1
  <2> HIDE DEF Then_, n
  <2> QED BY <1>2, <2>1
<1>4. doc = [i \in 0 .. n |-> Then_(doc, i)]
  BY <1>3
<1>5. Parts(t, style, writes, p, start) = doc[n]
  BY DEF Parts
<1> HIDE DEF doc, Then_, n
<1>6. \A i \in 0 .. n : doc[i] = IF i = 0 THEN start ELSE Part(t, style, writes, p, doc[i - 1], i)
  BY <1>1, <1>4
<1> DEFINE T == {i \in 0 .. n : doc[i] = f[i]}
<1>7. 0 \in T
  BY <1>2, <1>6
<1>8. ASSUME NEW i \in 0 .. n - 1, i \in T PROVE i + 1 \in T
  <2>1. i + 1 \in 0 .. n /\ i + 1 # 0 /\ i + 1 - 1 = i /\ i + 1 \in 1 .. n
    BY <1>2
  <2>2. doc[i + 1] = Part(t, style, writes, p, doc[i], i + 1)
    BY <1>6, <2>1
  <2>3. f[i + 1] = Part(t, style, writes, p, f[i], i + 1)
    BY <1>2, <2>1
  <2>4. doc[i] = f[i]
    BY <1>8
  <2> QED BY <2>1, <2>2, <2>3, <2>4
<1>9. n \in T
  <2> HIDE DEF T
  <2>1. \A i \in 0 .. n : i \in T
    BY <1>2, <1>7, <1>8, UpTo
  <2> QED BY <1>2, <2>1
<1> QED BY <1>5, <1>9 DEF n

\* The parts of a container are lexemes.
LEMMA PartsIs ==
  ASSUME NEW t, Tree(t, Building), NEW p \in DOMAIN t, t[p].type \in Containers,
         NEW writes, Typed(t, writes, p), NEW start \in Lines, NEW style
  PROVE  /\ Parts(t, style, writes, p, start) \in Lines
         /\ \A w : Agree(t, writes, w, p) =>
              Parts(t, style, writes, p, start) = Parts(t, style, w, p, start)
<1>1. PICK f : Filled(t, style, writes, p, start, f)
  BY PartsFill
<1>2. Size(t, p) \in Nat
  BY SizeIs
<1>3. Parts(t, style, writes, p, start) = f[Size(t, p)]
  BY <1>1, <1>2, PartsAre
<1>4. f[Size(t, p)] \in Lines
  <2>1. Size(t, p) \in 0 .. Size(t, p)
    BY <1>2
  <2> QED BY <1>1, <2>1 DEF Filled
<1>5. ASSUME NEW w, Agree(t, writes, w, p)
      PROVE  Parts(t, style, w, p, start) = f[Size(t, p)]
  <2>1. \A d, i : Part(t, style, writes, p, d, i) = Part(t, style, w, p, d, i)
    BY <1>5, PartSame
  <2>2. Filled(t, style, w, p, start, f)
    BY <1>1, <2>1 DEF Filled
  <2> QED BY <1>2, <2>2, PartsAre
<1> QED BY <1>3, <1>4, <1>5
-----------------------------------------------------------------------------
(* What a value is written as, behind what is there. *)
Put1(t, style, writes, p, doc) ==
  IF style = "fast" THEN FastValue(t, writes, p, doc) ELSE StyledValue(t, style, writes, p, doc)

\* FastWriter::writeValue, given the entries.
LEMMA FastValueIs ==
  ASSUME NEW t, Tree(t, Building), NEW p \in DOMAIN t, NEW writes, Typed(t, writes, p), NEW doc \in Lines
  PROVE  /\ FastValue(t, writes, p, doc) \in Lines
         /\ \A w : Agree(t, writes, w, p) => FastValue(t, writes, p, doc) = FastValue(t, w, p, doc)
<1>1. CASE t[p].type \in Containers
  <2> DEFINE start == Append(doc, Brackets[t[p].type][1])
             last2 == Brackets[t[p].type][2]
  <2>1. \A w : FastValue(t, w, p, doc) = Append(Parts(t, "fast", w, p, start), last2)
    BY <1>1 DEF FastValue
  <2>2. start \in Lines /\ last2 \in Lexeme
    <3>1. Brackets[t[p].type][1] \in Lexeme /\ Brackets[t[p].type][2] \in Lexeme
      BY <1>1, BracketsAre
    <3> QED BY <3>1, Joined
  <2> HIDE DEF start, last2
  <2>3. /\ Parts(t, "fast", writes, p, start) \in Lines
        /\ \A w : Agree(t, writes, w, p) =>
             Parts(t, "fast", writes, p, start) = Parts(t, "fast", w, p, start)
    BY <1>1, <2>2, PartsIs
  <2>4. Append(Parts(t, "fast", writes, p, start), last2) \in Lines
    BY <2>2, <2>3, Joined
  <2> QED BY <2>1, <2>3, <2>4
<1>2. CASE t[p].type \notin Containers
  <2> DEFINE s == Scalar(t[p])
  <2>1. \A w : FastValue(t, w, p, doc) = Append(doc, s)
    BY <1>2 DEF FastValue
  <2>2. s \in Lexeme
    BY <1>2, ScalarIs
  <2> HIDE DEF s
  <2>3. Append(doc, s) \in Lines
    BY <2>2, Joined
  <2> QED BY <2>1, <2>3
<1> QED BY <1>1, <1>2

\* StyledWriter::writeValue, given the entries.
LEMMA StyledValueIs ==
  ASSUME NEW t, Tree(t, Building), NEW p \in DOMAIN t, NEW writes, Typed(t, writes, p), NEW doc \in Lines,
         NEW style
  PROVE  /\ StyledValue(t, style, writes, p, doc) \in Lines
         /\ \A w : Agree(t, writes, w, p) =>
              StyledValue(t, style, writes, p, doc) = StyledValue(t, style, w, p, doc)
<1> DEFINE this == Sub(t, p)
           size == Size(t, p)
           Flat == t[p].type \notin Containers \/ size = 0
           Short == t[p].type = "array" /\ size # 0 /\ ~IsMultiline(this)
           parts == [i \in 1 .. size |-> Pushed(Member(t, p, i - 1))]
           open == Mark("[")
           shut == Mark("]")
           marks == Brackets[t[p].type]
           a == doc \o Pushed(this)
           b == doc \o <<open, Space>> \o Separated(parts) \o <<Space, shut>>
           start == WithIndent(doc, style, Len(p), <<marks[1]>>)
           C(w) == WithIndent(Parts(t, style, w, p, start), style, Len(p), <<marks[2]>>)
<1>1. \A w : StyledValue(t, style, w, p, doc) = CASE Flat -> a [] Short -> b [] OTHER -> C(w)
  BY Zenon DEF StyledValue
<1>2. size \in Nat
  BY SizeIs
<1>3. CASE Flat
  <2>1. ~Short
    <3>1. "array" \in Containers
      BY DEF Containers
    <3> HIDE DEF size
    <3> QED BY <1>3, <3>1
  <2>2. a \in Lines
    <3>1. Tree(this, Building)
      BY SubIs
    <3> HIDE DEF this
    <3>2. Pushed(this) \in Lines
      BY <3>1, PushedIs
    <3> QED BY <3>2, Joined
  <2> HIDE DEF Flat, Short, a, b, C
  <2>3. \A w : StyledValue(t, style, w, p, doc) = a
    BY <1>1, <1>3, <2>1, Zenon
  <2> QED BY <2>2, <2>3
<1>4. CASE Short
  <2>1. ~Flat
    <3>1. "array" \in Containers
      BY DEF Containers
    <3> HIDE DEF size, this
    <3> QED BY <1>4, <3>1
  <2>2. ASSUME NEW i \in 1 .. size PROVE Pushed(Member(t, p, i - 1)) \in Lines
    <3>1. i - 1 \in Int
      BY <1>2
    <3>2. Tree(Member(t, p, i - 1), Building)
      BY <3>1, MemberTree
    <3> QED BY <3>2, PushedIs
  <2>3. parts \in Seq(Lines)
    <3> HIDE DEF size
    <3> QED BY <1>2, <2>2
  <2>4. Separated(parts) \in Lines
    <3> HIDE DEF parts
    <3> QED BY <2>3, SeparatedIs
  <2>5. open \in Lexeme /\ shut \in Lexeme /\ Space \in Lexeme
    BY MarksAre
  <2> HIDE DEF Flat, Short, a, C, open, shut, parts
  <2>6. <<open, Space>> \in Lines /\ <<Space, shut>> \in Lines
    BY <2>5, Joined
  <2>7. doc \o <<open, Space>> \in Lines
    BY <2>6, Joined
  <2>8. doc \o <<open, Space>> \o Separated(parts) \in Lines
    BY <2>4, <2>7, Joined
  <2>9. b \in Lines
    BY <2>6, <2>8, Joined
  <2> HIDE DEF b
  <2>10. \A w : StyledValue(t, style, w, p, doc) = b
    BY <1>1, <1>4, <2>1, Zenon
  <2> QED BY <2>9, <2>10
<1>5. CASE ~Flat /\ ~Short
  <2>1. t[p].type \in Containers
    BY <1>5
  <2>2. marks[1] \in Lexeme /\ marks[2] \in Lexeme
    BY <2>1, BracketsAre
  <2> HIDE DEF marks, Flat, Short
  <2>3. <<marks[1]>> \in Lines /\ <<marks[2]>> \in Lines
    BY <2>2, Joined
  <2>4. start \in Lines
    BY <2>3, IndentIs
  <2> HIDE DEF start
  <2>5. /\ Parts(t, style, writes, p, start) \in Lines
        /\ \A w : Agree(t, writes, w, p) => Parts(t, style, writes, p, start) = Parts(t, style, w, p, start)
    BY <2>1, <2>4, PartsIs
  <2>6. C(writes) \in Lines
    BY <2>3, <2>5, IndentIs
  <2>7. \A w : Agree(t, writes, w, p) => C(writes) = C(w)
    BY <2>5
  <2> HIDE DEF C, a, b
  <2>8. \A w : StyledValue(t, style, w, p, doc) = C(w)
    BY <1>1, <1>5, Zenon
  <2> QED BY <2>6, <2>7, <2>8
<1> QED BY <1>3, <1>4, <1>5

\* Either, given the entries.
LEMMA ValueWritten ==
  ASSUME NEW t, Tree(t, Building), NEW p \in DOMAIN t, NEW writes, Typed(t, writes, p), NEW style
  PROVE  /\ \A doc \in Lines : Put1(t, style, writes, p, doc) \in Lines
         /\ \A w : Agree(t, writes, w, p) =>
              \A doc \in Lines : Put1(t, style, writes, p, doc) = Put1(t, style, w, p, doc)
<1> SUFFICES ASSUME NEW doc \in Lines
             PROVE  /\ Put1(t, style, writes, p, doc) \in Lines
                    /\ \A w : Agree(t, writes, w, p) =>
                         Put1(t, style, writes, p, doc) = Put1(t, style, w, p, doc)
  OBVIOUS
<1>1. /\ FastValue(t, writes, p, doc) \in Lines
      /\ \A w : Agree(t, writes, w, p) => FastValue(t, writes, p, doc) = FastValue(t, w, p, doc)
  BY FastValueIs
<1>2. /\ StyledValue(t, style, writes, p, doc) \in Lines
      /\ \A w : Agree(t, writes, w, p) =>
           StyledValue(t, style, writes, p, doc) = StyledValue(t, style, w, p, doc)
  BY StyledValueIs
<1> QED BY <1>1, <1>2 DEF Put1
-----------------------------------------------------------------------------
(* The whole text. A value is written from the innermost places outwards.      *)
Layer(t, style, writes, p) == [doc \in Lines |-> Put1(t, style, writes, p, doc)]

\* A place is written, given the entries.
LEMMA LayerIs ==
  ASSUME NEW t, Tree(t, Building), NEW p \in DOMAIN t, NEW writes, Typed(t, writes, p), NEW style
  PROVE  /\ Layer(t, style, writes, p) \in [Lines -> Lines]
         /\ \A w : Agree(t, writes, w, p) => Layer(t, style, writes, p) = Layer(t, style, w, p)
<1>1. /\ \A doc \in Lines : Put1(t, style, writes, p, doc) \in Lines
      /\ \A w : Agree(t, writes, w, p) =>
           \A doc \in Lines : Put1(t, style, writes, p, doc) = Put1(t, style, w, p, doc)
  BY ValueWritten
<1> QED BY <1>1 DEF Layer

\* No place is longer than some number.
LEMMA Deepest ==
  ASSUME NEW t, Tree(t, Building)
  PROVE  \E m \in Nat : \A p \in DOMAIN t : Len(p) \in Nat /\ Len(p) <= m
<1> DEFINE f == [p \in DOMAIN t |-> Len(p)]
           S == {Len(p) : p \in DOMAIN t}
<1>1. IsFiniteSet(DOMAIN t) /\ <<>> \in DOMAIN t /\ \A p \in DOMAIN t : p \in Place
  BY DEF Tree, Forest
<1>2. \A p \in DOMAIN t : Len(p) \in Nat
  BY <1>1, PlaceLen
<1>3. f \in Surjection(DOMAIN t, S)
  BY DEF Surjection
<1>4. S \subseteq Nat /\ S # {} /\ \A p \in DOMAIN t : Len(p) \in S
  BY <1>1, <1>2
<1> HIDE DEF f, S
<1>5. IsFiniteSet(S)
  BY <1>1, <1>3, FS_Surjection
<1>6. Max(S) \in S /\ \A y \in S : Max(S) >= y
  BY <1>4, <1>5, MaxIs
<1> QED BY <1>2, <1>4, <1>6

\* An entry is one longer than its container's place.
LEMMA ChildIs ==
  ASSUME NEW t, Tree(t, Building), NEW p \in DOMAIN t, NEW k \in Keys(t, p)
  PROVE  Append(p, k) \in DOMAIN t /\ Len(Append(p, k)) = Len(p) + 1
<1>1. p \in Place
  BY DEF Tree, Forest
<1>2. k \in Int /\ Append(p, k) \in DOMAIN t
  BY <1>1, KeysAre
<1> QED BY <1>1, <1>2, AppendPlace

\* Every place of a tree can be written, from the deepest up.
LEMMA WritesThere ==
  ASSUME NEW t, Tree(t, Building), NEW style
  PROVE  \E w : w = [p \in DOMAIN t |-> Layer(t, style, w, p)]
<1> DEFINE D == DOMAIN t
           F == [Lines -> Lines]
<1>1. PICK m \in Nat : \A p \in DOMAIN t : Len(p) \in Nat /\ Len(p) <= m
  BY Deepest
<1> DEFINE Done(w, n) == \A p \in D : Len(p) > m - n => w[p] = Layer(t, style, w, p)
           T == {n \in 0 .. m + 1 : \E w \in [D -> F] : Done(w, n)}
<1>2. 0 \in T
  <2> DEFINE w == [p \in D |-> [doc \in Lines |-> doc]]
  <2>1. w \in [D -> F]
    OBVIOUS
  <2>2. \A p \in D : ~(Len(p) > m - 0)
    BY <1>1
  <2> HIDE DEF w
  <2>3. Done(w, 0)
    BY <2>2
  <2> HIDE DEF Done, F
  <2> QED BY <2>1, <2>3
<1>3. ASSUME NEW n \in 0 .. m, n \in T PROVE n + 1 \in T
  <2>1. PICK w \in [D -> F] : Done(w, n)
    BY <1>3
  <2> DEFINE x == [p \in D |-> IF Len(p) = m - n THEN Layer(t, style, w, p) ELSE w[p]]
  <2>2. \A p \in D : Typed(t, w, p)
    BY <2>1, ChildIs DEF Typed
  <2>3. \A p \in D : Layer(t, style, w, p) \in F
    BY <2>2, LayerIs
  <2>4. x \in [D -> F]
    <3> HIDE DEF F
    <3> QED BY <2>1, <2>3
  <2>5. ASSUME NEW p \in D, Len(p) > m - (n + 1) PROVE Agree(t, w, x, p)
    <3> SUFFICES ASSUME NEW k \in Keys(t, p) PROVE w[Append(p, k)] = x[Append(p, k)]
      BY DEF Agree
    <3>1. Append(p, k) \in D /\ Len(Append(p, k)) = Len(p) + 1 /\ Len(p) \in Nat
      BY <1>1, ChildIs
    <3>2. Len(Append(p, k)) # m - n
      BY <2>5, <3>1
    <3> QED BY <3>1, <3>2
  <2>6. ASSUME NEW p \in D, Len(p) > m - (n + 1) PROVE x[p] = Layer(t, style, x, p)
    <3>1. Layer(t, style, w, p) = Layer(t, style, x, p)
      <4>1. Agree(t, w, x, p)
        BY <2>5, <2>6
      <4> HIDE DEF x, F
      <4> QED BY <2>2, <4>1, LayerIs
    <3>2. CASE Len(p) = m - n
      BY <3>1, <3>2
    <3>3. CASE Len(p) # m - n
      <4>1. Len(p) > m - n
        <5>1. Len(p) \in Nat
          BY <1>1
        <5> QED BY <2>6, <3>3, <5>1
      <4>2. w[p] = Layer(t, style, w, p)
        BY <2>1, <4>1
      <4>3. x[p] = w[p]
        BY <3>3
      <4> QED BY <3>1, <4>2, <4>3
    <3> QED BY <3>2, <3>3
  <2> HIDE DEF x, F
  <2>7. Done(x, n + 1)
    BY <2>6
  <2>8. n + 1 \in 0 .. m + 1
    OBVIOUS
  <2> HIDE DEF Done
  <2> QED BY <2>4, <2>7, <2>8
<1>4. m + 1 \in T
  <2> HIDE DEF T
  <2>1. m + 1 \in Nat /\ \A n \in 0 .. m + 1 - 1 : n \in 0 .. m
    OBVIOUS
  <2>2. \A n \in 0 .. m + 1 - 1 : n \in T => n + 1 \in T
    BY <1>3, <2>1
  <2>3. \A n \in 0 .. m + 1 : n \in T
    BY <1>2, <2>1, <2>2, UpTo
  <2> QED BY <2>1, <2>3
<1>5. PICK w \in [D -> F] : Done(w, m + 1)
  BY <1>4
<1>6. \A p \in D : w[p] = Layer(t, style, w, p)
  <2> TAKE p \in D
  <2>1. Len(p) > m - (m + 1)
    BY <1>1
  <2> QED BY <1>5, <2>1
<1>7. w = [p \in D |-> Layer(t, style, w, p)]
  <2> HIDE DEF F
  <2> QED BY <1>5, <1>6
<1> QED BY <1>7

\* And makes lexemes.
LEMMA WritesTyped ==
  ASSUME NEW t, Tree(t, Building), NEW style, NEW w, w = [p \in DOMAIN t |-> Layer(t, style, w, p)]
  PROVE  \A p \in DOMAIN t : w[p] \in [Lines -> Lines]
<1> DEFINE D == DOMAIN t
           F == [Lines -> Lines]
<1>1. PICK m \in Nat : \A p \in DOMAIN t : Len(p) \in Nat /\ Len(p) <= m
  BY Deepest
<1> DEFINE T == {n \in 0 .. m + 1 : \A p \in D : Len(p) > m - n => w[p] \in F}
<1>2. 0 \in T
  <2>2. \A p \in D : ~(Len(p) > m - 0)
    BY <1>1
  <2> HIDE DEF F
  <2> QED BY <2>2
<1>3. ASSUME NEW n \in 0 .. m, n \in T PROVE n + 1 \in T
  <2>1. \A p \in D : Len(p) > m - n => w[p] \in F
    BY <1>3
  <2>2. ASSUME NEW p \in D, Len(p) > m - (n + 1) PROVE w[p] \in F
    <3>1. Typed(t, w, p)
      <4> SUFFICES ASSUME NEW k \in Keys(t, p) PROVE w[Append(p, k)] \in F
        BY DEF Typed
      <4>1. Append(p, k) \in D /\ Len(Append(p, k)) = Len(p) + 1 /\ Len(p) \in Nat
        BY <1>1, ChildIs
      <4>2. Len(Append(p, k)) > m - n
        BY <2>2, <4>1
      <4> QED BY <2>1, <4>1, <4>2
    <3>2. Layer(t, style, w, p) \in F
      BY <3>1, LayerIs
    <3> HIDE DEF F
    <3> QED BY <3>2
  <2>8. n + 1 \in 0 .. m + 1
    OBVIOUS
  <2> HIDE DEF F
  <2> QED BY <2>2, <2>8
<1>4. m + 1 \in T
  <2> HIDE DEF T
  <2>1. m + 1 \in Nat /\ \A n \in 0 .. m + 1 - 1 : n \in 0 .. m
    OBVIOUS
  <2>2. \A n \in 0 .. m + 1 - 1 : n \in T => n + 1 \in T
    BY <1>3, <2>1
  <2>3. \A n \in 0 .. m + 1 : n \in T
    BY <1>2, <2>1, <2>2, UpTo
  <2> QED BY <2>1, <2>3
<1> SUFFICES ASSUME NEW p \in D PROVE w[p] \in F
  OBVIOUS
<1>5. Len(p) > m - (m + 1)
  BY <1>1
<1> HIDE DEF F
<1> QED BY <1>4, <1>5

\* The whole Value is lexemes.
LEMMA DocumentIs ==
  ASSUME NEW t, Tree(t, Building), NEW style, NEW start \in Lines
  PROVE  Document(t, style, start) \in Lines
<1> DEFINE writes[p \in DOMAIN t] ==
             [doc \in Seq(Lexeme) |-> IF style = "fast" THEN FastValue(t, writes, p, doc)
                                      ELSE StyledValue(t, style, writes, p, doc)]
<1>1. PICK w : w = [p \in DOMAIN t |-> Layer(t, style, w, p)]
  BY WritesThere
<1>2. w = [p \in DOMAIN t |->
             [doc \in Seq(Lexeme) |-> IF style = "fast" THEN FastValue(t, w, p, doc)
                                      ELSE StyledValue(t, style, w, p, doc)]]
  BY <1>1, Zenon DEF Layer, Put1, Lines
<1>3. writes = [p \in DOMAIN t |->
                  [doc \in Seq(Lexeme) |-> IF style = "fast" THEN FastValue(t, writes, p, doc)
                                           ELSE StyledValue(t, style, writes, p, doc)]]
  BY <1>2
<1>4. Document(t, style, start) = writes[<<>>][start]
  BY DEF Document
<1> HIDE DEF writes
<1>5. writes = [p \in DOMAIN t |-> Layer(t, style, writes, p)]
  BY <1>3, Zenon DEF Layer, Put1, Lines
<1>6. \A p \in DOMAIN t : writes[p] \in [Lines -> Lines]
  BY <1>5, WritesTyped
<1>7. <<>> \in DOMAIN t
  BY DEF Tree
<1> QED BY <1>4, <1>6, <1>7

\* Whatever the program has built, the writers make a text of lexemes of it.
LEMMA WrittenIs ==
  ASSUME NEW t, Tree(t, Building), NEW style \in {"fast", "styled", "stream"}
  PROVE  Written(t, style) \in Lines
<1>1. Mark("NL") \in Lexeme /\ <<>> \in Lines
  BY MarksAre, Joined
<1>2. FastWritten(t) \in Lines
  <2>1. Document(t, "fast", <<>>) \in Lines
    BY <1>1, DocumentIs
  <2> QED BY <1>1, <2>1, Joined DEF FastWritten
<1>3. \A s : Framed(t, s) \in Lines
  <2> TAKE s
  <2> DEFINE n == t[<<>>]
             nl == Mark("NL")
             d == Document(t, s, CommentBefore(n))
  <2>1. Sound(n, Building)
    BY DEF Tree, Forest
  <2> HIDE DEF n
  <2>2. CommentBefore(n) \in Lines /\ CommentAfter(n) \in Lines
    BY <2>1, CommentsWritten
  <2>3. d \in Lines
    BY <2>2, DocumentIs
  <2>4. Framed(t, s) = d \o CommentAfter(n) \o <<nl>>
    BY DEF Framed, n
  <2>5. nl \in Lexeme
    BY <1>1
  <2> HIDE DEF d, nl
  <2>6. d \o CommentAfter(n) \in Lines /\ <<nl>> \in Lines
    BY <2>2, <2>3, <2>5, Joined
  <2> QED BY <2>4, <2>6, Joined
<1>4. StyledWritten(t) \in Lines /\ StreamWritten(t) \in Lines
  BY <1>3 DEF StyledWritten, StreamWritten
<1>5. Written(t, style) \in {Unspaced(FastWritten(t)), Unspaced(StyledWritten(t)), Unspaced(StreamWritten(t))}
  <2>1. CASE style = "fast"
    BY <2>1 DEF Written
  <2>2. CASE style = "styled"
    BY <2>2 DEF Written
  <2>3. CASE style = "stream"
    BY <2>3 DEF Written
  <2> QED BY <2>1, <2>2, <2>3
<1> QED BY <1>2, <1>4, <1>5, UnspacedIs
-----------------------------------------------------------------------------
(* The session.  Whatever is built, the writers make lexemes of it, so that    *)
(* what is read is a text; and then every step of the reader keeps its stack   *)
(* and the tree it builds together.                                            *)
ReaderInv  == ControlOK /\ TextOK /\ TreeInv
SessionInv == ReaderInv /\ BuildInv

\* The session starts as it should.
LEMMA SessionInit == Init => SessionInv
<1> SUFFICES ASSUME Init PROVE SessionInv
  OBVIOUS
<1>1. BuildInv
  BY BuildInit
<1>2. ParseInit /\ text \in Messages \cup {<<>>}
  BY DEF Init
<1>3. ControlOK
  BY <1>2, StartControl
<1>4. TextOK
  <2>1. \A m \in Messages : m \in Seq(Lexeme)
    BY LexemesAssumption
  <2>2. <<>> \in Seq(Lexeme)
    OBVIOUS
  <2>3. text \in Seq(Lexeme)
    BY <1>2, <2>1, <2>2, Zenon
  <2> QED BY <2>3 DEF TextOK
<1>5. TreeInv
  <2>1. /\ value = New /\ before = <<>> /\ nodes = <<<<>>>> /\ calls = <<>> /\ pc = "value"
        /\ last = [set |-> FALSE, place |-> <<>>, newLine |-> FALSE]
    BY <1>2 DEF ParseInit, New
  <2>2. Holder(New, Reading) /\ Balance(New) = 0 /\ New.tree = Null
    BY ReadingIs, NewIs
  <2>3. <<>> \in DOMAIN Null
    BY ReadingIs, NullIs
  <2>4. NodesAt(New.tree, <<<<>>>>, <<>>)
    <3>1. <<>> \in Place /\ <<<<>>>> \in Seq(Place)
      BY DEF Place
    <3>2. Len(<<<<>>>>) = 1 /\ <<<<>>>>[1] = <<>> /\ Len(<<>>) = 0
      OBVIOUS
    <3> QED BY <2>2, <2>3, <3>1, <3>2 DEF NodesAt
  <2>5. LastAt(value.tree, last, Len(nodes) - Unread(pc), Collects)
    BY <2>1 DEF LastAt
  <2> QED BY <2>1, <2>2, <2>4, <2>5 DEF TreeInv, TreeIs
<1> QED BY <1>1, <1>3, <1>4, <1>5 DEF SessionInv, ReaderInv

\* What the reader stands on while another acts.
LEMMA ReaderStays ==
  ASSUME ReaderInv, UNCHANGED <<strict, value, pc, calls, nodes, before, last>>, TextOK'
  PROVE  ReaderInv'
<1>1. ControlOK'
  BY DEF ReaderInv, ControlOK, Inner
<1>2. TreeInv'
  BY DEF ReaderInv, TreeInv, Collects
<1> QED BY <1>1, <1>2 DEF ReaderInv

\* Every step keeps it so.
LEMMA SessionNext ==
  ASSUME SessionInv, [Next]_vars
  PROVE  SessionInv'
<1>0. ReaderInv /\ BuildInv
  BY DEF SessionInv
<1>1. BuildInv'
  BY <1>0, BuildNext
<1>2. ASSUME UNCHANGED readerVars PROVE ReaderInv'
  <2>1. UNCHANGED <<strict, value, pc, calls, nodes, before, last, text>>
    BY <1>2 DEF readerVars
  <2>2. TextOK'
    BY <1>0, <2>1 DEF ReaderInv, TextOK
  <2> QED BY <1>0, <2>1, <2>2, ReaderStays
<1>3. ASSUME Build \/ Overrun \/ Judge \/ Over \/ UNCHANGED vars PROVE ReaderInv'
  <2>1. UNCHANGED readerVars
    BY <1>3 DEF Build, Built, SetMember, SetElement, AppendItem, AppendPartOfRoot, RemoveMember, SwapValues, ClearValue,
                ResizeValue, Comment, Report, Misuse, Overrun, Judge, Over, vars
  <2> QED BY <1>2, <2>1
<1>4. ASSUME Write PROVE ReaderInv'
  <2>1. PICK style \in Styles : text' = Written(root.tree, style)
    BY <1>4 DEF Write
  <2>2. UNCHANGED <<strict, value, pc, calls, nodes, before, last>>
    BY <1>4 DEF Write
  <2>3. style \in {"fast", "styled", "stream"} /\ Tree(root.tree, Building)
    BY <1>0, BuildAssumption DEF BuildInv, Builds, Holder
  <2>4. TextOK'
    BY <2>1, <2>3, WrittenIs DEF TextOK, Lines
  <2> QED BY <1>0, <2>2, <2>4, ReaderStays
<1>5. ASSUME Arrive PROVE ReaderInv'
  <2>1. PICK l \in Lexemes : text' = IF l.tok = "//" THEN <<l, Mark("NL")>> ELSE <<l>>
    BY <1>5 DEF Arrive
  <2>2. UNCHANGED <<strict, value, pc, calls, nodes, before, last>>
    BY <1>5 DEF Arrive
  <2>3. l \in Lexeme /\ Mark("NL") \in Lexeme
    BY LexemesAre, MarksAre
  <2>4. <<l>> \in Seq(Lexeme) /\ <<l, Mark("NL")>> \in Seq(Lexeme)
    BY <2>3
  <2>5. TextOK'
    BY <2>1, <2>4, Zenon DEF TextOK
  <2> QED BY <1>0, <2>2, <2>5, ReaderStays
<1>6. ASSUME TextEnds PROVE ReaderInv'
  <2>1. UNCHANGED <<strict, text, value, pc, calls, nodes, before, last>>
    BY <1>6 DEF TextEnds
  <2>2. TextOK'
    BY <1>0, <2>1 DEF ReaderInv, TextOK
  <2> QED BY <1>0, <2>1, <2>2, ReaderStays
<1>7. ASSUME Parse PROVE ReaderInv'
  <2>1. ParseStep /\ ControlOK /\ TextOK /\ TreeInv
    BY <1>0, <1>7 DEF Parse, ReaderInv
  <2>2. ControlOK' /\ TextOK'
    BY <2>1, ReadStep DEF Advance
  <2>3. TreeInv'
    BY <2>1, TreeStep
  <2> QED BY <2>2, <2>3 DEF ReaderInv
<1>8. ReaderInv'
  BY <1>3, <1>4, <1>5, <1>6, <1>7 DEF Next
<1> QED BY <1>1, <1>8 DEF SessionInv

\* The session's invariant.
LEMMA SessionHolds == Spec => []SessionInv
<1>1. SessionInv /\ [Next]_vars => SessionInv'
  BY SessionNext
<1> QED BY <1>1, SessionInit, PTL DEF Spec

\* parse comes nearer to its end with every step it takes, whatever the text:
\* Reader::readValue and what it calls.
THEOREM Advances == Spec => ParseAdvances
<1>1. SessionInv /\ [Next]_vars => [ParseStep => Distance' < Distance]_vars
  <2> SUFFICES ASSUME SessionInv, ParseStep PROVE Distance' < Distance
    OBVIOUS
  <2>1. ControlOK /\ TextOK
    BY DEF SessionInv, ReaderInv
  <2> QED BY <2>1, ReadStep DEF Advance, Near
<1> QED BY <1>1, SessionHolds, PTL DEF Spec, ParseAdvances

\* The places that the reader works on are in its tree.
LEMMA AliveOf ==
  ASSUME ControlOK, TreeInv
  PROVE  PlacesAlive
<1>1. TreeIs(value, before, nodes, calls, last, pc, Collects)
  BY DEF TreeInv
<1>2. /\ NodesAt(value.tree, nodes, calls)
      /\ Len(nodes) = Len(calls) + (IF pc = "value" \/ calls = <<>> THEN 1 ELSE 0)
      /\ LastAt(value.tree, last, Len(nodes) - Unread(pc), Collects)
  BY <1>1 DEF TreeIs
<1>3. nodes \in Seq(Place) /\ calls \in Seq(Frame)
  BY <1>2 DEF NodesAt, ControlOK
<1>4. DOMAIN nodes = 1 .. Len(nodes) /\ DOMAIN calls = 1 .. Len(calls)
  BY <1>3
<1>5. /\ \A i \in DOMAIN nodes : nodes[i] \in DOMAIN value.tree /\ Len(nodes[i]) = i - 1
      /\ \A i \in 2 .. Len(nodes) : Front(nodes[i]) = nodes[i - 1]
      /\ \A i \in DOMAIN calls : value.tree[nodes[i]].type = calls[i].in
  BY <1>2, <1>4 DEF NodesAt
<1>6. pc \notin {"close", "done"} => Len(nodes) = Len(calls) + (IF pc = "value" THEN 1 ELSE 0)
  <2>1. pc \notin {"close", "done", "value"} => calls # <<>>
    BY DEF ControlOK, Pcs
  <2> QED BY <1>2, <2>1
<1>7. last.set => last.place \in DOMAIN value.tree
  BY <1>2 DEF LastAt
<1> QED BY <1>5, <1>6, <1>7 DEF PlacesAlive

\* Every block in use belongs to exactly one Value, which releases it, and the
\* reader writes to no Value that is gone: operator=, operator[], append,
\* removeMember, swap, resize, clear, setComment, ~Value and CZString, and all
\* that readValue, readObject and readArray do with them.
THEOREM Owns == Spec => []MemoryOwned
<1>1. SessionInv => MemoryOwned
  <2> SUFFICES ASSUME SessionInv PROVE MemoryOwned
    OBVIOUS
  <2>1. /\ Holder(root, Building) /\ Holder(item, Building) /\ Balance(root) + Balance(item) = 0
        /\ Holder(value, Reading) /\ Balance(value) = 0
    BY DEF SessionInv, ReaderInv, BuildInv, Builds, TreeInv, TreeIs
  <2>2. Tree(root.tree, Building) /\ Tree(item.tree, Building) /\ Tree(value.tree, Reading)
    BY <2>1 DEF Holder
  <2>3. /\ TreeOK(root.tree) /\ ReleasesItsOwn(root.tree)
        /\ TreeOK(item.tree) /\ ReleasesItsOwn(item.tree)
        /\ TreeOK(value.tree) /\ ReleasesItsOwn(value.tree)
    BY <2>2, TreeIsOK
  <2>4. \A s \in {root, item, value} : TreeOK(s.tree) /\ ReleasesItsOwn(s.tree)
    BY <2>3
  <2>5. /\ Owned(root.tree) \in Nat /\ Owned(item.tree) \in Nat /\ Owned(value.tree) \in Nat
        /\ root.blocks \in Int /\ item.blocks \in Int /\ value.blocks \in Int
    BY <2>1, <2>2, OwnFinite DEF Tree, Holder
  <2>6. root.blocks + item.blocks = Owned(root.tree) + Owned(item.tree) /\ value.blocks = Owned(value.tree)
    BY <2>1, <2>5 DEF Balance
  <2>7. PlacesAlive
    BY AliveOf DEF SessionInv, ReaderInv
  <2> QED BY <2>4, <2>6, <2>7 DEF MemoryOwned
<1> QED BY <1>1, SessionHolds, PTL
-----------------------------------------------------------------------------
(* Orders: what comparing two things says is -1, 0 or 1, and the orders of     *)
(* three things, two by two, fit together.                                     *)
Orders == {-1, 0, 1}
Composes(x, y, z) ==
  /\ {x, y, z} \subseteq Orders
  /\ x = 0 => z = y
  /\ y = 0 => z = x
  /\ x = y => z = x

\* Sign orders the integers.
LEMMA SignIs ==
  ASSUME NEW a \in Int, NEW b \in Int
  PROVE  /\ Sign(a, b) \in Orders
         /\ Sign(a, b) = 0 <=> a = b
         /\ Sign(b, a) = -Sign(a, b)
         /\ \A c \in Int : Composes(Sign(a, b), Sign(b, c), Sign(a, c))
<1>1. \A x, y \in Int : /\ x < y => Sign(x, y) = -1
                        /\ x = y => Sign(x, y) = 0
                        /\ y < x => Sign(x, y) = 1
  <2> TAKE x, y \in Int
  <2>1. ASSUME x < y PROVE Sign(x, y) = -1
    <3>1. ~(x = y) /\ ~(x > y)
      BY <2>1
    <3> QED BY <2>1, <3>1, Zenon DEF Sign
  <2>2. ASSUME x = y PROVE Sign(x, y) = 0
    <3>1. ~(x < y) /\ ~(x > y)
      BY <2>2
    <3> QED BY <2>2, <3>1, Zenon DEF Sign
  <2>3. ASSUME y < x PROVE Sign(x, y) = 1
    <3>1. x > y /\ ~(x < y) /\ ~(x = y)
      BY <2>3
    <3> QED BY <3>1, Zenon DEF Sign
  <2> QED BY <2>1, <2>2, <2>3
<1>2. Sign(a, b) \in Orders /\ (Sign(a, b) = 0 <=> a = b) /\ Sign(b, a) = -Sign(a, b)
  BY <1>1 DEF Orders
<1>3. ASSUME NEW c \in Int PROVE Composes(Sign(a, b), Sign(b, c), Sign(a, c))
  BY <1>1 DEF Composes, Orders
<1> QED BY <1>2, <1>3

\* First by a number, and where that is the same by something else.
LEMMA Refined ==
  ASSUME NEW a \in Int, NEW b \in Int, NEW c \in Int, NEW x, NEW y, NEW z,
         a = b => x \in Orders, b = c => y \in Orders, a = c => z \in Orders,
         a = b /\ b = c => Composes(x, y, z)
  PROVE  Composes(IF a # b THEN Sign(a, b) ELSE x,
                  IF b # c THEN Sign(b, c) ELSE y,
                  IF a # c THEN Sign(a, c) ELSE z)
<1>1. /\ Sign(a, b) \in Orders /\ Sign(b, c) \in Orders /\ Sign(a, c) \in Orders
      /\ Sign(a, b) = 0 <=> a = b
      /\ Sign(b, c) = 0 <=> b = c
      /\ Sign(a, c) = 0 <=> a = c
      /\ Sign(a, c) = -Sign(c, a)
      /\ a = c => Sign(a, b) = -Sign(b, c)
      /\ Composes(Sign(a, b), Sign(b, c), Sign(a, c))
  BY SignIs
<1>2. CASE a = b /\ b = c
  BY <1>2
<1>3. CASE a = b /\ b # c
  BY <1>1, <1>3 DEF Composes, Orders
<1>4. CASE a # b /\ b = c
  BY <1>1, <1>4 DEF Composes, Orders
<1>5. CASE a # b /\ b # c /\ a = c
  BY <1>1, <1>5 DEF Composes, Orders
<1>6. CASE a # b /\ b # c /\ a # c
  BY <1>1, <1>6
<1> QED BY <1>2, <1>3, <1>4, <1>5, <1>6
-----------------------------------------------------------------------------
(* The first position where two things differ decides.                         *)
Leads(f, n, i) == i \in 1 .. n /\ f[i] # 0 /\ \A j \in 1 .. i - 1 : f[j] = 0

\* Either nothing differs, or the first that does decides.
LEMMA FirstIs ==
  ASSUME NEW n \in Nat, NEW f \in [1 .. n -> Orders]
  PROVE  \/ FirstOf(f) = 0 /\ \A i \in 1 .. n : f[i] = 0
         \/ \E i \in 1 .. n : Leads(f, n, i) /\ FirstOf(f) = f[i]
<1> DEFINE I == {i \in 1 .. Len(f) : f[i] # 0}
           s == SelectInSeq(f, LAMBDA o : o # 0)
<1>1. Len(f) = n
  BY DEF Orders
<1>2. s = IF I # {} THEN Min(I) ELSE 0
  BY DEF SelectInSeq
<1>3. FirstOf(f) = IF s = 0 THEN 0 ELSE f[s]
  BY DEF FirstOf
<1> HIDE DEF s
<1>4. CASE I = {}
  BY <1>1, <1>2, <1>3, <1>4
<1>5. CASE I # {}
  <2>1. I \subseteq Nat /\ \A i \in I : i \in 1 .. n /\ f[i] # 0
    BY <1>1
  <2>2. \A i \in 1 .. n : f[i] # 0 => i \in I
    BY <1>1
  <2> HIDE DEF I
  <2>3. s \in I /\ \A i \in I : s <= i
    BY <1>2, <1>5, <2>1, MinIs
  <2>4. s \in 1 .. n /\ s # 0 /\ f[s] # 0
    BY <2>1, <2>3
  <2>5. \A j \in 1 .. s - 1 : f[j] = 0
    BY <2>2, <2>3, <2>4
  <2> QED BY <1>3, <2>4, <2>5 DEF Leads
<1> QED BY <1>4, <1>5

\* There is one first.
LEMMA FirstBy ==
  ASSUME NEW n \in Nat, NEW f \in [1 .. n -> Orders], NEW i, Leads(f, n, i)
  PROVE  FirstOf(f) = f[i]
<1>1. i \in 1 .. n /\ f[i] # 0 /\ \A j \in 1 .. i - 1 : f[j] = 0
  BY DEF Leads
<1>2. CASE \A j \in 1 .. n : f[j] = 0
  BY <1>1, <1>2
<1>3. CASE \E j \in 1 .. n : Leads(f, n, j) /\ FirstOf(f) = f[j]
  <2>1. PICK j \in 1 .. n : Leads(f, n, j) /\ FirstOf(f) = f[j]
    BY <1>3
  <2>2. f[j] # 0 /\ \A k \in 1 .. j - 1 : f[k] = 0
    BY <2>1 DEF Leads
  <2>3. j = i
    BY <1>1, <2>2
  <2> QED BY <2>1, <2>3
<1> QED BY <1>2, <1>3, FirstIs

\* What adds up to zero.
LEMMA Opposite == \A x, y \in Int : x + y = 0 => y = -x
OBVIOUS

\* The first difference is an order, zero where there is none.
LEMMA FirstOrder ==
  ASSUME NEW n \in Nat, NEW f \in [1 .. n -> Orders]
  PROVE  /\ FirstOf(f) \in Orders
         /\ FirstOf(f) = 0 <=> \A i \in 1 .. n : f[i] = 0
         /\ \A g \in [1 .. n -> Orders] :
              (\A i \in 1 .. n : g[i] = -f[i]) => FirstOf(g) = -FirstOf(f)
<1>1. FirstOf(f) \in Orders /\ (FirstOf(f) = 0 <=> \A i \in 1 .. n : f[i] = 0)
  <2>1. CASE FirstOf(f) = 0 /\ \A i \in 1 .. n : f[i] = 0
    BY <2>1 DEF Orders
  <2>2. CASE \E i \in 1 .. n : Leads(f, n, i) /\ FirstOf(f) = f[i]
    BY <2>2 DEF Leads
  <2> QED BY <2>1, <2>2, FirstIs
<1>2. ASSUME NEW g \in [1 .. n -> Orders], \A i \in 1 .. n : g[i] = -f[i]
      PROVE  FirstOf(g) = -FirstOf(f)
  <2>1. CASE FirstOf(f) = 0 /\ \A i \in 1 .. n : f[i] = 0
    <3>1. \A i \in 1 .. n : g[i] = 0
      BY <1>2, <2>1
    <3>2. FirstOf(g) = 0
      BY <3>1, FirstIs DEF Leads
    <3> QED BY <2>1, <3>2, Opposite, 0 + 0 = 0, 0 \in Int, Zenon
  <2>2. CASE \E i \in 1 .. n : Leads(f, n, i) /\ FirstOf(f) = f[i]
    <3>1. PICK i \in 1 .. n : Leads(f, n, i) /\ FirstOf(f) = f[i]
      BY <2>2
    <3>2. f[i] # 0 /\ f[i] \in Orders /\ \A j \in 1 .. i - 1 : j \in 1 .. n /\ f[j] = 0
      BY <3>1 DEF Leads
    <3>3. Leads(g, n, i)
      BY <1>2, <3>2 DEF Leads, Orders
    <3>4. FirstOf(g) = g[i]
      BY <3>3, FirstBy
    <3> QED BY <1>2, <3>1, <3>4
  <2> QED BY <2>1, <2>2, FirstIs
<1> QED BY <1>1, <1>2

\* If the orders fit together at every position, the first differences do.
LEMMA FirstComposes ==
  ASSUME NEW n \in Nat, NEW f \in [1 .. n -> Orders], NEW g \in [1 .. n -> Orders],
         NEW h \in [1 .. n -> Orders], \A i \in 1 .. n : Composes(f[i], g[i], h[i])
  PROVE  Composes(FirstOf(f), FirstOf(g), FirstOf(h))
<1>0. FirstOf(f) \in Orders /\ FirstOf(g) \in Orders /\ FirstOf(h) \in Orders
  BY FirstOrder
<1>1. CASE FirstOf(f) = 0 /\ \A i \in 1 .. n : f[i] = 0
  <2>1. \A i \in 1 .. n : h[i] = g[i]
    BY <1>1 DEF Composes
  <2>2. h = g
    BY <2>1
  <2> QED BY <1>0, <1>1, <2>2 DEF Composes
<1>2. CASE FirstOf(g) = 0 /\ \A i \in 1 .. n : g[i] = 0
  <2>1. \A i \in 1 .. n : h[i] = f[i]
    BY <1>2 DEF Composes
  <2>2. h = f
    BY <2>1
  <2> QED BY <1>0, <1>2, <2>2 DEF Composes
<1>3. ASSUME NEW i \in 1 .. n, Leads(f, n, i), FirstOf(f) = f[i],
             NEW j \in 1 .. n, Leads(g, n, j), FirstOf(g) = g[j]
      PROVE  Composes(FirstOf(f), FirstOf(g), FirstOf(h))
  <2>1. /\ f[i] # 0 /\ \A k \in 1 .. i - 1 : f[k] = 0
        /\ g[j] # 0 /\ \A k \in 1 .. j - 1 : g[k] = 0
    BY <1>3 DEF Leads
  <2>2. \A k \in 1 .. n : k < i /\ k < j => h[k] = 0
    BY <2>1 DEF Composes
  <2>3. CASE i < j
    <3>1. h[i] = f[i]
      BY <2>1, <2>3 DEF Composes
    <3>2. Leads(h, n, i)
      BY <2>1, <2>2, <2>3, <3>1 DEF Leads
    <3>3. FirstOf(h) = f[i]
      BY <3>1, <3>2, FirstBy
    <3> QED BY <1>0, <1>3, <2>1, <3>3 DEF Composes
  <2>4. CASE j < i
    <3>1. h[j] = g[j]
      BY <2>1, <2>4 DEF Composes
    <3>2. Leads(h, n, j)
      BY <2>1, <2>2, <2>4, <3>1 DEF Leads
    <3>3. FirstOf(h) = g[j]
      BY <3>1, <3>2, FirstBy
    <3> QED BY <1>0, <1>3, <2>1, <3>3 DEF Composes
  <2>5. CASE i = j
    <3>1. CASE f[i] = g[i]
      <4>1. h[i] = f[i]
        BY <3>1 DEF Composes
      <4>2. Leads(h, n, i)
        BY <2>1, <2>2, <2>5, <4>1 DEF Leads
      <4>3. FirstOf(h) = f[i]
        BY <4>1, <4>2, FirstBy
      <4> QED BY <1>0, <1>3, <2>1, <4>3 DEF Composes
    <3>2. CASE f[i] # g[i]
      BY <1>0, <1>3, <2>1, <2>5, <3>2 DEF Composes
    <3> QED BY <3>1, <3>2
  <2> QED BY <2>3, <2>4, <2>5
<1>4. \/ FirstOf(f) = 0 /\ \A i \in 1 .. n : f[i] = 0
      \/ \E i \in 1 .. n : Leads(f, n, i) /\ FirstOf(f) = f[i]
  BY FirstIs
<1>5. \/ FirstOf(g) = 0 /\ \A i \in 1 .. n : g[i] = 0
      \/ \E i \in 1 .. n : Leads(g, n, i) /\ FirstOf(g) = g[i]
  BY FirstIs
<1> QED BY <1>1, <1>2, <1>3, <1>4, <1>5

\* Positions behind the last difference do not matter.
LEMMA FirstLonger ==
  ASSUME NEW m \in Nat, NEW f \in [1 .. m -> Orders], NEW n \in 0 .. m,
         NEW g \in [1 .. n -> Orders], \A i \in 1 .. n : g[i] = f[i],
         \A i \in 1 .. m : i > n => f[i] = 0
  PROVE  FirstOf(f) = FirstOf(g)
<1>0. n \in Nat
  OBVIOUS
<1>1. CASE FirstOf(g) = 0 /\ \A i \in 1 .. n : g[i] = 0
  <2>1. \A i \in 1 .. m : f[i] = 0
    BY <1>0, <1>1
  <2> QED BY <1>1, <2>1, FirstOrder
<1>2. CASE \E i \in 1 .. n : Leads(g, n, i) /\ FirstOf(g) = g[i]
  <2>1. PICK i \in 1 .. n : Leads(g, n, i) /\ FirstOf(g) = g[i]
    BY <1>2
  <2>2. Leads(f, m, i)
    BY <1>0, <2>1 DEF Leads
  <2>3. FirstOf(f) = f[i]
    BY <2>2, FirstBy
  <2> QED BY <2>1, <2>3
<1> QED BY <1>0, <1>1, <1>2, FirstIs
-----------------------------------------------------------------------------
(* What two nodes are compared by.                                             *)

\* Different types have different ranks.
LEMMA RankOrders ==
  /\ \A x \in TypeNames : Rank(x) \in Int
  /\ \A x, y \in TypeNames : Rank(x) = Rank(y) <=> x = y
<1>1. ASSUME NEW x \in TypeNames PROVE Rank(x) \in 1 .. 8 /\ Types[Rank(x)] = x
  <2> DEFINE I == {i \in 1 .. Len(Types) : Types[i] = x}
  <2>1. Rank(x) = IF I # {} THEN Min(I) ELSE 0
    BY DEF Rank, SelectInSeq
  <2>2. Len(Types) = 8
    BY DEF Types
  <2>3. x \in ToSet(Types)
    BY TypesAre
  <2>4. PICK i \in DOMAIN Types : Types[i] = x
    BY <2>3 DEF ToSet
  <2>5. DOMAIN Types = 1 .. 8
    BY DEF Types
  <2>6. i \in I /\ I \subseteq Nat /\ \A j \in I : j \in 1 .. 8 /\ Types[j] = x
    BY <2>2, <2>4, <2>5
  <2> HIDE DEF I
  <2>7. Rank(x) = Min(I) /\ Min(I) \in I
    BY <2>1, <2>6, MinIs
  <2> QED BY <2>6, <2>7
<1> QED BY <1>1

\* The entries of a container, each once.
LEMMA NamesEnumerate ==
  ASSUME NEW t, Tree(t, Building), NEW p \in DOMAIN t
  PROVE  /\ Len(MemberNames(t, p)) \in Nat /\ Len(MemberNames(t, p)) = Cardinality(Keys(t, p))
         /\ \A i \in 1 .. Len(MemberNames(t, p)) :
              MemberNames(t, p)[i] \in Keys(t, p) /\ MemberNames(t, p)[i] \in Int
         /\ \A k \in Keys(t, p) : \E i \in 1 .. Len(MemberNames(t, p)) : MemberNames(t, p)[i] = k
<1> DEFINE S == Keys(t, p)
           n == Cardinality(S)
           m == MemberNames(t, p)
<1>0. p \in Place
  BY DEF Tree, Forest
<1>1. IsFiniteSet(S) /\ S \subseteq Int
  BY <1>0, KeysFinite, KeysAre
<1>2. m = [i \in 1 .. n |-> CHOOSE k \in S : Smaller(S, k) = i - 1]
  BY DEF MemberNames, Smaller
<1> HIDE DEF S, m
<1>3. n \in Nat
  BY <1>1, FS_CardinalityType
<1>4. /\ \A i \in 1 .. n : \E k \in S : Smaller(S, k) = i - 1
      /\ \A x, y \in S : Smaller(S, x) = Smaller(S, y) => x = y
      /\ \A x \in S : Smaller(S, x) \in 0 .. n - 1
  BY <1>1, RankIs
<1> HIDE DEF n
<1>5. \A i \in 1 .. n : m[i] \in S /\ Smaller(S, m[i]) = i - 1
  BY <1>2, <1>4
<1>6. Len(m) = n
  <2>1. m \in [1 .. n -> S]
    BY <1>2, <1>5
  <2> QED BY <1>3, <2>1
<1>7. ASSUME NEW k \in S PROVE \E i \in 1 .. n : m[i] = k
  <2> DEFINE i == Smaller(S, k) + 1
  <2>1. i \in 1 .. n /\ i - 1 = Smaller(S, k)
    BY <1>3, <1>4
  <2> HIDE DEF i
  <2>2. m[i] = k
    BY <1>4, <1>5, <2>1
  <2> QED BY <2>1, <2>2
<1>8. /\ Len(m) \in Nat /\ Len(m) = Cardinality(S)
      /\ \A i \in 1 .. Len(m) : m[i] \in S /\ m[i] \in Int
      /\ \A k \in S : \E i \in 1 .. Len(m) : m[i] = k
  BY <1>1, <1>3, <1>5, <1>6, <1>7 DEF n
<1> QED BY <1>8 DEF S, m
-----------------------------------------------------------------------------
(* Texts are compared up to the zero behind them, which is in none of them.    *)
CString == Seq(Nat \ {0})
CharAt(s, i) == IF i > Len(s) THEN 0 ELSE s[i]
Letters(x, y, n) == [i \in 1 .. n |-> Sign(CharAt(x, i), CharAt(y, i))]
\* A text that there is.
Spelled(n) == n.val \in CString /\ n.str.at # "nothing"

\* Only behind a text there is a zero.
LEMMA CharAtIs ==
  ASSUME NEW s \in CString, NEW i \in Nat \ {0}
  PROVE  CharAt(s, i) \in Nat /\ (CharAt(s, i) = 0 <=> i > Len(s)) /\ Len(s) \in Nat
BY DEF CharAt, CString

\* Two texts, letter by letter.
LEMMA LettersIs ==
  ASSUME NEW x \in CString, NEW y \in CString, NEW n \in Nat
  PROVE  /\ Letters(x, y, n) \in [1 .. n -> Orders]
         /\ \A i \in 1 .. n : Letters(x, y, n)[i] = Sign(CharAt(x, i), CharAt(y, i))
         /\ \A i \in 1 .. n : i \in Nat \ {0} /\ CharAt(x, i) \in Int /\ CharAt(y, i) \in Int
<1>1. \A i \in 1 .. n : i \in Nat \ {0} /\ CharAt(x, i) \in Int /\ CharAt(y, i) \in Int
  BY CharAtIs
<1>2. \A i \in 1 .. n : Sign(CharAt(x, i), CharAt(y, i)) \in Orders
  BY <1>1, SignIs
<1> QED BY <1>1, <1>2 DEF Letters

\* The texts may be compared up to any position behind both.
LEMMA StringOrderIs ==
  ASSUME NEW a, Spelled(a), NEW b, Spelled(b), NEW m \in Nat, Len(a.val) <= m, Len(b.val) <= m
  PROVE  StringOrder(a, b) = FirstOf(Letters(a.val, b.val, m))
<1> DEFINE x == a.val
           y == b.val
           n == Max({Len(x), Len(y)})
<1>1. x \in CString /\ y \in CString /\ Len(x) \in Nat /\ Len(y) \in Nat
  BY DEF Spelled, CString
<1>2. n \in {Len(x), Len(y)} /\ Len(x) <= n /\ Len(y) <= n
  <2>1. {Len(x), Len(y)} \subseteq Nat /\ {Len(x), Len(y)} # {}
    BY <1>1
  <2>2. IsFiniteSet({Len(x), Len(y)})
    <3>1. IsFiniteSet({Len(x)}) /\ IsFiniteSet({Len(y)})
      BY FS_Singleton
    <3>2. {Len(x), Len(y)} = {Len(x)} \cup {Len(y)}
      OBVIOUS
    <3> QED BY <3>1, <3>2, FS_Union
  <2>3. Max({Len(x), Len(y)}) \in {Len(x), Len(y)} /\ \A z \in {Len(x), Len(y)} : Max({Len(x), Len(y)}) >= z
    BY <2>1, <2>2, MaxIs
  <2> QED BY <1>1, <2>3
<1>3. StringOrder(a, b) = FirstOf(Letters(x, y, n))
  <2>1. ~("nothing" \in {a.str.at, b.str.at})
    BY DEF Spelled
  <2>2. Letters(x, y, n) = [i \in 1 .. n |-> Sign(IF i > Len(x) THEN 0 ELSE x[i], IF i > Len(y) THEN 0 ELSE y[i])]
    BY DEF Letters, CharAt
  <2> QED BY <2>1, <2>2 DEF StringOrder
<1> HIDE DEF n
<1>4. n \in 0 .. m /\ n \in Nat
  BY <1>1, <1>2
<1> HIDE DEF x, y
<1>4a. /\ \A i \in 1 .. m : Letters(x, y, m)[i] = Sign(CharAt(x, i), CharAt(y, i))
       /\ \A i \in 1 .. n : Letters(x, y, n)[i] = Sign(CharAt(x, i), CharAt(y, i))
       /\ Letters(x, y, m) \in [1 .. m -> Orders] /\ Letters(x, y, n) \in [1 .. n -> Orders]
  BY <1>1, <1>4, LettersIs
<1>5. ASSUME NEW i \in 1 .. m, i > n PROVE Letters(x, y, m)[i] = 0
  <2>1. CharAt(x, i) = 0 /\ CharAt(y, i) = 0
    BY <1>1, <1>2, <1>4, <1>5, CharAtIs
  <2>2. Sign(0, 0) = 0
    BY SignIs
  <2> QED BY <1>4a, <2>1, <2>2
<1>6. \A i \in 1 .. n : i \in 1 .. m /\ Letters(x, y, n)[i] = Letters(x, y, m)[i]
  BY <1>4, <1>4a
<1>7. FirstOf(Letters(x, y, m)) = FirstOf(Letters(x, y, n))
  BY <1>4, <1>4a, <1>5, <1>6, FirstLonger
<1> QED BY <1>3, <1>7 DEF x, y

\* A sum is no less than what is added.
LEMMA SumIs ==
  /\ \A i, j \in Nat : i + j \in Nat /\ i <= i + j /\ j <= i + j
  /\ \A i, j, k \in Nat : i + j + k \in Nat /\ i <= i + j + k /\ j <= i + j + k /\ k <= i + j + k
OBVIOUS

\* strcmp orders the texts.
LEMMA StringsOrdered ==
  ASSUME NEW a, Spelled(a), NEW b, Spelled(b)
  PROVE  /\ StringOrder(a, b) \in Orders
         /\ StringOrder(a, b) = 0 <=> a.val = b.val
         /\ StringOrder(b, a) = -StringOrder(a, b)
         /\ \A c : Spelled(c) => Composes(StringOrder(a, b), StringOrder(b, c), StringOrder(a, c))
<1>1. a.val \in CString /\ b.val \in CString /\ Len(a.val) \in Nat /\ Len(b.val) \in Nat
  BY DEF Spelled, CString
<1> DEFINE m == Len(a.val) + Len(b.val)
           f == Letters(a.val, b.val, m)
           g == Letters(b.val, a.val, m)
<1>2. m \in Nat /\ Len(a.val) <= m /\ Len(b.val) <= m
  BY ONLY <1>1, SumIs
<1>3. StringOrder(a, b) = FirstOf(f) /\ StringOrder(b, a) = FirstOf(g)
  BY <1>2, StringOrderIs
<1> HIDE DEF m
<1>4. f \in [1 .. m -> Orders] /\ g \in [1 .. m -> Orders]
  BY <1>1, <1>2, LettersIs
<1>5. \A i \in 1 .. m : /\ CharAt(a.val, i) \in Int /\ CharAt(b.val, i) \in Int
                        /\ f[i] = Sign(CharAt(a.val, i), CharAt(b.val, i))
                        /\ g[i] = Sign(CharAt(b.val, i), CharAt(a.val, i))
  <2>1. \A i \in 1 .. m : CharAt(a.val, i) \in Int /\ CharAt(b.val, i) \in Int
    BY <1>1, <1>2, CharAtIs
  <2> QED BY <2>1 DEF Letters
<1> HIDE DEF f, g
<1>6. \A i \in 1 .. m : g[i] = -f[i] /\ (f[i] = 0 <=> CharAt(a.val, i) = CharAt(b.val, i))
  BY <1>5, SignIs
<1>7. StringOrder(a, b) \in Orders /\ StringOrder(b, a) = -StringOrder(a, b)
  BY <1>2, <1>3, <1>4, <1>6, FirstOrder
<1>8. StringOrder(a, b) = 0 <=> \A i \in 1 .. m : CharAt(a.val, i) = CharAt(b.val, i)
  BY <1>2, <1>3, <1>4, <1>6, FirstOrder
<1>9. ASSUME \A i \in 1 .. m : CharAt(a.val, i) = CharAt(b.val, i)
      PROVE  a.val = b.val
  <2>1. ASSUME NEW x \in CString, NEW y \in CString, Len(x) < Len(y), Len(y) <= m,
               \A i \in 1 .. m : CharAt(x, i) = CharAt(y, i)
        PROVE  FALSE
    <3>1. Len(x) \in Nat /\ Len(y) \in Nat
      BY DEF CString
    <3>2. Len(y) \in 1 .. m /\ Len(y) \in Nat \ {0}
      BY <1>2, <2>1, <3>1
    <3>3. CharAt(x, Len(y)) = 0 /\ CharAt(y, Len(y)) # 0
      BY <2>1, <3>1, <3>2, CharAtIs
    <3> QED BY <2>1, <3>2, <3>3
  <2>2. Len(a.val) = Len(b.val)
    BY <1>1, <1>2, <1>9, <2>1
  <2>3. ASSUME NEW i \in 1 .. Len(a.val) PROVE a.val[i] = b.val[i]
    <3>1. i \in 1 .. m /\ ~(i > Len(a.val)) /\ ~(i > Len(b.val))
      BY <1>1, <1>2, <2>2
    <3> QED BY <1>9, <3>1 DEF CharAt
  <2> QED BY <1>1, <2>2, <2>3, SeqEqual DEF CString
<1>10. ASSUME NEW c, Spelled(c)
       PROVE  Composes(StringOrder(a, b), StringOrder(b, c), StringOrder(a, c))
  <2>1. c.val \in CString /\ Len(c.val) \in Nat
    BY <1>10 DEF Spelled, CString
  <2> DEFINE l == Len(a.val) + Len(b.val) + Len(c.val)
             u == Letters(a.val, b.val, l)
             v == Letters(b.val, c.val, l)
             w == Letters(a.val, c.val, l)
  <2>2. l \in Nat /\ Len(a.val) <= l /\ Len(b.val) <= l /\ Len(c.val) <= l
    BY ONLY <1>1, <2>1, SumIs
  <2>3. StringOrder(a, b) = FirstOf(u) /\ StringOrder(b, c) = FirstOf(v) /\ StringOrder(a, c) = FirstOf(w)
    BY <1>10, <2>2, StringOrderIs
  <2> HIDE DEF l
  <2>4. u \in [1 .. l -> Orders] /\ v \in [1 .. l -> Orders] /\ w \in [1 .. l -> Orders]
    <3>1. u \in [1 .. l -> Orders]
      BY <1>1, <2>2, LettersIs
    <3>2. v \in [1 .. l -> Orders]
      BY <1>1, <2>1, <2>2, LettersIs
    <3>3. w \in [1 .. l -> Orders]
      BY <1>1, <2>1, <2>2, LettersIs
    <3> QED BY <3>1, <3>2, <3>3
  <2>5. \A i \in 1 .. l : /\ CharAt(a.val, i) \in Int /\ CharAt(b.val, i) \in Int /\ CharAt(c.val, i) \in Int
                          /\ u[i] = Sign(CharAt(a.val, i), CharAt(b.val, i))
                          /\ v[i] = Sign(CharAt(b.val, i), CharAt(c.val, i))
                          /\ w[i] = Sign(CharAt(a.val, i), CharAt(c.val, i))
    <3>1. \A i \in 1 .. l : CharAt(a.val, i) \in Int /\ CharAt(b.val, i) \in Int /\ CharAt(c.val, i) \in Int
      BY <1>1, <2>1, <2>2, CharAtIs
    <3>2. \A i \in 1 .. l : u[i] = Sign(CharAt(a.val, i), CharAt(b.val, i))
      BY DEF Letters
    <3>3. \A i \in 1 .. l : v[i] = Sign(CharAt(b.val, i), CharAt(c.val, i))
      BY DEF Letters
    <3>4. \A i \in 1 .. l : w[i] = Sign(CharAt(a.val, i), CharAt(c.val, i))
      BY DEF Letters
    <3> HIDE DEF u, v, w
    <3> QED BY <3>1, <3>2, <3>3, <3>4
  <2> HIDE DEF u, v, w
  <2>6. \A i \in 1 .. l : Composes(u[i], v[i], w[i])
    BY <2>5, SignIs
  <2> QED BY <2>2, <2>3, <2>4, <2>6, FirstComposes
<1> QED BY <1>7, <1>8, <1>9, <1>10
-----------------------------------------------------------------------------
(* Comparing: from the innermost places outwards.                              *)
EntryOrder(v, w, p, g, i) ==
  IF MemberNames(v, p)[i] # MemberNames(w, p)[i] THEN Sign(MemberNames(v, p)[i], MemberNames(w, p)[i])
  ELSE g[Append(p, MemberNames(v, p)[i])]
Entries(v, w, p, g) == [i \in 1 .. Len(MemberNames(v, p)) |-> EntryOrder(v, w, p, g, i)]

\* What nodes of the same type are compared by.
ContentOrder(v, w, p, g) ==
  IF v[p].type \in Containers
  THEN IF Len(MemberNames(v, p)) # Len(MemberNames(w, p))
       THEN Sign(Len(MemberNames(v, p)), Len(MemberNames(w, p))) ELSE FirstOf(Entries(v, w, p, g))
  ELSE IF v[p].type = "string" THEN StringOrder(v[p], w[p])
  ELSE IF v[p].type = "null" THEN 0
  ELSE Sign(v[p].val[1], w[p].val[1])
OrderAt(v, w, p, g) ==
  IF Rank(v[p].type) # Rank(w[p].type) THEN Sign(Rank(v[p].type), Rank(w[p].type))
  ELSE ContentOrder(v, w, p, g)

Shared(v, w) == DOMAIN v \cap DOMAIN w
Compares(v, w, g) == g = [p \in Shared(v, w) |-> OrderAt(v, w, p, g)]

\* What is said of a place is said of it by what is said of the places in it.
LEMMA InsideOut ==
  ASSUME NEW t, Tree(t, Building), NEW G,
         \A p \in DOMAIN t : (\A k \in Keys(t, p) : Append(p, k) \in G) => p \in G
  PROVE  \A p \in DOMAIN t : p \in G
<1>1. PICK m \in Nat : \A p \in DOMAIN t : Len(p) \in Nat /\ Len(p) <= m
  BY Deepest
<1> DEFINE T == {n \in 0 .. m + 1 : \A p \in DOMAIN t : Len(p) > m - n => p \in G}
<1>2. 0 \in T
  BY <1>1
<1>3. ASSUME NEW n \in 0 .. m, n \in T PROVE n + 1 \in T
  <2>1. ASSUME NEW p \in DOMAIN t, Len(p) > m - (n + 1) PROVE p \in G
    <3>1. ASSUME NEW k \in Keys(t, p) PROVE Append(p, k) \in G
      <4>1. Append(p, k) \in DOMAIN t /\ Len(Append(p, k)) = Len(p) + 1 /\ Len(p) \in Nat
        BY <1>1, ChildIs
      <4>2. Len(Append(p, k)) > m - n
        BY <2>1, <4>1
      <4> QED BY <1>3, <4>1, <4>2
    <3> QED BY <3>1
  <2> QED BY <2>1
<1>4. m + 1 \in T
  <2> HIDE DEF T
  <2>1. m + 1 \in Nat /\ \A n \in 0 .. m + 1 - 1 : n \in 0 .. m
    OBVIOUS
  <2>2. \A n \in 0 .. m + 1 - 1 : n \in T => n + 1 \in T
    BY <1>3, <2>1
  <2>3. \A n \in 0 .. m + 1 : n \in T
    BY <1>2, <2>1, <2>2, UpTo
  <2> QED BY <2>1, <2>3
<1> SUFFICES ASSUME NEW p \in DOMAIN t PROVE p \in G
  OBVIOUS
<1>5. Len(p) > m - (m + 1)
  BY <1>1
<1> QED BY <1>4, <1>5

\* OrderAt looks only at the entries.
LEMMA OrderAtAgrees ==
  ASSUME NEW v, Tree(v, Building), NEW w, Tree(w, Building), NEW p \in Shared(v, w), NEW g, NEW h,
         \A k \in Keys(v, p) \cap Keys(w, p) : g[Append(p, k)] = h[Append(p, k)]
  PROVE  OrderAt(v, w, p, g) = OrderAt(v, w, p, h)
<1>1. p \in DOMAIN v /\ p \in DOMAIN w
  BY DEF Shared
<1>2. ASSUME Len(MemberNames(v, p)) = Len(MemberNames(w, p))
      PROVE  Entries(v, w, p, g) = Entries(v, w, p, h)
  <2>1. ASSUME NEW i \in 1 .. Len(MemberNames(v, p)) PROVE EntryOrder(v, w, p, g, i) = EntryOrder(v, w, p, h, i)
    <3>1. MemberNames(v, p)[i] \in Keys(v, p) /\ MemberNames(w, p)[i] \in Keys(w, p)
      BY <1>1, <1>2, NamesEnumerate
    <3> QED BY <3>1 DEF EntryOrder
  <2> QED BY <2>1 DEF Entries
<1>3. ContentOrder(v, w, p, g) = ContentOrder(v, w, p, h)
  BY <1>2 DEF ContentOrder
<1> QED BY <1>3 DEF OrderAt

\* There is such a comparison, and Order is what it says of the roots.
LEMMA ComparesThere ==
  ASSUME NEW v, Tree(v, Building), NEW w, Tree(w, Building)
  PROVE  \E g : Compares(v, w, g)
<1> DEFINE C == Shared(v, w)
<1>1. PICK m \in Nat : \A p \in DOMAIN v : Len(p) \in Nat /\ Len(p) <= m
  BY Deepest
<1>2. \A p \in C : p \in DOMAIN v
  BY DEF Shared
<1> DEFINE Done(g, n) == g = [p \in C |-> g[p]] /\ \A p \in C : Len(p) > m - n => g[p] = OrderAt(v, w, p, g)
           T == {n \in 0 .. m + 1 : \E g : Done(g, n)}
<1>3. 0 \in T
  <2> DEFINE g == [p \in C |-> 0]
  <2>1. g = [p \in C |-> g[p]] /\ \A p \in C : ~(Len(p) > m - 0)
    BY <1>1, <1>2
  <2> HIDE DEF g
  <2>2. Done(g, 0)
    BY <2>1
  <2> HIDE DEF Done
  <2> QED BY <2>2
<1>4. ASSUME NEW n \in 0 .. m, n \in T PROVE n + 1 \in T
  <2>1. PICK g : Done(g, n)
    BY <1>4
  <2> DEFINE x == [p \in C |-> IF Len(p) = m - n THEN OrderAt(v, w, p, g) ELSE g[p]]
  <2>2. ASSUME NEW p \in C, Len(p) > m - (n + 1) PROVE OrderAt(v, w, p, g) = OrderAt(v, w, p, x)
    <3>1. ASSUME NEW k \in Keys(v, p) \cap Keys(w, p) PROVE g[Append(p, k)] = x[Append(p, k)]
      <4>1. Append(p, k) \in C /\ Len(Append(p, k)) = Len(p) + 1 /\ Len(p) \in Nat
        BY <1>1, ChildIs DEF Shared
      <4>2. Len(Append(p, k)) # m - n
        BY <2>2, <4>1
      <4> QED BY <4>1, <4>2
    <3> HIDE DEF x
    <3> QED BY <2>2, <3>1, OrderAtAgrees
  <2>3. ASSUME NEW p \in C, Len(p) > m - (n + 1) PROVE x[p] = OrderAt(v, w, p, x)
    <3>1. CASE Len(p) = m - n
      BY <2>2, <2>3, <3>1
    <3>2. CASE Len(p) # m - n
      <4>1. Len(p) > m - n
        BY <1>1, <1>2, <2>3, <3>2
      <4>2. g[p] = OrderAt(v, w, p, g)
        BY <2>1, <4>1
      <4>3. x[p] = g[p]
        BY <3>2
      <4> QED BY <2>2, <2>3, <4>2, <4>3
    <3> QED BY <3>1, <3>2
  <2>4. x = [p \in C |-> x[p]]
    OBVIOUS
  <2> HIDE DEF x
  <2>5. Done(x, n + 1)
    BY <2>3, <2>4
  <2>6. n + 1 \in 0 .. m + 1
    OBVIOUS
  <2> HIDE DEF Done
  <2> QED BY <2>5, <2>6
<1>5. m + 1 \in T
  <2> HIDE DEF T
  <2>1. m + 1 \in Nat /\ \A n \in 0 .. m + 1 - 1 : n \in 0 .. m
    OBVIOUS
  <2>2. \A n \in 0 .. m + 1 - 1 : n \in T => n + 1 \in T
    BY <1>4, <2>1
  <2>3. \A n \in 0 .. m + 1 : n \in T
    BY <1>3, <2>1, <2>2, UpTo
  <2> QED BY <2>1, <2>3
<1>6. PICK g : Done(g, m + 1)
  BY <1>5
<1>7. \A p \in C : g[p] = OrderAt(v, w, p, g)
  <2> TAKE p \in C
  <2>1. Len(p) > m - (m + 1)
    BY <1>1, <1>2
  <2> QED BY <1>6, <2>1
<1>8. g = [p \in C |-> g[p]]
  BY <1>6
<1>9. g = [p \in C |-> OrderAt(v, w, p, g)]
  BY <1>7, <1>8
<1> QED BY <1>9 DEF Compares
-----------------------------------------------------------------------------
(* What Order compares.                                                        *)
PlainTypes == {"int", "uint", "real", "boolean"}

\* What a node holds, by its type.
LEMMA Contents ==
  ASSUME NEW t, Tree(t, Building), NEW p \in DOMAIN t
  PROVE  /\ t[p].type \in TypeNames /\ Rank(t[p].type) \in Int
         /\ t[p].type \in Containers \cup {"null"} => t[p].val = <<>>
         /\ t[p].type = "string" => Spelled(t[p])
         /\ t[p].type \in PlainTypes => t[p].val[1] \in Int /\ t[p].val = <<t[p].val[1]>>
<1> DEFINE n == t[p]
<1>1. Sound(n, Building)
  BY DEF Tree, Forest
<1>2. n.type \in TypeNames /\ Rank(n.type) \in Int
  BY NumbersThere, RankOrders
<1> HIDE DEF n
<1>3. n.type \in Containers \cup {"null"} => n.val = <<>>
  BY <1>1 DEF Sound, NodeOK
<1>4. n.type = "string" => Spelled(n)
  BY <1>1, BuildingIs DEF Sound, Spelled, CString
<1>5. n.type \in PlainTypes => n.val \in Seq(Int) /\ Len(n.val) = 1
  BY <1>1 DEF Sound, NodeOK, PlainTypes
<1>6. \A s \in Seq(Int) : Len(s) = 1 => s[1] \in Int /\ s = <<s[1]>>
  OBVIOUS
<1> QED BY <1>2, <1>3, <1>4, <1>5, <1>6 DEF n

\* Order is such a comparison.
LEMMA OrderIs ==
  ASSUME NEW v, Tree(v, Building), NEW w, Tree(w, Building)
  PROVE  \E g : Compares(v, w, g) /\ Order(v, w) = g[<<>>]
<1> DEFINE C == DOMAIN v \cap DOMAIN w
           Body(g, p) ==
             LET a == MemberNames(v, p)
                 b == MemberNames(w, p)
                 Ordered(i) == IF a[i] # b[i] THEN Sign(a[i], b[i]) ELSE g[Append(p, a[i])]
             IN  CASE v[p].type # w[p].type -> Sign(Rank(v[p].type), Rank(w[p].type))
                   [] v[p].type = w[p].type /\ v[p].type \in Containers ->
                        IF Len(a) # Len(b) THEN Sign(Len(a), Len(b))
                        ELSE FirstOf([i \in 1 .. Len(a) |-> Ordered(i)])
                   [] v[p].type = w[p].type /\ v[p].type = "string" -> StringOrder(v[p], w[p])
                   [] v[p].type = w[p].type /\ v[p].type = "null"   -> 0
                   [] OTHER -> Sign(v[p].val[1], w[p].val[1])
           order[p \in DOMAIN v \cap DOMAIN w] == Body(order, p)
<1>1. \A g, p : v[p].type # w[p].type => Body(g, p) = Sign(Rank(v[p].type), Rank(w[p].type))
  <2> TAKE g, p
  <2> HAVE v[p].type # w[p].type
  <2>1. ~(v[p].type = w[p].type)
    OBVIOUS
  <2> QED BY <2>1, Zenon
<1>2. ASSUME NEW g, NEW p, v[p].type = w[p].type PROVE Body(g, p) = ContentOrder(v, w, p, g)
  <2>1. CASE v[p].type \in Containers
    <3>1. ~(v[p].type # w[p].type) /\ v[p].type # "string" /\ v[p].type # "null"
      BY <1>2, <2>1 DEF Containers
    <3> QED BY <1>2, <2>1, <3>1, Zenon DEF ContentOrder, Entries, EntryOrder
  <2>2. CASE v[p].type = "string"
    <3>1. ~(v[p].type # w[p].type) /\ v[p].type \notin Containers /\ v[p].type # "null"
      BY <1>2, <2>2 DEF Containers
    <3> QED BY <1>2, <2>2, <3>1, Zenon DEF ContentOrder
  <2>3. CASE v[p].type = "null"
    <3>1. ~(v[p].type # w[p].type) /\ v[p].type \notin Containers /\ v[p].type # "string"
      BY <1>2, <2>3 DEF Containers
    <3> QED BY <1>2, <2>3, <3>1, Zenon DEF ContentOrder
  <2>4. CASE v[p].type \notin Containers /\ v[p].type # "string" /\ v[p].type # "null"
    <3>1. ~(v[p].type # w[p].type)
      BY <1>2
    <3> QED BY <2>4, <3>1, Zenon DEF ContentOrder
  <2> QED BY <2>1, <2>2, <2>3, <2>4, Zenon
<1> HIDE DEF Body
<1>3. \A g : \A p \in Shared(v, w) : Body(g, p) = OrderAt(v, w, p, g)
  <2> TAKE g
  <2> TAKE p \in Shared(v, w)
  <2>1. v[p].type \in TypeNames /\ w[p].type \in TypeNames
    BY Contents DEF Shared
  <2>2. Rank(v[p].type) = Rank(w[p].type) <=> v[p].type = w[p].type
    BY <2>1, RankOrders
  <2>3. ASSUME v[p].type = w[p].type PROVE Body(g, p) = OrderAt(v, w, p, g)
    <3>1. Body(g, p) = ContentOrder(v, w, p, g)
      BY <1>2, <2>3
    <3> QED BY <2>2, <2>3, <3>1 DEF OrderAt
  <2>4. ASSUME v[p].type # w[p].type PROVE Body(g, p) = OrderAt(v, w, p, g)
    <3>1. Body(g, p) = Sign(Rank(v[p].type), Rank(w[p].type))
      BY <1>1, <2>4
    <3> QED BY <2>2, <2>4, <3>1 DEF OrderAt
  <2> QED BY <2>3, <2>4, Zenon
<1>4. PICK h : Compares(v, w, h)
  BY ComparesThere
<1>5. h = [p \in C |-> Body(h, p)]
  BY <1>3, <1>4, Zenon DEF Compares, Shared
<1>6. order = [p \in C |-> Body(order, p)]
  BY <1>5
<1>7. Order(v, w) = order[<<>>]
  BY DEF Order, Body
<1> HIDE DEF order
<1>8. Compares(v, w, order)
  BY <1>3, <1>6, Zenon DEF Compares, Shared
<1> QED BY <1>7, <1>8
-----------------------------------------------------------------------------
(* What comparing two trees says, at every place that both have.               *)
Within(v, w, p, g) == \A k \in Keys(v, p) \cap Keys(w, p) : g[Append(p, k)] \in Orders

\* The entries of two containers of one size, one by one.
LEMMA EntriesAre ==
  ASSUME NEW v, Tree(v, Building), NEW w, Tree(w, Building), NEW p \in Shared(v, w), NEW g,
         Within(v, w, p, g), NEW n, n = Len(MemberNames(v, p)), n = Len(MemberNames(w, p))
  PROVE  /\ n \in Nat /\ Entries(v, w, p, g) \in [1 .. n -> Orders]
         /\ \A i \in 1 .. n : /\ Entries(v, w, p, g)[i] = EntryOrder(v, w, p, g, i)
                              /\ MemberNames(v, p)[i] \in Keys(v, p) /\ MemberNames(v, p)[i] \in Int
                              /\ MemberNames(w, p)[i] \in Keys(w, p) /\ MemberNames(w, p)[i] \in Int
<1>1. p \in DOMAIN v /\ p \in DOMAIN w
  BY DEF Shared
<1>2. n \in Nat /\ \A i \in 1 .. n : /\ MemberNames(v, p)[i] \in Keys(v, p) /\ MemberNames(v, p)[i] \in Int
                                     /\ MemberNames(w, p)[i] \in Keys(w, p) /\ MemberNames(w, p)[i] \in Int
  BY <1>1, NamesEnumerate
<1>3. \A i \in 1 .. n : EntryOrder(v, w, p, g, i) \in Orders
  <2> TAKE i \in 1 .. n
  <2>1. MemberNames(v, p)[i] \in Int /\ MemberNames(w, p)[i] \in Int
    BY <1>2
  <2>2. Sign(MemberNames(v, p)[i], MemberNames(w, p)[i]) \in Orders
    BY <2>1, SignIs
  <2>3. CASE MemberNames(v, p)[i] = MemberNames(w, p)[i]
    <3>1. g[Append(p, MemberNames(v, p)[i])] \in Orders
      BY <1>2, <2>3 DEF Within
    <3> QED BY <2>3, <3>1 DEF EntryOrder
  <2> QED BY <2>2, <2>3 DEF EntryOrder
<1> QED BY <1>2, <1>3 DEF Entries

\* Nodes of one type are ordered.
LEMMA ContentOrders ==
  ASSUME NEW v, Tree(v, Building), NEW w, Tree(w, Building), NEW p \in Shared(v, w), NEW g,
         Within(v, w, p, g), v[p].type = w[p].type
  PROVE  ContentOrder(v, w, p, g) \in Orders
<1>1. p \in DOMAIN v /\ p \in DOMAIN w
  BY DEF Shared
<1>2. CASE v[p].type \in Containers
  <2>1. Len(MemberNames(v, p)) \in Int /\ Len(MemberNames(w, p)) \in Int
    BY <1>1, NamesEnumerate
  <2>2. Sign(Len(MemberNames(v, p)), Len(MemberNames(w, p))) \in Orders
    BY <2>1, SignIs
  <2>3. Len(MemberNames(v, p)) = Len(MemberNames(w, p)) => FirstOf(Entries(v, w, p, g)) \in Orders
    BY EntriesAre, FirstOrder
  <2> QED BY <1>2, <2>2, <2>3 DEF ContentOrder
<1>3. CASE v[p].type = "string"
  <2>1. Spelled(v[p]) /\ Spelled(w[p])
    BY <1>1, <1>3, Contents
  <2> QED BY <1>3, <2>1, StringsOrdered DEF ContentOrder, Containers
<1>4. CASE v[p].type = "null"
  BY <1>4 DEF ContentOrder, Containers, Orders
<1>5. CASE v[p].type \in PlainTypes
  <2>1. v[p].val[1] \in Int /\ w[p].val[1] \in Int
    BY <1>1, <1>5, Contents
  <2>2. Sign(v[p].val[1], w[p].val[1]) \in Orders
    BY <2>1, SignIs
  <2> QED BY <1>5, <2>2 DEF ContentOrder, Containers, PlainTypes
<1>6. v[p].type \in TypeNames
  BY <1>1, Contents
<1> QED BY <1>2, <1>3, <1>4, <1>5, <1>6 DEF TypeNames, Containers, PlainTypes

\* At every place two trees are ordered.
LEMMA OrderRange ==
  ASSUME NEW v, Tree(v, Building), NEW w, Tree(w, Building), NEW g, Compares(v, w, g)
  PROVE  \A p \in Shared(v, w) : g[p] \in Orders /\ Within(v, w, p, g)
<1> DEFINE G == {p \in DOMAIN v : p \in DOMAIN w => g[p] \in Orders}
<1>1. ASSUME NEW p \in DOMAIN v, \A k \in Keys(v, p) : Append(p, k) \in G PROVE p \in G
  <2> SUFFICES ASSUME p \in DOMAIN w PROVE g[p] \in Orders
    OBVIOUS
  <2>1. p \in Shared(v, w)
    BY DEF Shared
  <2>2. Within(v, w, p, g)
    BY <1>1, ChildIs DEF Within
  <2>3. v[p].type \in TypeNames /\ w[p].type \in TypeNames
        /\ Rank(v[p].type) \in Int /\ Rank(w[p].type) \in Int
    BY Contents
  <2>4. Sign(Rank(v[p].type), Rank(w[p].type)) \in Orders
    BY <2>3, SignIs
  <2>5. Rank(v[p].type) = Rank(w[p].type) => v[p].type = w[p].type
    BY <2>3, RankOrders
  <2>6. Rank(v[p].type) = Rank(w[p].type) => ContentOrder(v, w, p, g) \in Orders
    BY <2>1, <2>2, <2>5, ContentOrders
  <2>7. g[p] = OrderAt(v, w, p, g)
    BY <2>1, Zenon DEF Compares
  <2> QED BY <2>4, <2>6, <2>7 DEF OrderAt
<1> HIDE DEF G
<1>2. \A p \in DOMAIN v : p \in G
  BY <1>1, InsideOut
<1>3. \A p \in Shared(v, w) : g[p] \in Orders
  BY <1>2 DEF G, Shared
<1>4. \A p \in Shared(v, w) : \A k \in Keys(v, p) \cap Keys(w, p) : Append(p, k) \in Shared(v, w)
  BY ChildIs DEF Shared
<1> QED BY <1>3, <1>4 DEF Within

\* Compared the other way, each is the opposite.
LEMMA OrderOpposite ==
  ASSUME NEW v, Tree(v, Building), NEW w, Tree(w, Building), NEW g, Compares(v, w, g),
         NEW h, Compares(w, v, h)
  PROVE  \A p \in Shared(v, w) : h[p] = -g[p]
<1> DEFINE G == {p \in DOMAIN v : p \in DOMAIN w => h[p] = -g[p]}
<1>0. -0 = 0
  BY Opposite, 0 + 0 = 0, 0 \in Int, Zenon
<1>1. ASSUME NEW p \in DOMAIN v, \A k \in Keys(v, p) : Append(p, k) \in G PROVE p \in G
  <2> SUFFICES ASSUME p \in DOMAIN w PROVE h[p] = -g[p]
    OBVIOUS
  <2>1. p \in Shared(v, w) /\ p \in Shared(w, v)
    BY DEF Shared
  <2>2. /\ v[p].type \in TypeNames /\ w[p].type \in TypeNames
        /\ Rank(v[p].type) \in Int /\ Rank(w[p].type) \in Int
    BY Contents
  <2>3. Sign(Rank(w[p].type), Rank(v[p].type)) = -Sign(Rank(v[p].type), Rank(w[p].type))
    BY <2>2, SignIs
  <2>4. g[p] = OrderAt(v, w, p, g) /\ h[p] = OrderAt(w, v, p, h)
    BY <2>1, Zenon DEF Compares
  <2>5. Within(v, w, p, g) /\ Within(w, v, p, h)
    BY <2>1, OrderRange
  <2>6. ASSUME v[p].type = w[p].type PROVE ContentOrder(w, v, p, h) = -ContentOrder(v, w, p, g)
    <3>1. CASE v[p].type \in Containers
      <4>1. Len(MemberNames(v, p)) \in Int /\ Len(MemberNames(w, p)) \in Int
        BY NamesEnumerate
      <4>2. Sign(Len(MemberNames(w, p)), Len(MemberNames(v, p))) = -Sign(Len(MemberNames(v, p)), Len(MemberNames(w, p)))
        BY <4>1, SignIs
      <4>3. ASSUME Len(MemberNames(v, p)) = Len(MemberNames(w, p))
            PROVE  FirstOf(Entries(w, v, p, h)) = -FirstOf(Entries(v, w, p, g))
        <5> DEFINE n == Len(MemberNames(v, p))
        <5>1. /\ n \in Nat /\ Entries(v, w, p, g) \in [1 .. n -> Orders]
              /\ \A i \in 1 .. n : /\ Entries(v, w, p, g)[i] = EntryOrder(v, w, p, g, i)
                                   /\ MemberNames(v, p)[i] \in Keys(v, p) /\ MemberNames(v, p)[i] \in Int
                                   /\ MemberNames(w, p)[i] \in Keys(w, p) /\ MemberNames(w, p)[i] \in Int
          BY <2>1, <2>5, <4>3, EntriesAre
        <5>2. /\ Entries(w, v, p, h) \in [1 .. n -> Orders]
              /\ \A i \in 1 .. n : Entries(w, v, p, h)[i] = EntryOrder(w, v, p, h, i)
          BY <2>1, <2>5, <4>3, EntriesAre
        <5> HIDE DEF n
        <5>3. ASSUME NEW i \in 1 .. n PROVE EntryOrder(w, v, p, h, i) = -EntryOrder(v, w, p, g, i)
          <6> DEFINE a == MemberNames(v, p)[i]
                     b == MemberNames(w, p)[i]
          <6>1. a \in Keys(v, p) /\ a \in Int /\ b \in Keys(w, p) /\ b \in Int
            BY <5>1
          <6>2. Sign(b, a) = -Sign(a, b)
            BY <6>1, SignIs
          <6>3. ASSUME a = b PROVE h[Append(p, b)] = -g[Append(p, a)]
            <7>1. Append(p, a) \in G /\ Append(p, a) \in DOMAIN w
              BY <1>1, <6>1, <6>3, ChildIs
            <7> QED BY <6>3, <7>1
          <6> QED BY <6>2, <6>3 DEF EntryOrder
        <5>4. \A i \in 1 .. n : Entries(w, v, p, h)[i] = -Entries(v, w, p, g)[i]
          BY <5>1, <5>2, <5>3
        <5> QED BY <5>1, <5>2, <5>4, FirstOrder
      <4> QED BY <2>6, <3>1, <4>2, <4>3 DEF ContentOrder
    <3>2. CASE v[p].type = "string"
      <4>1. Spelled(v[p]) /\ Spelled(w[p])
        BY <2>6, <3>2, Contents
      <4> QED BY <2>6, <3>2, <4>1, StringsOrdered DEF ContentOrder, Containers
    <3>3. CASE v[p].type = "null"
      <4>1. ContentOrder(w, v, p, h) = 0 /\ ContentOrder(v, w, p, g) = 0
        BY <2>6, <3>3 DEF ContentOrder, Containers
      <4> QED BY <1>0, <4>1, Zenon
    <3>4. CASE v[p].type \in PlainTypes
      <4>1. v[p].val[1] \in Int /\ w[p].val[1] \in Int
        BY <2>6, <3>4, Contents
      <4>2. Sign(w[p].val[1], v[p].val[1]) = -Sign(v[p].val[1], w[p].val[1])
        BY <4>1, SignIs
      <4> QED BY <2>6, <3>4, <4>2 DEF ContentOrder, Containers, PlainTypes
    <3> QED BY <2>2, <3>1, <3>2, <3>3, <3>4 DEF TypeNames, Containers, PlainTypes
  <2>7. Rank(v[p].type) = Rank(w[p].type) => v[p].type = w[p].type
    BY <2>2, RankOrders
  <2> QED BY <2>3, <2>4, <2>6, <2>7 DEF OrderAt
<1> HIDE DEF G
<1>2. \A p \in DOMAIN v : p \in G
  BY <1>1, InsideOut
<1> QED BY <1>2 DEF G, Shared
-----------------------------------------------------------------------------
\* Comparing three trees two by two fits together.
LEMMA OrderComposes ==
  ASSUME NEW u, Tree(u, Building), NEW v, Tree(v, Building), NEW w, Tree(w, Building),
         NEW f, Compares(u, v, f), NEW g, Compares(v, w, g), NEW h, Compares(u, w, h)
  PROVE  \A p \in DOMAIN u : p \in DOMAIN v /\ p \in DOMAIN w => Composes(f[p], g[p], h[p])
<1> DEFINE G == {p \in DOMAIN u : p \in DOMAIN v /\ p \in DOMAIN w => Composes(f[p], g[p], h[p])}
<1>1. ASSUME NEW p \in DOMAIN u, \A k \in Keys(u, p) : Append(p, k) \in G PROVE p \in G
  <2> SUFFICES ASSUME p \in DOMAIN v, p \in DOMAIN w PROVE Composes(f[p], g[p], h[p])
    OBVIOUS
  <2>1. p \in Shared(u, v) /\ p \in Shared(v, w) /\ p \in Shared(u, w)
    BY DEF Shared
  <2>2. /\ u[p].type \in TypeNames /\ v[p].type \in TypeNames /\ w[p].type \in TypeNames
        /\ Rank(u[p].type) \in Int /\ Rank(v[p].type) \in Int /\ Rank(w[p].type) \in Int
    BY Contents
  <2>3. /\ f[p] = OrderAt(u, v, p, f) /\ g[p] = OrderAt(v, w, p, g) /\ h[p] = OrderAt(u, w, p, h)
    BY <2>1, Zenon DEF Compares
  <2>4. Within(u, v, p, f) /\ Within(v, w, p, g) /\ Within(u, w, p, h)
    BY <2>1, OrderRange
  <2>5. /\ Rank(u[p].type) = Rank(v[p].type) <=> u[p].type = v[p].type
        /\ Rank(v[p].type) = Rank(w[p].type) <=> v[p].type = w[p].type
        /\ Rank(u[p].type) = Rank(w[p].type) <=> u[p].type = w[p].type
    BY <2>2, RankOrders
  <2> DEFINE x == ContentOrder(u, v, p, f)
             y == ContentOrder(v, w, p, g)
             z == ContentOrder(u, w, p, h)
             a == MemberNames(u, p)
             b == MemberNames(v, p)
             c == MemberNames(w, p)
  <2>6. /\ u[p].type = v[p].type => x \in Orders
        /\ v[p].type = w[p].type => y \in Orders
        /\ u[p].type = w[p].type => z \in Orders
    BY <2>1, <2>4, ContentOrders
  <2>7. ASSUME u[p].type = v[p].type, v[p].type = w[p].type PROVE Composes(x, y, z)
    <3>1. CASE u[p].type \in Containers
      <4>1. Len(a) \in Int /\ Len(b) \in Int /\ Len(c) \in Int
        BY NamesEnumerate
      <4>2. /\ x = (IF Len(a) # Len(b) THEN Sign(Len(a), Len(b)) ELSE FirstOf(Entries(u, v, p, f)))
            /\ y = (IF Len(b) # Len(c) THEN Sign(Len(b), Len(c)) ELSE FirstOf(Entries(v, w, p, g)))
            /\ z = (IF Len(a) # Len(c) THEN Sign(Len(a), Len(c)) ELSE FirstOf(Entries(u, w, p, h)))
        BY <2>7, <3>1 DEF ContentOrder
      <4>3. /\ Len(a) = Len(b) => FirstOf(Entries(u, v, p, f)) \in Orders
            /\ Len(b) = Len(c) => FirstOf(Entries(v, w, p, g)) \in Orders
            /\ Len(a) = Len(c) => FirstOf(Entries(u, w, p, h)) \in Orders
        <5>1. Len(a) = Len(b) => FirstOf(Entries(u, v, p, f)) \in Orders
          BY <2>1, <2>4, EntriesAre, FirstOrder
        <5>2. Len(b) = Len(c) => FirstOf(Entries(v, w, p, g)) \in Orders
          BY <2>1, <2>4, EntriesAre, FirstOrder
        <5>3. Len(a) = Len(c) => FirstOf(Entries(u, w, p, h)) \in Orders
          BY <2>1, <2>4, EntriesAre, FirstOrder
        <5> QED BY <5>1, <5>2, <5>3
      <4>4. ASSUME Len(a) = Len(b), Len(b) = Len(c)
            PROVE  Composes(FirstOf(Entries(u, v, p, f)), FirstOf(Entries(v, w, p, g)), FirstOf(Entries(u, w, p, h)))
        <5> DEFINE n == Len(a)
        <5>1. /\ n \in Nat /\ Entries(u, v, p, f) \in [1 .. n -> Orders]
              /\ \A i \in 1 .. n : /\ Entries(u, v, p, f)[i] = EntryOrder(u, v, p, f, i)
                                   /\ a[i] \in Keys(u, p) /\ a[i] \in Int
                                   /\ b[i] \in Keys(v, p) /\ b[i] \in Int
          BY <2>1, <2>4, <4>4, EntriesAre
        <5>2. /\ Entries(v, w, p, g) \in [1 .. n -> Orders]
              /\ \A i \in 1 .. n : /\ Entries(v, w, p, g)[i] = EntryOrder(v, w, p, g, i)
                                   /\ c[i] \in Keys(w, p) /\ c[i] \in Int
          BY <2>1, <2>4, <4>4, EntriesAre
        <5>3. /\ Entries(u, w, p, h) \in [1 .. n -> Orders]
              /\ \A i \in 1 .. n : Entries(u, w, p, h)[i] = EntryOrder(u, w, p, h, i)
          BY <2>1, <2>4, <4>4, EntriesAre
        <5> HIDE DEF n, a, b, c
        <5>4. ASSUME NEW i \in 1 .. n
              PROVE  Composes(EntryOrder(u, v, p, f, i), EntryOrder(v, w, p, g, i), EntryOrder(u, w, p, h, i))
          <6> DEFINE ai == a[i]
                     bi == b[i]
                     ci == c[i]
          <6>1. ai \in Keys(u, p) /\ ai \in Int /\ bi \in Keys(v, p) /\ bi \in Int /\ ci \in Keys(w, p) /\ ci \in Int
            BY <5>1, <5>2
          <6>2. /\ EntryOrder(u, v, p, f, i) = (IF ai # bi THEN Sign(ai, bi) ELSE f[Append(p, ai)])
                /\ EntryOrder(v, w, p, g, i) = (IF bi # ci THEN Sign(bi, ci) ELSE g[Append(p, bi)])
                /\ EntryOrder(u, w, p, h, i) = (IF ai # ci THEN Sign(ai, ci) ELSE h[Append(p, ai)])
            BY DEF EntryOrder, a, b, c
          <6> HIDE DEF ai, bi, ci
          <6>3. /\ ai = bi => f[Append(p, ai)] \in Orders
                /\ bi = ci => g[Append(p, bi)] \in Orders
                /\ ai = ci => h[Append(p, ai)] \in Orders
            BY <2>4, <6>1 DEF Within
          <6>4. ASSUME ai = bi, bi = ci PROVE Composes(f[Append(p, ai)], g[Append(p, bi)], h[Append(p, ai)])
            <7>1. Append(p, ai) \in G
              BY <1>1, <6>1
            <7>2. Append(p, ai) \in DOMAIN v /\ Append(p, ai) \in DOMAIN w
              BY <6>1, <6>4, ChildIs
            <7>3. Append(p, ai) = Append(p, bi)
              BY <6>4
            <7> QED BY <7>1, <7>2, <7>3
          <6>5. ai = bi /\ bi = ci => Composes(f[Append(p, ai)], g[Append(p, bi)], h[Append(p, ai)])
            BY <6>4
          <6> DEFINE xi == f[Append(p, ai)]
                     yi == g[Append(p, bi)]
                     zi == h[Append(p, ai)]
          <6>6. /\ ai \in Int /\ bi \in Int /\ ci \in Int
                /\ ai = bi => xi \in Orders
                /\ bi = ci => yi \in Orders
                /\ ai = ci => zi \in Orders
                /\ ai = bi /\ bi = ci => Composes(xi, yi, zi)
            BY <6>1, <6>3, <6>5
          <6> HIDE DEF xi, yi, zi
          <6>7. Composes(IF ai # bi THEN Sign(ai, bi) ELSE xi, IF bi # ci THEN Sign(bi, ci) ELSE yi,
                         IF ai # ci THEN Sign(ai, ci) ELSE zi)
            BY <6>6, Refined
          <6> QED BY <6>2, <6>7 DEF xi, yi, zi
        <5>5. \A i \in 1 .. n : Composes(Entries(u, v, p, f)[i], Entries(v, w, p, g)[i], Entries(u, w, p, h)[i])
          BY <5>1, <5>2, <5>3, <5>4
        <5> QED BY <5>1, <5>2, <5>3, <5>5, FirstComposes
      <4> DEFINE i == Len(a)
                 j == Len(b)
                 k == Len(c)
                 d == FirstOf(Entries(u, v, p, f))
                 e == FirstOf(Entries(v, w, p, g))
                 m == FirstOf(Entries(u, w, p, h))
      <4>5. /\ i \in Int /\ j \in Int /\ k \in Int
            /\ i = j => d \in Orders
            /\ j = k => e \in Orders
            /\ i = k => m \in Orders
            /\ i = j /\ j = k => Composes(d, e, m)
        BY <4>1, <4>3, <4>4
      <4> HIDE DEF i, j, k, d, e, m, x, y, z, a, b, c
      <4>6. Composes(IF i # j THEN Sign(i, j) ELSE d, IF j # k THEN Sign(j, k) ELSE e, IF i # k THEN Sign(i, k) ELSE m)
        BY <4>5, Refined
      <4> QED BY <4>2, <4>6 DEF i, j, k, d, e, m
    <3>2. CASE u[p].type = "string"
      <4>1. Spelled(u[p]) /\ Spelled(v[p]) /\ Spelled(w[p])
        BY <2>7, <3>2, Contents
      <4>2. x = StringOrder(u[p], v[p]) /\ y = StringOrder(v[p], w[p]) /\ z = StringOrder(u[p], w[p])
        BY <2>7, <3>2 DEF ContentOrder, Containers
      <4> QED BY <4>1, <4>2, StringsOrdered
    <3>3. CASE u[p].type = "null"
      <4>1. x = 0 /\ y = 0 /\ z = 0
        BY <2>7, <3>3 DEF ContentOrder, Containers
      <4> QED BY <4>1 DEF Composes, Orders
    <3>4. CASE u[p].type \in PlainTypes
      <4>1. u[p].val[1] \in Int /\ v[p].val[1] \in Int /\ w[p].val[1] \in Int
        BY <2>7, <3>4, Contents
      <4>2. /\ x = Sign(u[p].val[1], v[p].val[1]) /\ y = Sign(v[p].val[1], w[p].val[1])
            /\ z = Sign(u[p].val[1], w[p].val[1])
        BY <2>7, <3>4 DEF ContentOrder, Containers, PlainTypes
      <4> QED BY <4>1, <4>2, SignIs
    <3> QED BY <2>2, <3>1, <3>2, <3>3, <3>4 DEF TypeNames, Containers, PlainTypes
  <2> HIDE DEF x, y, z, G
  <2> DEFINE r == Rank(u[p].type)
             s == Rank(v[p].type)
             t == Rank(w[p].type)
  <2>8. /\ f[p] = (IF r # s THEN Sign(r, s) ELSE x)
        /\ g[p] = (IF s # t THEN Sign(s, t) ELSE y)
        /\ h[p] = (IF r # t THEN Sign(r, t) ELSE z)
    BY <2>3 DEF OrderAt, x, y, z
  <2>9. /\ r \in Int /\ s \in Int /\ t \in Int
        /\ r = s => x \in Orders
        /\ s = t => y \in Orders
        /\ r = t => z \in Orders
        /\ r = s /\ s = t => Composes(x, y, z)
    BY <2>2, <2>5, <2>6, <2>7
  <2> HIDE DEF r, s, t
  <2>10. Composes(IF r # s THEN Sign(r, s) ELSE x, IF s # t THEN Sign(s, t) ELSE y, IF r # t THEN Sign(r, t) ELSE z)
    BY <2>9, Refined
  <2> QED BY <2>8, <2>10
<1> HIDE DEF G
<1>2. \A p \in DOMAIN u : p \in G
  BY <1>1, InsideOut
<1> QED BY <1>2 DEF G
-----------------------------------------------------------------------------
\* What is said of the root, and of the entries of what it is said of, is said
\* of every place.
LEMMA OutsideIn ==
  ASSUME NEW t, Tree(t, Building), NEW G, <<>> \in G,
         \A p \in DOMAIN t : p \in G => \A k \in Keys(t, p) : Append(p, k) \in G
  PROVE  \A p \in DOMAIN t : p \in G
<1>1. PICK m \in Nat : \A p \in DOMAIN t : Len(p) \in Nat /\ Len(p) <= m
  BY Deepest
<1> DEFINE T == {n \in 0 .. m : \A p \in DOMAIN t : Len(p) <= n => p \in G}
<1>2. \A p \in DOMAIN t : p \in Place
  BY DEF Tree, Forest
<1>3. 0 \in T
  <2> SUFFICES ASSUME NEW p \in DOMAIN t, Len(p) <= 0 PROVE p \in G
    OBVIOUS
  <2>1. p = <<>>
    <3>1. Len(p) = 0
      BY <1>1
    <3> QED BY <1>2, <3>1, PlaceLen
  <2> QED BY <2>1
<1>4. ASSUME NEW n \in 0 .. m - 1, n \in T PROVE n + 1 \in T
  <2>1. ASSUME NEW p \in DOMAIN t, Len(p) <= n + 1, p # <<>> PROVE p \in G
    <3> DEFINE q == Front(p)
               k == p[Len(p)]
    <3>1. p \in Place /\ q \in DOMAIN t
      BY <1>2, <2>1 DEF Tree
    <3>2. q \in Place /\ Len(q) = Len(p) - 1 /\ k \in Int /\ Append(q, k) = p
      BY <2>1, <3>1, FrontPlace
    <3>3. k \in Keys(t, q)
      BY <3>1, <3>2, KeysAre
    <3>4. Len(q) <= n
      BY <1>1, <2>1, <3>2
    <3>5. q \in G
      BY <1>4, <3>1, <3>4
    <3> QED BY <3>1, <3>2, <3>3, <3>5
  <2>2. ASSUME NEW p \in DOMAIN t, Len(p) <= n + 1 PROVE p \in G
    BY <2>1, <2>2
  <2>3. n + 1 \in 0 .. m
    OBVIOUS
  <2> QED BY <2>2, <2>3
<1>5. m \in T
  <2> HIDE DEF T
  <2>1. \A n \in 0 .. m - 1 : n \in T => n + 1 \in T
    BY <1>4
  <2>2. \A n \in 0 .. m : n \in T
    BY <1>3, <2>1, UpTo
  <2> QED BY <2>2
<1> QED BY <1>1, <1>5

\* The names follow from the keys.
LEMMA NamesBy == \A t, u, p, q : Keys(t, p) = Keys(u, q) => MemberNames(t, p) = MemberNames(u, q)
BY DEF MemberNames

\* Zero says that the nodes are the same, and that it says zero of the entries.
AlikeAt(v, w, p, g) ==
  /\ v[p].type = w[p].type /\ v[p].val = w[p].val
  /\ Keys(v, p) = Keys(w, p)
  /\ \A k \in Keys(v, p) : g[Append(p, k)] = 0

\* Only containers have entries.
LEMMA NoEntries ==
  ASSUME NEW t, Tree(t, Building), NEW p \in DOMAIN t, t[p].type \notin Containers
  PROVE  Keys(t, p) = {}
<1>1. p \in Place
  BY DEF Tree, Forest
<1>2. \A k \in Keys(t, p) : Fits(t[p].type, k, Building)
  BY <1>1, EntriesFit
<1> QED BY <1>2 DEF Fits, Containers

\* At one place, zero says that both are alike.
LEMMA ZeroAt ==
  ASSUME NEW v, Tree(v, Building), NEW w, Tree(w, Building), NEW g, Compares(v, w, g),
         NEW p \in Shared(v, w)
  PROVE  g[p] = 0 <=> AlikeAt(v, w, p, g)
<1>1. p \in DOMAIN v /\ p \in DOMAIN w
  BY DEF Shared
<1>2. /\ v[p].type \in TypeNames /\ w[p].type \in TypeNames
      /\ Rank(v[p].type) \in Int /\ Rank(w[p].type) \in Int
  BY <1>1, Contents
<1>3. g[p] = OrderAt(v, w, p, g) /\ Within(v, w, p, g)
  BY OrderRange, Zenon DEF Compares
<1>4. Rank(v[p].type) = Rank(w[p].type) <=> v[p].type = w[p].type
  BY <1>2, RankOrders
<1>5. ASSUME v[p].type # w[p].type PROVE g[p] # 0
  <2>1. Sign(Rank(v[p].type), Rank(w[p].type)) # 0
    BY <1>2, <1>4, <1>5, SignIs
  <2> QED BY <1>3, <1>4, <1>5, <2>1 DEF OrderAt
<1>6. ASSUME v[p].type = w[p].type PROVE g[p] = ContentOrder(v, w, p, g)
  BY <1>3, <1>4, <1>6 DEF OrderAt
<1>7. ASSUME v[p].type = w[p].type, v[p].type \in Containers
      PROVE  ContentOrder(v, w, p, g) = 0 <=> AlikeAt(v, w, p, g)
  <2> DEFINE a == MemberNames(v, p)
             b == MemberNames(w, p)
             e == Entries(v, w, p, g)
  <2>1. v[p].val = w[p].val
    BY <1>1, <1>7, Contents
  <2>2. Len(a) \in Int /\ Len(b) \in Int
    BY <1>1, NamesEnumerate
  <2>3. ContentOrder(v, w, p, g) = IF Len(a) # Len(b) THEN Sign(Len(a), Len(b)) ELSE FirstOf(e)
    BY <1>7 DEF ContentOrder
  <2>4. ASSUME Len(a) # Len(b) PROVE ContentOrder(v, w, p, g) # 0 /\ ~AlikeAt(v, w, p, g)
    <3>1. Sign(Len(a), Len(b)) # 0
      BY <2>2, <2>4, SignIs
    <3>2. Keys(v, p) # Keys(w, p)
      BY <2>4, NamesBy
    <3> QED BY <2>3, <2>4, <3>1, <3>2 DEF AlikeAt
  <2>5. ASSUME Len(a) = Len(b) PROVE FirstOf(e) = 0 <=> AlikeAt(v, w, p, g)
    <3> DEFINE n == Len(a)
    <3>1. /\ n \in Nat /\ e \in [1 .. n -> Orders]
          /\ \A i \in 1 .. n : /\ e[i] = EntryOrder(v, w, p, g, i)
                               /\ a[i] \in Keys(v, p) /\ a[i] \in Int
                               /\ b[i] \in Keys(w, p) /\ b[i] \in Int
      BY <1>3, <2>5, EntriesAre
    <3>2. /\ \A k \in Keys(v, p) : \E i \in 1 .. n : a[i] = k
          /\ \A k \in Keys(w, p) : \E i \in 1 .. n : b[i] = k
      BY <1>1, <2>5, NamesEnumerate
    <3>3. Keys(v, p) = Keys(w, p) => a = b
      BY NamesBy
    <3> HIDE DEF a, b, e, n
    <3>4. \A i \in 1 .. n : e[i] = 0 <=> a[i] = b[i] /\ g[Append(p, a[i])] = 0
      <4> TAKE i \in 1 .. n
      <4>1. e[i] = IF a[i] # b[i] THEN Sign(a[i], b[i]) ELSE g[Append(p, a[i])]
        BY <3>1 DEF EntryOrder, a, b
      <4>2. Sign(a[i], b[i]) = 0 <=> a[i] = b[i]
        BY <3>1, SignIs
      <4> QED BY <4>1, <4>2
    <3>5. FirstOf(e) = 0 <=> \A i \in 1 .. n : e[i] = 0
      BY <3>1, FirstOrder
    <3>6. ASSUME \A i \in 1 .. n : e[i] = 0 PROVE AlikeAt(v, w, p, g)
      <4>1. \A i \in 1 .. n : a[i] = b[i] /\ g[Append(p, a[i])] = 0
        BY <3>4, <3>6
      <4>2. Keys(v, p) = Keys(w, p)
        <5>1. \A i \in 1 .. n : a[i] \in Keys(v, p) /\ b[i] \in Keys(w, p)
          BY <3>1
        <5>2. ASSUME NEW k \in Keys(v, p) PROVE k \in Keys(w, p)
          <6>1. PICK i \in 1 .. n : a[i] = k
            BY <3>2, <5>2
          <6> QED BY <4>1, <5>1, <6>1
        <5>3. ASSUME NEW k \in Keys(w, p) PROVE k \in Keys(v, p)
          <6>1. PICK i \in 1 .. n : b[i] = k
            BY <3>2, <5>3
          <6> QED BY <4>1, <5>1, <6>1
        <5> QED BY <5>2, <5>3
      <4>3. \A k \in Keys(v, p) : g[Append(p, k)] = 0
        BY <3>2, <4>1
      <4> QED BY <1>7, <2>1, <4>2, <4>3 DEF AlikeAt
    <3>7. ASSUME AlikeAt(v, w, p, g) PROVE \A i \in 1 .. n : e[i] = 0
      <4>1. a = b
        BY <3>3, <3>7 DEF AlikeAt
      <4> QED BY <3>1, <3>4, <3>7, <4>1 DEF AlikeAt
    <3> QED BY <3>5, <3>6, <3>7
  <2> QED BY <2>3, <2>4, <2>5
<1>8. ASSUME v[p].type = w[p].type, v[p].type \notin Containers
      PROVE  ContentOrder(v, w, p, g) = 0 <=> AlikeAt(v, w, p, g)
  <2>1. Keys(v, p) = {} /\ Keys(w, p) = {}
    BY <1>1, <1>8, NoEntries
  <2>2. AlikeAt(v, w, p, g) <=> v[p].val = w[p].val
    BY <1>8, <2>1 DEF AlikeAt
  <2>3. ASSUME v[p].type = "string" PROVE ContentOrder(v, w, p, g) = 0 <=> v[p].val = w[p].val
    <3>1. Spelled(v[p]) /\ Spelled(w[p])
      BY <1>1, <1>8, <2>3, Contents
    <3>2. ContentOrder(v, w, p, g) = StringOrder(v[p], w[p])
      BY <1>8, <2>3 DEF ContentOrder
    <3> QED BY <3>1, <3>2, StringsOrdered
  <2>4. ASSUME v[p].type = "null" PROVE ContentOrder(v, w, p, g) = 0 <=> v[p].val = w[p].val
    <3>1. v[p].val = w[p].val
      BY <1>1, <1>8, <2>4, Contents
    <3> QED BY <1>8, <2>4, <3>1 DEF ContentOrder
  <2>5. ASSUME v[p].type \in PlainTypes PROVE ContentOrder(v, w, p, g) = 0 <=> v[p].val = w[p].val
    <3> DEFINE x == v[p].val[1]
               y == w[p].val[1]
    <3>1. x \in Int /\ y \in Int /\ v[p].val = <<x>> /\ w[p].val = <<y>>
      BY <1>1, <1>8, <2>5, Contents
    <3>2. ContentOrder(v, w, p, g) = Sign(x, y)
      BY <1>8, <2>5 DEF ContentOrder, PlainTypes
    <3> HIDE DEF x, y
    <3>3. <<x>> = <<y>> <=> x = y
      OBVIOUS
    <3> QED BY <3>1, <3>2, <3>3, SignIs
  <2>6. v[p].type \in {"string", "null"} \cup PlainTypes
    BY <1>2, <1>8 DEF TypeNames, Containers, PlainTypes
  <2> QED BY <2>2, <2>3, <2>4, <2>5, <2>6
<1>9. ASSUME v[p].type # w[p].type PROVE ~AlikeAt(v, w, p, g)
  BY <1>9 DEF AlikeAt
<1> QED BY <1>5, <1>6, <1>7, <1>8, <1>9

\* Two trees are equal by Order where operator== says so.
LEMMA OrderZero ==
  ASSUME NEW v, Tree(v, Building), NEW w, Tree(w, Building), NEW g, Compares(v, w, g)
  PROVE  g[<<>>] = 0 <=> Same(v, w)
<1>0. <<>> \in Shared(v, w)
  BY DEF Tree, Shared
<1>1. ASSUME g[<<>>] = 0 PROVE Same(v, w)
  <2> DEFINE G == {p \in Shared(v, w) : g[p] = 0}
  <2>1. ASSUME NEW p \in G PROVE /\ AlikeAt(v, w, p, g)
                                 /\ \A k \in Keys(v, p) : Append(p, k) \in G
                                 /\ \A k \in Keys(w, p) : Append(p, k) \in G
    <3>1. p \in Shared(v, w) /\ p \in DOMAIN v /\ p \in DOMAIN w
      BY <2>1 DEF Shared
    <3>2. AlikeAt(v, w, p, g)
      BY <2>1, ZeroAt
    <3>3. \A k \in Keys(v, p) : Append(p, k) \in DOMAIN v /\ Append(p, k) \in DOMAIN w /\ g[Append(p, k)] = 0
      BY <3>1, <3>2, ChildIs DEF AlikeAt
    <3> QED BY <3>2, <3>3 DEF AlikeAt, Shared
  <2>2. <<>> \in G
    BY <1>0, <1>1
  <2> HIDE DEF G
  <2>3. \A p \in DOMAIN v : p \in G
    BY <2>1, <2>2, OutsideIn
  <2>4. \A p \in DOMAIN w : p \in G
    BY <2>1, <2>2, OutsideIn
  <2>5. DOMAIN v = DOMAIN w
    BY <2>3, <2>4 DEF G, Shared
  <2>6. ASSUME NEW p \in DOMAIN v
        PROVE  /\ v[p].type = w[p].type /\ v[p].val = w[p].val
               /\ v[p].type = "string" => (v[p].str.at = "nothing") = (w[p].str.at = "nothing")
    <3>1. v[p].type = w[p].type /\ v[p].val = w[p].val
      BY <2>1, <2>3 DEF AlikeAt
    <3>2. v[p].type = "string" => v[p].str.at # "nothing" /\ w[p].str.at # "nothing"
      BY <2>5, <3>1, Contents DEF Spelled
    <3> QED BY <3>1, <3>2
  <2> QED BY <2>5, <2>6 DEF Same
<1>2. ASSUME Same(v, w) PROVE g[<<>>] = 0
  <2> DEFINE G == {p \in DOMAIN v : g[p] = 0}
  <2>1. DOMAIN v = DOMAIN w /\ \A p \in DOMAIN v : v[p].type = w[p].type /\ v[p].val = w[p].val
    BY <1>2 DEF Same
  <2>2. \A p : Keys(v, p) = Keys(w, p)
    BY <2>1 DEF Keys, Below
  <2>3. ASSUME NEW p \in DOMAIN v, \A k \in Keys(v, p) : Append(p, k) \in G PROVE p \in G
    <3>1. AlikeAt(v, w, p, g)
      BY <2>1, <2>2, <2>3 DEF AlikeAt
    <3>2. p \in Shared(v, w)
      BY <2>1 DEF Shared
    <3>3. g[p] = 0
      BY <3>1, <3>2, ZeroAt
    <3> QED BY <3>3
  <2> HIDE DEF G
  <2>4. \A p \in DOMAIN v : p \in G
    BY <2>3, InsideOut
  <2> QED BY <1>0, <2>4 DEF G, Shared
<1> QED BY <1>1, <1>2
-----------------------------------------------------------------------------
\* Order orders the trees that are built.
LEMMA TotalAmong ==
  ASSUME NEW v, Tree(v, Building), NEW w, Tree(w, Building)
  PROVE  /\ Order(v, w) = 0 <=> Same(v, w)
         /\ Order(v, w) = -Order(w, v)
         /\ \A u : Tree(u, Building) /\ Order(v, w) = -1 /\ Order(w, u) = -1 => Order(v, u) = -1
<1>0. \A t : Tree(t, Building) => <<>> \in DOMAIN t
  BY DEF Tree
<1>1. PICK g : Compares(v, w, g) /\ Order(v, w) = g[<<>>]
  BY OrderIs
<1>2. PICK h : Compares(w, v, h) /\ Order(w, v) = h[<<>>]
  BY OrderIs
<1>3. Order(v, w) = 0 <=> Same(v, w)
  BY <1>1, OrderZero
<1>4. Order(v, w) = -Order(w, v)
  <2>1. <<>> \in Shared(w, v)
    BY <1>0 DEF Shared
  <2>2. g[<<>>] = -h[<<>>]
    BY <1>1, <1>2, <2>1, OrderOpposite
  <2> QED BY <1>1, <1>2, <2>2
<1>5. ASSUME NEW u, Tree(u, Building), Order(v, w) = -1, Order(w, u) = -1
      PROVE  Order(v, u) = -1
  <2>1. PICK f : Compares(w, u, f) /\ Order(w, u) = f[<<>>]
    BY <1>5, OrderIs
  <2>2. PICK d : Compares(v, u, d) /\ Order(v, u) = d[<<>>]
    BY <1>5, OrderIs
  <2>3. Composes(g[<<>>], f[<<>>], d[<<>>])
    BY <1>0, <1>1, <1>5, <2>1, <2>2, OrderComposes
  <2> QED BY <1>1, <1>5, <2>1, <2>2, <2>3 DEF Composes
<1> QED BY <1>3, <1>4, <1>5

\* Whatever the program has built, comparing orders all of it: operator< and
\* operator== agree, never is each of two Values less than the other, and what
\* is less than a lesser one is less.
THEOREM Totals == Spec => []OrderIsTotal
<1>1. SessionInv => OrderIsTotal
  <2> SUFFICES ASSUME SessionInv PROVE OrderIsTotal
    OBVIOUS
  <2> DEFINE values == {Sub(root.tree, p) : p \in DOMAIN root.tree} \cup {item.tree}
             order  == [vw \in values \X values |-> Order(vw[1], vw[2])]
  <2>1. Tree(root.tree, Building) /\ Tree(item.tree, Building)
    BY DEF SessionInv, BuildInv, Builds, Holder
  <2>2. \A p \in DOMAIN root.tree : Tree(Sub(root.tree, p), Building)
    BY <2>1, SubIs
  <2>3. \A v \in values : Tree(v, Building)
    BY <2>1, <2>2, Zenon
  <2>4. \A v, w \in values : order[v, w] = Order(v, w)
    OBVIOUS
  <2> HIDE DEF values, order
  <2>5. ASSUME NEW v \in values, NEW w \in values
        PROVE  /\ (order[v, w] = 0) = Same(v, w)
               /\ order[v, w] = -order[w, v]
               /\ order[v, w] = -1 => \A u \in values : order[w, u] = -1 => order[v, u] = -1
    <3>1. Tree(v, Building) /\ Tree(w, Building) /\ \A u \in values : Tree(u, Building)
      BY <2>3
    <3>2. /\ Order(v, w) = 0 <=> Same(v, w)
          /\ Order(v, w) = -Order(w, v)
          /\ \A u : Tree(u, Building) /\ Order(v, w) = -1 /\ Order(w, u) = -1 => Order(v, u) = -1
      BY <3>1, TotalAmong
    <3>3. (order[v, w] = 0) = Same(v, w)
      BY <2>4, <3>2 DEF Same
    <3>4. order[v, w] = -order[w, v]
      BY <2>4, <3>2
    <3>5. order[v, w] = -1 => \A u \in values : order[w, u] = -1 => order[v, u] = -1
      BY <2>4, <3>1, <3>2
    <3> QED BY <3>3, <3>4, <3>5
  <2> QED BY <2>5 DEF OrderIsTotal, values, order
<1> QED BY <1>1, SessionHolds, PTL
===============================================================================
