------------------------------ MODULE JsonText ------------------------------
(* The text side of the JSON library (src/box_app/src/json): how numbers and  *)
(* strings are written by json_writer.cpp and decoded by json_reader.cpp.     *)
(* A character is its code, a text a sequence of codes. A number is an        *)
(* integer with the type it has in the code; the doubles told apart are the   *)
(* whole ones.                                                                *)
EXTENDS Integers, Sequences, SequencesExt

CONSTANT Bits          \* the width of Int and UInt (32 in the code)

ASSUME BitsAssumption == Bits \in Nat /\ 2 ^ Bits \in Nat /\ 2 ^ Bits >= 32

MaxUInt == 2 ^ Bits - 1
MaxInt  == MaxUInt \div 2
MinInt  == -(MaxInt + 1)

Minus     == 45
Dot       == 46
Digit     == 48 .. 57
Backslash == 92
LetterU   == 117

\* The character behind a backslash, and the one it stands for.
Escapes == [e \in {34, 47, 92, 98, 102, 110, 114, 116} |->
              CASE e = 98  -> 8
                [] e = 102 -> 12
                [] e = 110 -> 10
                [] e = 114 -> 13
                [] e = 116 -> 9
                [] OTHER   -> e]

\* The text of a C string: what is behind the first zero is not seen.
CStr(s) == SubSeq(s, 1, SelectInSeq(s \o <<0>>, LAMBDA c : c = 0) - 1)
-----------------------------------------------------------------------------
(* Writing. *)

\* uintToString: the last digit of what is left, until nothing is.
UIntToString(n) ==
  LET digits[m \in 0 .. n] ==
        (IF m < 10 THEN <<>> ELSE digits[m \div 10]) \o <<48 + (m % 10)>>
  IN  digits[n]

\* valueToString(Int): the smallest Int has no negative, and the wrapped one,
\* taken as UInt, is its magnitude.
IntToString(n) ==
  (IF n < 0 THEN <<Minus>> ELSE <<>>)
    \o UIntToString((IF n < 0 THEN -n ELSE n) % 2 ^ Bits)

\* valueToString(double): 16 digits, and of the zeros behind the point one.
DoubleToString(n) ==
  (IF n < 0 THEN <<Minus>> ELSE <<>>)
    \o UIntToString(IF n < 0 THEN -n ELSE n) \o <<Dot, 48>>

Hex == <<48, 49, 50, 51, 52, 53, 54, 55, 56, 57, 65, 66, 67, 68, 69, 70>>

\* One character of valueToQuotedString. A char of 128 or more is negative and
\* no control character, and a slash is left alone.
QuotedChar(c) ==
  CASE c \in {Escapes[e] : e \in DOMAIN Escapes \ {47}} ->
         <<Backslash, CHOOSE e \in DOMAIN Escapes : Escapes[e] = c>>
    [] c \in 1 .. 31 /\ c \notin {8, 9, 10, 12, 13} ->
         <<Backslash, LetterU, 48, 48, Hex[c \div 16 + 1], Hex[(c % 16) + 1]>>
    [] OTHER -> <<c>>

\* valueToQuotedString, without the quotes around it.
QuotedString(s) == FlattenSeq([i \in DOMAIN CStr(s) |-> QuotedChar(s[i])])
-----------------------------------------------------------------------------
(* Reading. *)

Bad == [ok |-> FALSE]

\* decodeDouble: sscanf wants a digit at the front or behind the point.
\* The value and the count are written after the zero that Overruns is about.
DecodeDouble(s) ==
  LET body  == IF s[1] = Minus THEN Tail(s) ELSE s
      end   == SelectInSeq(body \o <<0>>, LAMBDA c : c \notin Digit)
      upTo[i \in 0 .. end - 1] == IF i = 0 THEN 0 ELSE 10 * upTo[i - 1] + body[i] - 48
      whole == upTo[end - 1]
  IN  IF end > 1 \/ (Len(body) > 1 /\ body[1] = Dot /\ body[2] \in Digit)
      THEN [ok |-> TRUE, type |-> "real",
            val |-> IF s[1] = Minus THEN -whole ELSE whole]
      ELSE Bad

\* decodeNumber: an integer digit by digit; one that a further digit might
\* take out of the range is read again as a double. A minus sign alone is 0.
DecodeNumber(s) ==
  LET negative  == s[1] = Minus
      isDouble  == \E i \in DOMAIN s :
                      s[i] \in {Dot, 101, 69, 43} \/ (s[i] = Minus /\ i > 1)
      threshold == (IF negative THEN -MinInt ELSE MaxUInt) \div 10
      first     == IF negative THEN 1 ELSE 0
      upTo[i \in first .. Len(s)] ==
        CASE i = first -> 0
          [] i > first /\ (upTo[i - 1] = -1 \/ upTo[i - 1] >= threshold) -> -1
          [] OTHER -> (upTo[i - 1] * 10 + s[i] - 48) % 2 ^ Bits
      value     == upTo[Len(s)]
  IN  IF isDouble \/ value = -1 THEN DecodeDouble(s)
      ELSE [ok   |-> TRUE,
            type |-> IF negative \/ value <= MaxInt THEN "int" ELSE "uint",
            val  |-> IF negative THEN -value ELSE value]

\* decodeDouble copies the text of a number to buffer if its length is at most
\* bufferSize, and one of that length has its zero written behind the buffer.
BufferSize == 32
Overruns(s) == Len(s) = BufferSize /\ (DecodeNumber(s).ok => DecodeNumber(s).type = "real")

HexDigit(c) == CASE c \in Digit     -> c - 48
                 [] c \in 97 .. 102 -> c - 87
                 [] c \in 65 .. 70  -> c - 55
                 [] OTHER           -> -1

\* decodeUnicodeEscapeSequence: the four digits at i, -1 when they are not there.
UnicodeEscape(s, i) ==
  IF i + 3 > Len(s) \/ \E j \in i .. i + 3 : HexDigit(s[j]) = -1 THEN -1
  ELSE FoldLeft(LAMBDA v, c : 16 * v + HexDigit(c), 0, SubSeq(s, i, i + 3))

\* decodeUnicodeCodePoint: the code point at i and where the text goes on. Half
\* a surrogate pair wants another escape behind it, whatever that one is.
UnicodeCodePoint(s, i) ==
  LET u    == UnicodeEscape(s, i)
      high == u >= 55296 /\ u <= 56319
      pair == /\ i + 9 <= Len(s)
              /\ s[i + 4] = Backslash
              /\ s[i + 5] = LetterU
      v    == IF pair THEN UnicodeEscape(s, i + 6) ELSE -1
  IN  CASE u = -1            -> Bad
        [] u # -1 /\ ~high   -> [ok |-> TRUE, code |-> u, next |-> i + 4]
        [] high /\ v = -1    -> Bad
        [] high /\ v # -1    -> [ok |-> TRUE, next |-> i + 10,
                                 code |-> 65536 + (u % 1024) * 1024 + (v % 1024)]

CodePointToUTF8(cp) ==
  LET Six(n) == 128 + ((cp \div 64 ^ n) % 64)
  IN  CASE cp <= 127                       -> <<cp>>
        [] cp > 127 /\ cp <= 2047          -> <<192 + cp \div 64, Six(0)>>
        [] cp > 2047 /\ cp <= 65535        -> <<224 + cp \div 4096, Six(1), Six(0)>>
        [] cp > 65535                      ->
             <<240 + cp \div 262144, Six(2), Six(1), Six(0)>>

\* decodeString on the text between the quotes.
DecodeString(s) ==
  LET Then(chars, rest) ==
        IF rest.ok THEN [ok |-> TRUE, chars |-> chars \o rest.chars] ELSE Bad
      from[i \in 1 .. Len(s) + 1] ==
        CASE i > Len(s)            -> [ok |-> TRUE, chars |-> <<>>]
          [] i <= Len(s) /\ s[i] # Backslash -> Then(<<s[i]>>, from[i + 1])
          [] i = Len(s) /\ s[i] = Backslash  -> Bad
          [] i < Len(s) /\ s[i] = Backslash  ->
               CASE s[i + 1] \in DOMAIN Escapes ->
                      Then(<<Escapes[s[i + 1]]>>, from[i + 2])
                 [] s[i + 1] = LetterU ->
                      LET u == UnicodeCodePoint(s, i + 2)
                      IN  IF u.ok THEN Then(CodePointToUTF8(u.code), from[u.next])
                          ELSE Bad
                 [] OTHER -> Bad
  IN  from[1]
=============================================================================
