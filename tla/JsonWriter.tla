----------------------------- MODULE JsonWriter -----------------------------
(* The writers of src/box_app/src/json/json_writer.cpp: the text, in lexemes,  *)
(* that each makes of a Value. Spaces are kept while the text is made, for     *)
(* writeIndent looks at the last character, and left out of the result, where  *)
(* they mean nothing.                                                          *)
EXTENDS JsonReader

CONSTANT RightMargin       \* rightMargin_: 74 columns in the code

Space == Mark("SP")

\* valueToString and valueToQuotedString
Scalar(n) ==
  CASE n.type = "null"    -> Mark("null")
    [] n.type \in {"int", "uint"} -> Lex("number", IntToString(n.val[1]))
    [] n.type = "real"    -> Lex("number", DoubleToString(n.val[1]))
    [] n.type = "string"  -> Lex("string", QuotedString(n.val))
    [] n.type = "boolean" -> Mark(IF n.val = <<1>> THEN "true" ELSE "false")

NameLex(k) == Lex("string", QuotedString(Names[k + 1]))

\* The marks around what is in an array or an object, and between its parts.
Brackets == [array  |-> <<Mark("["), Mark("]")>>, object |-> <<Mark("{"), Mark("}")>>]
Separated(parts) ==
  FlattenSeq([i \in DOMAIN parts |-> (IF i > 1 THEN <<Mark(",")>> ELSE <<>>) \o parts[i]])

\* The key of the i-th part, and the writing of its value behind doc. writes are
\* the calls of writeValue; an element that is not there is written as null.
KeyAt(v, p, i) == IF v[p].type = "object" THEN MemberNames(v, p)[i] ELSE i - 1
WriteAt(v, writes, p, k, doc) ==
  IF Has(v, p, k) THEN writes[Append(p, k)][doc] ELSE Append(doc, Mark("null"))
-----------------------------------------------------------------------------
(* FastWriter *)
FastPart(v, writes, p, doc, i) ==
  LET k    == KeyAt(v, p, i)
      name == IF v[p].type = "object" THEN <<NameLex(k), Mark(":")>> ELSE <<>>
  IN  WriteAt(v, writes, p, k, doc \o (IF i > 1 THEN <<Mark(",")>> ELSE <<>>) \o name)
-----------------------------------------------------------------------------
(* StyledWriter, and StyledStreamWriter, which does not look where it indents. *)
NormalizeEOL(comment) ==
  [i \in DOMAIN comment |-> IF comment[i].tok = "CR" THEN Mark("NL") ELSE comment[i]]

LastIs(doc, tok) == doc # <<>> /\ doc[Len(doc)].tok = tok

Indentation(depth) == IF depth = 0 THEN <<>> ELSE <<Space>>
StyledIndent(doc, depth) ==
  CASE LastIs(doc, "SP")                 -> doc
    [] doc = <<>> \/ LastIs(doc, "NL")   -> doc \o Indentation(depth)
    [] OTHER                             -> doc \o <<Mark("NL")>> \o Indentation(depth)
StreamIndent(doc, depth) == doc \o <<Mark("NL")>> \o Indentation(depth)
WriteIndent(doc, style, depth) ==
  IF style = "stream" THEN StreamIndent(doc, depth) ELSE StyledIndent(doc, depth)

WithIndent(doc, style, depth, lexemes) == WriteIndent(doc, style, depth) \o lexemes

CommentBefore(n) ==
  IF HasComment(n, "before")
  THEN Append(NormalizeEOL(n.comment["before"]), Mark("NL")) ELSE <<>>

CommentAfter(n) ==
  (IF HasComment(n, "sameLine")
   THEN <<Space>> \o NormalizeEOL(n.comment["sameLine"]) ELSE <<>>)
    \o (IF HasComment(n, "after")
        THEN <<Mark("NL")>> \o NormalizeEOL(n.comment["after"]) \o <<Mark("NL")>> ELSE <<>>)

\* The text pushValue keeps for an element: a scalar, or a container with
\* nothing in it.
Pushed(v) ==
  IF v[<<>>].type \in Containers THEN Brackets[v[<<>>].type] ELSE <<Scalar(v[<<>>])>>

Width(lexemes) ==
  LET Columns(l) == CASE l.tok = "string" -> Len(l.chars) + 2
                      [] l.tok = "number" -> Len(l.chars)
                      [] l.tok \in {"null", "true"} -> 4
                      [] l.tok = "false"  -> 5
                      [] OTHER            -> 1
  IN  FoldLeft(LAMBDA w, l : w + Columns(l), 0, lexemes)

\* isMultineArray. A comment at an element does not make the array one of
\* several lines: the condition asks that it is one already.
HoldsMore(v) ==
  \E i \in Keys(v, <<>>) : Keys(v, <<i>>) # {}
TooWide(v) ==
  LET n == Size(v, <<>>)
      widths == [i \in 1 .. n |-> Width(Pushed(Member(v, <<>>, i - 1)))]
  IN  4 + (n - 1) * 2 + FoldLeft(LAMBDA a, b : a + b, 0, widths) >= RightMargin
\* Variant: what is in the elements is not looked at.
IsMultiline_ByWidth(v) == Size(v, <<>>) * 3 >= RightMargin \/ TooWide(v)
IsMultiline(v) == Size(v, <<>>) * 3 >= RightMargin \/ HoldsMore(v) \/ TooWide(v)

\* What pushValue has kept when writeArrayValue looks at it: nothing if the
\* array was one of several lines before any width was added up.
Kept(v) == ~(Size(v, <<>>) * 3 >= RightMargin \/ HoldsMore(v))

StyledPart(v, style, writes, p, doc, i) ==
  LET k     == KeyAt(v, p, i)
      child == Member(v, p, k)
      depth == Len(p) + 1
      head  == doc \o CommentBefore(child[<<>>])
      name  == WithIndent(head, style, depth, <<NameLex(k), Space, Mark(":"), Space>>)
      body  == CASE v[p].type = "object" -> WriteAt(v, writes, p, k, name)
                 [] v[p].type # "object" /\ Kept(Sub(v, p)) ->
                      WithIndent(head, style, depth, Pushed(child))
                 [] v[p].type # "object" /\ ~Kept(Sub(v, p)) ->
                      WriteAt(v, writes, p, k, WriteIndent(head, style, depth))
  IN  body \o (IF i = Size(v, p) THEN <<>> ELSE <<Mark(",")>>) \o CommentAfter(child[<<>>])
-----------------------------------------------------------------------------
(* writeValue and writeArrayValue: what the document is behind a value.        *)

\* All parts of an array or an object, behind start.
Parts(v, style, writes, p, start) ==
  LET doc[i \in 0 .. Size(v, p)] ==
        CASE i = 0                      -> start
          [] i > 0 /\ style = "fast"    -> FastPart(v, writes, p, doc[i - 1], i)
          [] i > 0 /\ style # "fast"    -> StyledPart(v, style, writes, p, doc[i - 1], i)
  IN  doc[Size(v, p)]

FastValue(v, writes, p, doc) ==
  LET marks == Brackets[v[p].type]
  IN  IF v[p].type \in Containers
      THEN Append(Parts(v, "fast", writes, p, Append(doc, marks[1])), marks[2])
      ELSE Append(doc, Scalar(v[p]))

StyledValue(v, style, writes, p, doc) ==
  LET this  == Sub(v, p)
      size  == Size(v, p)
      marks == Brackets[v[p].type]
      Line(d, mark) == WithIndent(d, style, Len(p), <<mark>>)
  IN  CASE v[p].type \notin Containers \/ size = 0 -> doc \o Pushed(this)
        [] v[p].type = "array" /\ size # 0 /\ ~IsMultiline(this) ->
             doc \o <<Mark("["), Space>>
               \o Separated([i \in 1 .. size |-> Pushed(Member(v, p, i - 1))])
               \o <<Space, Mark("]")>>
        [] OTHER -> Line(Parts(v, style, writes, p, Line(doc, marks[1])), marks[2])

Document(v, style, start) ==
  LET writes[p \in DOMAIN v] ==
        [doc \in Seq(Lexeme) |-> IF style = "fast" THEN FastValue(v, writes, p, doc)
                                 ELSE StyledValue(v, style, writes, p, doc)]
  IN  writes[<<>>][start]

FastWritten(v) == Append(Document(v, "fast", <<>>), Mark("NL"))

Framed(v, style) ==
  Document(v, style, CommentBefore(v[<<>>])) \o CommentAfter(v[<<>>]) \o <<Mark("NL")>>
StyledWritten(v) == Framed(v, "styled")
StreamWritten(v) == Framed(v, "stream")

Unspaced(doc) == FlattenSeq([i \in DOMAIN doc |-> IF doc[i] = Space THEN <<>> ELSE <<doc[i]>>])
Written(v, style) ==
  Unspaced(CASE style = "fast"   -> FastWritten(v)
             [] style = "styled" -> StyledWritten(v)
             [] style = "stream" -> StreamWritten(v))
=============================================================================
