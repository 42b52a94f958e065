----------------------------- MODULE JsonReader -----------------------------
(* Json::Reader of src/box_app/src/json/json_reader.cpp: a text is read token  *)
(* by token into a Value. readValue, readObject and readArray call each other; *)
(* their activations are the stack calls, and pc says what the innermost one   *)
(* reads next. nodes is nodes_, the Values under construction, by their        *)
(* places in the tree; last is lastValue_ with lastValueEnd_.                  *)
(*                                                                             *)
(* The text comes in lexemes: what readToken takes as one token, and the end   *)
(* of a line, which only decides where a comment belongs. "error" is what      *)
(* readToken cannot take: a character no token begins with, a misspelt word, a *)
(* string or a comment that does not end.                                      *)
EXTENDS JsonValue

CONSTANT Names             \* the texts of the member names, in strcmp's order

ASSUME NamesAssumption == Names \in Seq(Seq(Nat)) /\ Names # <<>> /\ Names[1] = <<>>

VARIABLES text,            \* what is left of the document behind current_
          ended,           \* nothing follows that
          value,           \* the root: its tree, and the blocks in use for it
          pc,
          calls,           \* readObject and readArray, the innermost last
          nodes,
          before,          \* commentsBefore_
          last,
          errors,
          result,          \* what parse has returned
          strict           \* Features::strictMode() instead of Features::all()

readerVars ==
  <<text, ended, value, pc, calls, nodes, before, last, errors, result, strict>>

Lex(tok, chars) == [tok |-> tok, chars |-> chars]
Mark(tok)       == Lex(tok, <<>>)
NewLines        == {"NL", "CR"}
CommentTokens   == {"/**/", "/*NL*/", "//"}
Tokens          == {"{", "}", "[", "]", ",", ":", "string", "number", "true", "false", "null",
                    "error", "SP"}
                     \cup NewLines \cup CommentTokens
Lexeme          == {l \in [tok : Tokens, chars : Seq(Nat)] : l.tok = "number" => l.chars # <<>>}

Collects == ~strict                     \* collectComments_ and allowComments_
Here     == nodes[Len(nodes)]           \* currentValue()

NameOf(chars) == SelectInSeq(Names, LAMBDA n : n = CStr(chars)) - 1

\* A name may be no name of a member and still not be empty: a text that begins
\* with a zero has the key of the empty one.
Object(name, empty) == [in |-> "object", name |-> name, empty |-> empty]
Array(index)        == [in |-> "array", index |-> index]

ParseInit ==
  /\ value  = [tree |-> Null, blocks |-> 0]
  /\ pc     = "value"
  /\ calls  = <<>>
  /\ nodes  = <<<<>>>>
  /\ before = <<>>
  /\ last   = [set |-> FALSE, place |-> <<>>, newLine |-> FALSE]
  /\ errors = <<>>
  /\ result = "none"
-----------------------------------------------------------------------------
(* readToken *)

\* The next token is at hand: skipSpaces is done, and a line comment complete.
LineEnds == SelectInSeq(text, LAMBDA l : l.tok \in NewLines)
Ready ==
  IF text = <<>> THEN ended
  ELSE /\ Head(text).tok \notin NewLines
       /\ Head(text).tok = "//" => ended \/ LineEnds > 0

Token == IF text = <<>> THEN Mark("end") ELSE Head(text)
IsComment == Ready /\ Token.tok \in CommentTokens
Reads(tok) == Ready /\ Token.tok = tok

\* A line comment goes to the end of its line, that included.
TokenLength ==
  IF Token.tok # "//" THEN 1 ELSE IF LineEnds = 0 THEN Len(text) ELSE LineEnds
Take == text' = SubSeq(text, TokenLength + 1, Len(text))

\* readComment and addComment: a comment belongs to the value before it when no
\* new line lies between and none is in it, unless at its end; else to the value
\* behind it.
TakeComment ==
  LET comment  == SubSeq(text, 1, TokenLength)
      newLine  == Token.tok = "/*NL*/" \/ LineEnds \in 1 .. TokenLength
      sameLine == last.set /\ ~last.newLine /\ Token.tok # "/*NL*/"
  IN  /\ Take
      /\ last'   = [last EXCEPT !.newLine = @ \/ (last.set /\ newLine)]
      /\ before' = IF ~Collects \/ sameLine THEN before
                   ELSE before \o (IF before = <<>> THEN <<>> ELSE <<Mark("NL")>>) \o comment
      /\ value'  = IF Collects /\ sameLine
                   THEN SetComment(value, last.place, comment, "sameLine")
                   ELSE value

SkipSpaces ==
  /\ pc # "done"
  /\ text # <<>> /\ Head(text).tok \in NewLines
  /\ text' = Tail(text)
  /\ last' = [last EXCEPT !.newLine = last.set]
  /\ UNCHANGED <<strict, ended, value, pc, calls, nodes, before, errors, result>>
-----------------------------------------------------------------------------
(* The ends of an activation of readValue. *)

\* addErrorAndRecover: the rest of the container is skipped.
Fail(message) == /\ errors' = Append(errors, message)
                 /\ pc' = "recover"

Resume(ok, outer) ==
  CASE outer = <<>>        -> "close"
    [] outer # <<>> /\ ~ok -> "recover"
    [] outer # <<>> /\ ok  -> IF outer[Len(outer)].in = "object" THEN "comma" ELSE "item"

\* readValue returns to the activations in outer, which pop the node.
ReturnTo(outer, ok) ==
  /\ calls'  = outer
  /\ nodes'  = IF outer = <<>> THEN nodes ELSE Front(nodes)
  /\ pc'     = Resume(ok, outer)
  /\ result' = IF outer = <<>> THEN (IF ok THEN "accepted" ELSE "rejected") ELSE result

\* Its last lines: the value read is the one a comment on this line belongs to.
Finished(outer, ok) ==
  /\ ReturnTo(outer, ok)
  /\ last' = IF Collects THEN [set |-> TRUE, place |-> Here, newLine |-> FALSE] ELSE last

\* A call of readValue for the member or element k of the current value.
Descend(frame, k) ==
  /\ calls' = Append(Front(calls), frame)
  /\ nodes' = Append(nodes, Append(Here, k))
  /\ pc'    = "value"
-----------------------------------------------------------------------------
(* readValue *)

\* The comments collected before the value are put to it, whatever it turns
\* out to be.
Commented ==
  IF Collects /\ before # <<>> THEN SetComment(value, Here, before, "before") ELSE value

ValueToken == pc = "value" /\ Ready /\ (IsComment => strict)

\* A scalar; what cannot be decoded fails without ending readValue early.
Decoded(tok, chars) ==
  CASE tok = "number" ->
         LET d == DecodeNumber(chars)
         IN  IF d.ok THEN [ok |-> TRUE, v |-> Number(d.type, d.val)] ELSE Bad
    [] tok = "string" ->
         LET d == DecodeString(chars)
         IN  IF d.ok THEN [ok |-> TRUE, v |-> String(d.chars)] ELSE Bad
    [] tok = "true"  -> [ok |-> TRUE, v |-> Number("boolean", 1)]
    [] tok = "false" -> [ok |-> TRUE, v |-> Number("boolean", 0)]
    [] tok = "null"  -> [ok |-> TRUE, v |-> Null]

ReadScalar ==
  /\ ValueToken
  /\ Token.tok \in {"number", "string", "true", "false", "null"}
  /\ LET d == Decoded(Token.tok, Token.chars)
     IN  /\ value'  = IF d.ok THEN Assign(Commented, Here, d.v) ELSE Commented
         /\ errors' = IF d.ok THEN errors ELSE Append(errors, Token.tok)
         /\ Finished(calls, d.ok)
  /\ before' = IF Collects THEN <<>> ELSE before
  /\ Take
  /\ UNCHANGED <<strict, ended>>

ReadContainer(tok, type, frame, next) ==
  /\ ValueToken /\ Token.tok = tok
  /\ value'  = Assign(Commented, Here, Empty(type))
  /\ calls'  = Append(calls, frame)
  /\ pc'     = next
  /\ before' = IF Collects THEN <<>> ELSE before
  /\ Take
  /\ UNCHANGED <<strict, ended, nodes, last, errors, result>>

ReadObject == ReadContainer("{", "object", Object(0, TRUE), "name")
ReadArray  == ReadContainer("[", "array", Array(0), "first")

\* Variant: the error is noted, and success returned.
NoValue_ReturnsTrue ==
  /\ ValueToken
  /\ Token.tok \notin {"number", "string", "true", "false", "null", "{", "["}
  /\ value'  = Commented
  /\ errors' = Append(errors, "value")
  /\ ReturnTo(calls, TRUE)
  /\ before' = IF Collects THEN <<>> ELSE before
  /\ Take
  /\ UNCHANGED <<strict, ended, last>>

NoValue ==
  /\ ValueToken
  /\ Token.tok \notin {"number", "string", "true", "false", "null", "{", "["}
  /\ value'  = Commented
  /\ errors' = Append(errors, "value")
  /\ ReturnTo(calls, FALSE)
  /\ before' = IF Collects THEN <<>> ELSE before
  /\ Take
  /\ UNCHANGED <<strict, ended, last>>
-----------------------------------------------------------------------------
(* readObject *)

EndObject ==
  /\ Reads("}")
  /\ \/ pc = "name" /\ calls[Len(calls)].empty        \* no name, or an empty one
     \/ pc \in {"comma", "comment"}
  /\ Finished(Front(calls), TRUE)
  /\ Take
  /\ UNCHANGED <<strict, ended, value, before, errors>>

ReadName ==
  /\ pc = "name" /\ Reads("string")
  /\ LET d == DecodeString(Token.chars)
     IN  IF d.ok
         THEN /\ pc' = "colon"
              /\ calls' = Append(Front(calls), Object(NameOf(d.chars), d.chars = <<>>))
              /\ UNCHANGED errors
         ELSE Fail("string") /\ UNCHANGED calls
  /\ Take
  /\ UNCHANGED <<strict, ended, value, nodes, before, last, result>>

NoName ==
  /\ pc = "name" /\ Ready /\ ~IsComment
  /\ Token.tok # "string"
  /\ ~(Token.tok = "}" /\ calls[Len(calls)].empty)
  /\ Fail("name") /\ Take
  /\ UNCHANGED <<strict, ended, value, calls, nodes, before, last, result>>

ReadColon ==
  /\ pc = "colon" /\ Reads(":")
  /\ value' = AtName(value, Here, calls[Len(calls)].name, FALSE)
  /\ Descend(calls[Len(calls)], calls[Len(calls)].name)
  /\ Take
  /\ UNCHANGED <<strict, ended, before, last, errors, result>>

NoColon ==
  /\ pc = "colon" /\ Ready /\ Token.tok # ":"
  /\ Fail("colon")
  /\ IF IsComment THEN TakeComment ELSE Take /\ UNCHANGED <<value, before, last>>
  /\ UNCHANGED <<strict, ended, calls, nodes, result>>

\* Behind a comment every token but the closing brace passes for the comma.
ReadComma ==
  /\ pc \in {"comma", "comment"} /\ Ready /\ ~IsComment
  /\ Token.tok # "}"
  /\ pc = "comma" => Token.tok = ","
  /\ pc' = "name" /\ Take
  /\ UNCHANGED <<strict, ended, value, calls, nodes, before, last, errors, result>>

\* Variant: a comment behind a member is no comma either.
NoComma_Comment ==
  /\ pc = "comma" /\ Ready
  /\ Token.tok \notin {"}", ","}
  /\ Fail("comma") /\ Take
  /\ UNCHANGED <<strict, ended, value, calls, nodes, before, last, result>>

NoComma ==
  /\ pc = "comma" /\ Ready /\ ~IsComment
  /\ Token.tok \notin {"}", ","}
  /\ Fail("comma") /\ Take
  /\ UNCHANGED <<strict, ended, value, calls, nodes, before, last, result>>
-----------------------------------------------------------------------------
(* readArray *)

\* Only a bracket right behind the other makes an empty array.
EndArray ==
  /\ pc \in {"first", "item"} /\ Reads("]")
  /\ Finished(Front(calls), TRUE)
  /\ Take
  /\ UNCHANGED <<strict, ended, value, before, errors>>

\* The next element. badTokenType asks a token to be a comma and a bracket at
\* once, so every token but the bracket passes for the comma.
NextElement ==
  /\ pc \in {"first", "item"} /\ Ready /\ Token.tok # "]"
  /\ pc = "item" => ~IsComment
  /\ LET i == calls[Len(calls)].index
     IN  /\ value' = AtIndex(value, Here, i)
         /\ Descend(Array(i + 1), i)
  /\ IF pc = "item" THEN Take ELSE UNCHANGED text
  /\ UNCHANGED <<strict, ended, before, last, errors, result>>
-----------------------------------------------------------------------------
(* Comments between the tokens, errors, and the end of parse. *)

SkipComment ==
  /\ IsComment
  /\ pc \in {"name", "comma", "comment", "item", "recover"}
       \cup (IF strict THEN {} ELSE {"value", "close"})
  /\ TakeComment
  /\ pc' = IF pc = "comma" THEN "comment" ELSE pc
  /\ UNCHANGED <<strict, ended, calls, nodes, errors, result>>

\* recoverFromError: up to the end of the container, or of the text.
Recover ==
  /\ pc = "recover" /\ Ready /\ ~IsComment
  /\ Take
  /\ IF Token.tok \in {"end", IF calls[Len(calls)].in = "object" THEN "}" ELSE "]"}
     THEN Finished(Front(calls), FALSE)
     ELSE UNCHANGED <<pc, calls, nodes, last, result>>
  /\ UNCHANGED <<strict, ended, value, before, errors>>

\* One token more is read behind the root's value, and what follows ignored.
Close ==
  /\ pc = "close" /\ Ready /\ (IsComment => strict)
  /\ value' = IF Collects /\ before # <<>> THEN SetComment(value, <<>>, before, "after")
              ELSE value
  /\ LET badRoot == strict /\ value.tree[<<>>].type \notin Containers \cup {"null"}
     IN  /\ errors' = IF badRoot THEN Append(errors, "root") ELSE errors
         /\ result' = IF badRoot THEN "rejected" ELSE result
  /\ pc' = "done" /\ Take
  /\ UNCHANGED <<strict, ended, calls, nodes, before, last>>

ParseStep ==
  \/ SkipSpaces \/ SkipComment
  \/ ReadScalar \/ ReadObject \/ ReadArray \/ NoValue
  \/ EndObject \/ ReadName \/ NoName \/ ReadColon \/ NoColon \/ ReadComma \/ NoComma
  \/ EndArray \/ NextElement
  \/ Recover \/ Close
=============================================================================
