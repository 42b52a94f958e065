---------------------------- MODULE JsonGrammar ----------------------------
(* What a JSON text is, as an automaton over lexemes: the state says what may  *)
(* come next, the stack which containers are open. A text is well formed if    *)
(* the automaton is done behind its last lexeme. Comments are taken where      *)
(* Json::Reader takes them: before a value, a name, a comma or the end of a    *)
(* container with something in it, and behind the root.                        *)
EXTENDS JsonReader

Dead  == [state |-> "dead", stack |-> <<>>]
Start == [state |-> "value", stack |-> <<>>]

In(g, state)    == [g EXCEPT !.state = state]
Opened(g, mark) == [state |-> IF mark = "{" THEN "nameOrEnd" ELSE "valueOrEnd",
                    stack |-> Append(g.stack, mark)]
Closed(stack)   == [state |-> IF stack = <<>> THEN "done" ELSE "next", stack |-> stack]
Top(g)          == IF g.stack = <<>> THEN "none" ELSE g.stack[Len(g.stack)]

WellSpelled(l) ==
  CASE l.tok = "string" -> DecodeString(l.chars).ok
    [] l.tok = "number" -> DecodeNumber(l.chars).ok
    [] OTHER            -> TRUE

GrammarStep(g, l, comments) ==
  CASE l.tok \in NewLines -> g
    [] l.tok \in CommentTokens ->
         IF comments /\ g.state \notin {"valueOrEnd", "colon"} THEN g ELSE Dead
    [] g.state \in {"value", "valueOrEnd"} /\ l.tok \in {"{", "["} -> Opened(g, l.tok)
    [] g.state \in {"value", "valueOrEnd"} /\ WellSpelled(l)
         /\ l.tok \in {"string", "number", "true", "false", "null"} -> Closed(g.stack)
    [] g.state = "valueOrEnd" /\ l.tok = "]" -> Closed(Front(g.stack))
    [] g.state = "nameOrEnd" /\ l.tok = "}"  -> Closed(Front(g.stack))
    [] g.state \in {"name", "nameOrEnd"} /\ l.tok = "string" /\ WellSpelled(l) -> In(g, "colon")
    [] g.state = "colon" /\ l.tok = ":" -> In(g, "value")
    [] g.state = "next" /\ l.tok = "," ->
         In(g, IF Top(g) = "{" THEN "name" ELSE "value")
    [] g.state = "next" /\ <<Top(g), l.tok>> \in {<<"{", "}">>, <<"[", "]">>} ->
         Closed(Front(g.stack))
    [] OTHER -> Dead
=============================================================================
