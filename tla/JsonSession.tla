---------------------------- MODULE JsonSession ----------------------------
(* One use of the JSON library. The program builds Values with the operations  *)
(* of Json::Value, writes one of them and reads the text again; or a text      *)
(* comes over the line, lexeme by lexeme, or as a message of the server. What  *)
(* was read is then judged by the functions of hodgepodge.cpp.                 *)
EXTENDS JsonMessages, JsonGrammar

CONSTANTS Sources,         \* of {"program", "line", "server"}
          MaxOps,          \* operations on the Values before one is written
          MaxDepth,        \* of the places they are done at
          MaxIndex,        \* into arrays
          Members,         \* the names they use
          Leaves,          \* what they assign
          Remarks,         \* the comments they set
          Styles,          \* of {"fast", "styled", "stream"}
          MaxLexemes,      \* that come over the line
          MaxWrong,        \* of them behind the first that fits no JSON text
          Lexemes,
          Messages         \* the texts of the server

ASSUME LexemesAssumption == Lexemes \subseteq Lexeme /\ \A m \in Messages : m \in Seq(Lexeme)

\* Every text that may come as a name is one of Names, so that different names
\* are different keys.
IsNamed(l) ==
  LET d == DecodeString(l.chars)
  IN  l.tok = "string" /\ d.ok => \E i \in DOMAIN Names : Names[i] = CStr(d.chars)

ASSUME NamedAssumption ==
  /\ \A l \in Lexemes : IsNamed(l)
  /\ \A m \in Messages : \A i \in 2 .. Len(m) : m[i].tok \in NewLines \cup {":"} => IsNamed(m[i - 1])

\* A leaf is a number in the range of its type, or a text, which has no zero.
IsLeaf(v) ==
  LET n == v[<<>>]
      Of(S) == n.val = <<n.val[1]>> /\ n.val[1] \in S
  IN  /\ v = Leaf(Node(n.type, n.val, n.str))
      /\ \/ /\ n.str = NoString
            /\ \/ n.type = "int" /\ Of(MinInt .. MaxInt)
               \/ n.type = "uint" /\ Of(0 .. MaxUInt)
               \/ n.type = "boolean" /\ Of(0 .. 1)
               \/ n.type = "real" /\ Of(Int)
         \/ /\ n.type = "string" /\ n.val \in Seq(Nat \ {0})
            /\ n.str \in {[at |-> "own", allocated |-> TRUE], [at |-> "static", allocated |-> FALSE]}

ASSUME BuildAssumption ==
  /\ \A v \in Leaves : IsLeaf(v)
  /\ Members \subseteq 0 .. Len(Names) - 1
  /\ \A c \in Remarks : c \in Seq(Lexeme) /\ c # <<>> /\ c[1].tok \in CommentTokens
  /\ Styles \subseteq {"fast", "styled", "stream"}

VARIABLES source, phase, ops, root, item, grammar, verdict,
          sent             \* the text that is read, for the properties

sessionVars == <<source, phase, ops, root, item, grammar, verdict, sent>>
vars == <<readerVars, sessionVars>>

NoVerdict == [said |-> FALSE]

Init ==
  /\ ParseInit
  /\ source \in Sources
  /\ phase   = IF source = "program" THEN "build" ELSE "read"
  /\ strict \in IF source = "line" THEN BOOLEAN ELSE {FALSE}
  /\ text \in IF source = "server" THEN Messages ELSE {<<>>}
  /\ ended   = (source = "server")
  /\ sent    = text
  /\ ops = 0 /\ root = New /\ item = New
  /\ grammar = Start
  /\ verdict = NoVerdict
-----------------------------------------------------------------------------
(* The program builds: root is worked on, item is put into it. A comment       *)
(* begins with a slash, else setComment throws.                                *)
Built    == /\ ops' = ops + 1
            /\ UNCHANGED <<readerVars, source, phase, grammar, verdict, sent>>

\* Where the operations of an array or of an object are carried out. Elsewhere
\* they fail their assertion, which is Misuse.
Places(type) ==
  {p \in DOMAIN root.tree : root.tree[p].type \in {"null", type} /\ Len(p) < MaxDepth}

SetMember ==
  \E p \in Places("object"), k \in Members, v \in Leaves, static \in BOOLEAN :
    /\ root' = Assign(AtName(root, p, k, static), Append(p, k), v)
    /\ UNCHANGED item /\ Built

SetElement ==
  \E p \in Places("array"), i \in 0 .. MaxIndex, v \in Leaves :
    /\ root' = Assign(AtIndex(root, p, i), Append(p, i), v)
    /\ UNCHANGED item /\ Built

AppendItem ==
  \E p \in Places("array") :
    /\ Size(root.tree, p) <= MaxIndex
    /\ root' = AppendValue(root, p, item.tree)
    /\ UNCHANGED item /\ Built

\* A Value is appended to itself, or to another in it.
AppendPartOfRoot ==
  \E p \in Places("array"), q \in {<<>>, <<0>>} :
    /\ Size(root.tree, p) <= MaxIndex
    /\ q \in DOMAIN root.tree /\ root.tree[q].type \in Containers
    /\ root' = AppendPart(root, p, q)
    /\ UNCHANGED item /\ Built

\* item = root[p].removeMember(k)
RemoveMember ==
  \E p \in Places("object"), k \in Members :
    /\ Has(root.tree, p, k)
    /\ item' = Assign(item, <<>>, Sub(root.tree, Append(p, k)))
    /\ root' = Erase(root, Append(p, k))
    /\ Built

\* The two change places, and keep their comments.
SwapValues ==
  /\ root' = [root EXCEPT !.tree = Swapped(root.tree, item.tree)]
  /\ item' = [item EXCEPT !.tree = Swapped(item.tree, root.tree)]
  /\ Built

ClearValue ==
  \E p \in Places("array") \cup Places("object") :
    /\ root' = Clear(root, p)
    /\ UNCHANGED item /\ Built

\* The program aborts if the assertion fails.
ResizeValue ==
  \E p \in Places("array"), n \in 0 .. MaxIndex :
    /\ root' = Resize(root, p, n)
    /\ phase' = IF ResizeAsserts(root, p, n) THEN phase ELSE "aborted"
    /\ ops' = ops + 1
    /\ UNCHANGED <<readerVars, source, item, grammar, verdict, sent>>

Comment ==
  \E p \in DOMAIN root.tree, c \in Remarks, placement \in Placements :
    /\ (placement = "after" => p = <<>>)
    /\ root' = SetComment(root, p, c, placement)
    /\ UNCHANGED item /\ Built

\* A Value is asked for what another type has: clear, resize, [] or removeMember
\* on a scalar, of an array on an object, or of an object on an array.
Misuse ==
  \E p \in DOMAIN root.tree, asked \in Containers :
    /\ root.tree[p].type \notin {"null", asked} /\ Len(p) < MaxDepth
    /\ phase' = "misused"
    /\ UNCHANGED <<readerVars, source, ops, root, item, grammar, verdict, sent>>

\* root becomes one of the messages of the program, and what it was is released.
Report ==
  /\ \E m \in {CloseType(Text(7)), OpenReport(Text(7), TRUE), OpenReport(Text(7), FALSE),
              CloseReport(Text(7), item.tree)} :
       root' = [tree |-> m.tree, blocks |-> root.blocks - Released(root.tree) + m.blocks]
  /\ ops' = MaxOps
  /\ UNCHANGED <<readerVars, source, phase, item, grammar, verdict, sent>>

Build ==
  /\ phase = "build" /\ ops < MaxOps
  /\ \/ SetMember \/ SetElement \/ AppendItem \/ AppendPartOfRoot \/ RemoveMember
     \/ SwapValues \/ ClearValue \/ ResizeValue \/ Comment \/ Report \/ Misuse

\* write, and the text is handed to parse.
Write ==
  phase = "build" /\ \E style \in Styles :
    /\ phase' = "read"
    /\ text' = Written(root.tree, style) /\ ended' = TRUE
    /\ sent' = text'
    /\ UNCHANGED <<strict, value, pc, calls, nodes, before, last, errors, result>>
    /\ UNCHANGED <<source, ops, root, item, grammar, verdict>>
-----------------------------------------------------------------------------
(* A text comes over the line.                                                 *)
Arrive ==
  /\ source = "line" /\ phase = "read" /\ pc # "done"
  /\ text = <<>> /\ ~ended /\ ops < MaxLexemes
  /\ \E l \in Lexemes :
    /\ grammar' = GrammarStep(grammar, l, ~strict)
    /\ ops' = IF grammar' = Dead THEN Max({ops + 1, MaxLexemes - MaxWrong}) ELSE ops + 1
    /\ text' = IF l.tok = "//" THEN <<l, Mark("NL")>> ELSE <<l>>
    /\ UNCHANGED <<strict, ended, value, pc, calls, nodes, before, last, errors, result>>
    /\ sent' = sent \o text'
    /\ UNCHANGED <<source, phase, root, item, verdict>>

TextEnds ==
  /\ source = "line" /\ phase = "read" /\ pc # "done"
  /\ text = <<>> /\ ~ended
  /\ ended' = TRUE
  /\ UNCHANGED <<strict, text, value, pc, calls, nodes, before, last, errors, result>>
  /\ UNCHANGED sessionVars

Parse == phase = "read" /\ ParseStep /\ UNCHANGED sessionVars

\* The zero behind decodeDouble's buffer does no harm (Parse), or it hits what
\* the program needs to go on, and the program ends.
Overrun ==
  /\ phase = "read" /\ ValueToken
  /\ Token.tok = "number" /\ Overruns(Token.chars)
  /\ phase' = "overrun"
  /\ UNCHANGED <<readerVars, source, ops, root, item, grammar, verdict, sent>>

\* The functions that look at a message.
Judge ==
  /\ phase = "read" /\ pc = "done"
  /\ phase' = "judged"
  /\ LET ok == result = "accepted"
     IN  verdict' = IF source = "line" THEN NoVerdict
                    ELSE [said     |-> TRUE,
                          type     |-> AnalysisType(ok, value.tree),
                          register |-> RegisterConfirm(value.tree, Text(1)),
                          open     |-> OpenConfirm(ok, value.tree),
                          close    |-> CloseConfirm(ok, value.tree)]
  /\ UNCHANGED <<readerVars, source, ops, root, item, grammar, sent>>

Over == phase \in {"judged", "aborted", "misused", "overrun"} /\ UNCHANGED vars

Next == Build \/ Write \/ Arrive \/ TextEnds \/ Parse \/ Overrun \/ Judge \/ Over

Spec == Init /\ [][Next]_vars
=============================================================================
