----------------------------- MODULE JsonProps -----------------------------
(* What the JSON library and its use promise. *)
EXTENDS JsonSession

NodeOK(n) ==
  /\ n.type \in ToSet(Types)
  /\ n.str \in [at : Targets, allocated : BOOLEAN]
  /\ n.key \in [at : Targets,
                policy : {"index", "noDuplication", "duplicateOnCopy", "duplicate"}]
  /\ DOMAIN n.comment = Placements
  /\ n.type \in {"int", "uint", "real", "boolean"} => n.val \in Seq(Int) /\ Len(n.val) = 1
  /\ n.type \in Containers => n.val = <<>>

\* Every node but the root is in a container.
TreeOK(v) ==
  /\ <<>> \in DOMAIN v
  /\ \A p \in DOMAIN v :
       /\ NodeOK(v[p])
       /\ p # <<>> => Front(p) \in DOMAIN v /\ v[Front(p)].type \in Containers
-----------------------------------------------------------------------------
(* Memory. *)

\* The destructor of a node releases what belongs to it, and nothing else.
ReleasesItsOwn(v) ==
  \A p \in DOMAIN v :
    /\ v[p].str.at # "lent" /\ v[p].key.at # "lent"
    /\ v[p].str.allocated = (v[p].str.at = "own")
    /\ KeyReleased(v[p].key) = (v[p].key.at = "own")

\* The Values under construction lie in each other, one for each activation of
\* readObject or readArray, and the Value the next comment would be put to is
\* in the tree.
PlacesAlive ==
  /\ \A i \in DOMAIN nodes : nodes[i] \in DOMAIN value.tree /\ Len(nodes[i]) = i - 1
  /\ \A i \in 2 .. Len(nodes) : Front(nodes[i]) = nodes[i - 1]
  /\ \A i \in DOMAIN calls : value.tree[nodes[i]].type = calls[i].in
  /\ phase = "read" /\ pc \notin {"close", "done"} =>
       Len(nodes) = Len(calls) + (IF pc = "value" THEN 1 ELSE 0)
  /\ last.set => last.place \in DOMAIN value.tree

\* Whatever is assigned, appended to itself, swapped, removed, resized or read:
\* every block in use belongs to exactly one Value, which will release it. No
\* pointer is left to a block of something else, none is released twice, none
\* is lost, and the reader writes to no Value that is gone.
MemoryOwned ==
  /\ \A s \in {root, item, value} : TreeOK(s.tree) /\ ReleasesItsOwn(s.tree)
  /\ root.blocks + item.blocks = Owned(root.tree) + Owned(item.tree)
  /\ value.blocks = Owned(value.tree)
  /\ PlacesAlive
-----------------------------------------------------------------------------
(* Values. *)

\* Comparing orders all values: equal by < exactly where == says so, never less
\* both ways, and transitive.
OrderIsTotal ==
  phase = "build" =>
    LET values == {Sub(root.tree, p) : p \in DOMAIN root.tree} \cup {item.tree}
        order  == [vw \in values \X values |-> Order(vw[1], vw[2])]
    IN  \A v, w \in values :
          /\ (order[v, w] = 0) = Same(v, w)
          /\ order[v, w] = -order[w, v]
          /\ order[v, w] = -1 => \A u \in values : order[w, u] = -1 => order[v, u] = -1

\* A conversion that is carried out is one that isConvertibleTo announces, and
\* both integers agree where both can be had.
ConversionsAnnounced ==
  \A p \in DOMAIN root.tree :
    LET t == root.tree
        n == t[p]
        Announced(other, x) == x.ok => ConvertibleTo(t, p, other)
    IN  /\ Announced("int", AsInt(n)) /\ Announced("uint", AsUInt(n))
        /\ Announced("real", AsDouble(n)) /\ Announced("string", AsString(n))
        /\ AsInt(n).ok /\ AsUInt(n).ok => AsInt(n) = AsUInt(n)
-----------------------------------------------------------------------------
(* Writing and reading. *)

Holes(v) ==
  UNION {{Append(p, i) : i \in 0 .. Size(v, p) - 1} : p \in {q \in DOMAIN v : v[q].type = "array"}}
    \ DOMAIN v

Numbers == {"int", "uint", "real"}
Alike(n, m) ==
  /\ n.val = m.val
  /\ n.type = m.type \/ {n.type, m.type} \subseteq Numbers

\* w has the meaning of v: an element that is missing is null, and of a number
\* only the value counts.
MeansTheSame(v, w) ==
  /\ DOMAIN w = DOMAIN v \cup Holes(v)
  /\ \A p \in DOMAIN v : Alike(v[p], w[p])
  /\ \A p \in Holes(v) : w[p].type = "null"

\* What any of the three writers makes of a Value, with its comments, holes,
\* smallest and largest numbers, quotes and control characters, the reader
\* accepts, and what it has read means the same.
RoundTrip ==
  source = "program" /\ pc = "done" =>
    /\ result = "accepted" /\ errors = <<>>
    /\ MeansTheSame(root.tree, value.tree)

\* Every error that is reported lies in the text: what has come is no beginning
\* of a JSON text, or it has ended too early, or strict mode was asked for and
\* the root is a scalar. Recovery never makes up an error of its own.
ErrorsJustified ==
  source = "line" /\ (errors # <<>> \/ result = "rejected") =>
    \/ grammar = Dead
    \/ ended /\ grammar.state # "done"
    \/ errors = <<"root">>

\* Whatever comes, parse returns: each of its steps takes a token, or leaves an
\* activation, or goes on to a place where one of these is next. (No reachable
\* state is a deadlock, so parse never stops before.)
Ahead ==
  [first |-> 4, comment |-> 4, item |-> 4, value |-> 3, name |-> 3, colon |-> 3, comma |-> 3,
   recover |-> 2, close |-> 1, done |-> 0]
Distance == 3 * Len(text) + Len(calls) + Ahead[pc]
ParseAdvances == [][ParseStep => Distance' < Distance]_vars
-----------------------------------------------------------------------------
(* Messages. *)

\* What the text that was read says of a name, at the last place where it says
\* something of it.
Level(i) ==
  Len(SelectSeq(SubSeq(sent, 1, i - 1), LAMBDA l : l.tok \in {"{", "["}))
    - Len(SelectSeq(SubSeq(sent, 1, i - 1), LAMBDA l : l.tok \in {"}", "]"}))
SaidAt(i, name) ==
  i + 2 <= Len(sent) /\ sent[i] = NameLex(name) /\ sent[i + 1] = Mark(":") /\ Level(i) = 1
Said(name) ==
  LET is == {i \in DOMAIN sent : SaidAt(i, name)}
  IN  IF is = {} THEN Mark("null") ELSE sent[Max(is) + 2]
SaysText(name, chars) == Said(name) = Lex("string", chars)

\* A message confirms a registration, an opening or a closing only if the text
\* says so in every field that is asked for, however often a name occurs and
\* wherever the text is cut; no message does two of these; and the closing that
\* the sensor makes up is read as one and confirms nothing.
ConfirmedAsSaid ==
  verdict.said =>
    LET yes  == Says(TRUE)
        does == {f \in {"close", "open", "register"} : verdict[f] = yes}
    IN  /\ verdict.close = yes => /\ SaysText(Category, Text(3)) /\ SaysText(Status, Text(0))
                                  /\ SaysText(ErrorNo, Text(0))
        /\ verdict.open = yes => SaysText(Category, Text(2)) /\ SaysText(Door, Text(0))
        /\ verdict.register = yes =>
             /\ SaysText(Category, Text(1)) /\ SaysText(Status, Text(0))
             /\ SaysText(Errno, Text(0)) /\ SaysText(Version, Text(1))
        /\ Cardinality(does) <= 1
        /\ source = "program" /\ root.tree = CloseType(Text(7)).tree =>
             verdict.type = Says(4) /\ does = {}

\* Some member of the message is not a text, or the message is no object.
OfOtherTypes ==
  \/ sent = <<>> \/ sent[1] # Mark("{")
  \/ \E i \in DOMAIN sent, k \in 1 .. Len(Names) - 1 :
       SaidAt(i, k) /\ sent[i + 2].tok # "string"
HasHole(t, p) == t[p].type = "array" /\ Cardinality(Keys(t, p)) < Size(t, p)

\* Where the library ends the program that asks no Value for what another type
\* has (Misuse): resize fails its assertion, on an array that lacks an element
\* it counts; a text that comes has a number of 32 characters, for which
\* decodeDouble's buffer is one too short, and no text of the writers has one;
\* and a message of the server has members of other types than the program asks
\* for.
EndsOnlySo ==
  [][/\ phase' = "aborted" => \E p \in DOMAIN root.tree : HasHole(root.tree, p)
     /\ phase' = "overrun" =>
          /\ source # "program"
          /\ \E i \in DOMAIN sent : sent[i].tok = "number" /\ Len(sent[i].chars) = BufferSize
     /\ (verdict.said /\ Dies \in {verdict.type, verdict.register, verdict.open, verdict.close}
          => OfOtherTypes)']_vars
=============================================================================
