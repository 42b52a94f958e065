----------------------------- MODULE JsonValue -----------------------------
(* Json::Value of src/box_app/src/json/json_value.cpp with the memory it owns. *)
(* A Value and all that is in it is a tree: a function from places to nodes,   *)
(* a place being the sequence of keys that leads to it. A key is a number: the *)
(* index in an array, and in an object the name, names being numbered in       *)
(* strcmp's order (0 is the empty one). Every node says which blocks of the    *)
(* heap its pointers refer to and whether its destructor releases them; the    *)
(* operators count what they allocate and release, each where the code does.   *)
EXTENDS JsonText, FiniteSets, FiniteSetsExt

Types       == <<"null", "int", "uint", "real", "string", "boolean", "array", "object">>
Containers  == {"array", "object"}
Placements  == {"before", "sameLine", "after"}
NoComment   == [c \in Placements |-> <<>>]

\* A pointer refers to nothing, to a block of its own, to a block that belongs
\* to something else, or to static text.
Targets == {"nothing", "own", "lent", "static"}
Lent(at) == IF at = "own" THEN "lent" ELSE at
-----------------------------------------------------------------------------
(* CZString: the key of a member, a name or an index.                          *)
IndexKey == [at |-> "nothing", policy |-> "index"]
Name(at, policy) == [at |-> at, policy |-> policy]

CopiesText(k) == k.policy # "noDuplication" /\ k.at # "nothing"

\* Variant: the name is not copied with the key.
CopyKey_Shallow(k) == [k EXCEPT !.at = Lent(@)]

CopyKey(k) ==
  [at     |-> IF CopiesText(k) THEN "own" ELSE Lent(k.at),
   policy |-> IF k.at = "nothing" \/ k.policy = "noDuplication" THEN k.policy
              ELSE "duplicate"]

KeyReleased(k) == k.at # "nothing" /\ k.policy = "duplicate"
-----------------------------------------------------------------------------
(* The nodes. The flag of a string is allocated_.                              *)
NoString == [at |-> "nothing", allocated |-> FALSE]
Node(type, val, str) ==
  [type |-> type, val |-> val, str |-> str, comment |-> NoComment, key |-> IndexKey]

Leaf(node)   == [p \in {<<>>} |-> node]
Null         == Leaf(Node("null", <<>>, NoString))
Empty(type)  == Leaf(Node(type, <<>>, NoString))
Number(type, n) == Leaf(Node(type, <<n>>, NoString))
String(s)       == Leaf(Node("string", CStr(s), [at |-> "own", allocated |-> TRUE]))
StaticText(s)   == Leaf(Node("string", CStr(s), [at |-> "static", allocated |-> FALSE]))

Below(t, p)    == {q \in DOMAIN t : IsPrefix(p, q)}
Keys(t, p)     == {q[Len(q)] : q \in {r \in Below(t, p) : Len(r) = Len(p) + 1}}
Suffix(p, q)   == SubSeq(q, Len(p) + 1, Len(q))
Sub(t, p)      == [r \in {Suffix(p, q) : q \in Below(t, p)} |-> t[p \o r]]
Put(t, p, v) ==
  [q \in (DOMAIN t \ Below(t, p)) \cup {p \o r : r \in DOMAIN v} |->
     IF IsPrefix(p, q) THEN v[Suffix(p, q)] ELSE t[q]]

\* The blocks of a node: its string or its map, its comments (an array and a
\* text each), the name in its key.
Comments(n)  == {c \in Placements : n.comment[c] # <<>>}
Blocks(n, string, key) ==
  {b \in {"string", "map", "key", "comments"} \cup Placements :
     CASE b = "string"     -> string
       [] b = "map"        -> n.type \in Containers
       [] b = "key"        -> key
       [] b = "comments"   -> Comments(n) # {}
       [] b \in Placements -> b \in Comments(n)}

\* What ~Value releases, what belongs to the tree, and what a copy of it takes.
ToRelease(v) ==
  UNION {{p} \X Blocks(v[p], v[p].str.allocated, KeyReleased(v[p].key)) : p \in DOMAIN v}
ToOwn(v)  == UNION {{p} \X Blocks(v[p], v[p].str.at = "own", v[p].key.at = "own") : p \in DOMAIN v}
ToCopy(v) ==
  UNION {{p} \X Blocks(v[p], v[p].str.at # "nothing", CopiesText(v[p].key)) : p \in DOMAIN v}
Released(v)      == Cardinality(ToRelease(v))
Owned(v)         == Cardinality(ToOwn(v))
CopyAllocates(v) == Cardinality(ToCopy(v))
-----------------------------------------------------------------------------
(* Copying and assigning. *)
CopyNode(n) ==
  [n EXCEPT !.str = IF @.at = "nothing" THEN NoString
                    ELSE [at |-> "own", allocated |-> TRUE],
            !.key = CopyKey(@)]

Copy(v) == [p \in DOMAIN v |-> CopyNode(v[p])]

\* swap leaves the comments where they are; a key belongs to the map's entry.
Swapped(this, other) ==
  [other EXCEPT ![<<>>].comment = this[<<>>].comment, ![<<>>].key = this[<<>>].key]

\* operator=: the argument is copied, swapped in, and the copy dies with what
\* was there. s is a tree and the number of blocks in use.
Assign(s, p, v) ==
  LET this == Sub(s.tree, p)
      temp == Copy([v EXCEPT ![<<>>].key = IndexKey])
  IN  [tree   |-> Put(s.tree, p, Swapped(this, temp)),
       blocks |-> s.blocks + CopyAllocates([v EXCEPT ![<<>>].key = IndexKey])
                    - Released(Swapped(temp, this))]
-----------------------------------------------------------------------------
(* Access. The two forms of operator[] on a null make it a container, and put  *)
(* a null where nothing was: the key is copied into a pair, and the pair into  *)
(* the map.                                                                    *)
BecomeContainer(s, p, type) ==
  IF s.tree[p].type = "null" THEN Assign(s, p, Empty(type)) ELSE s

Insert(s, p, k, given) ==
  IF k \in Keys(s.tree, p) THEN s
  ELSE LET pair  == CopyKey(given)
           count(key) == IF CopiesText(key) THEN 1 ELSE 0
           entry == [Null EXCEPT ![<<>>].key = CopyKey(pair)]
       IN  [tree   |-> Put(s.tree, Append(p, k), entry),
            blocks |-> s.blocks + count(given) + count(pair)
                         - (IF KeyReleased(pair) THEN 1 ELSE 0)
                         - (IF KeyReleased(given) THEN 1 ELSE 0)]

AtName(s, p, name, static) ==
  Insert(BecomeContainer(s, p, "object"), p, name,
         IF static THEN Name("static", "noDuplication") ELSE Name("lent", "duplicateOnCopy"))

AtIndex(s, p, index) == Insert(BecomeContainer(s, p, "array"), p, index, IndexKey)

\* The const forms: Value::null when there is nothing.
Has(t, p, k)    == k \in Keys(t, p)
Member(t, p, k) == IF Has(t, p, k) THEN Sub(t, Append(p, k)) ELSE Null
Get(t, p, k, default) == IF Has(t, p, k) THEN Sub(t, Append(p, k)) ELSE default

\* An array's size is its last index and one.
Size(t, p) ==
  IF t[p].type = "array" /\ Keys(t, p) # {} THEN Max(Keys(t, p)) + 1
  ELSE Cardinality(Keys(t, p))
IsEmpty(t, p)     == t[p].type \in Containers \cup {"null"} /\ Size(t, p) = 0
MemberNames(t, p) ==
  LET keys == Keys(t, p)
  IN  [i \in 1 .. Cardinality(keys) |->
         CHOOSE k \in keys : Cardinality({j \in keys : j < k}) = i - 1]

\* Assigning what is at q of the same tree, and appending it: the null made for
\* it on the left is there when the right side is copied.
AssignPart(s, p, q) == Assign(s, p, Sub(s.tree, q))
AppendValue(s, p, v) ==
  LET n == Size(s.tree, p) IN Assign(AtIndex(s, p, n), Append(p, n), v)
AppendPart(s, p, q) ==
  LET n == Size(s.tree, p) IN AssignPart(AtIndex(s, p, n), Append(p, n), q)
-----------------------------------------------------------------------------
(* Removing. *)
Erased(s, gone) ==
  [tree   |-> [q \in DOMAIN s.tree \ gone |-> s.tree[q]],
   blocks |-> s.blocks - Released([q \in gone |-> s.tree[q]])]

Erase(s, p)           == Erased(s, Below(s.tree, p))
EraseKeys(s, p, keys) == Erased(s, UNION {Below(s.tree, Append(p, k)) : k \in keys})
Clear(s, p)           == EraseKeys(s, p, Keys(s.tree, p))

\* resize takes the elements off the end one by one. What is left must have the
\* size asked for, which the code asserts.
Resize(s, p, n) ==
  LET a    == BecomeContainer(s, p, "array")
      size == Size(a.tree, p)
  IN  CASE n = 0               -> Clear(a, p)
        [] n > size            -> AtIndex(a, p, n - 1)
        [] n \in 1 .. size     -> EraseKeys(a, p, Keys(a.tree, p) \cap (n .. size - 1))
ResizeAsserts(s, p, n) == n = 0 \/ Size(Resize(s, p, n).tree, p) = n
-----------------------------------------------------------------------------
(* Comments. *)
HasComment(n, placement) == n.comment[placement] # <<>>

SetComment(s, p, comment, placement) ==
  LET n == s.tree[p]
  IN  [tree   |-> [s.tree EXCEPT ![p].comment[placement] = comment],
       blocks |-> s.blocks + (IF Comments(n) = {} THEN 1 ELSE 0)
                    + 1 - (IF HasComment(n, placement) THEN 1 ELSE 0)]
-----------------------------------------------------------------------------
(* What a node is converted to; a conversion the type does not have throws.    *)
Throws == [ok |-> FALSE]
Is(x)  == [ok |-> TRUE, val |-> x]

\* Variant: null has no text.
AsString_NullThrows(n) ==
  IF n.type = "string" THEN Is(n.val) ELSE Throws

AsString(n) ==
  CASE n.type = "null"    -> Is(<<>>)
    [] n.type = "string"  -> Is(n.val)
    [] n.type = "boolean" -> Is(IF n.val = <<1>> THEN <<116, 114, 117, 101>>
                                ELSE <<102, 97, 108, 115, 101>>)
    [] OTHER              -> Throws

\* Variant: an UInt is taken for an Int without looking at it.
AsInt_Unchecked(n) ==
  CASE n.type = "null" -> Is(0)
    [] n.type \in {"int", "uint", "boolean"} -> Is(n.val[1])
    [] OTHER -> Throws

\* asInt takes no UInt that is as large as the largest Int.
AsInt(n) ==
  CASE n.type = "null"                                      -> Is(0)
    [] n.type \in {"int", "boolean"}                        -> Is(n.val[1])
    [] n.type = "uint" /\ n.val[1] < MaxInt                 -> Is(n.val[1])
    [] n.type = "real" /\ n.val[1] \in MinInt .. MaxInt     -> Is(n.val[1])
    [] OTHER                                                -> Throws

AsUInt(n) ==
  CASE n.type = "null"                                      -> Is(0)
    [] n.type = "int" /\ n.val[1] >= 0                      -> Is(n.val[1])
    [] n.type \in {"uint", "boolean"}                       -> Is(n.val[1])
    [] n.type = "real" /\ n.val[1] \in 0 .. MaxUInt         -> Is(n.val[1])
    [] OTHER                                                -> Throws

AsDouble(n) ==
  CASE n.type = "null"                                      -> Is(0)
    [] n.type \in {"int", "uint", "real", "boolean"}        -> Is(n.val[1])
    [] OTHER                                                -> Throws

\* isConvertibleTo
ConvertibleTo(t, p, other) ==
  LET n == t[p]
  IN  CASE n.type = "null" -> TRUE
        [] n.type \in {"int", "uint", "real", "boolean"} ->
             \/ other = "null" /\ n.val[1] = 0
             \/ other = "int"  /\ (n.type \in {"int", "boolean"} \/ n.val[1] \in MinInt .. MaxInt)
             \/ other = "uint" /\ (n.type \in {"uint", "boolean"} \/ n.val[1] \in 0 .. MaxUInt)
             \/ other \in {"real", "string", "boolean"}
        [] n.type = "string" -> other = "string" \/ (other = "null" /\ n.val = <<>>)
        [] n.type \in Containers -> other = n.type \/ (other = "null" /\ Keys(t, p) = {})
-----------------------------------------------------------------------------
(* Comparing: types first, then what they hold; containers by the number of    *)
(* their entries, then entry by entry. The order of two values is -1, 0 or 1.  *)
\* Variant: only less is told from the rest.
Sign_OneSided(a, b) == IF a < b THEN -1 ELSE 0
Sign(a, b) == CASE a < b -> -1 [] a = b -> 0 [] a > b -> 1
Rank(type) == SelectInSeq(Types, LAMBDA x : x = type)

\* The first position where two orders differ decides.
FirstOf(orders) ==
  LET i == SelectInSeq(orders, LAMBDA o : o # 0) IN IF i = 0 THEN 0 ELSE orders[i]

StringOrder(a, b) ==
  LET n == Max({Len(a.val), Len(b.val)})
      At(s, i) == IF i > Len(s) THEN 0 ELSE s[i]
  IN  IF "nothing" \in {a.str.at, b.str.at}
      THEN Sign(IF a.str.at = "nothing" THEN 0 ELSE 1, IF b.str.at = "nothing" THEN 0 ELSE 1)
      ELSE FirstOf([i \in 1 .. n |-> Sign(At(a.val, i), At(b.val, i))])

Order(v, w) ==
  LET order[p \in DOMAIN v \cap DOMAIN w] ==
        LET a == MemberNames(v, p)
            b == MemberNames(w, p)
            Entry(i) == IF a[i] # b[i] THEN Sign(a[i], b[i]) ELSE order[Append(p, a[i])]
        IN  CASE v[p].type # w[p].type -> Sign(Rank(v[p].type), Rank(w[p].type))
              [] v[p].type = w[p].type /\ v[p].type \in Containers ->
                   IF Len(a) # Len(b) THEN Sign(Len(a), Len(b))
                   ELSE FirstOf([i \in 1 .. Len(a) |-> Entry(i)])
              [] v[p].type = w[p].type /\ v[p].type = "string" -> StringOrder(v[p], w[p])
              [] v[p].type = w[p].type /\ v[p].type = "null"   -> 0
              [] OTHER -> Sign(v[p].val[1], w[p].val[1])
  IN  order[<<>>]

LessThan(v, w) == Order(v, w) = -1

\* operator==: nodes with equal content at equal keys, whatever is owned.
Same(v, w) ==
  /\ DOMAIN v = DOMAIN w
  /\ \A p \in DOMAIN v :
       /\ v[p].type = w[p].type /\ v[p].val = w[p].val
       /\ v[p].type = "string" => (v[p].str.at = "nothing") = (w[p].str.at = "nothing")
=============================================================================
