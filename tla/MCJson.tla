------------------------------- MODULE MCJson -------------------------------
EXTENDS JsonProps

MCLeaves  == {Number("uint", MaxUInt), Number("int", MinInt), String(<<34, 1, 10>>),
              StaticText(<<97>>)}
MCRemarks == {<<Mark("//")>>, <<Mark("/*NL*/")>>}
MCLexemes == {Mark("{"), Mark("}"), Mark("["), Mark("]"), Mark(","), Mark(":"),
              Lex("string", <<97>>), Lex("string", <<92, 120>>), Lex("number", <<45, 49>>),
              Mark("error"), Mark("//"), Mark("/**/")}

\* The three confirmations, each whole and with a member more, or with another
\* in its place, and each cut short. One of the others is a number of 32
\* characters.
LongNumber  == <<48, Dot>> \o [i \in 1 .. 30 |-> 48]
Says3(k, n) == <<NameLex(k), Mark(":"), Lex("string", Text(n))>>
Closing     == <<Says3(Category, 3), Says3(Status, 0), Says3(ErrorNo, 0)>>
Opening     == <<Says3(Category, 2), Says3(Door, 0), Says3(Stamp, 7)>>
Registering == <<Says3(Category, 1), Says3(Status, 0), Says3(Errno, 0), Says3(Version, 1)>>
Others      == {Says3(Category, 2), Says3(Category, 3), Says3(Status, 1), Says3(Door, 0),
                <<NameLex(Status), Mark(":"), Lex("number", <<48>>)>>,
                <<NameLex(Stamp), Mark(":"), Lex("number", LongNumber)>>,
                <<NameLex(Category), Mark(":"), Mark("{")>>,
                <<NameLex(DevId), Mark(":"), Mark("null")>>}
Whole(members)  == <<Mark("{")>> \o Separated(members) \o <<Mark("}")>>
Variants(members) ==
  {members} \cup {Append(members, o) : o \in Others}
    \cup {[members EXCEPT ![i] = o] : i \in DOMAIN members, o \in Others}
MCMessages ==
  LET wholes == {Whole(m) : m \in UNION {Variants(b) : b \in {Closing, Opening, Registering}}}
  IN  wholes \cup UNION {{SubSeq(w, 1, n) : n \in 0 .. Len(w) - 1} :
                           w \in {Whole(b) : b \in {Closing, Opening, Registering}}}
        \cup {<<Mark("["), Mark("]")>>}
=============================================================================
