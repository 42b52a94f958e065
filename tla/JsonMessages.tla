---------------------------- MODULE JsonMessages ----------------------------
(* The messages of the program: what it builds out of Values for the server    *)
(* and for its own threads (msg_process.cpp, hodgepodge.cpp), and what it      *)
(* makes of the ones that come (hodgepodge.cpp).                               *)
EXTENDS JsonWriter

\* The names of the members, and the texts of the digits.
Category == 1
DevId    == 2
DeviceId == 3
Door     == 4
Errno    == 5
ErrorNo  == 6
Good     == 7
Status   == 8
Stamp    == 9
Version  == 10
Text(n)  == <<48 + n>>

ASSUME MessageNamesAssumption == Len(Names) > Version

MessageNames ==
  <<<<>>, <<97>>, <<98>>, <<99>>, <<100>>, <<101>>, <<102>>, <<103>>, <<104>>, <<105>>, <<106>>>>

New == [tree |-> Null, blocks |-> 0]

\* value[name] = "text"
With(s, name, v) ==
  Assign(AtName(s, <<>>, name, FALSE), <<name>>, v)
WithText(s, name, chars) == With(s, name, String(chars))
-----------------------------------------------------------------------------
(* What is built. *)

\* door_open_respond
OpenReport(id, open) ==
  LET said == IF open THEN Text(0) ELSE <<Minus>> \o Text(1)
  IN  WithText(WithText(WithText(New, DeviceId, id), Status, said), Errno, said)

\* close_door_creat_type: what the sensor sends to the message thread.
CloseType(id) == WithText(WithText(New, DevId, id), Category, Text(4))

\* door_close_respond: the goods are the members of the one element of an array.
CloseReport(id, item) ==
  LET array == AppendValue(New, <<>>, item)
  IN  With(WithText(New, DevId, id), Good, array.tree)
-----------------------------------------------------------------------------
(* What is understood of a text, given parse's result and the Value it left.   *)

\* value[name].asString(): the program ends if the root is no object (an
\* assertion) or the member has no text (an exception nobody catches).
Field(v, name) ==
  IF v[<<>>].type \notin {"null", "object"} THEN Throws
  ELSE AsString(Member(v, <<>>, name)[<<>>])

Strtol(s) ==
  LET end == SelectInSeq(s \o <<0>>, LAMBDA c : c \notin Digit)
  IN  FoldLeft(LAMBDA n, c : 10 * n + c - 48, 0, SubSeq(s, 1, end - 1))

Dies == [dies |-> TRUE]
Says(x) == [dies |-> FALSE, is |-> x]

\* analysis_type
AnalysisType(ok, v) ==
  LET category == Field(v, Category)
      id       == Field(v, DevId)
  IN  CASE ~ok                                         -> Says(-1)
        [] ok /\ ~category.ok                          -> Dies
        [] ok /\ category.ok /\ category.val # <<>>    -> Says(Strtol(category.val))
        [] ok /\ category = Is(<<>>) /\ ~id.ok         -> Dies
        [] ok /\ category = Is(<<>>) /\ id.ok          -> Says(IF id.val # <<>> THEN 4 ELSE -1)

\* The fields are compared in order, and the first that differs decides.
Compared(v, wanted) ==
  LET Then(verdict, f) ==
        IF verdict # Says(TRUE) THEN verdict
        ELSE IF ~Field(v, f[1]).ok THEN Dies ELSE Says(Field(v, f[1]).val = f[2])
  IN  FoldLeft(Then, Says(TRUE), wanted)

\* device_register_confirm does not ask whether the text could be read.
RegisterConfirm(v, version) ==
  Compared(v, <<<<Category, Text(1)>>, <<Status, Text(0)>>, <<Errno, Text(0)>>,
                <<Version, version>>>>)

\* opendoor_cmd_confirm copies the time stamp, which must be a text too.
OpenConfirm(ok, v) ==
  LET verdict == Compared(v, <<<<Category, Text(2)>>, <<Door, Text(0)>>>>)
  IN  CASE ~ok                            -> Says(FALSE)
        [] ok /\ verdict # Says(TRUE)     -> verdict
        [] ok /\ verdict = Says(TRUE)     -> IF Field(v, Stamp).ok THEN Says(TRUE) ELSE Dies

\* Variant: the category is not asked for.
CloseConfirm_AnyCategory(ok, v) ==
  IF ~ok THEN Says(FALSE)
  ELSE Compared(v, <<<<Status, Text(0)>>, <<ErrorNo, Text(0)>>>>)

\* colse_door_confirm
CloseConfirm(ok, v) ==
  IF ~ok THEN Says(FALSE)
  ELSE Compared(v, <<<<Category, Text(3)>>, <<Status, Text(0)>>, <<ErrorNo, Text(0)>>>>)
=============================================================================
