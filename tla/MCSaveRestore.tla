---------------------------- MODULE MCSaveRestore ----------------------------
(***************************************************************************)
(* Instances of SaveRestore for TLC.                                       *)
(***************************************************************************)
EXTENDS SaveRestore, TLC

CONSTANTS c1, c2,       \* channels
          b1, b2, b3,   \* backends
          old, new,     \* values that both formats keep
          lines,        \* a string of two lines, the second one an entry for c2
          speech,       \* a string with quotes that the JSON parser gives up at
          members       \* one with quotes that make a member for c2

KindOf == [v \in Values |-> CASE v = lines -> "split"
                              [] v \in {speech, members} -> "quoted"
                              [] OTHER -> "plain"]

RestOf == [format \in {"text", "json"} |-> [v \in Values |-> [p \in PVs |->
             IF p = c2 /\ <<format, v>> \in {<<"text", lines>>, <<"json", members>>}
               THEN new ELSE Absent]]]

\* A text file, a JSON file, and a server.
FormatOf == [io \in IOs |-> CASE io = b1 -> "text" [] io = b2 -> "json" [] io = b3 -> "http"]

ListText == <<b1>>
ListFiles == <<b1, b2>>
ListServer == <<b3, b2>>

\* The set before and after its PV list has been edited.
TwoLists == {<<c1, c2>>, <<c2>>}
EditedLists == {<<c1, c2>>, <<c2, c2>>}

\* What becomes of the records between and during saves.
AllChange == [p \in PVs |-> {old, new}]
SecondLine == [p \in PVs |-> IF p = c1 THEN {lines} ELSE {old}]
Quotes == [p \in PVs |-> IF p = c1 THEN {speech, members} ELSE {old}]

AllOld == [p \in PVs |-> old]

=============================================================================
