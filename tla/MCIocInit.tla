----------------------------- MODULE MCIocInit -----------------------------
(***************************************************************************)
(* Instances of IocInit for TLC: two records and a name without a record.  *)
(***************************************************************************)
EXTENDS IocInit, PvListFile

CONSTANTS r1, r2, gone, s1, s2, b1, b2

\* A .pvl file with a comment, a macro that is not defined, and a second word.
Lists == {readPvList(<<Line(<<>>, TRUE), Line(<<r1>>, FALSE), Line(<<r2, r1>>, TRUE)>>)}

\* r1 has both info fields.
InfoOfR1 == InfoFields(<<r1, TooLong, r1>>, <<r1>>)

\* A put to r1 processes r1 and r2, which saves; r2 is not passive.
Processed == [r \in Records |-> IF r = r1 THEN {r1, r2} ELSE {}]

=============================================================================
