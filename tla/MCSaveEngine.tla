---------------------------- MODULE MCSaveEngine ----------------------------
(***************************************************************************)
(* Instances of SaveEngine for TLC.  Each configuration gives the contexts *)
(* their channels and backends and says who asks for saves.                *)
(***************************************************************************)
EXTENDS SaveEngine, TLC

CONSTANTS p1, p2,      \* records
          b1, b2, b3,  \* backends
          T,           \* a periodic thread
          R, S,        \* a thread that processes a saveControl record; a shell
          LR, LP       \* lock sets

\* Two contexts that share record p2, one of them with two backends.
ChannelsTwo == (0 :> <<p1, p2>>) @@ (1 :> <<p2>>)
IOsTwo == (0 :> <<b1, b2>>) @@ (1 :> <<b3>>)
PeriodTwo == (0 :> 1) @@ (1 :> 2)

\* One backend per context; or one that both were given, the first one twice; and
\* one record, in the first context only.
IOsSmall == (0 :> <<b1>>) @@ (1 :> <<b2>>)
IOsLent == (0 :> <<b1, b1>>) @@ (1 :> <<b2, b1>>)
ChannelsUneven == (0 :> <<p1>>) @@ (1 :> <<>>)

\* A record that shows the status of a set, one that shows its save time, and one
\* whose INP is refused.
StatusRec(support, word, number) == [support |-> support, word |-> word, number |-> number]
StatusRecsThree ==
  {StatusRec("mbbi", "saveStatus", 0), StatusRec("stringin", "lastSaved", 0),
   StatusRec("stringin", "lastSaved", NotANumber)}

\* The lock set of the saveControl record, apart from the saved records' or not.
RecordLockR == (R :> LR)
PVLockApart == [r \in PVs |-> LP]
PVLockTogether == [r \in PVs |-> LR]

=============================================================================
