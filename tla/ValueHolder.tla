---------------------------- MODULE ValueHolder ----------------------------
(***************************************************************************)
(* What the users of a variant rely on: it holds nothing, or one value of  *)
(* one type.  A copy leaves its source alone, and a move empties it.       *)
(***************************************************************************)
CONSTANTS Vars, Contents, Nothing

VARIABLES
  held,  \* what each of them holds
  call   \* the last call

Init == held = [v \in Vars |-> Nothing] /\ call = <<>>

Store(v, c) ==
  /\ held' = [held EXCEPT ![v] = c]
  /\ call' = <<"store", v, c>>

Empty(v) ==
  /\ held' = [held EXCEPT ![v] = Nothing]
  /\ call' = <<"empty", v>>

Copy(v, w) ==
  /\ held' = [held EXCEPT ![v] = held[w]]
  /\ call' = <<"copy", v, w>>

Move(v, w) ==
  /\ held' = [held EXCEPT ![v] = held[w], ![w] = Nothing]
  /\ call' = <<"move", v, w>>

Next ==
  \/ \E v \in Vars, c \in Contents : Store(v, c)
  \/ \E v \in Vars : Empty(v)
  \/ \E v, w \in Vars : Copy(v, w) \/ Move(v, w)

Spec == Init /\ [][Next]_<<held, call>>
=============================================================================
