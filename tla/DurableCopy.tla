----------------------------- MODULE DurableCopy -----------------------------
(***************************************************************************)
(* What a medium that a backend writes to is relied on for.  Entries are   *)
(* handed to it one after the other; it keeps some of them, in that order, *)
(* and loses none that it has kept until a new transaction begins.  Once a *)
(* transaction is complete the medium keeps all of it.  Nothing is said    *)
(* here of buffers, processes, devices or formats.                         *)
(***************************************************************************)
EXTENDS Naturals, Sequences

CONSTANTS Media, Entries

VARIABLES handed,   \* handed[m]: what m was given in its last transaction
          kept,     \* kept[m]: what m has for good, whatever becomes of the program
          complete  \* complete[m]: the last transaction has been completed

vars == <<handed, kept, complete>>

Init ==
  /\ handed = [m \in Media |-> <<>>]
  /\ kept = [m \in Media |-> <<>>]
  /\ complete = [m \in Media |-> FALSE]

\* s is t, or is t with entries left out.
Within(s, t) ==
  \E f \in [1..Len(s) -> 1..Len(t)] :
    /\ \A i, j \in 1..Len(s) : i < j => f[i] < f[j]
    /\ \A i \in 1..Len(s) : s[i] = t[f[i]]

\* Nothing kept is lost, and what comes to it has been handed over.
Gains(m) ==
  /\ Len(kept[m]) <= Len(kept'[m])
  /\ \A i \in 1..Len(kept[m]) : kept'[m][i] = kept[m][i]
  /\ Within(kept'[m], handed'[m])

Begin(m) ==
  /\ handed'[m] = <<>> /\ kept'[m] = <<>>
  /\ ~complete'[m]

Hand(m) ==
  /\ ~complete[m] /\ ~complete'[m]
  /\ \E e \in Entries : handed'[m] = Append(handed[m], e)
  /\ Gains(m)

\* The medium may be late in keeping what it was handed.
Settle(m) ==
  /\ handed'[m] = handed[m] /\ complete'[m] = complete[m]
  /\ Gains(m)

Complete(m) ==
  /\ handed'[m] = handed[m] /\ complete'[m]
  /\ kept'[m] = handed[m]
  /\ Gains(m)

\* Each medium on its own: a step may be one of several.
Next ==
  \A m \in Media : Begin(m) \/ Hand(m) \/ Settle(m) \/ Complete(m)

Spec == Init /\ [][Next]_vars

=============================================================================
