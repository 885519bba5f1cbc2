----------------------------- MODULE IOContract -----------------------------
(***************************************************************************)
(* What SaveRestoreIO asks of the code that writes to a backend: data goes *)
(* to a backend only inside a write transaction, transactions of one       *)
(* backend do not nest or overlap, and beginning one is what replaces the  *)
(* content of the one before.  A backend that is listed twice is begun     *)
(* again, which may take nothing from it that it was given since.  Nothing *)
(* is said here of monitor sets, threads or guards.                        *)
(***************************************************************************)
CONSTANTS
  IOs, PVs, Absent,
  Relisted  \* backends that somebody lists more than once

VARIABLES open,  \* the backends inside a write transaction
          held   \* held[io][p]: value io was given for channel p, or Absent

vars == <<open, held>>

Nothing == [p \in PVs |-> Absent]
Emptied(io) == [held EXCEPT ![io] = Nothing]

Init ==
  /\ open = {}
  /\ held = [io \in IOs |-> Nothing]

MayBegin(io) == io \notin open \/ (io \in Relisted /\ held[io] = Nothing)

BeginTransaction(io) ==
  /\ MayBegin(io)
  /\ open' = open \union {io}
  /\ held' = Emptied(io)

\* The backend could not begin; its old content may be gone all the same.
BeginFails(io) ==
  /\ MayBegin(io)
  /\ held' = Emptied(io)
  /\ UNCHANGED open

\* Any value may be written, for one channel of one backend at a time; none is
\* taken back.
WriteChannel(io, p) ==
  /\ io \in open
  /\ held' = [held EXCEPT ![io][p] = held'[io][p]]
  /\ held'[io][p] # Absent
  /\ UNCHANGED open

EndTransaction(io) ==
  /\ io \in open
  /\ open' = open \ {io}
  /\ UNCHANGED held

Next ==
  \E io \in IOs :
    \/ BeginTransaction(io) \/ BeginFails(io) \/ EndTransaction(io)
    \/ \E p \in PVs : WriteChannel(io, p)

Spec == Init /\ [][Next]_vars

\* No backend is left in the middle of a transaction for ever.
TransactionsEnd == \A io \in IOs : (io \in open) ~> (io \notin open)

=============================================================================
