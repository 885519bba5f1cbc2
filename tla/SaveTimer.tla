------------------------------ MODULE SaveTimer ------------------------------
(***************************************************************************)
(* How long pvSaveThreadProc sleeps, and so how old a saved set can get.   *)
(* The thread does not sleep for the time left until a set is due: for a   *)
(* set that is not due it sleeps for the time that has already gone by.    *)
(*                                                                         *)
(* Time is relative, in clock units: nothing here depends on the reading   *)
(* of the clock, only on how long ago things happened.                     *)
(***************************************************************************)
EXTENDS Integers

CONSTANTS
  NumContexts,  \* SaveContext::saveContexts.size()
  Period,       \* Period[c]: period of the monitor set of context c
  MaxSleep,     \* the 30 seconds the thread never sleeps longer than
  Late,         \* epicsThreadSleep returns at most this late
  Busy          \* bound on one pass: the wait for the guard and the saves

Contexts == 0..(NumContexts - 1)

ASSUME TimerAssumption ==
  /\ NumContexts \in Nat
  /\ Period \in [Contexts -> Nat \ {0}]
  /\ MaxSleep \in Nat \ {0}
  /\ Late \in Nat /\ Busy \in Nat

VARIABLES
  pc,        \* "asleep", "blocked" on the guard, or "saving"
  toWake,    \* what is left of the sleep; negative when it has overslept
  sleepTime, \* local sleepTime
  next,      \* loop position in saveContexts
  lag,       \* the present minus local `now`
  age,       \* age[c]: the present minus lastProc_, or the thread's age
  never      \* contexts whose lastProc_ is still {0, 0}

vars == <<pc, toWake, sleepTime, next, lag, age, never>>

Lesser(x, y) == IF x <= y THEN x ELSE y

\* The first sleep is the shortest period, or MaxSleep.
FirstSleeps == {MaxSleep} \union {Period[c] : c \in Contexts}

Init ==
  /\ pc = "asleep"
  /\ toWake \in {s \in FirstSleeps : \A r \in FirstSleeps : s <= r}
  /\ sleepTime = 0
  /\ next = 0
  /\ lag = 0
  /\ age = [c \in Contexts |-> 0]
  /\ never = Contexts

\* epicsThreadSleep returns; the clock is read before the guard is taken.
Wake ==
  /\ pc = "asleep" /\ toWake <= 0
  /\ pc' = "blocked"
  /\ toWake' = 0
  /\ sleepTime' = MaxSleep
  /\ UNCHANGED <<next, lag, age, never>>

Lock ==
  /\ pc = "blocked"
  /\ pc' = "saving"
  /\ UNCHANGED <<toWake, sleepTime, next, lag, age, never>>

\* Time since the last save, as the thread sees it.  It is negative when
\* another save got the guard first, for it stamped a later time.
Diff(c) == age[c] - lag

Due(c) == c \in never \/ Diff(c) >= Period[c]

\* Mutant: a set that is not due does not shorten the sleep.
CarelessSkip ==
  /\ pc = "saving" /\ next \in Contexts /\ ~Due(next)
  /\ next' = next + 1
  /\ UNCHANGED <<pc, toWake, sleepTime, lag, age, never>>

Skip ==
  /\ pc = "saving" /\ next \in Contexts /\ ~Due(next)
  /\ sleepTime' = Lesser(Diff(next), sleepTime)
  /\ next' = next + 1
  /\ UNCHANGED <<pc, toWake, lag, age, never>>

\* Mutant: the loop advances in its body as well.
DoubleStepSave ==
  /\ pc = "saving" /\ next \in Contexts /\ Due(next)
  /\ age' = [age EXCEPT ![next] = lag]
  /\ never' = never \ {next}
  /\ sleepTime' = Lesser(sleepTime, Period[next])
  /\ next' = next + 2
  /\ UNCHANGED <<pc, toWake, lag>>

\* The set is saved and stamped with `now`.
Save ==
  /\ pc = "saving" /\ next \in Contexts /\ Due(next)
  /\ age' = [age EXCEPT ![next] = lag]
  /\ never' = never \ {next}
  /\ sleepTime' = Lesser(sleepTime, Period[next])
  /\ next' = next + 1
  /\ UNCHANGED <<pc, toWake, lag>>

\* The guard is released and the thread sleeps; a sleep for no time or for a
\* negative time returns at once.
Sleep ==
  /\ pc = "saving" /\ next = NumContexts
  /\ pc' = "asleep"
  /\ toWake' = IF sleepTime < 0 THEN 0 ELSE sleepTime
  /\ sleepTime' = 0
  /\ next' = 0
  /\ lag' = 0
  /\ UNCHANGED <<age, never>>

\* saveAllNow, on any other thread, saves and stamps every context.
SaveAllNow ==
  /\ pc # "saving"
  /\ age' = [c \in Contexts |-> 0]
  /\ never' = {}
  /\ UNCHANGED <<pc, toWake, sleepTime, next, lag>>

\* Time passes, for a sleeping thread until it is Late and for one that is
\* awake until it has been Busy.
Tick ==
  /\ \/ pc = "asleep" /\ toWake > -Late /\ toWake' = toWake - 1 /\ UNCHANGED lag
     \/ pc # "asleep" /\ lag < Busy /\ lag' = lag + 1 /\ UNCHANGED toWake
  /\ age' = [c \in Contexts |-> age[c] + 1]
  /\ UNCHANGED <<pc, sleepTime, next, never>>

Next == Wake \/ Lock \/ Skip \/ Save \/ Sleep \/ SaveAllNow \/ Tick

Spec == Init /\ [][Next]_vars

-----------------------------------------------------------------------------
TypeOK ==
  /\ pc \in {"asleep", "blocked", "saving"}
  /\ toWake \in Int /\ sleepTime \in Int
  /\ next \in 0..NumContexts
  /\ lag \in Nat
  /\ age \in [Contexts -> Nat]
  /\ never \subseteq Contexts

\* However requests for a save reset the times it goes by, the periodic thread
\* never lets a set go unsaved for more than twice its period, plus once the
\* lateness of the sleep and twice the length of a pass.  Once the period is
\* not enough: a set saved by hand just before a wake-up is looked at again
\* after 1, 2, 4, 8... units, and the last of these steps may begin just short
\* of the period.
SavedInTime ==
  \A c \in Contexts : age[c] <= 2 * Period[c] + Late + 2 * Busy

\* Why: the next wake-up comes before twice the period of every set is over,
\* and a pass leaves every set it has looked at younger than its period and
\* the next sleep no longer than that period.
TimerInv ==
  /\ toWake >= -Late /\ lag <= Busy
  /\ pc = "asleep" =>
       lag = 0 /\ \A c \in Contexts : age[c] + toWake <= 2 * Period[c] + Busy
  /\ pc # "asleep" =>
       \A c \in Contexts : Diff(c) <= 2 * Period[c] + Busy + Late
  /\ pc = "saving" => \A c \in Contexts :
       c < next => Diff(c) <= Period[c] /\ sleepTime <= Period[c]
  /\ pc # "saving" => next = 0

=============================================================================
