--------------------------- MODULE SaveTimerProofs ---------------------------
(***************************************************************************)
(* SaveTimer's bound on the age of a saved set, for any number of sets,    *)
(* any periods, and any lateness of sleeps and length of passes.           *)
(***************************************************************************)
EXTENDS SaveTimer, TLAPS

\* The state of pvSaveThreadProc and the ages of the sets stay in their types.
THEOREM TimerTypes == Spec => []TypeOK
<1>1. Init => TypeOK
  <2>1. FirstSleeps \subseteq Int
    BY TimerAssumption, SMT DEF FirstSleeps
  <2>2. QED
    BY <2>1, TimerAssumption DEF Init, TypeOK
<1>2. TypeOK /\ [Next]_vars => TypeOK'
  <2> SUFFICES ASSUME TypeOK, [Next]_vars PROVE TypeOK'
    OBVIOUS
  <2> USE TimerAssumption DEF TypeOK, Contexts
  <2>1. CASE Wake
    BY <2>1 DEF Wake
  <2>2. CASE Lock
    BY <2>2 DEF Lock
  <2>3. CASE Skip
    BY <2>3 DEF Skip, Lesser, Diff
  <2>4. CASE Save
    BY <2>4 DEF Save, Lesser
  <2>5. CASE Sleep
    BY <2>5 DEF Sleep
  <2>6. CASE SaveAllNow
    BY <2>6 DEF SaveAllNow
  <2>7. CASE Tick
    BY <2>7 DEF Tick
  <2>8. CASE UNCHANGED vars
    BY <2>8 DEF vars
  <2>9. QED
    BY <2>1, <2>2, <2>3, <2>4, <2>5, <2>6, <2>7, <2>8 DEF Next
<1>3. QED
  BY <1>1, <1>2, PTL DEF Spec

\* The first sleep is no longer than any period, and not negative.
LEMMA FirstSleepShort ==
  Init => /\ toWake \in Nat
          /\ \A c \in Contexts : toWake <= Period[c]
BY TimerAssumption, SMT DEF Init, FirstSleeps

\* One step of the thread, of another thread's save or of time keeps the bound
\* on the next wake-up, and on what a pass has done so far.
LEMMA TimerInvStep ==
  TypeOK /\ TypeOK' /\ TimerInv /\ [Next]_vars => TimerInv'
<1> SUFFICES ASSUME TypeOK, TypeOK', TimerInv, [Next]_vars PROVE TimerInv'
  OBVIOUS
<1> USE TimerAssumption DEF TypeOK, TimerInv, Diff
<1>0. \A c \in Contexts : Period[c] \in Nat /\ age[c] \in Nat /\ age'[c] \in Nat
  OBVIOUS
<1>1. CASE Wake
  BY <1>0, <1>1 DEF Wake
<1>2. CASE Lock
  BY <1>0, <1>2 DEF Lock, Contexts
<1>3. CASE Skip
  <2>1. next \notin never /\ age[next] - lag < Period[next]
    BY <1>0, <1>3 DEF Skip, Due
  <2>2. sleepTime' <= sleepTime /\ sleepTime' <= Period[next]
    BY <1>0, <1>3, <2>1 DEF Skip, Lesser
  <2>3. QED
    BY <1>0, <1>3, <2>1, <2>2 DEF Skip, Contexts
<1>4. CASE Save
  <2>1. sleepTime' <= sleepTime /\ sleepTime' <= Period[next]
    BY <1>0, <1>4 DEF Save, Lesser
  <2>2. \A c \in Contexts : age'[c] = IF c = next THEN lag ELSE age[c]
    BY <1>4 DEF Save
  <2>3. \A c \in Contexts : age'[c] - lag <= 2 * Period[c] + Busy + Late
    BY <1>0, <1>4, <2>2 DEF Save
  <2>4. \A c \in Contexts : c < next + 1 =>
          age'[c] - lag <= Period[c] /\ sleepTime' <= Period[c]
    BY <1>0, <1>4, <2>1, <2>2 DEF Save, Contexts
  <2>5. pc' = "saving" /\ lag' = lag /\ toWake' = toWake /\ next' = next + 1
    BY <1>4 DEF Save
  <2>6. QED
    BY <2>3, <2>4, <2>5
<1>5. CASE Sleep
  <2>1. \A c \in Contexts : c < next
    BY <1>5 DEF Sleep, Contexts
  <2>2. \A c \in Contexts : toWake' <= Period[c] /\ age[c] - lag <= Period[c]
    BY <1>0, <1>5, <2>1 DEF Sleep
  <2>3. QED
    BY <1>0, <1>5, <2>2 DEF Sleep
<1>6. CASE SaveAllNow
  BY <1>0, <1>6 DEF SaveAllNow
<1>7. CASE Tick
  BY <1>0, <1>7 DEF Tick
<1>8. CASE UNCHANGED vars
  BY <1>8 DEF vars
<1>9. QED
  BY <1>1, <1>2, <1>3, <1>4, <1>5, <1>6, <1>7, <1>8 DEF Next

\* Passes and sleeps keep every set on the schedule that TimerInv describes: it
\* is inductive, and the bound on ages follows from it.
THEOREM TimerInvAlways == Spec => []TimerInv
<1>1. Init => TimerInv
  BY FirstSleepShort, TimerAssumption DEF Init, TimerInv
<1>2. QED
  BY <1>1, TimerTypes, TimerInvStep, PTL DEF Spec

\* The age a set reaches between two saves is at most twice its period plus the
\* lateness of one sleep and the length of two passes.
THEOREM SavedInTimeAlways == Spec => []SavedInTime
<1>1. TypeOK /\ TimerInv => SavedInTime
  BY TimerAssumption DEF TypeOK, TimerInv, SavedInTime, Diff
<1>2. QED
  BY <1>1, TimerTypes, TimerInvAlways, PTL

=============================================================================
