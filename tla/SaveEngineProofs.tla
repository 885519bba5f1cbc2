-------------------------- MODULE SaveEngineProofs --------------------------
(***************************************************************************)
(* What holds of SaveEngine for any contexts, channels, backends, threads  *)
(* and lock sets: its types, the exclusion the context guard gives, and    *)
(* that save times never move back.                                        *)
(***************************************************************************)
EXTENDS SaveEngine, TLAPS

-----------------------------------------------------------------------------
(***************************************************************************)
(* Types.                                                                  *)
(***************************************************************************)

\* A thread inside save() saves a context that exists.
LoopInv == \A t \in Threads : pc[t] \in Saving => ctx[t] < NumContexts

TypeInv == TypeOK /\ LoopInv

LEMMA TypeInvInit == Init => TypeInv
BY ConfigAssumption, ThreadAssumption
   DEF Init, TypeInv, TypeOK, LoopInv, Threads, Requesters, Labels, Holding,
       Saving, Absent, Default, Contexts

\* What save() takes from the configuration of the context it works for.
LEMMA ConfigTypes ==
  ASSUME TypeInv, NEW t \in Threads, pc[t] \in Saving
  PROVE  /\ ctx[t] \in Contexts
         /\ Channels(t) \in Seq(PVs)
         /\ SetIOs(t) \in Seq(IOs)
BY ConfigAssumption
   DEF TypeInv, TypeOK, LoopInv, Channels, SetIOs, Contexts

\* Advancing one thread's loop position keeps a map of positions typed.
LEMMA Advance ==
  ASSUME NEW f \in [Threads -> Nat \ {0}], NEW t \in Threads
  PROVE  [f EXCEPT ![t] = @ + 1] \in [Threads -> Nat \ {0}]
<1>1. f[t] + 1 \in Nat \ {0}
  OBVIOUS
<1>2. QED
  BY <1>1

\* A thread that works for context ctx[t] may go on to the next one.
LEMMA AdvanceContext ==
  ASSUME TypeInv, NEW t \in Threads, ctx[t] < NumContexts
  PROVE  [ctx EXCEPT ![t] = @ + 1] \in [Threads -> 0..NumContexts]
<1>1. ctx[t] + 1 \in 0..NumContexts
  BY ConfigAssumption DEF TypeInv, TypeOK
<1>2. QED
  BY <1>1 DEF TypeInv, TypeOK

\* Requests, the guard and the loop over the contexts.
LEMMA TypeInvOuter ==
  ASSUME TypeInv, NEW t \in Threads,
         \/ Wake(t) \/ Lock(t) \/ SkipContext(t) \/ StartSave(t)
         \/ FinishSave(t) \/ Notify(t)
         \/ /\ t \in Requesters
            /\ Request(t) \/ Return(t)
  PROVE  TypeInv'
<1> USE ConfigAssumption
    DEF TypeInv, TypeOK, LoopInv, Labels, Holding, Saving, Goto, outside, shared, loops,
        status, display
<1>1. CASE Wake(t)
  BY <1>1 DEF Wake
<1>2. CASE t \in Requesters /\ Request(t)
  BY <1>2 DEF Request
<1>3. CASE Lock(t)
  BY <1>3 DEF Lock, Acquire
<1>6. CASE SkipContext(t)
  <2>1. ctx' \in [Threads -> 0..NumContexts]
    BY <1>6, AdvanceContext DEF SkipContext
  <2>2. pc[t] \notin Saving
    BY <1>6 DEF SkipContext
  <2>3. QED
    BY <1>6, <2>1, <2>2 DEF SkipContext
<1>7. CASE StartSave(t)
  BY <1>7 DEF StartSave
<1>8. CASE FinishSave(t)
  <2>1. ctx[t] < NumContexts
    BY <1>8 DEF FinishSave
  <2>2. ctx' \in [Threads -> 0..NumContexts]
    BY <1>8, <2>1, AdvanceContext DEF FinishSave
  <2>3. lastProc' \in [Contexts -> Nat]
    BY <1>8 DEF FinishSave
  <2>4. ios' \in [Threads -> Seq(IOs)]
    BY <1>8 DEF FinishSave
  <2>5. pc' = [pc EXCEPT ![t] = "context"]
    BY <1>8 DEF FinishSave
  <2>6. chan' \in [Threads -> Nat \ {0}] /\ slot' \in [Threads -> Nat \ {0}]
    BY <1>8 DEF FinishSave
  <2>7. ctx' = [ctx EXCEPT ![t] = @ + 1]
    BY <1>8 DEF FinishSave
  <2>8. LoopInv'
    BY <2>5, <2>7
  <2>9. UNCHANGED <<clock, value, guard, now, data, written, lastStatus,
                    s_lastStatus, display, asked>>
    BY <1>8 DEF FinishSave
  <2>10. QED
    BY <2>2, <2>3, <2>4, <2>5, <2>6, <2>8, <2>9
<1>9. CASE Notify(t)
  BY <1>9 DEF Notify, Release, ScanStatus
<1>10. CASE t \in Requesters /\ Return(t)
  BY <1>10 DEF Return
<1>11. QED
  BY <1>1, <1>2, <1>3, <1>6, <1>7, <1>8, <1>9, <1>10

\* The body of save().
LEMMA TypeInvInner ==
  ASSUME TypeInv, NEW t \in Threads,
         \/ PreRead(t) \/ PreReadDone(t) \/ BeginWrite(t) \/ BeginDone(t)
         \/ Read(t) \/ ReadDone(t) \/ WriteData(t) \/ WriteDone(t)
         \/ EndWrite(t)
  PROVE  TypeInv'
<1>c. /\ ctx[t] \in Contexts
      /\ Channels(t) \in Seq(PVs)
      /\ SetIOs(t) \in Seq(IOs)
  <2>1. pc[t] \in Saving
    BY DEF PreRead, PreReadDone, BeginWrite, BeginDone, Read, ReadDone,
           WriteData, WriteDone, EndWrite, Saving
  <2>2. QED
    BY <2>1, ConfigTypes
<1> USE ConfigAssumption
    DEF TypeInv, TypeOK, LoopInv, Labels, Holding, Saving, Goto, Failed, Succeeded,
        ReadData, outside, shared, loops, status, display
<1>1. CASE PreRead(t)
  BY <1>1, Advance DEF PreRead
<1>2. CASE PreReadDone(t)
  BY <1>2 DEF PreReadDone
<1>3. CASE BeginWrite(t)
  <2> DEFINE io == SetIOs(t)[slot[t]]
             emptied == [written EXCEPT ![io] = [p \in PVs |-> Absent]]
  <2>1. /\ io \in IOs
        /\ emptied \in [IOs -> [PVs -> Nat \union {Absent, Default}]]
    <3>1. slot[t] \in 1..Len(SetIOs(t))
      BY <1>c, <1>3 DEF BeginWrite
    <3>2. io \in IOs
      BY <1>c, <3>1
    <3>3. QED
      BY <3>2
  <2>2. written' \in {written, emptied}
    BY <1>3 DEF BeginWrite
  <2>3. ios' \in [Threads -> Seq(IOs)]
    <3>1. Append(ios[t], io) \in Seq(IOs)
      BY <2>1
    <3>2. ios' \in {ios, [ios EXCEPT ![t] = Append(@, io)]}
      BY <1>3 DEF BeginWrite
    <3> HIDE DEF io
    <3>3. QED
      BY <3>1, <3>2
  <2>4. lastStatus' \in [Contexts -> {0, 1}]
    BY <1>3 DEF BeginWrite
  <2>5. slot' \in [Threads -> Nat \ {0}]
    BY <1>3, Advance DEF BeginWrite
  <2>6. UNCHANGED <<clock, value, guard, pc, now, ctx, chan, data, lastProc,
                    s_lastStatus, display, asked>>
    BY <1>3 DEF BeginWrite
  <2>7. QED
    BY <2>1, <2>2, <2>3, <2>4, <2>5, <2>6
<1>4. CASE BeginDone(t)
  BY <1>4 DEF BeginDone
<1>5. CASE Read(t)
  <2>1. Channels(t)[chan[t]] \in PVs
    BY <1>c, <1>5 DEF Read
  <2>2. data' \in [Threads -> Nat \union {Absent, Default}]
    BY <1>5, <2>1 DEF Read
  <2>3. QED
    BY <1>5, <2>2 DEF Read
<1>6. CASE ReadDone(t)
  BY <1>6 DEF ReadDone
<1>7. CASE WriteData(t)
  <2> DEFINE io == ios[t][slot[t]]
             stored == [written EXCEPT ![io][Channels(t)[chan[t]]] = ReadData(t)]
  <2>1. io \in IOs
    BY <1>7 DEF WriteData
  <2>2. stored \in [IOs -> [PVs -> Nat \union {Absent, Default}]]
    BY <2>1
  <2>3. written' \in {written, stored}
    BY <1>7 DEF WriteData
  <2>4. lastStatus' \in [Contexts -> {0, 1}]
    BY <1>7 DEF WriteData
  <2>5. slot' \in [Threads -> Nat \ {0}]
    BY <1>7, Advance DEF WriteData
  <2>6. UNCHANGED <<clock, value, guard, pc, now, ctx, chan, ios, data, lastProc,
                    s_lastStatus, display, asked>>
    BY <1>7 DEF WriteData
  <2>7. QED
    BY <2>2, <2>3, <2>4, <2>5, <2>6
<1>8. CASE WriteDone(t)
  <2>1. chan' \in [Threads -> Nat \ {0}]
    BY <1>8, Advance DEF WriteDone
  <2>2. QED
    BY <1>8, <2>1 DEF WriteDone
<1>9. CASE EndWrite(t)
  <2>1. slot' \in [Threads -> Nat \ {0}]
    BY <1>9, Advance DEF EndWrite
  <2>2. QED
    BY <1>9, <2>1 DEF EndWrite
<1>10. QED
  BY <1>1, <1>2, <1>3, <1>4, <1>5, <1>6, <1>7, <1>8, <1>9

\* What device support stores in a status record has the type of `shown`.
LEMMA ReadingType ==
  ASSUME TypeInv, NEW r \in Scanned
  PROVE  Reading(r) \in Nat \union {Never}
<1>1. /\ shown[r] \in Nat \union {Never}
      /\ s_lastStatus \in {0, 1}
      /\ lastStatus \in [Contexts -> {0, 1}] /\ lastProc \in [Contexts -> Nat]
  BY DEF TypeInv, TypeOK, Scanned
<1>2. r \in Inps /\ r \in StatusRecs
  BY ConfigAssumption DEF Scanned
<1>3. HasDpvt(r) => MonitorSet(r) \in Int
  <2>1. HasDpvt(r) => r.number \in Int \/ r.number = NoNumber
    BY <1>2 DEF HasDpvt, Inps, saveStatus_init_record, saveStatusMbbi_init_record,
                saveStatusStr_init_record
  <2>2. QED
    BY <2>1 DEF MonitorSet
<1>4. ASSUME NEW ms \in Int PROVE LastStatus(ms) \in Nat /\ LastProcTime(ms) \in Nat
  <2>1. ms < 0 \/ ms \in Contexts \/ ~(ms < NumContexts)
    BY <1>4, ConfigAssumption DEF Contexts
  <2>2. s_lastStatus \in Nat /\ \A c \in Contexts : lastStatus[c] \in Nat /\ lastProc[c] \in Nat
    BY <1>1
  <2>3. QED
    BY <2>1, <2>2 DEF LastStatus, LastProcTime, s_lastProcTime
<1>5. CASE r.support = "longin"
  <2>1. HasDpvt(r)
    BY <1>2, <1>5, ConfigAssumption
  <2>2. Reading(r) \in {LastProcTime(MonitorSet(r)), shown[r]}
    BY <1>5 DEF Reading, saveStatus_read
  <2>3. QED
    BY <1>1, <1>3, <1>4, <2>1, <2>2
<1>6. CASE r.support = "mbbi"
  <2>1. Reading(r) = IF HasDpvt(r) THEN LastStatus(MonitorSet(r)) ELSE shown[r]
    BY <1>6 DEF Reading, saveStatusMbbi_read
  <2>2. QED
    BY <1>1, <1>3, <1>4, <2>1
<1>7. CASE r.support = "stringin"
  <2>1. HasDpvt(r)
    BY <1>7 DEF Scanned
  <2>2. Reading(r) = LastProcTime(MonitorSet(r))
    BY <1>7 DEF Reading, saveStatusStr_read
  <2>3. QED
    BY <1>3, <1>4, <2>1, <2>2
<1>8. QED
  BY <1>2, <1>5, <1>6, <1>7 DEF Inps

\* Status records, other records and time.
LEMMA TypeInvOutside ==
  ASSUME TypeInv,
         \/ \E r \in StatusRecs : ProcessStatus(r)
         \/ \E p \in PVs : ChangeValue(p)
         \/ Tick
         \/ UNCHANGED vars
  PROVE  TypeInv'
<1> USE ConfigAssumption
    DEF TypeInv, TypeOK, LoopInv, outside, shared, loops, status, display
<1>1. ASSUME NEW r \in StatusRecs, ProcessStatus(r) PROVE TypeInv'
  BY <1>1, ReadingType DEF ProcessStatus
<1>2. ASSUME NEW p \in PVs, ChangeValue(p) PROVE TypeInv'
  BY <1>2 DEF ChangeValue
<1>3. CASE Tick
  BY <1>3 DEF Tick
<1>4. CASE UNCHANGED vars
  BY <1>4 DEF vars
<1>5. QED
  BY <1>1, <1>2, <1>3, <1>4

LEMMA TypeInvStep == TypeInv /\ [Next]_vars => TypeInv'
<1> SUFFICES ASSUME TypeInv, [Next]_vars PROVE TypeInv'
  OBVIOUS
<1>1. ASSUME NEW t \in Timers, Wake(t) PROVE TypeInv'
  <2>1. t \in Threads
    BY DEF Threads
  <2>2. QED
    BY <1>1, <2>1, TypeInvOuter
<1>2. ASSUME NEW t \in Requesters, Request(t) \/ Return(t) PROVE TypeInv'
  <2>1. t \in Threads
    BY DEF Threads
  <2>2. QED
    BY <1>2, <2>1, TypeInvOuter
<1>4. ASSUME NEW t \in Threads, Lock(t) PROVE TypeInv'
  BY <1>4, TypeInvOuter
<1>5. ASSUME NEW t \in Threads, SaveStep(t) PROVE TypeInv'
  BY <1>5, TypeInvOuter, TypeInvInner DEF SaveStep
<1>6. QED
  BY <1>1, <1>2, <1>4, <1>5, TypeInvOutside DEF Next

LEMMA TypeInvAlways == Spec => []TypeInv
BY TypeInvInit, TypeInvStep, PTL DEF Spec

\* Every variable keeps its type: in particular the loops of save() stay inside
\* the contexts, channels and backends there are.
THEOREM TypeCorrect == Spec => []TypeOK
<1>1. TypeInv => TypeOK
  BY DEF TypeInv
<1>2. QED
  BY <1>1, TypeInvAlways, PTL

-----------------------------------------------------------------------------
(***************************************************************************)
(* The guard.                                                              *)
(***************************************************************************)

\* Exactly the holder of the guard is between taking and releasing it.
GuardInv == \A t \in Threads : pc[t] \in Holding <=> guard = t

\* Most steps of save() go from one place inside it to another.
Inside(t) ==
  \/ PreRead(t) \/ PreReadDone(t) \/ BeginWrite(t) \/ BeginDone(t)
  \/ Read(t) \/ ReadDone(t) \/ WriteData(t) \/ WriteDone(t) \/ EndWrite(t)

LEMMA InsideStep ==
  ASSUME TypeInv, NEW t \in Threads, Inside(t)
  PROVE  /\ pc[t] \in Saving
         /\ \E l \in Saving : pc' = [pc EXCEPT ![t] = l]
         /\ UNCHANGED <<clock, guard, now, ctx, lastProc, value, asked>>
<1> USE DEF Goto, Saving, TypeInv, TypeOK, outside, shared, loops, status
<1>1. CASE PreRead(t) \/ PreReadDone(t)
  BY <1>1 DEF PreRead, PreReadDone
<1>2. CASE BeginWrite(t) \/ BeginDone(t)
  BY <1>2 DEF BeginWrite, BeginDone
<1>3. CASE Read(t) \/ ReadDone(t)
  BY <1>3 DEF Read, ReadDone
<1>4. CASE WriteData(t) \/ WriteDone(t)
  BY <1>4 DEF WriteData, WriteDone
<1>5. CASE EndWrite(t)
  BY <1>5 DEF EndWrite
<1>6. QED
  BY <1>1, <1>2, <1>3, <1>4, <1>5 DEF Inside

\* Where a save may have backends in hand.
Transacting == {"begin", "read", "write", "end"}

\* Steps that neither move a thread nor touch the guard or a save time.
Outside ==
  \/ \E r \in StatusRecs : ProcessStatus(r)
  \/ \E p \in PVs : ChangeValue(p)
  \/ Tick
  \/ UNCHANGED vars

LEMMA OutsideStep ==
  ASSUME TypeInv, Outside
  PROVE  /\ UNCHANGED <<pc, guard, now, ctx, lastProc>>
         /\ clock' \in Nat /\ clock' >= clock
BY DEF Outside, ProcessStatus, ChangeValue, Tick, vars, outside, shared, loops,
       status, TypeInv, TypeOK

LEMMA GuardInvStep == TypeInv /\ GuardInv /\ [Next]_vars => GuardInv'
<1> SUFFICES ASSUME TypeInv, GuardInv, [Next]_vars PROVE GuardInv'
  OBVIOUS
<1>0. /\ pc \in [Threads -> Labels] /\ Free \notin Threads
      /\ guard \in Threads \union {Free}
  BY ThreadAssumption DEF TypeInv, TypeOK
<1> USE DEF GuardInv, Holding, Saving, Labels, Goto, outside, shared, loops, status
<1>1. ASSUME NEW t \in Threads, Wake(t) \/ Request(t) \/ Return(t)
      PROVE  GuardInv'
  BY <1>0, <1>1 DEF Wake, Request, Return
<1>2. ASSUME NEW t \in Threads, Lock(t) PROVE GuardInv'
  BY <1>0, <1>2 DEF Lock, Acquire
<1>3. ASSUME NEW t \in Threads, SkipContext(t) \/ StartSave(t) \/ FinishSave(t)
      PROVE  GuardInv'
  BY <1>0, <1>3 DEF SkipContext, StartSave, FinishSave
<1>4. ASSUME NEW t \in Threads, Inside(t) PROVE GuardInv'
  BY <1>0, <1>4, InsideStep
<1>5. ASSUME NEW t \in Threads, Notify(t) PROVE GuardInv'
  BY <1>0, <1>5, ThreadAssumption DEF Notify, Release
<1>6. CASE Outside
  BY <1>6, OutsideStep
<1>7. QED
  BY <1>1, <1>2, <1>3, <1>4, <1>5, <1>6
     DEF Next, SaveStep, Inside, Outside, Threads, Requesters

LEMMA GuardInvAlways == Spec => []GuardInv
<1>1. Init => GuardInv
  BY ThreadAssumption DEF Init, GuardInv, Holding, Saving
<1>2. QED
  BY <1>1, GuardInvStep, TypeInvAlways, PTL DEF Spec

-----------------------------------------------------------------------------
(***************************************************************************)
(* Save times.                                                             *)
(***************************************************************************)

\* No time is in the future.  saveAllNow reads the clock under the guard, so its
\* `now` is not before any stamp; the periodic thread may hold an older `now`
\* but saves only a context that its `now` says is due.
TimeInv ==
  /\ \A t \in Threads : now[t] <= clock
  /\ \A c \in Contexts : lastProc[c] <= clock
  /\ \A t \in Requesters : pc[t] \in Holding =>
       \A c \in Contexts : lastProc[c] <= now[t]
  /\ \A t \in Timers : pc[t] \in Saving => lastProc[ctx[t]] <= now[t]

LEMMA TimeInvInit == Init => TimeInv
BY ConfigAssumption DEF Init, TimeInv, Holding, Saving, Contexts, Threads

LEMMA TimeInvStep == TypeInv /\ GuardInv /\ TimeInv /\ [Next]_vars => TimeInv'
<1> SUFFICES ASSUME TypeInv, GuardInv, TimeInv, [Next]_vars PROVE TimeInv'
  OBVIOUS
<1>0. /\ pc \in [Threads -> Labels] /\ now \in [Threads -> Nat]
      /\ clock \in Nat /\ lastProc \in [Contexts -> Nat]
      /\ ctx \in [Threads -> 0..NumContexts]
  BY DEF TypeInv, TypeOK
<1>t. \A t \in Timers \union Requesters : t \in Threads
  BY DEF Threads
<1> USE DEF TimeInv, Holding, Saving, Goto, outside, shared, loops, status
<1>1. ASSUME NEW t \in Timers, Wake(t) PROVE TimeInv'
  BY <1>0, <1>t, <1>1, ThreadAssumption DEF Wake
<1>2. ASSUME NEW t \in Requesters, Request(t) \/ Return(t)
      PROVE  TimeInv'
  BY <1>0, <1>t, <1>2, ThreadAssumption DEF Request, Return
<1>3. ASSUME NEW t \in Threads, Lock(t) PROVE TimeInv'
  BY <1>0, <1>t, <1>3, ThreadAssumption DEF Lock
<1>5. ASSUME NEW t \in Threads, SkipContext(t) PROVE TimeInv'
  BY <1>0, <1>t, <1>5, ThreadAssumption DEF SkipContext
<1>6. ASSUME NEW t \in Threads, StartSave(t) PROVE TimeInv'
  <2>1. ctx[t] \in Contexts /\ (t \in Timers => lastProc[ctx[t]] <= now[t])
    BY <1>0, <1>6, ConfigAssumption DEF StartSave, MustSave, Due, Contexts
  <2>2. QED
    BY <1>0, <1>t, <1>6, <2>1 DEF StartSave
<1>7. ASSUME NEW t \in Threads, Inside(t) PROVE TimeInv'
  BY <1>0, <1>t, <1>7, InsideStep
<1>8. ASSUME NEW t \in Threads, FinishSave(t) PROVE TimeInv'
  <2>1. \A u \in Threads : pc[u] \in Holding => u = t
    BY <1>8 DEF FinishSave, GuardInv
  <2>2. /\ lastProc' = [lastProc EXCEPT ![ctx[t]] = now[t]]
        /\ pc' = [pc EXCEPT ![t] = "context"]
        /\ UNCHANGED <<clock, now>>
    BY <1>8 DEF FinishSave
  <2>3. \A c \in Contexts : lastProc'[c] \in {lastProc[c], now[t]}
    BY <1>0, <2>2
  <2>4. \A u \in Timers : pc'[u] \notin Saving
    BY <1>0, <1>t, <2>1, <2>2
  <2>5. \A u \in Requesters : pc'[u] \in Holding => u = t /\ pc[t] \in Holding
    BY <1>0, <1>t, <1>8, <2>1, <2>2 DEF FinishSave
  <2>6. QED
    BY <1>0, <1>t, <2>2, <2>3, <2>4, <2>5
<1>9. ASSUME NEW t \in Threads, Notify(t) PROVE TimeInv'
  BY <1>0, <1>t, <1>9 DEF Notify
<1>10. CASE Outside
  BY <1>0, <1>t, <1>10, OutsideStep
<1>11. QED
  BY <1>1, <1>2, <1>3, <1>5, <1>6, <1>7, <1>8, <1>9, <1>10
     DEF Next, SaveStep, Inside, Outside, Threads, Requesters

\* Whatever threads save, and however long the periodic thread waits for the
\* guard with the clock reading it already has, no context's save time is ever
\* replaced by an earlier one.
THEOREM SaveTimesMonotone == Spec => LastProcMonotone
<1>1. TypeInv /\ TimeInv /\ [Next]_vars =>
        [\A c \in Contexts : lastProc'[c] >= lastProc[c]]_lastProc
  <2> SUFFICES ASSUME TypeInv, TimeInv, [Next]_vars
               PROVE  \A c \in Contexts : lastProc'[c] >= lastProc[c]
    OBVIOUS
  <2>0. lastProc \in [Contexts -> Nat] /\ now \in [Threads -> Nat]
    BY DEF TypeInv, TypeOK
  <2>1. ASSUME NEW t \in Threads, FinishSave(t)
        PROVE  \A c \in Contexts : lastProc'[c] >= lastProc[c]
    <3>1. ctx[t] \in Contexts /\ lastProc[ctx[t]] <= now[t]
      BY <2>1, ConfigTypes DEF FinishSave, TimeInv, Holding, Saving, Threads
    <3>2. QED
      BY <2>0, <2>1, <3>1 DEF FinishSave
  <2>2. CASE UNCHANGED lastProc
    BY <2>0, <2>2
  <2>3. ASSUME NEW t \in Threads, Inside(t) PROVE UNCHANGED lastProc
    BY <2>3, InsideStep
  <2>4. ASSUME NEW t \in Threads,
               \/ Wake(t) \/ Request(t) \/ Lock(t)
               \/ SkipContext(t) \/ StartSave(t) \/ Notify(t) \/ Return(t)
        PROVE  UNCHANGED lastProc
    BY <2>4 DEF Wake, Request, Lock, SkipContext, StartSave, Notify, Return, shared,
                status
  <2>5. CASE Outside
    BY <2>0, <2>5, OutsideStep
  <2>6. QED
    BY <2>1, <2>2, <2>3, <2>4, <2>5, OutsideStep
       DEF Next, SaveStep, Inside, Outside, Threads, Requesters
<1>2. QED
  BY <1>1, TimeInvInit, TimeInvStep, TypeInvAlways, GuardInvAlways, PTL
     DEF Spec, LastProcMonotone


-----------------------------------------------------------------------------
(***************************************************************************)
(* Status records.                                                         *)
(***************************************************************************)

\* Of every record that is scanned: what it shows is what it would read now.  Of a
\* longin record that shows the status this says nothing, of others of all sets
\* that the constants they show are constant.
StatusInv ==
  \A r \in Scanned : (guard = Free /\ r \notin scanPending) =>
    \/ shown[r] = Reading(r)
    \/ shown[r] = Never /\ \A c \in Contexts : lastProc[c] = 0

\* What a record reads changes only with the status, or with the record.
LEMMA ReadingStill ==
  ASSUME NEW r \in StatusRecs, UNCHANGED status
  PROVE  /\ shown'[r] = shown[r] => Reading(r)' = Reading(r)
         /\ shown'[r] = Reading(r) => shown'[r] = Reading(r)'
<1>1. /\ LastStatus(MonitorSet(r))' = LastStatus(MonitorSet(r))
      /\ LastProcTime(MonitorSet(r))' = LastProcTime(MonitorSet(r))
  BY DEF LastStatus, LastProcTime, MonitorSet, s_lastProcTime, status
<1>2. r.support \in {"longin", "mbbi", "stringin"}
  BY ConfigAssumption DEF Inps
<1>3. CASE r.support = "longin"
  BY <1>1, <1>3 DEF Reading, saveStatus_read
<1>4. CASE r.support = "mbbi"
  BY <1>1, <1>4 DEF Reading, saveStatusMbbi_read
<1>5. CASE r.support = "stringin"
  BY <1>1, <1>5 DEF Reading, saveStatusStr_read
<1>6. QED
  BY <1>2, <1>3, <1>4, <1>5

LEMMA StatusStep ==
  ASSUME TypeInv, GuardInv, StatusInv, [Next]_vars
  PROVE  StatusInv'
<1> DEFINE Current(r) == \/ shown[r] = Reading(r)
                         \/ shown[r] = Never /\ \A c \in Contexts : lastProc[c] = 0
<1>1. SUFFICES ASSUME NEW r \in Scanned, guard' = Free, r \notin scanPending'
               PROVE  Current(r)'
  BY DEF StatusInv, Scanned
<1>2. r \in StatusRecs
  BY DEF Scanned
<1>3. ASSUME UNCHANGED <<guard, status, display>> PROVE Current(r)'
  <2>1. Current(r) /\ UNCHANGED <<shown, lastProc>>
    BY <1>1, <1>3 DEF StatusInv, display, status
  <2>2. QED
    BY <1>2, <1>3, <2>1, ReadingStill
<1>4. ASSUME NEW t \in Threads, pc[t] \in Holding, guard' = guard PROVE FALSE
  BY <1>1, <1>4, ThreadAssumption DEF GuardInv
<1>5. ASSUME NEW t \in Threads, Wake(t) \/ Request(t) \/ Return(t) PROVE Current(r)'
  BY <1>3, <1>5 DEF Wake, Request, Return, shared
<1>6. ASSUME NEW t \in Threads, Lock(t) PROVE Current(r)'
  BY <1>1, <1>6, ThreadAssumption DEF Lock, Acquire
<1>7. ASSUME NEW t \in Threads, SkipContext(t) \/ StartSave(t) \/ FinishSave(t)
      PROVE  Current(r)'
  <2>1. pc[t] \in Holding /\ guard' = guard
    BY <1>7 DEF SkipContext, StartSave, FinishSave, Holding, Saving, shared
  <2>2. QED
    BY <1>4, <2>1
<1>8. ASSUME NEW t \in Threads, Inside(t) PROVE Current(r)'
  <2>1. pc[t] \in Holding /\ guard' = guard
    BY <1>8, InsideStep DEF Holding
  <2>2. QED
    BY <1>4, <2>1
<1>9. ASSUME NEW t \in Threads, Notify(t) PROVE Current(r)'
  BY <1>1, <1>9 DEF Notify, ScanStatus
<1>10. ASSUME NEW q \in StatusRecs, ProcessStatus(q) PROVE Current(r)'
  <2>1. UNCHANGED status /\ guard = Free /\ lastProc' = lastProc
    BY <1>1, <1>10 DEF ProcessStatus, status
  <2>2. shown \in [StatusRecs -> Nat \union {Never}]
    BY DEF TypeInv, TypeOK
  <2>3. CASE q = r
    <3>1. shown'[r] = Reading(r)
      BY <1>2, <1>10, <2>2, <2>3 DEF ProcessStatus
    <3>2. QED
      BY <1>2, <2>1, <3>1, ReadingStill
  <2>4. CASE q # r
    <3>1. shown'[r] = shown[r] /\ r \notin scanPending
      BY <1>1, <1>2, <1>10, <2>2, <2>4 DEF ProcessStatus
    <3>2. Current(r)
      BY <2>1, <3>1 DEF StatusInv
    <3>3. QED
      BY <1>2, <2>1, <3>1, <3>2, ReadingStill
  <2>5. QED
    BY <2>3, <2>4
<1>11. ASSUME (\E p \in PVs : ChangeValue(p)) \/ Tick \/ UNCHANGED vars PROVE Current(r)'
  BY <1>3, <1>11 DEF ChangeValue, Tick, vars, shared
<1>12. QED
  BY <1>5, <1>6, <1>7, <1>8, <1>9, <1>10, <1>11
     DEF Next, SaveStep, Inside, Threads, Requesters

\* However many saves run, and whenever status records are processed, the record of
\* a set whose queued processing is over shows the present status or save time while no
\* save runs: Notify queues it before it gives the guard back, and nothing changes
\* a status outside the guard.
THEOREM StatusRecordsCurrent == Spec => []StatusRecordCurrent
<1>1. Init => StatusInv
  <2>1. SUFFICES ASSUME Init, NEW r \in Scanned
                 PROVE  \/ shown[r] = Reading(r)
                        \/ shown[r] = Never /\ \A c \in Contexts : lastProc[c] = 0
    BY DEF StatusInv
  <2>2. r \in StatusRecs /\ r \in Inps
    BY ConfigAssumption DEF Scanned
  <2>3. \A c \in Contexts : lastProc[c] = 0 /\ lastStatus[c] = 0
    BY <2>1 DEF Init
  <2>4. CASE r.support = "stringin"
    BY <2>1, <2>2, <2>3, <2>4 DEF Init, Scanned
  <2>5. CASE r.support # "stringin"
    <3>1. shown[r] = 0
      BY <2>1, <2>2, <2>5 DEF Init
    <3>2. HasDpvt(r) => MonitorSet(r) \in Int
      BY <2>2 DEF HasDpvt, Inps, MonitorSet, saveStatus_init_record,
                  saveStatusMbbi_init_record, saveStatusStr_init_record
    <3>3. ASSUME NEW ms \in Int PROVE LastStatus(ms) = 0 /\ LastProcTime(ms) = 0
      <4>1. ms < 0 \/ ms \in Contexts \/ ~(ms < NumContexts)
        BY ConfigAssumption DEF Contexts
      <4>2. QED
        BY <2>1, <2>3, <4>1 DEF Init, LastStatus, LastProcTime, s_lastProcTime
    <3>4. r.support = "longin" => HasDpvt(r)
      BY <2>2, ConfigAssumption
    <3>5. QED
      BY <2>2, <2>5, <3>1, <3>2, <3>3, <3>4
         DEF Reading, saveStatus_read, saveStatusMbbi_read, Inps
  <2>6. QED
    BY <2>4, <2>5
<1>2. StatusInv => StatusRecordCurrent
  <2>1. SUFFICES ASSUME StatusInv, NEW r \in OfOneSet, guard = Free, r \notin scanPending
                 PROVE  \/ ShowsSet(r)
                        \/ shown[r] = Never /\ \A c \in Contexts : lastProc[c] = 0
    BY DEF StatusRecordCurrent
  <2>2. /\ r \in Scanned /\ r \in StatusRecs
        /\ HasDpvt(r) /\ r.support # "longin"
        /\ MonitorSet(r) \in Contexts
    BY DEF OfOneSet, Scanned
  <2>3. \/ shown[r] = Reading(r)
        \/ shown[r] = Never /\ \A c \in Contexts : lastProc[c] = 0
    BY <2>1, <2>2 DEF StatusInv
  <2>4. /\ LastStatus(MonitorSet(r)) = lastStatus[MonitorSet(r)]
        /\ LastProcTime(MonitorSet(r)) = lastProc[MonitorSet(r)]
    BY <2>2, ConfigAssumption DEF Contexts, LastStatus, LastProcTime
  <2>5. r.support \in {"mbbi", "stringin"}
    BY <2>2, ConfigAssumption DEF Inps
  <2>6. CASE r.support = "mbbi"
    <3>1. Reading(r) = lastStatus[MonitorSet(r)]
      BY <2>2, <2>4, <2>6 DEF Reading, saveStatusMbbi_read
    <3>2. QED
      BY <2>3, <2>6, <3>1 DEF ShowsSet
  <2>7. CASE r.support = "stringin"
    <3>1. Reading(r) = lastProc[MonitorSet(r)]
      BY <2>4, <2>7 DEF Reading, saveStatusStr_read
    <3>2. QED
      BY <2>3, <2>7, <3>1 DEF ShowsSet
  <2>8. QED
    BY <2>5, <2>6, <2>7
<1>3. QED
  BY <1>1, <1>2, StatusStep, TypeInvAlways, GuardInvAlways, PTL DEF Spec

=============================================================================
