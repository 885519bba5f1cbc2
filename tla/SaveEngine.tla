------------------------------ MODULE SaveEngine ------------------------------
(***************************************************************************)
(* The save side of pvSave: SaveContext::save, its two callers             *)
(* (pvSaveThreadProc and saveAllNow), the context guard they share, the    *)
(* scan locks a save takes to read records, and the status that device     *)
(* support reads without the guard.                                        *)
(*                                                                         *)
(* One step is one call on an I/O backend, one call on the data source, or *)
(* one access to state another thread can see.  The locals of a running    *)
(* save() are kept per thread, so that nothing but the guard keeps two     *)
(* saves apart.                                                            *)
(***************************************************************************)
EXTENDS Integers, Sequences, Functions

CONSTANTS
  NumContexts,    \* SaveContext::saveContexts.size()
  PVs,            \* records that channels are connected to
  Unreadable,     \* those of them whose dbGetField may fail
  IOs,            \* I/O backend instances
  WriteIOs,       \* the backends whose flags() include Write
  ChannelsOf,     \* ChannelsOf[c]: channels_ of context c, in order
  IOsOf,          \* IOsOf[c]: io vector of the monitor set of context c
  Period,         \* Period[c]: period of the monitor set of context c
  Timers,         \* threads running pvSaveThreadProc
  RecordThreads,  \* threads that process a saveControl record
  ShellThreads,   \* threads that run the iocsh command pvSave_Save
  RecordLock,     \* RecordLock[t]: lock set of the record thread t processes
  PVLock,         \* PVLock[p]: lock set of the record of channel p
  StatusRecs,     \* "I/O Intr" status records, by their device support and INP
  NoNumber,       \* an INP that ends after its word
  NotANumber,     \* an INP that goes on with something else than a number
  Boot,           \* clock reading when the IOC starts to run
  MaxClock,       \* bound: last clock reading explored
  MaxVersion,     \* bound: how often the value of a record may change
  Free            \* the guard's holder when nobody holds it

Requesters == RecordThreads \union ShellThreads
Threads == Timers \union Requesters
Contexts == 0..(NumContexts - 1)

\* A record's value is the number of times it has changed.  Absent stands for
\* "the backend was not handed this channel since its last beginWrite", Default
\* for the default-constructed value of the record's type.
Absent == -1
Default == -2

\* The word and the number of the INP of a status record.
Inps == [support : {"longin", "mbbi", "stringin"},
         word : {"status", "lastSaved", "saveStatus"},
         number : Int \union {NoNumber, NotANumber}]

\* What init_record of the three kinds of status records accepts.  Where it
\* fails, the record has no dpvt.
saveStatus_init_record(r) ==
  \/ r.word = "status" /\ r.number # NotANumber
  \/ r.word = "lastSaved" /\ r.number = NoNumber
saveStatusMbbi_init_record(r) == r.word = "saveStatus" /\ r.number # NotANumber
saveStatusStr_init_record(r) == r.word = "lastSaved" /\ r.number # NotANumber

HasDpvt(r) ==
  \/ r.support = "longin" /\ saveStatus_init_record(r)
  \/ r.support = "mbbi" /\ saveStatusMbbi_init_record(r)
  \/ r.support = "stringin" /\ saveStatusStr_init_record(r)

\* The monitor set of the record; -1, unless INP has a number, stands for all.
MonitorSet(r) == IF r.number = NoNumber THEN -1 ELSE r.number

\* get_ioint_info: only stringin keeps a record without dpvt off the scan list.
Scanned == {r \in StatusRecs : r.support = "stringin" => HasDpvt(r)}

ASSUME ConfigAssumption ==
  /\ NumContexts \in Nat
  /\ ChannelsOf \in [Contexts -> Seq(PVs)]
  /\ IOsOf \in [Contexts -> Seq(IOs)]
  /\ WriteIOs \subseteq IOs
  /\ Unreadable \subseteq PVs
  /\ Period \in [Contexts -> Nat]
  /\ StatusRecs \subseteq Inps
  /\ NoNumber \notin Int /\ NotANumber \notin Int \union {NoNumber}
  /\ \A r \in StatusRecs : r.support = "longin" => HasDpvt(r)  \* read would follow null
  /\ Boot \in Nat \ {0} /\ MaxClock \in Nat /\ MaxVersion \in Nat

ASSUME ThreadAssumption ==
  /\ Timers \intersect Requesters = {}
  /\ RecordThreads \intersect ShellThreads = {}
  /\ Free \notin Threads

VARIABLES
  clock,         \* what epicsTimeGetCurrent returns
  value,         \* value[p]: the record's present value
  guard,         \* holder of contextGuard()
  pc,            \* where each thread is
  now,           \* local `now` of pvSaveThreadProc and saveAllNow
  ctx,           \* loop position in saveContexts
  chan,          \* loop position in channels_
  slot,          \* loop position in the io vector, then in ios
  ios,           \* local `ios` of save(): backends whose beginWrite succeeded
  data,          \* local `data` of save(): the value read last, else Absent
  written,       \* written[io][p]: value handed to io for p in its last transaction
  lastStatus,    \* lastStatus_ of each context
  lastProc,      \* lastProc_ of each context; 0 is "never"
  s_lastStatus,  \* the file-level status
  scanPending,   \* status records the last scanIoRequest has still to process
  shown,         \* shown[r]: what the device support last stored in record r
  asked          \* history: record values when a requester asked for a save

outside == <<clock, value>>
status == <<lastStatus, lastProc, s_lastStatus>>
display == <<scanPending, shown>>
shared == <<guard, written, status, display>>
loops == <<ctx, chan, slot, ios, data>>
vars == <<outside, shared, pc, now, loops, asked>>

\* The global save time: no code assigns it.
s_lastProcTime == 0

\* What a "lastSaved" stringin record shows before it is first processed.
Never == -1

Goto(t, label) == pc' = [pc EXCEPT ![t] = label]

\* The thread is inside save(), working for context ctx[t].
Saving == {"preread", "begin", "read", "write", "end"}
\* The thread is between taking and releasing the guard.
Holding == Saving \union {"context"}
Labels == Holding \union {"idle", "lock", "return"}

Init ==
  /\ clock = Boot
  /\ value = [p \in PVs |-> 0]
  /\ guard = Free
  /\ pc = [t \in Threads |-> "idle"]
  /\ now = [t \in Threads |-> 0]
  /\ ctx = [t \in Threads |-> 0]
  /\ chan = [t \in Threads |-> 1]
  /\ slot = [t \in Threads |-> 1]
  /\ ios = [t \in Threads |-> <<>>]
  /\ data = [t \in Threads |-> Absent]
  /\ written = [io \in IOs |-> [p \in PVs |-> Absent]]
  /\ lastStatus = [c \in Contexts |-> 0]
  /\ lastProc = [c \in Contexts |-> 0]
  /\ s_lastStatus = 0
  /\ scanPending = {}
  /\ shown = [r \in StatusRecs |->
                IF r.support = "stringin" /\ HasDpvt(r) THEN Never ELSE 0]
  /\ asked = [t \in Requesters |-> value]
-----------------------------------------------------------------------------
(***************************************************************************)
(* Scan locks.  A thread that processes a saveControl record holds the     *)
(* lock set of that record until the record's processing is over, the      *)
(* whole of saveAllNow included.  dbScanLock is recursive.                 *)
(***************************************************************************)
HoldsScanLock(t, lockSet) ==
  t \in RecordThreads /\ pc[t] # "idle" /\ RecordLock[t] = lockSet

CanScanLock(t, lockSet) ==
  \A u \in Threads \ {t} : ~HoldsScanLock(u, lockSet)

-----------------------------------------------------------------------------
(***************************************************************************)
(* Requests for a save, and the guard.                                     *)
(***************************************************************************)

\* pvSaveThreadProc returns from epicsThreadSleep and reads the clock, before
\* it takes the guard.  How long it sleeps is module SaveTimer's subject.
Wake(t) ==
  /\ pc[t] = "idle"
  /\ now' = [now EXCEPT ![t] = clock]
  /\ Goto(t, "lock")
  /\ UNCHANGED <<outside, shared, loops, asked>>

\* saveAllNow is called: by the shell command pvSave_Save, or by
\* saveControl_write from the processing of a record, under its scan lock.
Request(t) ==
  /\ pc[t] = "idle"
  /\ t \in RecordThreads => CanScanLock(t, RecordLock[t])
  /\ asked' = [asked EXCEPT ![t] = value]
  /\ Goto(t, "lock")
  /\ UNCHANGED <<outside, shared, now, loops>>

Unguarded(t) == guard' = t  \* mutant: the guard is forgotten
Acquire(t) == guard = Free /\ guard' = t

KeepGuard(t) == guard' = IF t \in Timers THEN t ELSE Free  \* mutant
Release(t) == guard' = Free

\* Under the guard saveAllNow reads the clock; pvSaveThreadProc has done so
\* before, and its `now` may be old.
Lock(t) ==
  /\ pc[t] = "lock" /\ Acquire(t)
  /\ now' = [now EXCEPT ![t] = IF t \in Timers THEN @ ELSE clock]
  /\ s_lastStatus' = 0
  /\ Goto(t, "context")
  /\ UNCHANGED <<outside, written, lastStatus, lastProc, display, loops, asked>>

-----------------------------------------------------------------------------
(***************************************************************************)
(* The loop over saveContexts, and save() for one context.                 *)
(***************************************************************************)

\* saveAllNow saves every context, pvSaveThreadProc those whose period is over.
Due(t) == now[t] - lastProc[ctx[t]] >= Period[ctx[t]]
AlwaysSave(t) == TRUE     \* mutant: the periodic thread saves them all too
SaveOnlyDue(t) == Due(t)  \* mutant: saveAllNow leaves out recent ones too
MustSave(t) == t \in Timers => Due(t)

SkipContext(t) ==
  /\ pc[t] = "context" /\ ctx[t] < NumContexts /\ ~MustSave(t)
  /\ ctx' = [ctx EXCEPT ![t] = @ + 1]
  /\ UNCHANGED <<outside, shared, pc, now, chan, slot, ios, data, asked>>

\* save() is entered: the context's status is cleared first.
StartSave(t) ==
  /\ pc[t] = "context" /\ ctx[t] < NumContexts /\ MustSave(t)
  /\ lastStatus' = [lastStatus EXCEPT ![ctx[t]] = 0]
  /\ Goto(t, "preread")
  /\ UNCHANGED <<outside, guard, written, lastProc, s_lastStatus, display, now,
                 loops, asked>>

Channels(t) == ChannelsOf[ctx[t]]
SetIOs(t) == IOsOf[ctx[t]]

\* The first loop of save() reads every channel, under its scan lock, into a
\* vector nothing uses.
PreRead(t) ==
  /\ pc[t] = "preread" /\ chan[t] <= Len(Channels(t))
  /\ CanScanLock(t, PVLock[Channels(t)[chan[t]]])
  /\ chan' = [chan EXCEPT ![t] = @ + 1]
  /\ UNCHANGED <<outside, shared, pc, now, ctx, slot, ios, data, asked>>

PreReadDone(t) ==
  /\ pc[t] = "preread" /\ chan[t] > Len(Channels(t))
  /\ chan' = [chan EXCEPT ![t] = 1]
  /\ Goto(t, "begin")
  /\ UNCHANGED <<outside, shared, now, ctx, slot, ios, data, asked>>

\* What a call on a backend does to the status of the context.
CountFailure(t) == lastStatus' = [lastStatus EXCEPT ![ctx[t]] = @ + 1]  \* mutant
Failed(t) == lastStatus' = [lastStatus EXCEPT ![ctx[t]] = 1]

LastResult(t) == lastStatus' = [lastStatus EXCEPT ![ctx[t]] = 0]  \* mutant
Succeeded(t) == UNCHANGED lastStatus

\* io->beginWrite() opens a transaction that replaces the one before.  A
\* backend where it fails, maybe after the old content is gone (fileSystemIO
\* truncates first), takes no part in this save.
BeginWrite(t) ==
  LET io == SetIOs(t)[slot[t]]
      emptied == [written EXCEPT ![io] = [p \in PVs |-> Absent]]
  IN
  /\ pc[t] = "begin" /\ slot[t] <= Len(SetIOs(t))
  /\ slot' = [slot EXCEPT ![t] = @ + 1]
  /\ \/ io \notin WriteIOs /\ UNCHANGED <<written, ios, lastStatus>>
     \/ /\ io \in WriteIOs /\ written' = emptied /\ Succeeded(t)
        /\ ios' = [ios EXCEPT ![t] = Append(@, io)]
     \/ /\ io \in WriteIOs /\ written' \in {written, emptied} /\ Failed(t)
        /\ UNCHANGED ios
  /\ UNCHANGED <<outside, guard, pc, now, ctx, chan, data, lastProc,
                 s_lastStatus, display, asked>>

BeginDone(t) ==
  /\ pc[t] = "begin" /\ slot[t] > Len(SetIOs(t))
  /\ slot' = [slot EXCEPT ![t] = 1]
  /\ Goto(t, "read")
  /\ UNCHANGED <<outside, shared, now, ctx, chan, ios, data, asked>>

\* The channel is read once, under its scan lock, for all backends.  A read
\* that fails leaves the default value, and nobody is told.
Read(t) ==
  /\ pc[t] = "read" /\ chan[t] <= Len(Channels(t))
  /\ LET p == Channels(t)[chan[t]] IN
     /\ CanScanLock(t, PVLock[p])
     /\ \/ data' = [data EXCEPT ![t] = value[p]]
        \/ p \in Unreadable /\ data' = [data EXCEPT ![t] = Default]
  /\ Goto(t, "write")
  /\ UNCHANGED <<outside, shared, now, ctx, chan, slot, ios, asked>>

\* Mutant: save() returns at once if something has failed, without endWrite.
EarlyReturn(t) ==
  /\ pc[t] = "read" /\ chan[t] > Len(Channels(t))
  /\ IF lastStatus[ctx[t]] = 0 THEN Goto(t, "end") /\ UNCHANGED <<ctx, chan>>
     ELSE /\ Goto(t, "context")
          /\ ctx' = [ctx EXCEPT ![t] = @ + 1] /\ chan' = [chan EXCEPT ![t] = 1]
  /\ UNCHANGED <<outside, shared, now, slot, ios, data, asked>>

ReadDone(t) ==
  /\ pc[t] = "read" /\ chan[t] > Len(Channels(t))
  /\ Goto(t, "end")
  /\ UNCHANGED <<outside, shared, now, loops, asked>>

\* What writeData is given for the channel; mutant: read again for each backend.
RereadData(t) == value[Channels(t)[chan[t]]]
ReadData(t) == data[t]

\* io->writeData() for one backend.  A failure sets the status and the loop
\* goes on with the other backends and channels.
WriteData(t) ==
  LET stored == [written EXCEPT
                   ![ios[t][slot[t]]][Channels(t)[chan[t]]] = ReadData(t)]
  IN
  /\ pc[t] = "write" /\ slot[t] <= Len(ios[t])
  /\ slot' = [slot EXCEPT ![t] = @ + 1]
  /\ \/ written' = stored /\ Succeeded(t)
     \/ written' \in {written, stored} /\ Failed(t)
  /\ UNCHANGED <<outside, guard, pc, now, ctx, chan, ios, data, lastProc,
                 s_lastStatus, display, asked>>

WriteDone(t) ==
  /\ pc[t] = "write" /\ slot[t] > Len(ios[t])
  /\ slot' = [slot EXCEPT ![t] = 1]
  /\ chan' = [chan EXCEPT ![t] = @ + 1]
  /\ data' = [data EXCEPT ![t] = Absent]
  /\ Goto(t, "read")
  /\ UNCHANGED <<outside, shared, now, ctx, ios, asked>>

\* io->endWrite() for one backend that was begun.
EndWrite(t) ==
  /\ pc[t] = "end" /\ slot[t] <= Len(ios[t])
  /\ slot' = [slot EXCEPT ![t] = @ + 1]
  /\ Succeeded(t) \/ Failed(t)
  /\ UNCHANGED <<outside, guard, written, pc, now, ctx, chan, ios, data, lastProc,
                 s_lastStatus, display, asked>>

\* save() returns, always true, so no caller ever sets s_lastStatus to 1; the
\* caller stamps the context with its `now` and goes to the next one.
FinishSave(t) ==
  /\ pc[t] = "end" /\ slot[t] > Len(ios[t])
  /\ lastProc' = [lastProc EXCEPT ![ctx[t]] = now[t]]
  /\ ctx' = [ctx EXCEPT ![t] = @ + 1]
  /\ chan' = [chan EXCEPT ![t] = 1]
  /\ slot' = [slot EXCEPT ![t] = 1]
  /\ ios' = [ios EXCEPT ![t] = <<>>]
  /\ Goto(t, "context")
  /\ UNCHANGED <<outside, guard, written, lastStatus, s_lastStatus, display, now,
                 data, asked>>

\* Mutant: saveAllNow does not have the status records processed.
ScanForTimers(t) == scanPending' = IF t \in Timers THEN Scanned ELSE scanPending
ScanStatus(t) == scanPending' = Scanned

\* After the last context: scanIoRequest(), then the guard's destructor.
Notify(t) ==
  /\ pc[t] = "context" /\ ctx[t] = NumContexts
  /\ ScanStatus(t)
  /\ Release(t)
  /\ ctx' = [ctx EXCEPT ![t] = 0]
  /\ now' = [now EXCEPT ![t] = 0]
  /\ Goto(t, IF t \in Timers THEN "idle" ELSE "return")
  /\ UNCHANGED <<outside, written, status, shown, chan, slot, ios, data, asked>>

\* saveAllNow has returned; a record thread ends its processing and gives its
\* lock set back.
Return(t) ==
  /\ pc[t] = "return"
  /\ asked' = [asked EXCEPT ![t] = [p \in PVs |-> 0]]
  /\ Goto(t, "idle")
  /\ UNCHANGED <<outside, shared, now, loops>>

-----------------------------------------------------------------------------
(***************************************************************************)
(* Outside the saving threads.                                             *)
(***************************************************************************)

\* lastStatus(ms); a negative ms asks for the file-level variable.
LastStatus(ms) ==
  IF ms < 0 THEN s_lastStatus
  ELSE IF ms < NumContexts THEN lastStatus[ms] ELSE 0

\* lastProcTime(ms), likewise; a set there is not has the time 0 as well.
LastProcTime(ms) ==
  IF ms < 0 THEN s_lastProcTime
  ELSE IF ms < NumContexts THEN lastProc[ms] ELSE 0

\* What the record holds after its read routine, which takes no guard: the
\* longin record what it held before, if it is to show the status.
saveStatus_read(r) == IF r.word = "lastSaved" THEN LastProcTime(MonitorSet(r)) ELSE shown[r]
saveStatusMbbi_read(r) == IF HasDpvt(r) THEN LastStatus(MonitorSet(r)) ELSE shown[r]
saveStatusStr_read(r) == LastProcTime(MonitorSet(r))

Reading(r) ==
  CASE r.support = "longin" -> saveStatus_read(r)
    [] r.support = "mbbi" -> saveStatusMbbi_read(r)
    [] r.support = "stringin" -> saveStatusStr_read(r)

\* A callback thread processes one of the records scanIoRequest queued.
ProcessStatus(r) ==
  /\ r \in scanPending
  /\ scanPending' = scanPending \ {r}
  /\ shown' = [shown EXCEPT ![r] = Reading(r)]
  /\ UNCHANGED <<outside, guard, written, status, pc, now, loops, asked>>

\* A record outside pvSave is processed, under its scan lock.
ChangeValue(p) ==
  /\ value[p] < MaxVersion
  /\ \A t \in RecordThreads : ~HoldsScanLock(t, PVLock[p])
  /\ value' = [value EXCEPT ![p] = @ + 1]
  /\ UNCHANGED <<clock, shared, pc, now, loops, asked>>

Tick ==
  /\ clock < MaxClock
  /\ clock' = clock + 1
  /\ UNCHANGED <<value, shared, pc, now, loops, asked>>

SaveStep(t) ==
  \/ SkipContext(t) \/ StartSave(t)
  \/ PreRead(t) \/ PreReadDone(t)
  \/ BeginWrite(t) \/ BeginDone(t)
  \/ Read(t) \/ ReadDone(t)
  \/ WriteData(t) \/ WriteDone(t)
  \/ EndWrite(t) \/ FinishSave(t)
  \/ Notify(t)

Next ==
  \/ \E t \in Timers : Wake(t)
  \/ \E t \in Requesters : Request(t) \/ Return(t)
  \/ \E t \in Threads : Lock(t) \/ SaveStep(t)
  \/ \E r \in StatusRecs : ProcessStatus(r)
  \/ \E p \in PVs : ChangeValue(p)
  \/ Tick

Spec == Init /\ [][Next]_vars

\* Backend and data source calls return, a released guard goes to each thread
\* blocked on it in the end, and queued callbacks run.  Nothing makes a request
\* arrive, a record change or the periodic thread wake.
Fairness ==
  /\ \A t \in Threads : WF_vars(SaveStep(t)) /\ SF_vars(Lock(t))
  /\ \A t \in Requesters : WF_vars(Return(t))
  /\ \A r \in StatusRecs : WF_vars(ProcessStatus(r))

FairSpec == Spec /\ Fairness

-----------------------------------------------------------------------------
(***************************************************************************)
(* Properties.                                                             *)
(***************************************************************************)

TypeOK ==
  /\ clock \in Nat
  /\ value \in [PVs -> Nat]
  /\ guard \in Threads \union {Free}
  /\ pc \in [Threads -> Labels]
  /\ now \in [Threads -> Nat]
  /\ ctx \in [Threads -> 0..NumContexts]
  /\ chan \in [Threads -> Nat \ {0}]
  /\ slot \in [Threads -> Nat \ {0}]
  /\ ios \in [Threads -> Seq(IOs)]
  /\ data \in [Threads -> Nat \union {Absent, Default}]
  /\ written \in [IOs -> [PVs -> Nat \union {Absent, Default}]]
  /\ lastStatus \in [Contexts -> {0, 1}]
  /\ lastProc \in [Contexts -> Nat]
  /\ s_lastStatus \in {0, 1}
  /\ scanPending \subseteq Scanned
  /\ shown \in [StatusRecs -> Nat \union {Never}]
  /\ asked \in [Requesters -> [PVs -> Nat]]

\* The backends a save of context c writes to, and whether another monitor set
\* was given one of them too.
Targets(c) == Range(IOsOf[c]) \intersect WriteIOs
Unshared(c) ==
  \A d \in Contexts \ {c} : Range(IOsOf[d]) \intersect Range(IOsOf[c]) = {}
IsSaved(c) == \E t \in Threads : pc[t] \in Saving /\ ctx[t] = c

\* What a status of 0 is worth: for a context that has been saved and is not
\* being saved now, and that shares no backend, every channel of the context
\* is in every backend of its set.  save() clears the status, empties each
\* backend in turn and skips those that fail, so this needs every failure to
\* be recorded and the guard to keep the other saves out.
OkMeansSaved ==
  \A c \in Contexts :
    (Unshared(c) /\ lastProc[c] > 0 /\ lastStatus[c] = 0 /\ ~IsSaved(c))
      => \A io \in Targets(c) : \A p \in Range(ChannelsOf[c]) :
           written[io][p] # Absent

\* The backends of a set are copies of each other: under the same conditions
\* they hold the same value of every channel, because save() reads a channel
\* once and forwards that one value, though the records keep changing.
BackendsAgree ==
  \A c \in Contexts :
    (Unshared(c) /\ lastProc[c] > 0 /\ lastStatus[c] = 0 /\ ~IsSaved(c))
      => \A io1, io2 \in Targets(c) : \A p \in Range(ChannelsOf[c]) :
           written[io1][p] = written[io2][p]

\* "Save NOW": when saveAllNow is about to give the guard back, every context
\* without an error holds values at least as new as those at the moment the
\* save was asked for, however long the request waited behind another save
\* (but for channels whose read may fail: their default is saved as a value).
FreshForRequester ==
  \A t \in Requesters : (pc[t] = "context" /\ ctx[t] = NumContexts) =>
    \A c \in Contexts : (Unshared(c) /\ lastStatus[c] = 0) =>
      \A io \in Targets(c) : \A p \in Range(ChannelsOf[c]) \ Unreadable :
        written[io][p] >= asked[t][p]

\* The save time of a context never moves back, although the periodic thread
\* stamps it with a clock reading taken before it waited for the guard.
LastProcMonotone ==
  [][\A c \in Contexts : lastProc'[c] >= lastProc[c]]_lastProc

\* The records that show something of one set: an mbbi record its status, a
\* stringin record its save time.  A longin record leaves what was there, or shows
\* a constant, and so do the records of all sets.
OfOneSet ==
  {r \in Scanned : HasDpvt(r) /\ r.support # "longin" /\ MonitorSet(r) \in Contexts}
ShowsSet(r) ==
  shown[r] = IF r.support = "mbbi" THEN lastStatus[MonitorSet(r)]
                                   ELSE lastProc[MonitorSet(r)]

\* While no save runs, the status record of a set whose queued processing is over
\* shows the present status or save time of the set, although records are also
\* processed in the middle of a save, when both are half-way; until the first
\* save a stringin record may still show what init_record has put there.
StatusRecordCurrent ==
  \A r \in OfOneSet : (guard = Free /\ r \notin scanPending) =>
    ShowsSet(r) \/ (shown[r] = Never /\ \A c \in Contexts : lastProc[c] = 0)

\* Every request for a save, from a record or from the shell, is carried out
\* and lets its thread go on; a blocked periodic thread gets its turn as well.
RequestServed == \A t \in Threads : (pc[t] = "lock") ~> (pc[t] = "idle")

\* The backends that are inside a write transaction: those a running save()
\* has begun and not yet ended.
Open ==
  {io \in IOs : \E t \in Threads : \E i \in DOMAIN ios[t] :
     ios[t][i] = io /\ (pc[t] = "end" => i >= slot[t])}

\* pvSave_AddPvSetIO gives a set the same backend again without a word.
Relisted ==
  {io \in IOs : \E c \in Contexts : \E i, j \in DOMAIN IOsOf[c] :
     i # j /\ IOsOf[c][i] = io /\ IOsOf[c][j] = io}

Contract == INSTANCE IOContract WITH open <- Open, held <- written

\* Whoever saves, and however monitor sets share their backends, each backend
\* sees what SaveRestoreIO describes: begin, writes, end, one transaction at a
\* time.  save() of two sets, or of one set on two threads, would interleave
\* their calls but for the guard.  A backend that a set lists twice is begun and
\* ended twice in a save, both times before or after all of the writes.
WritesInTransactions == Contract!Spec

\* Every transaction that save() begins it ends, when a write has failed too.
TransactionsEnd == Contract!TransactionsEnd

=============================================================================
