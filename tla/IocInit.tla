------------------------------ MODULE IocInit ------------------------------
(***************************************************************************)
(* One IOC process from its startup script on: the iocsh commands that     *)
(* configure monitor sets, the init hooks that make them into contexts,    *)
(* connect their channels and restore them in three passes, and the saves  *)
(* that records, the shell and the periodic thread start meanwhile.  Every *)
(* get and put goes through the addresses of DataSourceDb.                 *)
(*                                                                         *)
(* The hooks run in the thread of the shell.  A save takes the guard, so   *)
(* that there is one at a time; a restore does not.  Which backend fails,  *)
(* and what a file keeps of a value, is left to SaveEngine and SaveRestore.*)
(***************************************************************************)
EXTENDS DataSourceDb, Functions

CONSTANTS
  Sets,       \* names of monitor sets
  IOs,        \* names of backend instances
  Rates,      \* rates tried with pvSave_CreatePvSet
  OnePvs,     \* names tried with pvSave_AddPvSetPv
  PvLists,    \* what a .pvl file may add to a set
  InfoPvs,    \* what the info fields of the database add to a set
  Linked,     \* Linked[r]: records that a put to r processes, r itself included
  Savers,     \* records with device support that saves when they process
  LateSets,   \* bound: sets that are configured after iocInit as well
  MaxPvs,     \* bound: length of a PV list
  MaxIOs,     \* bound: backends of a set
  MaxTimers,  \* bound: how often iocRun is called
  Absent,     \* no value
  NoPvs       \* no restore has read its data

ASSUME InitAssumption ==
  /\ Rates \subseteq Int /\ LateSets \subseteq Sets
  /\ OnePvs \subseteq Names /\ PvLists \subseteq Seq(Names) /\ InfoPvs \in Seq(Names)
  /\ Linked \in [Records -> SUBSET Records] /\ Savers \subseteq Records
  /\ MaxPvs \in Nat /\ MaxIOs \in Nat /\ MaxTimers \in Nat

\* The value of a record: the record it was a value of, and whether it came with
\* the database, was saved by an earlier process, or has been put since.
Data == [of : Records, age : {"loaded", "saved", "new"}]
Datum(r, age) == [of |-> r, age |-> age]
ASSUME AbsentAssumption == Absent \notin Data

VARIABLES
  phase,     \* the last hook that was announced, or how the process crashed
  created,   \* monitorSets: the names in it
  sets,      \* and what each name stands for
  backends,  \* ioBackends()
  contexts,  \* saveContexts, each by the name of its set
  channels,  \* channels[s]: channels_ of the context of s
  value,     \* value[r]: present value of the record
  file,      \* file[io][p]: the value that reading io gives for p
  pos,       \* the hook's loop position in saveContexts, or 0
  pvs,       \* local `pvs` of restore()
  chan,      \* restore()'s loop position in channels_
  save,      \* the running save: context, channel, backends it has begun, and
             \* what the put of a restore processes if the save is part of that
  timers,    \* threads that run pvSaveThreadProc
  due        \* history: sets that pass 0 or 1 has still to restore

config == <<created, sets, backends>>
hook == <<phase, contexts, channels, addrs, pos, timers>>
restore == <<pvs, chan, due>>
vars == <<config, hook, restore, value, file, save>>

NoSave == [ctx |-> 0, chan |-> 0, ios |-> {}, put |-> {}]
NewSet(rate) == [period |-> rate, stage |-> -1, io |-> <<>>, pvList |-> <<>>]

\* The files are those of an earlier process that saved all records.
BootFile == [p \in Names |-> IF p \in Records THEN Datum(p, "saved") ELSE Absent]

Init ==
  /\ AddrsInit
  /\ phase = "script"
  /\ created = {} /\ sets = [s \in Sets |-> NewSet(0)] /\ backends = {}
  /\ contexts = <<>> /\ channels = [s \in Sets |-> <<>>]
  /\ value = [r \in Records |-> Datum(r, "loaded")]
  /\ file = [io \in IOs |-> BootFile]
  /\ pos = 0 /\ pvs = NoPvs /\ chan = 0
  /\ save = NoSave /\ timers = 0 /\ due = {}
-----------------------------------------------------------------------------
(***************************************************************************)
(* The shell.  A command with a name it does not know changes nothing.     *)
(***************************************************************************)
Crashed == phase \in {"badContext", "badAddress", "noLockSet"}
ShellIsFree == phase \in {"script", "running", "paused"} /\ pos = 0
MayConfigure(s) == ShellIsFree /\ (phase = "script" \/ s \in LateSets)

\* A rate below 10 is refused; a set there is already is kept.
CreatePvSet(s, rate) ==
  /\ MayConfigure(s)
  /\ rate >= 10 /\ s \notin created
  /\ created' = created \union {s}
  /\ sets' = [sets EXCEPT ![s] = NewSet(rate)]
  /\ UNCHANGED <<backends, hook, restore, value, file, save>>

\* The constructor of the backend enters it under its name, unless there is one.
ConfigureIO(io) ==
  /\ ShellIsFree /\ io \notin backends
  /\ backends' = backends \union {io}
  /\ UNCHANGED <<created, sets, hook, restore, value, file, save>>

AddPvSetIO(s, io) ==
  /\ MayConfigure(s)
  /\ s \in created /\ io \in backends
  /\ Len(sets[s].io) < MaxIOs
  /\ sets' = [sets EXCEPT ![s].io = Append(@, io)]
  /\ UNCHANGED <<created, backends, hook, restore, value, file, save>>

AddPvs(s, list) ==
  /\ MayConfigure(s)
  /\ s \in created
  /\ Len(sets[s].pvList) + Len(list) <= MaxPvs
  /\ sets' = [sets EXCEPT ![s].pvList = @ \o list]
  /\ UNCHANGED <<created, backends, hook, restore, value, file, save>>

AddPvSetPv(s) == \E p \in OnePvs : AddPvs(s, <<p>>)

\* Blank lines, comments and blanks around a name are no part of a list.
AddPvSetList(s) == \E list \in PvLists : AddPvs(s, list)

\* Each record's autosaveFields, then its saveFields.
InitFromDb(s) == AddPvs(s, InfoPvs)

\* "0", "1" and "2", or the names of the hooks; anything else is refused.
SetPvSetRestoreStage(s, n) ==
  /\ MayConfigure(s)
  /\ s \in created
  /\ sets' = [sets EXCEPT ![s].stage = n]
  /\ UNCHANGED <<created, backends, hook, restore, value, file, save>>

\* MonitorSet::context: pointed at the context when that was built, and neither
\* set before nor moved along when the vector grows, at a power of two.
Reallocates(n) == \E k \in 0..n : n = 2^k + 1
ContextIsOwn(s) ==
  \E i \in DOMAIN contexts :
    contexts[i] = s /\ \A n \in (i + 1)..Len(contexts) : ~Reallocates(n)

\* Following any other pointer may go well, too.
ListChannels(s) ==
  /\ ShellIsFree
  /\ s \in created /\ ~ContextIsOwn(s)
  /\ phase' = "badContext"
  /\ UNCHANGED <<config, contexts, channels, addrs, pos, timers, restore, value, file, save>>

-----------------------------------------------------------------------------
(***************************************************************************)
(* The hooks, in the order in which iocInit announces them.                *)
(***************************************************************************)

\* AtIocBuild: a context for each set, in the order of an unordered_map.
AtIocBuild ==
  /\ phase = "script"
  /\ contexts' \in Bijection(1..Cardinality(created), created)
  /\ due' = {s \in created : sets[s].stage \in {0, 1}}
  /\ phase' = "connect" /\ pos' = 1
  /\ UNCHANGED <<config, channels, addrs, timers, pvs, chan, value, file, save>>

\* AfterInitDevSup: init() of one context after the other.
Connect ==
  /\ phase = "connect" /\ pos <= Len(contexts)
  /\ ConnectAddrs(sets[contexts[pos]].pvList)
  /\ channels' = [channels EXCEPT ![contexts[pos]] = Connected(sets[contexts[pos]].pvList)]
  /\ pos' = pos + 1
  /\ UNCHANGED <<config, phase, contexts, timers, restore, value, file, save>>

\* The passes of restore: at the end of AfterInitDevSup, at AfterInitDatabase and
\* at AfterIocRunning, which is announced again when a paused IOC goes on.
SwappedPass == CASE phase = "devsup" -> 0 [] phase = "database" -> 2 [] phase = "running" -> 1  \* mutant
Pass == CASE phase = "devsup" -> 0 [] phase = "database" -> 1 [] phase = "running" -> 2
\* A put of the restore that saves returns after the save.
Restoring ==
  /\ phase \in {"devsup", "database", "running"} /\ pos \in 1..Len(contexts)
  /\ save.put = {}
Stage == sets[contexts[pos]].stage

NextContext == pos' = pos + 1 /\ pvs' = NoPvs /\ chan' = 0

SkipRestore ==
  /\ Restoring /\ pvs = NoPvs
  /\ Stage # Pass
  /\ NextContext
  /\ UNCHANGED <<config, phase, contexts, channels, addrs, timers, due, value, file, save>>

\* While a save writes to the file, a reader may miss what the file holds.
Readings(io) ==
  IF io \in save.ios
    THEN {m \in [Names -> Data \union {Absent}] :
            \A p \in Names : m[p] \in {file[io][p], Absent}}
    ELSE {file[io]}

\* restore() reads one of the backends.
ReadSaved ==
  /\ Restoring /\ pvs = NoPvs
  /\ Stage = Pass
  /\ \E io \in Range(sets[contexts[pos]].io) : pvs' \in Readings(io)
  /\ chan' = 1
  /\ UNCHANGED <<config, hook, due, value, file, save>>

\* No backend was able to restore.
NoRestore ==
  /\ Restoring /\ pvs = NoPvs
  /\ Stage = Pass
  /\ NextContext
  /\ due' = due \ {contexts[pos]}
  /\ UNCHANGED <<config, phase, contexts, channels, addrs, timers, value, file, save>>

RestoredChannels == channels[contexts[pos]]

\* dbPutField: the value, and what the processing of the record changes.  A
\* record among those that saves does so in the same thread, when the guard is free.
PutField(r, v) ==
  /\ \E processed \in SUBSET Linked[r] :
       value' = [q \in Records |-> IF q \in processed THEN Datum(q, "new")
                                    ELSE IF q = r THEN v ELSE value[q]]
  /\ IF Linked[r] \intersect Savers = {} THEN UNCHANGED save
       ELSE save = NoSave /\ save' = [NoSave EXCEPT !.ctx = 1, !.put = Linked[r]]

\* put() of a channel for which there is a value.  An address that is zero has
\* no record to lock, and before AfterInitDatabase no record has a lock.
Put ==
  /\ Restoring /\ pvs # NoPvs
  /\ \E i \in DOMAIN RestoredChannels :
       /\ IsNext(RestoredChannels, i, chan)
       /\ chan' = i + 1
       /\ LET v == pvs[RestoredChannels[i].pv] IN
          \/ v = Absent /\ UNCHANGED <<value, phase, save>>
          \/ /\ v # Absent
             /\ \E r \in Addressed(RestoredChannels[i]) :
                  \/ r = None /\ phase' = "badAddress" /\ UNCHANGED <<value, save>>
                  \/ r # None /\ phase = "devsup" /\ phase' = "noLockSet" /\ UNCHANGED <<value, save>>
                  \/ r # None /\ phase # "devsup" /\ UNCHANGED phase /\ PutField(r, v)
  /\ UNCHANGED <<config, contexts, channels, addrs, pos, timers, pvs, due, file>>

RestoreDone ==
  /\ Restoring /\ pvs # NoPvs
  /\ NoneLeft(RestoredChannels, chan)
  /\ NextContext
  /\ due' = due \ {contexts[pos]}
  /\ UNCHANGED <<config, phase, contexts, channels, addrs, timers, value, file, save>>

\* The hook's loop is over: on to the next hook; after AfterInitDatabase records
\* begin to process, and at the end of AfterIocRunning a thread is created.
HookDone ==
  /\ pos = Len(contexts) + 1
  /\ \/ phase = "connect" /\ phase' = "devsup" /\ pos' = 1 /\ UNCHANGED timers
     \/ phase = "devsup" /\ phase' = "database" /\ pos' = 1 /\ UNCHANGED timers
     \/ phase = "database" /\ phase' = "started" /\ pos' = 0 /\ UNCHANGED timers
     \/ phase = "running" /\ timers' = timers + 1 /\ pos' = 0 /\ UNCHANGED phase
  /\ UNCHANGED <<config, contexts, channels, addrs, restore, value, file, save>>

\* iocRun, the second half of iocInit; also a command, as iocPause is.
IocRun ==
  /\ phase \in {"started", "paused"} /\ pos = 0 /\ timers < MaxTimers
  /\ phase' = "running" /\ pos' = 1
  /\ UNCHANGED <<config, contexts, channels, addrs, timers, restore, value, file, save>>

IocPause ==
  /\ phase = "running" /\ pos = 0
  /\ phase' = "paused"
  /\ UNCHANGED <<config, contexts, channels, addrs, pos, timers, restore, value, file, save>>

-----------------------------------------------------------------------------
(***************************************************************************)
(* Saves, under the guard, and the records.                                *)
(***************************************************************************)
RecordsProcess == phase \in {"started", "running"}

\* saveAllNow by the control record or by the shell, before iocInit too; or the
\* periodic thread wakes up.
StartSave ==
  /\ RecordsProcess \/ ShellIsFree \/ (timers > 0 /\ ~Crashed)
  /\ save = NoSave /\ contexts # <<>>
  /\ save' = [save EXCEPT !.ctx = 1]
  /\ UNCHANGED <<config, hook, restore, value, file>>

Saving == save.ctx \in 1..Len(contexts) /\ ~Crashed
SavedSet == contexts[save.ctx]
SaveNextContext == save' = [NoSave EXCEPT !.ctx = save.ctx + 1, !.put = save.put]

\* The periodic thread leaves out the sets whose period is not over.
SkipSave ==
  /\ Saving /\ save.chan = 0 /\ timers > 0 /\ save.put = {}
  /\ SaveNextContext
  /\ UNCHANGED <<config, hook, restore, value, file>>

Channels == channels[SavedSet]

\* save() begins with a get() of every channel, which may be its end.
CrashInPreRead ==
  /\ Saving /\ save.chan = 0
  /\ \E i \in DOMAIN Channels : None \in Addressed(Channels[i])
  /\ phase' = "badAddress"
  /\ UNCHANGED <<config, contexts, channels, addrs, pos, timers, restore, value, file, save>>

\* beginWrite() of every backend of the set: what was in its file is gone.
BeginSave ==
  /\ Saving /\ save.chan = 0
  /\ \A i \in DOMAIN Channels : Addressed(Channels[i]) # {None}
  /\ save' = [save EXCEPT !.chan = 1, !.ios = Range(sets[SavedSet].io)]
  /\ file' = [io \in IOs |-> IF io \in save'.ios THEN [p \in Names |-> Absent] ELSE file[io]]
  /\ UNCHANGED <<config, hook, restore, value>>

\* Of two entries for one name a reader takes the first.
Stored(p, v) ==
  [io \in IOs |-> IF io \in save.ios /\ file[io][p] = Absent
                   THEN [file[io] EXCEPT ![p] = v] ELSE file[io]]

\* get() of a channel, and writeData() to the backends.
SaveChannel ==
  /\ Saving /\ save.chan > 0
  /\ \E i \in DOMAIN Channels :
       /\ IsNext(Channels, i, save.chan)
       /\ \E r \in Addressed(Channels[i]) :
            IF r = None THEN phase' = "badAddress" /\ UNCHANGED <<file, save>>
              ELSE /\ file' = Stored(Channels[i].pv, value[r])
                   /\ save' = [save EXCEPT !.chan = i + 1]
                   /\ UNCHANGED phase
  /\ UNCHANGED <<config, contexts, channels, addrs, pos, timers, restore, value>>

EndSave ==
  /\ Saving /\ save.chan > 0 /\ NoneLeft(Channels, save.chan)
  /\ SaveNextContext
  /\ UNCHANGED <<config, hook, restore, value, file>>

\* After the last context the guard is released.
FinishSave ==
  /\ save.ctx = Len(contexts) + 1 /\ ~Crashed
  /\ save' = NoSave
  /\ UNCHANGED <<config, hook, restore, value, file>>

\* Records process, or a put is not done with those it processes.
ChangeValue(r) ==
  /\ RecordsProcess \/ (r \in save.put /\ ~Crashed)
  /\ value' = [value EXCEPT ![r] = Datum(r, "new")]
  /\ UNCHANGED <<config, hook, restore, file, save>>

Command(s) ==
  \/ \E rate \in Rates : CreatePvSet(s, rate)
  \/ \E io \in IOs : AddPvSetIO(s, io)
  \/ AddPvSetPv(s) \/ AddPvSetList(s) \/ InitFromDb(s)
  \/ \E n \in 0..2 : SetPvSetRestoreStage(s, n)
  \/ ListChannels(s)

Hook ==
  \/ AtIocBuild \/ Connect \/ HookDone
  \/ SkipRestore \/ ReadSaved \/ NoRestore \/ Put \/ RestoreDone
  \/ IocRun \/ IocPause

SaveStep ==
  \/ StartSave \/ SkipSave \/ CrashInPreRead \/ BeginSave \/ SaveChannel
  \/ EndSave \/ FinishSave

Next ==
  \/ \E s \in Sets : Command(s)
  \/ \E io \in IOs : ConfigureIO(io)
  \/ Hook
  \/ SaveStep
  \/ \E r \in Records : ChangeValue(r)

Spec == Init /\ [][Next]_vars

-----------------------------------------------------------------------------
(***************************************************************************)
(* Properties.                                                             *)
(***************************************************************************)
Phases == {"script", "connect", "devsup", "database", "started", "running", "paused",
           "badContext", "badAddress", "noLockSet"}
Contents == [Names -> Data \union {Absent}]
SetTypes == [period : Int, stage : -1..2, io : Seq(IOs), pvList : Seq(Names)]

TypeOK ==
  /\ block \in Nat /\ size \in Nat /\ cells \in Seq(Addresses)
  /\ phase \in Phases
  /\ created \subseteq Sets
  /\ sets \in [Sets -> SetTypes]
  /\ backends \subseteq IOs
  /\ contexts \in Seq(created) /\ IsInjective(contexts)
  /\ channels = [s \in Sets |-> channels[s]]
  /\ \A s \in Sets : \A i \in DOMAIN channels[s] : i \in Nat /\ channels[s][i] \in ChannelTypes
  /\ value \in [Records -> Data]
  /\ file \in [IOs -> Contents]
  /\ pos \in 0..(Len(contexts) + 1)
  /\ pvs \in Contents \union {NoPvs}
  /\ chan \in Nat
  /\ save \in [ctx : 0..(Len(contexts) + 1), chan : Nat, ios : SUBSET IOs, put : SUBSET Records]
  /\ timers \in Nat
  /\ due \subseteq Range(contexts)

Owns(ch) == ch.block = block /\ ch.at \in DOMAIN cells /\ cells[ch.at] = ch.pv

\* How many contexts have been connected.
ConnectedContexts == IF phase = "connect" THEN pos - 1 ELSE Len(contexts)

\* connect() gives each channel a pointer into a vector it resizes for the next
\* set.  The channels of the set that was connected last always lead to the
\* records they are named after, whatever is done after that.
LastSetOwnsAddresses ==
  ConnectedContexts > 0 =>
    \A i \in DOMAIN channels[contexts[ConnectedContexts]] :
      Owns(channels[contexts[ConnectedContexts]][i])

\* Each record holds a value of its own, each backend gives a name a value of
\* the record with that name, and no wild address is followed.
OwnValues ==
  /\ \A r \in Records : value[r].of = r
  /\ \A io \in IOs, p \in Names : file[io][p] # Absent => file[io][p].of = p
  /\ phase # "badAddress"

\* An IOC with one monitor set keeps the values of its records apart over boot,
\* restores, pauses and saves, with a list that repeats names or has unknown ones.
OneSetKeepsValuesApart == Len(contexts) <= 1 => OwnValues

\* What the earlier process saved of a set that is restored in pass 0 or 1 stays
\* in its backends until then: no record, command or thread has it overwritten,
\* unless a record that the same passes restore saves when a put processes it.
BootValuesKept ==
  [][\A s \in due : \A io \in Range(sets[s].io) : file'[io] = file[io] \/ save.put # {}]_vars

\* The interface says of the channels of connect() that they are per-channel
\* context data, passed in to put and get: put and get are about the record that
\* the channel was connected to, however many sets there are.
ChannelsKeepValuesApart == OwnValues

=============================================================================
