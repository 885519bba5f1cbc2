# pvSave in TLA+

pvSave is an EPICS IOC module that saves the values of records (PVs) to one or
more I/O backends, periodically and on request, and restores them when the IOC
boots. This directory holds TLA+ models of it, the TLC configurations that check
them on small instances, and theorems checked by TLAPS for all instances.

All paths below are relative to `pvSaveApp/src/` of the repository unless they
say otherwise.

## 1. The system

### Components, their state and their operations

| Component | Source | State | Operations |
|---|---|---|---|
| Save engine | `pvSave.cpp` 99-214, 294-313, 437-474 | `saveContexts` (a context is a monitor set with its channels, `lastStatus_`, `lastProc_`), `s_lastStatus`, `s_lastProcTime`, the mutex `contextGuard()` | `SaveContext::save`, `saveAllNow`, the loop of `pvSaveThreadProc`, `lastStatus`, `lastProcTime` |
| Periodic thread | `pvSave.cpp` 437-474 | locals `sleepTime`, `now` | sleep, read the clock, take the guard, save what is due, sleep again |
| Restore | `pvSave.cpp` 212-266, 490-506 | none of its own | `restore` for pass 0 and 1 (values put into fields before record initialisation) and for pass 2 |
| Configuration and hooks | `pvSave.cpp` 480-760, `pvSaveIO.cpp` | `monitorSets`, `ioBackends()`, `saveContexts` | shell commands that declare sets, PVs and backends; `pvsInitHook`, called at each stage of IOC initialisation |
| Backend interface | `pvsave/pvSave.h` 100-200 | - | `beginWrite`, `writeData`, `endWrite`, `beginRead`, `readData`, `endRead`, `flags` |
| File backend | `fileSystemIO.cpp` | a file, an open `FILE*` | the interface, over stdio; text (`.sav`) and JSON formats |
| HTTP backend | `pvSaveHttpApp/src/httpIO.cpp` | a curl handle | the interface, one POST per `writeData`; `readData` fails |
| Data source | `dataSourceDb.cpp` | `addrs_` | `connect`, `disconnect`, `get`, `put` on IOC records, `get` under the scan lock |
| Values | `serialize.cpp`, `pvsave/variant.h`, `pvsave/serialize.h` | - | typed values to and from text |
| Device support | `statusControl.cpp`, `pvSaveApp/Db/SaveStatus.db` | an `IOSCANPVT` | status and time of a set or of all sets as records; a record that saves everything when it is written |

### Who talks to whom

- **Callers of `save()`.** `pvSaveThreadProc` saves the contexts whose period is
  over; `saveAllNow` saves them all, called by the shell command `pvSave_Save` and
  by `saveControl_write` from inside record processing. Both hold `contextGuard()`
  from their first context to `scanIoRequest`.
- **Inside `save()`.** Read all channels (the result is not used); `beginWrite` on
  every backend of the set, keeping those where it succeeds; for every channel,
  read it once and hand the value to each kept backend; `endWrite` on each kept
  backend. Any failure of a backend sets `lastStatus_` of the context to 1, and
  the save goes on.
- **Locks.** A thread that processes a record holds the scan lock of the record's
  lock set, all through `saveAllNow` if it is the control record. `get` takes
  the scan lock of the saved record with the guard held. These are the two nested
  orders of the two locks.
- **Status.** `scanIoRequest` queues the "I/O Intr" status records; a callback
  thread processes them later and reads `lastStatus_` without the guard.

### What is hard about it

Several threads with two kinds of locks in two orders; a clock reading taken
before a lock is waited for; status that is cleared at the start of a save and
read by others without the guard; backends that fail one at a time in a loop that
goes on; records that change while they are saved; one file truncated in place;
initialisation in stages that may be announced more than once, with pointers into
a growing vector; values that change their type on the way; objects that are
constructed and destroyed by hand. `PROJECT.json` lists these under `hazards`, each
at its line and with the property that covers it or the reason why none does.

### What makes each component correct

- *Save engine*: saves do not interleave on a backend; status 0 means that all was
  written; backends of one set agree; a requested save contains the values of the
  time of the request; every request is served; save times do not go back; status
  records end up with the present status.
- *Periodic thread*: no set goes unsaved for much longer than its period.
- *Restore*: what is put into a record was saved for that record; a backend that
  has nothing does not hide one that has; restore happens before the first save.
- *Configuration and hooks*: whatever the order of the commands, a set is restored
  from what the process before has left.
- *File backend*: after `endWrite` has said true the file reads back as written;
  whatever cuts a save short, a file holds entries of one save only.
- *Data source*: `get` and `put` of a channel act on the record it was connected
  to.
- *Values*: a value that is saved and put back into a field of the same type is the
  same; a `Variant` is a holder of one value, whatever is done to it.

## 2. The modules

| Module | Models |
|---|---|
| `SaveEngine` | `SaveContext::save`, its callers, the guard, scan locks, status and status records |
| `IOContract` | what `SaveRestoreIO` asks of whoever writes to a backend: transactions, one at a time |
| `SaveTimer` | the sleep arithmetic of `pvSaveThreadProc` |
| `FileStore` | what the backends keep: `fileSystemIO` over stdio and a file, and `httpIO`; the readers |
| `SaveRestore` | one monitor set over several processes: boot, `restore`, `save` on the backends of `FileStore`, the end of a process |
| `DurableCopy` | what a medium is relied on for: it keeps what has reached it, and all of what was completed |
| `DataSourceDb` | the vector `addrs_`, `connect`, and where the pointer of a channel leads |
| `PvListFile` | the names that a `.pvl` file and the info fields of the database give |
| `IocInit` | one process from its startup script on: shell commands, init hooks, restores and saves, over `DataSourceDb` |
| `Conversions` | a value from `get` to `put`: types, type names, parsing with `errno`, field bytes |
| `Variant` | the class of every saved value, down to the object in its buffer |
| `ValueHolder` | what users of a variant rely on: nothing, or one value |
| `MCSaveEngine`, `MCSaveTimer`, `MCSaveRestore`, `MCIocInit`, `MCConversions` | constants for TLC |
| `SaveEngineProofs` | types, exclusion by the guard, save times, status records |
| `SaveProgressProofs` | how far a running save has come, and from it what a status of 0 and a request are worth |
| `SaveContractProofs` | `SaveEngine` implements `IOContract` |
| `SaveTimerProofs` | the bound on the age of a set |
| `SaveRestoreProofs` | what a file holds after a save that was finished or cut short, and what is restored from it; `SaveRestore` implements `DurableCopy` |
| `IocInitProofs` | the addresses of the last set, an IOC with one set, what boot finds in the files |
| `ConversionsProofs` | what becomes of a value on its way through a file, and of `errno` |
| `VariantProofs` | the lifetime of objects, and `Variant` implements `ValueHolder` |

`SaveEngine` and `SaveRestore` look at one thing closely each, what runs at the same
time and what survives; `IocInit` composes configuration, restore and save, each
coarser than there, over the addresses they share. `FileStore` and `DataSourceDb` are
written as operators on their own variables, which `SaveRestore` and `IocInit` extend.

### `SaveEngine`

One step is one call on a backend, one call on the data source, or one access to
state that another thread can see. The locals of a running save (loop positions,
the vector `ios`, the value just read) are kept per thread, so that nothing in the
model but `guard` keeps two saves apart.

| Action | Code |
|---|---|
| `Wake` | `pvSaveThreadProc`: return from the sleep, `epicsTimeGetCurrent`, before the guard |
| `Request`, `Return` | `saveAllNow` called from the shell or from `saveControl_write` under a scan lock; its return and the end of record processing |
| `Lock` | the guard is taken, `s_lastStatus = 0`; `saveAllNow` reads the clock here |
| `SkipContext`, `StartSave` | the loop over `saveContexts`; `MustSave` is the test of the period, for the periodic thread only; `save()` clears `lastStatus_` |
| `PreRead`, `PreReadDone` | the first loop of `save()` |
| `BeginWrite`, `BeginDone` | the loop of `beginWrite` calls |
| `Read`, `WriteData`, `WriteDone`, `ReadDone` | the loop over the channels with the loop over `ios` inside it |
| `EndWrite`, `FinishSave` | the loop of `endWrite` calls; `save()` returns and the caller stamps `lastProc_` |
| `Notify` | `scanIoRequest` and the destructor of the guard |
| `ProcessStatus` | the read routine of a status record on a callback thread, without the guard |
| `ChangeValue`, `Tick` | records processed by the rest of the IOC; the clock |

A record's value is the number of times it has changed, a backend's content
(`written`) the value it was handed for each channel since its last `beginWrite`.
A failing `beginWrite` may or may not have dropped the old content and a failing
`writeData` may or may not have stored the value; `fileSystemIO` and `httpIO` fall
within that.

A status record is a member of `StatusRecs`: the kind of its device support, and the
word and the number of its INP. `saveStatus_init_record` and its two siblings say
which INPs each kind accepts, `Scanned` which records are on the scan list (a longin
or mbbi record is even when its INP was refused), and `Reading` what the read routine
of each leaves in the record: a longin record that was told to show the status leaves
what was there. `shown` is that value. `StatusRecordCurrent` is about the records that
show something of one set (`OfOneSet`): of a longin record it could say nothing, and
those of all sets show constants. The conversion that the mbbi record itself makes
afterwards is EPICS base's, and so is the text of a time.

`save()` always returns true, so that the branches of its callers that set
`s_lastStatus` to 1 are unreachable and have no action.

Properties: `TypeOK`; `OkMeansSaved`, `BackendsAgree` and `FreshForRequester` on
what a status of 0 is worth; `LastProcMonotone`; `StatusRecordCurrent`;
`WritesInTransactions` (the refinement) and `TransactionsEnd`; `RequestServed`.
Two things the database template promises are not so, and are seen by reading rather
than by a run: the status of "all monitor sets" (`s_lastStatus`) is 0 whatever
backends fail, since `save()` returns true, and their save time (`s_lastProcTime`, a
constant of the model) is always zero, since nothing assigns it.

### `IOContract` and the refinement

`IOContract` knows nothing of monitor sets, threads or guards: a backend is inside
a transaction (`open`) or not; data goes only to open ones; beginning empties the
backend and is possible only when it is not open. `pvSave_AddPvSetIO` takes a backend
that the set has already, without a word; `save()` then begins it twice, writes all
channels to it twice and ends it twice. For such a backend (`Relisted`, a function of
the configuration) `MayBegin` allows a second begin as long as it would cost nothing:
while the backend has been given nothing since the first one. `SaveEngine` implements
the contract with `held <- written` and `open <- Open`, the set of backends that some
running save has in its `ios` and has not ended yet.

### `SaveTimer`

`pvSaveThreadProc` does not sleep for the time that is left until a set is due: for
a set that is not due it sleeps for the time that has already gone by
(`sleepTime = epicsMin(diff, sleepTime)`). After a save on request a set is looked
at again after 1, 2, 4, 8... units, so the age of a set can exceed its period, and
the question is by how much. Time is relative: `age[c]` is how long ago set `c` was
saved, `lag` how old the local `now` is. `never` is the set of contexts whose
`lastProc_` is still zero. The answer (`SavedInTime`) is twice the period, plus once
the lateness of a sleep, plus twice the length of a pass.

### `FileStore`

The calls of the backend interface, as actions on the variables of a store. A file
is not bytes but the sequence of entries written since it was truncated (`stream`),
with a position: `onDisk` entries have left the stdio buffer, and `torn` says that
part of the next one has, too. `handle` is `handle_` or `curl_`.

| Operator | Code |
|---|---|
| `StoreBegins`, `StoreBeginFails` | `beginWrite`: `openFile`, `fseek` (which writes out the buffer), `ftruncate`; of httpIO `initCurl` |
| `StoreWrites`, `StoreWriteFails` | `writeData`: `saveText`, whose entries stay in the buffer until stdio writes it out (`Spill`), and `saveJson`, which flushes each; of httpIO one POST |
| `StoreEnds` | `endWrite`: `fflush`, the result ignored |
| `ReadResults` | `readData`: the maps that `readText` or `readJson` may build from what is in the file; nothing for httpIO |
| `ProcessEnds` | what `exit` (flushes) or a kill (does not) leaves |
| `DeviceFills`, `DeviceFreed` | the file system |

Both formats write the text of a value as it is, without quoting or escaping it, so
what a string comes back as depends on the characters in it. A value is one of ten
`Kinds`, and the table at their definition says what each reader makes of each: numbers
and plain strings come back; a text file cuts a string at its first blank (`strtok_r`),
quote (`parseString`) or newline, and translates or refuses its backslashes; an empty
string is a line without a value there; in a JSON file a quote ends the value, and
what is not JSON ends the parse (`EndsParse`), so that all entries after it are lost; the
Data of a link field has no text form at all.

What stands after a newline, or after a quote in a JSON file that goes on as valid JSON
(`Closed`), is read as further entries, for whatever records their names say. `Rest`
gives, for each format and value, what is read for each record that way; `Found` takes
these entries in their place in the file, and the first one of a record counts. So a
string of one record may be the value of another, and the properties say how far this
goes: only a value that stands in the text of a string of the same save.

A torn line is read as a shorter value, for `readText` strips the last character
whatever it is; a torn JSON string is not delivered, unless a quote in its text closes
it (`TornReads`).

### `SaveRestore`

The variables of `FileStore` are what survives a process, except `handle` and what is
in the buffer.

| Action | Code |
|---|---|
| `Boot` | a new process: records loaded, contexts made, `channels_` connected; the PV list may have been edited since the last one |
| `Restore`, `BeginReadFails`, `NoRestore` | `restore()`: the first backend whose `beginRead` succeeds is used, whatever `readData` says; what it found is put into the listed records |
| `StartSave` ... `FinishSave` | `save()`, one step per backend call, as in `SaveEngine` |
| `ChangeValue`, `Device`, `Die` | the records (to one of their `Inputs`), the file system, the end of the process at any step |

Two things are left out that `SaveEngine` has: the first loop of `save()`, whose
results are not used, and competition for the guard, under which saves run one at
a time. What `SaveEngine` has as any outcome of a call is here the outcome of a
backend.

`given` records the entries handed to a backend since its last `beginWrite`, and
`sound` whether its last transaction was ended with room on the device; they are
history, as is `restored`. Properties: `FileHoldsOneSave`, `SavedIsReadBack`,
`RestoresWhatWasGiven`, `FilesAreDurable` (the refinement). A restored value is what was
given for the record, or the part of it that `MayBeCut` allows (`ReadsAs`), or what the
text of an entry says of the record (`SpillsAs`). `OkMeansOnDisk` and `RestoresFromAll` state what the interface
and a comment say, and do not hold.

### `DurableCopy` and the refinement

`DurableCopy` knows nothing of buffers, processes, devices, formats or restores. A
medium is handed entries, one at a time; what it has `kept` of them grows at any time
and in their order, never shrinks, and is emptied by `Begin` only; `Complete` is where
it has all that it was handed, and from then on it takes no more. `SaveRestore`
implements it with `handed <- given`, `kept <- InFile` (the whole entries that have
left the stdio buffer) and `complete <- sound`. The steps of one medium say nothing of
another, so `Next` is a conjunction over the media: the end of the process is one step
of all of them.

### `DataSourceDb`, `PvListFile` and `IocInit`

`DataSourceCA` keeps the address of every connected record in one vector, `addrs_`.
`connect` resizes it to the length of the list it is given and fills it from the first
element on; a channel is a pointer to an element. `block` numbers the allocations of
the vector, `cells` is what the present one holds up to its capacity, and `Addressed`
is where a pointer leads: to the record whose address is in the cell now, to nothing
(`None`, an address that is all zero), or, when the vector has moved since, anywhere.

| Action | Code |
|---|---|
| `CreatePvSet`, `AddPvSetIO`, `AddPvSetPv`, `AddPvSetList`, `InitFromDb`, `SetPvSetRestoreStage`, `ListChannels` | the shell commands, with their refusals |
| `ConfigureIO` | the constructor of a backend, entered in `ioBackends()` under its name |
| `AtIocBuild` | `pvsInitHook`: a context for each set, in any order |
| `Connect` | `SaveContext::init` of one context after the other |
| `SkipRestore`, `ReadSaved`, `NoRestore`, `Put`, `RestoreDone` | the loop of `restore()` calls of a hook: sets of another stage, the backend that is read, one `put` per channel |
| `HookDone` | on to the next hook; the creation of the periodic thread |
| `IocRun`, `IocPause` | the second half of `iocInit`, and the commands |
| `StartSave` ... `FinishSave` | a save by a record, the shell or a periodic thread |
| `ChangeValue` | the records |

The hooks run in the thread of the shell, restore takes no guard, and a save may run
meanwhile; so `Put` and `SaveChannel` interleave, and a reader may miss part of a file
that is being written (`Readings`). Following an address of no record ends the process
(`phase = "badAddress"`), and so does a put in pass 0, which locks a record before
`iocInit` has made the lock sets (`"noLockSet"`); following `MonitorSet::context` when it is not set or the
vector of contexts has moved may (`"badContext"`).

`put` calls `dbPutField`, which processes a passive record and the records linked to it:
`Linked[r]` are those a put to `r` may process, itself included, and `Savers` are the
records with the device support of `statusControl.cpp`. `PutField` has the processed
records change, and when a saver is among them `saveAllNow` runs in the thread of the
hook, in pass 1 as well: the put waits until the guard is free, and the restore goes on
when the save is over (`save.put`, `Restoring`). Which records those are is EPICS base
and the database; the constants stand for every choice.

A datum is known by the record it was a value of and by its age: loaded with the
database, saved by the process before, or new. That is what the properties tell apart:
`LastSetOwnsAddresses` (the set connected last has addresses of its own whatever comes
after), `OneSetKeepsValuesApart` (with one set no value goes to another record, in
the IOC or in a file), `BootValuesKept` (until a set of stage 0 or 1 is restored its
files are as the process before has left them, unless a put of one of these passes has
itself started a save: a set that lists a control record, or a record linked to one, can
have its neighbours' files emptied before they are read). `ChannelsKeepValuesApart` is the second
one for any number of sets. It is what the interface says, and does not hold.

`PvListFile` says which names a set gets from a file and from info fields: a line is
cut at its first blank after a comment is taken off, a name with an undefined macro
keeps the newline (`Unexpanded`: no record has it), and a word of an info field that
does not fit the buffer ends the list. A word of exactly `MAX_STRING_SIZE` + 1
characters is taken, with its terminator one byte after the buffer (`pvSave.cpp`
411-427): it is a name no record has, and what the byte was is not modelled.

### `Conversions`

One file of a few entries, each the value of a field of some DBF type. `SaveEntry` is
`get` (whose Data has the type of `dataFromDbfType`: an enum gets the low half of a
32-bit integer) and `dataToString`; `ReadEntry` is `dataParseString` in another process,
in the type that the name in the file stands for; `Put` gives the first bytes of the
Data to a field, of the type it was saved from or of any other. `errno` is the hidden
state between two entries: libCom's parsers of small integers clear it, the parsing of
64-bit ones tests it without clearing, and a double that is subnormal may set it.

A string is empty, plain (one word without a quote or a backslash), or odd. A plain one
comes back whole; of an odd one anything may be read, or nothing, what follows in it may
leave `errno` set or clear it, and it may end the reading (`EndRead`). Which of that
happens, and what it does to other records, is in `FileStore`.

`SameTypeKeepsValue`: a number, an enum or a plain string that is put into a field of
the type it was saved from is what was saved. `NarrowerKeepsLowBits`: a field that is another integer type by then,
not wider than the Data, gets the low bits. `WideLostOnlyAfterError`: a 64-bit integer
is lost only when `errno` was set, by what came before the file, by a double or in an
odd string before it, and no number parsed since has cleared it.

### `Variant` and `ValueHolder`

A variant is its members (`type_`, `m_proxy`, `trivial_`) and its buffer, which has an
object of some type or none. `DestructObject`, `ConstructObject` and `AssignObject` are
what the proxy function does to a buffer; doing it to a buffer that has not the object
it expects leaves the buffer `Broken` for good. The members of the class (`construct`,
`set`, `destruct`, `copy_from`, `MovedFrom`) are functions on such records, the actions
are calls of them, on one variant or on two, which may be the same.

`NothingBroken`: no object is destroyed twice, or used before it is constructed.
`ObjectsOwned`: an object with a destructor is in a variant that will call it, unless
a move has left it there (the move forgets the type of its source without destroying
the object). `HoldsOneValue`: the variants implement `ValueHolder`, where storing,
emptying, copying and moving are what their names say.

## 3. The runs

| Run | Question | Distinct states |
|---|---|---|
| `core` | `OkMeansSaved`, `BackendsAgree`, `FreshForRequester`, `LastProcMonotone`, `WritesInTransactions`: two sets with a record in common, three backends that may fail and are listed once each, changing and unreadable records, the periodic thread against a record | 3.2 million |
| `live` | `WritesInTransactions`, `TransactionsEnd`, `RequestServed`, `StatusRecordCurrent`: two sets with a backend in common, which one lists twice, a read-only backend, a periodic thread, a shell and a record; records that show the status and the time of a set, and one whose INP is refused; lock sets apart | 174 792 |
| `timer` | `SavedInTime` and its invariant: periods 10, 15 and 45 s, sleeps up to 30 s | 20 187 |
| `restore_files` | `FileHoldsOneSave`, `SavedIsReadBack`, `RestoresWhatWasGiven`, `FilesAreDurable`: a text and a JSON file, a PV list edited between processes and once with a channel twice, strings of two lines whose second one is an entry for another record, an unreadable record | 1.6 million |
| `restore_server` | `RestoresWhatWasGiven`, `FilesAreDurable`: a server and a JSON file, a device that fills up, strings with quotes that end the parse or make a member for another record | 1.6 million |
| `ioc_init` | `LastSetOwnsAddresses`, `OneSetKeepsValuesApart`, `BootValuesKept`: any script, any order of sets, pauses, late commands, saves at any moment, a put that processes a record that saves | 6.1 million |
| `conversions` | `SameTypeKeepsValue`, `NarrowerKeepsLowBits`, `WideLostOnlyAfterError`: every file of two entries | 842 559 |
| `variant` | `NothingBroken`, `ObjectsOwned`, `HoldsOneValue`: three variants, every sequence of calls | 56 968 |
| `deadlock` | `RequestServed` when a saved record is in the lock set of the control record: **violated** | |
| `two_sets` | `ChannelsKeepValuesApart`: **violated** | |
| `restore_from_all` | `RestoresFromAll`: **violated** | |
| `restore_ok` | `OkMeansOnDisk`: **violated** | |

The four violations are findings in `PROJECT.json`:

1. *Deadlock.* `saveControl_write` waits for the guard while it holds the lock set
   of the control record; the periodic thread holds the guard and waits in `get`
   for the lock set of a saved record. When these are one lock set (any link
   between a saved record and the control record merges them) both wait for
   ever. The `deadlock` run switches deadlock checking off for the reason that it
   checks the temporal property, which names who is not served.
2. *Two sets.* Every `connect` overwrites the addresses of the sets before it, or
   leaves their channels with pointers to freed memory; a save or a restore of the
   first set then works on the records of the second one, or follows a null pointer.
   An IOC with one set is safe (`OneSetApart`).
3. *First backend only.* `restore` takes a backend whose `beginRead` succeeds for one
   that has restored. Opening a file creates it, so an empty or lost first file, or
   an HTTP backend in first place, hides every backend after it.
4. *Full device.* `endWrite` ignores the result of `fflush`, so a save whose entries
   never reached the file, which has been truncated, ends with status 0.

Also seen, without a run of its own: neither format escapes the text of a string. One
with a double quote makes the rest of a JSON file unreadable or puts a member of its own
into it, one with a newline puts a line of its own into a text file, and a record may be
restored from such a member or line. `FileStore` has it so (`EndsParse`, `Rest`);
`restore_files` and `restore_server` have such strings and show that a record gets no
other value than its own or one that stands in a string of the same save. No part of the
repository says which strings can be kept.

Deadlock checking is off in three more runs, where the system may really stop:
`ioc_init` and `two_sets` (the process crashes, or the commands that the bounds allow
have been given) and `conversions` (nothing is left to put).

### Bounds, and why they are enough

- *Two contexts*: all that a context has to do with another is the guard, the
  backends they share, a record they share and the order of the loop. *Two backends
  in one set*: the loop over `ios` goes on after a failure, before and after a
  success. *Two channels*: the first and a later one, so that a record changes
  between the reads.
- *Threads*: two saves that compete, one of each kind of caller in `core`; three
  where the order of waiting matters (`live`).
- *`StatusRecs`*: one record that shows a status, one that shows a time, one that is
  not scanned. Records do not act on each other, so more of a kind add nothing.
- *`MaxClock`*: with periods 1 and 2 and a boot time of 5, readings 5 and 6 give
  sets that are due, not due, and due by one clock reading and not by an older one. The
  clock starts above every period, as in the program, where `lastProc_` is zero and
  the clock is years later; so the first pass saves every set.
- *`MaxVersion`*: one change of each record tells an old from a new value.
- *`SaveTimer`*: lateness 2, passes of up to 3 s. The periods are the shortest that
  `pvSave_CreatePvSet` accepts, one that wake-ups of another set miss, and one
  longer than `MaxSleep`.
- *`SaveRestore`*: two channels, so that a save can be cut short before, between and
  after them and a list can lose or repeat one; one file of each format, in the runs
  where two backends matter; two plain values, so that an old save differs from a new
  one, and the `Inputs` of a run say which of its odd strings a record may become: one
  of two lines in `restore_files`, two with quotes in `restore_server` (one `Closed`,
  one not), each with a `Rest` for another record that is listed as well. One record is
  `Unreadable` in `restore_files`. The number of processes is not bounded. The other
  kinds occur in the theorems and not in the runs: for the readers they are cut, or
  not found, as one of these is.
- *`IocInit`*: two sets are what it takes for one `connect` to disturb another; two
  records and a name without one (`MaxPvs`) give lists that grow, repeat a name and
  have a hole; one backend (`MaxIOs`) that both sets may share. `LateSets` lets one
  set be configured after `iocInit`, `OnePvs` and the one `.pvl` file say what may be
  added. `MaxTimers`: the first `iocRun` and one after a pause. A put to one of the
  records processes both, the other is a control record (`Linked`, `Savers`); a save
  from a put in pass 1 occurs, for without `save.put` in it `BootValuesKept` is violated.
- *`Conversions`*: integers of 2, 4, 8 and 16 values stand for those of 8, 16, 32 and 64
  bits (`Sizes`): each wider than the one before is all that truncation and sign
  extension need, and all that `ConversionAssumption` asks. Two `Entries`: what
  the parsing of one leaves for the next.
- *`Variant`*: a call has at most two variants, the third is there so that both may
  have a past with another one; two types with objects, and one without.

No symmetry is used: liveness is checked, and contexts, backends and records occur
in sequences.

### Fairness

`FairSpec` assumes weak fairness of `SaveStep(t)`: calls on backends and on
the data source return, so a thread inside a save goes on unless it waits for a
scan lock. `Return(t)` and `ProcessStatus(r)` are weakly fair: record processing
comes to an end and queued callbacks are run. `Lock(t)` is strongly fair: the guard
is an `epicsMutex`, and a thread blocked on it is not passed over for ever although
others take it in between; weak fairness would not do, for the guard is not free
all the time. Nothing is assumed to make a request arrive, the periodic thread
wake, a record change or time pass.

## 4. The proofs

TLAPS checks them for every value of the constants, from the assumptions
that the modules state of their constants (shapes of the configuration: sequences over
the right sets, natural periods, thread kinds that are disjoint, a `Free` that is no
thread, INPs of a status record, formats and kinds that are among those named, a `Cut`
that is itself read back whole, records that are among the names, types that are
trivial or not; integers of each width of which there is an even number, and at least
twice as many as of the width before, as 2^8, 2^16, 2^32 and 2^64 are).

- `TypeCorrect`. `TypeOK` is not inductive: `ctx` may be `NumContexts` between two
  saves, and `ChannelsOf[ctx[t]]` then has no meaning. `LoopInv` adds that a thread
  inside `save()` works for a context that exists.
- `GuardInvAlways` (`GuardInv`): exactly the holder of the guard is between taking
  and releasing it. The other results about `SaveEngine` rest on it.
- `SaveTimesMonotone`. A periodic thread stores a reading it took before it waited.
  `TimeInv` says why no stamp goes back: no `now` and no stamp is in the
  future; a requester's `now` was read under the guard and is not before any stamp;
  and a periodic thread inside `save()` has found the context due, so its `now` is
  not before that context's stamp.
- `StatusRecordsCurrent`. `StatusInv`, which says of every scanned record that it shows
  what it would read now, is inductive beside `GuardInv`: while the guard is free no
  thread is inside a save, so the status can have changed only before a `Notify`, which queues every scanned record in the step that frees the
  guard. What a record reads depends on nothing but the status and itself
  (`ReadingStill`); `ReadingType` is the case analysis over the kinds of records. For
  the records of one set `StatusInv` gives `StatusRecordCurrent`; of the others it says
  nothing of interest, and the theorem does not speak of them.
- `StatusIsTrue`, `BackendsAreCopies` and `RequestsAreFresh` (`SaveProgressProofs`).
  The three properties speak of contexts that are not being saved, so none of them
  says anything of the steps that make it true. `ProgressInv` does: as long as nothing
  has failed, the first loop of `save()` has begun every backend it has passed, the
  second has stored every channel it has passed in all of them, one value that is not
  older than what was asked for (`Kept`), and the inner loop has handed the value just
  read to the backends it has passed. A list may repeat a channel, whose backends
  differ while it is written for the second time: `StoredInv` leaves it out until then.
  `LoopsInv` has the locals of the loops, so that "passed all" is what it seems when a
  loop ends. At `FinishSave` `Kept` holds of every channel, and passes to `ContextInv`,
  for a context at rest, and to `RequestInv`, for the contexts that a request is done
  with. `GuardInv` shows that no other save runs meanwhile, and `Unshared` that a later
  one of another context touches no backend of this one. TLC has checked all of
  them on the instance of `core`.
- `SaveImplementsContract`: `SaveEngine` implements `IOContract`, for any sharing of
  backends between sets and within one. The invariant is `LocalsInv`: outside a
  transaction `ios` is empty, and it holds only backends the first loop has passed. A
  backend that the first loop meets in `ios` is `Relisted` (`BegunIsRelisted`), and
  while that loop runs what has been begun is empty (`EmptyInv`), so `MayBegin` holds.
  When a backend is ended that stands in `ios` once more, the step is a stutter. With
  `GuardInv` only one thread has a non-empty `ios`, so `Open` is a function of that
  thread's locals, and `BeginWrite`, `WriteData` and `EndWrite` map to a step of
  `IOContract` or a stutter, all others to a stutter. That nothing is written but what
  was read needs `DataInv`.
- `TimerTypes`, `TimerInvAlways` and `SavedInTimeAlways`. `SavedInTime` alone is not inductive;
  `TimerInv` relates the age of a set to the time left of the sleep, and says what
  the part of a pass that is over has done. It is also checked by the `timer` run.
- `SaveRestoreProofs`. `Inv` is `TypeOK` and `LoopInv` (`save()` works on a channel it
  has). `OneSaveInFile` needs a statement about `stream`, not only about its part
  on disk: `StreamHoldsOneSave` says that the stream embeds in `given`, in order;
  an append extends the embedding by one place, a failed write leaves a gap, a
  truncation starts both anew. `SavedCanBeReadBack` rests on `SoundInv`: while
  `sound` holds the file *is* what was given, all of it, so that the least index
  that `pvs.insert` keeps is that of the first value given. `RestoredWasGiven` takes
  `StreamHoldsOneSave` through the readers: what is found is made of an entry of the
  file or of the torn one, or is the `Rest` of one, and that is an entry of `given`.
  `SaveImplementsDurableCopy` rests on both: no step takes back what is in a file (`FileGains`, where the embedding
  gives the order), a write finds the transaction not complete, and the `endWrite` that
  makes `sound` true makes the file what was given. It holds for a backend that is in
  the set twice, too, which `endWrite` may find full the second time.
- `IocInitProofs`. Four theorems from one invariant. `TypeInv` adds to `TypeOK` that a
  pointer into the present block leads to a cell and that no block is newer than the
  present one (`CellsInv`), and that no save runs before `AfterInitDatabase` is
  over, unless it is part of a put (`OrderOK`). `LastSetAddressed`: `LastSetOwnsAddresses` is inductive beside it,
  for only `Connect` touches the vector, and it makes its set the last one.
  `BootValues` needs `DueInv`: which sets may still be due in each phase of boot; the
  commands that run later cannot make one due. `OneSetApart` needs
  `LastSetOwnsAddresses`: the one set is the last one, so each channel leads to its record (`OwnAddress`), and what `restore` holds in its
  hands (`OwnPvs`) is also by name.
- `ConversionsProofs`. What the module does with numbers is `Wrap`, chosen as the value
  of a type that has the same low bits: `SomeValue` says that there is one and
  `SameBits` that there is no other, so that a value of the type is its own `Wrap`
  (`WrapFacts`). With `DataInv` (what is read of an entry is its text, or nothing, but for odd
  strings), the
  four theorems come from one lemma for each way that a `Put` can go: the same type
  (`PutSameType`), a narrower one (`PutNarrower`), any (`PutInType`). The index of an
  enum, which is saved in the low half of an integer, fits it (`FieldInData`).
  `ErrnoInv` (when `errno` is set after n entries, `ErrnoLeft(n)` says how it came to
  be) carries `WideLost` through a file of any length.
- `VariantProofs`. The invariant is `Sound` for each variant: it is empty, with a buffer
  that may be used again, or has a type, the function and the flag of that type, and
  an object of it. `Clean` adds that an empty variant that no move has emptied has no
  object left. `TypeCorrect`, `Lifetimes` and `OwnersKeepObjects` follow, and so does
  `VariantHolds`, call by call.

Only model-checked: `RequestServed` and `TransactionsEnd`, which are liveness properties
under fairness and beyond this prover. Every invariant, action property and refinement
that a passing run checks is also a theorem.

## 5. Assumptions about the environment

- `epicsTimeGetCurrent` does not go back. If it does, `LastProcMonotone` need not
  hold.
- `epicsThreadSleep` of zero or less returns at once; it is late by at most `Late`.
  One pass of the periodic thread, its wait for the guard included, takes at most
  `Busy`. These are parameters of the result, not limits in the code: no timeout
  bounds a backend.
- Backends are not shared between IOCs, and the files are not edited by hand.
- In `SaveEngine` a backend reports its own failures. That `fileSystemIO` does not
  always do so is in `FileStore` and finding 4.
- A kill inside `writeData` leaves what a kill before it or after it may leave; `torn`
  stands for every part of an entry that stdio may have written out.
- A device is freed only between saves, and when no stream has an entry left that it
  failed to write: what the C library does with such a buffer is not modelled. It
  can fill up at any step.
- Records keep their types between boots.
- What a put processes ends (`Linked` and `Savers` say what it is); EPICS base processes
  a record that a put has found busy later, which is a `ChangeValue`.
- Sets, channels and backends do not change while `SaveEngine` saves. The shell
  commands do not prevent it: `IocInit` has them between the steps of a save, but
  begins a save on all backends of a set in one step, so that a backend added in the
  middle of that loop is not explored.
- `SaveEngine` reads the record that a channel is named after. By `OneSetApart` this is
  so in an IOC with one monitor set, or with sets whose channels are not disturbed;
  what happens otherwise is in `IocInit`.
- A longin status record has an INP that was accepted: otherwise its read routine
  follows a null pointer.
- libCom's parsers clear `errno`, refuse what is out of range and take a subnormal
  float or not, as the C library does; the first byte of the Data is the lowest.
- A variant is used by one thread at a time, its types can be copied, and nothing but
  its members touches the buffer.

## 6. Plan

The parts of the system that keep state are modelled, and what the passing runs check is
proved but for liveness. What is left:

1. `BeginSave` of `IocInit` one backend at a time.
2. Fields that are arrays, of which `put` and `get` move one element.

## 7. Not modelled

- Reports, logging and the registration of shell commands only print, and so do the
  arguments of commands that are refused.
- `pvSave_SetThreadPriority`: the priority is read when the thread is created and
  nowhere else. (`s_threadId` is never assigned, so the command accepts a priority when
  it is too late.)
- libcurl, stdio and EPICS base are external; the models say what they may do where
  pvSave calls them. Of `httpIO` the URL, the headers, the form of the body and the
  configuration command are left out: no state depends on them, as `readData` fails.
- Of text serialization the digits of a number, and the functions for PVXS values and
  names of DBF types, which nothing in the program calls.
- In `Conversions`, a put that the record refuses (it changes nothing), the bits of
  a float in a field of another type (any value), and array fields: `get` asks for 41
  elements of a string field, which for an array of strings is more than its buffer
  (`dataSourceDb.cpp` 165-169).
- In `Variant`, types that are not among its parameters, which may not fit the buffer,
  and types that cannot be assigned to by a move.
- The memory that a write to a wrong address would damage: `IocInit` ends there.
- Build files, the Python test server and the comparison script are not part of the
  running system.
