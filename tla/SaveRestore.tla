----------------------------- MODULE SaveRestore -----------------------------
(***************************************************************************)
(* One monitor set over the life of several IOC processes: boot, restore   *)
(* from the backends, saves to the backends, and the end of the process at *)
(* any moment.  The save is SaveContext::save as in SaveEngine, here with  *)
(* backends that are those of FileStore; the restore is both forms of      *)
(* SaveContext::restore.                                                   *)
(***************************************************************************)
EXTENDS FileStore

CONSTANTS
  IOList,    \* the io vector of the monitor set
  Lists,     \* channels_ a process may be configured with
  Initial,   \* Initial[p]: value of the record after the database is loaded
  Inputs,    \* Inputs[p]: values that the record changes to
  Unreadable,\* records whose dbGetField may fail
  Default,   \* Default[p]: value of a default-constructed Data of the record's type
  MayFill    \* backends whose device may fill up

ASSUME SetAssumption ==
  /\ IOList \in Seq(IOs)
  /\ Lists \subseteq Seq(PVs)
  /\ Initial \in [PVs -> Values]
  /\ Inputs \in [PVs -> SUBSET Values]
  /\ Unreadable \subseteq PVs /\ Default \in [PVs -> Values]
  /\ MayFill \subseteq Files

VARIABLES
  phase,     \* "down", "restore", "idle", or a loop of save(): "begin", "write", "end"
  channels,  \* channels_
  value,     \* value[p]: the record's present value
  next,      \* loop position in the io vector, then in ios
  chan,      \* channels read by the present save
  ios,       \* local `ios` of save()
  data,      \* local `data` of save()
  status,    \* lastStatus_
  restored,  \* history: restored[p]: value put by this process's restore, or Absent
  given,     \* history: given[io]: entries handed to io since it last began
  sound      \* history: sound[io]: io's last transaction has ended, and the
             \* device was not full when it did

context == <<channels, value>>
loops == <<next, chan, ios, data>>
history == <<restored, given, sound>>
vars == <<store, phase, context, loops, status, history>>

Init ==
  /\ StoreInit
  /\ phase = "down"
  /\ channels = <<>>
  /\ value = Initial
  /\ next = 1 /\ chan = 0 /\ ios = <<>> /\ data = Absent
  /\ status = 0
  /\ restored = [p \in PVs |-> Absent]
  /\ given = [io \in IOs |-> <<>>]
  /\ sound = [io \in IOs |-> FALSE]

-----------------------------------------------------------------------------
(***************************************************************************)
(* The life of the process.                                                *)
(***************************************************************************)

Boot ==
  /\ phase = "down"
  /\ phase' = "restore"
  /\ channels' \in Lists
  /\ value' = Initial
  /\ next' = 1
  /\ status' = 0
  /\ restored' = [p \in PVs |-> Absent]
  /\ UNCHANGED <<store, chan, ios, data, given, sound>>

\* A kill, an exit or a crash of the IOC.
Die ==
  /\ phase # "down"
  /\ phase' = "down"
  /\ ProcessEnds
  /\ channels' = <<>>
  /\ next' = 1 /\ chan' = 0 /\ ios' = <<>> /\ data' = Absent
  /\ UNCHANGED <<value, status, history>>

ChangeValue(p) ==
  /\ phase # "down"
  /\ value' \in {[value EXCEPT ![p] = v] : v \in Inputs[p]}
  /\ UNCHANGED <<store, phase, channels, loops, status, history>>

-----------------------------------------------------------------------------
(***************************************************************************)
(* restore(): the first backend whose beginRead() succeeds is used,        *)
(* whatever readData() then says.                                          *)
(***************************************************************************)

Listed(p) == \E i \in DOMAIN channels : channels[i] = p

\* put() of what was found; without data it returns at once.
Put(p, v) == IF v = Absent THEN value[p] ELSE v

RestoreFrom(io, pvs) ==
  /\ Open(io)
  /\ restored' = [p \in PVs |-> IF Listed(p) THEN pvs[p] ELSE Absent]
  /\ value' = [p \in PVs |-> Put(p, restored'[p])]
  /\ phase' = "idle" /\ next' = 1
  /\ UNCHANGED <<stream, onDisk, torn, full, channels, chan, ios, data, status, given, sound>>

Restore ==
  /\ phase = "restore" /\ next <= Len(IOList)
  /\ \E pvs \in ReadResults(IOList[next]) : RestoreFrom(IOList[next], pvs)

\* beginRead() of the backend fails: fopen or curl_easy_init does.
BeginReadFails ==
  /\ phase = "restore" /\ next <= Len(IOList)
  /\ ~handle[IOList[next]]
  /\ next' = next + 1
  /\ UNCHANGED <<store, phase, context, chan, ios, data, status, history>>

\* No backend was able to restore, or the set has been given no stage.
NoRestore ==
  /\ phase = "restore" /\ next \in {1, Len(IOList) + 1}
  /\ phase' = "idle" /\ next' = 1
  /\ UNCHANGED <<store, context, chan, ios, data, status, history>>

-----------------------------------------------------------------------------
(***************************************************************************)
(* save().                                                                 *)
(***************************************************************************)
Goto(loop) == phase' = loop /\ next' = 1

StartSave ==
  /\ phase = "idle"
  /\ Goto("begin")
  /\ chan' = 0 /\ ios' = <<>> /\ status' = 0
  /\ UNCHANGED <<store, context, data, history>>

CountFailure == status' = status + 1  \* mutant: one count per failure
Failed == status' = 1

BeginWrite(io) ==
  /\ phase = "begin" /\ next <= Len(IOList) /\ io = IOList[next]
  /\ next' = next + 1
  /\ \/ /\ StoreBegins(io) /\ ios' = Append(ios, io) /\ UNCHANGED status
        /\ given' = [given EXCEPT ![io] = <<>>]
        /\ sound' = [sound EXCEPT ![io] = FALSE]
     \/ /\ StoreBeginFails(io) /\ Failed /\ UNCHANGED <<ios, given, sound>>
  /\ UNCHANGED <<phase, context, chan, data, restored>>

\* The loop of the backends is over: on with the next channel, or to the end.
LoopDone ==
  \/ phase = "begin" /\ next > Len(IOList)
  \/ phase = "write" /\ next > Len(ios)

\* A read that fails leaves the default value, and nobody is told.
ReadChannel ==
  /\ LoopDone /\ chan < Len(channels)
  /\ chan' = chan + 1
  /\ LET p == channels[chan + 1] IN
     \/ data' = value[p]
     \/ p \in Unreadable /\ data' = Default[p]
  /\ Goto("write")
  /\ UNCHANGED <<store, context, ios, status, history>>

WriteData(io) ==
  LET p == channels[chan] IN
  /\ phase = "write" /\ next <= Len(ios) /\ io = ios[next]
  /\ next' = next + 1
  /\ \/ StoreWrites(io, p, data) /\ UNCHANGED status
     \/ StoreWriteFails(io, p, data) /\ Failed
  /\ given' = [given EXCEPT ![io] = Append(@, Entry(p, data))]
  /\ UNCHANGED <<phase, context, chan, ios, data, restored, sound>>

EndWrites ==
  /\ LoopDone /\ chan = Len(channels)
  /\ data' = Absent
  /\ Goto("end")
  /\ UNCHANGED <<store, context, chan, ios, status, history>>

EndWrite(io) ==
  /\ phase = "end" /\ next <= Len(ios) /\ io = ios[next]
  /\ next' = next + 1
  /\ StoreEnds(io)
  /\ sound' = [sound EXCEPT ![io] = @ \/ ~full[io]]
  /\ UNCHANGED <<phase, context, chan, ios, data, status, restored, given>>

FinishSave ==
  /\ phase = "end" /\ next > Len(ios)
  /\ Goto("idle")
  /\ chan' = 0 /\ ios' = <<>>
  /\ UNCHANGED <<store, context, data, status, history>>

\* A device may fill up at any time.  It is freed between two saves, and when no
\* entry is in the buffer of a stream that has failed to write it: what the
\* library does with such a buffer is its own affair.
Device(io) ==
  /\ \/ io \in MayFill /\ DeviceFills(io)
     \/ /\ DeviceFreed(io) /\ phase \in {"down", "restore", "idle"}
        /\ handle[io] => onDisk[io] = Len(stream[io])
  /\ UNCHANGED <<phase, context, loops, status, history>>

Save ==
  \/ StartSave \/ ReadChannel \/ EndWrites \/ FinishSave
  \/ \E io \in IOs : BeginWrite(io) \/ WriteData(io) \/ EndWrite(io)

Next ==
  \/ Boot \/ Die
  \/ Restore \/ BeginReadFails \/ NoRestore
  \/ Save
  \/ \E p \in PVs : ChangeValue(p)
  \/ \E io \in IOs : Device(io)

Spec == Init /\ [][Next]_vars

-----------------------------------------------------------------------------
(***************************************************************************)
(* Properties.                                                             *)
(***************************************************************************)

\* What the variables hold.
TypeOK ==
  /\ StoreTypes
  /\ phase \in {"down", "restore", "idle", "begin", "write", "end"}
  /\ channels \in Lists \union {<<>>}
  /\ chan \in 0..Len(channels)
  /\ ios \in Seq(IOs)
  /\ next \in 1..(Len(IOList) + 1)
  /\ value \in [PVs -> Values]
  /\ data \in Values \union {Absent}
  /\ status \in {0, 1}
  /\ restored \in [PVs -> Values \union {Absent}]
  /\ given \in [IOs -> Seq(Entries)]
  /\ sound \in [IOs -> BOOLEAN]

\* The first n entries of s are entries of t, in the order of t.
Embeds(s, n, t) ==
  \E f \in [1..n -> 1..Len(t)] :
    /\ \A i, j \in 1..n : i < j => f[i] < f[j]
    /\ \A i \in 1..n : s[i] = t[f[i]]

\* The entries of a file are entries of one transaction, in its order: nothing
\* of an earlier save is left in a file that is truncated and not replaced,
\* however saves were cut short by the end of the process or by a full device.
FileHoldsOneSave ==
  \A io \in Files : Embeds(stream[io], onDisk[io], given[io])

\* The first value that a transaction gave io for channel p.
FirstGiven(io, p) ==
  LET hits == {i \in DOMAIN given[io] : given[io][i].pv = p} IN
  given[io][CHOOSE i \in hits : \A j \in hits : i <= j].value

Plain(io) == \A i \in DOMAIN given[io] : Kind[given[io][i].value] = "plain"
Given(io) == {given[io][i].pv : i \in DOMAIN given[io]}

\* Once endWrite has returned, and until the next beginWrite, a backend reads
\* back the first plain value it was given for each channel, and nothing for
\* any other, in both formats and whatever becomes of the process and the
\* device.
SavedIsReadBack ==
  \A io \in Files : sound[io] /\ Plain(io) =>
    \A pvs \in ReadResults(io), p \in PVs :
      pvs[p] = IF p \in Given(io) THEN FirstGiven(io, p) ELSE Absent

Restoring(io) == phase = "restore" /\ phase' = "idle" /\ handle'[io] /\ ~handle[io]

IsTorn(io, e) == Format[io] = "text" /\ torn[io] /\ e = stream[io][onDisk[io] + 1]

\* Entry e may be read back as something other than its value.
MayBeCut(io, e) ==
  \/ Kind[e.value] \in {"quoted", "escaped"}
  \/ Format[io] = "text" /\ Kind[e.value] \in {"spaced", "split"}
  \/ Format[io] = "json" /\ Kind[e.value] = "opening"
  \/ IsTorn(io, e)

ReadsAs(io, e, p, v) ==
  e.pv = p /\ (v = e.value \/ (v = Cut /\ MayBeCut(io, e)))

\* The text of e is read as an entry of its own as well, one for p.
SpillsAs(io, e, p, v) ==
  LET rest == Rest[Format[io]][e.value][p] IN
  rest # Absent /\ (v = rest \/ (v = Cut /\ IsTorn(io, e)))

\* What restore() puts into a record is a value that the backend was given for
\* that very record in its last transaction; part of a value only if the format
\* cannot hold the value, or if a text file ends in the middle of it; and what
\* was given for another record only where the text of a string holds a line, or
\* a member of a JSON object, that names the record.
RestoresWhatWasGiven ==
  [][\A io \in IOs : Restoring(io) =>
       \A p \in PVs : restored'[p] # Absent =>
         \E i \in DOMAIN given[io] : \/ ReadsAs(io, given[io][i], p, restored'[p])
                                    \/ SpillsAs(io, given[io][i], p, restored'[p])]_vars

\* The interface says of beginWrite, writeData and endWrite that they return
\* "True on success": when all of them have, everything is in the files.
OkMeansOnDisk ==
  phase = "end" /\ next > Len(ios) /\ status = 0 =>
    \A i \in DOMAIN ios : ios[i] \in Files => onDisk[ios[i]] = Len(given[ios[i]])

\* "Restore data from all registered I/O backends": a listed channel that is
\* not restored has no value in any of the files.
RestoresFromAll ==
  [][\A io \in IOs : Restoring(io) =>
       \A p \in PVs : Listed(p) /\ restored'[p] = Absent =>
         \A k \in DOMAIN IOList : \E pvs \in ReadResults(IOList[k]) : pvs[p] = Absent]_vars

\* The files are durable copies of what they are given: whatever becomes of the
\* process and the device, what has reached a file stays until the next
\* beginWrite, and after endWrite on a device with room it is all of the save.
Copies == INSTANCE DurableCopy
            WITH Media <- Files,
                 handed <- [io \in Files |-> given[io]],
                 kept <- [io \in Files |-> InFile(io)],
                 complete <- [io \in Files |-> sound[io]]
FilesAreDurable == Copies!Spec

=============================================================================
