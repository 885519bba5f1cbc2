-------------------------- MODULE SaveRestoreProofs --------------------------
(***************************************************************************)
(* Theorems about SaveRestore, for all backends, channel lists and values: *)
(* its types; a file holds the entries of one transaction only; what a     *)
(* finished save and a restore are worth; the files are durable copies.    *)
(***************************************************************************)
EXTENDS SaveRestore, TLAPS, SequenceTheorems, WellFoundedInduction

\* A non-empty set of natural numbers has a least element.
LEMMA Least ==
  ASSUME NEW S \in SUBSET Nat, S # {}
  PROVE  \E i \in S : \A j \in S : i <= j
<1>1. PICK i \in S : \A j \in S : ~(<<j, i>> \in OpToRel(<, Nat))
  BY NatLessThanWellFounded, WFMin
<1>2. \A j \in S : ~(j < i)
  BY <1>1 DEF OpToRel
<1>. QED  BY <1>2

FileFormats == {"text", "json"}

LEMMA ReadType ==
  ASSUME StoreAssumption, NEW e \in Entries, NEW p \in PVs, NEW format \in FileFormats
  PROVE  Read(format, e, p) \in Values \union {Absent}
<1>1. e.value \in Values
  BY DEF Entries
<1>2. ReadBack(format, e.value) \in Values \union {Absent}
  BY <1>1 DEF ReadBack, TextValue, JsonValue, StoreAssumption
<1>3. Rest[format][e.value][p] \in Values \union {Absent}
  BY <1>1 DEF StoreAssumption, FileFormats
<1>. QED  BY <1>2, <1>3 DEF Read

\* What is read of a file of entries is, for each channel, nothing or what is
\* read of one of them.
LEMMA FoundFrom ==
  ASSUME NEW s \in Seq(Entries), NEW format, NEW p, Found(format, s, p) # Absent
  PROVE  \E i \in 1..Len(s) : Found(format, s, p) = Read(format, s[i], p)
<1>. DEFINE hits == {i \in DOMAIN s : Read(format, s[i], p) # Absent
                                      /\ Parsable(format, s, i)}
<1>1. DOMAIN s = 1..Len(s) /\ Len(s) \in Nat
  BY LenProperties
<1>2. hits # {} /\ Found(format, s, p) = Read(format, s[Kept(hits)], p)
  BY DEF Found
<1>3. Kept(hits) \in hits
  <2>1. hits \in SUBSET Nat
    BY <1>1
  <2>. HIDE DEF hits
  <2>. QED  BY <1>2, <2>1, Least DEF Kept, KeepFirst
<1>. QED  BY <1>1, <1>2, <1>3

LEMMA FoundType ==
  ASSUME StoreAssumption, NEW s \in Seq(Entries), NEW p \in PVs, NEW format \in FileFormats
  PROVE  Found(format, s, p) \in Values \union {Absent}
<1>1. SUFFICES ASSUME Found(format, s, p) # Absent
               PROVE  Found(format, s, p) \in Values \union {Absent}
  OBVIOUS
<1>2. PICK i \in 1..Len(s) : Found(format, s, p) = Read(format, s[i], p)
  BY <1>1, FoundFrom
<1>3. s[i] \in Entries
  BY <1>2, ElementOfSeq
<1>. QED  BY <1>2, <1>3, ReadType

\* The maps that a backend may return from readData.
LEMMA ReadResultsType ==
  ASSUME StoreAssumption, NEW io \in IOs,
         stream[io] \in Seq(Entries), onDisk[io] \in Nat,
         onDisk[io] <= Len(stream[io]),
         NEW pvs \in ReadResults(io)
  PROVE  pvs \in [PVs -> Values \union {Absent}]
<1>1. InFile(io) \in Seq(Entries)
  BY SubSeqProperties, ElementOfSeq DEF InFile
<1>2. CASE io \in Files
  <2>1. Format[io] \in FileFormats
    BY <1>2 DEF StoreAssumption, Files, FileFormats
  <2>2. \A p \in PVs : Found(Format[io], InFile(io), p) \in Values \union {Absent}
    BY <1>1, <2>1, FoundType
  <2>3. Whole(io) \in [PVs -> Values \union {Absent}]
    BY <2>2 DEF Whole
  <2>4. TornRests(io) \subseteq [PVs -> Values \union {Absent}]
    BY DEF TornRests
  <2>. QED  BY <1>2, <2>3, <2>4 DEF ReadResults
<1>3. CASE io \notin Files
  BY <1>3 DEF ReadResults, NothingRead, NoRest
<1>. QED  BY <1>2, <1>3

-----------------------------------------------------------------------------
\* Where the loops of save() and restore() are.  TypeOK is not inductive without
\* it: WriteData looks at channels[chan] and at the value read last.
LoopInv ==
  /\ phase \in {"down", "restore", "idle", "begin"} => chan = 0
  /\ phase = "write" => chan > 0 /\ data \in Values
  /\ phase = "begin" => Len(ios) < next
  /\ Len(ios) <= Len(IOList)

Inv == TypeOK /\ LoopInv
Assumptions == StoreAssumption /\ SetAssumption

LEMMA InitInv ==
  ASSUME Assumptions, Init
  PROVE  Inv
<1>1. Len(IOList) \in Nat
  BY LenProperties DEF Assumptions, SetAssumption
<1>. QED
  BY <1>1, EmptySeq DEF Init, StoreInit, Inv, StoreTypes, TypeOK, LoopInv, Assumptions, SetAssumption

-----------------------------------------------------------------------------
(***************************************************************************)
(* The operations of FileStore keep the types of what is stored.           *)
(***************************************************************************)
\* Writing out a part of s, which has at least the entries that are in the file.
LEMMA ReachesType ==
  ASSUME StoreTypes, NEW io \in IOs, NEW s \in Seq(Entries), NEW n, NEW t \in BOOLEAN,
         Reaches(io, s, n, t), stream' = [stream EXCEPT ![io] = s]
  PROVE  /\ stream' \in [IOs -> Seq(Entries)]
         /\ onDisk' \in [IOs -> Nat]
         /\ torn' \in [IOs -> BOOLEAN]
         /\ \A k \in IOs : /\ onDisk'[k] <= Len(stream'[k])
                           /\ torn'[k] => onDisk'[k] < Len(stream'[k])
<1>1. Len(s) \in Nat /\ n \in Nat /\ n <= Len(s) /\ (t => n < Len(s))
  BY LenProperties DEF Reaches, StoreTypes
<1>. QED  BY <1>1 DEF Reaches, StoreTypes

LEMMA ReachesFurther ==
  ASSUME StoreTypes, NEW io \in IOs, NEW s \in Seq(Entries), NEW n, NEW t,
         Reaches(io, s, n, t), NEW k \in IOs
  PROVE  onDisk[k] <= onDisk'[k]
<1>1. Len(s) \in Nat /\ onDisk[io] \in Nat /\ onDisk[k] \in Nat
  BY LenProperties DEF StoreTypes
<1>2. n \in Nat /\ onDisk[io] <= n /\ onDisk' = [onDisk EXCEPT ![io] = n]
  BY <1>1 DEF Reaches
<1>. QED  BY <1>1, <1>2 DEF StoreTypes

\* A beginWrite that fails may write out some of the buffer.
LEMMA BeginFailsReaches ==
  ASSUME StoreTypes, NEW io \in IOs, StoreBeginFails(io)
  PROVE  /\ stream' = stream /\ full' = full
         /\ \/ UNCHANGED <<onDisk, torn>>
            \/ \E n, t : t \in BOOLEAN /\ Reaches(io, stream[io], n, t)
BY DEF StoreBeginFails, Spill

LEMMA BeginsType ==
  ASSUME StoreTypes, NEW io \in IOs, StoreBegins(io) \/ StoreBeginFails(io)
  PROVE  StoreTypes'
<1>1. <<>> \in Seq(Entries) /\ Len(<<>>) = 0
  BY EmptySeq
<1>2. CASE StoreBeginFails(io)
  <2>1. handle' \in [IOs -> BOOLEAN] /\ stream' = stream /\ full' = full
    BY <1>2 DEF StoreTypes, StoreBeginFails, Open
  <2>2. CASE UNCHANGED <<onDisk, torn>>
    BY <2>1, <2>2 DEF StoreTypes
  <2>3. CASE \E n, t : t \in BOOLEAN /\ Reaches(io, stream[io], n, t)
    <3>1. PICK n, t : t \in BOOLEAN /\ Reaches(io, stream[io], n, t)
      BY <2>3
    <3>2. stream[io] \in Seq(Entries) /\ stream' = [stream EXCEPT ![io] = stream[io]]
      BY <2>1 DEF StoreTypes
    <3>3. /\ stream' \in [IOs -> Seq(Entries)]
          /\ onDisk' \in [IOs -> Nat]
          /\ torn' \in [IOs -> BOOLEAN]
          /\ \A k \in IOs : /\ onDisk'[k] <= Len(stream'[k])
                            /\ torn'[k] => onDisk'[k] < Len(stream'[k])
      BY <3>1, <3>2, ReachesType
    <3>. QED  BY <2>1, <3>3 DEF StoreTypes
  <2>. QED  BY <1>2, <2>2, <2>3, BeginFailsReaches
<1>3. CASE StoreBegins(io) /\ io \in Files
  <2>1. /\ stream' = [stream EXCEPT ![io] = <<>>]
        /\ onDisk' = [onDisk EXCEPT ![io] = 0]
        /\ torn' = [torn EXCEPT ![io] = FALSE]
        /\ handle' = [handle EXCEPT ![io] = TRUE]
        /\ full' = full
    BY <1>3 DEF StoreBegins, Truncate, Open
  <2>2. /\ stream' \in [IOs -> Seq(Entries)] /\ onDisk' \in [IOs -> Nat]
        /\ torn' \in [IOs -> BOOLEAN] /\ handle' \in [IOs -> BOOLEAN]
    BY <1>1, <2>1 DEF StoreTypes
  <2>3. \A k \in IOs : /\ onDisk'[k] <= Len(stream'[k])
                      /\ torn'[k] => onDisk'[k] < Len(stream'[k])
    BY <1>1, <2>1 DEF StoreTypes
  <2>. QED  BY <2>1, <2>2, <2>3 DEF StoreTypes
<1>4. CASE StoreBegins(io) /\ io \notin Files
  BY <1>4 DEF StoreTypes, StoreBegins, Open
<1>. QED  BY <1>2, <1>3, <1>4

LEMMA WritesType ==
  ASSUME StoreTypes, NEW io \in IOs, NEW p \in PVs, NEW v \in Values,
         StoreWrites(io, p, v) \/ StoreWriteFails(io, p, v)
  PROVE  StoreTypes'
<1>1. CASE StoreWriteFails(io, p, v)
  BY <1>1 DEF StoreTypes, StoreWriteFails, store
<1>2. CASE StoreWrites(io, p, v)
  <2>. DEFINE longer == Longer(io, p, v)
  <2>1. longer \in Seq(Entries) /\ stream[io] \in Seq(Entries)
    <3>1. Entry(p, v) \in Entries
      BY DEF Entry, Entries
    <3>. QED  BY <3>1 DEF StoreTypes, Longer
  <2>2. CASE io \in Files
    <3>1. stream' = [stream EXCEPT ![io] = longer]
      BY <1>2, <2>2 DEF StoreWrites, SaveText, SaveJson, HttpWrites, Files
    <3>2. \E n, t : t \in BOOLEAN /\ Reaches(io, longer, n, t)
      BY <1>2, <2>2
      DEF StoreWrites, SaveText, SaveJson, HttpWrites, Files, Spill, FlushAll
    <3>3. PICK n, t : t \in BOOLEAN /\ Reaches(io, longer, n, t)
      BY <3>2
    <3>4. /\ stream' \in [IOs -> Seq(Entries)]
          /\ onDisk' \in [IOs -> Nat]
          /\ torn' \in [IOs -> BOOLEAN]
          /\ \A k \in IOs : /\ onDisk'[k] <= Len(stream'[k])
                            /\ torn'[k] => onDisk'[k] < Len(stream'[k])
      BY <2>1, <3>1, <3>3, ReachesType
    <3>. QED  BY <1>2, <3>4 DEF StoreTypes, StoreWrites
  <2>3. CASE io \notin Files
    BY <1>2, <2>3 DEF StoreWrites, SaveText, SaveJson, HttpWrites, Files, StoreTypes
  <2>. QED  BY <2>2, <2>3
<1>. QED  BY <1>1, <1>2

LEMMA EndsType ==
  ASSUME StoreTypes, NEW io \in IOs, StoreEnds(io)
  PROVE  StoreTypes'
<1>1. CASE io \in Files
  <2>1. stream' = [stream EXCEPT ![io] = stream[io]] /\ stream[io] \in Seq(Entries)
    BY DEF StoreEnds, StoreTypes
  <2>2. \E n, t : t \in BOOLEAN /\ Reaches(io, stream[io], n, t)
    BY <1>1 DEF StoreEnds, Flush, FlushAll
  <2>3. PICK n, t : t \in BOOLEAN /\ Reaches(io, stream[io], n, t)
    BY <2>2
  <2>4. /\ stream' \in [IOs -> Seq(Entries)]
        /\ onDisk' \in [IOs -> Nat]
        /\ torn' \in [IOs -> BOOLEAN]
        /\ \A k \in IOs : /\ onDisk'[k] <= Len(stream'[k])
                          /\ torn'[k] => onDisk'[k] < Len(stream'[k])
    BY <2>1, <2>3, ReachesType
  <2>. QED  BY <2>4 DEF StoreTypes, StoreEnds
<1>2. CASE io \notin Files
  BY <1>2 DEF StoreEnds, StoreTypes
<1>. QED  BY <1>1, <1>2

\* What a process leaves in a file is an initial part of what it wrote.
LEMMA ProcessEndsType ==
  ASSUME StoreTypes, ProcessEnds
  PROVE  /\ StoreTypes'
         /\ \A io \in IOs : \E m \in 0..Len(stream[io]) :
              stream'[io] = SubSeq(stream[io], 1, m)
<1>1. PICK flushed \in SUBSET {io \in Files : ~full[io]} :
        LET n == [io \in IOs |-> IF io \in flushed
                                   THEN Len(stream[io]) ELSE onDisk[io]]
            t == [io \in IOs |-> torn[io] /\ n[io] = onDisk[io]]
        IN
        /\ handle' = [io \in IOs |-> FALSE]
        /\ onDisk' = n
        /\ torn' = t
        /\ stream' = [io \in IOs |->
                        SubSeq(stream[io], 1, n[io] + (IF t[io] THEN 1 ELSE 0))]
        /\ UNCHANGED full
  BY DEF ProcessEnds
<1>2. ASSUME NEW io \in IOs
      PROVE  /\ onDisk'[io] \in Nat /\ torn'[io] \in BOOLEAN
             /\ stream'[io] \in Seq(Entries)
             /\ onDisk'[io] <= Len(stream'[io])
             /\ torn'[io] => onDisk'[io] < Len(stream'[io])
             /\ \E m \in 0..Len(stream[io]) : stream'[io] = SubSeq(stream[io], 1, m)
  <2>. DEFINE m == onDisk'[io] + (IF torn'[io] THEN 1 ELSE 0)
  <2>1. /\ stream[io] \in Seq(Entries) /\ Len(stream[io]) \in Nat
        /\ \A i \in 1..Len(stream[io]) : stream[io][i] \in Entries
    BY LenProperties, ElementOfSeq DEF StoreTypes
  <2>2. /\ onDisk'[io] \in Nat /\ torn'[io] \in BOOLEAN
        /\ onDisk'[io] <= Len(stream[io])
        /\ torn'[io] => onDisk'[io] < Len(stream[io])
    BY <1>1, <2>1 DEF StoreTypes
  <2>3. stream'[io] = SubSeq(stream[io], 1, m)
    BY <1>1
  <2>4. m \in 0..Len(stream[io])
    BY <2>1, <2>2
  <2>5. stream'[io] \in Seq(Entries) /\ Len(stream'[io]) = m
    BY <2>1, <2>3, <2>4, SubSeqProperties
  <2>. QED  BY <2>2, <2>3, <2>4, <2>5
<1>3. /\ handle' \in [IOs -> BOOLEAN] /\ full' = full
      /\ stream' = [io \in IOs |-> stream'[io]]
      /\ onDisk' = [io \in IOs |-> onDisk'[io]]
      /\ torn' = [io \in IOs |-> torn'[io]]
  BY <1>1
<1>. QED  BY <1>2, <1>3 DEF StoreTypes

-----------------------------------------------------------------------------
(***************************************************************************)
(* Types.                                                                  *)
(***************************************************************************)
LEMMA NextInv ==
  ASSUME Assumptions, Inv, [Next]_vars
  PROVE  Inv'
<1>. USE DEF Inv
<1>0. /\ Len(IOList) \in Nat /\ \A i \in 1..Len(IOList) : IOList[i] \in IOs
      /\ Len(ios) \in Nat /\ \A i \in 1..Len(ios) : ios[i] \in IOs
      /\ channels \in Seq(PVs) /\ Len(channels) \in Nat
      /\ \A i \in 1..Len(channels) : channels[i] \in PVs
      /\ next \in Nat /\ next > 0 /\ chan \in Nat
  <2>1. IOList \in Seq(IOs) /\ ios \in Seq(IOs) /\ channels \in Seq(PVs)
    BY EmptySeq DEF Assumptions, SetAssumption, TypeOK
  <2>2. next \in Nat /\ next > 0 /\ chan \in Nat
    BY <2>1, LenProperties DEF TypeOK
  <2>. QED  BY <2>1, <2>2, LenProperties, ElementOfSeq
<1>1. CASE UNCHANGED vars
  <2>1. UNCHANGED <<store, phase, context, loops, status, history>>
    BY <1>1 DEF vars
  <2>. QED  BY <2>1 DEF TypeOK, StoreTypes, LoopInv, store, context, loops, history
<1>2. CASE Boot
  <2>1. Len(channels') \in Nat
    BY <1>2, LenProperties DEF Boot, Assumptions, SetAssumption
  <2>2. UNCHANGED <<handle, stream, onDisk, torn, full, chan, ios, data, given, sound>>
    BY <1>2 DEF Boot, store
  <2>3. StoreTypes'
    BY <2>2 DEF StoreTypes, TypeOK
  <2>. QED
    BY <1>0, <1>2, <2>1, <2>2, <2>3 DEF Boot, TypeOK, LoopInv, Assumptions, SetAssumption
<1>3. CASE Die
  <2>1. StoreTypes'
    BY <1>3, ProcessEndsType DEF Die, TypeOK
  <2>. QED
    BY <1>0, <1>3, <2>1, EmptySeq DEF Die, TypeOK, LoopInv, history
<1>4. CASE \E p \in PVs : ChangeValue(p)
  <2>1. value' \in [PVs -> Values]
    <3>1. PICK p \in PVs : ChangeValue(p)
      BY <1>4
    <3>2. Inputs[p] \subseteq Values
      BY DEF Assumptions, SetAssumption
    <3>. QED  BY <3>1, <3>2 DEF ChangeValue, TypeOK
  <2>. QED
    BY <1>4, <2>1 DEF ChangeValue, TypeOK, StoreTypes, LoopInv, store, loops, history
<1>5. CASE Restore
  <2>. DEFINE io == IOList[next]
  <2>1. PICK pvs \in ReadResults(io) : RestoreFrom(io, pvs)
    BY <1>5 DEF Restore
  <2>2. io \in IOs /\ phase = "restore"
    BY <1>0, <1>5 DEF Restore
  <2>3. pvs \in [PVs -> Values \union {Absent}]
    BY <2>2, ReadResultsType DEF TypeOK, StoreTypes, Assumptions
  <2>4. restored' \in [PVs -> Values \union {Absent}]
    BY <2>1, <2>3 DEF RestoreFrom
  <2>5. value' \in [PVs -> Values]
    BY <2>1, <2>4 DEF RestoreFrom, Put, TypeOK
  <2>6. StoreTypes'
    BY <2>1, <2>2 DEF RestoreFrom, Open, StoreTypes, TypeOK
  <2>. QED
    BY <1>0, <2>1, <2>2, <2>4, <2>5, <2>6 DEF RestoreFrom, TypeOK, LoopInv
<1>6. CASE BeginReadFails
  BY <1>0, <1>6 DEF BeginReadFails, TypeOK, StoreTypes, LoopInv, store, context, history
<1>7. CASE NoRestore
  BY <1>0, <1>7 DEF NoRestore, TypeOK, StoreTypes, LoopInv, store, context, history
<1>8. CASE StartSave
  BY <1>0, <1>8, EmptySeq
  DEF StartSave, Goto, TypeOK, StoreTypes, LoopInv, store, context, history
<1>9. CASE \E io \in IOs : BeginWrite(io)
  <2>1. PICK io \in IOs : BeginWrite(io)
    BY <1>9
  <2>2. StoreTypes'
    BY <2>1, BeginsType DEF BeginWrite, TypeOK
  <2>3. /\ ios' \in Seq(IOs) /\ Len(ios') \in Nat
        /\ Len(ios') <= Len(ios) + 1
    <3>1. ios' \in {ios, Append(ios, io)} /\ ios \in Seq(IOs)
      BY <2>1 DEF BeginWrite, TypeOK
    <3>. QED  BY <1>0, <3>1
  <2>4. given' \in [IOs -> Seq(Entries)]
    <3>1. <<>> \in Seq(Entries)
      BY EmptySeq
    <3>2. given' \in {given, [given EXCEPT ![io] = <<>>]}
      BY <2>1 DEF BeginWrite
    <3>. QED  BY <3>1, <3>2 DEF TypeOK
  <2>5. sound' \in [IOs -> BOOLEAN]
    <3>1. sound' \in {sound, [sound EXCEPT ![io] = FALSE]}
      BY <2>1 DEF BeginWrite
    <3>. QED  BY <3>1 DEF TypeOK
  <2>6. status' \in {0, 1}
    BY <2>1 DEF BeginWrite, Failed, TypeOK
  <2>. QED
    BY <1>0, <2>1, <2>2, <2>3, <2>4, <2>5, <2>6 DEF BeginWrite, TypeOK, LoopInv, context
<1>10. CASE ReadChannel
  <2>1. chan + 1 \in 1..Len(channels)
    BY <1>0, <1>10 DEF ReadChannel
  <2>2. data' \in Values
    BY <1>0, <1>10, <2>1 DEF ReadChannel, TypeOK, Assumptions, SetAssumption
  <2>. QED
    BY <1>0, <1>10, <2>1, <2>2
    DEF ReadChannel, Goto, TypeOK, StoreTypes, LoopInv, store, context, history
<1>11. CASE \E io \in IOs : WriteData(io)
  <2>1. PICK io \in IOs : WriteData(io)
    BY <1>11
  <2>. DEFINE p == channels[chan]
  <2>2. p \in PVs /\ data \in Values
    BY <1>0, <2>1 DEF WriteData, LoopInv, TypeOK
  <2>3. StoreTypes'
    BY <2>1, <2>2, WritesType DEF WriteData, TypeOK
  <2>4. given' \in [IOs -> Seq(Entries)]
    <3>1. Entry(p, data) \in Entries
      BY <2>2 DEF Entry, Entries
    <3>. QED  BY <2>1, <3>1 DEF WriteData, TypeOK
  <2>. QED
    BY <1>0, <2>1, <2>3, <2>4 DEF WriteData, Failed, TypeOK, LoopInv, context
<1>12. CASE EndWrites
  BY <1>0, <1>12
  DEF EndWrites, Goto, TypeOK, StoreTypes, LoopInv, store, context, history
<1>13. CASE \E io \in IOs : EndWrite(io)
  <2>1. PICK io \in IOs : EndWrite(io)
    BY <1>13
  <2>2. StoreTypes'
    BY <2>1, EndsType DEF EndWrite, TypeOK
  <2>3. sound' \in [IOs -> BOOLEAN]
    BY <2>1 DEF EndWrite, TypeOK, StoreTypes
  <2>. QED
    BY <1>0, <2>1, <2>2, <2>3 DEF EndWrite, TypeOK, LoopInv, context
<1>14. CASE FinishSave
  BY <1>0, <1>14, EmptySeq
  DEF FinishSave, Goto, TypeOK, StoreTypes, LoopInv, store, context, history
<1>15. CASE \E io \in IOs : Device(io)
  BY <1>15 DEF Device, DeviceFills, DeviceFreed, TypeOK, StoreTypes, LoopInv,
    context, loops, history
<1>. QED
  BY <1>1, <1>2, <1>3, <1>4, <1>5, <1>6, <1>7, <1>8, <1>9, <1>10, <1>11, <1>12,
     <1>13, <1>14, <1>15 DEF Next, Save

\* Every variable of SaveRestore keeps its type, for any backends, formats,
\* channel lists and values: the loops of save() and restore() stay inside what
\* is configured, and no file has more in it than was written.
THEOREM TypeCorrect == Spec => []TypeOK
<1>0. Assumptions
  BY StoreAssumption, SetAssumption DEF Assumptions
<1>1. Init => Inv
  BY <1>0, InitInv
<1>2. Inv /\ [Next]_vars => Inv'
  BY <1>0, NextInv
<1>3. Inv => TypeOK
  BY DEF Inv
<1>. QED  BY <1>1, <1>2, <1>3, PTL DEF Spec

-----------------------------------------------------------------------------
(***************************************************************************)
(* Whose entries a file holds.                                             *)
(***************************************************************************)
LEMMA NothingEmbeds ==
  ASSUME NEW s, NEW t
  PROVE  Embeds(s, 0, t)
<1>. DEFINE f == [i \in 1..0 |-> 1]
<1>1. \A i \in 1..0 : FALSE
  OBVIOUS
<1>2. f \in [1..0 -> 1..Len(t)]
  BY <1>1
<1>. HIDE DEF f
<1>. QED  BY <1>1, <1>2 DEF Embeds

LEMMA EmbedsPrefix ==
  ASSUME NEW s, NEW t, NEW n \in Nat, NEW m \in 0..n, Embeds(s, n, t)
  PROVE  Embeds(s, m, t)
<1>1. PICK f \in [1..n -> 1..Len(t)] :
        /\ \A i, j \in 1..n : i < j => f[i] < f[j]
        /\ \A i \in 1..n : s[i] = t[f[i]]
  BY DEF Embeds
<1>. DEFINE g == [i \in 1..m |-> f[i]]
<1>2. g \in [1..m -> 1..Len(t)]
  BY <1>1
<1>3. \A i \in 1..m : i \in 1..n /\ g[i] = f[i]
  OBVIOUS
<1>4. \A i, j \in 1..m : i < j => g[i] < g[j]
  BY <1>1, <1>3
<1>5. \A i \in 1..m : s[i] = t[g[i]]
  BY <1>1, <1>3
<1>. HIDE DEF g
<1>. QED  BY <1>2, <1>4, <1>5 DEF Embeds

\* Embeds looks at the first n entries only.
LEMMA EmbedsCopy ==
  ASSUME NEW r, NEW s, NEW t, NEW n \in Nat, Embeds(s, n, t),
         \A i \in 1..n : r[i] = s[i]
  PROVE  Embeds(r, n, t)
<1>1. PICK f \in [1..n -> 1..Len(t)] :
        /\ \A i, j \in 1..n : i < j => f[i] < f[j]
        /\ \A i \in 1..n : s[i] = t[f[i]]
  BY DEF Embeds
<1>2. \A i \in 1..n : r[i] = t[f[i]]
  BY <1>1
<1>. QED  BY <1>1, <1>2, Zenon DEF Embeds

\* One entry more in t, and perhaps in s.
LEMMA EmbedsLonger ==
  ASSUME NEW s \in Seq(Entries), NEW t \in Seq(Entries), NEW e \in Entries,
         Embeds(s, Len(s), t)
  PROVE  /\ Embeds(s, Len(s), Append(t, e))
         /\ Embeds(Append(s, e), Len(Append(s, e)), Append(t, e))
<1>1. PICK f \in [1..Len(s) -> 1..Len(t)] :
        /\ \A i, j \in 1..Len(s) : i < j => f[i] < f[j]
        /\ \A i \in 1..Len(s) : s[i] = t[f[i]]
  BY DEF Embeds
<1>2. /\ Len(s) \in Nat /\ Len(t) \in Nat
      /\ Len(Append(s, e)) = Len(s) + 1 /\ Len(Append(t, e)) = Len(t) + 1
      /\ Append(s, e)[Len(s) + 1] = e /\ Append(t, e)[Len(t) + 1] = e
      /\ \A i \in 1..Len(s) : Append(s, e)[i] = s[i]
      /\ \A i \in 1..Len(t) : Append(t, e)[i] = t[i]
  BY AppendProperties, LenProperties
<1>3. Embeds(s, Len(s), Append(t, e))
  <2>1. f \in [1..Len(s) -> 1..Len(Append(t, e))]
    BY <1>2
  <2>2. \A i \in 1..Len(s) : s[i] = Append(t, e)[f[i]]
    BY <1>1, <1>2
  <2>. QED  BY <1>1, <2>1, <2>2 DEF Embeds
<1>4. Embeds(Append(s, e), Len(Append(s, e)), Append(t, e))
  <2>. DEFINE n == Len(s) + 1
              g == [i \in 1..n |-> IF i = n THEN Len(t) + 1 ELSE f[i]]
  <2>1. g \in [1..n -> 1..Len(Append(t, e))]
    BY <1>2
  <2>2. \A i, j \in 1..n : i < j => g[i] < g[j]
    <3>1. ASSUME NEW i \in 1..n, NEW j \in 1..n, i < j PROVE g[i] < g[j]
      <4>1. i \in 1..Len(s) /\ g[i] = f[i] /\ f[i] \in 1..Len(t)
        BY <1>2, <3>1
      <4>2. CASE j = n
        BY <1>2, <4>1, <4>2
      <4>3. CASE j # n
        <5>1. j \in 1..Len(s) /\ g[j] = f[j]
          BY <1>2, <4>3
        <5>. QED  BY <1>1, <3>1, <4>1, <5>1
      <4>. QED  BY <4>2, <4>3
    <3>. QED  BY <3>1
  <2>3. \A i \in 1..n : Append(s, e)[i] = Append(t, e)[g[i]]
    <3>1. ASSUME NEW i \in 1..n PROVE Append(s, e)[i] = Append(t, e)[g[i]]
      <4>1. CASE i = n
        BY <1>2, <4>1
      <4>2. CASE i # n
        <5>1. i \in 1..Len(s) /\ g[i] = f[i] /\ f[i] \in 1..Len(t)
          BY <1>2, <4>2
        <5>. QED  BY <1>1, <1>2, <5>1
      <4>. QED  BY <4>1, <4>2
    <3>. QED  BY <3>1
  <2>4. Len(Append(s, e)) = n
    BY <1>2
  <2>. HIDE DEF g, n
  <2>. QED  BY <2>1, <2>2, <2>3, <2>4 DEF Embeds
<1>. QED  BY <1>3, <1>4

\* FileHoldsOneSave speaks of the entries in the file only, but the others of the
\* stream get there when the buffer is written out.
StreamHoldsOneSave ==
  \A io \in Files : Embeds(stream[io], Len(stream[io]), given[io])

LEMMA InitOneSave ==
  ASSUME Init
  PROVE  StreamHoldsOneSave
<1>1. Len(<<>>) = 0
  BY EmptySeq
<1>2. Embeds(<<>>, 0, <<>>)
  BY NothingEmbeds
<1>. QED  BY <1>1, <1>2 DEF Init, StoreInit, StreamHoldsOneSave, Files

LEMMA NextOneSave ==
  ASSUME Assumptions, Inv, StreamHoldsOneSave, [Next]_vars
  PROVE  StreamHoldsOneSave'
<1>0. /\ stream \in [IOs -> Seq(Entries)] /\ given \in [IOs -> Seq(Entries)]
      /\ Files \subseteq IOs
  BY DEF Inv, TypeOK, StoreTypes, Files
<1>1. CASE UNCHANGED <<stream, given>>
  BY <1>1 DEF StreamHoldsOneSave
<1>2. CASE Die
  <2>1. given' = given /\ ProcessEnds
    BY <1>2 DEF Die, history
  <2>2. ASSUME NEW io \in Files
        PROVE  Embeds(stream'[io], Len(stream'[io]), given[io])
    <3>1. PICK m \in 0..Len(stream[io]) : stream'[io] = SubSeq(stream[io], 1, m)
      BY <1>0, <2>1, ProcessEndsType DEF Inv, TypeOK
    <3>2. Len(stream[io]) \in Nat /\ \A i \in 1..Len(stream[io]) : stream[io][i] \in Entries
      BY <1>0, LenProperties, ElementOfSeq
    <3>3. /\ Len(stream'[io]) = m
          /\ \A i \in 1..m : stream'[io][i] = stream[io][i]
      BY <3>1, <3>2, SubSeqProperties
    <3>4. Embeds(stream[io], m, given[io])
      BY <3>2, EmbedsPrefix DEF StreamHoldsOneSave
    <3>5. Embeds(stream'[io], m, given[io])
      BY <3>3, <3>4, EmbedsCopy
    <3>. QED  BY <3>3, <3>5
  <2>. QED  BY <2>1, <2>2 DEF StreamHoldsOneSave
<1>3. CASE \E io \in IOs : BeginWrite(io)
  <2>1. PICK io \in IOs : BeginWrite(io)
    BY <1>3
  <2>2. CASE UNCHANGED <<stream, given>>
    BY <1>1, <2>2
  <2>3. CASE StoreBegins(io) /\ given' = [given EXCEPT ![io] = <<>>]
    <3>1. \A k \in Files : k # io => stream'[k] = stream[k] /\ given'[k] = given[k]
      BY <1>0, <2>3 DEF StoreBegins, Truncate
    <3>2. io \in Files => stream'[io] = <<>> /\ given'[io] = <<>>
      BY <1>0, <2>3 DEF StoreBegins, Truncate
    <3>3. Embeds(<<>>, Len(<<>>), <<>>)
      BY NothingEmbeds, EmptySeq
    <3>. QED  BY <3>1, <3>2, <3>3 DEF StreamHoldsOneSave
  <2>. QED  BY <2>1, <2>2, <2>3 DEF BeginWrite, StoreBeginFails
<1>4. CASE \E io \in IOs : WriteData(io)
  <2>1. PICK io \in IOs : WriteData(io)
    BY <1>4
  <2>. DEFINE e == Entry(channels[chan], data)
  <2>2. e \in Entries
    <3>1. channels \in Seq(PVs) /\ chan \in 1..Len(channels) /\ data \in Values
      BY <2>1, EmptySeq, LenProperties
      DEF Inv, TypeOK, LoopInv, WriteData, Assumptions, SetAssumption
    <3>. QED  BY <3>1, ElementOfSeq DEF Entry, Entries
  <2>3. given' = [given EXCEPT ![io] = Append(given[io], e)]
    BY <2>1 DEF WriteData
  <2>4. \A k \in Files : k # io => stream'[k] = stream[k] /\ given'[k] = given[k]
    BY <1>0, <2>1, <2>3
    DEF WriteData, StoreWrites, SaveText, SaveJson, HttpWrites, StoreWriteFails, store
  <2>5. ASSUME io \in Files
        PROVE  /\ given'[io] = Append(given[io], e)
               /\ stream'[io] \in {stream[io], Append(stream[io], e)}
    BY <1>0, <2>1, <2>3, <2>5
    DEF WriteData, StoreWrites, SaveText, SaveJson, HttpWrites, Longer, StoreWriteFails, store
  <2>6. ASSUME io \in Files
        PROVE  Embeds(stream'[io], Len(stream'[io]), given'[io])
    BY <1>0, <2>2, <2>5, <2>6, EmbedsLonger DEF StreamHoldsOneSave
  <2>. QED  BY <2>4, <2>6 DEF StreamHoldsOneSave
<1>5. CASE Boot \/ Restore \/ BeginReadFails \/ NoRestore \/ StartSave
  BY <1>1, <1>5 DEF Boot, Restore, RestoreFrom, BeginReadFails, NoRestore,
    StartSave, store, history
<1>6. CASE ReadChannel \/ EndWrites \/ FinishSave \/ \E p \in PVs : ChangeValue(p)
  BY <1>1, <1>6 DEF ReadChannel, EndWrites, FinishSave, ChangeValue, store, history
<1>7. CASE \E io \in IOs : EndWrite(io) \/ Device(io)
  BY <1>1, <1>7 DEF EndWrite, StoreEnds, Device, DeviceFills, DeviceFreed, history
<1>8. CASE UNCHANGED vars
  BY <1>1, <1>8 DEF vars, store, history
<1>. QED
  BY <1>2, <1>3, <1>4, <1>5, <1>6, <1>7, <1>8 DEF Next, Save

\* For any backends, formats, channel lists and values, and whenever the process
\* ends or a device fills up, a file holds entries of one transaction only, in
\* the order in which they were written.
THEOREM OneSaveInFile == Spec => []FileHoldsOneSave
<1>0. Assumptions
  BY StoreAssumption, SetAssumption DEF Assumptions
<1>1. Init => Inv /\ StreamHoldsOneSave
  BY <1>0, InitInv, InitOneSave
<1>2. Inv /\ StreamHoldsOneSave /\ [Next]_vars => Inv' /\ StreamHoldsOneSave'
  BY <1>0, NextInv, NextOneSave
<1>3. Inv /\ StreamHoldsOneSave => FileHoldsOneSave
  <2>1. SUFFICES ASSUME Inv, StreamHoldsOneSave, NEW io \in Files
                 PROVE  Embeds(stream[io], onDisk[io], given[io])
    BY DEF FileHoldsOneSave
  <2>2. io \in IOs /\ stream[io] \in Seq(Entries) /\ Len(stream[io]) \in Nat
    BY <2>1, LenProperties DEF Files, Inv, TypeOK, StoreTypes
  <2>3. onDisk[io] \in 0..Len(stream[io])
    BY <2>1, <2>2 DEF Inv, TypeOK, StoreTypes
  <2>. QED  BY <2>1, <2>2, <2>3, EmbedsPrefix DEF StreamHoldsOneSave
<1>. QED  BY <1>1, <1>2, <1>3, PTL DEF Spec

-----------------------------------------------------------------------------
(***************************************************************************)
(* What a completed transaction is worth.                                  *)
(***************************************************************************)
InSave == phase \in {"begin", "write", "end"}
Begun(io) == \E i \in 1..Len(ios) : ios[i] = io

\* A write fails only on a full device, and no device is freed during a save: as
\* long as the device is not full, the stream has all that the backend was given.
\* At the end of the transaction all of it is flushed.
SoundInv ==
  \A io \in Files :
    /\ sound[io] => stream[io] = given[io] /\ onDisk[io] = Len(stream[io])
    /\ InSave /\ Begun(io) /\ ~full[io] => stream[io] = given[io]
    /\ phase \in {"begin", "write"} /\ Begun(io) => ~sound[io]

LEMMA InitSound ==
  ASSUME Init
  PROVE  SoundInv
BY DEF Init, SoundInv, InSave, Files

LEMMA NextSound ==
  ASSUME Assumptions, Inv, SoundInv, [Next]_vars
  PROVE  SoundInv'
<1>0. /\ stream \in [IOs -> Seq(Entries)] /\ given \in [IOs -> Seq(Entries)]
      /\ sound \in [IOs -> BOOLEAN] /\ full \in [IOs -> BOOLEAN]
      /\ onDisk \in [IOs -> Nat] /\ torn \in [IOs -> BOOLEAN]
      /\ Files \subseteq IOs /\ ios \in Seq(IOs) /\ Len(ios) \in Nat
  BY LenProperties DEF Inv, TypeOK, StoreTypes, Files
<1>1. ASSUME UNCHANGED <<stream, given, onDisk, sound, full, ios>>,
             phase' = phase
             \/ (phase \notin {"begin", "write"} /\ phase' \notin {"begin", "write", "end"})
             \/ (phase \in {"begin", "write"} /\ phase' \in {"write", "end"})
      PROVE  SoundInv'
  BY <1>1 DEF SoundInv, InSave, Begun
<1>2. CASE Die
  <2>1. /\ UNCHANGED <<given, sound>> /\ ProcessEnds /\ phase' = "down"
    BY <1>2 DEF Die, history
  <2>2. ASSUME NEW io \in Files, sound[io]
        PROVE  stream'[io] = stream[io] /\ onDisk'[io] = onDisk[io]
    <3>1. stream[io] \in Seq(Entries) /\ onDisk[io] = Len(stream[io]) /\ ~torn[io]
      BY <1>0, <2>2, LenProperties DEF SoundInv, Inv, TypeOK, StoreTypes
    <3>2. onDisk'[io] = Len(stream[io]) /\ stream'[io] = SubSeq(stream[io], 1, Len(stream[io]))
      BY <1>0, <2>1, <3>1, LenProperties DEF ProcessEnds
    <3>. QED  BY <3>1, <3>2, SubSeqFull
  <2>. QED  BY <2>1, <2>2 DEF SoundInv, InSave
<1>3. CASE StartSave
  <2>1. ios' = <<>> /\ phase' = "begin" /\ UNCHANGED <<stream, onDisk, given, sound>>
    BY <1>3 DEF StartSave, Goto, store, history
  <2>2. \A io : ~Begun(io)'
    BY <2>1 DEF Begun
  <2>. QED  BY <2>1, <2>2 DEF SoundInv
<1>4. CASE \E io \in IOs : BeginWrite(io)
  <2>1. PICK io \in IOs : BeginWrite(io)
    BY <1>4
  <2>2. phase' = phase /\ phase = "begin" /\ full' = full
    BY <2>1 DEF BeginWrite, StoreBegins, StoreBeginFails
  <2>3. CASE StoreBeginFails(io) /\ UNCHANGED <<given, sound, ios>>
    <3>1. StoreTypes
      BY DEF Inv, TypeOK
    <3>2. stream' = stream
      BY <2>3 DEF StoreBeginFails
    <3>3. \/ onDisk' = onDisk
          \/ \E n, t : t \in BOOLEAN /\ Reaches(io, stream[io], n, t)
      BY <2>3, <3>1, BeginFailsReaches
    <3>4. ASSUME NEW k \in Files, sound[k]
          PROVE  onDisk'[k] = onDisk[k]
      <4>1. Len(stream[k]) \in Nat /\ onDisk[k] = Len(stream[k])
        BY <1>0, <3>4, LenProperties DEF SoundInv
      <4>. QED  BY <1>0, <3>3, <4>1 DEF Reaches
    <3>. QED  BY <2>2, <2>3, <3>2, <3>4 DEF SoundInv, InSave, Begun
  <2>4. CASE /\ StoreBegins(io) /\ ios' = Append(ios, io)
             /\ given' = [given EXCEPT ![io] = <<>>]
             /\ sound' = [sound EXCEPT ![io] = FALSE]
    <3>1. ASSUME NEW k \in Files, k # io
          PROVE  /\ stream'[k] = stream[k] /\ given'[k] = given[k]
                 /\ onDisk'[k] = onDisk[k] /\ sound'[k] = sound[k]
                 /\ Begun(k)' => Begun(k)
      <4>1. /\ stream'[k] = stream[k] /\ given'[k] = given[k]
            /\ onDisk'[k] = onDisk[k] /\ sound'[k] = sound[k]
        BY <1>0, <2>4, <3>1 DEF StoreBegins, Truncate
      <4>2. Begun(k)' => Begun(k)
        <5>1. /\ Len(ios') = Len(ios) + 1 /\ ios'[Len(ios) + 1] = io
              /\ \A i \in 1..Len(ios) : ios'[i] = ios[i]
          BY <1>0, <2>4, AppendProperties
        <5>2. SUFFICES ASSUME NEW i \in 1..Len(ios'), ios'[i] = k
                       PROVE  Begun(k)
          BY DEF Begun
        <5>3. i \in 1..Len(ios)
          BY <1>0, <3>1, <5>1, <5>2
        <5>. QED  BY <5>1, <5>2, <5>3 DEF Begun
      <4>. QED  BY <4>1, <4>2
    <3>2. io \in Files => /\ stream'[io] = <<>> /\ given'[io] = <<>> /\ ~sound'[io]
      BY <1>0, <2>4 DEF StoreBegins, Truncate
    <3>. QED  BY <2>2, <3>1, <3>2 DEF SoundInv, InSave
  <2>. QED  BY <2>1, <2>3, <2>4 DEF BeginWrite, StoreBeginFails
<1>5. CASE \E io \in IOs : WriteData(io)
  <2>1. PICK io \in IOs : WriteData(io)
    BY <1>5
  <2>. DEFINE e == Entry(channels[chan], data)
  <2>2. /\ phase = "write" /\ phase' = phase /\ UNCHANGED <<ios, sound, full>>
        /\ given' = [given EXCEPT ![io] = Append(given[io], e)]
        /\ Begun(io)
    <3>1. next \in 1..Len(ios) /\ ios[next] = io
      BY <1>0, <2>1, LenProperties DEF WriteData, Inv, TypeOK, Assumptions, SetAssumption
    <3>. QED
      BY <2>1, <3>1 DEF WriteData, StoreWrites, StoreWriteFails, store, Begun
  <2>3. ASSUME NEW k \in Files, k # io
        PROVE  /\ stream'[k] = stream[k] /\ given'[k] = given[k]
               /\ onDisk'[k] = onDisk[k]
    BY <1>0, <2>1, <2>2, <2>3
    DEF WriteData, StoreWrites, SaveText, SaveJson, HttpWrites, StoreWriteFails, store,
      Spill, FlushAll, Reaches
  <2>4. ASSUME io \in Files, ~full[io]
        PROVE  stream'[io] = Append(stream[io], e) /\ given'[io] = Append(given[io], e)
    BY <1>0, <2>1, <2>2, <2>4
    DEF WriteData, StoreWrites, SaveText, SaveJson, HttpWrites, Longer, StoreWriteFails, Files
  <2>5. io \in Files => ~sound[io]
    BY <2>2 DEF SoundInv
  <2>. QED  BY <2>2, <2>3, <2>4, <2>5 DEF SoundInv, InSave, Begun
<1>6. CASE \E io \in IOs : EndWrite(io)
  <2>1. PICK io \in IOs : EndWrite(io)
    BY <1>6
  <2>2. /\ phase = "end" /\ phase' = phase /\ UNCHANGED <<ios, full, stream, given>>
        /\ sound' = [sound EXCEPT ![io] = sound[io] \/ ~full[io]]
        /\ Begun(io)
    <3>1. next \in 1..Len(ios) /\ ios[next] = io
      BY <1>0, <2>1, LenProperties DEF EndWrite, Inv, TypeOK, Assumptions, SetAssumption
    <3>. QED  BY <2>1, <3>1 DEF EndWrite, StoreEnds, Begun
  <2>3. ASSUME NEW k \in Files, k # io
        PROVE  onDisk'[k] = onDisk[k] /\ sound'[k] = sound[k]
    BY <1>0, <2>1, <2>2, <2>3 DEF EndWrite, StoreEnds, Flush, FlushAll, Reaches
  <2>4. ASSUME io \in Files, ~full[io]
        PROVE  onDisk'[io] = Len(stream[io]) /\ stream[io] = given[io]
    BY <1>0, <2>1, <2>2, <2>4
    DEF EndWrite, StoreEnds, Flush, FlushAll, Reaches, SoundInv, InSave
  <2>5. ASSUME io \in Files, full[io], sound[io]
        PROVE  onDisk'[io] = onDisk[io]
    BY <1>0, <2>1, <2>5 DEF EndWrite, StoreEnds, Flush, FlushAll, Reaches
  <2>6. io \in Files => sound'[io] = (sound[io] \/ ~full[io])
    BY <1>0, <2>2
  <2>. QED  BY <2>2, <2>3, <2>4, <2>5, <2>6 DEF SoundInv, InSave, Begun
<1>7. CASE \E io \in IOs : Device(io)
  <2>1. PICK io \in IOs : Device(io)
    BY <1>7
  <2>2. UNCHANGED <<stream, onDisk, phase, ios, given, sound>>
    BY <2>1 DEF Device, DeviceFills, DeviceFreed, loops, history
  <2>3. InSave => \A k \in Files : full[k] => full'[k]
    BY <1>0, <2>1 DEF Device, DeviceFills, DeviceFreed, InSave
  <2>4. full' \in [IOs -> BOOLEAN]
    BY <1>0, <2>1 DEF Device, DeviceFills, DeviceFreed
  <2>. QED  BY <1>0, <2>2, <2>3, <2>4 DEF SoundInv, InSave, Begun
<1>8. CASE Boot \/ Restore \/ BeginReadFails \/ NoRestore
  BY <1>1, <1>8 DEF Boot, Restore, RestoreFrom, BeginReadFails, NoRestore, store, history
<1>9. CASE ReadChannel \/ EndWrites
  BY <1>1, <1>9 DEF ReadChannel, EndWrites, LoopDone, Goto, store, history
<1>10. CASE FinishSave
  BY <1>10 DEF FinishSave, Goto, store, history, SoundInv, InSave
<1>11. CASE \E p \in PVs : ChangeValue(p)
  BY <1>1, <1>11 DEF ChangeValue, store, loops, history
<1>12. CASE UNCHANGED vars
  BY <1>1, <1>12 DEF vars, store, loops, history
<1>. QED
  BY <1>2, <1>3, <1>4, <1>5, <1>6, <1>7, <1>8, <1>9, <1>10, <1>11, <1>12
  DEF Next, Save

\* A file that holds all that its backend was given, plain values only, is read
\* back as the first value of each channel.
LEMMA PlainReadBack ==
  ASSUME StoreAssumption, NEW io \in Files, NEW p \in PVs,
         given[io] \in Seq(Entries), Plain(io)
  PROVE  Found(Format[io], given[io], p)
           = IF p \in Given(io) THEN FirstGiven(io, p) ELSE Absent
<1>. DEFINE s == given[io]
            hits == {i \in DOMAIN s : Read(Format[io], s[i], p) # Absent
                                      /\ Parsable(Format[io], s, i)}
            mine == {i \in DOMAIN s : s[i].pv = p}
<1>1. /\ Len(s) \in Nat /\ DOMAIN s = 1..Len(s)
      /\ \A i \in DOMAIN s : s[i] \in Entries
      /\ Format[io] \in {"text", "json"} /\ io \in IOs
  BY LenProperties, ElementOfSeq DEF Files, StoreAssumption
<1>2. \A i \in DOMAIN s :
        Read(Format[io], s[i], p) = IF s[i].pv = p THEN s[i].value ELSE Absent
  <2>1. ASSUME NEW i \in DOMAIN s
        PROVE  Read(Format[io], s[i], p) = IF s[i].pv = p THEN s[i].value ELSE Absent
    <3>1. s[i].value \in Values /\ Kind[s[i].value] = "plain" /\ s[i].value # Absent
      BY <1>1, <2>1 DEF Plain, Entries, StoreAssumption
    <3>2. ReadBack(Format[io], s[i].value) = s[i].value
      BY <3>1 DEF ReadBack, TextValue, JsonValue
    <3>3. Rest[Format[io]][s[i].value] = NoRest
      BY <1>1, <3>1 DEF StoreAssumption
    <3>4. NoRest[p] = Absent
      BY DEF NoRest
    <3>. QED  BY <3>1, <3>2, <3>3, <3>4 DEF Read
  <2>. QED  BY <2>1
<1>3. \A i \in DOMAIN s : Parsable(Format[io], s, i)
  <2>1. \A j \in DOMAIN s : ~EndsParse(s[j].value)
    BY DEF Plain, EndsParse
  <2>2. \A i \in DOMAIN s : 1..(i - 1) \subseteq DOMAIN s
    BY <1>1
  <2>. HIDE DEF s
  <2>. QED  BY <2>1, <2>2 DEF Parsable
<1>4. hits = mine
  <2>1. \A i \in DOMAIN s : s[i].value # Absent
    BY <1>1 DEF Entries, StoreAssumption
  <2>. QED  BY <1>2, <1>3, <2>1
<1>5. p \in Given(io) <=> mine # {}
  BY DEF Given
<1>6. CASE mine = {}
  BY <1>4, <1>5, <1>6 DEF Found
<1>7. CASE mine # {}
  <2>1. Kept(mine) \in mine
    <3>1. mine \in SUBSET Nat
      BY <1>1
    <3>. HIDE DEF mine
    <3>. QED  BY <1>7, <3>1, Least DEF Kept, KeepFirst
  <2>2. Found(Format[io], s, p) = Read(Format[io], s[Kept(mine)], p)
    BY <1>4, <1>7 DEF Found
  <2>3. FirstGiven(io, p) = s[Kept(mine)].value
    BY DEF FirstGiven, Kept, KeepFirst
  <2>. QED  BY <1>2, <1>5, <1>7, <2>1, <2>2, <2>3
<1>. QED  BY <1>6, <1>7

\* For any backends, formats, channel lists and values, a completed transaction
\* of plain values can be read back, after any number of restarts, until the next
\* one begins: each channel has the first value it was given.
THEOREM SavedCanBeReadBack == Spec => []SavedIsReadBack
<1>0. Assumptions
  BY StoreAssumption, SetAssumption DEF Assumptions
<1>1. Init => Inv /\ SoundInv
  BY <1>0, InitInv, InitSound
<1>2. Inv /\ SoundInv /\ [Next]_vars => Inv' /\ SoundInv'
  BY <1>0, NextInv, NextSound
<1>3. Inv /\ SoundInv => SavedIsReadBack
  <2>. SUFFICES ASSUME Inv, SoundInv, NEW io \in Files, sound[io], Plain(io),
                       NEW pvs \in ReadResults(io), NEW p \in PVs
                PROVE  pvs[p] = IF p \in Given(io) THEN FirstGiven(io, p) ELSE Absent
    BY DEF SavedIsReadBack
  <2>1. /\ stream[io] = given[io] /\ given[io] \in Seq(Entries)
        /\ onDisk[io] = Len(given[io]) /\ ~torn[io]
    BY LenProperties DEF SoundInv, Inv, TypeOK, StoreTypes, Files
  <2>2. InFile(io) = given[io] /\ TornRests(io) = {}
    BY <2>1, SubSeqFull DEF InFile, TornRests
  <2>3. pvs = [q \in PVs |-> Found(Format[io], given[io], q)]
    BY <2>2 DEF ReadResults, Whole
  <2>. QED  BY <1>0, <2>1, <2>3, PlainReadBack DEF Assumptions
<1>. QED  BY <1>1, <1>2, <1>3, PTL DEF Spec

-----------------------------------------------------------------------------
(***************************************************************************)
(* What a restore puts into records.                                       *)
(***************************************************************************)

\* What an entry that was given to a backend, and may be torn, can account for.
AccountsFor(io, e, p, v) == ReadsAs(io, e, p, v) \/ SpillsAs(io, e, p, v)

LEMMA ReadAccounted ==
  ASSUME NEW io \in Files, StoreAssumption, NEW e, NEW p, Read(Format[io], e, p) # Absent
  PROVE  AccountsFor(io, e, p, Read(Format[io], e, p))
<1>1. Format[io] \in {"text", "json"}
  BY DEF Files, StoreAssumption
<1>2. CASE e.pv = p /\ ReadBack(Format[io], e.value) # Absent
  <2>1. \/ ReadBack(Format[io], e.value) = e.value
        \/ ReadBack(Format[io], e.value) = Cut /\ MayBeCut(io, e)
    BY <1>1, <1>2 DEF ReadBack, TextValue, JsonValue, MayBeCut
  <2>. QED  BY <1>2, <2>1 DEF Read, AccountsFor, ReadsAs
<1>3. CASE ~(e.pv = p /\ ReadBack(Format[io], e.value) # Absent)
  BY <1>3 DEF Read, AccountsFor, SpillsAs
<1>. QED  BY <1>2, <1>3

LEMMA TornAccounted ==
  ASSUME NEW io \in Files, StoreAssumption, torn[io], NEW p, NEW v,
         v \in TornReads(Format[io], stream[io][onDisk[io] + 1], p), v # Absent
  PROVE  AccountsFor(io, stream[io][onDisk[io] + 1], p, v)
<1>. DEFINE e == stream[io][onDisk[io] + 1]
<1>1. Format[io] \in {"text", "json"}
  BY DEF Files, StoreAssumption
<1>2. Format[io] = "text" => IsTorn(io, e)
  BY DEF IsTorn
<1>3. CASE v = Cut /\ e.pv = p /\ Delivered(Format[io], Kind[e.value])
  <2>1. MayBeCut(io, e)
    BY <1>1, <1>2, <1>3 DEF Delivered, MayBeCut
  <2>. QED  BY <1>3, <2>1 DEF AccountsFor, ReadsAs
<1>4. CASE /\ Rest[Format[io]][e.value][p] # Absent
           /\ \/ v = Rest[Format[io]][e.value][p]
              \/ v = Cut /\ Format[io] = "text"
  BY <1>2, <1>4 DEF AccountsFor, SpillsAs
<1>. QED  BY <1>3, <1>4 DEF TornReads

\* A value in a file, or what is left of the entry that is torn, comes from an
\* entry that the backend was given.
LEMMA ReadFromGiven ==
  ASSUME Assumptions, Inv, StreamHoldsOneSave, NEW io \in IOs,
         NEW pvs \in ReadResults(io), NEW p \in PVs, pvs[p] # Absent
  PROVE  \E i \in DOMAIN given[io] : AccountsFor(io, given[io][i], p, pvs[p])
<1>0. StoreAssumption
  BY DEF Assumptions
<1>1. io \in Files
  BY DEF ReadResults, NothingRead, NoRest
<1>2. /\ stream[io] \in Seq(Entries) /\ Len(stream[io]) \in Nat
      /\ onDisk[io] \in Nat /\ onDisk[io] <= Len(stream[io])
      /\ torn[io] => onDisk[io] < Len(stream[io])
      /\ \A i \in 1..Len(stream[io]) : stream[io][i] \in Entries
      /\ DOMAIN given[io] = 1..Len(given[io])
  BY LenProperties, ElementOfSeq DEF Inv, TypeOK, StoreTypes
<1>3. \A i \in 1..Len(stream[io]) : \E k \in DOMAIN given[io] : given[io][k] = stream[io][i]
  BY <1>1, <1>2 DEF StreamHoldsOneSave, Embeds
<1>4. /\ InFile(io) \in Seq(Entries) /\ Len(InFile(io)) = onDisk[io]
      /\ \A i \in 1..onDisk[io] : InFile(io)[i] = stream[io][i]
  BY <1>2, SubSeqProperties DEF InFile
<1>5. \/ pvs[p] = Found(Format[io], InFile(io), p)
      \/ \E m \in TornRests(io) : pvs[p] = m[p]
  BY <1>1 DEF ReadResults, Whole
<1>6. CASE pvs[p] = Found(Format[io], InFile(io), p)
  <2>1. PICK i \in 1..Len(InFile(io)) : pvs[p] = Read(Format[io], InFile(io)[i], p)
    BY <1>4, <1>6, FoundFrom
  <2>2. i \in 1..Len(stream[io]) /\ InFile(io)[i] = stream[io][i]
    BY <1>2, <1>4, <2>1
  <2>3. PICK k \in DOMAIN given[io] : given[io][k] = stream[io][i]
    BY <1>3, <2>2
  <2>4. Read(Format[io], stream[io][i], p) = pvs[p]
    BY <2>1, <2>2
  <2>5. AccountsFor(io, stream[io][i], p, Read(Format[io], stream[io][i], p))
    BY <1>0, <1>1, <2>4, ReadAccounted
  <2>. QED  BY <2>3, <2>4, <2>5
<1>7. CASE \E m \in TornRests(io) : pvs[p] = m[p]
  <2>1. /\ torn[io]
        /\ pvs[p] \in TornReads(Format[io], stream[io][onDisk[io] + 1], p)
    BY <1>7 DEF TornRests
  <2>2. onDisk[io] + 1 \in 1..Len(stream[io])
    BY <1>2, <2>1
  <2>3. PICK k \in DOMAIN given[io] : given[io][k] = stream[io][onDisk[io] + 1]
    BY <1>3, <2>2
  <2>4. AccountsFor(io, stream[io][onDisk[io] + 1], p, pvs[p])
    BY <1>0, <1>1, <2>1, TornAccounted
  <2>. QED  BY <2>3, <2>4
<1>. QED  BY <1>5, <1>6, <1>7

\* For any backends, formats, channel lists and values, and whatever has cut the
\* last save short, a restore puts into a record what the backend was last given
\* for that record, or a part of it where MayBeCut allows for it; the value of
\* another record only if its text holds an entry that names this one.
THEOREM RestoredWasGiven == Spec => RestoresWhatWasGiven
<1>0. Assumptions
  BY StoreAssumption, SetAssumption DEF Assumptions
<1>1. Init => Inv /\ StreamHoldsOneSave
  BY <1>0, InitInv, InitOneSave
<1>2. Inv /\ StreamHoldsOneSave /\ [Next]_vars => Inv' /\ StreamHoldsOneSave'
  BY <1>0, NextInv, NextOneSave
<1>. DEFINE Given1(io, p) ==
              \E i \in DOMAIN given[io] : \/ ReadsAs(io, given[io][i], p, restored'[p])
                                         \/ SpillsAs(io, given[io][i], p, restored'[p])
            Step == \A io \in IOs : Restoring(io) =>
                      \A p \in PVs : restored'[p] # Absent => Given1(io, p)
<1>3. Inv /\ StreamHoldsOneSave /\ [Next]_vars => [Step]_vars
  <2>1. SUFFICES ASSUME Inv, StreamHoldsOneSave, [Next]_vars, NEW io \in IOs,
                        Restoring(io), NEW p \in PVs, restored'[p] # Absent
                 PROVE  Given1(io, p)
    OBVIOUS
  <2>2. Restore
    <3>1. phase = "restore" /\ phase' = "idle" /\ handle' # handle
      BY <2>1 DEF Restoring
    <3>2. ~NoRestore /\ ~BeginReadFails /\ ~Boot /\ ~Die /\ ~UNCHANGED vars
      BY <3>1 DEF NoRestore, BeginReadFails, Boot, Die, vars, store
    <3>3. ~Save /\ ~(\E q \in PVs : ChangeValue(q)) /\ ~(\E k \in IOs : Device(k))
      BY <3>1 DEF Save, StartSave, ReadChannel, LoopDone, EndWrites, FinishSave, BeginWrite,
        WriteData, EndWrite, ChangeValue, Device
    <3>. QED  BY <2>1, <3>2, <3>3 DEF Next
  <2>3. PICK pvs \in ReadResults(IOList[next]) : RestoreFrom(IOList[next], pvs)
    BY <2>2 DEF Restore
  <2>4. IOList[next] = io
    BY <2>1, <2>3 DEF Restoring, RestoreFrom, Open, Inv, TypeOK, StoreTypes
  <2>5. restored'[p] = pvs[p]
    BY <2>1, <2>3 DEF RestoreFrom
  <2>6. \E i \in DOMAIN given[io] : AccountsFor(io, given[io][i], p, pvs[p])
    BY <1>0, <2>1, <2>3, <2>4, <2>5, ReadFromGiven
  <2>. QED  BY <2>5, <2>6 DEF AccountsFor
<1>4. [Step]_vars => [\A io \in IOs : Restoring(io) =>
       \A p \in PVs : restored'[p] # Absent =>
         \E i \in DOMAIN given[io] : \/ ReadsAs(io, given[io][i], p, restored'[p])
                                    \/ SpillsAs(io, given[io][i], p, restored'[p])]_vars
  OBVIOUS
<1>. HIDE DEF Step
<1>. QED  BY <1>1, <1>2, <1>3, <1>4, PTL DEF Spec, RestoresWhatWasGiven

-----------------------------------------------------------------------------
(***************************************************************************)
(* The files are durable copies: SaveRestore implements DurableCopy.       *)
(***************************************************************************)

\* A step keeps what is in a file when the position does not go back and the
\* entries before it stay.
LEMMA FileGains ==
  ASSUME Inv, Inv', StreamHoldsOneSave', NEW io \in Files,
         onDisk[io] <= onDisk'[io],
         \A i \in 1..onDisk[io] : stream'[io][i] = stream[io][i]
  PROVE  Copies!Gains(io)
<1>1. /\ stream[io] \in Seq(Entries) /\ stream'[io] \in Seq(Entries)
      /\ Len(stream[io]) \in Nat /\ Len(stream'[io]) \in Nat
      /\ onDisk[io] \in 0..Len(stream[io]) /\ onDisk'[io] \in 0..Len(stream'[io])
  BY LenProperties DEF Inv, TypeOK, StoreTypes, Files
<1>. DEFINE before == InFile(io)
            after == SubSeq(stream'[io], 1, onDisk'[io])
<1>2. /\ \A i \in 1..Len(stream[io]) : stream[io][i] \in Entries
      /\ \A i \in 1..Len(stream'[io]) : stream'[io][i] \in Entries
  BY <1>1, ElementOfSeq
<1>3. Len(before) = onDisk[io] /\ \A i \in 1..onDisk[io] : before[i] = stream[io][i]
  BY <1>1, <1>2, SubSeqProperties DEF InFile
<1>4. Len(after) = onDisk'[io] /\ \A i \in 1..onDisk'[io] : after[i] = stream'[io][i]
  BY <1>1, <1>2, SubSeqProperties
<1>5. Embeds(stream'[io], Len(stream'[io]), given'[io])
  BY DEF StreamHoldsOneSave
<1>6. Embeds(after, onDisk'[io], given'[io])
  <2>. HIDE DEF after
  <2>1. Embeds(stream'[io], onDisk'[io], given'[io])
    BY <1>1, <1>5, EmbedsPrefix
  <2>2. onDisk'[io] \in Nat
    BY <1>1
  <2>. QED  BY <1>4, <2>1, <2>2, EmbedsCopy
<1>7. Copies!Within(after, given'[io])
  BY <1>4, <1>6 DEF Embeds, Copies!Within
<1>8. /\ [k \in Files |-> InFile(k)][io] = before
      /\ ([k \in Files |-> InFile(k)])'[io] = after
      /\ ([k \in Files |-> given[k]])'[io] = given'[io]
  BY DEF InFile
<1>9. Len(before) <= Len(after) /\ \A i \in 1..Len(before) : after[i] = before[i]
  BY <1>1, <1>3, <1>4
<1>. HIDE DEF before, after
<1>. QED  BY <1>7, <1>8, <1>9 DEF Copies!Gains

\* What one step of SaveRestore is for a file.
LEMMA FileStep ==
  ASSUME Assumptions, Inv, StreamHoldsOneSave, SoundInv, [Next]_vars, NEW io \in Files
  PROVE  Copies!Begin(io) \/ Copies!Hand(io) \/ Copies!Settle(io) \/ Copies!Complete(io)
<1>0. /\ stream \in [IOs -> Seq(Entries)] /\ given \in [IOs -> Seq(Entries)]
      /\ sound \in [IOs -> BOOLEAN] /\ onDisk \in [IOs -> Nat]
      /\ io \in IOs /\ onDisk[io] <= Len(stream[io])
      /\ ios \in Seq(IOs) /\ Len(ios) \in Nat
  BY LenProperties DEF Inv, TypeOK, StoreTypes, Files
<1>1. Inv' /\ StreamHoldsOneSave' /\ SoundInv'
  BY NextInv, NextOneSave, NextSound
<1>2. ASSUME onDisk[io] <= onDisk'[io],
             \A i \in 1..onDisk[io] : stream'[io][i] = stream[io][i],
             given'[io] = given[io], sound'[io] = sound[io]
      PROVE  Copies!Settle(io)
  BY <1>1, <1>2, FileGains DEF Copies!Settle
<1>3. ASSUME stream'[io] = stream[io], onDisk'[io] = onDisk[io],
             given'[io] = given[io], sound'[io] = sound[io]
      PROVE  Copies!Settle(io)
  BY <1>0, <1>2, <1>3
<1>4. CASE Die
  <2>1. given' = given /\ sound' = sound /\ ProcessEnds
    BY <1>4 DEF Die, history
  <2>2. PICK m \in 0..Len(stream[io]) : stream'[io] = SubSeq(stream[io], 1, m)
    BY <1>0, <2>1, ProcessEndsType DEF Inv, TypeOK
  <2>3. Len(stream[io]) \in Nat /\ \A i \in 1..Len(stream[io]) : stream[io][i] \in Entries
    BY <1>0, LenProperties, ElementOfSeq
  <2>4. Len(stream'[io]) = m /\ \A i \in 1..m : stream'[io][i] = stream[io][i]
    BY <2>2, <2>3, SubSeqProperties
  <2>5. onDisk[io] <= onDisk'[io]
    BY <1>0, <2>1, <2>3 DEF ProcessEnds
  <2>6. onDisk'[io] \in Nat /\ onDisk'[io] <= m
    BY <1>0, <1>1, <2>4 DEF Inv, TypeOK, StoreTypes
  <2>. QED  BY <1>0, <1>2, <2>1, <2>4, <2>5, <2>6
<1>5. CASE \E k \in IOs : BeginWrite(k)
  <2>1. PICK k \in IOs : BeginWrite(k)
    BY <1>5
  <2>2. CASE StoreBeginFails(k) /\ UNCHANGED <<given, sound>>
    <3>1. StoreTypes
      BY DEF Inv, TypeOK
    <3>2. stream' = stream
      BY <2>2 DEF StoreBeginFails
    <3>3. \/ onDisk' = onDisk
          \/ \E n, t : t \in BOOLEAN /\ Reaches(k, stream[k], n, t)
      BY <2>2, <3>1, BeginFailsReaches
    <3>4. CASE onDisk' = onDisk
      BY <1>0, <1>3, <2>2, <3>2, <3>4
    <3>5. CASE \E n, t : t \in BOOLEAN /\ Reaches(k, stream[k], n, t)
      <4>1. onDisk[io] <= onDisk'[io]
        BY <1>0, <2>1, <3>1, <3>5, ReachesFurther
      <4>. QED  BY <1>2, <2>2, <3>2, <4>1
    <3>. QED  BY <3>3, <3>4, <3>5
  <2>3. CASE /\ StoreBegins(k)
             /\ given' = [given EXCEPT ![k] = <<>>]
             /\ sound' = [sound EXCEPT ![k] = FALSE]
    <3>1. CASE k = io
      <4>1. /\ stream'[io] = <<>> /\ onDisk'[io] = 0
            /\ given'[io] = <<>> /\ ~sound'[io]
        BY <1>0, <2>3, <3>1 DEF StoreBegins, Truncate
      <4>2. SubSeq(stream'[io], 1, onDisk'[io]) = <<>>
        BY <4>1, EmptySeq
      <4>. QED  BY <4>1, <4>2 DEF Copies!Begin, InFile
    <3>2. CASE k # io
      BY <1>0, <1>3, <2>3, <3>2 DEF StoreBegins, Truncate
    <3>. QED  BY <3>1, <3>2
  <2>. QED  BY <2>1, <2>2, <2>3 DEF BeginWrite, StoreBeginFails
<1>6. CASE \E k \in IOs : WriteData(k)
  <2>1. PICK k \in IOs : WriteData(k)
    BY <1>6
  <2>. DEFINE e == Entry(channels[chan], data)
  <2>2. e \in Entries
    <3>1. channels \in Seq(PVs) /\ chan \in 1..Len(channels) /\ data \in Values
      BY <2>1, EmptySeq, LenProperties
      DEF Inv, TypeOK, LoopInv, WriteData, Assumptions, SetAssumption
    <3>. QED  BY <3>1, ElementOfSeq DEF Entry, Entries
  <2>3. /\ given' = [given EXCEPT ![k] = Append(given[k], e)] /\ sound' = sound
        /\ phase = "write" /\ Begun(k)
    <3>1. next \in 1..Len(ios) /\ ios[next] = k
      BY <1>0, <2>1, LenProperties DEF WriteData, Inv, TypeOK, Assumptions, SetAssumption
    <3>. QED  BY <2>1, <3>1 DEF WriteData, Begun
  <2>4. CASE k # io
    <3>1. stream'[io] = stream[io] /\ onDisk'[io] = onDisk[io]
      BY <1>0, <2>1, <2>4
      DEF WriteData, StoreWrites, SaveText, SaveJson, HttpWrites, StoreWriteFails, store,
        Spill, FlushAll, Reaches
    <3>. QED  BY <1>0, <1>3, <2>3, <2>4, <3>1
  <2>5. CASE k = io
    <3>1. stream'[io] \in {stream[io], Append(stream[io], e)}
      BY <1>0, <2>1, <2>5
      DEF WriteData, StoreWrites, SaveText, SaveJson, HttpWrites, Longer, StoreWriteFails, store
    <3>2. \A i \in 1..onDisk[io] : stream'[io][i] = stream[io][i]
      <4>1. /\ Len(stream[io]) \in Nat
            /\ \A i \in 1..Len(stream[io]) : Append(stream[io], e)[i] = stream[io][i]
        BY <1>0, <2>2, AppendProperties, LenProperties
      <4>2. \A i \in 1..onDisk[io] : i \in 1..Len(stream[io])
        BY <1>0, <4>1
      <4>. HIDE DEF e
      <4>3. CASE stream'[io] = stream[io]
        BY <4>3
      <4>4. CASE stream'[io] = Append(stream[io], e)
        BY <4>1, <4>2, <4>4
      <4>. QED  BY <3>1, <4>3, <4>4
    <3>3. onDisk[io] <= onDisk'[io]
      <4>1. \/ onDisk' = onDisk
            \/ \E n, t : Reaches(io, Longer(io, channels[chan], data), n, t)
        BY <2>1, <2>5
        DEF WriteData, StoreWrites, SaveText, SaveJson, HttpWrites, StoreWriteFails, store,
          Spill, FlushAll
      <4>2. StoreTypes /\ Longer(io, channels[chan], data) \in Seq(Entries)
        <5>1. Append(stream[io], e) \in Seq(Entries)
          BY <1>0, <2>2
        <5>. QED  BY <5>1 DEF Inv, TypeOK, Longer
      <4>3. CASE onDisk' = onDisk
        BY <1>0, <4>3
      <4>. QED  BY <1>0, <4>1, <4>2, <4>3, ReachesFurther
    <3>4. Copies!Gains(io)
      BY <1>1, <3>2, <3>3, FileGains
    <3>5. given'[io] = Append(given[io], e) /\ ~sound[io] /\ ~sound'[io]
      BY <1>0, <2>3, <2>5 DEF SoundInv
    <3>. QED  BY <2>2, <3>4, <3>5 DEF Copies!Hand
  <2>. QED  BY <2>4, <2>5
<1>7. CASE \E k \in IOs : EndWrite(k)
  <2>1. PICK k \in IOs : EndWrite(k)
    BY <1>7
  <2>2. /\ UNCHANGED <<stream, given>>
        /\ sound' = [sound EXCEPT ![k] = sound[k] \/ ~full[k]]
    BY <2>1 DEF EndWrite, StoreEnds
  <2>3. CASE k # io
    <3>1. onDisk'[io] = onDisk[io]
      BY <1>0, <2>1, <2>3 DEF EndWrite, StoreEnds, Flush, FlushAll, Reaches
    <3>. QED  BY <1>0, <1>3, <2>2, <2>3, <3>1
  <2>4. CASE k = io
    <3>1. onDisk[io] <= onDisk'[io]
      <4>1. \E n, t : Reaches(io, stream[io], n, t)
        BY <2>1, <2>4 DEF EndWrite, StoreEnds, Flush, FlushAll
      <4>. QED  BY <1>0, <4>1 DEF Reaches
    <3>2. CASE sound'[io] = sound[io]
      BY <1>2, <2>2, <3>1, <3>2
    <3>3. CASE sound'[io] # sound[io]
      <4>1. sound'[io]
        BY <1>0, <2>2, <2>4, <3>3
      <4>2. stream'[io] = given'[io] /\ onDisk'[io] = Len(stream'[io])
        BY <1>1, <4>1 DEF SoundInv
      <4>3. SubSeq(stream'[io], 1, onDisk'[io]) = given[io]
        BY <1>0, <2>2, <4>2, SubSeqFull
      <4>4. Copies!Gains(io)
        BY <1>1, <2>2, <3>1, FileGains
      <4>. QED  BY <2>2, <4>1, <4>3, <4>4 DEF Copies!Complete, InFile
    <3>. QED  BY <3>2, <3>3
  <2>. QED  BY <2>3, <2>4
<1>8. CASE Boot \/ Restore \/ BeginReadFails \/ NoRestore \/ StartSave
  BY <1>3, <1>8 DEF Boot, Restore, RestoreFrom, BeginReadFails, NoRestore,
    StartSave, store, history
<1>9. CASE ReadChannel \/ EndWrites \/ FinishSave \/ \E p \in PVs : ChangeValue(p)
  BY <1>3, <1>9 DEF ReadChannel, EndWrites, FinishSave, ChangeValue, store, history
<1>10. CASE \E k \in IOs : Device(k)
  BY <1>3, <1>10 DEF Device, DeviceFills, DeviceFreed, history
<1>11. CASE UNCHANGED vars
  BY <1>3, <1>11 DEF vars, store, history
<1>. QED
  BY <1>4, <1>5, <1>6, <1>7, <1>8, <1>9, <1>10, <1>11 DEF Next, Save

\* For any backends, formats, channel lists and values, and whatever becomes of
\* the process and the devices, the files are durable copies: entries get there
\* in order, none that is there is lost before the next beginWrite, and a save
\* that endWrite has finished with room on the device is there whole.
THEOREM SaveImplementsDurableCopy == Spec => FilesAreDurable
<1>0. Assumptions
  BY StoreAssumption, SetAssumption DEF Assumptions
<1>1. Init => Inv /\ StreamHoldsOneSave /\ SoundInv
  BY <1>0, InitInv, InitOneSave, InitSound
<1>2. Init => Copies!Init
  <2>1. \A s, n : s = <<>> /\ n = 0 => SubSeq(s, 1, n) = <<>>
    BY EmptySeq
  <2>. QED  BY <2>1 DEF Init, StoreInit, Copies!Init, InFile, Files
<1>3. Inv /\ StreamHoldsOneSave /\ SoundInv /\ [Next]_vars
        => Inv' /\ StreamHoldsOneSave' /\ SoundInv'
  BY <1>0, NextInv, NextOneSave, NextSound
<1>4. Inv /\ StreamHoldsOneSave /\ SoundInv /\ [Next]_vars => [Copies!Next]_(Copies!vars)
  BY <1>0, FileStep DEF Copies!Next
<1>. QED  BY <1>1, <1>2, <1>3, <1>4, PTL DEF Spec, FilesAreDurable, Copies!Spec

=============================================================================
