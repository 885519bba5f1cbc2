---------------------------- MODULE IocInitProofs ----------------------------
(***************************************************************************)
(* Theorems about IocInit, for all monitor sets, lists, backends and       *)
(* bounds.                                                                 *)
(***************************************************************************)
EXTENDS IocInit, TLAPS, SequenceTheorems, FiniteSetTheorems

Assumptions == RecordAssumption /\ InitAssumption /\ AbsentAssumption

(***************************************************************************)
(* The inductive invariant of types, in parts that steps disturb together. *)
(* A channel of the present allocation of addrs_ points to a cell of it,   *)
(* and there has been no allocation after the present one.                 *)
(***************************************************************************)
ConfigOK ==
  /\ created \subseteq Sets /\ IsFiniteSet(created)
  /\ sets \in [Sets -> SetTypes]
  /\ backends \subseteq IOs

HookOK ==
  /\ phase \in Phases
  /\ contexts \in Seq(created) /\ IsInjective(contexts)
  /\ pos \in 0..(Len(contexts) + 1)
  /\ phase \in {"connect", "devsup", "database"} => pos > 0
  /\ timers \in Nat
  /\ due \subseteq Range(contexts)

CellsInv ==
  \A s \in Sets : \A i \in DOMAIN channels[s] :
    /\ channels[s][i].block = block => channels[s][i].at \in DOMAIN cells
    /\ channels[s][i].block <= block

ChannelsOK ==
  /\ block \in Nat /\ size \in Nat /\ cells \in Seq(Addresses)
  /\ channels = [s \in Sets |-> channels[s]]
  /\ \A s \in Sets : \A i \in DOMAIN channels[s] : i \in Nat /\ channels[s][i] \in ChannelTypes
  /\ CellsInv

DataOK ==
  /\ value \in [Records -> Data]
  /\ file \in [IOs -> Contents]
  /\ pvs \in Contents \union {NoPvs}
  /\ chan \in Nat

SaveOK == save \in [ctx : 0..(Len(contexts) + 1), chan : Nat, ios : SUBSET IOs, put : SUBSET Records]

\* Until the last hook of iocBuild is done nothing is saved but by a put of pass 1.
Early == {"script", "connect", "devsup", "database"}
OrderOK ==
  /\ phase = "script" => contexts = <<>> /\ pos = 0
  /\ phase \in Early => timers = 0
  /\ phase \in Early => save = NoSave \/ (phase = "database" /\ save.put # {})

TypeInv == ConfigOK /\ HookOK /\ ChannelsOK /\ DataOK /\ SaveOK /\ OrderOK

LEMMA TypeInvImpliesTypeOK == TypeInv => TypeOK
BY DEF TypeInv, TypeOK, ConfigOK, HookOK, ChannelsOK, DataOK, SaveOK

\* What keeps a part as it is.
LEMMA ConfigFrame == ConfigOK /\ UNCHANGED config => ConfigOK'
BY DEF ConfigOK, config

LEMMA HookFrame ==
  HookOK /\ UNCHANGED <<phase, contexts, pos, timers, due>> /\ created \subseteq created' => HookOK'
<1>. SUFFICES ASSUME HookOK, UNCHANGED <<phase, contexts, pos, timers, due>>, created \subseteq created'
              PROVE  HookOK'
  OBVIOUS
<1>1. contexts \in Seq(created')
  BY SeqMonotonic DEF HookOK
<1>. QED  BY <1>1 DEF HookOK, IsInjective, Range

LEMMA ChannelsFrame == ChannelsOK /\ UNCHANGED <<channels, addrs>> => ChannelsOK'
BY DEF ChannelsOK, CellsInv, addrs

LEMMA SaveFrame == SaveOK /\ UNCHANGED <<contexts, save>> => SaveOK'
BY DEF SaveOK

LEMMA DataFrame == DataOK /\ UNCHANGED <<value, file, pvs, chan>> => DataOK'
BY DEF DataOK

LEMMA OrderFrame == OrderOK /\ UNCHANGED <<phase, contexts, pos, save, timers>> => OrderOK'
BY DEF OrderOK

LEMMA AddressedType ==
  ASSUME ChannelsOK, NEW s \in Sets, NEW i \in DOMAIN channels[s]
  PROVE  Addressed(channels[s][i]) \subseteq Addresses
<1>1. CASE channels[s][i].block = block
  <2>1. cells[channels[s][i].at] \in Addresses
    BY <1>1, ElementOfSeq, LenProperties DEF ChannelsOK, CellsInv
  <2>. QED  BY <1>1, <2>1 DEF Addressed
<1>2. CASE channels[s][i].block # block
  BY <1>2 DEF Addressed
<1>. QED  BY <1>1, <1>2

LEMMA PutValue ==
  ASSUME DataOK, NEW r \in Records, NEW v \in Data, PutField(r, v)
  PROVE  /\ value' \in [Records -> Data]
         /\ \A q \in Records :
              value'[q] \in {value[q], Datum(q, "new")} \/ (q = r /\ value'[q] = v)
<1>1. PICK processed \in SUBSET Linked[r] :
        value' = [q \in Records |-> IF q \in processed THEN Datum(q, "new")
                                      ELSE IF q = r THEN v ELSE value[q]]
  BY DEF PutField
<1>2. \A q \in Records : Datum(q, "new") \in Data /\ Datum(q, "new").of = q
  BY DEF Datum, Data
<1>. QED  BY <1>1, <1>2 DEF DataOK

LEMMA ContextIsSet ==
  ASSUME ConfigOK, HookOK, NEW k \in 1..Len(contexts)
  PROVE  contexts[k] \in created /\ contexts[k] \in Sets /\ contexts[k] \in Range(contexts)
<1>1. contexts[k] \in created
  BY ElementOfSeq DEF HookOK
<1>2. k \in DOMAIN contexts
  BY LenProperties DEF HookOK
<1>. QED  BY <1>1, <1>2 DEF ConfigOK, Range

-----------------------------------------------------------------------------
(***************************************************************************)
(* Types.                                                                  *)
(***************************************************************************)
LEMMA InitType ==
  ASSUME Assumptions, Init
  PROVE  TypeInv
<1>1. ConfigOK
  BY FS_EmptySet DEF Init, ConfigOK, SetTypes, NewSet
<1>2. HookOK
  BY DEF Init, HookOK, IsInjective, Phases
<1>3. ChannelsOK
  BY DEF Init, AddrsInit, ChannelsOK, CellsInv
<1>4. DataOK
  BY DEF Init, DataOK, Assumptions, RecordAssumption, Data, Datum, Contents, BootFile
<1>5. SaveOK
  BY DEF Init, SaveOK, NoSave
<1>6. OrderOK
  BY DEF Init, OrderOK, Early
<1>. QED  BY <1>1, <1>2, <1>3, <1>4, <1>5, <1>6 DEF TypeInv

\* A command of the shell about a set disturbs the configuration, or the phase.
LEMMA CommandType ==
  ASSUME Assumptions, TypeInv, NEW s \in Sets, Command(s)
  PROVE  TypeInv'
<1>. USE DEF TypeInv
<1>r. /\ Rates \subseteq Int /\ OnePvs \subseteq Names
      /\ PvLists \subseteq Seq(Names) /\ InfoPvs \in Seq(Names)
  BY DEF Assumptions, InitAssumption
<1>a. ASSUME ConfigOK', created \subseteq created', UNCHANGED <<hook, restore, value, file, save>>
      PROVE  TypeInv'
  BY <1>a, HookFrame, ChannelsFrame, SaveFrame, DataFrame, OrderFrame DEF hook, restore
<1>1. ASSUME NEW rate \in Rates, CreatePvSet(s, rate)
      PROVE  TypeInv'
  <2>1. NewSet(rate) \in SetTypes
    BY <1>r DEF NewSet, SetTypes
  <2>2. ConfigOK'
    BY <1>1, <2>1, FS_AddElement DEF CreatePvSet, ConfigOK
  <2>. QED  BY <1>1, <2>2, <1>a DEF CreatePvSet
<1>2. ASSUME NEW io \in IOs, AddPvSetIO(s, io)
      PROVE  TypeInv'
  <2>1. Append(sets[s].io, io) \in Seq(IOs)
    BY AppendProperties DEF ConfigOK, SetTypes
  <2>2. [sets[s] EXCEPT !.io = Append(@, io)] \in SetTypes
    BY <2>1 DEF ConfigOK, SetTypes
  <2>. QED  BY <1>2, <2>2, <1>a DEF AddPvSetIO, ConfigOK
<1>3. ASSUME NEW list \in Seq(Names), AddPvs(s, list)
      PROVE  TypeInv'
  <2>1. sets[s].pvList \o list \in Seq(Names)
    BY ConcatProperties DEF ConfigOK, SetTypes
  <2>2. [sets[s] EXCEPT !.pvList = @ \o list] \in SetTypes
    BY <2>1 DEF ConfigOK, SetTypes
  <2>. QED  BY <1>3, <2>2, <1>a DEF AddPvs, ConfigOK
<1>4. ASSUME NEW n \in 0..2, SetPvSetRestoreStage(s, n)
      PROVE  TypeInv'
  <2>a. n \in -1..2
    OBVIOUS
  <2>b. sets[s] \in SetTypes
    BY DEF ConfigOK
  <2>1. [sets[s] EXCEPT !.stage = n] \in SetTypes
    BY <2>a, <2>b DEF SetTypes
  <2>. QED  BY <1>4, <2>1, <1>a DEF SetPvSetRestoreStage, ConfigOK
<1>5. CASE ListChannels(s)
  <2>1. HookOK'
    BY <1>5 DEF ListChannels, HookOK, IsInjective, Phases, config, restore, Range
  <2>2. OrderOK'
    BY <1>5 DEF ListChannels, OrderOK, Early
  <2>. QED  BY <1>5, <2>1, <2>2, ConfigFrame, ChannelsFrame, SaveFrame, DataFrame DEF ListChannels, restore
<1>6. \A p \in OnePvs : <<p>> \in Seq(Names)
  BY <1>r
<1>. QED  BY <1>r, <1>1, <1>2, <1>3, <1>4, <1>5, <1>6 DEF Command, AddPvSetPv, AddPvSetList, InitFromDb

\* A new backend disturbs the table of backends only.
LEMMA ConfigureIOType ==
  ASSUME TypeInv, NEW io \in IOs, ConfigureIO(io)
  PROVE  TypeInv'
<1>1. ConfigOK'
  BY DEF ConfigureIO, TypeInv, ConfigOK
<1>2. HookOK'
  BY HookFrame DEF ConfigureIO, TypeInv, hook, restore
<1>. QED  BY <1>1, <1>2, ChannelsFrame, SaveFrame, DataFrame, OrderFrame DEF ConfigureIO, TypeInv, hook, restore

\* Connecting a set keeps the cells of the others in being, or moves them all.
LEMMA ConnectType ==
  ASSUME Assumptions, TypeInv, Connect
  PROVE  TypeInv'
<1>. DEFINE s == contexts[pos]
            list == sets[s].pvList
            n == Len(list)
<1>1. pos \in 1..Len(contexts) /\ s \in Sets
  <2>1. pos \in 1..Len(contexts)
    BY LenProperties DEF Connect, TypeInv, HookOK
  <2>. QED  BY <2>1, ContextIsSet DEF TypeInv
<1>2. list \in Seq(Names) /\ n \in Nat /\ DOMAIN list = 1..n /\ \A i \in 1..n : list[i] \in Names
  BY <1>1, LenProperties, ElementOfSeq DEF TypeInv, ConfigOK, SetTypes
<1>3. Grown(n) \in Nat /\ Grown(n) >= n /\ Len(cells) \in Nat /\ size \in Nat /\ block \in Nat
  BY <1>2, LenProperties DEF Grown, TypeInv, ChannelsOK
<1>4. cells' \in Seq(Addresses) /\ block' \in Nat /\ size' \in Nat
  <2>. DEFINE m == IF Moves(n) THEN Grown(n) ELSE Len(cells)
  <2>1. m \in Nat
    BY <1>3
  <2>2. \A i \in 1..m : cells'[i] \in Addresses
    BY <1>2, <1>3, ElementOfSeq DEF Connect, ConnectAddrs, AddressOf, Addresses, TypeInv, ChannelsOK, Moves
  <2>3. cells' = [i \in 1..m |-> cells'[i]]
    BY DEF Connect, ConnectAddrs
  <2>. HIDE DEF m
  <2>4. cells' \in Seq(Addresses)
    BY <2>1, <2>2, <2>3, SeqDef
  <2>. QED  BY <2>4, <1>2, <1>3 DEF Connect, ConnectAddrs
<1>5. /\ DOMAIN cells' = 1..(IF Moves(n) THEN Grown(n) ELSE Len(cells))
      /\ block' = IF Moves(n) THEN block + 1 ELSE block
  BY DEF Connect, ConnectAddrs
<1>6. channels' = [channels EXCEPT ![s] = Connected(list)]
  BY DEF Connect
<1>7. \A i \in DOMAIN Connected(list) :
        i \in 1..n /\ Connected(list)[i] = [pv |-> list[i], block |-> block', at |-> i]
  BY <1>2 DEF Connected, CellBlock, CellIndex
<1>8. \A t \in Sets : \A i \in DOMAIN channels'[t] :
        i \in Nat /\ channels'[t][i] \in ChannelTypes
  <2>. TAKE t \in Sets
  <2>1. CASE t = s
    <3>1. channels'[t] = Connected(list)
      BY <2>1, <1>1, <1>6 DEF TypeInv, ChannelsOK
    <3>2. ASSUME NEW i \in DOMAIN channels'[t]
          PROVE  i \in Nat /\ channels'[t][i] \in ChannelTypes
      <4>1. i \in 1..n /\ channels'[t][i] = [pv |-> list[i], block |-> block', at |-> i]
        BY <3>1, <1>7
      <4>2. list[i] \in Names /\ i \in Nat \ {0}
        BY <4>1, <1>2
      <4>. QED  BY <4>1, <4>2, <1>4 DEF ChannelTypes
    <3>. QED  BY <3>2
  <2>2. CASE t # s
    BY <2>2, <1>1, <1>6 DEF TypeInv, ChannelsOK
  <2>. QED  BY <2>1, <2>2
<1>9. CellsInv'
  <2>. SUFFICES ASSUME NEW t \in Sets, NEW i \in DOMAIN channels'[t]
                PROVE  /\ channels'[t][i].block <= block'
                       /\ channels'[t][i].block = block' => channels'[t][i].at \in DOMAIN cells'
    BY DEF CellsInv
  <2>1. CASE t = s
    <3>1. i \in 1..n /\ channels'[t][i] = [pv |-> list[i], block |-> block', at |-> i]
      BY <2>1, <1>1, <1>6, <1>7 DEF TypeInv, ChannelsOK
    <3>2. i \in DOMAIN cells'
      BY <3>1, <1>2, <1>3, <1>5 DEF Moves
    <3>. QED  BY <3>1, <3>2, <1>4
  <2>2. CASE t # s
    <3>1. channels'[t] = channels[t]
      BY <2>2, <1>1, <1>6 DEF TypeInv, ChannelsOK
    <3>2. channels[t][i].block \in Nat /\ channels[t][i].block <= block
      BY <3>1 DEF TypeInv, ChannelsOK, CellsInv, ChannelTypes
    <3>3. ~Moves(n) => DOMAIN cells' = DOMAIN cells
      BY <1>5, LenProperties DEF TypeInv, ChannelsOK
    <3>. QED  BY <3>1, <3>2, <3>3, <1>3, <1>5 DEF TypeInv, ChannelsOK, CellsInv
  <2>. QED  BY <2>1, <2>2
<1>10. channels' = [t \in Sets |-> channels'[t]]
  BY <1>6 DEF TypeInv, ChannelsOK
<1>11. ChannelsOK'
  BY <1>4, <1>8, <1>9, <1>10 DEF ChannelsOK
<1>12. HookOK'
  BY <1>1 DEF Connect, TypeInv, HookOK, IsInjective, config, restore, Range
<1>13. OrderOK'
  BY DEF Connect, TypeInv, OrderOK, Early
<1>. QED
  BY <1>11, <1>12, <1>13, ConfigFrame, SaveFrame, DataFrame DEF Connect, TypeInv, restore


LEMMA AtIocBuildType ==
  ASSUME TypeInv, AtIocBuild
  PROVE  TypeInv'
<1>. DEFINE n == Cardinality(created)
<1>1. n \in Nat /\ contexts' \in [1..n -> created] /\ IsInjective(contexts')
  BY FS_CardinalityType DEF AtIocBuild, TypeInv, ConfigOK, Bijection, Injection
<1>2. contexts' \in Seq(created) /\ Len(contexts') \in Nat
  BY <1>1, SeqDef, LenProperties
<1>3. \A t \in created : \E k \in 1..n : contexts'[k] = t
  BY DEF AtIocBuild, Bijection, Surjection
<1>4. due' \subseteq Range(contexts')
  BY <1>1, <1>3 DEF AtIocBuild, Range
<1>5. HookOK'
  BY <1>1, <1>2, <1>4 DEF AtIocBuild, TypeInv, HookOK, Phases, config
<1>6. SaveOK'
  BY <1>2 DEF AtIocBuild, SaveOK, NoSave, TypeInv, OrderOK, Early
<1>7. OrderOK'
  BY DEF AtIocBuild, TypeInv, OrderOK, Early
<1>. QED
  BY <1>5, <1>6, <1>7, ConfigFrame, ChannelsFrame, DataFrame DEF AtIocBuild, TypeInv

\* The steps of a restore pass.
LEMMA RestoreType ==
  ASSUME Assumptions, TypeInv, SkipRestore \/ ReadSaved \/ NoRestore \/ Put \/ RestoreDone
  PROVE  TypeInv'
<1>1. pos \in 1..Len(contexts) /\ contexts[pos] \in Sets
  BY ContextIsSet DEF TypeInv, SkipRestore, ReadSaved, NoRestore, Put, RestoreDone, Restoring
<1>2. CASE SkipRestore \/ NoRestore \/ RestoreDone
  <2>1. HookOK'
    BY <1>1, <1>2 DEF SkipRestore, NoRestore, RestoreDone, NextContext, TypeInv, HookOK,
                      IsInjective, Range, config
  <2>2. DataOK'
    BY <1>2 DEF SkipRestore, NoRestore, RestoreDone, NextContext, TypeInv, DataOK
  <2>3. OrderOK'
    BY <1>1, <1>2 DEF SkipRestore, NoRestore, RestoreDone, NextContext, Restoring, TypeInv, OrderOK, Early
  <2>. QED
    BY <1>2, <2>1, <2>2, <2>3, ConfigFrame, ChannelsFrame, SaveFrame
       DEF SkipRestore, NoRestore, RestoreDone, TypeInv
<1>3. CASE ReadSaved
  <2>1. \A io \in Range(sets[contexts[pos]].io) : io \in IOs
    BY <1>1, LenProperties DEF TypeInv, ConfigOK, SetTypes, Range
  <2>2. \A io \in IOs : Readings(io) \subseteq Contents
    BY DEF Readings, TypeInv, DataOK, Contents
  <2>3. DataOK'
    BY <1>3, <2>1, <2>2 DEF ReadSaved, TypeInv, DataOK
  <2>. QED
    BY <1>3, <2>3, ConfigFrame, HookFrame, ChannelsFrame, SaveFrame, OrderFrame DEF ReadSaved, TypeInv, hook, config
<1>4. CASE Put
  <2>1. PICK i \in DOMAIN RestoredChannels : chan' = i + 1
    BY <1>4 DEF Put
  <2>2. i \in Nat /\ RestoredChannels[i] \in ChannelTypes
    BY <1>1, <2>1 DEF TypeInv, ChannelsOK, RestoredChannels
  <2>3. value' \in [Records -> Data] /\ SaveOK'
    <3>1. CASE UNCHANGED <<value, save>>
      BY <1>4, <3>1 DEF TypeInv, DataOK, SaveOK, Put
    <3>2. CASE ~UNCHANGED <<value, save>>
      <4>1. PICK j \in DOMAIN RestoredChannels :
              /\ pvs[RestoredChannels[j].pv] # Absent
              /\ \E r \in Addressed(RestoredChannels[j]) :
                   r # None /\ PutField(r, pvs[RestoredChannels[j].pv])
        BY <1>4, <3>2 DEF Put
      <4>2. PICK r \in Addressed(RestoredChannels[j]) :
              r # None /\ PutField(r, pvs[RestoredChannels[j].pv])
        BY <4>1
      <4>3. RestoredChannels[j].pv \in Names /\ r \in Records
        BY <1>1, <4>2, AddressedType DEF TypeInv, ChannelsOK, RestoredChannels, ChannelTypes, Addresses
      <4>4. pvs[RestoredChannels[j].pv] \in Data
        BY <1>4, <4>1, <4>3 DEF Put, TypeInv, DataOK, Contents
      <4>5. value' \in [Records -> Data]
        BY <4>2, <4>3, <4>4, PutValue DEF TypeInv
      <4>6. Linked[r] \subseteq Records
        BY <4>3 DEF Assumptions, InitAssumption
      <4>7. save' = save \/ save' = [NoSave EXCEPT !.ctx = 1, !.put = Linked[r]]
        BY <4>2 DEF PutField
      <4>8. Len(contexts') = Len(contexts) /\ 1 \in 0..(Len(contexts) + 1)
        BY <1>1, <1>4, LenProperties DEF Put, TypeInv, HookOK
      <4>9. [NoSave EXCEPT !.ctx = 1, !.put = Linked[r]]
              \in [ctx : 0..(Len(contexts) + 1), chan : Nat, ios : SUBSET IOs, put : SUBSET Records]
        BY <4>6, <4>8 DEF NoSave
      <4>10. SaveOK'
        BY <4>7, <4>8, <4>9 DEF SaveOK, TypeInv
      <4>. QED  BY <4>5, <4>10
    <3>. QED  BY <3>1, <3>2
  <2>4. DataOK'
    BY <1>4, <2>1, <2>2, <2>3 DEF Put, TypeInv, DataOK
  <2>5. HookOK'
    BY <1>4 DEF Put, TypeInv, HookOK, Phases, IsInjective, Range, config
  <2>6. save' = save \/ (phase # "devsup" /\ phase' = phase /\ save'.put # {})
    <3>1. \A r : Linked[r] \intersect Savers # {} => [NoSave EXCEPT !.ctx = 1, !.put = Linked[r]].put # {}
      BY DEF NoSave
    <3>. QED  BY <1>4, <3>1 DEF Put, PutField
  <2>7. phase' \in {phase, "badAddress", "noLockSet"} /\ UNCHANGED <<contexts, pos, timers>>
    BY <1>4 DEF Put
  <2>8. phase \in {"devsup", "database", "running"}
    BY <1>4 DEF Put, Restoring
  <2>9. OrderOK'
    BY <2>6, <2>7, <2>8 DEF TypeInv, OrderOK, Early
  <2>. QED
    BY <1>4, <2>3, <2>4, <2>5, <2>9, ConfigFrame, ChannelsFrame DEF Put, TypeInv
<1>. QED  BY <1>2, <1>3, <1>4

LEMMA PhaseType ==
  ASSUME TypeInv, HookDone \/ IocRun \/ IocPause
  PROVE  TypeInv'
<1>1. HookOK'
  BY LenProperties DEF HookDone, IocRun, IocPause, TypeInv, HookOK, Phases, IsInjective, Range, config, restore
<1>2. OrderOK'
  BY DEF HookDone, IocRun, IocPause, TypeInv, OrderOK, Early
<1>. QED
  BY <1>1, <1>2, ConfigFrame, ChannelsFrame, SaveFrame, DataFrame
     DEF HookDone, IocRun, IocPause, TypeInv, restore

LEMMA SaveStepType ==
  ASSUME TypeInv, SaveStep
  PROVE  TypeInv'
<1>o. OrderOK'
  <2>1. phase' \in {phase, "badAddress"} /\ UNCHANGED <<contexts, pos, timers>>
    BY DEF SaveStep, StartSave, SkipSave, CrashInPreRead, BeginSave, SaveChannel, EndSave, FinishSave, hook
  <2>2. CASE phase \notin Early
    BY <2>1, <2>2 DEF OrderOK, Early
  <2>3. CASE phase \in Early
    <3>1. ~StartSave
      BY <2>3 DEF StartSave, RecordsProcess, ShellIsFree, Crashed, TypeInv, OrderOK, Early
    <3>2. save # NoSave
      BY <3>1, LenProperties DEF SaveStep, SkipSave, CrashInPreRead, BeginSave, SaveChannel, EndSave,
         FinishSave, Saving, NoSave, TypeInv, HookOK
    <3>3. phase = "database" /\ save.put # {}
      BY <2>3, <3>2 DEF TypeInv, OrderOK
    <3>4. SaveNextContext => save'.put = save.put
      BY DEF SaveNextContext, NoSave
    <3>5. save' = NoSave \/ save'.put = save.put
      BY <3>1, <3>4 DEF SaveStep, SkipSave, CrashInPreRead, BeginSave, SaveChannel, EndSave, FinishSave,
         TypeInv, SaveOK
    <3>. QED  BY <2>1, <2>3, <3>3, <3>5 DEF TypeInv, OrderOK, Early
  <2>. QED  BY <2>2, <2>3
<1>1. CASE StartSave
  <2>1. SaveOK'
    BY <1>1, LenProperties DEF StartSave, TypeInv, SaveOK, HookOK, hook
  <2>. QED
    BY <1>o, <1>1, <2>1, ConfigFrame, HookFrame, ChannelsFrame, DataFrame DEF StartSave, TypeInv, hook, restore, config
<1>2. CASE SkipSave \/ EndSave
  <2>n. SaveNextContext => save' = [ctx |-> save.ctx + 1, chan |-> 0, ios |-> {}, put |-> save.put]
    BY DEF SaveNextContext, NoSave
  <2>1. SaveOK'
    BY <1>2, <2>n, LenProperties DEF SkipSave, EndSave, Saving, TypeInv, SaveOK, HookOK, hook
  <2>. QED
    BY <1>o, <1>2, <2>1, ConfigFrame, HookFrame, ChannelsFrame, DataFrame
       DEF SkipSave, EndSave, TypeInv, hook, restore, config
<1>3. CASE CrashInPreRead
  <2>1. HookOK'
    BY <1>3 DEF CrashInPreRead, TypeInv, HookOK, Phases, IsInjective, Range, config, restore
  <2>. QED
    BY <1>o, <1>3, <2>1, ConfigFrame, ChannelsFrame, SaveFrame, DataFrame DEF CrashInPreRead, TypeInv, restore
<1>4. CASE BeginSave
  <2>1. SavedSet \in Sets
    BY <1>4, ContextIsSet DEF BeginSave, Saving, SavedSet, TypeInv
  <2>2. Range(sets[SavedSet].io) \subseteq IOs
    BY <2>1, LenProperties DEF TypeInv, ConfigOK, SetTypes, Range
  <2>3. SaveOK'
    BY <1>4, <2>2 DEF BeginSave, TypeInv, SaveOK, hook
  <2>4. DataOK'
    BY <1>4 DEF BeginSave, TypeInv, DataOK, Contents, restore
  <2>. QED
    BY <1>o, <1>4, <2>3, <2>4, ConfigFrame, HookFrame, ChannelsFrame DEF BeginSave, TypeInv, hook, restore, config
<1>5. CASE SaveChannel
  <2>1. SavedSet \in Sets
    BY <1>5, ContextIsSet DEF SaveChannel, Saving, SavedSet, TypeInv
  <2>2. PICK i \in DOMAIN Channels : \E r \in Addressed(Channels[i]) :
          IF r = None THEN phase' = "badAddress" /\ UNCHANGED <<file, save>>
            ELSE /\ file' = Stored(Channels[i].pv, value[r])
                 /\ save' = [save EXCEPT !.chan = i + 1]
                 /\ UNCHANGED phase
    BY <1>5 DEF SaveChannel
  <2>r. PICK r \in Addressed(Channels[i]) :
          IF r = None THEN phase' = "badAddress" /\ UNCHANGED <<file, save>>
            ELSE /\ file' = Stored(Channels[i].pv, value[r])
                 /\ save' = [save EXCEPT !.chan = i + 1]
                 /\ UNCHANGED phase
    BY <2>2
  <2>3. i \in Nat /\ Channels[i].pv \in Names
    BY <2>1 DEF TypeInv, ChannelsOK, Channels, ChannelTypes
  <2>4. r \in Addresses
    BY <2>1, AddressedType DEF TypeInv, Channels
  <2>5. r # None => value[r] \in Data
    BY <2>4 DEF Addresses, TypeInv, DataOK
  <2>6. DataOK'
    <3>1. \A v \in Data : Stored(Channels[i].pv, v) \in [IOs -> Contents]
      BY <2>3 DEF Stored, TypeInv, DataOK, Contents
    <3>2. file' \in [IOs -> Contents]
      BY <2>r, <2>5, <3>1 DEF TypeInv, DataOK
    <3>. QED  BY <1>5, <3>2 DEF SaveChannel, TypeInv, DataOK, restore
  <2>7. SaveOK'
    BY <1>5, <2>r, <2>3 DEF SaveChannel, TypeInv, SaveOK
  <2>8. HookOK'
    BY <1>5, <2>r DEF SaveChannel, TypeInv, HookOK, Phases, IsInjective, Range, config, restore
  <2>. QED
    BY <1>o, <1>5, <2>6, <2>7, <2>8, ConfigFrame, ChannelsFrame DEF SaveChannel, TypeInv
<1>6. CASE FinishSave
  <2>1. SaveOK'
    BY <1>6, LenProperties DEF FinishSave, NoSave, TypeInv, SaveOK, HookOK, hook
  <2>. QED
    BY <1>o, <1>6, <2>1, ConfigFrame, HookFrame, ChannelsFrame, DataFrame DEF FinishSave, TypeInv, hook, restore, config
<1>. QED  BY <1>1, <1>2, <1>3, <1>4, <1>5, <1>6 DEF SaveStep

LEMMA ChangeValueType ==
  ASSUME TypeInv, NEW r \in Records, ChangeValue(r)
  PROVE  TypeInv'
<1>1. DataOK'
  BY DEF ChangeValue, Datum, Data, TypeInv, DataOK, restore
<1>. QED
  BY <1>1, ConfigFrame, HookFrame, ChannelsFrame, SaveFrame, OrderFrame DEF ChangeValue, TypeInv, hook, restore, config

LEMMA NextType ==
  ASSUME Assumptions, TypeInv, [Next]_vars
  PROVE  TypeInv'
<1>1. CASE UNCHANGED vars
  BY <1>1, ConfigFrame, HookFrame, ChannelsFrame, SaveFrame, DataFrame, OrderFrame
     DEF vars, TypeInv, hook, restore, config
<1>2. CASE Next
  BY <1>2, CommandType, ConfigureIOType, AtIocBuildType, ConnectType, RestoreType, PhaseType,
     SaveStepType, ChangeValueType DEF Next, Hook
<1>. QED  BY <1>1, <1>2


-----------------------------------------------------------------------------
(***************************************************************************)
(* The set that was connected last.                                        *)
(***************************************************************************)
LEMMA LastSetInit == Init => LastSetOwnsAddresses
BY DEF Init, LastSetOwnsAddresses, ConnectedContexts

\* Only a step of Connect touches channels and cells, and it is about the set
\* whose channels it makes; no other step counts more contexts as connected.
LEMMA LastSetStep ==
  ASSUME TypeInv, LastSetOwnsAddresses, [Next]_vars
  PROVE  LastSetOwnsAddresses'
<1>1. CASE Connect
  <2>. DEFINE s == contexts[pos]
              list == sets[s].pvList
              n == Len(list)
  <2>1. pos \in 1..Len(contexts) /\ s \in Sets
    <3>1. pos \in 1..Len(contexts)
      BY <1>1, LenProperties DEF Connect, TypeInv, HookOK
    <3>. QED  BY <3>1, ContextIsSet DEF TypeInv
  <2>2. list \in Seq(Names) /\ n \in Nat /\ DOMAIN list = 1..n
    BY <2>1, LenProperties DEF TypeInv, ConfigOK, SetTypes
  <2>3. Grown(n) \in Nat /\ Grown(n) >= n /\ Len(cells) \in Nat
    BY <2>2, LenProperties DEF Grown, TypeInv, ChannelsOK
  <2>4. channels'[s] = Connected(list)
    BY <1>1, <2>1 DEF Connect, TypeInv, ChannelsOK
  <2>5. \A i \in DOMAIN Connected(list) :
          /\ Connected(list)[i].block = block'
          /\ Connected(list)[i].at \in DOMAIN cells'
          /\ cells'[Connected(list)[i].at] = Connected(list)[i].pv
    <3>. TAKE i \in DOMAIN Connected(list)
    <3>1. i \in 1..n /\ list[i] \in Records
      BY <2>2 DEF Connected
    <3>2. Connected(list)[i] = [pv |-> list[i], block |-> block', at |-> i]
      BY DEF Connected, CellBlock, CellIndex
    <3>3. i \in DOMAIN cells' /\ cells'[i] = list[i]
      BY <1>1, <2>3, <3>1 DEF Connect, ConnectAddrs, AddressOf, Moves
    <3>. QED  BY <3>2, <3>3
  <2>6. ConnectedContexts' = pos /\ contexts' = contexts
    BY <1>1, <2>1 DEF Connect, ConnectedContexts, TypeInv, HookOK
  <2>7. channels'[contexts'[ConnectedContexts']] = Connected(list)
    BY <2>4, <2>6
  <2>. QED  BY <2>5, <2>7 DEF LastSetOwnsAddresses, Owns
<1>2. CASE AtIocBuild
  BY <1>2 DEF AtIocBuild, LastSetOwnsAddresses, ConnectedContexts
<1>3. CASE /\ ~Connect /\ ~AtIocBuild /\ [Next]_vars
  <2>1. UNCHANGED <<contexts, channels, addrs>>
    BY <1>3 DEF Next, vars, Command, CreatePvSet, ConfigureIO, AddPvSetIO, AddPvSetPv, AddPvSetList,
       InitFromDb, AddPvs, SetPvSetRestoreStage, ListChannels, Hook, HookDone, SkipRestore, ReadSaved,
       NoRestore, Put, RestoreDone, IocRun, IocPause, SaveStep, StartSave, SkipSave, CrashInPreRead,
       BeginSave, SaveChannel, EndSave, FinishSave, ChangeValue, hook
  <2>2. ConnectedContexts' = ConnectedContexts
    <3>1. CASE HookDone
      BY <3>1, LenProperties DEF HookDone, ConnectedContexts, TypeInv, HookOK
    <3>2. CASE Hook /\ ~HookDone
      <4>1. phase # "connect" /\ phase' # "connect"
        BY <1>3, <3>2 DEF Hook, SkipRestore, ReadSaved, NoRestore, Put, RestoreDone, IocRun, IocPause,
           Restoring, hook
      <4>. QED  BY <4>1, <2>1 DEF ConnectedContexts
    <3>3. CASE SaveStep
      <4>1. phase = "connect" => UNCHANGED <<phase, pos>>
        BY <3>3 DEF SaveStep, StartSave, SkipSave, CrashInPreRead, BeginSave, SaveChannel, EndSave,
           FinishSave, Saving, hook, TypeInv, OrderOK, SaveOK, Early, NoSave
      <4>2. phase # "connect" => phase' # "connect"
        BY <3>3 DEF SaveStep, StartSave, SkipSave, CrashInPreRead, BeginSave, SaveChannel, EndSave,
           FinishSave, hook
      <4>. QED  BY <4>1, <4>2, <2>1 DEF ConnectedContexts
    <3>4. CASE \E s \in Sets : Command(s)
      <4>1. phase # "connect" /\ phase' # "connect"
        BY <3>4 DEF Command, CreatePvSet, AddPvSetIO, AddPvSetPv, AddPvSetList, InitFromDb, AddPvs,
           SetPvSetRestoreStage, ListChannels, MayConfigure, ShellIsFree, hook
      <4>. QED  BY <4>1, <2>1 DEF ConnectedContexts
    <3>5. CASE UNCHANGED hook
      BY <3>5 DEF ConnectedContexts, hook
    <3>. QED
      BY <1>3, <3>1, <3>2, <3>3, <3>4, <3>5 DEF Next, vars, ConfigureIO, ChangeValue
  <2>. QED  BY <2>1, <2>2 DEF LastSetOwnsAddresses, Owns, addrs
<1>. QED  BY <1>1, <1>2, <1>3


-----------------------------------------------------------------------------
(***************************************************************************)
(* What an earlier process saved.  A set is due until the pass of its      *)
(* restore has come to it, and until the last set has had its turn nothing *)
(* but a put of pass 1 starts a save.                                      *)
(***************************************************************************)
DueInv ==
  /\ due # {} => phase \in {"connect", "devsup", "database", "badAddress", "noLockSet"}
  /\ phase \in {"connect", "devsup", "database"} => \A s \in due : sets[s].stage \in {0, 1}
  /\ phase = "devsup" => \A i \in 1..(pos - 1) : contexts[i] \in due => sets[contexts[i]].stage = 1
  /\ phase = "database" =>
       (\A s \in due : sets[s].stage = 1) /\ \A i \in 1..(pos - 1) : contexts[i] \notin due

LEMMA DueInit == Init => DueInv
BY DEF Init, DueInv

LEMMA DueFrame == DueInv /\ UNCHANGED <<phase, sets, contexts, pos, due>> => DueInv'
BY DEF DueInv

LEMMA DueRestore ==
  ASSUME TypeInv, DueInv, SkipRestore \/ NoRestore \/ RestoreDone
  PROVE  DueInv'
<1>1. /\ pos' = pos + 1 /\ pos \in Nat /\ UNCHANGED <<phase, sets, contexts>>
      /\ due' \subseteq due
      /\ phase \in {"devsup", "database", "running"}
  BY DEF SkipRestore, NoRestore, RestoreDone, Restoring, NextContext, config, TypeInv, HookOK
<1>2. contexts[pos] \in due' => sets[contexts[pos]].stage # Pass
  BY DEF SkipRestore, NoRestore, RestoreDone, Stage
<1>3. CASE phase = "devsup"
  <2>1. contexts[pos] \in due' => sets[contexts[pos]].stage = 1
    BY <1>1, <1>2, <1>3 DEF DueInv, Pass
  <2>2. \A i \in 1..(pos' - 1) : i = pos \/ i \in 1..(pos - 1)
    BY <1>1
  <2>. QED  BY <1>1, <1>3, <2>1, <2>2 DEF DueInv, Early
<1>4. CASE phase = "database"
  <2>1. contexts[pos] \notin due'
    BY <1>1, <1>2, <1>4 DEF DueInv, Pass
  <2>2. \A i \in 1..(pos' - 1) : i = pos \/ i \in 1..(pos - 1)
    BY <1>1
  <2>. QED  BY <1>1, <1>4, <2>1, <2>2 DEF DueInv, Early
<1>5. CASE phase = "running"
  BY <1>1, <1>5 DEF DueInv, Early
<1>. QED  BY <1>1, <1>3, <1>4, <1>5

\* At the end of a hook's loop every set has had its turn.
LEMMA DueHookDone ==
  ASSUME TypeInv, DueInv, HookDone
  PROVE  DueInv'
<1>1. \A s \in due : \E i \in 1..(pos - 1) : contexts[i] = s
  BY LenProperties DEF HookDone, TypeInv, HookOK, Range
<1>2. UNCHANGED <<sets, contexts, due>>
  BY DEF HookDone, config, restore
<1>3. CASE phase = "connect" \/ phase = "running"
  BY <1>2, <1>3 DEF HookDone, DueInv, Early
<1>4. CASE phase = "devsup"
  BY <1>1, <1>2, <1>4 DEF HookDone, DueInv, Early
<1>5. CASE phase = "database"
  <2>1. due = {}
    BY <1>1, <1>5 DEF DueInv
  <2>. QED  BY <1>2, <1>5, <2>1 DEF HookDone, DueInv, Early
<1>. QED  BY <1>3, <1>4, <1>5 DEF HookDone

LEMMA DueStep ==
  ASSUME TypeInv, DueInv, [Next]_vars
  PROVE  DueInv'
<1>1. ASSUME NEW s \in Sets, Command(s)
      PROVE  DueInv'
  <2>1. due = {} /\ phase \in {"script", "running", "paused"}
    BY <1>1 DEF Command, CreatePvSet, AddPvSetIO, AddPvSetPv, AddPvSetList, InitFromDb, AddPvs,
       SetPvSetRestoreStage, ListChannels, MayConfigure, ShellIsFree, DueInv
  <2>2. UNCHANGED due /\ (phase' = phase \/ phase' = "badContext")
    BY <1>1 DEF Command, CreatePvSet, AddPvSetIO, AddPvSetPv, AddPvSetList, InitFromDb, AddPvs,
       SetPvSetRestoreStage, ListChannels, hook, restore
  <2>. QED  BY <2>1, <2>2 DEF DueInv, Early
<1>2. ASSUME NEW io \in IOs, ConfigureIO(io)
      PROVE  DueInv'
  BY <1>2, DueFrame DEF ConfigureIO, hook, restore
<1>3. CASE AtIocBuild
  BY <1>3 DEF AtIocBuild, DueInv, Early, config
<1>4. CASE Connect
  BY <1>4 DEF Connect, DueInv, Early, config, restore
<1>5. CASE ReadSaved
  BY <1>5, DueFrame DEF ReadSaved, hook, config
<1>6. CASE Put
  BY <1>6 DEF Put, Restoring, DueInv, Early, config
<1>7. CASE IocRun \/ IocPause
  BY <1>7 DEF IocRun, IocPause, DueInv, Early, config, restore
<1>8. CASE SaveStep
  BY <1>8 DEF SaveStep, StartSave, SkipSave, CrashInPreRead, BeginSave, SaveChannel, EndSave,
     FinishSave, DueInv, config, hook, restore
<1>9. ASSUME NEW r \in Records, ChangeValue(r)
      PROVE  DueInv'
  BY <1>9, DueFrame DEF ChangeValue, hook, restore, config
<1>10. CASE UNCHANGED vars
  BY <1>10, DueFrame DEF vars, hook, restore, config
<1>. QED
  BY <1>1, <1>2, <1>3, <1>4, <1>5, <1>6, <1>7, <1>8, <1>9, <1>10, DueRestore, DueHookDone
     DEF Next, Hook

LEMMA DueImpliesKept ==
  ASSUME TypeInv, DueInv, [Next]_vars, NEW s \in due, NEW io \in Range(sets[s].io)
  PROVE  file'[io] = file[io] \/ save.put # {}
<1>1. file' = file \/ BeginSave \/ SaveChannel
  BY DEF Next, vars, Command, CreatePvSet, ConfigureIO, AddPvSetIO, AddPvSetPv, AddPvSetList,
     InitFromDb, AddPvs, SetPvSetRestoreStage, ListChannels, Hook, AtIocBuild, Connect, HookDone,
     SkipRestore, ReadSaved, NoRestore, Put, RestoreDone, IocRun, IocPause, SaveStep, StartSave,
     SkipSave, CrashInPreRead, EndSave, FinishSave, ChangeValue
<1>2. CASE BeginSave \/ SaveChannel
  <2>1. ~Crashed /\ save # NoSave
    BY <1>2 DEF BeginSave, SaveChannel, Saving, NoSave
  <2>2. phase \in Early
    BY <2>1 DEF DueInv, Crashed, Early
  <2>. QED  BY <2>1, <2>2 DEF TypeInv, OrderOK
<1>. QED  BY <1>1, <1>2

-----------------------------------------------------------------------------
(***************************************************************************)
(* One monitor set: its channels are those of the set connected last.      *)
(***************************************************************************)
LEMMA OwnAddress ==
  ASSUME Assumptions, TypeInv, LastSetOwnsAddresses, Len(contexts) <= 1, phase # "connect",
         NEW k \in 1..Len(contexts), NEW i \in DOMAIN channels[contexts[k]]
  PROVE  /\ Addressed(channels[contexts[k]][i]) = {channels[contexts[k]][i].pv}
         /\ channels[contexts[k]][i].pv \in Records
         /\ channels[contexts[k]][i].pv # None
<1>. DEFINE ch == channels[contexts[k]][i]
<1>0. Len(contexts) \in Nat
  BY LenProperties DEF TypeInv, HookOK
<1>1. Len(contexts) = 1 /\ k = 1
  BY <1>0
<1>2. Owns(ch)
  BY <1>1 DEF LastSetOwnsAddresses, ConnectedContexts
<1>3. ch.pv \in Names
  BY ContextIsSet DEF TypeInv, ChannelsOK, ChannelTypes
<1>4. cells[ch.at] \in Addresses
  BY <1>2, ElementOfSeq, LenProperties DEF Owns, TypeInv, ChannelsOK
<1>. QED  BY <1>2, <1>3, <1>4 DEF Owns, Addressed, Addresses, Assumptions, RecordAssumption

OwnPvs == pvs # NoPvs => \A p \in Names : pvs[p] # Absent => pvs[p].of = p
KeptApart == Len(contexts) <= 1 => OwnValues /\ OwnPvs

LEMMA KeptApartInit == Init => KeptApart
BY DEF Init, KeptApart, OwnValues, OwnPvs, Datum, BootFile

LEMMA OwnFrame ==
  /\ OwnValues /\ UNCHANGED <<value, file>> /\ phase' # "badAddress" => OwnValues'
  /\ OwnPvs /\ UNCHANGED pvs => OwnPvs'
BY DEF OwnValues, OwnPvs

LEMMA OwnRestore ==
  ASSUME Assumptions, TypeInv, LastSetOwnsAddresses, Len(contexts) <= 1, OwnValues, OwnPvs,
         SkipRestore \/ ReadSaved \/ NoRestore \/ Put \/ RestoreDone
  PROVE  (OwnValues /\ OwnPvs)'
<1>1. pos \in 1..Len(contexts) /\ phase # "connect" /\ contexts[pos] \in Sets
  BY ContextIsSet DEF SkipRestore, ReadSaved, NoRestore, Put, RestoreDone, Restoring, TypeInv
<1>2. CASE SkipRestore \/ NoRestore \/ RestoreDone
  BY <1>2, OwnFrame DEF SkipRestore, NoRestore, RestoreDone, NextContext, OwnValues, OwnPvs
<1>3. CASE ReadSaved
  <2>1. PICK io \in Range(sets[contexts[pos]].io) : pvs' \in Readings(io)
    BY <1>3 DEF ReadSaved
  <2>2. io \in IOs
    BY <1>1, LenProperties DEF TypeInv, ConfigOK, SetTypes, Range
  <2>3. \A p \in Names : pvs'[p] \in {file[io][p], Absent}
    BY <2>1 DEF Readings
  <2>4. OwnPvs'
    BY <2>2, <2>3 DEF OwnPvs, OwnValues
  <2>5. OwnValues'
    BY <1>3 DEF ReadSaved, OwnValues, hook
  <2>. QED  BY <2>4, <2>5
<1>4. CASE Put
  <2>1. PICK i \in DOMAIN RestoredChannels :
          \/ UNCHANGED <<value, phase>>
          \/ \E r \in Addressed(RestoredChannels[i]) :
               \/ r = None
               \/ phase' = "noLockSet" /\ UNCHANGED value
               \/ /\ UNCHANGED phase /\ pvs[RestoredChannels[i].pv] # Absent
                  /\ PutField(r, pvs[RestoredChannels[i].pv])
    BY <1>4 DEF Put
  <2>. DEFINE p == RestoredChannels[i].pv
  <2>2. Addressed(RestoredChannels[i]) = {p} /\ p \in Records /\ p # None
    BY <1>1, OwnAddress DEF RestoredChannels
  <2>3. UNCHANGED <<file, pvs>> /\ pvs \in Contents
    BY <1>4 DEF Put, TypeInv, DataOK
  <2>4. CASE UNCHANGED value /\ phase' # "badAddress"
    BY <2>3, <2>4, OwnFrame
  <2>5. CASE UNCHANGED phase /\ pvs[p] # Absent /\ PutField(p, pvs[p])
    <3>1. p \in Names
      BY <2>2 DEF Assumptions, RecordAssumption
    <3>2. pvs[p].of = p
      BY <1>4, <2>5, <3>1 DEF Put, OwnPvs
    <3>3. pvs[p] \in Data
      BY <2>3, <2>5, <3>1 DEF Contents
    <3>4. \A q \in Records : value'[q] \in {value[q], Datum(q, "new")} \/ (q = p /\ value'[q] = pvs[p])
      BY <2>2, <2>5, <3>3, PutValue DEF TypeInv
    <3>5. OwnValues'
      BY <2>3, <2>5, <3>2, <3>4 DEF OwnValues, Datum
    <3>. QED  BY <2>3, <3>5, OwnFrame
  <2>. QED  BY <2>1, <2>2, <2>4, <2>5 DEF OwnValues
<1>. QED  BY <1>2, <1>3, <1>4

LEMMA OwnSave ==
  ASSUME Assumptions, TypeInv, LastSetOwnsAddresses, Len(contexts) <= 1, OwnValues, OwnPvs, SaveStep
  PROVE  (OwnValues /\ OwnPvs)'
<1>1. OwnPvs'
  BY OwnFrame DEF SaveStep, StartSave, SkipSave, CrashInPreRead, BeginSave, SaveChannel, EndSave,
     FinishSave, restore
<1>2. CASE StartSave \/ SkipSave \/ EndSave \/ FinishSave
  BY <1>1, <1>2, OwnFrame DEF StartSave, SkipSave, EndSave, FinishSave, hook, OwnValues
<1>3. ASSUME Saving
      PROVE  /\ phase # "connect" /\ SavedSet \in Sets
             /\ \A i \in DOMAIN Channels : /\ Addressed(Channels[i]) = {Channels[i].pv}
                                           /\ Channels[i].pv \in Records
                                           /\ Channels[i].pv # None
  <2>1. phase # "connect"
    BY <1>3 DEF Saving, TypeInv, OrderOK, Early, NoSave
  <2>2. SavedSet \in Sets
    BY <1>3, ContextIsSet DEF Saving, SavedSet, TypeInv
  <2>. QED  BY <1>3, <2>1, <2>2, OwnAddress DEF Saving, SavedSet, Channels
<1>4. CASE CrashInPreRead
  BY <1>3, <1>4 DEF CrashInPreRead
<1>5. CASE BeginSave
  BY <1>1, <1>5 DEF BeginSave, OwnValues, hook
<1>6. CASE SaveChannel
  <2>1. PICK i \in DOMAIN Channels : \E r \in Addressed(Channels[i]) :
          IF r = None THEN phase' = "badAddress" /\ UNCHANGED <<file, save>>
            ELSE /\ file' = Stored(Channels[i].pv, value[r])
                 /\ save' = [save EXCEPT !.chan = i + 1]
                 /\ UNCHANGED phase
    BY <1>6 DEF SaveChannel
  <2>. DEFINE p == Channels[i].pv
  <2>2. Addressed(Channels[i]) = {p} /\ p \in Records /\ p # None
    BY <1>3, <1>6 DEF SaveChannel
  <2>3. file' = Stored(p, value[p]) /\ phase' = phase /\ value' = value
    BY <1>6, <2>1, <2>2 DEF SaveChannel
  <2>4. value[p].of = p
    BY <2>2 DEF OwnValues
  <2>5. ASSUME NEW io \in IOs, NEW q \in Names
        PROVE  file'[io][q] # Absent => file'[io][q].of = q
    <3>1. file'[io][q] = file[io][q] \/ (q = p /\ file'[io][q] = value[p])
      BY <2>3 DEF Stored, TypeInv, DataOK, Contents
    <3>. QED  BY <3>1, <2>4 DEF OwnValues
  <2>. QED  BY <1>1, <2>3, <2>5 DEF OwnValues
<1>. QED  BY <1>2, <1>4, <1>5, <1>6 DEF SaveStep

LEMMA KeptApartStep ==
  ASSUME Assumptions, TypeInv, LastSetOwnsAddresses, KeptApart, [Next]_vars
  PROVE  KeptApart'
<1>. SUFFICES ASSUME Len(contexts') <= 1
              PROVE  (OwnValues /\ OwnPvs)'
  BY DEF KeptApart
<1>1. CASE AtIocBuild
  <2>1. Len(contexts) = 0
    BY <1>1 DEF AtIocBuild, TypeInv, OrderOK
  <2>2. OwnValues /\ OwnPvs
    BY <2>1 DEF KeptApart
  <2>. QED  BY <1>1, <2>2 DEF AtIocBuild, OwnValues, OwnPvs
<1>2. CASE ~AtIocBuild
  <2>1. contexts' = contexts
    BY <1>2 DEF Next, vars, Command, CreatePvSet, ConfigureIO, AddPvSetIO, AddPvSetPv, AddPvSetList,
       InitFromDb, AddPvs, SetPvSetRestoreStage, ListChannels, Hook, Connect, HookDone, SkipRestore,
       ReadSaved, NoRestore, Put, RestoreDone, IocRun, IocPause, SaveStep, StartSave, SkipSave,
       CrashInPreRead, BeginSave, SaveChannel, EndSave, FinishSave, ChangeValue, hook
  <2>2. Len(contexts) <= 1 /\ OwnValues /\ OwnPvs
    BY <2>1 DEF KeptApart
  <2>3. CASE \E s \in Sets : Command(s)
    BY <2>2, <2>3, OwnFrame
       DEF Command, CreatePvSet, AddPvSetIO, AddPvSetPv, AddPvSetList, InitFromDb, AddPvs,
       SetPvSetRestoreStage, ListChannels, hook, restore, OwnValues
  <2>4. CASE \E io \in IOs : ConfigureIO(io)
    BY <2>2, <2>4, OwnFrame DEF ConfigureIO, hook, restore, OwnValues
  <2>5. CASE Connect \/ HookDone \/ IocRun \/ IocPause
    BY <2>2, <2>5, OwnFrame DEF Connect, HookDone, IocRun, IocPause, restore, OwnValues
  <2>6. CASE \E r \in Records : ChangeValue(r)
    BY <2>2, <2>6 DEF ChangeValue, Datum, OwnValues, OwnPvs, hook, restore, TypeInv, DataOK
  <2>7. CASE UNCHANGED vars
    BY <2>2, <2>7, OwnFrame DEF vars, hook, restore, OwnValues
  <2>. QED
    BY <1>2, <2>2, <2>3, <2>4, <2>5, <2>6, <2>7, OwnRestore, OwnSave DEF Next, Hook
<1>. QED  BY <1>1, <1>2

-----------------------------------------------------------------------------
(***************************************************************************)
(* The theorems.                                                           *)
(***************************************************************************)
Inv == TypeInv /\ LastSetOwnsAddresses /\ DueInv /\ KeptApart

LEMMA SpecInv == Assumptions /\ Spec => []Inv
<1>1. Assumptions /\ Init => Inv
  BY InitType, LastSetInit, DueInit, KeptApartInit DEF Inv
<1>2. Assumptions /\ Inv /\ [Next]_vars => Inv'
  BY NextType, LastSetStep, DueStep, KeptApartStep DEF Inv
<1>3. Assumptions
  BY RecordAssumption, InitAssumption, AbsentAssumption DEF Assumptions
<1>. QED  BY <1>1, <1>2, <1>3, PTL DEF Spec

\* The state of an IOC process has its types from the script on.
THEOREM TypeCorrect == Spec => []TypeOK
<1>1. Inv => TypeOK
  BY TypeInvImpliesTypeOK DEF Inv
<1>2. Assumptions
  BY RecordAssumption, InitAssumption, AbsentAssumption DEF Assumptions
<1>. QED  BY <1>1, <1>2, SpecInv, PTL

\* However many sets there are, the channels of the one that connect() dealt
\* with last lead to the records they are named after.
THEOREM LastSetAddressed == Spec => []LastSetOwnsAddresses
<1>1. Assumptions
  BY RecordAssumption, InitAssumption, AbsentAssumption DEF Assumptions
<1>. QED  BY <1>1, SpecInv, PTL DEF Inv

\* No save, restore or command of an IOC with one monitor set gives a record or
\* a backend the value of another record, or follows an address that is zero.
THEOREM OneSetApart == Spec => []OneSetKeepsValuesApart
<1>1. Inv => OneSetKeepsValuesApart
  BY DEF Inv, KeptApart, OneSetKeepsValuesApart
<1>2. Assumptions
  BY RecordAssumption, InitAssumption, AbsentAssumption DEF Assumptions
<1>. QED  BY <1>1, <1>2, SpecInv, PTL

\* What the earlier process saved of a set that is restored in pass 0 or 1 stays
\* until then, whatever the script and the database are, unless a save is part
\* of a put of these passes.
THEOREM BootValues == Spec => BootValuesKept
<1>1. Inv /\ [Next]_vars =>
        [\A s \in due : \A io \in Range(sets[s].io) : file'[io] = file[io] \/ save.put # {}]_vars
  BY DueImpliesKept DEF Inv
<1>2. Assumptions
  BY RecordAssumption, InitAssumption, AbsentAssumption DEF Assumptions
<1>. QED  BY <1>1, <1>2, SpecInv, PTL DEF Spec, BootValuesKept

=============================================================================
