------------------------- MODULE SaveContractProofs -------------------------
(***************************************************************************)
(* SaveEngine implements IOContract: for any contexts, any sharing of      *)
(* backends between them and any repetition of a backend within a set,     *)
(* every backend sees one transaction at a time, and one that is begun     *)
(* again loses nothing that it was given since.                            *)
(***************************************************************************)
EXTENDS SaveEngineProofs

\* The local `ios` of a save: empty outside it, taken in order from the
\* backends of the set that the first loop has passed.
LocalsInv ==
  \A t \in Threads :
    /\ pc[t] \notin Transacting => ios[t] = <<>>
    /\ pc[t] = "read" => slot[t] = 1
    /\ pc[t] = "begin" => \A i \in DOMAIN ios[t] :
         \E j \in 1..(slot[t] - 1) : SetIOs(t)[j] = ios[t][i]

LEMMA LocalsInvInit == Init => LocalsInv
BY DEF Init, LocalsInv, Transacting

\* Steps that leave every `ios` alone, and `slot` but for what the loops reset.
LEMMA LocalsInvElsewhere ==
  ASSUME TypeInv, LocalsInv, UNCHANGED ios,
         \A t \in Threads :
           /\ pc'[t] \in Transacting \/ pc[t] \notin Transacting
           /\ pc'[t] = "read" => slot'[t] = 1 \/ (pc[t] = "read" /\ slot'[t] = slot[t])
           /\ pc'[t] = "begin" =>
                \/ pc[t] = "begin" /\ ctx'[t] = ctx[t] /\ slot'[t] = slot[t]
                \/ pc[t] \notin Transacting
  PROVE  LocalsInv'
BY DEF LocalsInv, Transacting, SetIOs

\* The backend that save() comes to is not in hand yet, or it is a repetition.
LEMMA BegunIsRelisted ==
  ASSUME TypeInv, LocalsInv, NEW t \in Threads,
         pc[t] = "begin", slot[t] <= Len(SetIOs(t)),
         NEW i \in DOMAIN ios[t], ios[t][i] = SetIOs(t)[slot[t]]
  PROVE  SetIOs(t)[slot[t]] \in Relisted
<1>1. /\ slot[t] \in Nat \ {0} /\ SetIOs(t) \in Seq(IOs)
      /\ ctx[t] \in Contexts /\ SetIOs(t) = IOsOf[ctx[t]]
  BY ConfigTypes DEF TypeInv, TypeOK, Saving, SetIOs
<1>2. PICK j \in 1..(slot[t] - 1) : SetIOs(t)[j] = ios[t][i]
  BY DEF LocalsInv
<1>3. /\ j \in DOMAIN IOsOf[ctx[t]] /\ slot[t] \in DOMAIN IOsOf[ctx[t]] /\ j # slot[t]
      /\ SetIOs(t)[slot[t]] \in IOs
  BY <1>1
<1>4. QED
  BY <1>1, <1>2, <1>3 DEF Relisted

LEMMA LocalsInvBegin ==
  ASSUME TypeInv, LocalsInv, NEW t \in Threads, BeginWrite(t)
  PROVE  LocalsInv'
<1> DEFINE io == SetIOs(t)[slot[t]]
<1>1. /\ pc[t] = "begin" /\ pc' = pc /\ ctx' = ctx /\ slot[t] <= Len(SetIOs(t))
      /\ slot' = [slot EXCEPT ![t] = @ + 1]
      /\ ios' \in {ios, [ios EXCEPT ![t] = Append(@, io)]}
  BY DEF BeginWrite
<1>2. /\ slot[t] \in Nat \ {0} /\ ios[t] \in Seq(IOs) /\ SetIOs(t) \in Seq(IOs)
      /\ ctx[t] \in Contexts /\ SetIOs(t) = IOsOf[ctx[t]]
      /\ slot \in [Threads -> Nat \ {0}] /\ ios \in [Threads -> Seq(IOs)]
  BY <1>1, ConfigTypes DEF TypeInv, TypeOK, Saving, SetIOs
<1>3. ASSUME NEW u \in Threads, u # t
      PROVE  ios'[u] = ios[u] /\ slot'[u] = slot[u] /\ SetIOs(u)' = SetIOs(u)
  BY <1>1, <1>2, <1>3 DEF SetIOs
<1>4. slot'[t] = slot[t] + 1 /\ SetIOs(t)' = SetIOs(t)
  BY <1>1, <1>2 DEF SetIOs
<1>5. ios'[t] \in {ios[t], Append(ios[t], io)}
  BY <1>1, <1>2
<1>6. io \in IOs
  BY <1>1, <1>2
<1>7. \A i \in DOMAIN ios[t] : \E j \in 1..(slot[t] - 1) : SetIOs(t)[j] = ios[t][i]
  BY <1>1 DEF LocalsInv
<1>10. \A i \in DOMAIN ios'[t] : \E j \in 1..slot[t] : SetIOs(t)[j] = ios'[t][i]
  <2> HIDE DEF io
  <2>1. CASE ios'[t] = ios[t]
    BY <1>2, <1>7, <2>1
  <2>2. CASE ios'[t] = Append(ios[t], io)
    <3>1. ASSUME NEW i \in DOMAIN ios'[t]
          PROVE  ios'[t][i] = io \/ (i \in DOMAIN ios[t] /\ ios'[t][i] = ios[t][i])
      BY <1>2, <1>6, <2>2
    <3>2. SetIOs(t)[slot[t]] = io /\ slot[t] \in 1..slot[t]
      BY <1>2 DEF io
    <3>3. \A i \in DOMAIN ios[t] : \E j \in 1..slot[t] : SetIOs(t)[j] = ios[t][i]
      BY <1>2, <1>7
    <3>4. QED
      BY <3>1, <3>2, <3>3
  <2>3. QED
    BY <1>5, <2>1, <2>2
<1>12. ASSUME NEW u \in Threads
       PROVE  /\ pc'[u] \notin Transacting => ios'[u] = <<>>
              /\ pc'[u] = "read" => slot'[u] = 1
              /\ pc'[u] = "begin" => \A i \in DOMAIN ios'[u] :
                   \E j \in 1..(slot'[u] - 1) : SetIOs(u)'[j] = ios'[u][i]
  <2>1. CASE u = t
    <3>1. pc'[t] = "begin"
      BY <1>1
    <3>2. (slot'[t] - 1) = slot[t]
      BY <1>2, <1>4
    <3>3. \A i \in DOMAIN ios'[t] : \E j \in 1..(slot'[t] - 1) :
            SetIOs(t)'[j] = ios'[t][i]
      BY <1>4, <1>10, <3>2
    <3>4. QED
      BY <2>1, <3>1, <3>3 DEF Transacting
  <2>2. CASE u # t
    BY <1>1, <1>3, <2>2 DEF LocalsInv
  <2>3. QED
    BY <2>1, <2>2
<1>13. QED
  BY <1>12 DEF LocalsInv

LEMMA LocalsInvStep ==
  TypeInv /\ LocalsInv /\ [Next]_vars => LocalsInv'
<1> SUFFICES ASSUME TypeInv, LocalsInv, [Next]_vars
             PROVE  LocalsInv'
  OBVIOUS
<1>0. pc \in [Threads -> Labels] /\ slot \in [Threads -> Nat \ {0}]
  BY DEF TypeInv, TypeOK
<1> USE DEF Transacting, Goto, shared, loops, vars
<1>1. ASSUME NEW t \in Threads, Wake(t) \/ Request(t) \/ Return(t) \/ Lock(t)
      PROVE  LocalsInv'
  BY <1>0, <1>1, LocalsInvElsewhere DEF Wake, Request, Return, Lock
<1>2. ASSUME NEW t \in Threads, SkipContext(t) \/ StartSave(t) \/ Notify(t)
      PROVE  LocalsInv'
  <2>1. /\ pc[t] = "context" /\ ios' = ios /\ slot' = slot
        /\ \E l \in {"context", "preread", "idle", "return"} :
             pc' = [pc EXCEPT ![t] = l]
    BY <1>0, <1>2 DEF SkipContext, StartSave, Notify
  <2>2. \A u \in Threads \ {t} : ctx'[u] = ctx[u]
    <3>1. ctx \in [Threads -> 0..NumContexts]
      BY DEF TypeInv, TypeOK
    <3>2. CASE SkipContext(t)
      BY <3>1, <3>2 DEF SkipContext
    <3>3. CASE StartSave(t)
      BY <3>3 DEF StartSave
    <3>4. CASE Notify(t)
      BY <3>1, <3>4 DEF Notify
    <3>5. QED
      BY <1>2, <3>2, <3>3, <3>4
  <2>3. \A u \in Threads :
           \/ u = t /\ pc'[u] \notin Transacting
           \/ pc'[u] = pc[u] /\ ctx'[u] = ctx[u]
    BY <1>0, <2>1, <2>2
  <2>4. QED
    BY <2>1, <2>3, LocalsInvElsewhere
<1>3. ASSUME NEW t \in Threads, PreRead(t) \/ PreReadDone(t) \/ Read(t) \/ ReadDone(t)
      PROVE  LocalsInv'
  <2>1. UNCHANGED <<ios, slot, ctx>>
    BY <1>3 DEF PreRead, PreReadDone, Read, ReadDone
  <2>2. \/ pc[t] = "preread" /\ pc' = [pc EXCEPT ![t] = "begin"]
        \/ pc[t] = "read" /\ pc' = [pc EXCEPT ![t] = "write"]
        \/ pc[t] = "read" /\ pc' = [pc EXCEPT ![t] = "end"]
        \/ pc' = pc
    BY <1>3 DEF PreRead, PreReadDone, Read, ReadDone
  <2>3. QED
    BY <1>0, <2>1, <2>2, LocalsInvElsewhere
<1>4. ASSUME NEW t \in Threads, BeginDone(t) \/ WriteDone(t) PROVE LocalsInv'
  <2>1. /\ pc[t] \in Transacting /\ pc' = [pc EXCEPT ![t] = "read"]
        /\ slot' = [slot EXCEPT ![t] = 1] /\ UNCHANGED <<ios, ctx>>
    BY <1>4 DEF BeginDone, WriteDone
  <2>2. \A u \in Threads :
           /\ pc'[u] \in Transacting \/ pc[u] \notin Transacting
           /\ pc'[u] = "read" => slot'[u] = 1 \/ (pc[u] = "read" /\ slot'[u] = slot[u])
           /\ pc'[u] = "begin" =>
                \/ pc[u] = "begin" /\ ctx'[u] = ctx[u] /\ slot'[u] = slot[u]
                \/ pc[u] \notin Transacting
    <3> SUFFICES ASSUME NEW u \in Threads
                 PROVE  /\ pc'[u] \in Transacting \/ pc[u] \notin Transacting
                        /\ pc'[u] = "read" =>
                             slot'[u] = 1 \/ (pc[u] = "read" /\ slot'[u] = slot[u])
                        /\ pc'[u] = "begin" =>
                             \/ /\ pc[u] = "begin" /\ ctx'[u] = ctx[u]
                                /\ slot'[u] = slot[u]
                             \/ pc[u] \notin Transacting
      OBVIOUS
    <3>1. CASE u = t
      BY <1>0, <2>1, <3>1
    <3>2. CASE u # t
      BY <1>0, <2>1, <3>2
    <3>3. QED
      BY <3>1, <3>2
  <2>3. UNCHANGED ios
    BY <2>1
  <2> HIDE DEF Transacting
  <2>4. QED
    BY <2>2, <2>3, LocalsInvElsewhere
<1>5. ASSUME NEW t \in Threads, WriteData(t) \/ EndWrite(t) PROVE LocalsInv'
  <2>1. /\ pc[t] \in {"write", "end"} /\ UNCHANGED <<pc, ios, ctx>>
        /\ slot' = [slot EXCEPT ![t] = @ + 1]
    BY <1>5 DEF WriteData, EndWrite
  <2>2. QED
    BY <1>0, <2>1, LocalsInvElsewhere
<1>6. ASSUME NEW t \in Threads, BeginWrite(t) PROVE LocalsInv'
  BY <1>6, LocalsInvBegin
<1>7. ASSUME NEW t \in Threads, FinishSave(t) PROVE LocalsInv'
  <2>1. /\ pc' = [pc EXCEPT ![t] = "context"] /\ ios' = [ios EXCEPT ![t] = <<>>]
        /\ slot' = [slot EXCEPT ![t] = 1] /\ ctx' = [ctx EXCEPT ![t] = @ + 1]
    BY <1>7 DEF FinishSave
  <2>2. ASSUME NEW u \in Threads
        PROVE  \/ ios'[u] = <<>> /\ pc'[u] = "context"
               \/ /\ ios'[u] = ios[u] /\ slot'[u] = slot[u]
                  /\ pc'[u] = pc[u] /\ SetIOs(u)' = SetIOs(u)
    BY <1>0, <2>1 DEF TypeInv, TypeOK, SetIOs
  <2>3. QED
    BY <2>2 DEF LocalsInv
<1>8. CASE Outside
  BY <1>8, LocalsInvElsewhere DEF Outside, ProcessStatus, ChangeValue, Tick
<1>9. QED
  BY <1>1, <1>2, <1>3, <1>4, <1>5, <1>6, <1>7, <1>8
     DEF Next, SaveStep, Outside, Threads, Requesters

\* save() writes nothing that it has not read before.
DataInv == \A t \in Threads : pc[t] = "write" => data[t] # Absent

LEMMA DataInvStep == TypeInv /\ DataInv /\ [Next]_vars => DataInv'
<1> SUFFICES ASSUME TypeInv, DataInv, [Next]_vars PROVE DataInv'
  OBVIOUS
<1>0. pc \in [Threads -> Labels] /\ data \in [Threads -> Nat \union {Absent, Default}]
  BY DEF TypeInv, TypeOK
<1> USE DEF Goto, shared, loops, vars
<1>1. ASSUME NEW t \in Threads,
             \E l \in Labels \ {"write"} : pc' = [pc EXCEPT ![t] = l],
             \A u \in Threads \ {t} : data'[u] = data[u]
      PROVE  DataInv'
  BY <1>0, <1>1 DEF DataInv
<1>2. ASSUME UNCHANGED <<pc, data>> PROVE DataInv'
  BY <1>2 DEF DataInv
<1>3. ASSUME NEW t \in Threads, Wake(t) \/ Request(t) \/ Return(t) \/ Lock(t)
      PROVE  DataInv'
  BY <1>1, <1>3 DEF Wake, Request, Return, Lock, Labels, Holding, Saving
<1>4. ASSUME NEW t \in Threads, SkipContext(t) \/ StartSave(t) \/ Notify(t)
      PROVE  DataInv'
  BY <1>1, <1>2, <1>4 DEF SkipContext, StartSave, Notify, Labels, Holding, Saving
<1>5. ASSUME NEW t \in Threads, PreRead(t) \/ PreReadDone(t) \/ ReadDone(t) \/ BeginDone(t)
      PROVE  DataInv'
  BY <1>1, <1>2, <1>5 DEF PreRead, PreReadDone, ReadDone, BeginDone, Labels, Holding, Saving
<1>6. ASSUME NEW t \in Threads, BeginWrite(t) \/ WriteData(t) \/ EndWrite(t)
      PROVE  DataInv'
  BY <1>2, <1>6 DEF BeginWrite, WriteData, EndWrite
<1>7. ASSUME NEW t \in Threads, WriteDone(t) \/ FinishSave(t) PROVE DataInv'
  BY <1>0, <1>1, <1>7 DEF WriteDone, FinishSave, Labels, Holding, Saving
<1>8. ASSUME NEW t \in Threads, Read(t) PROVE DataInv'
  <2>1. Channels(t)[chan[t]] \in PVs
    BY <1>8, ConfigTypes DEF Read, TypeInv, TypeOK, Saving
  <2>2. value[Channels(t)[chan[t]]] # Absent /\ Default # Absent
    BY <2>1 DEF TypeInv, TypeOK, Absent, Default
  <2>3. \E x \in {value[Channels(t)[chan[t]]], Default} : data' = [data EXCEPT ![t] = x]
    BY <1>8 DEF Read
  <2>4. data'[t] # Absent /\ \A u \in Threads \ {t} : data'[u] = data[u] /\ pc'[u] = pc[u]
    BY <1>0, <1>8, <2>2, <2>3 DEF Read
  <2>5. QED
    BY <2>4 DEF DataInv
<1>9. CASE Outside
  BY <1>2, <1>9 DEF Outside, ProcessStatus, ChangeValue, Tick
<1>10. QED
  BY <1>3, <1>4, <1>5, <1>6, <1>7, <1>8, <1>9
     DEF Next, SaveStep, Outside, Threads, Requesters

\* Until the loop of beginWrite calls is over, what has been begun is empty.
EmptyInv ==
  \A t \in Threads : pc[t] = "begin" =>
    \A i \in DOMAIN ios[t] : written[ios[t][i]] = Contract!Nothing

LEMMA EmptyInvStep ==
  TypeInv /\ GuardInv /\ LocalsInv /\ EmptyInv /\ [Next]_vars => EmptyInv'
<1> SUFFICES ASSUME TypeInv, GuardInv, LocalsInv, EmptyInv, [Next]_vars PROVE EmptyInv'
  OBVIOUS
<1>0. pc \in [Threads -> Labels]
  BY DEF TypeInv, TypeOK
<1> USE DEF Goto, shared, loops, vars
<1>1. ASSUME UNCHANGED <<written, ios>>,
             \A t \in Threads : pc'[t] = "begin" => pc[t] = "begin" \/ pc[t] \notin Transacting
      PROVE  EmptyInv'
  BY <1>1 DEF EmptyInv, LocalsInv
<1>2. ASSUME NEW t \in Threads,
             \/ Wake(t) \/ Request(t) \/ Return(t) \/ Lock(t)
             \/ SkipContext(t) \/ StartSave(t) \/ Notify(t)
             \/ PreRead(t) \/ PreReadDone(t) \/ BeginDone(t)
             \/ Read(t) \/ ReadDone(t) \/ WriteDone(t) \/ EndWrite(t)
      PROVE  EmptyInv'
  <2>1. /\ UNCHANGED <<written, ios>>
        /\ \E l \in Labels : /\ pc' \in {pc, [pc EXCEPT ![t] = l]}
                             /\ l = "begin" => pc[t] = "preread"
    BY <1>2 DEF Wake, Request, Return, Lock, SkipContext, StartSave, Notify, PreRead,
         PreReadDone, BeginDone, Read, ReadDone, WriteDone, EndWrite, Labels, Holding, Saving
  <2>2. QED
    BY <1>0, <1>1, <2>1 DEF Transacting
<1>3. ASSUME NEW t \in Threads, BeginWrite(t) PROVE EmptyInv'
  <2> DEFINE io == SetIOs(t)[slot[t]]
  <2>1. /\ pc[t] = "begin" /\ pc' = pc /\ slot[t] <= Len(SetIOs(t))
        /\ \/ UNCHANGED <<written, ios>>
           \/ ios' = [ios EXCEPT ![t] = Append(@, io)] /\ written' = Contract!Emptied(io)
           \/ ios' = ios /\ written' \in {written, Contract!Emptied(io)}
    BY <1>3 DEF BeginWrite, Contract!Emptied, Contract!Nothing
  <2>2. /\ SetIOs(t) \in Seq(IOs) /\ slot[t] \in Nat \ {0}
        /\ ios \in [Threads -> Seq(IOs)] /\ ios[t] \in Seq(IOs)
        /\ written \in [IOs -> [PVs -> Nat \union {Absent, Default}]]
    BY <2>1, ConfigTypes DEF TypeInv, TypeOK, Saving
  <2>3. io \in IOs
    BY <2>1, <2>2
  <2>4. \A u \in Threads \ {t} : pc[u] # "begin"
    BY <2>1 DEF GuardInv, Holding, Saving
  <2> HIDE DEF io
  <2>5. \A b \in IOs : written[b] = Contract!Nothing => written'[b] = Contract!Nothing
    BY <2>1, <2>2, <2>3 DEF Contract!Emptied
  <2>6. ASSUME NEW i \in DOMAIN ios'[t] PROVE written'[ios'[t][i]] = Contract!Nothing
    <3>1. CASE ios' = ios
      BY <2>1, <2>2, <2>5, <3>1 DEF EmptyInv
    <3>2. CASE ios' = [ios EXCEPT ![t] = Append(@, io)] /\ written' = Contract!Emptied(io)
      <4>1. written'[io] = Contract!Nothing
        BY <2>2, <2>3, <3>2 DEF Contract!Emptied
      <4>2. ios'[t] = Append(ios[t], io)
        BY <2>2, <3>2
      <4>3. ios'[t][i] = io \/ (i \in DOMAIN ios[t] /\ ios'[t][i] = ios[t][i])
        BY <2>2, <2>3, <4>2
      <4>4. QED
        BY <2>1, <2>2, <2>5, <4>1, <4>3 DEF EmptyInv
    <3>3. QED
      BY <2>1, <3>1, <3>2
  <2>7. QED
    BY <2>1, <2>4, <2>6 DEF EmptyInv
<1>4. ASSUME NEW t \in Threads, WriteData(t) PROVE EmptyInv'
  <2>1. pc[t] = "write" /\ pc' = pc
    BY <1>4 DEF WriteData
  <2>2. \A u \in Threads : pc[u] # "begin"
    BY <2>1 DEF GuardInv, Holding, Saving
  <2>3. QED
    BY <2>1, <2>2 DEF EmptyInv
<1>5. ASSUME NEW t \in Threads, FinishSave(t) PROVE EmptyInv'
  <2>1. pc[t] = "end" /\ pc' = [pc EXCEPT ![t] = "context"]
    BY <1>5 DEF FinishSave
  <2>2. \A u \in Threads : pc'[u] # "begin"
    BY <1>0, <2>1 DEF GuardInv, Holding, Saving
  <2>3. QED
    BY <2>2 DEF EmptyInv
<1>6. CASE Outside \/ UNCHANGED vars
  BY <1>1, <1>6 DEF Outside, ProcessStatus, ChangeValue, Tick
<1>7. QED
  BY <1>2, <1>3, <1>4, <1>5, <1>6 DEF Next, SaveStep, Outside, Threads, Requesters

-----------------------------------------------------------------------------
(***************************************************************************)
(* The refinement.                                                         *)
(***************************************************************************)

\* The part of Open that one thread is responsible for.
OpenBy(t) ==
  {io \in IOs : \E i \in DOMAIN ios[t] :
     ios[t][i] = io /\ (pc[t] = "end" => i >= slot[t])}

\* A step of the holder of the guard: no other thread has backends in hand.
LEMMA OpenByHolder ==
  ASSUME NEW t \in Threads,
         \A u \in Threads \ {t} : ios[u] = <<>> /\ ios'[u] = <<>>
  PROVE  Open = OpenBy(t) /\ Open' = OpenBy(t)'
BY DEF Open, OpenBy

LEMMA OthersEmpty ==
  ASSUME TypeInv, GuardInv, LocalsInv, NEW t \in Threads, pc[t] \in Holding,
         NEW s \in Seq(IOs), ios' = [ios EXCEPT ![t] = s]
  PROVE  \A u \in Threads \ {t} : ios[u] = <<>> /\ ios'[u] = <<>>
<1>1. \A u \in Threads \ {t} : ios[u] = <<>>
  BY DEF GuardInv, LocalsInv, Holding, Saving, Transacting
<1>2. QED
  BY <1>1 DEF TypeInv, TypeOK

\* A thread that leaves its own `ios` as it is, and does not enter or move on in
\* the loop of endWrite calls, changes nothing about what is open.
LEMMA OpenUnchanged ==
  ASSUME TypeInv, UNCHANGED ios,
         \A t \in Threads :
           \/ pc'[t] = pc[t] /\ slot'[t] = slot[t]
           \/ pc[t] # "end" /\ pc'[t] # "end"
           \/ ios[t] = <<>>
           \/ pc[t] # "end" /\ slot'[t] = 1
  PROVE  UNCHANGED Open
<1>1. ASSUME NEW t \in Threads, NEW i \in DOMAIN ios[t]
      PROVE  (pc'[t] = "end" => i >= slot'[t]) <=> (pc[t] = "end" => i >= slot[t])
  <2>1. i >= 1
    BY DEF TypeInv, TypeOK
  <2>2. QED
    BY <2>1
<1>2. QED
  BY <1>1 DEF Open

LEMMA BeginRefines ==
  ASSUME TypeInv, GuardInv, LocalsInv, EmptyInv,
         NEW t \in Threads, BeginWrite(t)
  PROVE  [Contract!Next]_(Contract!vars)
<1> DEFINE io == SetIOs(t)[slot[t]]
<1>1. /\ pc[t] = "begin" /\ pc' = pc /\ slot[t] <= Len(SetIOs(t))
      /\ \/ UNCHANGED <<written, ios>>
         \/ ios' = [ios EXCEPT ![t] = Append(@, io)] /\ written' = Contract!Emptied(io)
         \/ ios' = ios /\ written' \in {written, Contract!Emptied(io)}
  BY DEF BeginWrite, Contract!Emptied, Contract!Nothing
<1>2. /\ SetIOs(t) \in Seq(IOs) /\ slot[t] \in Nat \ {0} /\ ios[t] \in Seq(IOs)
      /\ ios \in [Threads -> Seq(IOs)]
  BY <1>1, ConfigTypes DEF TypeInv, TypeOK, Saving
<1>3. io \in IOs
  BY <1>1, <1>2
<1>4. \A i \in DOMAIN ios[t] : ios[t][i] = io => io \in Relisted /\ written[io] = Contract!Nothing
  BY <1>1, BegunIsRelisted DEF EmptyInv
<1> HIDE DEF io
<1>5. \A u \in Threads \ {t} : ios[u] = <<>> /\ ios'[u] = <<>>
  <2>1. ios' \in {[ios EXCEPT ![t] = ios[t]], [ios EXCEPT ![t] = Append(ios[t], io)]}
    BY <1>1, <1>2
  <2>2. ios[t] \in Seq(IOs) /\ Append(ios[t], io) \in Seq(IOs)
    BY <1>2, <1>3
  <2>3. QED
    BY <1>1, <2>1, <2>2, OthersEmpty DEF Holding, Saving
<1>6. /\ Open = {b \in IOs : \E i \in DOMAIN ios[t] : ios[t][i] = b}
      /\ Open' = {b \in IOs : \E i \in DOMAIN ios'[t] : ios'[t][i] = b}
  <2>1. Open = OpenBy(t) /\ Open' = OpenBy(t)'
    BY <1>5, OpenByHolder
  <2>2. pc[t] # "end" /\ pc'[t] # "end"
    BY <1>1
  <2>3. QED
    BY <2>1, <2>2 DEF OpenBy
<1>7. Contract!MayBegin(io)
  BY <1>4, <1>6 DEF Contract!MayBegin
<1>8. CASE ios' = ios
  <2>1. Open' = Open
    BY <1>6, <1>8
  <2>2. written' \in {written, Contract!Emptied(io)}
    BY <1>1
  <2>3. QED
    BY <1>3, <1>7, <2>1, <2>2 DEF Contract!Next, Contract!BeginFails, Contract!vars
<1>9. CASE ios' = [ios EXCEPT ![t] = Append(@, io)] /\ written' = Contract!Emptied(io)
  <2>1. ios'[t] = Append(ios[t], io)
    BY <1>2, <1>9
  <2>2. Open' = Open \union {io}
    <3>1. ASSUME NEW b \in IOs
          PROVE  (\E i \in DOMAIN ios'[t] : ios'[t][i] = b)
                   <=> (b = io \/ \E i \in DOMAIN ios[t] : ios[t][i] = b)
      <4>1. /\ \A i \in DOMAIN ios[t] : i \in DOMAIN ios'[t] /\ ios'[t][i] = ios[t][i]
            /\ Len(ios[t]) + 1 \in DOMAIN ios'[t] /\ ios'[t][Len(ios[t]) + 1] = io
            /\ \A i \in DOMAIN ios'[t] : i \in DOMAIN ios[t] \/ i = Len(ios[t]) + 1
        BY <1>2, <1>3, <2>1
      <4>2. QED
        BY <4>1
    <3>2. QED
      BY <1>3, <1>6, <3>1
  <2>3. QED
    BY <1>3, <1>7, <1>9, <2>2 DEF Contract!Next, Contract!BeginTransaction
<1>10. QED
  BY <1>1, <1>8, <1>9

LEMMA WriteRefines ==
  ASSUME TypeInv, GuardInv, LocalsInv, DataInv, NEW t \in Threads, WriteData(t)
  PROVE  [Contract!Next]_(Contract!vars)
<1> DEFINE io == ios[t][slot[t]]
           p == Channels(t)[chan[t]]
<1>1. /\ pc[t] = "write" /\ slot[t] <= Len(ios[t]) /\ pc' = pc /\ ios' = ios
      /\ written' \in {written, [written EXCEPT ![io][p] = ReadData(t)]}
  BY DEF WriteData
<1>2. /\ ios[t] \in Seq(IOs) /\ slot[t] \in Nat \ {0}
      /\ written \in [IOs -> [PVs -> Nat \union {Absent, Default}]]
  BY DEF TypeInv, TypeOK
<1>3. io \in IOs
  BY <1>1, <1>2
<1>4. io \in Open
  BY <1>1, <1>2, <1>3 DEF Open
<1>5. Open' = Open
  <2>1. slot' = [slot EXCEPT ![t] = @ + 1] /\ slot \in [Threads -> Nat \ {0}]
    BY DEF WriteData, TypeInv, TypeOK
  <2>2. \A u \in Threads :
           \/ pc'[u] = pc[u] /\ slot'[u] = slot[u]
           \/ pc[u] # "end" /\ pc'[u] # "end"
    BY <1>1, <2>1
  <2>3. QED
    BY <1>1, <2>2, OpenUnchanged
<1> HIDE DEF io, p
<1>6. CASE written' = written
  BY <1>5, <1>6 DEF Contract!vars
\* A position past the channels would change nothing.
<1>7. CASE written' = [written EXCEPT ![io][p] = ReadData(t)]
  <2>1. CASE p \notin PVs
    BY <1>2, <1>3, <1>5, <1>7, <2>1 DEF Contract!vars
  <2>2. CASE p \in PVs
    <3>1. written' = [written EXCEPT ![io][p] = written'[io][p]]
      BY <1>2, <1>3, <1>7, <2>2
    <3>2. written'[io][p] # Absent
      BY <1>1, <1>2, <1>3, <1>7, <2>2 DEF DataInv, ReadData
    <3>3. Contract!WriteChannel(io, p)
      BY <1>4, <1>5, <3>1, <3>2 DEF Contract!WriteChannel
    <3>4. QED
      BY <1>3, <2>2, <3>3 DEF Contract!Next
  <2>3. QED
    BY <2>1, <2>2
<1>8. QED
  BY <1>1, <1>6, <1>7 DEF io, p

LEMMA EndRefines ==
  ASSUME TypeInv, GuardInv, LocalsInv, NEW t \in Threads, EndWrite(t)
  PROVE  [Contract!Next]_(Contract!vars)
<1> DEFINE io == ios[t][slot[t]]
<1>1. /\ pc[t] = "end" /\ slot[t] <= Len(ios[t]) /\ pc' = pc /\ ios' = ios
      /\ slot' = [slot EXCEPT ![t] = @ + 1] /\ written' = written
  BY DEF EndWrite
<1>2. ios[t] \in Seq(IOs) /\ slot \in [Threads -> Nat \ {0}]
  BY DEF TypeInv, TypeOK
<1>3. slot'[t] = slot[t] + 1 /\ slot[t] \in DOMAIN ios[t] /\ io \in IOs
  BY <1>1, <1>2
<1>4. Open = OpenBy(t) /\ Open' = OpenBy(t)'
  <2>1. ios' = [ios EXCEPT ![t] = ios[t]]
    BY <1>1 DEF TypeInv, TypeOK
  <2>2. QED
    BY <1>1, <1>2, <2>1, OthersEmpty, OpenByHolder DEF Holding, Saving
<1>5. /\ Open = {b \in IOs : \E i \in DOMAIN ios[t] : ios[t][i] = b /\ i >= slot[t]}
      /\ Open' = {b \in IOs : \E i \in DOMAIN ios[t] : ios[t][i] = b /\ i >= slot[t] + 1}
  BY <1>1, <1>3, <1>4 DEF OpenBy
<1> HIDE DEF io
<1>7. io \in Open
  BY <1>2, <1>3, <1>5 DEF io
\* The last of the calls for this backend ends the transaction.
<1>8. CASE \E i \in DOMAIN ios[t] : ios[t][i] = io /\ i >= slot[t] + 1
  <2>1. ASSUME NEW b \in IOs
        PROVE  (\E i \in DOMAIN ios[t] : ios[t][i] = b /\ i >= slot[t] + 1)
                 <=> \E i \in DOMAIN ios[t] : ios[t][i] = b /\ i >= slot[t]
    BY <1>2, <1>8 DEF io
  <2>2. Open' = Open
    BY <1>5, <2>1
  <2>3. QED
    BY <1>1, <2>2 DEF Contract!vars
<1>9. CASE ~\E i \in DOMAIN ios[t] : ios[t][i] = io /\ i >= slot[t] + 1
  <2>1. ASSUME NEW b \in IOs
        PROVE  (\E i \in DOMAIN ios[t] : ios[t][i] = b /\ i >= slot[t] + 1)
                 <=> b # io /\ \E i \in DOMAIN ios[t] : ios[t][i] = b /\ i >= slot[t]
    BY <1>2, <1>9 DEF io
  <2>2. Open' = Open \ {io}
    BY <1>5, <2>1
  <2>3. Contract!EndTransaction(io)
    BY <1>1, <1>7, <2>2 DEF Contract!EndTransaction
  <2>4. QED
    BY <1>3, <2>3 DEF Contract!Next
<1>10. QED
  BY <1>8, <1>9

\* All other steps leave both the transactions and the content as they are.
LEMMA QuietRefines ==
  ASSUME TypeInv, LocalsInv,
         \/ Outside \/ UNCHANGED vars
         \/ \E t \in Threads :
              \/ Wake(t) \/ Request(t) \/ Return(t) \/ Lock(t)
              \/ SkipContext(t) \/ StartSave(t) \/ Notify(t)
              \/ PreRead(t) \/ PreReadDone(t) \/ BeginDone(t)
              \/ Read(t) \/ ReadDone(t) \/ WriteDone(t) \/ FinishSave(t)
  PROVE  UNCHANGED <<Open, written>>
<1>0. pc \in [Threads -> Labels] /\ slot \in [Threads -> Nat \ {0}]
  BY DEF TypeInv, TypeOK
<1> USE DEF Goto, shared, loops, vars
<1>1. CASE Outside \/ UNCHANGED vars
  <2>1. UNCHANGED <<pc, slot, ios, written>>
    BY <1>1 DEF Outside, ProcessStatus, ChangeValue, Tick
  <2>2. QED
    BY <2>1 DEF Open
<1>2. ASSUME NEW t \in Threads,
             \/ Wake(t) \/ Request(t) \/ Return(t) \/ Lock(t)
             \/ SkipContext(t) \/ StartSave(t) \/ Notify(t)
             \/ PreRead(t) \/ PreReadDone(t) \/ BeginDone(t)
             \/ Read(t) \/ WriteDone(t)
      PROVE  UNCHANGED <<Open, written>>
  <2>1. /\ pc[t] # "end" /\ ios' = ios /\ written' = written
        /\ \E l \in Labels \ {"end"} : pc' \in {pc, [pc EXCEPT ![t] = l]}
        /\ slot' \in {slot, [slot EXCEPT ![t] = 1]}
    BY <1>2 DEF Wake, Request, Return, Lock, SkipContext, StartSave, Notify, PreRead,
         PreReadDone, BeginDone, Read, WriteDone, Labels, Holding, Saving
  <2>2. \A u \in Threads :
           \/ pc'[u] = pc[u] /\ slot'[u] = slot[u]
           \/ pc[u] # "end" /\ pc'[u] # "end"
    BY <1>0, <2>1
  <2>3. QED
    BY <2>1, <2>2, OpenUnchanged
<1>3. ASSUME NEW t \in Threads, ReadDone(t) PROVE UNCHANGED <<Open, written>>
  <2>1. /\ pc[t] = "read" /\ pc' = [pc EXCEPT ![t] = "end"]
        /\ UNCHANGED <<slot, ios, written>>
    BY <1>3 DEF ReadDone
  <2>2. slot'[t] = 1
    BY <2>1 DEF LocalsInv
  <2>3. \A u \in Threads :
           \/ pc'[u] = pc[u] /\ slot'[u] = slot[u]
           \/ pc[u] # "end" /\ slot'[u] = 1
    BY <1>0, <2>1, <2>2
  <2>4. QED
    BY <2>1, <2>3, OpenUnchanged
<1>4. ASSUME NEW t \in Threads, FinishSave(t) PROVE UNCHANGED <<Open, written>>
  <2>1. /\ pc[t] = "end" /\ slot[t] > Len(ios[t]) /\ written' = written
        /\ pc' = [pc EXCEPT ![t] = "context"] /\ slot' = [slot EXCEPT ![t] = 1]
        /\ ios' = [ios EXCEPT ![t] = <<>>]
    BY <1>4 DEF FinishSave
  <2>2. ios \in [Threads -> Seq(IOs)]
    BY DEF TypeInv, TypeOK
  <2>3. ASSUME NEW u \in Threads, NEW io \in IOs
        PROVE  (\E i \in DOMAIN ios'[u] :
                  ios'[u][i] = io /\ (pc'[u] = "end" => i >= slot'[u]))
                 <=> (\E i \in DOMAIN ios[u] :
                        ios[u][i] = io /\ (pc[u] = "end" => i >= slot[u]))
    <3>1. CASE u = t
      <4>1. ios'[t] = <<>> /\ \A i \in DOMAIN ios[t] : ~(i >= slot[t])
        BY <1>0, <2>1, <2>2
      <4>2. QED
        BY <2>1, <3>1, <4>1
    <3>2. CASE u # t
      BY <1>0, <2>1, <2>2, <3>2
    <3>3. QED
      BY <3>1, <3>2
  <2>4. QED
    BY <2>1, <2>3 DEF Open
<1>5. QED
  BY <1>1, <1>2, <1>3, <1>4

LEMMA StepRefines ==
  ASSUME TypeInv, GuardInv, LocalsInv, EmptyInv, DataInv, [Next]_vars
  PROVE  [Contract!Next]_(Contract!vars)
<1>1. CASE \E t \in Threads : BeginWrite(t)
  BY <1>1, BeginRefines
<1>2. CASE \E t \in Threads : WriteData(t)
  BY <1>2, WriteRefines
<1>3. CASE \E t \in Threads : EndWrite(t)
  BY <1>3, EndRefines
<1>4. CASE ~\E t \in Threads : BeginWrite(t) \/ WriteData(t) \/ EndWrite(t)
  <2>1. UNCHANGED <<Open, written>>
    BY <1>4, QuietRefines DEF Next, SaveStep, Outside, Threads
  <2>2. QED
    BY <2>1 DEF Contract!vars
<1>5. QED
  BY <1>1, <1>2, <1>3, <1>4

\* For any contexts, threads, sharing and repetition of backends, every backend
\* sees one transaction at a time: the calls of two saves never interleave on it.
THEOREM SaveImplementsContract == Spec => WritesInTransactions
<1>1. Init => Contract!Init
  BY DEF Init, Contract!Init, Contract!Nothing, Open
<1>2. Spec => []LocalsInv
  BY LocalsInvInit, LocalsInvStep, TypeInvAlways, PTL DEF Spec
<1>3. Init => DataInv /\ EmptyInv
  BY DEF Init, DataInv, EmptyInv
<1>4. Spec => []DataInv
  BY <1>3, DataInvStep, TypeInvAlways, PTL DEF Spec
<1>5. Spec => []EmptyInv
  BY <1>2, <1>3, EmptyInvStep, TypeInvAlways, GuardInvAlways, PTL DEF Spec
<1>6. QED
  BY <1>1, <1>2, <1>4, <1>5, StepRefines, TypeInvAlways, GuardInvAlways, PTL
     DEF Spec, WritesInTransactions, Contract!Spec

=============================================================================
