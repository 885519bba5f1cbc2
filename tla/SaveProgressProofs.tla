-------------------------- MODULE SaveProgressProofs --------------------------
(***************************************************************************)
(* What the status of a context is worth, for any contexts, channels,      *)
(* backends, threads and lock sets: a context that reports no error has    *)
(* every channel in every backend of its set, with one value, and a        *)
(* request for a save leaves no value older than those it was asked for.   *)
(***************************************************************************)
EXTENDS SaveEngineProofs

-----------------------------------------------------------------------------
(***************************************************************************)
(* What a running save has reached so far.                                 *)
(***************************************************************************)

\* The locals of a save that matter to the next one, or to its own later loops.
LoopsInv ==
  \A t \in Threads :
    /\ pc[t] \notin Holding => ctx[t] = 0
    /\ pc[t] \notin Transacting => ios[t] = <<>>
    /\ pc[t] \in Transacting => Range(ios[t]) \subseteq Targets(ctx[t])
    /\ pc[t] \notin {"begin", "write", "end"} => slot[t] = 1
    /\ pc[t] = "begin" => chan[t] = 1
    /\ pc[t] = "write" => chan[t] <= Len(Channels(t))
    /\ pc[t] = "end" => chan[t] > Len(Channels(t))

\* The values a requester asked for are not newer than the present ones.
AskedInv == \A t \in Requesters : \A p \in PVs : asked[t][p] <= value[p]

\* Channel p of context c is where it belongs: in every backend of the set, with
\* one value, and not older than what thread t has asked for.
Stored(c, p) == \A io \in Targets(c) : written[io][p] # Absent
Agreed(c, p) == \A io1, io2 \in Targets(c) : written[io1][p] = written[io2][p]
Recent(t, v, p) == (t \in Requesters /\ p \notin Unreadable) => v >= asked[t][p]
Fresh(t, c, p) == \A io \in Targets(c) : Recent(t, written[io][p], p)
Kept(t, c, p) == Stored(c, p) /\ Agreed(c, p) /\ Fresh(t, c, p)

\* As long as nothing has failed, save() has begun each backend of the set that
\* its first loop has passed, and stored the channels that its second loop has.
\* A channel may come twice: while it is written again its backends differ.
BegunInv(t) ==
  /\ pc[t] = "begin" => \A j \in DOMAIN SetIOs(t) :
       (j < slot[t] /\ SetIOs(t)[j] \in WriteIOs) => SetIOs(t)[j] \in Range(ios[t])
  /\ pc[t] \in {"read", "write", "end"} => Targets(ctx[t]) \subseteq Range(ios[t])

StoredInv(t) ==
  pc[t] \in {"read", "write", "end"} => \A j \in DOMAIN Channels(t) :
    (j < chan[t] /\ (pc[t] = "write" => Channels(t)[j] # Channels(t)[chan[t]]))
      => Kept(t, ctx[t], Channels(t)[j])

WritingInv(t) ==
  pc[t] = "write" =>
    /\ data[t] # Absent
    /\ Recent(t, data[t], Channels(t)[chan[t]])
    /\ \A i \in DOMAIN ios[t] : i < slot[t] =>
         written[ios[t][i]][Channels(t)[chan[t]]] = data[t]

ProgressInv ==
  \A t \in Threads : (pc[t] \in Saving /\ lastStatus[ctx[t]] = 0) =>
    BegunInv(t) /\ StoredInv(t) /\ WritingInv(t)

\* What the saves have left behind, for a context that shares no backend.
ContextInv ==
  \A c \in Contexts :
    (Unshared(c) /\ lastProc[c] > 0 /\ lastStatus[c] = 0 /\ ~IsSaved(c))
      => \A p \in Range(ChannelsOf[c]) : Stored(c, p) /\ Agreed(c, p)

\* A request goes through the contexts in order: those before ctx[t] it has done.
RequestInv ==
  \A t \in Requesters : pc[t] \in Holding =>
    \A c \in Contexts : (c < ctx[t] /\ Unshared(c) /\ lastStatus[c] = 0) =>
      \A p \in Range(ChannelsOf[c]) : Fresh(t, c, p)

-----------------------------------------------------------------------------
(***************************************************************************)
(* The locals of the loops.                                                *)
(***************************************************************************)

LEMMA LoopsInvInit == Init => LoopsInv
BY DEF Init, LoopsInv, Transacting, Holding, Saving

\* Only the locals of the thread that moves change.
LEMMA LoopsInvOne ==
  ASSUME LoopsInv, NEW t \in Threads,
         \A u \in Threads \ {t} :
           /\ pc'[u] = pc[u] /\ ctx'[u] = ctx[u] /\ chan'[u] = chan[u]
           /\ slot'[u] = slot[u] /\ ios'[u] = ios[u],
         /\ pc'[t] \notin Holding => ctx'[t] = 0
         /\ pc'[t] \notin Transacting => ios'[t] = <<>>
         /\ pc'[t] \in Transacting => Range(ios'[t]) \subseteq Targets(ctx'[t])
         /\ pc'[t] \notin {"begin", "write", "end"} => slot'[t] = 1
         /\ pc'[t] = "begin" => chan'[t] = 1
         /\ pc'[t] = "write" => chan'[t] <= Len(Channels(t)')
         /\ pc'[t] = "end" => chan'[t] > Len(Channels(t)')
  PROVE  LoopsInv'
<1>1. \A u \in Threads \ {t} : Channels(u)' = Channels(u)
  BY DEF Channels
<1>2. QED
  BY <1>1 DEF LoopsInv, Targets

LEMMA LoopsInvStep == TypeInv /\ LoopsInv /\ [Next]_vars => LoopsInv'
<1> SUFFICES ASSUME TypeInv, LoopsInv, [Next]_vars PROVE LoopsInv'
  OBVIOUS
<1>0. /\ pc \in [Threads -> Labels] /\ ctx \in [Threads -> 0..NumContexts]
      /\ chan \in [Threads -> Nat \ {0}] /\ slot \in [Threads -> Nat \ {0}]
      /\ ios \in [Threads -> Seq(IOs)]
  BY DEF TypeInv, TypeOK
<1>e. Range(<<>>) = {}
  BY DEF Range
<1> USE DEF Goto, shared, loops, vars
<1>1. ASSUME NEW t \in Threads, Wake(t) \/ Request(t) \/ Return(t) \/ Lock(t)
      PROVE  LoopsInv'
  <2>1. /\ pc[t] \notin Holding /\ UNCHANGED loops
        /\ \E l \in {"idle", "lock", "context"} : pc' = [pc EXCEPT ![t] = l]
    BY <1>1 DEF Wake, Request, Return, Lock, Holding, Saving
  <2>2. QED
    BY <1>0, <2>1, LoopsInvOne DEF LoopsInv, Transacting, Holding, Saving
<1>2. ASSUME NEW t \in Threads, SkipContext(t) \/ StartSave(t) PROVE LoopsInv'
  <2>1. /\ pc[t] = "context" /\ UNCHANGED <<chan, slot, ios>>
        /\ \E l \in {"context", "preread"} : pc' = [pc EXCEPT ![t] = l]
        /\ \A u \in Threads \ {t} : ctx'[u] = ctx[u]
    BY <1>0, <1>2 DEF SkipContext, StartSave
  <2>2. QED
    BY <1>0, <2>1, LoopsInvOne DEF LoopsInv, Transacting, Holding, Saving
<1>3. ASSUME NEW t \in Threads, Notify(t) PROVE LoopsInv'
  <2>1. /\ pc[t] = "context" /\ UNCHANGED <<chan, slot, ios>>
        /\ \E l \in {"idle", "return"} : pc' = [pc EXCEPT ![t] = l]
        /\ ctx' = [ctx EXCEPT ![t] = 0]
    BY <1>3 DEF Notify
  <2>2. QED
    BY <1>0, <2>1, LoopsInvOne DEF LoopsInv, Transacting, Holding, Saving
<1>4. ASSUME NEW t \in Threads, PreRead(t) PROVE LoopsInv'
  <2>1. /\ pc[t] = "preread" /\ UNCHANGED <<pc, ctx, slot, ios>>
        /\ \A u \in Threads \ {t} : chan'[u] = chan[u]
    BY <1>0, <1>4 DEF PreRead
  <2>2. QED
    BY <1>0, <2>1, LoopsInvOne DEF LoopsInv, Transacting, Holding, Saving
<1>5. ASSUME NEW t \in Threads, PreReadDone(t) PROVE LoopsInv'
  <2>1. /\ pc[t] = "preread" /\ UNCHANGED <<ctx, slot, ios>>
        /\ pc' = [pc EXCEPT ![t] = "begin"] /\ chan' = [chan EXCEPT ![t] = 1]
    BY <1>5 DEF PreReadDone
  <2>2. QED
    BY <1>0, <1>e, <2>1, LoopsInvOne DEF LoopsInv, Transacting, Holding, Saving
<1>6. ASSUME NEW t \in Threads, BeginWrite(t) PROVE LoopsInv'
  <2> DEFINE io == SetIOs(t)[slot[t]]
  <2>1. /\ pc[t] = "begin" /\ UNCHANGED <<pc, ctx, chan>>
        /\ slot[t] <= Len(SetIOs(t)) /\ slot' = [slot EXCEPT ![t] = @ + 1]
        /\ \/ ios' = ios
           \/ io \in WriteIOs /\ ios' = [ios EXCEPT ![t] = Append(@, io)]
    BY <1>6 DEF BeginWrite
  <2>2. /\ SetIOs(t) \in Seq(IOs) /\ SetIOs(t) = IOsOf[ctx[t]]
    BY <2>1, ConfigTypes DEF Saving, SetIOs
  <2>3. io \in IOs /\ io \in Range(IOsOf[ctx[t]])
    BY <1>0, <2>1, <2>2 DEF Range
  <2>4. Range(ios[t]) \subseteq Targets(ctx[t])
    BY <2>1 DEF LoopsInv, Transacting
  <2> HIDE DEF io
  <2>5. Range(ios'[t]) \subseteq Targets(ctx[t])
    <3>1. CASE ios' = ios
      BY <2>4, <3>1
    <3>2. CASE io \in WriteIOs /\ ios' = [ios EXCEPT ![t] = Append(@, io)]
      <4>1. ios'[t] = Append(ios[t], io) /\ ios[t] \in Seq(IOs)
        BY <1>0, <3>2
      <4>2. Range(ios'[t]) \subseteq Range(ios[t]) \union {io}
        BY <2>3, <4>1 DEF Range
      <4>3. io \in Targets(ctx[t])
        BY <2>3, <3>2 DEF Targets
      <4>4. QED
        BY <2>4, <4>2, <4>3
    <3>3. QED
      BY <2>1, <3>1, <3>2
  <2>6. \A u \in Threads \ {t} : ios'[u] = ios[u] /\ slot'[u] = slot[u]
    BY <1>0, <2>1
  <2>7. QED
    BY <2>1, <2>5, <2>6, LoopsInvOne DEF LoopsInv, Transacting, Holding, Saving
<1>7. ASSUME NEW t \in Threads, BeginDone(t) \/ WriteDone(t) PROVE LoopsInv'
  <2>1. /\ pc[t] \in Transacting /\ UNCHANGED <<ctx, ios>>
        /\ pc' = [pc EXCEPT ![t] = "read"] /\ slot' = [slot EXCEPT ![t] = 1]
        /\ \A u \in Threads \ {t} : chan'[u] = chan[u]
    BY <1>0, <1>7 DEF BeginDone, WriteDone, Transacting
  <2>2. QED
    BY <1>0, <2>1, LoopsInvOne DEF LoopsInv, Transacting, Holding, Saving
<1>8. ASSUME NEW t \in Threads, Read(t) \/ ReadDone(t) PROVE LoopsInv'
  <2>1. /\ pc[t] = "read" /\ UNCHANGED <<ctx, chan, slot, ios>>
        /\ \/ pc' = [pc EXCEPT ![t] = "write"] /\ chan[t] <= Len(Channels(t))
           \/ pc' = [pc EXCEPT ![t] = "end"] /\ chan[t] > Len(Channels(t))
    BY <1>8 DEF Read, ReadDone
  <2>2. Channels(t)' = Channels(t)
    BY <2>1 DEF Channels
  <2>3. QED
    BY <1>0, <2>1, <2>2, LoopsInvOne DEF LoopsInv, Transacting, Holding, Saving
<1>9. ASSUME NEW t \in Threads, WriteData(t) \/ EndWrite(t) PROVE LoopsInv'
  <2>1. /\ pc[t] \in {"write", "end"} /\ UNCHANGED <<pc, ctx, chan, ios>>
        /\ \A u \in Threads \ {t} : slot'[u] = slot[u]
    BY <1>0, <1>9 DEF WriteData, EndWrite
  <2>2. Channels(t)' = Channels(t)
    BY <2>1 DEF Channels
  <2>3. QED
    BY <1>0, <2>1, <2>2, LoopsInvOne DEF LoopsInv, Transacting, Holding, Saving
<1>10. ASSUME NEW t \in Threads, FinishSave(t) PROVE LoopsInv'
  <2>1. /\ pc' = [pc EXCEPT ![t] = "context"] /\ slot' = [slot EXCEPT ![t] = 1]
        /\ ios' = [ios EXCEPT ![t] = <<>>]
        /\ \A u \in Threads \ {t} : ctx'[u] = ctx[u] /\ chan'[u] = chan[u]
    BY <1>0, <1>10 DEF FinishSave
  <2>2. QED
    BY <1>0, <2>1, LoopsInvOne DEF LoopsInv, Transacting, Holding, Saving
<1>11. CASE Outside
  <2>1. UNCHANGED <<pc, ctx, chan, slot, ios>>
    BY <1>11 DEF Outside, ProcessStatus, ChangeValue, Tick
  <2>2. QED
    BY <2>1 DEF LoopsInv, Targets, Channels
<1>12. QED
  BY <1>1, <1>2, <1>3, <1>4, <1>5, <1>6, <1>7, <1>8, <1>9, <1>10, <1>11
     DEF Next, SaveStep, Outside, Threads, Requesters

-----------------------------------------------------------------------------
(***************************************************************************)
(* What a step leaves alone.                                               *)
(***************************************************************************)

LEMMA AskedInvStep == TypeInv /\ AskedInv /\ [Next]_vars => AskedInv'
<1> SUFFICES ASSUME TypeInv, AskedInv, [Next]_vars PROVE AskedInv'
  OBVIOUS
<1>0. asked \in [Requesters -> [PVs -> Nat]] /\ value \in [PVs -> Nat]
  BY DEF TypeInv, TypeOK
<1> USE DEF AskedInv, outside
<1>1. ASSUME UNCHANGED <<asked, value>> PROVE AskedInv'
  BY <1>1
<1>2. ASSUME NEW t \in Requesters, Request(t) PROVE AskedInv'
  BY <1>0, <1>2 DEF Request
<1>3. ASSUME NEW t \in Requesters, Return(t) PROVE AskedInv'
  BY <1>0, <1>3 DEF Return
<1>4. ASSUME NEW t \in Threads, Inside(t) PROVE AskedInv'
  BY <1>1, <1>4, InsideStep
<1>5. ASSUME NEW t \in Threads,
             \/ Wake(t) \/ Lock(t) \/ SkipContext(t) \/ StartSave(t)
             \/ FinishSave(t) \/ Notify(t)
      PROVE  AskedInv'
  BY <1>1, <1>5 DEF Wake, Lock, SkipContext, StartSave, FinishSave, Notify
<1>6. ASSUME NEW p \in PVs, ChangeValue(p) PROVE AskedInv'
  BY <1>0, <1>6 DEF ChangeValue
<1>7. ASSUME (\E r \in StatusRecs : ProcessStatus(r)) \/ Tick \/ UNCHANGED vars
      PROVE  AskedInv'
  BY <1>1, <1>7 DEF ProcessStatus, Tick, vars
<1>8. QED
  BY <1>2, <1>3, <1>4, <1>5, <1>6, <1>7
     DEF Next, SaveStep, Inside, Threads, Requesters

\* While one thread holds the guard, every other thread is outside the loop over
\* the contexts, before and after its step.
LEMMA OthersOut ==
  ASSUME TypeInv, GuardInv, NEW t \in Threads, pc[t] \in Holding,
         \A u \in Threads \ {t} : pc'[u] = pc[u]
  PROVE  \A u \in Threads \ {t} : pc[u] \notin Holding /\ pc'[u] \notin Holding
BY DEF GuardInv

\* The calls of save() on the backends touch those of the set it saves to and
\* the status of its context.
LEMMA InsideFrame ==
  ASSUME TypeInv, LoopsInv, NEW t \in Threads, Inside(t)
  PROVE  /\ \A io \in IOs : io \notin Targets(ctx[t]) => written'[io] = written[io]
         /\ \A c \in Contexts : c # ctx[t] => lastStatus'[c] = lastStatus[c]
<1>0. /\ written \in [IOs -> [PVs -> Nat \union {Absent, Default}]]
      /\ lastStatus \in [Contexts -> {0, 1}] /\ slot[t] \in Nat \ {0}
      /\ ios[t] \in Seq(IOs)
  BY DEF TypeInv, TypeOK
<1>1. CASE UNCHANGED <<written, lastStatus>>
  BY <1>1
<1>2. CASE BeginWrite(t)
  <2> DEFINE io == SetIOs(t)[slot[t]]
  <2>1. /\ pc[t] = "begin" /\ slot[t] <= Len(SetIOs(t))
        /\ \/ written' = written
           \/ io \in WriteIOs /\ written' = [written EXCEPT ![io] = [p \in PVs |-> Absent]]
        /\ lastStatus' \in {lastStatus, [lastStatus EXCEPT ![ctx[t]] = 1]}
    BY <1>2 DEF BeginWrite, Succeeded, Failed
  <2>2. SetIOs(t) \in Seq(IOs) /\ SetIOs(t) = IOsOf[ctx[t]]
    BY <2>1, ConfigTypes DEF Saving, SetIOs
  <2>3. io \in WriteIOs => io \in Targets(ctx[t])
    BY <1>0, <2>1, <2>2 DEF Targets, Range
  <2> HIDE DEF io
  <2>4. QED
    BY <1>0, <2>1, <2>3
<1>3. CASE WriteData(t)
  <2> DEFINE io == ios[t][slot[t]]
             p == Channels(t)[chan[t]]
  <2>1. /\ pc[t] = "write" /\ slot[t] <= Len(ios[t])
        /\ written' \in {written, [written EXCEPT ![io][p] = ReadData(t)]}
        /\ lastStatus' \in {lastStatus, [lastStatus EXCEPT ![ctx[t]] = 1]}
    BY <1>3 DEF WriteData, Succeeded, Failed
  <2>2. io \in Targets(ctx[t])
    <3>1. Range(ios[t]) \subseteq Targets(ctx[t])
      BY <2>1 DEF LoopsInv, Transacting
    <3>2. slot[t] \in DOMAIN ios[t]
      BY <1>0, <2>1
    <3>3. QED
      BY <3>1, <3>2 DEF Range
  <2> HIDE DEF io, p
  <2>3. QED
    BY <1>0, <2>1, <2>2
<1>4. CASE EndWrite(t)
  BY <1>0, <1>4 DEF EndWrite, Succeeded, Failed
<1>5. QED
  BY <1>1, <1>2, <1>3, <1>4
     DEF Inside, PreRead, PreReadDone, BeginDone, Read, ReadDone, WriteDone, shared, status

\* Hence a save leaves everything of another context as it is, if that context
\* shares no backend.
LEMMA OtherContext ==
  ASSUME TypeInv, LoopsInv, NEW t \in Threads, Inside(t),
         NEW c \in Contexts, Unshared(c), c # ctx[t]
  PROVE  /\ lastStatus'[c] = lastStatus[c]
         /\ \A io \in Targets(c) : written'[io] = written[io]
<1>1. ctx[t] \in Contexts
  BY InsideStep, ConfigTypes
<1>2. ASSUME NEW io \in Targets(c) PROVE io \in IOs /\ io \notin Targets(ctx[t])
  <2>1. io \in Range(IOsOf[c]) /\ io \in WriteIOs
    BY DEF Targets
  <2>2. io \notin Range(IOsOf[ctx[t]])
    BY <1>1, <2>1 DEF Unshared
  <2>3. QED
    BY <2>1, <2>2, ConfigAssumption DEF Targets
<1>3. QED
  BY <1>2, InsideFrame

-----------------------------------------------------------------------------
(***************************************************************************)
(* The progress of a save.                                                 *)
(***************************************************************************)

\* What has been said of a thread is still true if nothing it speaks of changes.
LEMMA ProgressStill ==
  ASSUME NEW t \in Threads,
         pc'[t] = pc[t], ctx'[t] = ctx[t], chan'[t] = chan[t], slot'[t] = slot[t],
         ios'[t] = ios[t], data'[t] = data[t], UNCHANGED written,
         t \in Requesters => asked'[t] = asked[t]
  PROVE  BegunInv(t) /\ StoredInv(t) /\ WritingInv(t)
           => BegunInv(t)' /\ StoredInv(t)' /\ WritingInv(t)'
<1>1. Channels(t)' = Channels(t) /\ SetIOs(t)' = SetIOs(t)
  BY DEF Channels, SetIOs
<1>2. BegunInv(t)' <=> BegunInv(t)
  BY <1>1 DEF BegunInv, Targets
<1>3. ASSUME NEW p PROVE Kept(t, ctx[t], p)' <=> Kept(t, ctx[t], p)
  BY DEF Kept, Stored, Agreed, Fresh, Recent, Targets
<1>4. StoredInv(t)' <=> StoredInv(t)
  BY <1>1, <1>3 DEF StoredInv
<1>5. WritingInv(t)' <=> WritingInv(t)
  BY <1>1 DEF WritingInv, Recent
<1>6. QED
  BY <1>2, <1>4, <1>5

\* A step of the holder: the others are not in save().
LEMMA ProgressOne ==
  ASSUME TypeInv, GuardInv, NEW t \in Threads, pc[t] \in Holding,
         \A u \in Threads \ {t} : pc'[u] = pc[u],
         (pc'[t] \in Saving /\ lastStatus'[ctx'[t]] = 0) =>
           BegunInv(t)' /\ StoredInv(t)' /\ WritingInv(t)'
  PROVE  ProgressInv'
<1>1. \A u \in Threads \ {t} : pc'[u] \notin Saving
  BY OthersOut DEF Holding
<1>2. QED
  BY <1>1 DEF ProgressInv

\* The loop that begins the backends.
LEMMA ProgressBegin ==
  ASSUME TypeInv, LoopsInv, NEW t \in Threads, BeginWrite(t),
         lastStatus[ctx[t]] = 0 => BegunInv(t), lastStatus'[ctx'[t]] = 0
  PROVE  BegunInv(t)' /\ StoredInv(t)' /\ WritingInv(t)'
<1> DEFINE io == SetIOs(t)[slot[t]]
<1>0. /\ lastStatus \in [Contexts -> {0, 1}] /\ slot \in [Threads -> Nat \ {0}]
      /\ ios \in [Threads -> Seq(IOs)]
  BY DEF TypeInv, TypeOK
<1>1. /\ pc[t] = "begin" /\ pc' = pc /\ ctx' = ctx /\ slot[t] <= Len(SetIOs(t))
      /\ slot' = [slot EXCEPT ![t] = @ + 1]
      /\ \/ io \notin WriteIOs /\ ios' = ios /\ lastStatus' = lastStatus
         \/ ios' = [ios EXCEPT ![t] = Append(@, io)] /\ lastStatus' = lastStatus
         \/ lastStatus' = [lastStatus EXCEPT ![ctx[t]] = 1]
  BY DEF BeginWrite, Succeeded, Failed
<1>2. ctx[t] \in Contexts /\ SetIOs(t) \in Seq(IOs)
  BY <1>1, ConfigTypes DEF Saving
<1>3. /\ lastStatus' = lastStatus /\ lastStatus[ctx[t]] = 0
      /\ \/ io \notin WriteIOs /\ ios' = ios
         \/ ios' = [ios EXCEPT ![t] = Append(@, io)]
  BY <1>0, <1>1, <1>2
<1>4. SetIOs(t)' = SetIOs(t) /\ slot'[t] = slot[t] + 1 /\ slot[t] \in DOMAIN SetIOs(t)
  BY <1>0, <1>1, <1>2 DEF SetIOs
<1>5. io \in IOs
  BY <1>2, <1>4
<1> HIDE DEF io
<1>6. /\ Range(ios[t]) \subseteq Range(ios'[t])
      /\ io \in WriteIOs => io \in Range(ios'[t])
  <2>1. CASE io \notin WriteIOs /\ ios' = ios
    BY <2>1
  <2>2. CASE ios' = [ios EXCEPT ![t] = Append(@, io)]
    <3>1. ios'[t] = Append(ios[t], io) /\ ios[t] \in Seq(IOs)
      BY <1>0, <2>2
    <3>2. /\ \A i \in DOMAIN ios[t] : i \in DOMAIN ios'[t] /\ ios'[t][i] = ios[t][i]
          /\ Len(ios[t]) + 1 \in DOMAIN ios'[t] /\ ios'[t][Len(ios[t]) + 1] = io
      BY <1>5, <3>1
    <3>3. QED
      BY <3>2 DEF Range
  <2>3. QED
    BY <1>3, <2>1, <2>2
<1>7. ASSUME NEW j \in DOMAIN SetIOs(t), j < slot'[t], SetIOs(t)[j] \in WriteIOs
      PROVE  SetIOs(t)[j] \in Range(ios'[t])
  <2>1. CASE j = slot[t]
    BY <1>6, <1>7, <2>1 DEF io
  <2>2. CASE j < slot[t]
    BY <1>1, <1>3, <1>6, <1>7, <2>2 DEF BegunInv
  <2>3. QED
    BY <1>0, <1>2, <1>4, <1>7, <2>1, <2>2
<1>8. QED
  BY <1>1, <1>4, <1>7 DEF BegunInv, StoredInv, WritingInv

LEMMA ProgressBeginDone ==
  ASSUME TypeInv, LoopsInv, NEW t \in Threads, BeginDone(t), BegunInv(t)
  PROVE  BegunInv(t)' /\ StoredInv(t)' /\ WritingInv(t)'
<1>1. /\ pc[t] = "begin" /\ pc'[t] = "read" /\ slot[t] > Len(SetIOs(t))
      /\ UNCHANGED <<ctx, chan, ios>> /\ chan[t] = 1
  BY DEF BeginDone, Goto, TypeInv, TypeOK, LoopsInv
<1>2. SetIOs(t) \in Seq(IOs) /\ SetIOs(t) = IOsOf[ctx[t]] /\ slot[t] \in Nat
  BY <1>1, ConfigTypes DEF Saving, SetIOs, TypeInv, TypeOK
<1>3. Channels(t)' \in Seq(PVs)
  BY <1>1, ConfigTypes DEF Saving, Channels
<1>4. ASSUME NEW io \in Targets(ctx[t]) PROVE io \in Range(ios[t])
  <2>1. PICK j \in DOMAIN SetIOs(t) : SetIOs(t)[j] = io
    BY <1>2 DEF Targets, Range
  <2>2. j < slot[t] /\ io \in WriteIOs
    BY <1>1, <1>2 DEF Targets
  <2>3. QED
    BY <1>1, <2>1, <2>2 DEF BegunInv
<1>5. BegunInv(t)'
  BY <1>1, <1>4 DEF BegunInv, Targets
<1>6. \A j \in DOMAIN Channels(t)' : ~(j < chan'[t])
  BY <1>1, <1>3
<1>7. QED
  BY <1>1, <1>5, <1>6 DEF StoredInv, WritingInv

\* A channel is read: its value is there, and recent unless its read may fail.
LEMMA ProgressRead ==
  ASSUME TypeInv, LoopsInv, AskedInv, NEW t \in Threads, Read(t),
         BegunInv(t), StoredInv(t)
  PROVE  BegunInv(t)' /\ StoredInv(t)' /\ WritingInv(t)'
<1> DEFINE p == Channels(t)[chan[t]]
<1>1. /\ pc[t] = "read" /\ pc'[t] = "write" /\ chan[t] <= Len(Channels(t))
      /\ UNCHANGED <<ctx, chan, slot, ios, written, asked>>
  BY DEF Read, Goto, TypeInv, TypeOK, shared
<1>2. slot[t] = 1 /\ Channels(t)' = Channels(t) /\ SetIOs(t)' = SetIOs(t)
  BY <1>1 DEF LoopsInv, Channels, SetIOs
<1>3. Channels(t) \in Seq(PVs) /\ p \in PVs /\ ios[t] \in Seq(IOs)
  BY <1>1, ConfigTypes DEF Saving, TypeInv, TypeOK
<1> HIDE DEF p
<1>4. data'[t] = value[p] \/ (p \in Unreadable /\ data'[t] = Default)
  BY DEF Read, p, TypeInv, TypeOK
<1>5. /\ data'[t] # Absent
      /\ (t \in Requesters /\ p \notin Unreadable) => data'[t] >= asked'[t][p]
  BY <1>1, <1>3, <1>4 DEF AskedInv, TypeInv, TypeOK, Absent, Default
<1>6. WritingInv(t)'
  BY <1>1, <1>2, <1>3, <1>5 DEF WritingInv, Recent, p
<1>7. BegunInv(t)'
  BY <1>1, <1>2 DEF BegunInv, Targets
<1>8. \A q : Kept(t, ctx[t], q)' <=> Kept(t, ctx[t], q)
  BY <1>1 DEF Kept, Stored, Agreed, Fresh, Recent, Targets
<1>9. StoredInv(t)'
  BY <1>1, <1>2, <1>8 DEF StoredInv
<1>10. QED
  BY <1>6, <1>7, <1>9

LEMMA ProgressReadDone ==
  ASSUME TypeInv, NEW t \in Threads, ReadDone(t), BegunInv(t), StoredInv(t)
  PROVE  BegunInv(t)' /\ StoredInv(t)' /\ WritingInv(t)'
<1>1. /\ pc[t] = "read" /\ pc'[t] = "end" /\ UNCHANGED <<loops, written, asked>>
  BY DEF ReadDone, Goto, TypeInv, TypeOK, shared
<1>2. Channels(t)' = Channels(t) /\ SetIOs(t)' = SetIOs(t)
  BY <1>1 DEF Channels, SetIOs, loops
<1>3. \A q : Kept(t, ctx[t], q)' <=> Kept(t, ctx[t], q)
  BY <1>1 DEF Kept, Stored, Agreed, Fresh, Recent, Targets, loops
<1>4. QED
  BY <1>1, <1>2, <1>3 DEF BegunInv, StoredInv, WritingInv, Targets, loops

\* One backend is handed the value that was read; the other channels stay as
\* they are, and so does this one where it has been written already.
LEMMA ProgressWrite ==
  ASSUME TypeInv, LoopsInv, NEW t \in Threads, WriteData(t),
         lastStatus[ctx[t]] = 0 => BegunInv(t) /\ StoredInv(t) /\ WritingInv(t),
         lastStatus'[ctx'[t]] = 0
  PROVE  BegunInv(t)' /\ StoredInv(t)' /\ WritingInv(t)'
<1> DEFINE io == ios[t][slot[t]]
           p == Channels(t)[chan[t]]
<1>0. /\ lastStatus \in [Contexts -> {0, 1}] /\ slot \in [Threads -> Nat \ {0}]
      /\ ios[t] \in Seq(IOs)
      /\ written \in [IOs -> [PVs -> Nat \union {Absent, Default}]]
  BY DEF TypeInv, TypeOK
<1>1. /\ pc[t] = "write" /\ slot[t] <= Len(ios[t])
      /\ UNCHANGED <<pc, ctx, chan, ios, data, asked>>
      /\ slot' = [slot EXCEPT ![t] = @ + 1]
      /\ \/ /\ written' = [written EXCEPT ![io][p] = data[t]]
            /\ lastStatus' = lastStatus
         \/ lastStatus' = [lastStatus EXCEPT ![ctx[t]] = 1]
  BY DEF WriteData, Succeeded, Failed, ReadData
<1>2. ctx[t] \in Contexts /\ Channels(t) \in Seq(PVs)
  BY <1>1, ConfigTypes DEF Saving
<1>3. lastStatus[ctx[t]] = 0 /\ written' = [written EXCEPT ![io][p] = data[t]]
  BY <1>0, <1>1, <1>2
<1>4. /\ BegunInv(t) /\ StoredInv(t) /\ WritingInv(t)
      /\ Channels(t)' = Channels(t) /\ SetIOs(t)' = SetIOs(t)
  BY <1>1, <1>3 DEF Channels, SetIOs
<1>5. /\ slot[t] \in DOMAIN ios[t] /\ slot'[t] = slot[t] + 1
      /\ io \in IOs /\ p \in PVs /\ p' = p
  <2>1. chan[t] \in DOMAIN Channels(t)
    BY <1>1, <1>2 DEF LoopsInv, TypeInv, TypeOK
  <2>2. QED
    BY <1>0, <1>1, <1>2, <1>4, <2>1
<1> HIDE DEF io, p
<1>6. \A b \in IOs : \A q \in PVs : q # p => written'[b][q] = written[b][q]
  BY <1>0, <1>3, <1>5
<1>7. ASSUME NEW i \in DOMAIN ios[t], i < slot'[t] PROVE written'[ios[t][i]][p] = data[t]
  <2>1. ios[t][i] \in IOs
    BY <1>0
  <2>2. CASE ios[t][i] = io
    BY <1>0, <1>3, <1>5, <2>2
  <2>3. CASE ios[t][i] # io
    <3>1. i < slot[t]
      BY <1>0, <1>5, <1>7, <2>3 DEF io
    <3>2. written[ios[t][i]][p] = data[t]
      BY <1>1, <1>4, <3>1 DEF WritingInv, p
    <3>3. QED
      BY <1>0, <1>3, <1>5, <2>1, <2>3, <3>2
  <2>4. QED
    BY <2>2, <2>3
<1>8. WritingInv(t)'
  <2>1. data[t] # Absent /\ Recent(t, data[t], p)
    BY <1>1, <1>4 DEF WritingInv, p
  <2>2. QED
    BY <1>1, <1>4, <1>7, <2>1 DEF WritingInv, Recent, p
<1>9. ASSUME NEW q \in PVs, q # p, Kept(t, ctx[t], q) PROVE Kept(t, ctx[t], q)'
  <2>1. \A b \in Targets(ctx[t]) : written'[b][q] = written[b][q]
    BY <1>6, <1>9, ConfigAssumption DEF Targets
  <2>2. QED
    BY <1>1, <1>9, <2>1 DEF Kept, Stored, Agreed, Fresh, Recent, Targets
<1>10. StoredInv(t)'
  <2>1. ASSUME NEW j \in DOMAIN Channels(t), j < chan[t], Channels(t)[j] # p
        PROVE  Kept(t, ctx[t], Channels(t)[j])'
    <3>1. Kept(t, ctx[t], Channels(t)[j]) /\ Channels(t)[j] \in PVs
      BY <1>1, <1>2, <1>4, <2>1 DEF StoredInv, p
    <3>2. QED
      BY <1>4, <1>9, <2>1, <3>1
  <2>2. QED
    BY <1>1, <1>4, <2>1 DEF StoredInv, p
<1>11. BegunInv(t)'
  BY <1>1, <1>4 DEF BegunInv, Targets
<1>12. QED
  BY <1>8, <1>10, <1>11

\* Every backend that was begun has been handed the channel: all those of the set.
LEMMA ProgressWriteDone ==
  ASSUME TypeInv, LoopsInv, NEW t \in Threads, WriteDone(t),
         BegunInv(t), StoredInv(t), WritingInv(t)
  PROVE  BegunInv(t)' /\ StoredInv(t)' /\ WritingInv(t)'
<1> DEFINE p == Channels(t)[chan[t]]
<1>1. /\ pc[t] = "write" /\ pc'[t] = "read" /\ slot[t] > Len(ios[t])
      /\ UNCHANGED <<ctx, ios, written, asked>> /\ chan'[t] = chan[t] + 1
  BY DEF WriteDone, Goto, TypeInv, TypeOK, shared
<1>2. Channels(t)' = Channels(t) /\ SetIOs(t)' = SetIOs(t)
  BY <1>1 DEF Channels, SetIOs
<1>3. /\ ios[t] \in Seq(IOs) /\ slot[t] \in Nat /\ chan[t] \in Nat
      /\ Channels(t) \in Seq(PVs)
  BY <1>1, ConfigTypes DEF Saving, TypeInv, TypeOK
<1>4. ASSUME NEW io \in Targets(ctx[t]) PROVE written[io][p] = data[t]
  <2>1. PICK i \in DOMAIN ios[t] : ios[t][i] = io
    BY <1>1 DEF BegunInv, Range
  <2>2. i < slot[t]
    BY <1>1, <1>3
  <2>3. QED
    BY <1>1, <2>1, <2>2 DEF WritingInv
<1>5. Kept(t, ctx[t], p)
  <2>1. data[t] # Absent /\ Recent(t, data[t], p)
    BY <1>1 DEF WritingInv
  <2> HIDE DEF p
  <2>2. QED
    BY <1>4, <2>1 DEF Kept, Stored, Agreed, Fresh
<1>6. \A q : Kept(t, ctx[t], q)' <=> Kept(t, ctx[t], q)
  BY <1>1 DEF Kept, Stored, Agreed, Fresh, Recent, Targets
<1>7. ASSUME NEW j \in DOMAIN Channels(t), j < chan'[t]
      PROVE  Kept(t, ctx[t], Channels(t)[j])
  <2>1. CASE Channels(t)[j] = p
    BY <1>5, <2>1
  <2>2. CASE Channels(t)[j] # p
    <3>1. j < chan[t]
      BY <1>1, <1>3, <1>7, <2>2
    <3>2. QED
      BY <1>1, <2>2, <3>1 DEF StoredInv
  <2>3. QED
    BY <2>1, <2>2
<1>8. StoredInv(t)'
  BY <1>1, <1>2, <1>6, <1>7 DEF StoredInv
<1>9. BegunInv(t)' /\ WritingInv(t)'
  BY <1>1, <1>2 DEF BegunInv, WritingInv, Targets
<1>10. QED
  BY <1>8, <1>9

LEMMA ProgressInvStep ==
  TypeInv /\ GuardInv /\ LoopsInv /\ AskedInv /\ ProgressInv /\ [Next]_vars
    => ProgressInv'
<1> SUFFICES ASSUME TypeInv, GuardInv, LoopsInv, AskedInv, ProgressInv, [Next]_vars
             PROVE  ProgressInv'
  OBVIOUS
<1>0. pc \in [Threads -> Labels] /\ ctx \in [Threads -> 0..NumContexts]
  BY DEF TypeInv, TypeOK
<1>a. \A t \in Threads : (pc[t] \in Saving /\ lastStatus[ctx[t]] = 0) =>
        BegunInv(t) /\ StoredInv(t) /\ WritingInv(t)
  BY DEF ProgressInv
<1>1. ASSUME UNCHANGED <<pc, loops, written, lastStatus, asked>> PROVE ProgressInv'
  <2>1. \A t \in Threads : BegunInv(t) /\ StoredInv(t) /\ WritingInv(t)
                             => BegunInv(t)' /\ StoredInv(t)' /\ WritingInv(t)'
    BY <1>1, ProgressStill DEF loops
  <2>2. QED
    BY <1>1, <1>a, <2>1 DEF ProgressInv, loops
<1>2. ASSUME NEW t \in Threads, Wake(t) \/ Request(t) \/ Return(t) \/ Lock(t)
      PROVE  ProgressInv'
  <2>1. /\ UNCHANGED <<loops, written, lastStatus>>
        /\ pc[t] \notin Saving /\ pc'[t] \notin Saving
        /\ \A u \in Threads \ {t} :
             pc'[u] = pc[u] /\ (u \in Requesters => asked'[u] = asked[u])
    BY <1>0, <1>2 DEF Wake, Request, Return, Lock, Goto, Saving, shared, status, TypeInv,
                      TypeOK
  <2>2. \A u \in Threads \ {t} :
          BegunInv(u) /\ StoredInv(u) /\ WritingInv(u)
            => BegunInv(u)' /\ StoredInv(u)' /\ WritingInv(u)'
    BY <2>1, ProgressStill DEF loops
  <2>3. QED
    BY <1>a, <2>1, <2>2 DEF ProgressInv, loops
<1>3. ASSUME NEW t \in Threads,
             SkipContext(t) \/ StartSave(t) \/ FinishSave(t) \/ Notify(t)
      PROVE  ProgressInv'
  <2>1. /\ pc[t] \in Holding /\ pc'[t] \in Labels \ {"begin", "read", "write", "end"}
        /\ \A u \in Threads \ {t} : pc'[u] = pc[u]
    BY <1>0, <1>3 DEF SkipContext, StartSave, FinishSave, Notify, Goto, Holding, Saving, Labels
  <2>2. BegunInv(t)' /\ StoredInv(t)' /\ WritingInv(t)'
    BY <2>1 DEF BegunInv, StoredInv, WritingInv
  <2>3. QED
    BY <2>1, <2>2, ProgressOne
<1>4. ASSUME NEW t \in Threads, Inside(t) PROVE ProgressInv'
  <2>1. /\ pc[t] \in Saving /\ pc[t] \in Holding /\ ctx' = ctx
        /\ \A u \in Threads \ {t} : pc'[u] = pc[u]
    BY <1>0, <1>4, InsideStep DEF Holding
  <2>2. SUFFICES ASSUME lastStatus'[ctx'[t]] = 0
                 PROVE  BegunInv(t)' /\ StoredInv(t)' /\ WritingInv(t)'
    BY <2>1, ProgressOne
  <2>3. CASE PreRead(t) \/ PreReadDone(t)
    <3>1. /\ pc'[t] \in {"preread", "begin"} /\ UNCHANGED slot
          /\ slot[t] = 1
      BY <1>0, <2>3 DEF PreRead, PreReadDone, Goto, LoopsInv
    <3>2. SetIOs(t)' \in Seq(IOs)
      BY <2>1, ConfigTypes DEF SetIOs
    <3>3. QED
      BY <3>1, <3>2 DEF BegunInv, StoredInv, WritingInv
  <2>4. CASE BeginWrite(t)
    BY <1>a, <2>1, <2>2, <2>4, ProgressBegin
  <2>5. CASE WriteData(t)
    BY <1>a, <2>1, <2>2, <2>5, ProgressWrite
  <2>6. CASE EndWrite(t)
    <3>1. /\ pc[t] = "end" /\ UNCHANGED <<pc, ctx, chan, ios, data, written, asked>>
          /\ lastStatus' \in {lastStatus, [lastStatus EXCEPT ![ctx[t]] = 1]}
      BY <2>6 DEF EndWrite, Succeeded, Failed
    <3>2. lastStatus[ctx[t]] = 0
      BY <2>1, <2>2, <3>1, ConfigTypes DEF TypeInv, TypeOK
    <3>3. BegunInv(t) /\ StoredInv(t)
      BY <1>a, <2>1, <3>2
    <3>4. Channels(t)' = Channels(t) /\ SetIOs(t)' = SetIOs(t)
      BY <3>1 DEF Channels, SetIOs
    <3>5. \A q : Kept(t, ctx[t], q)' <=> Kept(t, ctx[t], q)
      BY <3>1 DEF Kept, Stored, Agreed, Fresh, Recent, Targets
    <3>6. QED
      BY <3>1, <3>3, <3>4, <3>5 DEF BegunInv, StoredInv, WritingInv, Targets
  <2>7. CASE BeginDone(t) \/ Read(t) \/ ReadDone(t) \/ WriteDone(t)
    <3>1. lastStatus' = lastStatus
      BY <2>7 DEF BeginDone, Read, ReadDone, WriteDone, shared, status
    <3>2. BegunInv(t) /\ StoredInv(t) /\ WritingInv(t)
      BY <1>a, <2>1, <2>2, <3>1
    <3>3. QED
      BY <2>7, <3>2, ProgressBeginDone, ProgressRead, ProgressReadDone, ProgressWriteDone
  <2>8. QED
    BY <1>4, <2>3, <2>4, <2>5, <2>6, <2>7 DEF Inside
<1>5. CASE Outside
  BY <1>1, <1>5 DEF Outside, ProcessStatus, ChangeValue, Tick, vars, shared, status
<1>6. QED
  BY <1>2, <1>3, <1>4, <1>5
     DEF Next, SaveStep, Inside, Outside, Threads, Requesters

-----------------------------------------------------------------------------
(***************************************************************************)
(* What the saves leave behind.                                            *)
(***************************************************************************)

\* When save() returns without an error, every channel of the context is kept.
LEMMA FinishKept ==
  ASSUME TypeInv, LoopsInv, ProgressInv, NEW t \in Threads, FinishSave(t),
         lastStatus[ctx[t]] = 0
  PROVE  \A p \in Range(ChannelsOf[ctx[t]]) : Kept(t, ctx[t], p)
<1>1. pc[t] = "end"
  BY DEF FinishSave
<1>2. /\ chan[t] > Len(Channels(t)) /\ chan[t] \in Nat
      /\ StoredInv(t) /\ Channels(t) \in Seq(PVs)
  BY <1>1, ConfigTypes DEF LoopsInv, ProgressInv, Saving, TypeInv, TypeOK
<1>3. ASSUME NEW j \in DOMAIN Channels(t) PROVE Kept(t, ctx[t], Channels(t)[j])
  BY <1>1, <1>2 DEF StoredInv
<1>4. QED
  BY <1>3 DEF Range, Channels

\* Steps at the borders of save(), and of the loop around it.
Border(t) ==
  \/ Wake(t) \/ Lock(t) \/ SkipContext(t) \/ Notify(t)
  \/ t \in Requesters /\ (Request(t) \/ Return(t))

LEMMA BorderStep ==
  ASSUME TypeInv, NEW t \in Threads, Border(t)
  PROVE  /\ UNCHANGED <<written, lastStatus, lastProc>>
         /\ pc[t] \notin Saving /\ pc'[t] \notin Saving
         /\ \A u \in Threads \ {t} :
              /\ pc'[u] = pc[u] /\ ctx'[u] = ctx[u]
              /\ u \in Requesters => asked'[u] = asked[u]
BY DEF Border, Wake, Lock, SkipContext, Notify, Request, Return, Goto, Saving, shared, status,
       loops, TypeInv, TypeOK

LEMMA ContextInvStep ==
  TypeInv /\ GuardInv /\ LoopsInv /\ ProgressInv /\ ContextInv /\ [Next]_vars
    => ContextInv'
<1> SUFFICES ASSUME TypeInv, GuardInv, LoopsInv, ProgressInv, ContextInv, [Next]_vars,
                    NEW c \in Contexts,
                    Unshared(c), lastProc'[c] > 0, lastStatus'[c] = 0, ~IsSaved(c)'
             PROVE  \A p \in Range(ChannelsOf[c]) : Stored(c, p)' /\ Agreed(c, p)'
  BY DEF ContextInv, Unshared
<1>0. /\ pc \in [Threads -> Labels] /\ ctx \in [Threads -> 0..NumContexts]
      /\ lastStatus \in [Contexts -> {0, 1}] /\ lastProc \in [Contexts -> Nat]
  BY DEF TypeInv, TypeOK
<1>1. ASSUME lastProc'[c] = lastProc[c], lastStatus'[c] = lastStatus[c], ~IsSaved(c),
             \A io \in Targets(c) : written'[io] = written[io]
      PROVE  \A p \in Range(ChannelsOf[c]) : Stored(c, p)' /\ Agreed(c, p)'
  <2>1. \A p \in Range(ChannelsOf[c]) : Stored(c, p) /\ Agreed(c, p)
    BY <1>1 DEF ContextInv
  <2>2. QED
    BY <1>1, <2>1 DEF Stored, Agreed, Targets
<1>2. ASSUME NEW t \in Threads, Border(t)
      PROVE  \A p \in Range(ChannelsOf[c]) : Stored(c, p)' /\ Agreed(c, p)'
  <2>1. UNCHANGED <<written, lastStatus, lastProc>> /\ ~IsSaved(c)
    BY <1>2, BorderStep DEF IsSaved
  <2>2. QED
    BY <1>1, <2>1
<1>3. ASSUME NEW t \in Threads, StartSave(t)
      PROVE  \A p \in Range(ChannelsOf[c]) : Stored(c, p)' /\ Agreed(c, p)'
  <2>1. /\ pc[t] = "context" /\ pc' = [pc EXCEPT ![t] = "preread"] /\ ctx' = ctx
        /\ lastStatus' = [lastStatus EXCEPT ![ctx[t]] = 0]
        /\ UNCHANGED <<written, lastProc>>
    BY <1>3 DEF StartSave, Goto, loops
  <2>2. c # ctx[t]
    BY <1>0, <2>1 DEF IsSaved, Saving
  <2>3. ~IsSaved(c)
    BY <1>0, <2>1 DEF IsSaved, Saving
  <2>4. QED
    BY <1>0, <1>1, <2>1, <2>2, <2>3
<1>4. ASSUME NEW t \in Threads, Inside(t)
      PROVE  \A p \in Range(ChannelsOf[c]) : Stored(c, p)' /\ Agreed(c, p)'
  <2>1. /\ pc[t] \in Saving /\ \E l \in Saving : pc' = [pc EXCEPT ![t] = l]
        /\ UNCHANGED <<ctx, lastProc>>
    BY <1>4, InsideStep
  <2>2. c # ctx[t] /\ ~IsSaved(c)
    BY <1>0, <2>1 DEF IsSaved
  <2>3. QED
    BY <1>1, <1>4, <2>1, <2>2, OtherContext
<1>5. ASSUME NEW t \in Threads, FinishSave(t)
      PROVE  \A p \in Range(ChannelsOf[c]) : Stored(c, p)' /\ Agreed(c, p)'
  <2>1. /\ pc[t] = "end" /\ UNCHANGED <<written, lastStatus>>
        /\ pc' = [pc EXCEPT ![t] = "context"]
        /\ ctx' = [ctx EXCEPT ![t] = @ + 1]
        /\ lastProc' = [lastProc EXCEPT ![ctx[t]] = now[t]]
    BY <1>5 DEF FinishSave, Goto
  <2>2. CASE c = ctx[t]
    <3>1. \A p \in Range(ChannelsOf[c]) : Kept(t, ctx[t], p)
      BY <1>5, <2>1, <2>2, FinishKept
    <3>2. QED
      BY <2>1, <2>2, <3>1 DEF Kept, Stored, Agreed, Targets
  <2>3. CASE c # ctx[t]
    <3>1. ~IsSaved(c)
      BY <1>0, <2>1, <2>3 DEF IsSaved
    <3>2. QED
      BY <1>0, <1>1, <2>1, <2>3, <3>1
  <2>4. QED
    BY <2>2, <2>3
<1>6. CASE Outside
  <2>1. UNCHANGED <<pc, ctx, written, lastStatus, lastProc>>
    BY <1>6 DEF Outside, ProcessStatus, ChangeValue, Tick, vars, shared, status, loops
  <2>2. QED
    BY <1>1, <2>1 DEF IsSaved
<1>7. QED
  BY <1>2, <1>3, <1>4, <1>5, <1>6
     DEF Next, SaveStep, Inside, Outside, Border, Threads, Requesters

LEMMA RequestInvStep ==
  TypeInv /\ GuardInv /\ LoopsInv /\ ProgressInv /\ RequestInv /\ [Next]_vars
    => RequestInv'
<1> SUFFICES ASSUME TypeInv, GuardInv, LoopsInv, ProgressInv, RequestInv, [Next]_vars,
                    NEW t \in Requesters, pc'[t] \in Holding,
                    NEW c \in Contexts,
                    c < ctx'[t], Unshared(c), lastStatus'[c] = 0
             PROVE  \A p \in Range(ChannelsOf[c]) : Fresh(t, c, p)'
  BY DEF RequestInv, Unshared
<1>0. /\ pc \in [Threads -> Labels] /\ ctx \in [Threads -> 0..NumContexts]
      /\ lastStatus \in [Contexts -> {0, 1}] /\ t \in Threads /\ c \in Nat
      /\ asked \in [Requesters -> [PVs -> Nat]]
  BY DEF TypeInv, TypeOK, Threads, Contexts
<1>1. ASSUME pc[t] \in Holding, c < ctx[t], lastStatus'[c] = lastStatus[c],
             asked'[t] = asked[t], \A io \in Targets(c) : written'[io] = written[io]
      PROVE  \A p \in Range(ChannelsOf[c]) : Fresh(t, c, p)'
  <2>1. \A p \in Range(ChannelsOf[c]) : Fresh(t, c, p)
    BY <1>1 DEF RequestInv
  <2>2. QED
    BY <1>1, <2>1 DEF Fresh, Recent, Targets
\* A step of another thread: it is not inside the loop while t is.
<1>2. ASSUME NEW u \in Threads, u # t, pc[u] \in Holding, pc'[t] = pc[t] PROVE FALSE
  BY <1>0, <1>2 DEF GuardInv
<1>3. ASSUME NEW u \in Threads, Border(u)
      PROVE  \A p \in Range(ChannelsOf[c]) : Fresh(t, c, p)'
  <2>1. UNCHANGED <<written, lastStatus>>
    BY <1>3, BorderStep
  <2>2. CASE u # t
    BY <1>0, <1>1, <1>3, <2>1, <2>2, BorderStep
  <2>3. CASE u = t
    <3>1. Lock(t)
      BY <1>0, <1>3, <2>3, ThreadAssumption
         DEF Border, Wake, SkipContext, MustSave, Notify, Request, Return, Goto, Holding, Saving
    <3>2. ctx'[t] = 0
      BY <3>1 DEF Lock, LoopsInv, Holding, Saving, loops, Threads
    <3>3. QED
      BY <1>0, <3>2
  <2>4. QED
    BY <2>2, <2>3
<1>4. ASSUME NEW u \in Threads, StartSave(u)
      PROVE  \A p \in Range(ChannelsOf[c]) : Fresh(t, c, p)'
  <2>1. /\ pc[u] = "context" /\ pc' = [pc EXCEPT ![u] = "preread"]
        /\ lastStatus' = [lastStatus EXCEPT ![ctx[u]] = 0]
        /\ UNCHANGED <<written, ctx, asked>>
    BY <1>4 DEF StartSave, Goto, loops
  <2>2. u = t
    BY <1>0, <1>2, <2>1 DEF Holding
  <2>3. c < ctx[t] /\ lastStatus'[c] = lastStatus[c]
    BY <1>0, <2>1, <2>2
  <2>4. QED
    BY <1>1, <2>1, <2>2, <2>3 DEF Holding
<1>5. ASSUME NEW u \in Threads, Inside(u)
      PROVE  \A p \in Range(ChannelsOf[c]) : Fresh(t, c, p)'
  <2>1. /\ pc[u] \in Saving /\ \E l \in Saving : pc' = [pc EXCEPT ![u] = l]
        /\ UNCHANGED <<ctx, asked>>
    BY <1>5, InsideStep
  <2>2. u = t
    BY <1>0, <1>2, <2>1 DEF Holding
  <2>3. c < ctx[t] /\ c # ctx[t]
    BY <1>0, <2>1
  <2>4. QED
    BY <1>1, <1>5, <2>1, <2>2, <2>3, OtherContext DEF Holding
<1>6. ASSUME NEW u \in Threads, FinishSave(u)
      PROVE  \A p \in Range(ChannelsOf[c]) : Fresh(t, c, p)'
  <2>1. /\ pc[u] = "end" /\ UNCHANGED <<written, lastStatus, asked>>
        /\ pc' = [pc EXCEPT ![u] = "context"]
        /\ ctx' = [ctx EXCEPT ![u] = @ + 1]
    BY <1>6 DEF FinishSave, Goto
  <2>2. u = t
    BY <1>0, <1>2, <2>1 DEF Holding, Saving
  <2>3. CASE c = ctx[t]
    <3>1. \A p \in Range(ChannelsOf[c]) : Kept(t, ctx[t], p)
      BY <1>6, <2>1, <2>2, <2>3, FinishKept
    <3>2. QED
      BY <2>1, <2>3, <3>1 DEF Kept, Fresh, Recent, Targets
  <2>4. CASE c # ctx[t]
    <3>1. c < ctx[t]
      BY <1>0, <2>1, <2>2, <2>4
    <3>2. QED
      BY <1>1, <2>1, <2>2, <3>1 DEF Holding, Saving
  <2>5. QED
    BY <2>3, <2>4
<1>7. CASE Outside
  <2>1. UNCHANGED <<pc, ctx, written, lastStatus, asked>>
    BY <1>7 DEF Outside, ProcessStatus, ChangeValue, Tick, vars, shared, status, loops
  <2>2. QED
    BY <1>1, <2>1
<1>8. QED
  BY <1>3, <1>4, <1>5, <1>6, <1>7
     DEF Next, SaveStep, Inside, Outside, Border, Threads, Requesters

-----------------------------------------------------------------------------
(***************************************************************************)
(* The theorems.                                                           *)
(***************************************************************************)

Inv ==
  /\ TypeInv /\ GuardInv
  /\ LoopsInv /\ AskedInv /\ ProgressInv
  /\ ContextInv /\ RequestInv

LEMMA InvInit == Init => Inv
<1> SUFFICES ASSUME Init PROVE Inv
  OBVIOUS
<1>1. \A t \in Threads : pc[t] = "idle"
  BY DEF Init
<1>2. TypeInv /\ LoopsInv
  BY TypeInvInit, LoopsInvInit
<1>3. GuardInv
  BY <1>1, ThreadAssumption DEF Init, GuardInv, Holding, Saving
<1>4. AskedInv
  BY DEF Init, AskedInv
<1>5. ProgressInv /\ RequestInv
  BY <1>1 DEF ProgressInv, RequestInv, Holding, Saving, Threads
<1>6. ContextInv
  BY DEF Init, ContextInv
<1>7. QED
  BY <1>2, <1>3, <1>4, <1>5, <1>6 DEF Inv

LEMMA InvAlways == Spec => []Inv
<1>1. Inv /\ [Next]_vars => Inv'
  BY TypeInvStep, GuardInvStep, LoopsInvStep, AskedInvStep, ProgressInvStep,
     ContextInvStep, RequestInvStep
     DEF Inv
<1>2. QED
  BY <1>1, InvInit, PTL DEF Spec

\* Whoever saves, and whichever backends fail, a context that reports no error
\* has every channel in every backend of its set: each failed call of a save is
\* recorded in the status, and no other save touches the set's backends.
THEOREM StatusIsTrue == Spec => []OkMeansSaved
<1>1. Inv => OkMeansSaved
  BY DEF Inv, ContextInv, OkMeansSaved, Stored
<1>2. QED
  BY <1>1, InvAlways, PTL

\* Though the records keep changing, the backends of a set whose context reports
\* no error hold the same value of each channel.
THEOREM BackendsAreCopies == Spec => []BackendsAgree
<1>1. Inv => BackendsAgree
  BY DEF Inv, ContextInv, BackendsAgree, Agreed
<1>2. QED
  BY <1>1, InvAlways, PTL

\* A request that waited behind any number of other saves still leaves, where no
\* error is reported, values at least as new as those it was asked for.
THEOREM RequestsAreFresh == Spec => []FreshForRequester
<1>1. Inv => FreshForRequester
  <2> SUFFICES ASSUME Inv, NEW t \in Requesters, pc[t] = "context",
                      ctx[t] = NumContexts,
                      NEW c \in Contexts, Unshared(c), lastStatus[c] = 0,
                      NEW io \in Targets(c), NEW p \in Range(ChannelsOf[c]) \ Unreadable
               PROVE  written[io][p] >= asked[t][p]
    BY DEF FreshForRequester
  <2>1. c < ctx[t]
    BY ConfigAssumption DEF Contexts
  <2>2. Fresh(t, c, p)
    BY <2>1 DEF Inv, RequestInv, Holding
  <2>3. QED
    BY <2>2 DEF Fresh, Recent
<1>2. QED
  BY <1>1, InvAlways, PTL

=============================================================================
