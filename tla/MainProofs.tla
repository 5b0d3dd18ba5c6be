------------------------------ MODULE MainProofs ------------------------------
(***************************************************************************)
(* Proofs about Main, for every library, every set of options, any number  *)
(* of lost connections and any time-out: what LoopProofs shows of Loop     *)
(* holds in a process that loads, fails, reconnects, loads on top and      *)
(* starts Loop again.                                                      *)
(***************************************************************************)
EXTENDS Main, LoopProofs, FiniteSetTheorems

-----------------------------------------------------------------------------
(* Types                                                                   *)

(* What does not depend on where the process is.                           *)
DataInv ==
    /\ ServerTypeOK
    /\ Facts!ChainWhole
    /\ options \in OptionSet
    /\ st \in [len : 0 .. MaxQueue, pos : {NoPos} \cup (0 .. MaxQueue - 1),
               playing : BOOLEAN, single : BOOLEAN]
    /\ todo \in Seq(Song)
    /\ needed \in Int
    /\ active \in BOOLEAN
    /\ count \in Nat /\ count <= options.queue_only /\ number_of_songs \in Nat
    /\ interactive \in BOOLEAN
    /\ waited \in 0 .. ReconnectTimeout

(* The inductive type invariant: the counter of --only never passes its    *)
(* goal, and no add is due when the group is used up.                      *)
MainInv ==
    /\ DataInv
    /\ pc \in {"first_add", "enq_add", "queue_add"} => todo # <<>>
    /\ pc \in Calls \cup {"returned"} \cup MainSteps \cup Finished

(* It is Loop's while Loop runs.                                           *)
LEMMA LoopRuns ==
    MainInv /\ pc \in Calls => TypeInv
BY DEF MainInv, DataInv, TypeInv, Calls

(* And what the type invariant asks for.                                   *)
LEMMA MainInvIsEnough ==
    MainInv => MainTypeOK
BY DEF MainInv, DataInv, MainTypeOK, DataTypeOK, Facts!ChainWhole, Facts!Indices

(* A new connection, or an attempt at one, keeps the server's types.       *)
LEMMA DialTypes ==
    ASSUME ServerTypeOK, Dialed \/ Unreachable
    PROVE  ServerTypeOK'
<1>1. CASE Dialed
  BY <1>1 DEF ServerTypeOK, Dialed
<1>2. CASE UNCHANGED serverVars
  BY <1>2 DEF ServerTypeOK, serverVars
<1>3. CASE Disconnect
  BY <1>3, OthersTypes DEF Others
<1> QED  BY <1>1, <1>2, <1>3 DEF Unreachable

(* Loading adds groups to a chain, which stays in order, and loses none.   *)
LEMMA AddingTypes ==
    ASSUME Facts!ChainWhole, NEW groups \in Seq(Group), Chain!AddAll(groups)
    PROVE  Facts!ChainWhole' /\ (items # <<>> => items' # <<>>)
<1>1. Facts!AddAll(groups)
  BY DEF Chain!AddAll, Facts!AddAll
<1>2. Facts!ChainWhole' /\ Len(items') = Len(items) + Len(groups)
  BY <1>1, Facts!AddAllKeepsWhole, LoopAssumption
<1>3. Len(items) \in Nat /\ Len(groups) \in Nat /\ (items # <<>> => Len(items) # 0)
  BY EmptySeq DEF Facts!ChainWhole
<1>4. Len(<<>>) = 0
  OBVIOUS
<1>5. items # <<>> => Len(items') # 0
  BY <1>2, <1>3
<1>6. items # <<>> => items' # <<>>
  BY <1>4, <1>5, Zenon
<1> QED  BY <1>2, <1>6

(* What a loader may add.                                                  *)
LEMMA LoadedGroups ==
    ASSUME NEW songs \in SUBSET Song
    PROVE  LoadedFrom(songs) \in Seq(Group)
BY LoopAssumption DEF LoadedFrom

(* A loader that adds something, be it a part of what it was to add.       *)
LEMMA LoaderTypes ==
    ASSUME ServerTypeOK, Facts!ChainWhole, LoaderAdds
    PROVE  ServerTypeOK' /\ Facts!ChainWhole' /\ (items # <<>> => items' # <<>>)
<1>1. library \in SUBSET Song
  BY ServerAssumption DEF ServerTypeOK
<1>2. CASE UNCHANGED serverVars /\ Chain!AddAll(LoadedFrom(library))
  <2>1. ServerTypeOK'
    BY <1>2 DEF ServerTypeOK, serverVars
  <2> QED  BY <1>1, <1>2, <2>1, LoadedGroups, AddingTypes
<1>3. CASE Unreachable /\ \E part \in SUBSET (IF link = "up" THEN library ELSE {}) :
                             Chain!AddAll(LoadedFrom(part))
  <2>1. PICK part \in SUBSET (IF link = "up" THEN library ELSE {}) :
           Chain!AddAll(LoadedFrom(part))
    BY <1>3
  <2>2. part \in SUBSET Song
    BY <1>1
  <2> QED  BY <1>3, <2>1, <2>2, DialTypes, LoadedGroups, AddingTypes
<1> QED  BY <1>2, <1>3 DEF LoaderAdds

(* Loop takes a step only where it makes a call, and keeps its options.    *)
LEMMA LoopSteps ==
    ASSUME LoopNext
    PROVE  pc \in Calls /\ options' = options
<1>1. CASE Idle \/ Reload \/ ReloadBroken
  BY <1>1 DEF Idle, Reload, ReloadBroken, Calls
<1>2. CASE ~(Idle \/ Reload \/ ReloadBroken)
  <2>1. Undisturbing
    BY <1>2, CallsDoNotDisturb DEF LoopNext
  <2>2. pc \in Calls
    BY <1>2
       DEF LoopNext, FirstStatus, FirstAdd, FirstPlay, EnqueueStatus, EnqueueAdd,
           EnqueuePlay, EnqueuePause, SuspendStatus, SuspendSleep, SuspendRecheck,
           ConnectionLost, Refused, AnswerLost, Calls
  <2> QED  BY <2>1, <2>2 DEF Undisturbing
<1> QED  BY <1>1, <1>2

(* Connecting and loading at the start keep the types.                     *)
LEMMA StartTypes ==
    ASSUME MainInv, StartConnect \/ StartLoad
    PROVE  MainInv'
<1> USE DEF Calls, MainSteps, Finished
<1>1. CASE StartConnect
  <2>1. ServerTypeOK' /\ UNCHANGED localVars
    BY <1>1, DialTypes DEF StartConnect, MainInv, DataInv
  <2>2. Facts!ChainWhole'
    BY <2>1, ChainUnchanged DEF MainInv, DataInv, localVars
  <2>3. interactive' \in BOOLEAN /\ pc' \in {"load", "died"} /\ UNCHANGED <<waited, count, number_of_songs>>
    BY <1>1 DEF StartConnect, MainInv, DataInv
  <2> QED  BY <2>1, <2>2, <2>3 DEF MainInv, DataInv, localVars
<1>2. CASE StartLoad
  <2>1. ServerTypeOK' /\ Facts!ChainWhole'
    <3>1. CASE UNCHANGED serverVars /\ Chain!AddAll(FileItems)
      <4>1. ServerTypeOK'
        BY <3>1 DEF MainInv, DataInv, ServerTypeOK, serverVars
      <4> QED  BY <3>1, <4>1, AddingTypes, LoopAssumption DEF MainInv, DataInv
    <3>2. CASE LoaderAdds
      BY <3>2, LoaderTypes DEF MainInv, DataInv
    <3>3. CASE LoaderDies
      BY <3>3, DialTypes, ChainUnchanged DEF LoaderDies, MainInv, DataInv
    <3> QED  BY <1>2, <3>1, <3>2, <3>3 DEF StartLoad
  <2>2. active' \in BOOLEAN /\ pc' \in {"failure", "queue_pick", "first_status", "idle", "died"}
    BY <1>2 DEF StartLoad, AfterLoad, EnterLoop, LoaderDies, MainInv, DataInv
  <2> QED  BY <1>2, <2>1, <2>2 DEF StartLoad, MainInv, DataInv, mainVars
<1> QED  BY <1>1, <1>2

(* --only keeps the types.                                                 *)
LEMMA QueueTypes ==
    ASSUME MainInv, QueuePick \/ QueueAdd \/ QueueAddFails
    PROVE  MainInv'
<1> USE DEF Calls, MainSteps, Finished
<1>1. link \in {"up", "down"} /\ moves \in MovesType
  BY DEF MainInv, DataInv, ServerTypeOK, MovesType
<1>2. CASE QueuePick
  <2>1. ServerTypeOK' /\ UNCHANGED <<options, st, active, interactive, waited>>
    BY <1>2 DEF QueuePick, MainInv, DataInv, ServerTypeOK, serverVars
  <2>2. CASE count < options.queue_only
    <3>1. /\ PickToAdd("queue_add", 0) /\ count' = count + 1
          /\ number_of_songs' = number_of_songs + Len(todo')
      BY <1>2, <2>2 DEF QueuePick
    <3>2. options.queue_only \in Nat
      BY LoopAssumption DEF MainInv, DataInv
    <3>3. /\ Facts!ChainWhole' /\ todo' \in Seq(Song) /\ needed' \in Int
          /\ \/ pc' = "queue_add" /\ todo' # <<>>
             \/ pc' = "aborted"
      BY <3>1, PickingTypes DEF MainInv, DataInv
    <3>4. number_of_songs' \in Nat
      BY <3>1, <3>3 DEF MainInv, DataInv
    <3> QED  BY <2>1, <2>2, <3>1, <3>2, <3>3, <3>4 DEF MainInv, DataInv
  <2>3. CASE ~(count < options.queue_only)
    <3>1. pc' = "success" /\ UNCHANGED <<items, window, pool, todo, needed, count, number_of_songs>>
      BY <1>2, <2>3 DEF QueuePick
    <3>2. Facts!ChainWhole'
      BY <3>1, ChainUnchanged DEF MainInv, DataInv
    <3> QED  BY <2>1, <3>1, <3>2 DEF MainInv, DataInv
  <2> QED  BY <2>2, <2>3
<1>3. CASE QueueAdd
  <2>1. ServerTypeOK' /\ Facts!ChainWhole'
    BY <1>1, <1>3, AddSongTypes, ChainUnchanged DEF QueueAdd, Answered, MainInv, DataInv
  <2>2. todo' \in Seq(Song)
    BY <1>3, HeadTailProperties DEF QueueAdd, MainInv, DataInv
  <2> QED  BY <1>3, <2>1, <2>2 DEF QueueAdd, MainInv, DataInv, mainVars
<1>4. CASE QueueAddFails
  <2>1. ServerTypeOK'
    <3>1. CASE UNCHANGED serverVars
      BY <3>1 DEF MainInv, DataInv, ServerTypeOK, serverVars
    <3>2. CASE LinkBreaks /\ AddSong
      <4>1. link' \in {"up", "down"} /\ moves' \in MovesType
        BY <3>2, MoveTypes DEF MainInv, DataInv, LinkBreaks
      <4> QED  BY <3>2, <4>1, AddSongTypes DEF MainInv, DataInv
    <3> QED  BY <1>4, <3>1, <3>2 DEF QueueAddFails
  <2>2. Facts!ChainWhole'
    BY <1>4, ChainUnchanged DEF QueueAddFails, MainInv, DataInv, localVars
  <2> QED  BY <1>4, <2>1, <2>2 DEF QueueAddFails, MainInv, DataInv, localVars, mainVars
<1> QED  BY <1>2, <1>3, <1>4

(* Reconnecting keeps the types.                                           *)
LEMMA ReconnectTypes ==
    ASSUME MainInv,
           \/ LoopReturned \/ Reconnected \/ ReconnectFails \/ ReconnectRefused
           \/ GiveUp \/ ReconnectLoad
    PROVE  MainInv'
<1> USE DEF Calls, MainSteps, Finished
<1>1. CASE LoopReturned \/ GiveUp
  <2>1. UNCHANGED serverVars /\ UNCHANGED localVars
    BY <1>1 DEF LoopReturned, GiveUp
  <2>2. ServerTypeOK' /\ Facts!ChainWhole'
    BY <2>1, ChainUnchanged DEF MainInv, DataInv, ServerTypeOK, serverVars, localVars
  <2>3. waited' \in 0 .. ReconnectTimeout
    BY <1>1, MainAssumption DEF LoopReturned, GiveUp, mainVars, MainInv, DataInv
  <2> QED  BY <1>1, <2>1, <2>2, <2>3
           DEF LoopReturned, GiveUp, MainInv, DataInv, localVars, mainVars
<1>2. CASE Reconnected
  <2>1. ServerTypeOK' /\ Facts!ChainWhole'
    BY <1>2, DialTypes, ChainUnchanged DEF Reconnected, MainInv, DataInv
  <2>2. active' \in BOOLEAN /\ pc' \in {"first_status", "idle", "reconnect_load"}
    BY <1>2 DEF Reconnected, EnterLoop, MainInv, DataInv
  <2> QED  BY <1>2, <2>1, <2>2 DEF Reconnected, MainInv, DataInv, mainVars
<1>3. CASE ReconnectFails \/ ReconnectRefused
  <2>1. ServerTypeOK' /\ UNCHANGED localVars
    BY <1>3, DialTypes DEF ReconnectFails, ReconnectRefused, MainInv, DataInv
  <2>2. Facts!ChainWhole'
    BY <2>1, ChainUnchanged DEF MainInv, DataInv, localVars
  <2>3. waited' \in 0 .. ReconnectTimeout /\ UNCHANGED <<interactive, count, number_of_songs>>
    BY <1>3, MainAssumption DEF ReconnectFails, ReconnectRefused, MainInv, DataInv, mainVars
  <2> QED  BY <1>3, <2>1, <2>2, <2>3
           DEF ReconnectFails, ReconnectRefused, MainInv, DataInv, localVars
<1>4. CASE ReconnectLoad
  <2>1. ServerTypeOK' /\ Facts!ChainWhole'
    <3>1. CASE LoaderAdds
      BY <3>1, LoaderTypes DEF MainInv, DataInv
    <3>2. CASE LoaderDies
      BY <3>2, DialTypes, ChainUnchanged DEF LoaderDies, MainInv, DataInv
    <3> QED  BY <1>4, <3>1, <3>2 DEF ReconnectLoad
  <2>2. active' \in BOOLEAN /\ pc' \in {"first_status", "idle", "died"}
    BY <1>4 DEF ReconnectLoad, EnterLoop, LoaderDies, MainInv, DataInv
  <2> QED  BY <1>4, <2>1, <2>2 DEF ReconnectLoad, MainInv, DataInv, mainVars
<1> QED  BY <1>1, <1>2, <1>3, <1>4

(* Every step of the process, and of the world around it, keeps the types. *)
LEMMA MainTypesKept ==
    ASSUME MainInv, [MainNext]_allVars
    PROVE  MainInv'
<1>1. CASE LoopNext /\ UNCHANGED mainVars
  <2>1. TypeInv' /\ options' = options
    BY <1>1, LoopRuns, LoopSteps, TypesKept DEF Next
  <2>2. pc' \in Calls \cup Ended
    BY <2>1 DEF TypeInv
  <2> QED  BY <1>1, <2>1, <2>2
           DEF TypeInv, MainInv, DataInv, mainVars, Calls, Ended, Finished
<1>2. CASE World
  <2>1. ServerTypeOK' /\ Facts!ChainWhole'
    BY <1>2, OthersTypes, ChainUnchanged DEF World, MainInv, DataInv, loopVars
  <2> QED  BY <1>2, <2>1 DEF World, MainInv, DataInv, loopVars, mainVars
<1>3. CASE UNCHANGED allVars
  <2>1. ServerTypeOK' /\ Facts!ChainWhole'
    BY <1>3, ChainUnchanged DEF MainInv, DataInv, ServerTypeOK, allVars
  <2> QED  BY <1>3, <2>1 DEF MainInv, DataInv, allVars
<1> QED  BY <1>1, <1>2, <1>3, StartTypes, QueueTypes, ReconnectTypes DEF MainNext, Process

(* The process starts with its types.                                      *)
LEMMA MainTypesAtFirst ==
    ASSUME MainInit
    PROVE  MainInv
<1>1. ServerTypeOK
  BY ServerTypesAtFirst DEF MainInit
<1>2. Facts!ChainWhole
  <2>1. items \in Seq(Group) /\ 1 .. Len(items) = {}
    BY DEF MainInit
  <2> QED  BY <2>1, Facts!FilledIsWhole, LoopAssumption DEF MainInit
<1>3. options.queue_only \in Nat /\ todo \in Seq(Song)
  BY LoopAssumption, EmptySeq DEF MainInit
<1>4. waited \in 0 .. ReconnectTimeout /\ count \in Nat /\ count <= options.queue_only
  BY <1>3, MainAssumption DEF MainInit
<1>5. active \in BOOLEAN /\ interactive \in BOOLEAN
  BY DEF MainInit
<1>6. st = NoStatus /\ needed \in Int /\ options \in OptionSet /\ number_of_songs \in Nat
  BY DEF MainInit
<1>7. DataInv
  BY <1>1, <1>2, <1>3, <1>4, <1>5, <1>6, StatusTypes DEF DataInv
<1> QED  BY <1>7 DEF MainInit, MainInv, MainSteps

(* The type invariant of the whole process, for chains of any length: that *)
(* the library is loaded on top of the chain after each reconnect, part of *)
(* it at times, never spoils an index; and --only never counts past n.     *)
THEOREM MainTypesHold == MainSpec => []MainTypeOK
<1>1. MainInit => MainInv
  BY MainTypesAtFirst
<1>2. MainInv /\ [MainNext]_allVars => MainInv'
  BY MainTypesKept
<1>3. MainInv => MainTypeOK
  BY MainInvIsEnough
<1> QED  BY <1>1, <1>2, <1>3, PTL DEF MainSpec

-----------------------------------------------------------------------------
(* Wakeups and picks, across connections                                   *)

(* Where the chain has been loaded, and is to be picked from again.        *)
Supplied ==
    Calls \cup {"returned", "queue_pick", "queue_add", "reconnect", "reconnect_load"}

(* Loop's invariant holds whenever Loop runs; and what it starts from, a   *)
(* chain with items and no update of a library that has none, lasts while  *)
(* main has no connection.                                                 *)
MainWakeInv ==
    /\ Moves.library = 0 => "database" \notin pending
    /\ Calm /\ pc \in Supplied => items # <<>>
    /\ Calm => pc # "aborted"
    /\ pc \in Calls => WakeInv

(* Neither a new connection nor an attempt at one brings an event.         *)
LEMMA DialBringsNoEvent ==
    ASSUME Dialed \/ Unreachable, "database" \notin pending
    PROVE  "database" \notin pending'
BY DEF Dialed, Unreachable, Disconnect, Signal, serverVars

(* Loop begins with nothing owed: with play_on_startup it looks at the     *)
(* queue before it first blocks.                                           *)
LEMMA LoopBeginsAwake ==
    ASSUME EnterLoop, options' = options, Calm => items' # <<>>,
           Moves.library = 0 => "database" \notin pending'
    PROVE  MainWakeInv'
<1>1. pc' \in {"first_status", "idle"} /\ (pc' = "idle" => ~options'.play_on_startup)
  BY DEF EnterLoop
<1>2. Calm' => items' # <<>>
  BY DEF Calm
<1>3. WakeInv'
  BY <1>1, <1>2 DEF WakeInv, Feeding
<1> QED  BY <1>1, <1>2, <1>3 DEF MainWakeInv

(* A step of main that ends outside Loop, and keeps the chain.             *)
LEMMA MainKeepsSupplies ==
    ASSUME MainWakeInv, UNCHANGED <<items, options>>, pc' \notin Calls, pc' # "aborted",
           pc' \in Supplied => pc \in Supplied,
           Moves.library = 0 => "database" \notin pending'
    PROVE  MainWakeInv'
BY DEF MainWakeInv, Calm

(* Every step keeps the process awake and its chain supplied.              *)
LEMMA MainWakeKept ==
    ASSUME MainInv, MainWakeInv, [MainNext]_allVars
    PROVE  MainWakeInv'
<1> USE DEF Supplied, Calls
<1>1. CASE LoopNext /\ UNCHANGED mainVars
  <2>1. TypeInv /\ TypeInv' /\ pc \in Calls
    BY <1>1, LoopRuns, LoopSteps, TypesKept DEF Next
  <2>2. WakeInv'
    BY <1>1, <2>1, WakeKept DEF MainWakeInv, Next
  <2>3. pc' \in Calls \cup Ended
    BY <2>1 DEF TypeInv
  <2> QED  BY <2>2, <2>3 DEF WakeInv, MainWakeInv, Ended
<1>2. CASE World
  <2>1. UNCHANGED loopVars /\ Others
    BY <1>2 DEF World
  <2>2. Moves.library = 0 => "database" \notin pending'
    BY <2>1, OthersReportUpdates, NoUpdates DEF MainWakeInv, MainInv, DataInv
  <2>3. CASE pc \in Calls
    <3>1. Environment
      BY <1>2, <2>1, <2>3 DEF Environment, Ended
    <3>2. WakeInv'
      BY <2>3, <3>1, LoopRuns, WakeKept DEF MainWakeInv, Next
    <3> QED  BY <2>1, <2>2, <3>2 DEF MainWakeInv, loopVars, Calm
  <2>4. CASE pc \notin Calls
    <3>1. pc' = pc /\ UNCHANGED <<items, options>>
      BY <2>1 DEF loopVars
    <3> QED  BY <2>2, <2>4, <3>1 DEF MainWakeInv, Calm
  <2> QED  BY <2>3, <2>4
<1>3. CASE UNCHANGED allVars
  <2>1. UNCHANGED <<mode, queue, pos, player, link, pending, items, options, pc, active>>
    BY <1>3 DEF allVars
  <2>2. Fed' = Fed /\ Feeding' = Feeding /\ Reported' = Reported /\ Calm' = Calm
    BY <2>1 DEF Fed, Ahead, SongsRemaining, Status, PastLast, Feeding, Reported, Calm
  <2> QED  BY <2>1, <2>2 DEF MainWakeInv, WakeInv
<1>4. CASE StartConnect \/ ReconnectFails \/ ReconnectRefused
  <2>1. /\ Moves.library = 0 => "database" \notin pending'
        /\ UNCHANGED localVars
    BY <1>4, DialBringsNoEvent
       DEF StartConnect, ReconnectFails, ReconnectRefused, MainWakeInv
  <2>2. pc' \in {"load", "died"} \/ (pc = "reconnect" /\ pc' = "reconnect")
    BY <1>4 DEF StartConnect, ReconnectFails, ReconnectRefused
  <2> QED  BY <2>1, <2>2, MainKeepsSupplies DEF localVars
<1>5. CASE LoopReturned \/ GiveUp \/ QueueAddFails \/ QueueAdd
  <2>1. UNCHANGED <<items, options>> /\ pc \in Supplied
        /\ pc' \in {"reconnect", "failure", "died", "queue_pick", "queue_add"}
    BY <1>5 DEF LoopReturned, GiveUp, QueueAddFails, QueueAdd, localVars
  <2>2. Moves.library = 0 => "database" \notin pending'
    BY <1>5 DEF LoopReturned, GiveUp, QueueAddFails, QueueAdd, AddSong, Enqueue, Signal,
                serverVars, MainWakeInv
  <2> QED  BY <2>1, <2>2, MainKeepsSupplies
<1>6. CASE QueuePick
  <2>1. UNCHANGED serverVars /\ UNCHANGED options /\ pc = "queue_pick"
    BY <1>6 DEF QueuePick
  <2>2. items' = items /\ (Calm => pc' \in {"queue_add", "success"})
        /\ pc' \in {"queue_add", "success", "aborted"}
    BY <1>6, <2>1, PickingTypes DEF QueuePick, MainWakeInv, MainInv, DataInv
  <2> QED  BY <2>1, <2>2 DEF MainWakeInv, Calm, serverVars
<1>7. CASE StartLoad
  <2>1. options' = options
    BY <1>7 DEF StartLoad
  <2>2. Moves.library = 0 => "database" \notin pending'
    BY <1>7, DialBringsNoEvent DEF StartLoad, LoaderAdds, LoaderDies, serverVars, MainWakeInv
  <2>3. CASE pc' = "died" \/ pc' = "failure"
    BY <2>2, <2>3 DEF MainWakeInv
  <2>4. CASE items' # <<>> /\ pc' = "queue_pick"
    BY <2>2, <2>4 DEF MainWakeInv
  <2>5. CASE items' # <<>> /\ EnterLoop
    BY <2>1, <2>2, <2>5, LoopBeginsAwake
  <2> QED  BY <1>7, <2>3, <2>4, <2>5 DEF StartLoad, AfterLoad, LoaderDies
<1>8. CASE Reconnected
  <2>1. /\ UNCHANGED <<items, options>> /\ pc = "reconnect"
        /\ Moves.library = 0 => "database" \notin pending'
    BY <1>8, DialBringsNoEvent DEF Reconnected, MainWakeInv
  <2>2. CASE pc' = "reconnect_load"
    BY <2>1, <2>2, MainKeepsSupplies
  <2>3. CASE EnterLoop
    BY <2>1, <2>3, LoopBeginsAwake DEF MainWakeInv
  <2> QED  BY <1>8, <2>2, <2>3 DEF Reconnected
<1>9. CASE ReconnectLoad
  <2>1. options' = options /\ pc = "reconnect_load"
    BY <1>9 DEF ReconnectLoad
  <2>2. Moves.library = 0 => "database" \notin pending'
    BY <1>9, DialBringsNoEvent DEF ReconnectLoad, LoaderAdds, LoaderDies, serverVars, MainWakeInv
  <2>3. CASE LoaderDies
    BY <2>2, <2>3 DEF LoaderDies, MainWakeInv
  <2>4. CASE LoaderAdds /\ EnterLoop
    <3>1. items # <<>> => items' # <<>>
      BY <2>4, LoaderTypes DEF MainInv, DataInv
    <3> QED  BY <2>1, <2>2, <2>4, <3>1, LoopBeginsAwake DEF MainWakeInv
  <2> QED  BY <1>9, <2>3, <2>4 DEF ReconnectLoad
<1> QED  BY <1>1, <1>2, <1>3, <1>4, <1>5, <1>6, <1>7, <1>8, <1>9 DEF MainNext, Process

(* Before anything is connected nothing is owed.                           *)
LEMMA MainWakeAtFirst ==
    ASSUME MainInit
    PROVE  MainWakeInv
BY DEF MainInit, ServerInit, MainWakeInv, Supplied, Calls

(* With a list of songs from a file, whatever happens to the library and   *)
(* to the connection, the process loses no wakeup and never picks from an  *)
(* empty chain.                                                            *)
THEOREM FileStaysUndisturbedByLosses == MainSpec => []FileIsUndisturbed
<1>1. MainInit => MainInv /\ MainWakeInv
  BY MainTypesAtFirst, MainWakeAtFirst
<1>2. MainInv /\ MainWakeInv /\ [MainNext]_allVars => MainInv' /\ MainWakeInv'
  BY MainTypesKept, MainWakeKept
<1>3. MainWakeInv => FileIsUndisturbed
  <2>1. MainWakeInv /\ Calm /\ pc \in Calls => BlocksOnlyWhenFed /\ NeverPicksFromEmpty
    BY WakeIsEnough DEF MainWakeInv
  <2>2. MainWakeInv /\ Calm /\ pc \notin Calls => BlocksOnlyWhenFed /\ NeverPicksFromEmpty
    BY DEF MainWakeInv, BlocksOnlyWhenFed, NeverPicksFromEmpty, Calls
  <2> QED  BY <2>1, <2>2 DEF FileIsUndisturbed, Calm
<1> QED  BY <1>1, <1>2, <1>3, PTL DEF MainSpec

(* With a library that stays as it is, every run of Loop, the first and    *)
(* those after a reconnect, blocks only when the queue has what the buffer *)
(* asks for: what happened while there was no connection is noticed.       *)
THEOREM BlocksWhenFedAfterLosses ==
    ASSUME Moves.library = 0
    PROVE  MainSpec => []BlocksOnlyWhenFed
<1>1. MainInit => MainInv /\ MainWakeInv
  BY MainTypesAtFirst, MainWakeAtFirst
<1>2. MainInv /\ MainWakeInv /\ [MainNext]_allVars => MainInv' /\ MainWakeInv'
  BY MainTypesKept, MainWakeKept
<1>3. MainWakeInv => BlocksOnlyWhenFed
  <2>1. MainWakeInv /\ pc \in Calls => BlocksOnlyWhenFed
    BY WakeIsEnough DEF MainWakeInv, Calm
  <2>2. pc \notin Calls => BlocksOnlyWhenFed
    BY DEF BlocksOnlyWhenFed, Calls
  <2> QED  BY <2>1, <2>2
<1> QED  BY <1>1, <1>2, <1>3, PTL DEF MainSpec
-----------------------------------------------------------------------------
(* A silent loop, across connections                                       *)

(* Whenever Loop runs; each run starts out active.                         *)
MainSilenceInv == pc \in Calls => SilenceInv

(* Main itself gets to Loop only by entering it.                           *)
LEMMA MainEntersLoop ==
    ASSUME \/ StartConnect \/ StartLoad \/ QueuePick \/ QueueAdd \/ QueueAddFails
           \/ LoopReturned \/ Reconnected \/ ReconnectFails \/ ReconnectRefused
           \/ GiveUp \/ ReconnectLoad
    PROVE  pc' \notin Calls \/ EnterLoop
BY DEF StartConnect, StartLoad, AfterLoad, LoaderDies, QueuePick,
       PickToAdd, QueueAdd, QueueAddFails, LoopReturned, Reconnected, ReconnectFails,
       ReconnectRefused, GiveUp, ReconnectLoad, Calls

(* Every step keeps it.                                                    *)
LEMMA MainSilenceKept ==
    ASSUME MainInv, MainSilenceInv, [MainNext]_allVars
    PROVE  MainSilenceInv'
<1>1. CASE LoopNext /\ UNCHANGED mainVars
  BY <1>1, LoopSteps, SilenceKept DEF MainSilenceInv, Next
<1>2. CASE World \/ UNCHANGED allVars
  BY <1>2 DEF World, loopVars, allVars, MainSilenceInv, SilenceInv
<1>3. CASE \/ StartConnect \/ StartLoad \/ QueuePick \/ QueueAdd \/ QueueAddFails
           \/ LoopReturned \/ Reconnected \/ ReconnectFails \/ ReconnectRefused
           \/ GiveUp \/ ReconnectLoad
  <2>1. pc' \notin Calls \/ EnterLoop
    BY <1>3, MainEntersLoop
  <2>2. CASE EnterLoop
    BY <2>2 DEF EnterLoop, MainSilenceInv, SilenceInv, Suspending
  <2> QED  BY <2>1, <2>2 DEF MainSilenceInv
<1> QED  BY <1>1, <1>2, <1>3 DEF MainNext, Process

(* A suspended loop keeps its hands off in each of its runs: what happened *)
(* on an earlier connection makes it no less careful.                      *)
THEOREM SuspendedKeepsOffAfterLosses == MainSpec => SuspendedStaysSilent
<1>1. MainInit => MainInv /\ MainSilenceInv
  BY MainTypesAtFirst DEF MainInit, MainSilenceInv, Calls
<1>2. MainInv /\ MainSilenceInv /\ [MainNext]_allVars => MainInv' /\ MainSilenceInv'
  BY MainTypesKept, MainSilenceKept
<1>3. MainSilenceInv /\ [MainNext]_allVars
        => [LoopNext /\ ~active => UNCHANGED <<queue, pos, player>>]_vars
  BY LoopSteps, SilenceIsEnough DEF MainSilenceInv
<1> QED  BY <1>1, <1>2, <1>3, PTL DEF MainSpec, SuspendedStaysSilent

-----------------------------------------------------------------------------
(* No surplus, whatever connections break                                  *)

(* Alone, nobody has made a move yet.                                      *)
LEMMA AloneFromTheStart ==
    ASSUME MainInv, [MainNext]_allVars
    PROVE  /\ moves'.user = Moves.user => moves.user = Moves.user /\ ~UserMove
           /\ moves'.library = Moves.library => moves.library = Moves.library /\ ~LibraryChanges
<1>1. /\ moves \in [user : 0 .. Moves.user, library : 0 .. Moves.library, link : 0 .. Moves.link]
      /\ Moves.user \in Nat /\ Moves.library \in Nat
  BY ServerAssumption DEF MainInv, DataInv, ServerTypeOK
<1>2. UserMove => moves'.user # Moves.user
  BY <1>1 DEF UserMove
<1>3. LibraryChanges => moves'.library # Moves.library
  BY <1>1 DEF LibraryChanges
<1>4. LinkBreaks \/ UNCHANGED moves
        => moves'.user = moves.user /\ moves'.library = moves.library
  BY <1>1 DEF LinkBreaks
<1>5. CASE World
  <2>1. \/ UserMove \/ LibraryChanges \/ LinkBreaks \/ UNCHANGED moves
    BY <1>5 DEF World, Others, SongEnds, UserAdds, UserClears, UserPlays, UserPauses,
                UserStops, Disconnect
  <2>2. UserMove => moves'.library = moves.library
    BY <1>1 DEF UserMove
  <2>3. LibraryChanges => moves'.user = moves.user
    BY <1>1 DEF LibraryChanges
  <2> QED  BY <1>2, <1>3, <1>4, <2>1, <2>2, <2>3
<1>6. CASE ~World
  <2>1. LinkBreaks \/ UNCHANGED moves
    <3>1. CASE LoopNext
      BY <3>1
         DEF LoopNext, FirstStatus, FirstAdd, FirstPlay, EnqueueStatus, EnqueueAdd,
             EnqueuePlay, EnqueuePause, Idle, Reload, ReloadBroken, Disconnect,
             SuspendStatus, SuspendSleep, SuspendRecheck, ConnectionLost, Refused,
             AnswerLost, ReadStatus, Answered, serverVars
    <3>2. CASE ~LoopNext
      BY <1>6, <3>2
         DEF MainNext, Process, StartConnect, StartLoad, LoaderAdds, LoaderDies, QueuePick,
             QueueAdd, QueueAddFails, LoopReturned, Reconnected, ReconnectFails,
             ReconnectRefused, GiveUp, ReconnectLoad, Dialed, Unreachable, Disconnect,
             Answered, serverVars, allVars
    <3> QED  BY <3>1, <3>2
  <2> QED  BY <1>2, <1>3, <1>4, <2>1
<1> QED  BY <1>5, <1>6

(* As long as no update was made, none is reported.                        *)
NewsInv == moves.library = Moves.library => "database" \notin pending

(* Nothing else in the life of the process reports one.                    *)
LEMMA NewsKept ==
    ASSUME MainInv, NewsInv, [MainNext]_allVars
    PROVE  NewsInv'
<1> SUFFICES ASSUME moves'.library = Moves.library  PROVE  "database" \notin pending'
  BY DEF NewsInv
<1>1. ~LibraryChanges /\ "database" \notin pending
  BY AloneFromTheStart DEF NewsInv
<1>2. CASE World
  BY <1>1, <1>2, OthersReportUpdates DEF World
<1>3. CASE LoopNext
  BY <1>1, <1>3, OnlyUpdatesAreReported DEF Next
<1>4. CASE ~World /\ ~LoopNext
  <2>1. Dialed \/ Unreachable \/ UNCHANGED pending => "database" \notin pending'
    BY <1>1, DialBringsNoEvent
  <2>2. AddSong => "database" \notin pending'
    BY <1>1 DEF AddSong, Enqueue, Signal
  <2> QED  BY <1>4, <2>1, <2>2
           DEF MainNext, Process, StartConnect, StartLoad, LoaderAdds, LoaderDies, QueuePick,
               QueueAdd, QueueAddFails, LoopReturned, Reconnected, ReconnectFails,
               ReconnectRefused, GiveUp, ReconnectLoad, serverVars, allVars
<1> QED  BY <1>2, <1>3, <1>4

(* Where Loop is not running, but will, perhaps again; and TryFirst.       *)
Away == {"connect", "load", "returned", "reconnect", "reconnect_load"}
First == {"first_status", "first_add", "first_play"}

(* Songs of a group that TryFirst could not finish may have been left in   *)
(* the queue, more than were asked for; but then nothing plays, and the    *)
(* next TryFirst starts behind them.  TryEnqueue leaves no surplus.        *)
SurplusInv ==
    /\ pc # "reload"
    /\ pc \in Calls => OwnInv
    /\ pc \in First => options.play_on_startup
    /\ pc \in Away \cup {"first_status"} =>
           (player = "play" \/ ~options.play_on_startup => NeverOverfills)
    /\ pc = "first_add" => \E size \in GroupSizes : Added + Len(todo) <= size
    /\ pc = "first_play" => \E size \in GroupSizes : Added <= size
    /\ pc \in Calls \ First => FillInv

(* While the process is alone at the queue.                                *)
MainSurplusInv == NewsInv /\ (Alone => SurplusInv)

(* TryFirst reads the status.                                              *)
LEMMA FirstStatusKeepsSurplus ==
    ASSUME TypeInv, SurplusInv, FirstStatus, OwnInv'
    PROVE  SurplusInv'
<1>1. UNCHANGED <<queue, pos, player, options>> /\ items' = items /\ pc = "first_status"
  BY PickToAddKeeps DEF FirstStatus, ReadStatus, serverVars
<1>2. options.play_on_startup /\ (player = "play" => NeverOverfills)
  BY <1>1 DEF SurplusInv, First
<1>3. CASE Status.playing
  <2>1. pc' = "enq_status" /\ player = "play"
    BY <1>3, Zenon DEF FirstStatus, Status
  <2>2. FillInv'
    BY <1>1, <1>2, <2>1, QueueKeepsBound DEF FillInv
  <2> QED  BY <2>1, <2>2 DEF SurplusInv, First, Away
<1>4. CASE ~Status.playing
  <2>1. PickToAdd("first_add", 0) /\ st' = Status
    BY <1>4 DEF FirstStatus
  <2>2. CASE pc' = "aborted"
    BY <2>2 DEF SurplusInv, First, Away, Calls
  <2>3. CASE pc' = "first_add"
    <3>1. Len(todo') \in GroupSizes /\ GroupSizes' = GroupSizes
      BY <1>1, <2>1, <2>3, PickedSize, SameBound
    <3>2. Added' = 0 /\ Len(todo') \in Nat
      BY <1>1, <2>1, <3>1, Numbers DEF Added, Status
    <3>3. Added' + Len(todo') <= Len(todo')
      BY <3>2
    <3> QED  BY <1>1, <1>2, <2>3, <3>1, <3>3 DEF SurplusInv, First, Away
  <2> QED  BY <2>1, <2>2, <2>3, PickToAddKeeps
<1> QED  BY <1>3, <1>4

(* TryFirst adds what it has picked, and starts behind what was there.     *)
LEMMA FirstKeepsSurplus ==
    ASSUME TypeInv, SurplusInv, FirstAdd \/ FirstPlay, OwnInv'
    PROVE  SurplusInv'
<1>1. CASE FirstAdd
  <2>1. /\ UNCHANGED <<items, options, st>> /\ AddSong /\ todo' = Tail(todo)
        /\ pc = "first_add" /\ pc' \in {"first_add", "first_play"}
        /\ pc' = "first_play" => todo' = <<>>
    BY <1>1 DEF FirstAdd
  <2>2. PICK size \in GroupSizes : Added + Len(todo) <= size
    BY <2>1 DEF SurplusInv
  <2>3. GroupSizes' = GroupSizes /\ options.play_on_startup
    BY <2>1, SameBound DEF SurplusInv, First
  <2>4. Added' + Len(todo') <= size /\ Added' <= size
    <3>1. Added' = Added + 1 /\ Added \in Int
      BY <2>1, AddedMore
    <3>2. Len(todo) \in Nat /\ Len(todo) >= 1 /\ Len(todo') = Len(todo) - 1 /\ size \in Nat
      BY <2>1, SongsLeft, Numbers
    <3> QED  BY <2>2, <3>1, <3>2
  <2> QED  BY <2>1, <2>3, <2>4 DEF SurplusInv, First, Away
<1>2. CASE FirstPlay
  <2>1. /\ UNCHANGED <<items, options>> /\ PlayPosition(st.len)
        /\ pc = "first_play" /\ pc' = "enq_status"
    BY <1>2 DEF FirstPlay
  <2>2. PICK size \in GroupSizes : Added <= size
    BY <2>1 DEF SurplusInv
  <2>3. Added <= Asked + size
    BY <2>2, Numbers DEF Added
  <2>4. FillInv'
    BY <2>1, <2>3, PlayStaysWithin DEF FillInv
  <2> QED  BY <2>1, <2>4 DEF SurplusInv, First, Away
<1> QED  BY <1>1, <1>2

(* TryFirst fails, wherever it is.                                         *)
LEMMA FirstFailsKeepsSurplus ==
    ASSUME TypeInv, SurplusInv, pc \in First, ConnectionLost \/ Refused \/ AnswerLost
    PROVE  SurplusInv'
<1>1. ReturnError
  BY DEF ConnectionLost, Refused, AnswerLost
<1>2. UNCHANGED <<items, options>> /\ pc' = "returned" /\ options.play_on_startup
  BY <1>1 DEF ReturnError, SurplusInv
<1>3. ASSUME player' = "play"  PROVE  NeverOverfills'
  <2>1. CASE UNCHANGED serverVars
    <3>1. pc = "first_status"
      BY <1>3, <2>1 DEF SurplusInv, First, Calls, OwnInv, Untouched, serverVars
    <3>2. NeverOverfills
      BY <1>3, <2>1, <3>1 DEF SurplusInv, serverVars
    <3> QED  BY <1>2, <2>1, <3>2, QueueKeepsBound DEF serverVars
  <2>2. CASE pc = "first_add" /\ AddSong
    <3>1. player' = player /\ player # "play"
      BY <2>2 DEF AddSong, Enqueue, SurplusInv, Calls, OwnInv, Untouched
    <3> QED  BY <1>3, <3>1
  <2>3. CASE pc = "first_play" /\ PlayPosition(st.len)
    <3>1. PICK size \in GroupSizes : Added <= size
      BY <2>3 DEF SurplusInv
    <3>2. Added <= Asked + size
      BY <3>1, Numbers DEF Added
    <3> QED  BY <1>2, <2>3, <3>2, PlayStaysWithin
  <2> QED  BY <2>1, <2>2, <2>3 DEF ConnectionLost, Refused, AnswerLost, First
<1> QED  BY <1>2, <1>3 DEF SurplusInv, First, Away, Calls

(* Loop without a user, and without an update to react to.                 *)
LEMMA LoopKeepsSurplus ==
    ASSUME TypeInv, SurplusInv, ~UserMove, LoopNext,
           options.from_file \/ "database" \notin pending
    PROVE  SurplusInv'
<1>1. pc \in Calls /\ options' = options /\ OwnInv /\ pc # "reload"
  BY LoopSteps DEF SurplusInv
<1>2. OwnInv'
  BY <1>1, OwnKept DEF Next
<1>3. CASE pc \in First
  <2>1. \/ FirstStatus \/ FirstAdd \/ FirstPlay \/ ConnectionLost \/ Refused \/ AnswerLost
    BY <1>3 DEF First, LoopNext, EnqueueStatus, EnqueueAdd, EnqueuePlay, EnqueuePause, Idle,
                Reload, ReloadBroken, SuspendStatus, SuspendSleep, SuspendRecheck
  <2> QED  BY <1>2, <1>3, <2>1, FirstStatusKeepsSurplus, FirstKeepsSurplus,
              FirstFailsKeepsSurplus
<1>4. CASE pc \notin First
  <2>1. FillInv'
    BY <1>1, <1>4, FillKept DEF Next, SurplusInv
  <2>2. pc' \notin First \cup {"reload"}
    BY <1>1, <1>4, PickToAddKeeps
       DEF First, LoopNext, FirstStatus, FirstAdd, FirstPlay, EnqueueStatus, EnqueueAdd,
           EnqueuePlay, EnqueuePause, EnqueueDone, Idle, Reaction, Reload, ReloadBroken,
           SuspendStatus, SuspendSleep, SuspendRecheck, ConnectionLost, Refused, AnswerLost,
           ReturnError
  <2>3. NeverOverfills'
    BY <2>1 DEF FillInv
  <2> QED  BY <1>2, <2>1, <2>2, <2>3 DEF SurplusInv, First
<1> QED  BY <1>3, <1>4

(* Songs end, updates are made and connections break.                      *)
LEMMA WorldKeepsSurplus ==
    ASSUME MainInv, SurplusInv, ~UserMove, World
    PROVE  SurplusInv'
<1>1. Others /\ UNCHANGED loopVars /\ ServerTypeOK
  BY DEF World, MainInv, DataInv
<1>2. /\ Ahead \in Nat /\ Ahead' \in Nat /\ Ahead' <= Ahead
      /\ player' = "play" => player = "play"
      /\ player # "play" => UNCHANGED <<queue, pos, player>>
  BY <1>1, OthersTakeAway
<1>3. UNCHANGED <<pc, items, options, st, todo>> /\ GroupSizes' = GroupSizes
  BY <1>1, SameBound DEF loopVars
<1>4. NeverOverfills => NeverOverfills'
  BY <1>2, <1>3, LessAheadKeepsBound, LoopAssumption DEF MainInv, DataInv, Facts!ChainWhole
<1>5. ASSUME pc \in {"first_add", "first_play"}  PROVE  Added' = Added
  <2>1. player # "play"
    BY <1>5 DEF SurplusInv, OwnInv, Untouched, Calls
  <2> QED  BY <1>2, <1>3, <2>1 DEF Added
<1>6. ASSUME pc \in Calls  PROVE  OwnInv' /\ (pc \notin First => FillInv')
  <2>1. Environment /\ TypeInv /\ OwnInv /\ pc # "reload"
    BY <1>1, <1>6, LoopRuns DEF Environment, Ended, Calls, SurplusInv
  <2>2. OwnInv'
    BY <2>1, OwnKept DEF Next
  <2>3. pc \notin First => FillInv'
    BY <1>6, <2>1, FillKept DEF Next, SurplusInv
  <2> QED  BY <2>2, <2>3
<1>7. /\ pc' # "reload" /\ (pc' \in Calls => OwnInv') /\ (pc' \in Calls \ First => FillInv')
      /\ pc' \in First => options'.play_on_startup
  BY <1>3, <1>6 DEF SurplusInv
<1>8. pc' \in Away \cup {"first_status"} =>
          (player' = "play" \/ ~options'.play_on_startup => NeverOverfills')
  BY <1>2, <1>3, <1>4 DEF SurplusInv
<1>9. /\ pc' = "first_add" => \E size \in GroupSizes' : Added' + Len(todo') <= size
      /\ pc' = "first_play" => \E size \in GroupSizes' : Added' <= size
  BY <1>3, <1>5 DEF SurplusInv
<1> QED  BY <1>7, <1>8, <1>9 DEF SurplusInv

(* What is loaded makes groups, and the bound, only larger.                *)
LEMMA LoadingKeepsBound ==
    ASSUME items \in Seq(Group), NEW groups \in Seq(Group), Chain!AddAll(groups),
           UNCHANGED <<options, queue, pos>>, NeverOverfills
    PROVE  NeverOverfills'
<1>1. items' = items \o groups
  BY DEF Chain!AddAll
<1>2. GroupSizes \subseteq GroupSizes'
  <2>1. /\ Len(items') \in Nat /\ Len(items') >= Len(items) /\ Len(items) \in Nat
        /\ \A i \in 1 .. Len(items) : items'[i] = items[i]
    BY <1>1, ConcatProperties
  <2> QED  BY <2>1 DEF GroupSizes
<1>3. Ahead' = Ahead
  BY AheadIs
<1> QED  BY <1>2, <1>3 DEF NeverOverfills

(* So does a loader, whatever part of the library it has got.              *)
LEMMA LoaderKeepsBound ==
    ASSUME MainInv, LoaderAdds, options' = options
    PROVE  UNCHANGED <<queue, pos, player>> /\ (NeverOverfills => NeverOverfills')
<1>1. UNCHANGED <<queue, pos, player>>
  BY DEF LoaderAdds, Unreachable, Disconnect, serverVars
<1>2. PICK songs \in SUBSET Song : Chain!AddAll(LoadedFrom(songs))
  <2>1. library \in SUBSET Song
    BY ServerAssumption DEF MainInv, DataInv, ServerTypeOK
  <2> QED  BY <2>1 DEF LoaderAdds
<1>3. LoadedFrom(songs) \in Seq(Group) /\ items \in Seq(Group)
  BY LoadedGroups DEF MainInv, DataInv, Facts!ChainWhole
<1> QED  BY <1>1, <1>2, <1>3, LoadingKeepsBound

(* Loop starts, for the first time or again, with no more than it left.    *)
LEMMA EnteringKeepsSurplus ==
    ASSUME EnterLoop, options' = options,
           player' = "play" \/ ~options.play_on_startup => NeverOverfills'
    PROVE  SurplusInv'
<1>1. CASE options.play_on_startup
  BY <1>1 DEF EnterLoop, SurplusInv, OwnInv, First, Away
<1>2. CASE ~options.play_on_startup
  <2>1. pc' = "idle" /\ NeverOverfills'
    BY <1>2 DEF EnterLoop
  <2>2. FillInv' /\ OwnInv'
    BY <2>1 DEF FillInv, OwnInv
  <2> QED  BY <2>1, <2>2 DEF SurplusInv, First, Away
<1> QED  BY <1>1, <1>2

(* A step of main that leaves the queue alone and does not start Loop.     *)
LEMMA AwayKeepsSurplus ==
    ASSUME SurplusInv, UNCHANGED <<items, options, queue, pos, player>>,
           pc' \notin Calls, pc' \in Away => pc \in Away
    PROVE  SurplusInv'
<1>1. NeverOverfills => NeverOverfills'
  BY QueueKeepsBound
<1>2. pc' \notin First /\ pc' # "reload" /\ pc' # "first_status"
  BY DEF First, Calls
<1> QED  BY <1>1, <1>2 DEF SurplusInv, First

(* Connecting, loading and reconnecting add nothing to the queue.          *)
LEMMA MainKeepsSurplus ==
    ASSUME MainInv, SurplusInv,
           \/ StartConnect \/ StartLoad \/ LoopReturned \/ Reconnected \/ ReconnectFails
           \/ ReconnectRefused \/ GiveUp \/ ReconnectLoad
    PROVE  SurplusInv'
<1> USE DEF Away
<1>1. CASE \/ StartConnect \/ LoopReturned \/ ReconnectFails \/ ReconnectRefused \/ GiveUp
  <2>1. UNCHANGED <<items, options, queue, pos, player>> /\ pc \in Away
    BY <1>1 DEF StartConnect, LoopReturned, ReconnectFails, ReconnectRefused, GiveUp, Dialed,
                Unreachable, Disconnect, localVars, serverVars
  <2>2. pc' \in {"load", "died", "failure", "reconnect"}
    BY <1>1 DEF StartConnect, LoopReturned, ReconnectFails, ReconnectRefused, GiveUp
  <2> QED  BY <2>1, <2>2, AwayKeepsSurplus DEF Calls
<1>2. CASE Reconnected
  <2>1. UNCHANGED <<items, options, queue, pos, player>> /\ pc = "reconnect"
    BY <1>2 DEF Reconnected, Dialed
  <2>2. CASE pc' = "reconnect_load"
    BY <2>1, <2>2, AwayKeepsSurplus DEF Calls
  <2>3. CASE EnterLoop
    <3>1. player' = "play" \/ ~options.play_on_startup => NeverOverfills'
      BY <2>1, QueueKeepsBound DEF SurplusInv
    <3> QED  BY <2>1, <2>3, <3>1, EnteringKeepsSurplus
  <2> QED  BY <1>2, <2>2, <2>3 DEF Reconnected
<1>3. CASE StartLoad \/ ReconnectLoad
  <2>1. options' = options /\ pc \in Away
    BY <1>3 DEF StartLoad, ReconnectLoad
  <2>2. CASE pc' \in {"died", "failure", "queue_pick"}
    BY <2>2 DEF SurplusInv, Calls, First
  <2>3. CASE EnterLoop /\ (LoaderAdds \/ (UNCHANGED serverVars /\ Chain!AddAll(FileItems)))
    <3>1. UNCHANGED <<queue, pos, player>> /\ (NeverOverfills => NeverOverfills')
      <4>1. CASE LoaderAdds
        BY <2>1, <4>1, LoaderKeepsBound
      <4>2. CASE UNCHANGED serverVars /\ Chain!AddAll(FileItems)
        <5>1. items \in Seq(Group) /\ FileItems \in Seq(Group)
          BY LoopAssumption DEF MainInv, DataInv, Facts!ChainWhole
        <5> QED  BY <2>1, <4>2, <5>1, LoadingKeepsBound DEF serverVars
      <4> QED  BY <2>3, <4>1, <4>2
    <3>2. player' = "play" \/ ~options.play_on_startup => NeverOverfills'
      BY <2>1, <3>1 DEF SurplusInv
    <3> QED  BY <2>1, <2>3, <3>2, EnteringKeepsSurplus
  <2> QED  BY <1>3, <2>2, <2>3 DEF StartLoad, ReconnectLoad, AfterLoad, LoaderDies
<1> QED  BY <1>1, <1>2, <1>3

(* Every step of the process and its world, as long as it is alone.        *)
LEMMA SurplusKept ==
    ASSUME MainInv, MainSurplusInv, [MainNext]_allVars
    PROVE  MainSurplusInv'
<1>1. NewsInv'
  BY NewsKept DEF MainSurplusInv
<1> SUFFICES ASSUME Alone'  PROVE  SurplusInv'
  BY <1>1 DEF MainSurplusInv
<1>2. options' = options
  BY LoopSteps
     DEF MainNext, Process, World, StartConnect, StartLoad, QueuePick, QueueAdd,
         QueueAddFails, LoopReturned, Reconnected, ReconnectFails, ReconnectRefused,
         GiveUp, ReconnectLoad, loopVars, localVars, allVars
<1>3. Alone /\ ~UserMove
  BY <1>2, AloneFromTheStart DEF Alone
<1>4. SurplusInv /\ (options.from_file \/ "database" \notin pending)
  BY <1>3 DEF MainSurplusInv, NewsInv, Alone
<1>5. CASE LoopNext
  BY <1>3, <1>4, <1>5, LoopRuns, LoopSteps, LoopKeepsSurplus
<1>6. CASE World
  BY <1>3, <1>4, <1>6, WorldKeepsSurplus
<1>7. CASE QueuePick \/ QueueAdd \/ QueueAddFails
  <2>1. pc' \in {"queue_pick", "queue_add", "success", "died", "aborted"}
    BY <1>7 DEF QueuePick, PickToAdd, QueueAdd, QueueAddFails
  <2> QED  BY <2>1 DEF SurplusInv, Calls, First, Away
<1>8. CASE UNCHANGED allVars
  <2>1. UNCHANGED <<items, options, queue, pos, player, st, todo, needed, pc>>
    BY <1>8 DEF allVars
  <2>2. /\ Ahead' = Ahead /\ GroupSizes' = GroupSizes /\ Asked' = Asked /\ Added' = Added
        /\ (NeverOverfills => NeverOverfills')
    BY <2>1, SameBound, AheadIs, QueueKeepsBound DEF Added
  <2>3. (OwnInv => OwnInv') /\ (FillInv => FillInv')
    BY <2>1, <2>2 DEF OwnInv, Untouched, FillInv, PastLast, QueueEmpty
  <2> QED  BY <1>4, <2>1, <2>2, <2>3 DEF SurplusInv
<1> QED  BY <1>4, <1>5, <1>6, <1>7, <1>8, MainKeepsSurplus DEF MainNext, Process

(* Whatever connections break, whichever answers get lost and however      *)
(* often TryFirst is tried again: a Loop that comes to rest has left no    *)
(* more songs ahead of the player than were asked for, as long as no other *)
(* client has touched the queue and no update the chain.                   *)
THEOREM NoSurplus == MainSpec => []NoSurplusAfterRetry
<1>1. MainInit => MainInv /\ MainSurplusInv
  <2> SUFFICES ASSUME MainInit  PROVE  MainInv /\ MainSurplusInv
    OBVIOUS
  <2>1. MainInv /\ ServerInit /\ pc = "connect" /\ pending = {}
    BY MainTypesAtFirst DEF MainInit, ServerInit
  <2>2. Ahead = 0
    BY <2>1, NothingAheadAtFirst DEF MainInv, DataInv
  <2>3. Asked \in Nat /\ Asked >= 1 /\ 1 \in GroupSizes
    BY <2>1, AskedIs, SizesAre, LoopAssumption DEF MainInv, DataInv, Facts!ChainWhole
  <2>4. Ahead <= Asked + 1 - 1
    BY <2>2, <2>3
  <2>5. NeverOverfills
    BY <2>3, <2>4 DEF NeverOverfills, Asked
  <2> QED  BY <2>1, <2>5 DEF MainSurplusInv, NewsInv, SurplusInv, Calls, First
<1>2. MainInv /\ MainSurplusInv /\ [MainNext]_allVars => MainInv' /\ MainSurplusInv'
  BY MainTypesKept, SurplusKept
<1>3. MainSurplusInv => NoSurplusAfterRetry
  BY DEF MainSurplusInv, SurplusInv, FillInv, NoSurplusAfterRetry, Calls, First
<1> QED  BY <1>1, <1>2, <1>3, PTL DEF MainSpec

-----------------------------------------------------------------------------
(* Loop fails only for a reason                                            *)

(* There is a song at the position that is to be played, unless the buffer *)
(* is no int, when TryEnqueue plays without having added any.              *)
ReachInv ==
    \/ pc \notin {"first_play", "enq_play"}
    \/ st.len < Len(queue)
    \/ options.queue_buffer > MaxInt

(* A song that was added is behind those that the status had counted.      *)
LEMMA AddingReaches ==
    ASSUME TypeInv, Untouched, AddSong, st' = st
    PROVE  st'.len < Len(queue')
<1>1. Len(queue') = Len(queue) + 1
  BY AddedSong
<1>2. st.len \in Nat /\ Len(queue) \in Nat
  BY Numbers
<1> QED  BY <1>1, <1>2 DEF Untouched

(* Loop plays only what it has added before.                               *)
LEMMA LoopKeepsReach ==
    ASSUME TypeInv, OwnInv, LoopNext
    PROVE  ReachInv'
<1>1. CASE FirstAdd
  <2>1. Untouched /\ AddSong /\ st' = st
    BY <1>1 DEF FirstAdd, OwnInv
  <2> QED  BY <2>1, AddingReaches DEF ReachInv
<1>2. CASE EnqueueAdd
  <2>1. CASE pc' # "enq_play"
    <3>1. pc' # "first_play"
      BY <1>2, PickToAddKeeps DEF EnqueueAdd, EnqueueDone
    <3> QED  BY <2>1, <3>1 DEF ReachInv
  <2>2. CASE pc' = "enq_play"
    <3>1. AddSong /\ st' = st /\ pc = "enq_add" /\ (PastLast(st) \/ QueueEmpty(st))
      BY <1>2, <2>2, PickToAddKeeps DEF EnqueueAdd, EnqueueDone
    <3>2. Untouched
      BY <3>1 DEF OwnInv
    <3> QED  BY <3>1, <3>2, AddingReaches DEF ReachInv
  <2> QED  BY <2>1, <2>2
<1>3. CASE EnqueueStatus
  <2>1. options' = options /\ pc' # "first_play"
    BY <1>3, PickToAddKeeps DEF EnqueueStatus, EnqueueDone
  <2>2. CASE pc' # "enq_play"
    BY <2>1, <2>2 DEF ReachInv
  <2>3. CASE pc' = "enq_play"
    <3>1. ShouldAdd(Status) /\ Needed(Status) <= 0
      BY <1>3, <2>3, PickToAddKeeps DEF EnqueueStatus, EnqueueDone
    <3>2. ~(options.queue_buffer <= MaxInt)
      <4>1. Needed(Status) \in Int
        BY NeededTypes
      <4>2. ~(Needed(Status) > 0)
        BY <3>1, <4>1
      <4> QED  BY <3>1, <4>2, ShouldAddMeansNeeded
    <3>3. options.queue_buffer > MaxInt
      BY <3>2, LoopAssumption DEF TypeInv
    <3> QED  BY <2>1, <3>3 DEF ReachInv
  <2> QED  BY <2>2, <2>3
<1>4. CASE ~(FirstAdd \/ EnqueueAdd \/ EnqueueStatus)
  <2>1. pc' \notin {"first_play", "enq_play"}
    BY <1>4, PickToAddKeeps
       DEF LoopNext, FirstStatus, FirstPlay, EnqueuePlay, EnqueuePause, EnqueueDone, Idle,
           Reaction, Reload, ReloadBroken, SuspendStatus, SuspendSleep, SuspendRecheck,
           ConnectionLost, Refused, AnswerLost, ReturnError
  <2> QED  BY <2>1 DEF ReachInv
<1> QED  BY <1>1, <1>2, <1>3, <1>4

(* Nobody but a user takes songs away while nothing plays.                 *)
LEMMA WorldKeepsReach ==
    ASSUME OwnInv, ReachInv, ~UserMove, Others, UNCHANGED loopVars
    PROVE  ReachInv'
<1>1. UNCHANGED <<pc, st, options>>
  BY DEF loopVars
<1>2. ASSUME pc \in {"first_play", "enq_play"}  PROVE  queue' = queue
  <2>1. player # "play"
    BY <1>2 DEF OwnInv, Untouched
  <2> QED  BY <2>1, NobodyTouches
<1> QED  BY <1>1, <1>2 DEF ReachInv

(* While no user has made a move.                                          *)
FailInv == moves.user = Moves.user /\ pc \in Calls => OwnInv /\ ReachInv

(* Every step of the process and its world keeps it.                       *)
LEMMA FailKept ==
    ASSUME MainInv, FailInv, [MainNext]_allVars
    PROVE  FailInv'
<1> SUFFICES ASSUME moves'.user = Moves.user, pc' \in Calls
             PROVE  OwnInv' /\ ReachInv'
  BY DEF FailInv
<1>1. moves.user = Moves.user /\ ~UserMove
  BY AloneFromTheStart
<1>2. CASE LoopNext
  <2>1. TypeInv /\ OwnInv
    BY <1>1, <1>2, LoopSteps, LoopRuns DEF FailInv
  <2> QED  BY <1>1, <1>2, <2>1, OwnKept, LoopKeepsReach DEF Next
<1>3. CASE World
  <2>1. Others /\ UNCHANGED loopVars /\ pc \in Calls
    BY <1>3 DEF World, loopVars
  <2>2. TypeInv /\ OwnInv /\ ReachInv /\ Environment
    BY <1>1, <2>1, LoopRuns DEF FailInv, Environment, Ended, Calls
  <2> QED  BY <1>1, <2>1, <2>2, OwnKept, WorldKeepsReach DEF Next
<1>4. CASE UNCHANGED allVars
  <2>1. UNCHANGED <<pc, st, queue, player, options>> /\ OwnInv /\ ReachInv
    BY <1>1, <1>4 DEF allVars, FailInv
  <2> QED  BY <2>1 DEF OwnInv, ReachInv, Untouched, PastLast, QueueEmpty
<1>5. CASE EnterLoop
  BY <1>5 DEF EnterLoop, OwnInv, ReachInv
<1> QED  BY <1>2, <1>3, <1>4, <1>5, MainEntersLoop DEF MainNext, Process

(* A call that fails, fails for one of the reasons there are.              *)
LEMMA FailingHasAReason ==
    ASSUME MainInv, FailInv, MainNext, LoopFails, moves.user = Moves.user
    PROVE  HasAReason
<1>1. pc \in Calls /\ pc' = "returned" /\ ReachInv
  BY DEF LoopFails, FailInv
<1>2. LoopNext
  <2>1. ~World
    BY <1>1 DEF World, loopVars, Calls
  <2>2. ~(\/ StartConnect \/ StartLoad \/ QueuePick \/ QueueAdd \/ QueueAddFails
          \/ LoopReturned \/ Reconnected \/ ReconnectFails \/ ReconnectRefused
          \/ GiveUp \/ ReconnectLoad)
    BY <1>1 DEF StartConnect, StartLoad, QueuePick, QueueAdd, QueueAddFails, LoopReturned,
                Reconnected, ReconnectFails, ReconnectRefused, GiveUp, ReconnectLoad, Calls
  <2> QED  BY <2>1, <2>2 DEF MainNext, Process
<1>3. ConnectionLost \/ Refused \/ AnswerLost
  BY <1>1, <1>2, PickToAddKeeps
     DEF LoopNext, FirstStatus, FirstAdd, FirstPlay, EnqueueStatus, EnqueueAdd, EnqueuePlay,
         EnqueuePause, EnqueueDone, Idle, Reaction, Reload, ReloadBroken, SuspendStatus,
         SuspendSleep, SuspendRecheck
<1>4. CASE ConnectionLost \/ AnswerLost
  BY <1>4 DEF ConnectionLost, AnswerLost, LinkBreaks, serverVars, HasAReason
<1>5. CASE Refused
  <2>1. CASE pc \in {"first_add", "enq_add"}
    <3>1. todo # <<>>
      BY <2>1, LoopRuns DEF TypeInv, Calls
    <3> QED  BY <1>5, <2>1, <3>1 DEF Refused, HasAReason
  <2>2. CASE pc \in {"first_play", "enq_play"}
    <3>1. st.len >= Len(queue)
      BY <1>5, <2>2 DEF Refused
    <3>2. st.len \in Nat /\ Len(queue) \in Nat
      BY <1>1, LoopRuns, Numbers
    <3>3. ~(st.len < Len(queue))
      BY <3>1, <3>2
    <3> QED  BY <1>1, <2>2, <3>3 DEF ReachInv, HasAReason
  <2> QED  BY <1>5, <2>1, <2>2 DEF Refused
<1> QED  BY <1>3, <1>4, <1>5

(* For every buffer, library and number of losses: as long as no other     *)
(* client touches the queue, what makes Loop fail, over and over perhaps,  *)
(* is the connection, a full queue, a song that the library has not got or *)
(* a buffer that is no int, and nothing that Loop itself does wrong        *)
(* (ashuffle.cc, TryFirst and TryEnqueue; main.cc, the loop around Loop).  *)
THEOREM FailsForReasons == MainSpec => FailsOnlyForAReason
<1>1. MainInit => MainInv /\ FailInv
  BY MainTypesAtFirst DEF MainInit, FailInv, Calls
<1>2. MainInv /\ FailInv /\ [MainNext]_allVars => MainInv' /\ FailInv'
  BY MainTypesKept, FailKept
<1>3. MainInv /\ FailInv /\ [MainNext]_allVars
        => [LoopFails /\ moves.user = Moves.user => HasAReason]_allVars
  BY FailingHasAReason
<1> QED  BY <1>1, <1>2, <1>3, PTL DEF MainSpec, FailsOnlyForAReason

-----------------------------------------------------------------------------
(* --only adds as many groups as it was asked for                          *)

(* The songs of ashuffle's in a queue.                                     *)
Places(q) == {n \in 1 .. Len(q) : q[n] = "ashuffle"}
Own(q) == Cardinality(Places(q))

(* They can be counted, in a queue of any length,                          *)
LEMMA OwnIsCounted ==
    ASSUME NEW q \in Seq(Owners)
    PROVE  IsFiniteSet(Places(q)) /\ Own(q) \in Nat
<1>1. IsFiniteSet(1 .. Len(q)) /\ Places(q) \in SUBSET (1 .. Len(q))
  BY FS_Interval DEF Places
<1> QED  BY <1>1, FS_Subset, FS_CardinalityType DEF Own

(* are none in the queues that there are at the start,                     *)
LEMMA OwnOfNone ==
    ASSUME NEW q \in {<<>>, <<"user">>}
    PROVE  Own(q) = 0
<1>1. Places(q) = {}
  BY DEF Places
<1> QED  BY <1>1, FS_EmptySet DEF Own

(* become one more when ashuffle adds a song,                              *)
LEMMA OwnOfAppended ==
    ASSUME NEW q \in Seq(Owners), NEW o \in Owners
    PROVE  Own(Append(q, o)) = IF o = "ashuffle" THEN Own(q) + 1 ELSE Own(q)
<1>1. /\ Len(q) \in Nat /\ Len(Append(q, o)) = Len(q) + 1
      /\ \A i \in 1 .. Len(q) : Append(q, o)[i] = q[i]
      /\ Append(q, o)[Len(q) + 1] = o
  BY AppendProperties
<1>2. CASE o = "ashuffle"
  <2>1. Places(Append(q, o)) = Places(q) \cup {Len(q) + 1} /\ Len(q) + 1 \notin Places(q)
    BY <1>1, <1>2 DEF Places
  <2> QED  BY <1>2, <2>1, OwnIsCounted, FS_AddElement DEF Own
<1>3. CASE o # "ashuffle"
  <2>1. Places(Append(q, o)) = Places(q)
    BY <1>1, <1>3 DEF Places
  <2> QED  BY <1>3, <2>1 DEF Own
<1> QED  BY <1>2, <1>3

(* and no more when a song leaves.                                         *)
LEMMA OwnWithoutOne ==
    ASSUME NEW q \in Seq(Owners), NEW p \in 0 .. Len(q) - 1
    PROVE  Own(RemoveAt(q, p + 1)) <= Own(q)
<1> DEFINE r == RemoveAt(q, p + 1)
           back == [i \in Places(r) |-> IF i <= p THEN i ELSE i + 1]
<1>1. r = SubSeq(q, 1, p) \o SubSeq(q, p + 2, Len(q))
  <2>1. (p + 1) - 1 = p /\ (p + 1) + 1 = p + 2
    OBVIOUS
  <2>2. r = SubSeq(q, 1, (p + 1) - 1) \o SubSeq(q, (p + 1) + 1, Len(q))
    BY Zenon DEF RemoveAt
  <2> QED  BY <2>1, <2>2
<1>2. /\ Len(SubSeq(q, 1, p)) = p /\ SubSeq(q, 1, p) \in Seq(Owners)
      /\ \A i \in 1 .. p : SubSeq(q, 1, p)[i] = q[i]
  BY SubSeqProperties
<1>3. /\ Len(SubSeq(q, p + 2, Len(q))) = Len(q) - p - 1
      /\ SubSeq(q, p + 2, Len(q)) \in Seq(Owners)
      /\ \A i \in 1 .. Len(q) - p - 1 : SubSeq(q, p + 2, Len(q))[i] = q[i + p + 1]
  BY SubSeqProperties
<1> DEFINE a == SubSeq(q, 1, p)  b == SubSeq(q, p + 2, Len(q))
<1>4. Len(r) = Len(q) - 1
      /\ \A i \in 1 .. Len(r) : r[i] = IF i <= p THEN q[i] ELSE q[i + 1]
  <2>1. Len(a \o b) = Len(a) + Len(b)
        /\ \A i \in 1 .. Len(a) + Len(b) : (a \o b)[i] = IF i <= Len(a) THEN a[i] ELSE b[i - Len(a)]
    <3> HIDE DEF a, b
    <3> QED  BY <1>2, <1>3, ConcatProperties DEF a, b
  <2>2. r = a \o b /\ Len(a) = p /\ Len(b) = Len(q) - p - 1 /\ Len(q) \in Nat
    <3> HIDE DEF r
    <3> QED  BY <1>1, <1>2, <1>3
  <2>3. \A i \in 1 .. p : a[i] = q[i]
    BY <1>2
  <2>4. \A i \in 1 .. Len(q) - p - 1 : b[i] = q[i + p + 1]
    BY <1>3
  <2>5. \A i \in p + 1 .. Len(q) - 1 : b[i - p] = q[i + 1]
    <3>1. ASSUME NEW i \in p + 1 .. Len(q) - 1  PROVE b[i - p] = q[i + 1]
      <4>1. i - p \in 1 .. Len(q) - p - 1 /\ (i - p) + p + 1 = i + 1
        BY <2>2
      <4> QED  BY <2>4, <4>1
    <3> QED  BY <3>1
  <2> HIDE DEF r, a, b
  <2> QED  BY <2>1, <2>2, <2>3, <2>5
<1> HIDE DEF r, a, b
<1>5. ASSUME NEW i \in Places(r)
      PROVE  (IF i <= p THEN i ELSE i + 1) \in Places(q)
  BY <1>4 DEF Places
<1>6. back \in [Places(r) -> Places(q)]
  BY <1>5
<1>7. \A i, j \in Places(r) : back[i] = back[j] => i = j
  BY DEF Places
<1>8. back \in Injection(Places(r), Places(q))
  BY <1>6, <1>7 DEF Injection, IsInjective
<1> HIDE DEF back
<1> QED  BY <1>8, OwnIsCounted, FS_Injection DEF Own, r

(* ashuffle's songs in MPD's queue, before and after a step.               *)
LEMMA OwnSongsAre ==
    OwnSongs = Own(queue) /\ OwnSongs' = Own(queue')
BY DEF OwnSongs, Own, Places

(* The others add none of ashuffle's songs, and take none as long as the   *)
(* queue is kept.                                                          *)
LEMMA OthersKeepOwn ==
    ASSUME ServerTypeOK, Others
    PROVE  /\ OwnSongs \in Nat /\ OwnSongs' \in Nat /\ OwnSongs' <= OwnSongs
           /\ Kept' => Kept /\ OwnSongs' = OwnSongs
<1>1. queue \in Seq(Owners) /\ queue' \in Seq(Owners) /\ ServerTypeOK'
  BY OthersTypes DEF ServerTypeOK
<1>2. OwnSongs \in Nat /\ OwnSongs' \in Nat
  BY <1>1, OwnIsCounted, OwnSongsAre
<1>3. moves.user \in 0 .. Moves.user /\ Moves.user \in Nat
  BY ServerAssumption DEF ServerTypeOK
<1>4. ASSUME UserMove  PROVE  ~Kept'
  BY <1>3, <1>4 DEF UserMove, Kept, ServerTypeOK
<1>5. CASE UserAdds
  <2>1. OwnSongs' = OwnSongs
    BY <1>1, <1>5, OwnOfAppended, OwnSongsAre DEF UserAdds, Enqueue, Owners
  <2> QED  BY <1>2, <1>4, <1>5, <2>1 DEF UserAdds
<1>6. CASE UserClears
  <2>1. OwnSongs' = 0
    BY <1>6, OwnOfNone, OwnSongsAre DEF UserClears
  <2> QED  BY <1>2, <1>4, <1>6, <2>1 DEF UserClears
<1>7. CASE UserPlays \/ UserPauses \/ UserStops
  <2>1. queue' = queue /\ UserMove
    BY <1>7 DEF UserPlays, PlayPosition, UserPauses, PausePlayer, UserStops
  <2> QED  BY <1>2, <1>4, <2>1, OwnSongsAre
<1>8. CASE LibraryChanges \/ Disconnect
  <2>1. queue' = queue /\ mode' = mode /\ moves'.user = moves.user
    BY <1>8 DEF LibraryChanges, Disconnect, LinkBreaks, ServerTypeOK
  <2> QED  BY <1>2, <2>1, OwnSongsAre DEF Kept
<1>9. CASE SongEnds
  <2>1. UNCHANGED <<mode, moves>> /\ pos \in 0 .. Len(queue) - 1
    BY <1>9 DEF SongEnds, ServerTypeOK
  <2>2. CASE mode.consume
    <3>1. queue' = RemoveAt(queue, pos + 1)
      BY <1>9, <2>2 DEF SongEnds
    <3>2. OwnSongs' <= OwnSongs
      BY <1>1, <2>1, <3>1, OwnWithoutOne, OwnSongsAre
    <3> QED  BY <1>2, <2>1, <2>2, <3>2 DEF Kept
  <2>3. CASE ~mode.consume
    <3>1. queue' = queue
      BY <1>9, <2>3 DEF SongEnds
    <3> QED  BY <1>2, <2>1, <3>1, OwnSongsAre DEF Kept
  <2> QED  BY <2>2, <2>3
<1> QED  BY <1>5, <1>6, <1>7, <1>8, <1>9 DEF Others

(* A song of ashuffle's makes one more.                                    *)
LEMMA AddMakesOneMore ==
    ASSUME ServerTypeOK, AddSong
    PROVE  OwnSongs \in Nat /\ OwnSongs' = OwnSongs + 1
BY OwnIsCounted, OwnOfAppended, OwnSongsAre DEF ServerTypeOK, AddSong, Enqueue, Owners

(* Every song of the groups that were taken was added, but for the rest of *)
(* the last one; none is lost as long as the queue is kept.                *)
OnlyInv ==
    options.queue_only > 0 =>
        /\ pc \in {"connect", "load", "queue_pick", "queue_add"} \cup Finished
        /\ pc \in {"connect", "load"} => OwnSongs = 0 /\ count = 0 /\ number_of_songs = 0
        /\ pc = "queue_pick" => (Kept => OwnSongs = number_of_songs)
        /\ pc = "queue_add" => /\ OwnSongs + Len(todo) <= number_of_songs
                               /\ Kept => OwnSongs + Len(todo) = number_of_songs
        /\ OwnSongs <= number_of_songs
        /\ pc = "success" => /\ count = options.queue_only
                             /\ Kept => OwnSongs = number_of_songs

(* The numbers in it.                                                      *)
LEMMA OnlyNumbers ==
    ASSUME MainInv
    PROVE  /\ OwnSongs \in Nat /\ number_of_songs \in Nat /\ Len(todo) \in Nat
           /\ count \in Nat /\ options.queue_only \in Nat /\ count <= options.queue_only
<1>1. queue \in Seq(Owners) /\ todo \in Seq(Song) /\ options.queue_only \in Nat
  BY LoopAssumption DEF MainInv, DataInv, ServerTypeOK
<1>2. OwnSongs \in Nat
  BY <1>1, OwnIsCounted, OwnSongsAre
<1> QED  BY <1>1, <1>2 DEF MainInv, DataInv

(* A step that leaves the queue alone keeps the count.                     *)
LEMMA CountKept ==
    ASSUME UNCHANGED <<queue, mode>>, moves'.user = moves.user
    PROVE  OwnSongs' = OwnSongs /\ Kept' = Kept
BY OwnSongsAre DEF Kept

(* Loading and connecting add no songs.                                    *)
LEMMA StartKeepsOnly ==
    ASSUME MainInv, OnlyInv, StartConnect \/ StartLoad, options.queue_only > 0
    PROVE  OnlyInv'
<1>1. OwnSongs = 0 /\ count = 0 /\ number_of_songs = 0
  BY DEF OnlyInv, StartConnect, StartLoad
<1>2. /\ queue' = queue /\ UNCHANGED <<count, number_of_songs, options>>
      /\ pc' \in {"load", "queue_pick", "died", "failure"}
  BY DEF StartConnect, StartLoad, Dialed, Unreachable, Disconnect, LoaderAdds, LoaderDies,
         AfterLoad, serverVars, localVars, mainVars
<1>3. OwnSongs' = 0 /\ count' = 0 /\ number_of_songs' = 0
  BY <1>1, <1>2, OwnSongsAre
<1> QED  BY <1>2, <1>3 DEF OnlyInv, Finished

(* The songs of a group that is picked are taken into account.             *)
LEMMA PickKeepsOnly ==
    ASSUME MainInv, OnlyInv, QueuePick, options.queue_only > 0
    PROVE  OnlyInv'
<1>1. /\ pc = "queue_pick" /\ UNCHANGED <<options, queue, mode, moves>>
      /\ pc' \in {"queue_add", "aborted", "success"}
  BY DEF QueuePick, serverVars, PickToAdd
<1>2. OwnSongs' = OwnSongs /\ Kept' = Kept
  BY <1>1, CountKept
<1>3. /\ OwnSongs \in Nat /\ number_of_songs \in Nat
      /\ count \in Nat /\ options.queue_only \in Nat /\ count <= options.queue_only
  BY OnlyNumbers
<1>4. OwnSongs <= number_of_songs /\ (Kept => OwnSongs = number_of_songs)
  BY <1>1 DEF OnlyInv
<1>5. CASE pc' = "success"
  <2>1. ~(count < options.queue_only) /\ UNCHANGED <<count, number_of_songs>>
    BY <1>5 DEF QueuePick, PickToAdd
  <2>2. count = options.queue_only
    BY <1>3, <2>1
  <2> QED  BY <1>1, <1>2, <1>4, <1>5, <2>1, <2>2 DEF OnlyInv, Finished
<1>6. CASE pc' # "success"
  <2>1. PickToAdd("queue_add", 0) /\ number_of_songs' = number_of_songs + Len(todo')
    BY <1>6 DEF QueuePick
  <2>2. Len(todo') \in Nat
    <3>1. todo' \in Seq(Song)
      BY QueueTypes DEF MainInv, DataInv
    <3> QED  BY <3>1
  <2>3. /\ OwnSongs' + Len(todo') <= number_of_songs' /\ OwnSongs' <= number_of_songs'
        /\ Kept' => OwnSongs' + Len(todo') = number_of_songs'
    BY <1>2, <1>3, <1>4, <2>1, <2>2
  <2> QED  BY <1>1, <1>6, <2>3 DEF OnlyInv, Finished
<1> QED  BY <1>5, <1>6

(* Each song that is added is one less to add.                             *)
LEMMA AddKeepsOnly ==
    ASSUME MainInv, OnlyInv, QueueAdd \/ QueueAddFails, options.queue_only > 0
    PROVE  OnlyInv'
<1>1. /\ pc = "queue_add" /\ UNCHANGED <<options, mode, count, number_of_songs>>
      /\ moves'.user = moves.user
  BY DEF QueueAdd, QueueAddFails, Answered, AddSong, Enqueue, LinkBreaks, serverVars,
         localVars, mainVars, MainInv, DataInv, ServerTypeOK
<1>2. Kept' = Kept
  BY <1>1 DEF Kept
<1>3. OwnSongs \in Nat /\ number_of_songs \in Nat /\ Len(todo) \in Nat
  BY OnlyNumbers
<1>4. /\ OwnSongs + Len(todo) <= number_of_songs
      /\ Kept => OwnSongs + Len(todo) = number_of_songs
  BY <1>1 DEF OnlyInv
<1>5. todo \in Seq(Song) /\ todo # <<>>
  BY <1>1 DEF MainInv, DataInv
<1>6. Len(todo) >= 1 /\ Tail(todo) \in Seq(Song) /\ Len(Tail(todo)) = Len(todo) - 1
  BY <1>5, HeadTailProperties, EmptySeq
<1>7. CASE QueueAdd
  <2>1. OwnSongs' = OwnSongs + 1
    BY <1>7, AddMakesOneMore DEF QueueAdd, MainInv, DataInv
  <2>2. todo' = Tail(todo) /\ pc' = IF todo' = <<>> THEN "queue_pick" ELSE "queue_add"
    BY <1>7 DEF QueueAdd
  <2>3. /\ OwnSongs' + Len(todo') <= number_of_songs
        /\ Kept => OwnSongs' + Len(todo') = number_of_songs
        /\ Len(todo') \in Nat /\ OwnSongs' \in Nat /\ OwnSongs' <= number_of_songs
    BY <1>3, <1>4, <1>6, <2>1, <2>2
  <2>4. CASE pc' = "queue_add"
    BY <1>1, <1>2, <2>3, <2>4 DEF OnlyInv, Finished
  <2>5. CASE pc' = "queue_pick"
    <3>1. todo' = <<>>
      BY <2>2, <2>5
    <3>2. Kept => OwnSongs' = number_of_songs
      <4> SUFFICES ASSUME Kept  PROVE  OwnSongs' = number_of_songs
        OBVIOUS
      <4>1. Len(todo') = 0
        BY <3>1
      <4>2. OwnSongs' + Len(todo') = number_of_songs /\ OwnSongs' \in Nat
        BY <2>3
      <4> HIDE DEF OwnSongs
      <4> QED  BY <4>1, <4>2
    <3> QED  BY <1>1, <1>2, <2>3, <2>5, <3>2 DEF OnlyInv, Finished
  <2> QED  BY <2>2, <2>4, <2>5
<1>8. CASE QueueAddFails
  <2>1. pc' = "died"
    BY <1>8 DEF QueueAddFails
  <2>2. OwnSongs' = OwnSongs \/ OwnSongs' = OwnSongs + 1
    BY <1>8, AddMakesOneMore, OwnSongsAre DEF QueueAddFails, serverVars, MainInv, DataInv
  <2>3. OwnSongs' <= number_of_songs
    BY <1>3, <1>4, <1>6, <2>2
  <2> QED  BY <1>1, <2>1, <2>3 DEF OnlyInv, Finished
<1> QED  BY <1>7, <1>8

(* Every step keeps the count.                                             *)
LEMMA OnlyKept ==
    ASSUME MainInv, OnlyInv, [MainNext]_allVars
    PROVE  OnlyInv'
<1>1. CASE ~(options.queue_only > 0)
  <2>1. options' = options
    BY LoopSteps
       DEF MainNext, Process, World, StartConnect, StartLoad, QueuePick, QueueAdd,
           QueueAddFails, LoopReturned, Reconnected, ReconnectFails, ReconnectRefused,
           GiveUp, ReconnectLoad, loopVars, localVars, allVars
  <2> QED  BY <1>1, <2>1 DEF OnlyInv
<1>2. CASE options.queue_only > 0
  <2>1. pc \in {"connect", "load", "queue_pick", "queue_add"} \cup Finished
    BY <1>2 DEF OnlyInv
  <2>2. CASE World
    <3>1. UNCHANGED loopVars /\ UNCHANGED mainVars /\ Others /\ pc \notin Finished
      BY <2>2 DEF World
    <3>2. /\ OwnSongs \in Nat /\ OwnSongs' \in Nat /\ OwnSongs' <= OwnSongs
          /\ Kept' => Kept /\ OwnSongs' = OwnSongs
      BY <3>1, OthersKeepOwn DEF MainInv, DataInv
    <3>3. UNCHANGED <<pc, options, count, number_of_songs, todo>>
      BY <3>1 DEF loopVars, mainVars
    <3>4. pc # "success"
      BY <3>1 DEF Finished
    <3> HIDE DEF Finished
    <3> QED  BY <1>2, <3>2, <3>3, <3>4, OnlyNumbers DEF OnlyInv
  <2>3. CASE UNCHANGED allVars
    <3>1. OwnSongs' = OwnSongs /\ Kept' = Kept
      BY <2>3, CountKept DEF allVars
    <3> QED  BY <2>3, <3>1 DEF OnlyInv, allVars
  <2>4. ~LoopNext
    BY <2>1, LoopSteps DEF Calls, Finished
  <2>5. ~(\/ LoopReturned \/ Reconnected \/ ReconnectFails \/ ReconnectRefused
          \/ GiveUp \/ ReconnectLoad)
    BY <2>1 DEF Finished, LoopReturned, Reconnected, ReconnectFails, ReconnectRefused, GiveUp,
                ReconnectLoad
  <2> QED  BY <1>2, <2>2, <2>3, <2>4, <2>5, StartKeepsOnly, PickKeepsOnly, AddKeepsOnly
           DEF MainNext, Process
<1> QED  BY <1>1, <1>2

(* --only n: whatever breaks, and whatever the groups' sizes are, no more  *)
(* than n groups are taken and no song of another one is added; and an     *)
(* exit that reports success has taken n groups and added each of them     *)
(* whole: as many songs as it reports are there, if none was taken out.    *)
THEOREM OnlyAddsSo == MainSpec => []OnlyAddsThatMany
<1>1. MainInit => MainInv /\ OnlyInv
  <2> SUFFICES ASSUME MainInit  PROVE  MainInv /\ OnlyInv
    OBVIOUS
  <2>1. MainInv
    BY MainTypesAtFirst
  <2>2. queue \in {<<>>, <<"user">>} /\ pc = "connect" /\ count = 0 /\ number_of_songs = 0
    BY DEF MainInit, ServerInit
  <2>3. OwnSongs = 0
    BY <2>2, OwnOfNone, OwnSongsAre
  <2> QED  BY <2>1, <2>2, <2>3 DEF OnlyInv
<1>2. MainInv /\ OnlyInv /\ [MainNext]_allVars => MainInv' /\ OnlyInv'
  BY MainTypesKept, OnlyKept
<1>3. MainInv /\ OnlyInv => OnlyAddsThatMany
  BY DEF MainInv, DataInv, OnlyInv, OnlyAddsThatMany
<1> QED  BY <1>1, <1>2, <1>3, PTL DEF MainSpec
=============================================================================
