------------------------------ MODULE LoopProofs ------------------------------
(***************************************************************************)
(* Proofs about Loop, for every library, every set of options, any number  *)
(* of moves of other clients and any bound on MPD's queue.                 *)
(***************************************************************************)
EXTENDS Loop, SequenceTheorems, TLAPS

(* The facts about the shuffle chain.  The bound on its length is none of  *)
(* theirs.                                                                 *)
Facts == INSTANCE ChainProofs WITH Item <- Group, MaxItems <- 0

MovesType == [user : 0 .. Moves.user, library : 0 .. Moves.library,
              link : 0 .. Moves.link]

-----------------------------------------------------------------------------
(* The server's types                                                      *)

(* Reporting a change, or not, leaves a set of subsystems.                 *)
LEMMA SignalTypes ==
    ASSUME ServerTypeOK, NEW S \in SUBSET Subsystems, Signal(S),
           link' \in {"up", "down"}
    PROVE  pending' \subseteq Subsystems /\ (link' = "down" => pending' = {})
BY DEF ServerTypeOK, Signal

(* A song joins the end of the queue.                                      *)
LEMMA EnqueueTypes ==
    ASSUME ServerTypeOK, NEW owner \in Owners, Enqueue(owner),
           link' \in {"up", "down"}, moves' \in MovesType
    PROVE  ServerTypeOK'
<1>1. /\ queue' \in Seq(Owners) /\ Len(queue') = Len(queue) + 1
      /\ Len(queue) \in Nat /\ Len(queue) < MaxQueue
  BY DEF ServerTypeOK, Enqueue
<1>2. pending' \subseteq Subsystems /\ (link' = "down" => pending' = {})
  BY SignalTypes DEF Enqueue, Subsystems
<1> QED  BY <1>1, <1>2, ServerAssumption DEF ServerTypeOK, Enqueue, MovesType, NoPos

(* The player goes to a position in the queue.                             *)
LEMMA PlayTypes ==
    ASSUME ServerTypeOK, NEW n, PlayPosition(n),
           link' \in {"up", "down"}, moves' \in MovesType
    PROVE  ServerTypeOK'
<1>1. pending' \subseteq Subsystems /\ (link' = "down" => pending' = {})
  BY SignalTypes DEF PlayPosition, Subsystems
<1>2. Len(queue) \in Nat
  BY DEF ServerTypeOK
<1> QED  BY <1>1, <1>2 DEF ServerTypeOK, PlayPosition, MovesType, NoPos

(* The player pauses, if it plays.                                         *)
LEMMA PauseTypes ==
    ASSUME ServerTypeOK, PausePlayer, link' \in {"up", "down"}, moves' \in MovesType
    PROVE  ServerTypeOK'
<1>1. pending' \subseteq Subsystems /\ (link' = "down" => pending' = {})
  BY SignalTypes DEF PausePlayer, Subsystems
<1> QED  BY <1>1 DEF ServerTypeOK, PausePlayer, MovesType

(* A move fewer is left.                                                   *)
LEMMA MoveTypes ==
    ASSUME ServerTypeOK, NEW k \in {"user", "library", "link"},
           moves[k] > 0, moves' = [moves EXCEPT ![k] = @ - 1]
    PROVE  moves' \in MovesType
BY ServerAssumption DEF ServerTypeOK, MovesType

(* In consume mode the song that ends leaves the queue.                    *)
LEMMA SongLeaves ==
    ASSUME queue \in Seq(Owners), pos \in 0 .. Len(queue) - 1, SongEnds, mode.consume
    PROVE  queue' \in Seq(Owners) /\ Len(queue') = Len(queue) - 1
<1>1. queue' = SubSeq(queue, 1, pos) \o SubSeq(queue, pos + 2, Len(queue))
  <2>1. queue' = SubSeq(queue, 1, (pos + 1) - 1) \o SubSeq(queue, (pos + 1) + 1, Len(queue))
    BY Zenon DEF SongEnds, RemoveAt
  <2>2. (pos + 1) - 1 = pos /\ (pos + 1) + 1 = pos + 2
    OBVIOUS
  <2> QED  BY <2>1, <2>2
<1>2. SubSeq(queue, 1, pos) \in Seq(Owners) /\ Len(SubSeq(queue, 1, pos)) = pos
  BY SubSeqProperties
<1>3. /\ SubSeq(queue, pos + 2, Len(queue)) \in Seq(Owners)
      /\ Len(SubSeq(queue, pos + 2, Len(queue))) = Len(queue) - pos - 1
  BY SubSeqProperties
<1>4. \A a, b \in Seq(Owners) : a \o b \in Seq(Owners) /\ Len(a \o b) = Len(a) + Len(b)
  BY ConcatProperties
<1>5. queue' \in Seq(Owners) /\ Len(queue') = pos + (Len(queue) - pos - 1)
  BY <1>1, <1>2, <1>3, <1>4
<1> QED  BY <1>5

(* A song ends: the position stays within what is left of the queue.       *)
LEMMA SongEndsTypes ==
    ASSUME ServerTypeOK, SongEnds
    PROVE  ServerTypeOK'
<1>1. /\ queue \in Seq(Owners) /\ Len(queue) \in Nat /\ Len(queue) <= MaxQueue
      /\ pos \in 0 .. Len(queue) - 1
      /\ link' = link /\ moves' = moves
  BY DEF ServerTypeOK, SongEnds
<1>2. queue' \in Seq(Owners) /\ Len(queue') \in Nat /\ Len(queue') <= Len(queue)
  <2>1. CASE ~mode.consume
    BY <1>1, <2>1 DEF SongEnds
  <2>2. CASE mode.consume
    BY <1>1, <2>2, SongLeaves
  <2> QED  BY <2>1, <2>2
<1>3. /\ pos' \in {NoPos} \cup (0 .. Len(queue') - 1)
      /\ player' \in {"play", "pause", "stop"}
      /\ pos' = NoPos => player' = "stop"
  BY <1>1, <1>2 DEF SongEnds, NoPos
<1>4. pending' \subseteq Subsystems /\ (link' = "down" => pending' = {})
  BY <1>1, SignalTypes DEF SongEnds, Subsystems, ServerTypeOK
<1>5. library' = library /\ mode' = mode
  BY DEF SongEnds
<1> QED  BY <1>1, <1>2, <1>3, <1>4, <1>5, ServerAssumption DEF ServerTypeOK

(* Whatever happens without ashuffle keeps the server's types.             *)
LEMMA OthersTypes ==
    ASSUME ServerTypeOK, Others
    PROVE  ServerTypeOK'
<1>1. /\ Len(queue) \in Nat /\ link \in {"up", "down"}
  BY DEF ServerTypeOK
<1>2. CASE SongEnds
  BY <1>2, SongEndsTypes
<1>3. ASSUME UserMove  PROVE  moves' \in MovesType /\ link' \in {"up", "down"}
  BY <1>1, <1>3, MoveTypes DEF UserMove
<1>4. CASE UserAdds
  BY <1>3, <1>4, EnqueueTypes DEF UserAdds, Owners
<1>5. CASE UserClears
  <2>1. moves' \in MovesType /\ link' \in {"up", "down"}
    BY <1>3, <1>5 DEF UserClears
  <2>2. pending' \subseteq Subsystems /\ (link' = "down" => pending' = {})
    BY <1>5, <2>1, SignalTypes DEF UserClears, Subsystems
  <2> QED  BY <1>5, <2>1, <2>2, ServerAssumption DEF ServerTypeOK, UserClears, MovesType, NoPos
<1>6. CASE UserPlays
  <2>1. PICK n \in 0 .. Len(queue) - 1 : PlayPosition(n)
    BY <1>6 DEF UserPlays
  <2> QED  BY <1>3, <1>6, <2>1, PlayTypes DEF UserPlays
<1>7. CASE UserPauses
  BY <1>3, <1>7, PauseTypes DEF UserPauses
<1>8. CASE UserStops
  <2>1. moves' \in MovesType /\ link' \in {"up", "down"}
    BY <1>3, <1>8 DEF UserStops
  <2>2. pending' \subseteq Subsystems /\ (link' = "down" => pending' = {})
    BY <1>8, <2>1, SignalTypes DEF UserStops, Subsystems
  <2> QED  BY <1>8, <2>1, <2>2 DEF ServerTypeOK, UserStops, MovesType
<1>9. CASE LibraryChanges
  <2>1. moves' \in MovesType /\ link' \in {"up", "down"}
    BY <1>1, <1>9, MoveTypes DEF LibraryChanges
  <2>2. pending' \subseteq Subsystems /\ (link' = "down" => pending' = {})
    BY <1>9, <2>1, SignalTypes DEF LibraryChanges, Subsystems
  <2> QED  BY <1>9, <2>1, <2>2 DEF ServerTypeOK, LibraryChanges, MovesType
<1>10. CASE Disconnect
  <2>1. moves' \in MovesType /\ link' \in {"up", "down"}
    BY <1>10, MoveTypes DEF Disconnect, LinkBreaks
  <2>2. pending' \subseteq Subsystems /\ (link' = "down" => pending' = {})
    BY <1>10, <2>1, SignalTypes DEF Disconnect, Subsystems
  <2> QED  BY <1>10, <2>1, <2>2 DEF ServerTypeOK, Disconnect, MovesType
<1> QED  BY <1>2, <1>4, <1>5, <1>6, <1>7, <1>8, <1>9, <1>10 DEF Others

-----------------------------------------------------------------------------
(* The loop's types                                                        *)

(* A group is taken from a chain that is in order: TypeInv is inductive.   *)
TypeInv ==
    /\ ServerTypeOK
    /\ Facts!ChainWhole
    /\ options \in OptionSet
    /\ st \in [len : 0 .. MaxQueue, pos : {NoPos} \cup (0 .. MaxQueue - 1),
               playing : BOOLEAN, single : BOOLEAN]
    /\ todo \in Seq(Song)
    /\ pc \in {"first_add", "enq_add"} => todo # <<>>
    /\ needed \in Int
    /\ active \in BOOLEAN
    /\ pc \in Calls \cup Ended

(* What the type invariant of the model leaves out is the chain's order.   *)
LEMMA TypeInvIsEnough ==
    TypeInv => LoopTypeOK
BY DEF TypeInv, LoopTypeOK, DataTypeOK, Facts!ChainWhole, Facts!Indices

(* What the loop keeps of a status.                                        *)
LEMMA StatusTypes ==
    ASSUME ServerTypeOK
    PROVE  /\ Status \in [len : 0 .. MaxQueue, pos : {NoPos} \cup (0 .. MaxQueue - 1),
                          playing : BOOLEAN, single : BOOLEAN]
           /\ NoStatus \in [len : 0 .. MaxQueue, pos : {NoPos} \cup (0 .. MaxQueue - 1),
                            playing : BOOLEAN, single : BOOLEAN]
<1>1. Len(queue) \in 0 .. MaxQueue /\ mode.single \in BOOLEAN
      /\ pos \in {NoPos} \cup (0 .. MaxQueue - 1) /\ MaxQueue \in Nat
  BY ServerAssumption DEF ServerTypeOK
<1>2. (player = "play") \in BOOLEAN
  OBVIOUS
<1> QED  BY <1>1, <1>2 DEF Status, NoStatus

(* How many songs are needed is a number, if not always a sensible one.    *)
LEMMA NeededTypes ==
    ASSUME TypeInv
    PROVE  Needed(Status) \in Int
<1>1. options.queue_buffer \in Nat /\ MaxInt \in Nat
  BY LoopAssumption DEF TypeInv
<1>2. Status.len \in Int /\ Status.pos \in Int
  BY StatusTypes DEF TypeInv, NoPos
<1> QED  BY <1>1, <1>2 DEF Needed, ToInt, SongsRemaining

(* A pick yields a group of the chain, which is not empty, and leaves the  *)
(* chain in order.                                                         *)
LEMMA PickingTypes ==
    ASSUME Facts!ChainWhole, NEW n \in Int, NEW call, PickToAdd(call, n)
    PROVE  /\ Facts!ChainWhole'
           /\ todo' \in Seq(Song)
           /\ needed' \in Int
           /\ \/ pc' = call /\ todo' # <<>> /\ items # <<>>
              \/ pc' = "aborted" /\ todo' = <<>> /\ items = <<>>
           /\ items' = items
<1>1. items \in Seq(Group)
  BY DEF Facts!ChainWhole
<1>2. CASE /\ items = <<>> /\ pc' = "aborted" /\ todo' = <<>> /\ needed' = 0
           /\ UNCHANGED <<items, window, pool>>
  BY <1>2 DEF Facts!ChainWhole, Facts!Indices, Facts!WindowBounded,
              Facts!NothingLostOrDuplicated
<1>3. ASSUME NEW i \in 1 .. Len(items), Chain!Pick(i), pc' = call, todo' = items[i],
             needed' = n - Len(items[i])
      PROVE  /\ Facts!ChainWhole' /\ todo' \in Seq(Song) /\ needed' \in Int
             /\ pc' = call /\ todo' # <<>> /\ items # <<>>
             /\ items' = items
  <2>1. Facts!Pick(i)
    BY <1>3 DEF Chain!Pick, Facts!Pick, Chain!FilledWindows, Facts!FilledWindows,
                Chain!Draws, Facts!Draws, Chain!Drawn, Facts!Drawn,
                Chain!Smaller, Facts!Smaller, Chain!Range, Facts!Range,
                Chain!IsInjective, Facts!IsInjective, Chain!Cardinality, Facts!Cardinality
  <2>2. Facts!ChainWhole' /\ items' = items
    BY <1>3, <2>1, Facts!PickKeepsWhole, LoopAssumption DEF Chain!Pick
  <2>3. items[i] \in Group
    BY <1>1
  <2> QED  BY <1>1, <1>3, <2>2, <2>3 DEF Group
<1> QED  BY <1>2, <1>3 DEF PickToAdd

(* The chain does not change with the server.                              *)
LEMMA ChainUnchanged ==
    ASSUME Facts!ChainWhole, UNCHANGED <<items, window, pool>>
    PROVE  Facts!ChainWhole'
BY DEF Facts!ChainWhole, Facts!Indices, Facts!WindowBounded, Facts!NothingLostOrDuplicated

(* Whatever the library loads to, reloading leaves a chain in order.       *)
LEMMA ReloadTypes ==
    ASSUME NEW d \in SUBSET Song, Chain!Refill(Loaded[d])
    PROVE  Facts!ChainWhole' /\ items' = Loaded[d]
<1>1. Loaded[d] \in Seq(Group)
  BY LoopAssumption
<1>2. Facts!Refill(Loaded[d]) /\ items' = Loaded[d]
  BY DEF Chain!Refill, Facts!Refill
<1> QED  BY <1>1, <1>2, Facts!RefillKeepsWhole, LoopAssumption

(* An add, of a group's next song.                                         *)
LEMMA AddSongTypes ==
    ASSUME ServerTypeOK, AddSong, link' \in {"up", "down"}, moves' \in MovesType
    PROVE  ServerTypeOK'
BY EnqueueTypes DEF AddSong, Owners

(* TryFirst keeps the types.                                               *)
LEMMA FirstTypes ==
    ASSUME TypeInv, FirstStatus \/ FirstAdd \/ FirstPlay
    PROVE  TypeInv'
<1> USE DEF Calls, Ended
<1>1. link \in {"up", "down"} /\ moves \in MovesType
  BY DEF TypeInv, ServerTypeOK, MovesType
<1>2. CASE FirstStatus
  <2>1. ServerTypeOK'
    BY <1>2 DEF TypeInv, ServerTypeOK, FirstStatus, ReadStatus, serverVars
  <2>2. CASE Status.playing
    <3>1. Facts!ChainWhole'
      BY <1>2, <2>2, ChainUnchanged DEF TypeInv, FirstStatus
    <3> QED  BY <1>2, <2>1, <2>2, <3>1 DEF TypeInv, FirstStatus
  <2>3. CASE ~Status.playing
    <3>1. PickToAdd("first_add", 0) /\ st' = Status /\ UNCHANGED <<options, active>>
      BY <1>2, <2>3 DEF FirstStatus
    <3> QED  BY <2>1, <3>1, PickingTypes, StatusTypes DEF TypeInv
  <2> QED  BY <2>2, <2>3
<1>3. CASE FirstAdd
  <2>1. ServerTypeOK' /\ Facts!ChainWhole'
    BY <1>1, <1>3, AddSongTypes, ChainUnchanged DEF TypeInv, FirstAdd, Answered
  <2>2. todo \in Seq(Song) /\ todo # <<>> /\ todo' = Tail(todo)
    BY <1>3 DEF TypeInv, FirstAdd
  <2>3. todo' \in Seq(Song)
    BY <2>2, HeadTailProperties
  <2> QED  BY <1>3, <2>1, <2>3 DEF TypeInv, FirstAdd
<1>4. CASE FirstPlay
  <2>1. ServerTypeOK' /\ Facts!ChainWhole'
    BY <1>1, <1>4, PlayTypes, ChainUnchanged DEF TypeInv, FirstPlay, Answered
  <2> QED  BY <1>4, <2>1, StatusTypes DEF TypeInv, FirstPlay
<1> QED  BY <1>2, <1>3, <1>4

(* TryEnqueue keeps the types.                                             *)
LEMMA EnqueueStepTypes ==
    ASSUME TypeInv, EnqueueStatus \/ EnqueueAdd \/ EnqueuePlay \/ EnqueuePause
    PROVE  TypeInv'
<1> USE DEF Calls, Ended
<1>1. link \in {"up", "down"} /\ moves \in MovesType
  BY DEF TypeInv, ServerTypeOK, MovesType
<1>2. CASE EnqueueStatus
  <2>1. ServerTypeOK' /\ UNCHANGED <<options, active>>
    BY <1>2 DEF TypeInv, ServerTypeOK, EnqueueStatus, ReadStatus, serverVars
  <2>2. CASE PickToAdd("enq_add", Needed(Status)) /\ st' = Status
    <3>1. Needed(Status) \in Int
      BY NeededTypes
    <3> QED  BY <2>1, <2>2, <3>1, PickingTypes, StatusTypes DEF TypeInv
  <2>3. CASE /\ UNCHANGED <<items, window, pool, todo, needed>>
             /\ \/ pc' = "idle" /\ st' = NoStatus
                \/ pc' = "enq_play" /\ st' = Status
    <3>1. Facts!ChainWhole'
      BY <2>3, ChainUnchanged DEF TypeInv
    <3> QED  BY <2>1, <2>3, <3>1, StatusTypes DEF TypeInv
  <2> QED  BY <1>2, <2>2, <2>3 DEF EnqueueStatus, EnqueueDone
<1>3. CASE EnqueueAdd
  <2>1. ServerTypeOK' /\ UNCHANGED <<options, active>>
    BY <1>1, <1>3, AddSongTypes DEF TypeInv, EnqueueAdd, Answered
  <2>2. CASE /\ Len(todo) > 1
             /\ todo' = Tail(todo)
             /\ UNCHANGED <<items, window, pool, pc, st, needed>>
    <3>1. todo \in Seq(Song) /\ todo # <<>>
      BY <2>2 DEF TypeInv
    <3>2. todo' \in Seq(Song) /\ Len(todo') \in Nat /\ Len(todo') = Len(todo) - 1
      BY <2>2, <3>1, HeadTailProperties
    <3>3. todo' # <<>>
      <4>1. Len(todo) > 1 /\ Len(todo) \in Nat
        BY <2>2, <3>1
      <4>2. Len(todo') # 0
        BY <3>2, <4>1
      <4>3. Len(<<>>) = 0
        OBVIOUS
      <4> QED  BY <4>2, <4>3, Zenon
    <3> QED  BY <2>1, <2>2, <3>2, <3>3, ChainUnchanged DEF TypeInv
  <2>3. CASE PickToAdd("enq_add", needed) /\ UNCHANGED st
    <3>1. needed \in Int
      BY DEF TypeInv
    <3> QED  BY <2>1, <2>3, <3>1, PickingTypes DEF TypeInv
  <2>4. CASE /\ UNCHANGED <<items, window, pool>>
             /\ todo' = <<>> /\ needed' = 0
             /\ \/ pc' = "idle" /\ st' = NoStatus
                \/ pc' = "enq_play" /\ UNCHANGED st
    <3>1. Facts!ChainWhole'
      BY <2>4, ChainUnchanged DEF TypeInv
    <3> QED  BY <2>1, <2>4, <3>1, StatusTypes DEF TypeInv
  <2> QED  BY <1>3, <2>2, <2>3, <2>4 DEF EnqueueAdd, EnqueueDone
<1>4. CASE EnqueuePlay
  <2>1. ServerTypeOK' /\ Facts!ChainWhole'
    BY <1>1, <1>4, PlayTypes, ChainUnchanged DEF TypeInv, EnqueuePlay, Answered
  <2> QED  BY <1>4, <2>1, StatusTypes DEF TypeInv, EnqueuePlay, EnqueueDone
<1>5. CASE EnqueuePause
  <2>1. ServerTypeOK' /\ Facts!ChainWhole'
    BY <1>1, <1>5, PauseTypes, ChainUnchanged DEF TypeInv, EnqueuePause, Answered
  <2> QED  BY <1>5, <2>1, StatusTypes DEF TypeInv, EnqueuePause, EnqueueDone
<1> QED  BY <1>2, <1>3, <1>4, <1>5

(* The main loop keeps the types.                                          *)
LEMMA MainLoopTypes ==
    ASSUME TypeInv,
           Idle \/ Reload \/ ReloadBroken \/ SuspendStatus \/ SuspendSleep \/ SuspendRecheck
    PROVE  TypeInv'
<1> USE DEF Calls, Ended
<1>1. library \in SUBSET Song
  BY ServerAssumption DEF TypeInv, ServerTypeOK
<1>2. CASE Idle
  <2>1. ServerTypeOK' /\ Facts!ChainWhole'
    BY <1>2, ChainUnchanged DEF TypeInv, ServerTypeOK, Idle
  <2>2. pc' \in {"exited", "reload", "idle", "susp_status", "enq_status"}
    BY <1>2 DEF Idle, Reaction
  <2> QED  BY <1>2, <2>1, <2>2 DEF TypeInv, Idle
<1>3. CASE Reload
  <2>1. ServerTypeOK' /\ Facts!ChainWhole'
    BY <1>1, <1>3, ReloadTypes DEF TypeInv, ServerTypeOK, Reload
  <2> QED  BY <1>3, <2>1 DEF TypeInv, Reload
<1>4. CASE ReloadBroken
  <2>1. ServerTypeOK'
    <3>1. CASE UNCHANGED serverVars
      BY <3>1 DEF TypeInv, ServerTypeOK, serverVars
    <3>2. CASE Disconnect
      BY <3>2, OthersTypes DEF TypeInv, Others
    <3> QED  BY <1>4, <3>1, <3>2 DEF ReloadBroken
  <2>2. Facts!ChainWhole' /\ pc' \in {"died", "idle"}
    <3>1. CASE pc' = "died" /\ items' = <<>> /\ window' = <<>> /\ pool' = {}
      <4>1. Facts!Refill(<<>>)
        BY <3>1 DEF Facts!Refill
      <4>2. <<>> \in Seq(Group)
        BY EmptySeq
      <4>3. Facts!ChainWhole'
        BY <4>1, <4>2, Facts!RefillKeepsWhole, LoopAssumption
      <4> QED  BY <3>1, <4>3
    <3>2. CASE pc' = "idle" /\ \E part \in SUBSET (IF link = "up" THEN library ELSE {}) :
                                  Chain!Refill(Loaded[part])
      <4>1. PICK part \in SUBSET (IF link = "up" THEN library ELSE {}) :
               Chain!Refill(Loaded[part])
        BY <3>2
      <4>2. part \in SUBSET Song
        BY <1>1
      <4> QED  BY <3>2, <4>1, <4>2, ReloadTypes
    <3> QED  BY <1>4, <3>1, <3>2 DEF ReloadBroken
  <2> QED  BY <1>4, <2>1, <2>2 DEF TypeInv, ReloadBroken
<1>5. CASE SuspendStatus
  <2>1. ServerTypeOK' /\ Facts!ChainWhole'
    BY <1>5, ChainUnchanged
       DEF TypeInv, ServerTypeOK, SuspendStatus, ReadStatus, serverVars, localVars
  <2> QED  BY <1>5, <2>1 DEF TypeInv, SuspendStatus, localVars
<1>6. CASE SuspendSleep
  <2>1. ServerTypeOK' /\ Facts!ChainWhole'
    BY <1>6, ChainUnchanged DEF TypeInv, ServerTypeOK, SuspendSleep, serverVars, localVars
  <2> QED  BY <1>6, <2>1 DEF TypeInv, SuspendSleep, localVars
<1>7. CASE SuspendRecheck
  <2>1. ServerTypeOK' /\ Facts!ChainWhole'
    BY <1>7, ChainUnchanged DEF TypeInv, ServerTypeOK, SuspendRecheck, ReadStatus, serverVars
  <2>2. active' \in BOOLEAN /\ pc' \in {"enq_status", "idle"}
    BY <1>7 DEF SuspendRecheck
  <2> QED  BY <1>7, <2>1, <2>2 DEF TypeInv, SuspendRecheck
<1> QED  BY <1>2, <1>3, <1>4, <1>5, <1>6, <1>7

(* Failing keeps the types.                                                *)
LEMMA FailureTypes ==
    ASSUME TypeInv, ConnectionLost \/ Refused \/ AnswerLost
    PROVE  TypeInv'
<1> USE DEF Calls, Ended
<1>1. ReturnError
  BY DEF ConnectionLost, Refused, AnswerLost
<1>2. Facts!ChainWhole'
  BY <1>1, ChainUnchanged DEF TypeInv, ReturnError
<1>3. ServerTypeOK'
  <2>1. CASE ConnectionLost \/ Refused
    BY <2>1 DEF TypeInv, ServerTypeOK, ConnectionLost, Refused, serverVars
  <2>2. CASE AnswerLost
    <3>1. link' \in {"up", "down"} /\ moves' \in MovesType
      BY <2>2, MoveTypes DEF TypeInv, AnswerLost, LinkBreaks
    <3> QED  BY <2>2, <3>1, AddSongTypes, PlayTypes, PauseTypes DEF TypeInv, AnswerLost
  <2> QED  BY <2>1, <2>2
<1> QED  BY <1>1, <1>2, <1>3, StatusTypes DEF TypeInv, ReturnError

(* Every step keeps the types.                                             *)
LEMMA TypesKept ==
    ASSUME TypeInv, [Next]_vars
    PROVE  TypeInv'
<1>1. CASE LoopNext
  BY <1>1, FirstTypes, EnqueueStepTypes, MainLoopTypes, FailureTypes DEF LoopNext
<1>2. CASE Environment
  <2>1. ServerTypeOK' /\ Facts!ChainWhole'
    BY <1>2, OthersTypes, ChainUnchanged DEF TypeInv, Environment, loopVars
  <2> QED  BY <1>2, <2>1 DEF TypeInv, Environment, loopVars
<1>3. CASE UNCHANGED vars
  <2>1. ServerTypeOK' /\ Facts!ChainWhole'
    BY <1>3, ChainUnchanged DEF TypeInv, ServerTypeOK, vars
  <2> QED  BY <1>3, <2>1 DEF TypeInv, vars
<1> QED  BY <1>1, <1>2, <1>3 DEF Next

(* The server starts with its types.                                       *)
LEMMA ServerTypesAtFirst ==
    ASSUME ServerInit
    PROVE  ServerTypeOK
<1>1. queue \in Seq(Owners) /\ Len(queue) <= MaxQueue
  <2>1. queue = <<>> \/ queue = <<"user">>
    BY DEF ServerInit
  <2>2. MaxQueue \in Nat \ {0}
    BY ServerAssumption
  <2>3. <<>> \in Seq(Owners) /\ Len(<<>>) = 0
    OBVIOUS
  <2>4. <<"user">> \in Seq(Owners) /\ Len(<<"user">>) = 1
    BY DEF Owners
  <2>5. queue \in Seq(Owners) /\ (Len(queue) = 0 \/ Len(queue) = 1)
    BY <2>1, <2>3, <2>4, Zenon
  <2> QED  BY <2>2, <2>5
<1>2. pending \subseteq Subsystems /\ moves \in MovesType
  BY ServerAssumption DEF ServerInit, MovesType
<1> QED  BY <1>1, <1>2 DEF ServerInit, ServerTypeOK, MovesType

(* The loop starts with its types.                                         *)
LEMMA TypesAtFirst ==
    ASSUME Init
    PROVE  TypeInv
<1>1. ServerTypeOK
  BY ServerTypesAtFirst DEF Init
<1>2. Facts!ChainWhole
  <2>1. items \in Seq(Group)
    BY <1>1, LoopAssumption, ServerAssumption DEF Init, ServerTypeOK
  <2> QED  BY <2>1, Facts!FilledIsWhole, LoopAssumption DEF Init
<1>3. pc \in {"first_status", "idle"} /\ todo \in Seq(Song)
  BY EmptySeq DEF Init
<1> QED  BY <1>1, <1>2, <1>3, StatusTypes DEF Init, TypeInv, Calls, Ended

(* The type invariant of Loop and of the server it drives: in particular,  *)
(* the window and the pool of a chain that is picked from, refilled by a   *)
(* truncated listing, and picked from again never hold an index that is    *)
(* none, and no add is due when the group is used up.                      *)
THEOREM LoopTypes == Spec => []LoopTypeOK
<1>1. Init => TypeInv
  BY TypesAtFirst
<1>2. TypeInv /\ [Next]_vars => TypeInv'
  BY TypesKept
<1>3. TypeInv => LoopTypeOK
  BY TypeInvIsEnough
<1> QED  BY <1>1, <1>2, <1>3, PTL DEF Spec

-----------------------------------------------------------------------------
(* The chain follows the library                                           *)

(* A list that came from a file stays what it was.  Otherwise the chain is *)
(* what the library loads to, unless a reload is due, under way, or no     *)
(* longer of interest.                                                     *)
FreshInv ==
    IF options.from_file
    THEN items = FileItems /\ pc # "reload"
    ELSE link = "up" /\ "database" \notin pending /\ pc \notin Ended \cup {"reload"}
            => items = Loaded[library]

(* A step that neither reloads nor touches the library, and keeps pending  *)
(* events pending.                                                         *)
Undisturbing ==
    /\ UNCHANGED <<items, options, library>>
    /\ link' = "up" => link = "up" /\ pending \subseteq pending'
    /\ pc \notin Ended /\ (pc = "reload" => pc' = "reload")
    /\ pc' = "reload" => pc = "reload"

(* Such a step keeps the chain fresh.                                      *)
LEMMA UndisturbingKeepsFresh ==
    ASSUME FreshInv, Undisturbing
    PROVE  FreshInv'
BY DEF FreshInv, Undisturbing

(* No command loses an event.                                              *)
LEMMA SignalKeeps ==
    ASSUME NEW S, Signal(S), link' = "up"
    PROVE  pending \subseteq pending'
BY DEF Signal

(* Picking leaves the chain's items alone.                                 *)
LEMMA PickToAddKeeps ==
    ASSUME NEW n, NEW call, PickToAdd(call, n)
    PROVE  items' = items /\ pc' \in {call, "aborted"}
BY DEF PickToAdd, Chain!Pick

(* Every step of the loop but Idle and the reloads, and every step of the  *)
(* others but an update of the library, is undisturbing.                   *)
LEMMA CallsDoNotDisturb ==
    ASSUME \/ FirstStatus \/ FirstAdd \/ FirstPlay
           \/ EnqueueStatus \/ EnqueueAdd \/ EnqueuePlay \/ EnqueuePause
           \/ SuspendStatus \/ SuspendSleep \/ SuspendRecheck
           \/ ConnectionLost \/ Refused \/ AnswerLost
    PROVE  Undisturbing
<1> USE DEF Undisturbing, Ended
<1>1. CASE FirstStatus \/ EnqueueStatus
  <2>1. UNCHANGED serverVars /\ UNCHANGED options /\ pc \in {"first_status", "enq_status"}
    BY <1>1 DEF FirstStatus, EnqueueStatus, ReadStatus
  <2>2. items' = items /\ pc' \in {"enq_status", "first_add", "enq_add", "enq_play",
                                   "idle", "aborted"}
    BY <1>1, PickToAddKeeps DEF FirstStatus, EnqueueStatus, EnqueueDone
  <2> QED  BY <2>1, <2>2 DEF serverVars
<1>2. CASE FirstAdd
  <2>1. link' = "up" => pending \subseteq pending'
    BY <1>2, SignalKeeps DEF FirstAdd, AddSong, Enqueue
  <2> QED  BY <1>2, <2>1 DEF FirstAdd, Answered, AddSong, Enqueue
<1>3. CASE FirstPlay
  <2>1. link' = "up" => pending \subseteq pending'
    BY <1>3, SignalKeeps DEF FirstPlay, PlayPosition
  <2> QED  BY <1>3, <2>1 DEF FirstPlay, Answered, PlayPosition
<1>4. CASE EnqueueAdd
  <2>1. link' = "up" => pending \subseteq pending'
    BY <1>4, SignalKeeps DEF EnqueueAdd, AddSong, Enqueue
  <2>2. items' = items /\ pc' \in {"enq_add", "enq_play", "idle", "aborted"}
    BY <1>4, PickToAddKeeps DEF EnqueueAdd, EnqueueDone
  <2> QED  BY <1>4, <2>1, <2>2 DEF EnqueueAdd, Answered, AddSong, Enqueue
<1>5. CASE EnqueuePlay
  <2>1. link' = "up" => pending \subseteq pending'
    BY <1>5, SignalKeeps DEF EnqueuePlay, PlayPosition
  <2> QED  BY <1>5, <2>1 DEF EnqueuePlay, Answered, PlayPosition, EnqueueDone
<1>6. CASE EnqueuePause
  <2>1. link' = "up" => pending \subseteq pending'
    BY <1>6, SignalKeeps DEF EnqueuePause, PausePlayer
  <2> QED  BY <1>6, <2>1 DEF EnqueuePause, Answered, PausePlayer, EnqueueDone
<1>7. CASE SuspendStatus \/ SuspendSleep \/ SuspendRecheck
  BY <1>7 DEF SuspendStatus, SuspendSleep, SuspendRecheck, ReadStatus, serverVars, localVars
<1>8. CASE ConnectionLost \/ Refused
  BY <1>8 DEF ConnectionLost, Refused, ReturnError, serverVars, Calls
<1>9. CASE AnswerLost
  BY <1>9 DEF AnswerLost, LinkBreaks, ReturnError, AddSong, Enqueue, PlayPosition, PausePlayer
<1> QED  BY <1>1, <1>2, <1>3, <1>4, <1>5, <1>6, <1>7, <1>8, <1>9

(* The same of the server and its other clients.                           *)
LEMMA OthersDoNotDisturb ==
    ASSUME Environment, ~LibraryChanges
    PROVE  Undisturbing
<1>1. UNCHANGED <<items, options, pc>> /\ pc \notin Ended
  BY DEF Environment, loopVars
<1>2. library' = library /\ (link' = "up" => link = "up" /\ pending \subseteq pending')
  BY SignalKeeps
     DEF Environment, Others, SongEnds, UserMove, UserAdds, Enqueue, UserClears, UserPlays,
         PlayPosition, UserPauses, PausePlayer, UserStops, Disconnect, LinkBreaks
<1> QED  BY <1>1, <1>2 DEF Undisturbing

(* Every step keeps the chain fresh.                                       *)
LEMMA FreshKept ==
    ASSUME FreshInv, [Next]_vars
    PROVE  FreshInv'
<1>1. CASE Idle
  BY <1>1 DEF Idle, Reaction, FreshInv, Ended
<1>2. CASE Reload
  BY <1>2 DEF Reload, Chain!Refill, FreshInv
<1>3. CASE ReloadBroken
  <2>1. link' = "down" /\ options' = options /\ pc = "reload"
    BY <1>3 DEF ReloadBroken, serverVars, Disconnect, LinkBreaks
  <2> QED  BY <2>1 DEF FreshInv
<1>4. CASE Environment /\ LibraryChanges
  <2>1. UNCHANGED <<items, options, pc, link>>
    BY <1>4 DEF Environment, loopVars, LibraryChanges
  <2>2. link' = "up" => "database" \in pending'
    BY <1>4 DEF LibraryChanges, Signal
  <2> QED  BY <2>1, <2>2 DEF FreshInv
<1>5. CASE Environment /\ ~LibraryChanges
  BY <1>5, OthersDoNotDisturb, UndisturbingKeepsFresh
<1>6. CASE UNCHANGED vars
  BY <1>6 DEF FreshInv, vars
<1>7. CASE LoopNext /\ ~Idle /\ ~Reload /\ ~ReloadBroken
  BY <1>7, CallsDoNotDisturb, UndisturbingKeepsFresh DEF LoopNext
<1> QED  BY <1>1, <1>2, <1>3, <1>4, <1>5, <1>6, <1>7 DEF Next

(* An idle loop with no database event to come holds the library's songs,  *)
(* however often the library changed, and whatever the loop was doing.     *)
THEOREM ChainStaysFresh == Spec => []ChainIsFresh
<1>1. Init => FreshInv
  BY DEF Init, FreshInv
<1>2. FreshInv /\ [Next]_vars => FreshInv'
  BY FreshKept
<1>3. FreshInv => ChainIsFresh
  BY DEF FreshInv, ChainIsFresh, Ended
<1> QED  BY <1>1, <1>2, <1>3, PTL DEF Spec

-----------------------------------------------------------------------------
(* No wakeup is lost                                                       *)

(* The library has no say: songs come from a file, or it never changes.    *)
Calm == options.from_file \/ Moves.library = 0

(* A change that the loop has not been told of yet, and that it looks at   *)
(* the queue for.                                                          *)
Reported == pending \cap {"queue", "player"} # {}

(* The loop is able to keep the queue filled.                              *)
Feeding ==
    link = "up" /\ options.play_on_startup /\ options.queue_buffer <= MaxInt

(* While nothing is reported, the queue needs nothing; and by the time     *)
(* TryEnqueue has added a song, the addition itself is to be reported, so  *)
(* that whatever the loop does with an outdated status, it looks again.    *)
WakeInv ==
    /\ Moves.library = 0 => "database" \notin pending
    /\ Calm => pc \notin {"reload", "aborted"} /\ items # <<>>
    /\ Calm /\ Feeding /\ pc = "idle" /\ active => Reported \/ Fed
    /\ Calm /\ Feeding /\ pc \in {"enq_play", "enq_pause"} => Reported

(* The others report a database event only when they update the library.   *)
LEMMA OthersReportUpdates ==
    ASSUME Others, "database" \notin pending, "database" \in pending'
    PROVE  LibraryChanges
BY DEF Others, SongEnds, UserAdds, Enqueue, UserClears, UserPlays, PlayPosition,
       UserPauses, PausePlayer, UserStops, Disconnect, Signal

(* Only an update of the library brings a database event.                  *)
LEMMA OnlyUpdatesAreReported ==
    ASSUME [Next]_vars, "database" \notin pending, "database" \in pending'
    PROVE  Environment /\ LibraryChanges
<1> USE DEF Signal
<1>1. CASE FirstStatus \/ EnqueueStatus \/ SuspendStatus \/ SuspendSleep \/ SuspendRecheck
           \/ ConnectionLost \/ Refused
  BY <1>1 DEF FirstStatus, EnqueueStatus, SuspendStatus, SuspendSleep, SuspendRecheck,
              ConnectionLost, Refused, ReadStatus, serverVars
<1>2. CASE FirstAdd \/ EnqueueAdd
  BY <1>2 DEF FirstAdd, EnqueueAdd, AddSong, Enqueue
<1>3. CASE FirstPlay \/ EnqueuePlay
  BY <1>3 DEF FirstPlay, EnqueuePlay, PlayPosition
<1>4. CASE EnqueuePause
  BY <1>4 DEF EnqueuePause, PausePlayer
<1>5. CASE Idle \/ Reload \/ ReloadBroken
  BY <1>5 DEF Idle, Reload, ReloadBroken, Disconnect, serverVars
<1>6. CASE AnswerLost
  BY <1>6 DEF AnswerLost, AddSong, Enqueue, PlayPosition, PausePlayer
<1>7. CASE Environment
  BY <1>7, OthersReportUpdates DEF Environment
<1>8. CASE UNCHANGED vars
  BY <1>8 DEF vars
<1> QED  BY <1>1, <1>2, <1>3, <1>4, <1>5, <1>6, <1>7, <1>8 DEF Next, LoopNext

(* A library that cannot change does not.                                  *)
LEMMA NoUpdates ==
    ASSUME ServerTypeOK, LibraryChanges
    PROVE  Moves.library # 0
<1>1. moves.library \in 0 .. Moves.library /\ moves.library > 0
  BY DEF ServerTypeOK, LibraryChanges
<1>2. Moves.library \in Nat
  BY ServerAssumption
<1> QED  BY <1>1, <1>2

(* TryEnqueue's arithmetic: when the buffer is an int and the queue needs  *)
(* a song, at least one is asked for.                                      *)
LEMMA ShouldAddMeansNeeded ==
    ASSUME TypeInv, options.queue_buffer <= MaxInt, ShouldAdd(Status)
    PROVE  Needed(Status) > 0
<1>1. options.queue_buffer \in Nat /\ MaxInt \in Nat
  BY LoopAssumption DEF TypeInv
<1>2. Status.len \in Nat /\ Status.pos \in Int /\ (Status.pos = NoPos \/ Status.pos \in Nat)
  BY StatusTypes DEF TypeInv, NoPos
<1> QED  BY <1>1, <1>2 DEF ShouldAdd, Needed, ToInt, SongsRemaining, PastLast, QueueEmpty

(* And when it needs none, there is a current song with enough behind it.  *)
LEMMA NotShouldAddMeansFed ==
    ASSUME TypeInv, ~ShouldAdd(Status)
    PROVE  Fed
<1>1. options.queue_buffer \in Nat
  BY LoopAssumption DEF TypeInv
<1>2. Status.len \in Nat /\ Status.pos \in Int
  BY StatusTypes DEF TypeInv, NoPos
<1>3. Status.pos = pos
  BY DEF Status
<1> QED  BY <1>1, <1>2, <1>3 DEF ShouldAdd, SongsRemaining, PastLast, Fed, Ahead

(* An undisturbing step keeps what is reported.                            *)
LEMMA ReportedStays ==
    ASSUME Undisturbing, Feeding', Reported
    PROVE  Reported'
BY DEF Undisturbing, Feeding, Reported

(* TryEnqueue does not go to sleep on a queue that needs something.        *)
LEMMA EnqueueKeepsWake ==
    ASSUME TypeInv, WakeInv, Undisturbing, Calm', Feeding',
           EnqueueStatus \/ EnqueueAdd \/ EnqueuePlay \/ EnqueuePause
    PROVE  /\ pc' # "aborted"
           /\ pc' = "idle" => Reported' \/ Fed'
           /\ pc' \in {"enq_play", "enq_pause"} => Reported'
<1>1. /\ Calm /\ Feeding /\ items # <<>> /\ link = "up" /\ link' = "up"
      /\ options.queue_buffer <= MaxInt
  BY DEF Undisturbing, Calm, Feeding, WakeInv
<1>2. CASE EnqueueStatus
  <2>1. ShouldAdd(Status) => Needed(Status) > 0
    BY <1>1, ShouldAddMeansNeeded
  <2>2. Needed(Status) \in Int
    BY NeededTypes
  <2>3. CASE ShouldAdd(Status)
    <3>1. PickToAdd("enq_add", Needed(Status))
      BY <1>2, <2>1, <2>2, <2>3 DEF EnqueueStatus
    <3> QED  BY <1>1, <2>2, <3>1, PickingTypes DEF TypeInv
  <2>4. CASE ~ShouldAdd(Status)
    <3>1. Fed /\ pc' = "idle"
      BY <1>2, <2>4, NotShouldAddMeansFed DEF EnqueueStatus, EnqueueDone
    <3>2. UNCHANGED <<queue, pos, player, mode, options>>
      BY <1>2 DEF EnqueueStatus, ReadStatus, serverVars
    <3>3. Fed'
      BY <3>1, <3>2 DEF Fed, Ahead, SongsRemaining, Status, PastLast
    <3> QED  BY <3>1, <3>3
  <2> QED  BY <2>3, <2>4
<1>3. CASE EnqueueAdd
  <2>1. Reported'
    BY <1>1, <1>3 DEF EnqueueAdd, AddSong, Enqueue, Signal, Reported
  <2>2. pc' # "aborted"
    <3>1. needed \in Int /\ pc = "enq_add"
      BY <1>3 DEF TypeInv, EnqueueAdd
    <3>2. CASE PickToAdd("enq_add", needed)
      BY <1>1, <3>1, <3>2, PickingTypes DEF TypeInv
    <3>3. CASE pc' \in {"enq_add", "enq_play", "idle"}
      BY <3>3
    <3> QED  BY <1>3, <3>1, <3>2, <3>3 DEF EnqueueAdd, EnqueueDone
  <2> QED  BY <2>1, <2>2
<1>4. CASE EnqueuePlay \/ EnqueuePause
  <2>1. pc \in {"enq_play", "enq_pause"} /\ pc' \in {"enq_pause", "idle"}
    BY <1>4 DEF EnqueuePlay, EnqueuePause, EnqueueDone
  <2>2. Reported'
    BY <1>1, <2>1, ReportedStays DEF WakeInv
  <2> QED  BY <2>1, <2>2
<1> QED  BY <1>2, <1>3, <1>4

(* Whatever the others do to the queue or the player is reported.          *)
LEMMA OthersAreReported ==
    ASSUME Environment, link' = "up"
    PROVE  Reported' \/ UNCHANGED <<queue, pos, player>>
<1> USE DEF Reported, Signal
<1>1. CASE SongEnds \/ UserAdds \/ UserClears
  BY <1>1 DEF SongEnds, UserAdds, Enqueue, UserClears
<1>2. CASE UserPlays \/ UserPauses \/ UserStops
  BY <1>2 DEF UserPlays, PlayPosition, UserPauses, PausePlayer, UserStops
<1>3. CASE LibraryChanges \/ Disconnect
  BY <1>3 DEF LibraryChanges, Disconnect
<1> QED  BY <1>1, <1>2, <1>3 DEF Environment, Others

(* A step without disturbance that does not end in a call that matters.    *)
LEMMA ElsewhereKeepsWake ==
    ASSUME WakeInv, Undisturbing, Calm',
           Moves.library = 0 => "database" \notin pending',
           pc' # "aborted", pc' \notin {"enq_play", "enq_pause"},
           pc' = "idle" => ~active' \/ Reported' \/ Fed' \/ ~Feeding'
    PROVE  WakeInv'
<1>1. Calm /\ items # <<>> /\ items' = items /\ pc # "reload" /\ pc' # "reload"
  BY DEF Undisturbing, Calm, WakeInv
<1> QED  BY <1>1 DEF WakeInv

(* Every step keeps the loop awake.                                        *)
LEMMA WakeKept ==
    ASSUME TypeInv, WakeInv, [Next]_vars
    PROVE  WakeInv'
<1>1. Moves.library = 0 => "database" \notin pending'
  BY OnlyUpdatesAreReported, NoUpdates DEF WakeInv, TypeInv
<1>2. CASE ~Calm'
  BY <1>1, <1>2 DEF WakeInv
<1>3. CASE Calm' /\ (FirstStatus \/ FirstAdd \/ FirstPlay)
  <2>1. Undisturbing
    BY <1>3, CallsDoNotDisturb
  <2>2. items # <<>>
    BY <1>3, <2>1 DEF Undisturbing, Calm, WakeInv
  <2>3. pc' \in {"enq_status", "first_add", "first_play"}
    <3>1. CASE FirstStatus
      BY <2>2, <3>1, PickingTypes DEF FirstStatus, TypeInv
    <3>2. CASE FirstAdd \/ FirstPlay
      BY <3>2 DEF FirstAdd, FirstPlay
    <3> QED  BY <1>3, <3>1, <3>2
  <2> QED  BY <1>1, <1>3, <2>1, <2>3, ElsewhereKeepsWake
<1>4. CASE Calm' /\ (EnqueueStatus \/ EnqueueAdd \/ EnqueuePlay \/ EnqueuePause)
  <2>1. Undisturbing
    BY <1>4, CallsDoNotDisturb
  <2>2. Calm /\ items # <<>> /\ items' = items /\ pc # "reload" /\ pc' # "reload"
    BY <1>4, <2>1 DEF Undisturbing, Calm, WakeInv
  <2>3. pc' # "aborted"
    <3>1. CASE EnqueueStatus
      BY <2>2, <3>1, PickingTypes, NeededTypes DEF TypeInv, EnqueueStatus, EnqueueDone
    <3>2. CASE EnqueueAdd
      <4>1. pc = "enq_add" /\ needed \in Int
        BY <3>2 DEF TypeInv, EnqueueAdd
      <4> QED  BY <2>2, <3>2, <4>1, PickingTypes DEF TypeInv, EnqueueAdd, EnqueueDone
    <3>3. CASE EnqueuePlay \/ EnqueuePause
      BY <3>3 DEF EnqueuePlay, EnqueuePause, EnqueueDone
    <3> QED  BY <1>4, <3>1, <3>2, <3>3
  <2>4. Feeding' => /\ pc' = "idle" => Reported' \/ Fed'
                    /\ pc' \in {"enq_play", "enq_pause"} => Reported'
    BY <1>4, <2>1, EnqueueKeepsWake
  <2> QED  BY <1>1, <2>2, <2>3, <2>4 DEF WakeInv
<1>5. CASE Calm' /\ Idle
  <2>1. /\ pc = "idle" /\ pc' = Reaction(pending)
        /\ UNCHANGED <<mode, queue, pos, player, link, items, options, active>>
    BY <1>5 DEF Idle
  <2>2. Calm /\ items' # <<>>
    BY <1>5, <2>1 DEF Calm, WakeInv
  <2>3. pc' \in {"exited", "idle", "susp_status", "enq_status"}
    BY <2>1, <2>2 DEF Reaction, Calm, WakeInv
  <2>4. pc' = "idle" => ~Reported
    BY <2>1, <2>2 DEF Reaction, Calm, WakeInv, Reported
  <2>5. pc' = "idle" /\ active' /\ Feeding' => Fed
    BY <2>1, <2>2, <2>4 DEF WakeInv, Feeding
  <2>6. Fed => Fed'
    BY <2>1 DEF Fed, Ahead, SongsRemaining, Status, PastLast
  <2> QED  BY <1>1, <2>2, <2>3, <2>5, <2>6 DEF WakeInv
<1>6. CASE Calm' /\ (Reload \/ ReloadBroken)
  <2>1. pc = "reload" /\ options' = options
    BY <1>6 DEF Reload, ReloadBroken
  <2> QED  BY <1>6, <2>1 DEF Calm, WakeInv
<1>7. CASE Calm' /\ (SuspendStatus \/ SuspendSleep \/ SuspendRecheck)
  <2>1. Undisturbing
    BY <1>7, CallsDoNotDisturb
  <2>2. /\ pc' \in {"susp_sleep", "susp_recheck", "enq_status", "idle"}
        /\ pc' = "idle" => ~active'
    BY <1>7 DEF SuspendStatus, SuspendSleep, SuspendRecheck, localVars
  <2> QED  BY <1>1, <1>7, <2>1, <2>2, ElsewhereKeepsWake
<1>8. CASE Calm' /\ (ConnectionLost \/ Refused \/ AnswerLost)
  <2>1. Undisturbing /\ pc' = "returned"
    BY <1>8, CallsDoNotDisturb DEF ConnectionLost, Refused, AnswerLost, ReturnError
  <2> QED  BY <1>1, <1>8, <2>1, ElsewhereKeepsWake
<1>9. CASE Calm' /\ Environment
  <2>1. UNCHANGED <<items, options, pc, active>>
    BY <1>9 DEF Environment, loopVars
  <2>2. Calm
    BY <1>9, <2>1 DEF Calm
  <2>3. ASSUME Feeding'
        PROVE  /\ Feeding /\ (Reported => Reported')
               /\ Reported' \/ UNCHANGED <<queue, pos, player, mode>>
    <3>1. link' = "up" => link = "up" /\ pending \subseteq pending'
      <4>1. CASE LibraryChanges
        BY <4>1, SignalKeeps DEF LibraryChanges
      <4>2. CASE ~LibraryChanges
        BY <1>9, <4>2, OthersDoNotDisturb DEF Undisturbing
      <4> QED  BY <4>1, <4>2
    <3>2. mode' = mode
      BY <1>9
         DEF Environment, Others, SongEnds, UserAdds, Enqueue, UserClears, UserPlays,
             PlayPosition, UserPauses, PausePlayer, UserStops, LibraryChanges, Disconnect
    <3> QED  BY <1>9, <2>1, <2>3, <3>1, <3>2, OthersAreReported DEF Feeding, Reported
  <2>4. UNCHANGED <<queue, pos, player, mode>> => (Fed => Fed')
    BY <2>1 DEF Fed, Ahead, SongsRemaining, Status, PastLast
  <2> QED  BY <1>1, <2>1, <2>2, <2>3, <2>4 DEF WakeInv
<1>10. CASE UNCHANGED vars
  <2>1. /\ UNCHANGED <<mode, queue, pos, player, link, pending, items, options, pc, active>>
    BY <1>10 DEF vars
  <2>2. Fed' = Fed /\ Feeding' = Feeding /\ Reported' = Reported /\ Calm' = Calm
    BY <2>1 DEF Fed, Ahead, SongsRemaining, Status, PastLast, Feeding, Reported, Calm
  <2> QED  BY <2>1, <2>2 DEF WakeInv
<1> QED  BY <1>2, <1>3, <1>4, <1>5, <1>6, <1>7, <1>8, <1>9, <1>10 DEF Next, LoopNext

(* The invariant at the start: without play_on_startup the loop owes       *)
(* nothing yet.                                                            *)
LEMMA WakeAtFirst ==
    ASSUME Init
    PROVE  WakeInv
BY DEF Init, ServerInit, WakeInv, Feeding

(* What the invariant says of a loop that blocks.                          *)
LEMMA WakeIsEnough ==
    ASSUME WakeInv, Calm
    PROVE  BlocksOnlyWhenFed /\ NeverPicksFromEmpty
BY DEF WakeInv, BlocksOnlyWhenFed, NeverPicksFromEmpty, Feeding, Reported

(* With --file, no update of the library costs a wakeup or empties the     *)
(* chain.                                                                  *)
THEOREM FileStaysUndisturbed == Spec => []FileIsUndisturbed
<1>1. Init => TypeInv /\ WakeInv
  BY TypesAtFirst, WakeAtFirst
<1>2. TypeInv /\ WakeInv /\ [Next]_vars => TypeInv' /\ WakeInv'
  BY TypesKept, WakeKept
<1>3. WakeInv => FileIsUndisturbed
  BY WakeIsEnough DEF FileIsUndisturbed, Calm
<1> QED  BY <1>1, <1>2, <1>3, PTL DEF Spec

(* As long as the library stays as it is, the loop blocks only when the    *)
(* queue has what the buffer asks for, whatever other clients do to the    *)
(* queue and the player, and whenever they do it.                          *)
THEOREM BlocksWhenFed ==
    ASSUME Moves.library = 0
    PROVE  Spec => []BlocksOnlyWhenFed
<1>1. Init => TypeInv /\ WakeInv
  BY TypesAtFirst, WakeAtFirst
<1>2. TypeInv /\ WakeInv /\ [Next]_vars => TypeInv' /\ WakeInv'
  BY TypesKept, WakeKept
<1>3. WakeInv => BlocksOnlyWhenFed
  BY WakeIsEnough DEF Calm
<1> QED  BY <1>1, <1>2, <1>3, PTL DEF Spec

-----------------------------------------------------------------------------
(* The loop plays what it added                                            *)

(* Nothing plays, and what has joined the queue since its status was read  *)
(* was added by ashuffle.                                                  *)
Untouched ==
    /\ player # "play"
    /\ st.len <= Len(queue)
    /\ \A i \in st.len + 1 .. Len(queue) : queue[i] = "ashuffle"

(* While the loop is on its way to playing a song, the status it works on  *)
(* is outdated only by its own additions.                                  *)
OwnInv ==
    /\ pc \in {"first_add", "first_play"} => Untouched
    /\ pc \in {"enq_add", "enq_play"} /\ (PastLast(st) \/ QueueEmpty(st)) => Untouched
    /\ pc = "enq_play" => PastLast(st) \/ QueueEmpty(st)

(* Just after the status was read, with nothing playing.                   *)
LEMMA UntouchedAtFirst ==
    ASSUME TypeInv, st' = Status, UNCHANGED <<queue, player>>,
           ~Status.playing \/ PastLast(Status) \/ QueueEmpty(Status)
    PROVE  Untouched'
<1>1. /\ Len(queue) \in Nat /\ pos \in {NoPos} \cup (0 .. Len(queue) - 1)
      /\ pos = NoPos => player = "stop"
  BY DEF TypeInv, ServerTypeOK
<1>2. st'.len = Len(queue) /\ player' = player /\ queue' = queue
  BY DEF Status
<1>3. player # "play"
  <2>1. Status.playing <=> player = "play"
    BY Zenon DEF Status
  <2>2. CASE PastLast(Status) \/ QueueEmpty(Status)
    <3>1. Status.pos = pos /\ Status.len = Len(queue)
      BY DEF Status
    <3> QED  BY <1>1, <2>2, <3>1 DEF PastLast, QueueEmpty
  <2> QED  BY <2>1, <2>2
<1> QED  BY <1>1, <1>2, <1>3 DEF Untouched

(* And after a song was added.                                             *)
LEMMA UntouchedByAdding ==
    ASSUME TypeInv, Untouched, AddSong, st' = st
    PROVE  Untouched'
<1>1. queue \in Seq(Owners) /\ Len(queue) \in Nat /\ st.len \in Nat
  BY ServerAssumption DEF TypeInv, ServerTypeOK
<1>2. queue' = Append(queue, "ashuffle") /\ player' = player
  BY DEF AddSong, Enqueue
<1>3. "ashuffle" \in Owners
  BY DEF Owners
<1>4. /\ Len(queue') = Len(queue) + 1
      /\ \A i \in 1 .. Len(queue) : queue'[i] = queue[i]
      /\ queue'[Len(queue) + 1] = "ashuffle"
  BY <1>1, <1>2, <1>3, AppendProperties
<1>5. st.len <= Len(queue) /\ \A i \in st.len + 1 .. Len(queue) : queue[i] = "ashuffle"
  BY DEF Untouched
<1>6. ASSUME NEW i \in st.len + 1 .. Len(queue')  PROVE  queue'[i] = "ashuffle"
  BY <1>1, <1>4, <1>5, <1>6
<1> QED  BY <1>1, <1>2, <1>4, <1>5, <1>6 DEF Untouched

(* Users without a move left make none.                                    *)
LEMMA NoUsers ==
    ASSUME ServerTypeOK, Moves.user = 0
    PROVE  ~UserMove
BY DEF ServerTypeOK, UserMove

(* Unless a user makes a move, a silent player stays silent and the queue  *)
(* stays as it is.                                                         *)
LEMMA NobodyTouches ==
    ASSUME ~UserMove, Others, player # "play"
    PROVE  UNCHANGED <<queue, pos, player>>
<1>1. LibraryChanges \/ Disconnect
  BY DEF Others, SongEnds, UserAdds, UserClears, UserPlays, UserPauses, UserStops
<1> QED  BY <1>1 DEF LibraryChanges, Disconnect

(* Every step that is no user's keeps the invariant.                       *)
LEMMA OwnKept ==
    ASSUME TypeInv, OwnInv, ~UserMove, [Next]_vars
    PROVE  OwnInv'
<1>1. CASE FirstStatus
  <2>1. CASE Status.playing
    BY <1>1, <2>1 DEF FirstStatus, OwnInv
  <2>2. CASE ~Status.playing
    <3>1. st' = Status /\ PickToAdd("first_add", 0) /\ UNCHANGED <<queue, player>>
      BY <1>1, <2>2 DEF FirstStatus, ReadStatus, serverVars
    <3>2. Untouched'
      BY <2>2, <3>1, UntouchedAtFirst
    <3>3. pc' \in {"first_add", "aborted"}
      BY <3>1, PickToAddKeeps
    <3> QED  BY <3>2, <3>3 DEF OwnInv
  <2> QED  BY <2>1, <2>2
<1>2. CASE FirstAdd
  <2>1. Untouched'
    BY <1>2, UntouchedByAdding DEF FirstAdd, OwnInv
  <2>2. pc' \in {"first_add", "first_play"}
    BY <1>2 DEF FirstAdd
  <2> QED  BY <2>1, <2>2 DEF OwnInv
<1>3. CASE EnqueueStatus
  <2>1. UNCHANGED <<queue, player>>
    BY <1>3 DEF EnqueueStatus, ReadStatus, serverVars
  <2>2. CASE pc' = "idle"
    BY <2>2 DEF OwnInv
  <2>3. CASE st' = Status /\ PickToAdd("enq_add", Needed(Status))
    <3>1. pc' \in {"enq_add", "aborted"}
      BY <2>3, PickToAddKeeps
    <3>2. PastLast(Status) \/ QueueEmpty(Status) => Untouched'
      BY <2>1, <2>3, UntouchedAtFirst
    <3>3. PastLast(st)' = PastLast(Status) /\ QueueEmpty(st)' = QueueEmpty(Status)
      BY <2>3 DEF PastLast, QueueEmpty
    <3> QED  BY <3>1, <3>2, <3>3 DEF OwnInv
  <2>4. CASE st' = Status /\ pc' = "enq_play" /\ (PastLast(Status) \/ QueueEmpty(Status))
    <3>1. Untouched'
      BY <2>1, <2>4, UntouchedAtFirst
    <3>2. (PastLast(st) \/ QueueEmpty(st))'
      BY <2>4 DEF PastLast, QueueEmpty
    <3> QED  BY <2>4, <3>1, <3>2 DEF OwnInv
  <2> QED  BY <1>3, <2>2, <2>3, <2>4 DEF EnqueueStatus, EnqueueDone
<1>4. CASE EnqueueAdd
  <2>1. CASE pc' = "idle"
    BY <2>1 DEF OwnInv
  <2>2. CASE pc' # "idle"
    <3>1. st' = st /\ pc = "enq_add" /\ AddSong
      BY <1>4, <2>2 DEF EnqueueAdd, EnqueueDone
    <3>2. PastLast(st) \/ QueueEmpty(st) => Untouched'
      BY <3>1, UntouchedByAdding DEF OwnInv
    <3>3. PastLast(st)' = PastLast(st) /\ QueueEmpty(st)' = QueueEmpty(st)
      BY <3>1 DEF PastLast, QueueEmpty
    <3>4. /\ pc' \in {"enq_add", "enq_play", "aborted"}
          /\ pc' = "enq_play" => PastLast(st) \/ QueueEmpty(st)
      BY <1>4, <2>2, PickToAddKeeps DEF EnqueueAdd, EnqueueDone
    <3> QED  BY <3>2, <3>3, <3>4 DEF OwnInv
  <2> QED  BY <2>1, <2>2
<1>5. CASE Environment
  <2>1. UNCHANGED <<pc, st>>
    BY <1>5 DEF Environment, loopVars
  <2>2. Untouched => Untouched'
    BY <1>5, <2>1, NobodyTouches DEF Untouched, Environment
  <2> QED  BY <2>1, <2>2 DEF OwnInv, PastLast, QueueEmpty
<1>6. CASE UNCHANGED vars
  BY <1>6 DEF vars, OwnInv, Untouched, PastLast, QueueEmpty
<1>7. CASE \/ FirstPlay \/ EnqueuePlay \/ EnqueuePause
           \/ Idle \/ Reload \/ ReloadBroken
           \/ SuspendStatus \/ SuspendSleep \/ SuspendRecheck
           \/ ConnectionLost \/ Refused \/ AnswerLost
  <2>1. pc' \notin {"first_add", "first_play", "enq_add", "enq_play"}
    BY <1>7
       DEF FirstPlay, EnqueuePlay, EnqueuePause, EnqueueDone, Idle, Reaction, Reload,
           ReloadBroken, SuspendStatus, SuspendSleep, SuspendRecheck,
           ConnectionLost, Refused, AnswerLost, ReturnError
  <2> QED  BY <2>1 DEF OwnInv
<1> QED  BY <1>1, <1>2, <1>3, <1>4, <1>5, <1>6, <1>7 DEF Next, LoopNext

(* With nobody else at the queue, every song the loop starts is one that   *)
(* it has added, whatever the playback mode, the buffer and the groups.    *)
THEOREM PlaysOwnSongs ==
    ASSUME Moves.user = 0
    PROVE  Spec => PlaysItsOwnSong
<1>1. Init => TypeInv /\ OwnInv
  BY TypesAtFirst DEF Init, OwnInv
<1>2. TypeInv /\ OwnInv /\ [Next]_vars => TypeInv' /\ OwnInv'
  BY TypesKept, OwnKept, NoUsers DEF TypeInv
<1>3. TypeInv /\ OwnInv => [(FirstPlay \/ EnqueuePlay) => queue[pos' + 1] = "ashuffle"]_vars
  <2> SUFFICES ASSUME TypeInv, OwnInv, FirstPlay \/ EnqueuePlay
               PROVE  queue[pos' + 1] = "ashuffle"
    OBVIOUS
  <2>1. Untouched /\ PlayPosition(st.len)
    BY DEF OwnInv, FirstPlay, EnqueuePlay
  <2>2. pos' = st.len /\ st.len \in 0 .. Len(queue) - 1 /\ Len(queue) \in Nat
    BY <2>1 DEF PlayPosition, TypeInv, ServerTypeOK
  <2> QED  BY <2>1, <2>2 DEF Untouched
<1> QED  BY <1>1, <1>2, <1>3, PTL DEF Spec, PlaysItsOwnSong

-----------------------------------------------------------------------------
(* A suspended loop keeps its hands off                                    *)

(* Suspended, the loop only waits for events, looks at the queue's length  *)
(* and reloads; it looks because it was asked to with suspend-timeout.     *)
Suspending == {"susp_status", "susp_sleep", "susp_recheck"}
Watching == {"idle", "reload"} \cup Suspending

SilenceInv ==
    /\ pc \in Suspending => options.suspend
    /\ ~active => options.suspend /\ pc \in Watching \cup Ended

(* Only the handler itself changes its mind, and only at its end.          *)
LEMMA OthersKeepActive ==
    ASSUME LoopNext, ~SuspendRecheck
    PROVE  active' = active
BY DEF LoopNext, FirstStatus, FirstAdd, FirstPlay, EnqueueStatus, EnqueueAdd, EnqueuePlay,
       EnqueuePause, Idle, Reload, ReloadBroken, SuspendStatus, SuspendSleep,
       ConnectionLost, Refused, AnswerLost, ReturnError, localVars

(* Every step keeps a suspended loop at its watching.                      *)
LEMMA SilenceKept ==
    ASSUME SilenceInv, [Next]_vars
    PROVE  SilenceInv'
<1> USE DEF Suspending, Watching, Ended
<1>1. CASE SuspendRecheck
  BY <1>1 DEF SuspendRecheck, SilenceInv
<1>2. CASE Idle \/ Reload \/ ReloadBroken \/ SuspendStatus \/ SuspendSleep
  BY <1>2 DEF Idle, Reaction, Reload, ReloadBroken, SuspendStatus, SuspendSleep, localVars,
              SilenceInv
<1>3. CASE ConnectionLost \/ Refused \/ AnswerLost
  BY <1>3 DEF ConnectionLost, Refused, AnswerLost, ReturnError, SilenceInv
<1>4. CASE \/ FirstStatus \/ FirstAdd \/ FirstPlay
           \/ EnqueueStatus \/ EnqueueAdd \/ EnqueuePlay \/ EnqueuePause
  <2>1. pc \notin Watching \cup Ended
    BY <1>4 DEF FirstStatus, FirstAdd, FirstPlay, EnqueueStatus, EnqueueAdd, EnqueuePlay,
                EnqueuePause
  <2>2. active
    BY <2>1 DEF SilenceInv
  <2>3. Undisturbing /\ active' = active
    BY <1>4, CallsDoNotDisturb, OthersKeepActive
       DEF LoopNext, SuspendRecheck, FirstStatus, FirstAdd, FirstPlay, EnqueueStatus,
           EnqueueAdd, EnqueuePlay, EnqueuePause
  <2>4. pc' \notin Suspending
    BY <1>4, PickToAddKeeps
       DEF FirstStatus, FirstAdd, FirstPlay, EnqueueStatus, EnqueueAdd, EnqueuePlay,
           EnqueuePause, EnqueueDone
  <2> QED  BY <2>2, <2>3, <2>4 DEF SilenceInv
<1>5. CASE Environment \/ UNCHANGED vars
  BY <1>5 DEF Environment, loopVars, vars, SilenceInv
<1> QED  BY <1>1, <1>2, <1>3, <1>4, <1>5 DEF Next, LoopNext

(* Watching touches neither the queue nor the player.                      *)
LEMMA SilenceIsEnough ==
    ASSUME SilenceInv, LoopNext, ~active
    PROVE  UNCHANGED <<queue, pos, player>>
<1>1. pc \in Watching \cup Ended
  BY DEF SilenceInv
<1> QED  BY <1>1
         DEF Watching, Suspending, Ended, LoopNext, FirstStatus, FirstAdd, FirstPlay,
             EnqueueStatus, EnqueueAdd, EnqueuePlay, EnqueuePause, Idle, Reload,
             ReloadBroken, Disconnect, SuspendStatus, SuspendSleep, SuspendRecheck,
             ReadStatus, ConnectionLost, Refused, AnswerLost, serverVars

(* A suspended loop changes neither the queue nor the player, whatever the *)
(* events it looks into, the updates it reloads for and the answers it     *)
(* loses, until it has found the queue empty twice.                        *)
THEOREM SuspendedKeepsOff == Spec => SuspendedStaysSilent
<1>1. Init => SilenceInv
  BY DEF Init, SilenceInv, Suspending
<1>2. SilenceInv /\ [Next]_vars => SilenceInv'
  BY SilenceKept
<1>3. SilenceInv => [LoopNext /\ ~active => UNCHANGED <<queue, pos, player>>]_vars
  BY SilenceIsEnough
<1> QED  BY <1>1, <1>2, <1>3, PTL DEF Spec, SuspendedStaysSilent

-----------------------------------------------------------------------------
(* The loop adds no more than was asked for                                *)

Asked == Max({options.queue_buffer, 1})

(* What was added since the status was read.                               *)
Added == Len(queue) - st.len

(* What is still to be added stays within what is asked for, but for the   *)
(* rest of the last group.  Past the last song the player is silent, and   *)
(* the first song to be added will be the current one: it does not count   *)
(* as one ahead.  Otherwise songs may end meanwhile, and only less is      *)
(* ahead than the loop thinks.                                             *)
FillInv ==
    /\ NeverOverfills
    /\ pc = "first_status" => Ahead = 0
    /\ pc = "first_add" => \E size \in GroupSizes :
           Ahead + Len(todo) <= size /\ Added + Len(todo) <= size
    /\ pc = "first_play" => \E size \in GroupSizes : Ahead <= size /\ Added <= size
    /\ pc = "enq_add" => \E size \in GroupSizes : needed >= 1 - size
    /\ pc = "enq_add" /\ PastLast(st) =>
           pos = NoPos /\ Added + Len(todo) + needed <= Asked + 1
    /\ pc = "enq_add" /\ ~PastLast(st) => Ahead + Len(todo) + needed <= Asked
    /\ pc = "enq_play" => \E size \in GroupSizes : Added <= Asked + size
    /\ pc \in {"enq_add", "enq_play"} => (QueueEmpty(st) => PastLast(st))

(* The larger of a number and one is a number.                             *)
LEMMA AskedIs ==
    ASSUME options.queue_buffer \in Nat
    PROVE  Asked \in Nat /\ Asked >= options.queue_buffer /\ Asked >= 1
<1> DEFINE b == options.queue_buffer
           S == {b, 1}
<1>1. \E x \in S : \A y \in S : x >= y
  <2>1. CASE b >= 1
    BY <2>1
  <2>2. CASE ~(b >= 1)
    BY <2>2
  <2> QED  BY <2>1, <2>2
<1>2. Asked \in S /\ \A y \in S : Asked >= y
  BY <1>1 DEF Asked, Max
<1> QED  BY <1>2

(* A group has at least one song.                                          *)
LEMMA SizesAre ==
    ASSUME items \in Seq(Group)
    PROVE  GroupSizes \subseteq Nat \ {0} /\ 1 \in GroupSizes
<1>1. ASSUME NEW i \in 1 .. Len(items)  PROVE  Len(items[i]) \in Nat \ {0}
  <2>1. items[i] \in Seq(Song) /\ items[i] # <<>>
    BY <1>1 DEF Group
  <2> QED  BY <2>1, EmptySeq
<1> QED  BY <1>1 DEF GroupSizes

(* The current song is one of the queue's, and plays only if there is one. *)
LEMMA QueueNumbers ==
    ASSUME ServerTypeOK
    PROVE  /\ Len(queue) \in Nat /\ pos \in Int
           /\ pos = NoPos \/ (0 <= pos /\ pos < Len(queue))
           /\ pos = NoPos => player = "stop"
BY DEF ServerTypeOK, NoPos

(* The numbers that FillInv relates.                                       *)
LEMMA Numbers ==
    ASSUME TypeInv
    PROVE  /\ Len(queue) \in Nat /\ pos \in Int
           /\ pos = NoPos \/ (0 <= pos /\ pos < Len(queue))
           /\ pos = NoPos => player = "stop"
           /\ st.len \in Nat /\ st.pos \in Int /\ Len(todo) \in Nat /\ needed \in Int
           /\ options.queue_buffer \in Nat
           /\ Asked \in Nat /\ Asked >= options.queue_buffer /\ Asked >= 1
           /\ GroupSizes \subseteq Nat \ {0} /\ 1 \in GroupSizes
<1>1. options.queue_buffer \in Nat
  BY LoopAssumption DEF TypeInv
<1>2. GroupSizes \subseteq Nat \ {0} /\ 1 \in GroupSizes
  BY SizesAre DEF TypeInv, Facts!ChainWhole
<1>3. /\ todo \in Seq(Song) /\ needed \in Int
      /\ st.len \in 0 .. MaxQueue /\ st.pos \in {NoPos} \cup (0 .. MaxQueue - 1)
      /\ MaxQueue \in Nat
  BY ServerAssumption DEF TypeInv
<1> QED  BY <1>1, <1>2, <1>3, QueueNumbers, AskedIs DEF TypeInv, NoPos

(* How far the queue reaches beyond the current song, before and after a   *)
(* step.                                                                   *)
LEMMA AheadIs ==
    /\ Ahead = IF pos = NoPos THEN 0 ELSE Len(queue) - (pos + 1)
    /\ Ahead' = IF pos' = NoPos THEN 0 ELSE Len(queue') - (pos' + 1)
BY DEF Ahead, SongsRemaining, Status, PastLast

(* A picked group is one of the chain's, and counts towards what is needed.*)
LEMMA PickedSize ==
    ASSUME TypeInv, NEW n \in Int, NEW call, PickToAdd(call, n), pc' = call, call # "aborted"
    PROVE  Len(todo') \in GroupSizes /\ needed' = n - Len(todo')
BY DEF PickToAdd, GroupSizes

(* One song more.                                                          *)
LEMMA AddedSong ==
    ASSUME TypeInv, AddSong
    PROVE  /\ Len(queue') = Len(queue) + 1 /\ pos' = pos
           /\ Ahead \in Nat /\ Ahead' \in Nat
           /\ Ahead' = IF pos = NoPos THEN 0 ELSE Ahead + 1
<1>1. queue \in Seq(Owners) /\ queue' = Append(queue, "ashuffle") /\ pos' = pos
  BY DEF TypeInv, ServerTypeOK, AddSong, Enqueue
<1>2. Len(queue') = Len(queue) + 1
  BY <1>1 DEF Owners
<1> QED  BY <1>1, <1>2, Numbers, AheadIs

(* Unless a user makes a move, the others only take from what is ahead,    *)
(* start no player, and leave the queue of a silent one alone.             *)
LEMMA OthersTakeAway ==
    ASSUME ServerTypeOK, ~UserMove, Others
    PROVE  /\ Ahead \in Nat /\ Ahead' \in Nat /\ Ahead' <= Ahead
           /\ player' = "play" => player = "play"
           /\ player # "play" => UNCHANGED <<queue, pos, player>>
<1>1. SongEnds \/ LibraryChanges \/ Disconnect
  BY DEF Others, UserAdds, UserClears, UserPlays, UserPauses, UserStops
<1>2. CASE LibraryChanges \/ Disconnect
  <2>1. UNCHANGED <<queue, pos, player>>
    BY <1>2 DEF LibraryChanges, Disconnect
  <2> QED  BY <2>1, QueueNumbers, AheadIs
<1>3. CASE SongEnds
  <2>1. player = "play" /\ pos \in 0 .. Len(queue) - 1 /\ Len(queue) \in Nat
    BY <1>3, QueueNumbers DEF SongEnds
  <2>2. CASE ~mode.consume
    <3>1. queue' = queue /\ (pos' = pos + 1 \/ pos' = NoPos)
          /\ (pos' # NoPos => pos' < Len(queue))
      BY <1>3, <2>1, <2>2 DEF SongEnds, NoPos
    <3> QED  BY <2>1, <3>1, AheadIs DEF NoPos
  <2>3. CASE mode.consume
    <3>1. Len(queue') = Len(queue) - 1
      BY <1>3, <2>1, <2>3, SongLeaves DEF ServerTypeOK
    <3>2. (pos' = pos /\ pos < Len(queue')) \/ pos' = NoPos
      BY <1>3, <2>1, <2>3 DEF SongEnds
    <3> QED  BY <2>1, <3>1, <3>2, AheadIs DEF NoPos
  <2> QED  BY <2>1, <2>2, <2>3
<1> QED  BY <1>1, <1>2, <1>3

(* A group in use has a song left to add.                                  *)
LEMMA SongsLeft ==
    ASSUME TypeInv, pc \in {"first_add", "enq_add"}
    PROVE  /\ Len(todo) >= 1 /\ Tail(todo) \in Seq(Song)
           /\ Len(Tail(todo)) = Len(todo) - 1
<1>1. todo \in Seq(Song) /\ todo # <<>>
  BY DEF TypeInv
<1> QED  BY <1>1, HeadTailProperties, EmptySeq

(* The bound depends on chain and options alone.                           *)
LEMMA SameBound ==
    ASSUME items' = items, options' = options
    PROVE  Asked' = Asked /\ GroupSizes' = GroupSizes
BY DEF Asked, GroupSizes

(* So it holds for as long as the queue and its current song do not change.*)
LEMMA QueueKeepsBound ==
    ASSUME NeverOverfills, UNCHANGED <<items, options, queue, pos>>
    PROVE  NeverOverfills' /\ Ahead' = Ahead
BY SameBound, AheadIs DEF NeverOverfills, Asked

(* An add that is due stays within the bound, answered or not.             *)
LEMMA AddKeepsBound ==
    ASSUME TypeInv, FillInv, pc \in {"first_add", "enq_add"}, AddSong,
           items' = items, options' = options
    PROVE  NeverOverfills'
<1>1. /\ Ahead \in Nat /\ Ahead' \in Nat /\ Ahead' <= Ahead + 1
      /\ pos = NoPos => Ahead' = 0
  BY AddedSong
<1>2. Asked \in Nat /\ Asked >= 1 /\ Len(todo) \in Nat /\ Len(todo) >= 1 /\ needed \in Int
  BY Numbers, SongsLeft
<1>3. ASSUME NEW size \in GroupSizes, Ahead' <= Asked + size - 1
      PROVE  NeverOverfills'
  BY <1>3, SameBound DEF NeverOverfills, Asked
<1>4. CASE pc = "first_add"
  <2>1. PICK size \in GroupSizes : Ahead + Len(todo) <= size
    BY <1>4 DEF FillInv
  <2>2. Ahead' <= Asked + size - 1
    BY <1>1, <1>2, <2>1, Numbers
  <2> QED  BY <1>3, <2>2
<1>5. CASE pc = "enq_add"
  <2>1. PICK size \in GroupSizes : needed >= 1 - size
    BY <1>5 DEF FillInv
  <2>2. size \in Nat \ {0}
    BY Numbers
  <2>3. CASE PastLast(st)
    <3>1. Ahead' = 0
      BY <1>1, <1>5, <2>3 DEF FillInv
    <3>2. 0 <= Asked + size - 1
      BY <1>2, <2>2
    <3> QED  BY <1>3, <3>1, <3>2
  <2>4. CASE ~PastLast(st)
    <3>1. Ahead + Len(todo) + needed <= Asked
      BY <1>5, <2>4 DEF FillInv
    <3>2. Ahead' <= Asked + size - 1
      BY <1>1, <1>2, <2>1, <2>2, <3>1
    <3> QED  BY <1>3, <3>2
  <2> QED  BY <2>3, <2>4
<1> QED  BY <1>4, <1>5

(* And so does starting the first of the songs that were added.            *)
LEMMA PlayStaysWithin ==
    ASSUME TypeInv, NEW size \in GroupSizes, Added <= Asked + size, PlayPosition(st.len),
           items' = items, options' = options
    PROVE  NeverOverfills'
<1>1. queue' = queue /\ pos' = st.len
  BY DEF PlayPosition
<1>2. Ahead' <= Asked + size - 1
  BY <1>1, Numbers, AheadIs DEF Added, NoPos
<1> QED  BY <1>2, SameBound DEF NeverOverfills, Asked

(* Which is what both TryFirst and TryEnqueue do.                          *)
LEMMA PlayKeepsBound ==
    ASSUME TypeInv, FillInv, pc \in {"first_play", "enq_play"}, PlayPosition(st.len),
           items' = items, options' = options
    PROVE  NeverOverfills'
<1>1. CASE pc = "first_play"
  <2>1. PICK size \in GroupSizes : Added <= size
    BY <1>1 DEF FillInv
  <2>2. Added <= Asked + size
    BY <2>1, Numbers DEF Added
  <2> QED  BY <2>2, PlayStaysWithin
<1>2. CASE pc = "enq_play"
  BY <1>2, PlayStaysWithin DEF FillInv
<1> QED  BY <1>1, <1>2

(* One song more since the status was read.                                *)
LEMMA AddedMore ==
    ASSUME TypeInv, AddSong, st' = st
    PROVE  Added' = Added + 1 /\ Added \in Int
<1>1. Len(queue') = Len(queue) + 1
  BY AddedSong
<1>2. Len(queue) \in Nat /\ st.len \in Nat
  BY Numbers
<1> QED  BY <1>1, <1>2 DEF Added

(* Adding the first group to a queue that was there before, and playing it.*)
LEMMA FirstKeepsFill ==
    ASSUME TypeInv, FillInv, FirstStatus \/ FirstAdd \/ FirstPlay
    PROVE  FillInv'
<1>1. CASE FirstStatus
  <2>1. UNCHANGED <<queue, pos, options>> /\ items' = items
    BY <1>1, PickToAddKeeps DEF FirstStatus, ReadStatus, serverVars
  <2>2. Ahead' = Ahead /\ Asked' = Asked /\ GroupSizes' = GroupSizes /\ NeverOverfills'
    BY <2>1, QueueKeepsBound, SameBound DEF FillInv
  <2>3. CASE Status.playing
    BY <1>1, <2>2, <2>3 DEF FirstStatus, FillInv
  <2>4. CASE ~Status.playing
    <3>1. PickToAdd("first_add", 0) /\ st' = Status /\ Ahead = 0
      BY <1>1, <2>4 DEF FirstStatus, FillInv
    <3>2. CASE pc' = "aborted"
      BY <2>2, <3>2 DEF FillInv
    <3>3. CASE pc' = "first_add"
      <4>1. Len(todo') \in GroupSizes
        BY <3>1, <3>3, PickedSize
      <4>2. Added' = 0
        BY <2>1, <3>1, Numbers DEF Added, Status
      <4>3. Len(todo') \in Nat
        BY <4>1, Numbers
      <4> QED  BY <2>2, <3>1, <3>3, <4>1, <4>2, <4>3 DEF FillInv
    <3> QED  BY <3>1, <3>2, <3>3, PickToAddKeeps
  <2> QED  BY <2>3, <2>4
<1>2. CASE FirstAdd
  <2>1. UNCHANGED <<items, options, st>> /\ AddSong /\ todo' = Tail(todo)
        /\ pc = "first_add" /\ pc' \in {"first_add", "first_play"}
    BY <1>2 DEF FirstAdd
  <2>2. GroupSizes' = GroupSizes /\ NeverOverfills'
    BY <2>1, SameBound, AddKeepsBound
  <2>3. PICK size \in GroupSizes : Ahead + Len(todo) <= size /\ Added + Len(todo) <= size
    BY <2>1 DEF FillInv
  <2>4. Added' = Added + 1 /\ Added \in Int
    BY <2>1, AddedMore
  <2>5. /\ Ahead' + Len(todo') <= size /\ Added' + Len(todo') <= size
        /\ Ahead' \in Nat /\ Len(todo') \in Nat
    <3>1. Ahead \in Nat /\ Ahead' \in Nat /\ Ahead' <= Ahead + 1
      BY <2>1, AddedSong
    <3>2. Len(todo) \in Nat /\ size \in Nat
      BY Numbers
    <3>3. Len(todo) >= 1 /\ Len(todo') = Len(todo) - 1
      BY <2>1, SongsLeft
    <3> QED  BY <2>3, <2>4, <3>1, <3>2, <3>3
  <2>6. CASE pc' = "first_add"
    BY <2>2, <2>5, <2>6 DEF FillInv
  <2>7. CASE pc' = "first_play"
    <3>1. Added' \in Int /\ size \in Nat
      BY <2>4, Numbers
    <3>2. Ahead' <= size /\ Added' <= size
      BY <2>5, <3>1
    <3> QED  BY <2>2, <2>7, <3>2 DEF FillInv
  <2> QED  BY <2>1, <2>6, <2>7
<1>3. CASE FirstPlay
  <2>1. NeverOverfills' /\ pc' = "enq_status"
    BY <1>3, PlayKeepsBound DEF FirstPlay
  <2> QED  BY <2>1 DEF FillInv
<1> QED  BY <1>1, <1>2, <1>3

(* A player past the last song of what the status says stays there while   *)
(* songs are added.                                                        *)
LEMMA EmptyIsPastLast ==
    ASSUME TypeInv
    PROVE  /\ PastLast(Status) <=> pos = NoPos
           /\ QueueEmpty(Status) => PastLast(Status)
BY Numbers DEF PastLast, QueueEmpty, Status

(* What TryEnqueue works out to be needed.                                 *)
LEMMA NeededIs ==
    ASSUME TypeInv, ShouldAdd(Status)
    PROVE  /\ Needed(Status) \in Int
           /\ pos = NoPos => Needed(Status) <= Asked + 1
           /\ pos # NoPos => Ahead + Needed(Status) <= Asked
<1>1. options.queue_buffer \in Nat /\ MaxInt \in Nat
  BY Numbers, LoopAssumption
<1>2. SongsRemaining(Status) = Ahead /\ Ahead \in Nat /\ (pos = NoPos => Ahead = 0)
  BY Numbers, AheadIs DEF Ahead
<1>3. Asked >= options.queue_buffer /\ Asked >= 1 /\ Asked \in Nat
  BY Numbers
<1>4. ToInt(options.queue_buffer) \in Int /\ ToInt(options.queue_buffer) <= options.queue_buffer
  BY <1>1 DEF ToInt
<1>5. CASE pos = NoPos
  BY <1>1, <1>2, <1>3, <1>4, <1>5 DEF Needed
<1>6. CASE pos # NoPos
  <2>1. ~PastLast(Status) /\ ~QueueEmpty(Status)
    BY <1>6, EmptyIsPastLast
  <2>2. options.queue_buffer # 0
    BY <1>1, <1>2, <2>1 DEF ShouldAdd
  <2>3. Needed(Status) = ToInt(options.queue_buffer) - Ahead
    BY <1>2, <1>4, <2>1, <2>2 DEF Needed
  <2> QED  BY <1>1, <1>2, <1>3, <1>4, <1>6, <2>3
<1> QED  BY <1>5, <1>6

(* Each song that is added is one less to add.                             *)
LEMMA EnqueueKeepsFill ==
    ASSUME TypeInv, FillInv, EnqueueStatus \/ EnqueueAdd \/ EnqueuePlay \/ EnqueuePause
    PROVE  FillInv'
<1>1. CASE EnqueueStatus
  <2>1. UNCHANGED <<queue, pos, options>> /\ items' = items
    BY <1>1, PickToAddKeeps DEF EnqueueStatus, ReadStatus, serverVars
  <2>2. Ahead' = Ahead /\ Asked' = Asked /\ GroupSizes' = GroupSizes /\ NeverOverfills'
    BY <2>1, QueueKeepsBound, SameBound DEF FillInv
  <2>3. CASE pc' = "idle"
    BY <2>2, <2>3 DEF FillInv
  <2>4. ASSUME st' = Status
        PROVE  /\ Added' = 0
               /\ PastLast(st)' <=> PastLast(Status)
               /\ (QueueEmpty(st) => PastLast(st))'
    <3>1. Added' = 0
      BY <2>1, <2>4, Numbers DEF Added, Status
    <3> QED  BY <2>4, <3>1, EmptyIsPastLast DEF PastLast, QueueEmpty
  <2>5. CASE ShouldAdd(Status) /\ Needed(Status) > 0
             /\ st' = Status /\ PickToAdd("enq_add", Needed(Status))
    <3>1. CASE pc' = "aborted"
      BY <2>2, <3>1 DEF FillInv
    <3>2. CASE pc' = "enq_add"
      <4>1. Needed(Status) \in Int /\ Len(todo') \in GroupSizes
            /\ needed' = Needed(Status) - Len(todo')
        BY <2>5, <3>2, NeededIs, PickedSize
      <4>2. Len(todo') \in Nat /\ Asked \in Nat /\ Ahead \in Nat
        BY <4>1, Numbers, AheadIs
      <4>3. needed' >= 1 - Len(todo')
        BY <2>5, <4>1, <4>2
      <4>4. PastLast(st)' => pos' = NoPos /\ Added' + Len(todo') + needed' <= Asked + 1
        BY <2>1, <2>4, <2>5, <4>1, <4>2, NeededIs, EmptyIsPastLast
      <4>5. ~PastLast(st)' => Ahead' + Len(todo') + needed' <= Asked
        BY <2>2, <2>4, <2>5, <4>1, <4>2, NeededIs, EmptyIsPastLast
      <4> QED  BY <2>2, <2>4, <2>5, <3>2, <4>1, <4>3, <4>4, <4>5 DEF FillInv
    <3> QED  BY <2>5, <3>1, <3>2, PickToAddKeeps
  <2>6. CASE st' = Status /\ pc' = "enq_play"
    <3>1. 1 \in GroupSizes' /\ Added' <= Asked' + 1
      BY <2>2, <2>4, <2>6, Numbers
    <3> QED  BY <2>2, <2>4, <2>6, <3>1 DEF FillInv
  <2> QED  BY <1>1, <2>3, <2>5, <2>6 DEF EnqueueStatus, EnqueueDone
<1>2. CASE EnqueueAdd
  <2>1. options' = options /\ items' = items /\ AddSong /\ pc = "enq_add"
    BY <1>2, PickToAddKeeps DEF EnqueueAdd
  <2>2. Asked' = Asked /\ GroupSizes' = GroupSizes /\ NeverOverfills'
    BY <2>1, SameBound, AddKeepsBound
  <2>3. CASE pc' = "idle"
    BY <2>2, <2>3 DEF FillInv
  <2>4. PICK size \in GroupSizes : needed >= 1 - size
    BY <2>1 DEF FillInv
  <2>5. /\ size \in Nat /\ needed \in Int /\ Len(todo) \in Nat /\ Len(todo) >= 1
        /\ Len(Tail(todo)) = Len(todo) - 1 /\ Asked \in Nat
    BY <2>1, <2>4, Numbers, SongsLeft
  <2>6. /\ Ahead \in Nat /\ Ahead' \in Nat /\ Ahead' <= Ahead + 1
        /\ pos' = pos /\ (pos = NoPos => Ahead' = 0)
    BY <2>1, AddedSong
  <2>7. ASSUME st' = st
        PROVE  /\ Added' = Added + 1 /\ Added \in Int
               /\ PastLast(st)' <=> PastLast(st)
               /\ (QueueEmpty(st) => PastLast(st))'
    BY <2>1, <2>7, AddedMore DEF FillInv, PastLast, QueueEmpty
  <2>8. CASE st' = st /\ pc' = "enq_add" /\ todo' = Tail(todo) /\ needed' = needed
    <3>1. PastLast(st)' => pos' = NoPos /\ Added' + Len(todo') + needed' <= Asked + 1
      <4>1. ASSUME PastLast(st)
            PROVE  pos' = NoPos /\ Added' + Len(todo') + needed' <= Asked + 1
        <5>1. pos = NoPos /\ Added + Len(todo) + needed <= Asked + 1
          BY <2>1, <4>1 DEF FillInv
        <5> QED  BY <2>5, <2>6, <2>7, <2>8, <5>1
      <4> QED  BY <2>7, <2>8, <4>1
    <3>2. ~PastLast(st)' => Ahead' + Len(todo') + needed' <= Asked
      <4>1. ASSUME ~PastLast(st)
            PROVE  Ahead' + Len(todo') + needed' <= Asked
        <5>1. Ahead + Len(todo) + needed <= Asked
          BY <2>1, <4>1 DEF FillInv
        <5>2. Len(todo') = Len(todo) - 1 /\ needed' = needed
          BY <2>5, <2>8
        <5> QED  BY <2>5, <2>6, <5>1, <5>2
      <4> QED  BY <2>7, <2>8, <4>1
    <3> QED  BY <2>2, <2>4, <2>7, <2>8, <3>1, <3>2 DEF FillInv
  <2>9. CASE Len(todo) = 1 /\ needed > 0 /\ PickToAdd("enq_add", needed) /\ st' = st
    <3>1. CASE pc' = "aborted"
      BY <2>2, <3>1 DEF FillInv
    <3>2. CASE pc' = "enq_add"
      <4>1. Len(todo') \in GroupSizes /\ needed' = needed - Len(todo')
        BY <2>5, <2>9, <3>2, PickedSize
      <4>2. Len(todo') \in Nat
        BY <4>1, Numbers
      <4>3. needed' >= 1 - Len(todo') /\ Len(todo') + needed' = needed /\ needed' \in Int
        BY <2>5, <2>9, <4>1, <4>2
      <4>4. PastLast(st)' => pos' = NoPos /\ Added' + Len(todo') + needed' <= Asked + 1
        <5>1. ASSUME PastLast(st)
              PROVE  pos' = NoPos /\ Added' + Len(todo') + needed' <= Asked + 1
          <6>1. pos = NoPos /\ Added + Len(todo) + needed <= Asked + 1
            BY <2>1, <5>1 DEF FillInv
          <6> QED  BY <2>5, <2>6, <2>7, <2>9, <4>2, <4>3, <6>1
        <5> QED  BY <2>7, <2>9, <5>1
      <4>5. ~PastLast(st)' => Ahead' + Len(todo') + needed' <= Asked
        <5>1. ASSUME ~PastLast(st)
              PROVE  Ahead' + Len(todo') + needed' <= Asked
          <6>1. Ahead + Len(todo) + needed <= Asked
            BY <2>1, <5>1 DEF FillInv
          <6> QED  BY <2>5, <2>6, <2>9, <4>2, <4>3, <6>1
        <5> QED  BY <2>7, <2>9, <5>1
      <4> QED  BY <2>2, <2>7, <2>9, <3>2, <4>1, <4>3, <4>4, <4>5 DEF FillInv
    <3> QED  BY <2>9, <3>1, <3>2, PickToAddKeeps
  <2>10. CASE Len(todo) = 1 /\ st' = st /\ pc' = "enq_play" /\ (PastLast(st) \/ QueueEmpty(st))
    <3>1. Added + Len(todo) + needed <= Asked + 1
      BY <2>1, <2>10 DEF FillInv
    <3>2. Added' <= Asked + size
      BY <2>4, <2>5, <2>7, <2>10, <3>1
    <3> QED  BY <2>2, <2>7, <2>10, <3>2 DEF FillInv
  <2> QED  BY <1>2, <2>3, <2>8, <2>9, <2>10 DEF EnqueueAdd, EnqueueDone
<1>3. CASE EnqueuePlay
  <2>1. NeverOverfills' /\ pc' \in {"enq_pause", "idle"}
    BY <1>3, PlayKeepsBound DEF EnqueuePlay, EnqueueDone
  <2> QED  BY <2>1 DEF FillInv
<1>4. CASE EnqueuePause
  <2>1. NeverOverfills' /\ pc' = "idle"
    BY <1>4, QueueKeepsBound DEF FillInv, EnqueuePause, EnqueueDone, PausePlayer
  <2> QED  BY <2>1 DEF FillInv
<1> QED  BY <1>1, <1>2, <1>3, <1>4

(* A bound that holds is not broken by songs that end.                     *)
LEMMA LessAheadKeepsBound ==
    ASSUME NeverOverfills, items \in Seq(Group), options.queue_buffer \in Nat,
           UNCHANGED <<items, options>>, Ahead \in Nat, Ahead' \in Nat, Ahead' <= Ahead
    PROVE  NeverOverfills'
<1>1. PICK size \in GroupSizes : Ahead <= Asked + size - 1
  BY DEF NeverOverfills, Asked
<1>2. size \in Nat /\ Asked \in Nat
  BY <1>1, SizesAre, AskedIs
<1>3. Ahead' <= Asked + size - 1
  BY <1>1, <1>2
<1> QED  BY <1>3, SameBound DEF NeverOverfills, Asked

(* A song that ends leaves less ahead; only the loop adds to it.           *)
LEMMA FillKept ==
    ASSUME TypeInv, OwnInv, FillInv, pc # "reload", ~UserMove, [Next]_vars
    PROVE  FillInv'
<1>1. CASE FirstStatus \/ FirstAdd \/ FirstPlay
  BY <1>1, FirstKeepsFill
<1>2. CASE EnqueueStatus \/ EnqueueAdd \/ EnqueuePlay \/ EnqueuePause
  BY <1>2, EnqueueKeepsFill
<1>3. CASE AnswerLost
  <2>1. ReturnError
    BY <1>3 DEF AnswerLost
  <2>2. items' = items /\ options' = options /\ pc' = "returned"
    BY <2>1 DEF ReturnError
  <2>3. NeverOverfills'
    <3>1. CASE pc \in {"first_add", "enq_add"} /\ AddSong
      BY <2>2, <3>1, AddKeepsBound
    <3>2. CASE pc \in {"first_play", "enq_play"} /\ PlayPosition(st.len)
      BY <2>2, <3>2, PlayKeepsBound
    <3>3. CASE PausePlayer
      BY <2>2, <3>3, QueueKeepsBound DEF FillInv, PausePlayer
    <3> QED  BY <1>3, <3>1, <3>2, <3>3 DEF AnswerLost
  <2> QED  BY <2>2, <2>3 DEF FillInv
<1>4. CASE \/ Idle \/ SuspendStatus \/ SuspendSleep \/ SuspendRecheck
           \/ ConnectionLost \/ Refused
  <2>1. UNCHANGED <<items, options, queue, pos>>
    BY <1>4 DEF Idle, SuspendStatus, SuspendSleep, SuspendRecheck, ReadStatus,
                ConnectionLost, Refused, ReturnError, serverVars, localVars
  <2>2. pc' \notin {"first_status", "first_add", "first_play", "enq_add", "enq_play"}
    BY <1>4 DEF Idle, Reaction, SuspendStatus, SuspendSleep, SuspendRecheck,
                ConnectionLost, Refused, ReturnError
  <2> QED  BY <2>1, <2>2, QueueKeepsBound DEF FillInv
<1>5. CASE Environment
  <2>1. UNCHANGED loopVars /\ Ahead \in Nat /\ Ahead' \in Nat /\ Ahead' <= Ahead
    BY <1>5, OthersTakeAway DEF Environment, TypeInv
  <2>2. Asked' = Asked /\ GroupSizes' = GroupSizes /\ UNCHANGED <<pc, st, todo, needed>>
    BY <2>1, SameBound DEF loopVars
  <2>3. Asked \in Nat /\ GroupSizes \subseteq Nat \ {0} /\ Len(todo) \in Nat /\ needed \in Int
    BY Numbers
  <2>4. NeverOverfills'
    BY <2>1, LessAheadKeepsBound, Numbers DEF FillInv, TypeInv, Facts!ChainWhole, loopVars
  <2>5. PastLast(st)' = PastLast(st) /\ QueueEmpty(st)' = QueueEmpty(st)
    BY <2>2 DEF PastLast, QueueEmpty
  <2>6. ASSUME \/ pc \in {"first_add", "first_play", "enq_play"}
               \/ pc = "enq_add" /\ PastLast(st)
        PROVE  Added' = Added /\ pos' = pos
    <3>1. player # "play"
      BY <2>6 DEF OwnInv, Untouched
    <3>2. UNCHANGED <<queue, pos>>
      BY <1>5, <3>1, OthersTakeAway DEF Environment, TypeInv
    <3> QED  BY <2>2, <3>2 DEF Added
  <2>7. pc' = "first_status" => Ahead' = 0
    BY <2>1, <2>2 DEF FillInv
  <2>8. pc' = "first_add" => \E size \in GroupSizes' :
           Ahead' + Len(todo') <= size /\ Added' + Len(todo') <= size
    <3>1. SUFFICES ASSUME pc = "first_add"
                   PROVE  \E size \in GroupSizes :
                             Ahead' + Len(todo) <= size /\ Added' + Len(todo) <= size
      BY <2>2
    <3>2. PICK size \in GroupSizes : Ahead + Len(todo) <= size /\ Added + Len(todo) <= size
      BY <3>1 DEF FillInv
    <3>3. Ahead' + Len(todo) <= size
      BY <2>1, <2>3, <3>2
    <3> QED  BY <2>6, <3>1, <3>2, <3>3
  <2>9. pc' = "first_play" => \E size \in GroupSizes' : Ahead' <= size /\ Added' <= size
    <3>1. SUFFICES ASSUME pc = "first_play"
                   PROVE  \E size \in GroupSizes : Ahead' <= size /\ Added' <= size
      BY <2>2
    <3>2. PICK size \in GroupSizes : Ahead <= size /\ Added <= size
      BY <3>1 DEF FillInv
    <3>3. Ahead' <= size
      BY <2>1, <2>3, <3>2
    <3> QED  BY <2>6, <3>1, <3>2, <3>3
  <2>10. pc' = "enq_add" /\ ~PastLast(st)' => Ahead' + Len(todo') + needed' <= Asked'
    <3>1. SUFFICES ASSUME pc = "enq_add", ~PastLast(st)
                   PROVE  Ahead' + Len(todo) + needed <= Asked
      BY <2>2, <2>5
    <3>2. Ahead + Len(todo) + needed <= Asked
      BY <3>1 DEF FillInv
    <3> QED  BY <2>1, <2>3, <3>2
  <2> QED  BY <2>2, <2>4, <2>5, <2>6, <2>7, <2>8, <2>9, <2>10 DEF FillInv
<1>6. CASE UNCHANGED vars
  BY <1>6, SameBound, QueueKeepsBound DEF vars, FillInv, Added, PastLast, QueueEmpty
<1> QED  BY <1>1, <1>2, <1>3, <1>4, <1>5, <1>6 DEF Next, LoopNext, Reload, ReloadBroken

(* In a queue of at most one song nothing is ahead.                        *)
LEMMA NothingAheadAtFirst ==
    ASSUME ServerInit, ServerTypeOK
    PROVE  Ahead = 0
<1>1. queue = <<>> \/ queue = <<"user">>
  BY DEF ServerInit
<1>2. Len(<<>>) = 0 /\ Len(<<"user">>) = 1
  OBVIOUS
<1>3. Len(queue) = 0 \/ Len(queue) = 1
  BY <1>1, <1>2, Zenon
<1>4. Len(queue) \in Nat /\ (pos = NoPos \/ (pos \in Int /\ 0 <= pos /\ pos < Len(queue)))
  BY QueueNumbers
<1>5. Len(queue) <= 1
  <2>1. 0 <= 1 /\ 1 <= 1
    OBVIOUS
  <2> QED  BY <1>3, <2>1, Zenon
<1> QED  BY <1>4, <1>5, AheadIs

(* With nobody else at the queue and a library that stays as it is, the    *)
(* loop is never further ahead of the player than the buffer asks for,     *)
(* rounded up by the rest of a group: not while it adds, when songs end    *)
(* meanwhile, nor when an answer is lost or an add is refused.             *)
THEOREM NeverTooFarAhead ==
    ASSUME Moves.user = 0, Moves.library = 0
    PROVE  Spec => []NeverOverfills
<1>1. Init => TypeInv /\ OwnInv /\ WakeInv /\ FillInv
  <2> SUFFICES ASSUME Init  PROVE  FillInv
    BY TypesAtFirst, WakeAtFirst DEF Init, OwnInv
  <2>1. TypeInv
    BY TypesAtFirst
  <2>2. Ahead = 0
    BY <2>1, NothingAheadAtFirst DEF Init, TypeInv
  <2>3. 1 \in GroupSizes /\ Ahead <= Asked + 1 - 1
    BY <2>1, <2>2, Numbers
  <2>4. NeverOverfills
    BY <2>3 DEF NeverOverfills, Asked
  <2> QED  BY <2>2, <2>4 DEF Init, FillInv
<1>2. TypeInv /\ OwnInv /\ WakeInv /\ FillInv /\ [Next]_vars
        => TypeInv' /\ OwnInv' /\ WakeInv' /\ FillInv'
  BY TypesKept, OwnKept, WakeKept, FillKept, NoUsers DEF TypeInv, WakeInv, Calm
<1>3. FillInv => NeverOverfills
  BY DEF FillInv
<1> QED  BY <1>1, <1>2, <1>3, PTL DEF Spec
=============================================================================
