--------------------------------- MODULE Loop ---------------------------------
(***************************************************************************)
(* ashuffle's core loop (src/src/ashuffle.cc: TryFirst, TryEnqueue, Loop)  *)
(* driving the shuffle chain and the MPD server.  The loop is one thread.  *)
(* It takes one action per call to the server, together with what it       *)
(* computes until the next call; between two of its actions the server     *)
(* and its other clients do as they please.                                *)
(***************************************************************************)
EXTENDS MPDServer

CONSTANTS OptionSet,      \* the command lines tried
          Loaded,         \* what MPDLoader::Load adds, per library content
          FileItems,      \* what the file given with --file came to
          MaxWindow,      \* the size of the chain's window
          MaxInt          \* the largest int

VARIABLES items, window, pool,  \* the shuffle chain
          options,        \* the options ashuffle was started with
          pc,             \* the call the loop is about to make
          st,             \* the MPD status TryFirst or TryEnqueue works on
          todo,           \* the songs of the picked group still to be added
          needed,         \* how many more songs TryEnqueue wants after those
          active          \* FALSE while ashuffle is suspended

Group == Seq(Song) \ {<<>>}

ASSUME LoopAssumption ==
    /\ OptionSet \subseteq [play_on_startup : BOOLEAN, queue_buffer : Nat,
                            exit_on_db_update : BOOLEAN, suspend : BOOLEAN,
                            from_file : BOOLEAN, check_uris : BOOLEAN,
                            queue_only : Nat]
    /\ Loaded \in [SUBSET Song -> Seq(Group)]
    /\ FileItems \in Seq(Group)
    /\ MaxWindow \in Nat \ {0}
    /\ MaxInt \in Nat /\ MaxQueue <= MaxInt
    \* where needed += 1 is undefined
    /\ \A o \in OptionSet : o.queue_buffer # MaxInt

Chain == INSTANCE ShuffleChain WITH Item <- Group, MaxItems <- Cardinality(Song)

localVars == <<items, window, pool, options, st, todo, needed, active>>
loopVars == <<items, window, pool, options, pc, st, todo, needed, active>>
vars == <<library, mode, queue, pos, player, link, pending, moves,
          items, window, pool, options, pc, st, todo, needed, active>>

(* Where the process has ended: std::exit in Loop, Die in the loader, the  *)
(* assertion in Pick; or where Loop has returned an error to main.         *)
Ended == {"exited", "died", "aborted", "returned"}

Calls == {"first_status", "first_add", "first_play",
          "enq_status", "enq_add", "enq_play", "enq_pause",
          "idle", "susp_status", "susp_sleep", "susp_recheck", "reload"}

Status == [len |-> Len(queue), pos |-> pos, playing |-> player = "play",
           single |-> mode.single]

NoStatus == [len |-> 0, pos |-> NoPos, playing |-> FALSE, single |-> FALSE]

(* What the loop works on.                                                 *)
DataTypeOK ==
    /\ items \in Seq(Group)
    /\ window \in Seq(1 .. Len(items))
    /\ pool \subseteq 1 .. Len(items)
    /\ options \in OptionSet
    /\ st \in [len : 0 .. MaxQueue, pos : {NoPos} \cup (0 .. MaxQueue - 1),
               playing : BOOLEAN, single : BOOLEAN]
    /\ todo \in Seq(Song)
    /\ pc \in {"first_add", "enq_add"} => todo # <<>>
    /\ needed \in Int
    /\ active \in BOOLEAN

LoopTypeOK == ServerTypeOK /\ DataTypeOK /\ pc \in Calls \cup Ended

(* Loop is entered with the chain loaded; main has made sure that it is    *)
(* not empty.                                                              *)
Init ==
    /\ ServerInit
    /\ options \in OptionSet
    /\ items = IF options.from_file THEN FileItems ELSE Loaded[library]
    /\ items # <<>>
    /\ window = <<>>
    /\ pool = 1 .. Len(items)
    /\ pc = IF options.play_on_startup THEN "first_status" ELSE "idle"
    /\ st = NoStatus
    /\ todo = <<>>
    /\ needed = 0
    /\ active = TRUE

-----------------------------------------------------------------------------
(* Pick a group of songs to pass to Add, wanting n songs.  The assertion   *)
(* in Pick ends the process when the chain is empty.                       *)
PickToAdd(call, n) ==
    \/ /\ items = <<>>
       /\ pc' = "aborted"
       /\ todo' = <<>>
       /\ needed' = 0
       /\ UNCHANGED <<items, window, pool>>
    \/ \E i \in 1 .. Len(items) :
          /\ Chain!Pick(i)
          /\ pc' = call
          /\ todo' = items[i]
          /\ needed' = n - Len(items[i])

(* mpd->Add(vector) adds one song after the other.                         *)
AddSong ==
    /\ Head(todo) \in library
    /\ Enqueue("ashuffle")

(* A command is carried out and its answer received.                       *)
Answered == link = "up" /\ UNCHANGED <<link, moves>>

ReadStatus ==
    /\ link = "up"
    /\ UNCHANGED serverVars

(* TryFirst                                                                *)

FirstStatus ==
    /\ pc = "first_status"
    /\ ReadStatus
    /\ IF Status.playing
       THEN /\ pc' = "enq_status"
            /\ UNCHANGED <<items, window, pool, st, todo, needed>>
       ELSE /\ st' = Status
            /\ PickToAdd("first_add", 0)
    /\ UNCHANGED <<options, active>>

(* Mutant: the end of the group goes unnoticed.                            *)
FirstAddForever ==
    /\ pc = "first_add"
    /\ Answered
    /\ AddSong
    /\ todo' = Tail(todo)
    /\ UNCHANGED <<items, window, pool, options, pc, st, needed, active>>

FirstAdd ==
    /\ pc = "first_add"
    /\ Answered
    /\ AddSong
    /\ todo' = Tail(todo)
    /\ pc' = IF todo' = <<>> THEN "first_play" ELSE "first_add"
    /\ UNCHANGED <<items, window, pool, options, st, needed, active>>

FirstPlay ==
    /\ pc = "first_play"
    /\ Answered
    /\ PlayPosition(st.len)
    /\ pc' = "enq_status"
    /\ st' = NoStatus
    /\ needed' = 0
    /\ UNCHANGED <<items, window, pool, options, todo, active>>

(* TryEnqueue                                                              *)

PastLast(s) == s.pos = NoPos
QueueEmpty(s) == s.len = 0
SongsRemaining(s) == IF PastLast(s) THEN 0 ELSE s.len - (s.pos + 1)

(* Mutant: being past the last song is no reason to add one.               *)
ShouldAddToBuffer(s) ==
    \/ SongsRemaining(s) < options.queue_buffer
    \/ QueueEmpty(s)

ShouldAdd(s) ==
    \/ PastLast(s)
    \/ SongsRemaining(s) < options.queue_buffer
    \/ QueueEmpty(s)

(* Mutant: the song about to be played is counted twice.                   *)
NeededOneMore(s) ==
    IF options.queue_buffer = 0 THEN 2
    ELSE options.queue_buffer - SongsRemaining(s)
           + (IF PastLast(s) \/ QueueEmpty(s) THEN 2 ELSE 1)

(* Mutant: the song about to be played is not counted.                     *)
NeededBehindOnly(s) == options.queue_buffer - SongsRemaining(s)

(* static_cast<int>                                                        *)
ToInt(n) == IF n <= MaxInt THEN n ELSE n - 2 * (MaxInt + 1)

(* Without a queue buffer one group is picked, whatever its size, which is *)
(* what wanting one song amounts to.                                       *)
Needed(s) ==
    IF options.queue_buffer = 0 THEN 1
    ELSE ToInt(options.queue_buffer) - SongsRemaining(s)
           + (IF PastLast(s) \/ QueueEmpty(s) THEN 1 ELSE 0)

EnqueueDone ==
    /\ pc' = "idle"
    /\ st' = NoStatus

(* With a buffer that is no int, the songs needed are less than none; the  *)
(* one that was not added may be asked to be played all the same.          *)
EnqueueStatus ==
    /\ pc = "enq_status"
    /\ ReadStatus
    /\ \/ /\ ~ShouldAdd(Status)
          /\ EnqueueDone
          /\ UNCHANGED <<items, window, pool, todo, needed>>
       \/ /\ ShouldAdd(Status) /\ Needed(Status) > 0
          /\ st' = Status
          /\ PickToAdd("enq_add", Needed(Status))
       \/ /\ ShouldAdd(Status) /\ Needed(Status) <= 0
          /\ IF PastLast(Status) \/ QueueEmpty(Status)
             THEN pc' = "enq_play" /\ st' = Status
             ELSE EnqueueDone
          /\ UNCHANGED <<items, window, pool, todo, needed>>
    /\ UNCHANGED <<options, active>>

EnqueueAdd ==
    /\ pc = "enq_add"
    /\ Answered
    /\ AddSong
    /\ \/ /\ Len(todo) > 1
          /\ todo' = Tail(todo)
          /\ UNCHANGED <<items, window, pool, pc, st, needed>>
       \/ /\ Len(todo) = 1
          /\ needed > 0
          /\ PickToAdd("enq_add", needed)
          /\ UNCHANGED st
       \/ /\ Len(todo) = 1
          /\ needed <= 0
          /\ todo' = <<>>
          /\ needed' = 0
          /\ IF PastLast(st) \/ QueueEmpty(st)
             THEN pc' = "enq_play" /\ UNCHANGED st
             ELSE EnqueueDone
          /\ UNCHANGED <<items, window, pool>>
    /\ UNCHANGED <<options, active>>

(* Mutant: the position is taken for one-based.                            *)
EnqueuePlayOffByOne ==
    /\ pc = "enq_play"
    /\ Answered
    /\ PlayPosition(st.len - 1)
    /\ IF st.single
       THEN pc' = "enq_pause" /\ UNCHANGED st
       ELSE EnqueueDone
    /\ UNCHANGED <<items, window, pool, options, todo, needed, active>>

(* The status is the one read before the songs were added.                 *)
EnqueuePlay ==
    /\ pc = "enq_play"
    /\ Answered
    /\ PlayPosition(st.len)
    /\ IF st.single
       THEN pc' = "enq_pause" /\ UNCHANGED st
       ELSE EnqueueDone
    /\ UNCHANGED <<items, window, pool, options, todo, needed, active>>

EnqueuePause ==
    /\ pc = "enq_pause"
    /\ Answered
    /\ PausePlayer
    /\ EnqueueDone
    /\ UNCHANGED <<items, window, pool, options, todo, needed, active>>

(* Loop                                                                    *)

(* Mutants: player events are not waited for; the exit is checked last;    *)
(* --file is not respected.                                                *)
ReactionToQueueOnly(events) ==
    IF "database" \in events /\ options.exit_on_db_update THEN "exited"
    ELSE IF "database" \in events /\ ~options.from_file THEN "reload"
    ELSE IF "queue" \notin events THEN "idle"
    ELSE IF options.suspend THEN "susp_status"
    ELSE "enq_status"

ReactionExitLast(events) ==
    IF events \cap {"queue", "player"} # {}
    THEN IF options.suspend THEN "susp_status" ELSE "enq_status"
    ELSE IF options.exit_on_db_update THEN "exited"
    ELSE IF options.from_file THEN "idle" ELSE "reload"

ReactionReloads(events) ==
    IF "database" \in events /\ options.exit_on_db_update THEN "exited"
    ELSE IF "database" \in events THEN "reload"
    ELSE IF events \cap {"queue", "player"} = {} THEN "idle"
    ELSE IF options.suspend THEN "susp_status"
    ELSE "enq_status"

(* What the loop does about a set of events.  A database event hides a     *)
(* queue or player event that came with it, unless songs come from a file. *)
Reaction(events) ==
    IF "database" \in events /\ options.exit_on_db_update THEN "exited"
    ELSE IF "database" \in events /\ ~options.from_file THEN "reload"
    ELSE IF events \cap {"queue", "player"} = {} THEN "idle"
    ELSE IF options.suspend THEN "susp_status"
    ELSE "enq_status"

Idle ==
    /\ pc = "idle"
    /\ link = "up"
    /\ pending # {}
    /\ pending' = {}
    /\ pc' = Reaction(pending)
    /\ UNCHANGED <<library, mode, queue, pos, player, link, moves,
                   items, window, pool, options, st, todo, needed, active>>

(* Mutant: the chain is not cleared first.                                 *)
ReloadOnTop ==
    /\ pc = "reload"
    /\ link = "up"
    /\ Chain!AddAll(Loaded[library])
    /\ pc' = "idle"
    /\ UNCHANGED <<library, mode, queue, pos, player, link, pending, moves,
                   options, st, todo, needed, active>>

(* Clear the chain, then add what ListAll returns.                         *)
Reload ==
    /\ pc = "reload"
    /\ link = "up"
    /\ Chain!Refill(Loaded[library])
    /\ pc' = "idle"
    /\ UNCHANGED <<library, mode, queue, pos, player, link, pending, moves,
                   options, st, todo, needed, active>>

(* The connection fails during ListAll.  If the request could not be sent  *)
(* the loader ends the process; if the answer breaks off, it takes what it *)
(* has got for the whole library.                                          *)
ReloadBroken ==
    /\ pc = "reload"
    /\ \/ link = "down" /\ UNCHANGED serverVars
       \/ Disconnect
    /\ \/ /\ pc' = "died"
          /\ items' = <<>> /\ window' = <<>> /\ pool' = {}
       \/ /\ pc' = "idle"
          /\ \E part \in SUBSET (IF link = "up" THEN library ELSE {}) :
                Chain!Refill(Loaded[part])
    /\ UNCHANGED <<options, st, todo, needed, active>>

(* Mutant: songs in the queue are reason enough to go on.                  *)
SuspendSeesSongs ==
    /\ pc = "susp_status"
    /\ ReadStatus
    /\ pc' = IF Status.len = 0 THEN "susp_sleep" ELSE "enq_status"
    /\ UNCHANGED localVars

SuspendStatus ==
    /\ pc = "susp_status"
    /\ ReadStatus
    /\ pc' = IF Status.len = 0 THEN "susp_sleep"
             ELSE IF active THEN "enq_status" ELSE "idle"
    /\ UNCHANGED localVars

SuspendSleep ==
    /\ pc = "susp_sleep"
    /\ pc' = "susp_recheck"
    /\ UNCHANGED serverVars
    /\ UNCHANGED localVars

(* Mutant: once suspended, always suspended.                               *)
SuspendForever ==
    /\ pc = "susp_recheck"
    /\ ReadStatus
    /\ active' = (active /\ Status.len = 0)
    /\ pc' = IF active' THEN "enq_status" ELSE "idle"
    /\ UNCHANGED <<items, window, pool, options, st, todo, needed>>

SuspendRecheck ==
    /\ pc = "susp_recheck"
    /\ ReadStatus
    /\ active' = (Status.len = 0)
    /\ pc' = IF active' THEN "enq_status" ELSE "idle"
    /\ UNCHANGED <<items, window, pool, options, st, todo, needed>>

(* Loop returns the error of a call that failed; its local variables are   *)
(* gone.                                                                   *)
ReturnError ==
    /\ pc' = "returned"
    /\ st' = NoStatus
    /\ todo' = <<>>
    /\ needed' = 0
    /\ UNCHANGED <<items, window, pool, options, active>>

ConnectionLost ==
    /\ link = "down"
    /\ pc \in Calls \ {"reload", "susp_sleep"}
    /\ ReturnError
    /\ UNCHANGED serverVars

(* MPD answers with an error: no such song, queue full, no such position.  *)
Refused ==
    /\ link = "up"
    /\ \/ /\ pc \in {"first_add", "enq_add"}
          /\ Head(todo) \notin library \/ Len(queue) = MaxQueue
       \/ /\ pc \in {"first_play", "enq_play"}
          /\ st.len >= Len(queue)
    /\ ReturnError
    /\ UNCHANGED serverVars

(* MPD carries out a command, but its answer never arrives.                *)
AnswerLost ==
    /\ LinkBreaks
    /\ \/ pc \in {"first_add", "enq_add"} /\ AddSong
       \/ pc \in {"first_play", "enq_play"} /\ PlayPosition(st.len)
       \/ pc = "enq_pause" /\ PausePlayer
    /\ ReturnError

LoopNext ==
    \/ FirstStatus \/ FirstAdd \/ FirstPlay
    \/ EnqueueStatus \/ EnqueueAdd \/ EnqueuePlay \/ EnqueuePause
    \/ Idle \/ Reload \/ ReloadBroken
    \/ SuspendStatus \/ SuspendSleep \/ SuspendRecheck
    \/ ConnectionLost \/ Refused \/ AnswerLost

(* The server and its other clients; of no interest once Loop has ended.   *)
Environment ==
    /\ pc \notin Ended
    /\ Others
    /\ UNCHANGED loopVars

Next == LoopNext \/ Environment

(* The loop's thread is scheduled as long as it can take a step.  Nothing  *)
(* is assumed of the server and its clients.                               *)
Spec == Init /\ [][Next]_vars /\ WF_vars(LoopNext)

-----------------------------------------------------------------------------
(* The songs in the queue behind the current one.                          *)
Ahead == SongsRemaining(Status)

(* No lost wakeup.  When the loop blocks in Idle and MPD has nothing to    *)
(* report, the queue needs nothing: there is a current song with at least  *)
(* queue_buffer songs behind it.  Every change that could make the queue   *)
(* run dry, at any moment of TryFirst, TryEnqueue or the suspend handler,  *)
(* has to be pending or to have been seen.  (Without play_on_startup the   *)
(* loop does nothing before the first event, and a buffer that is no int   *)
(* is never filled.)                                                       *)
Fed == pos # NoPos /\ Ahead >= options.queue_buffer

BlocksOnlyWhenFed ==
    /\ pc = "idle" /\ link = "up" /\ pending = {} /\ active
    /\ options.play_on_startup /\ options.queue_buffer <= MaxInt
    => Fed

(* The position the loop asks for is the length of a queue it read some    *)
(* calls earlier, counted from zero: what it plays is a song it has added. *)
(* This holds, and is checked, only while no other client edits the queue  *)
(* (moves.user = 0); a song that another client adds between the status    *)
(* and the first add is played instead.                                    *)
PlaysItsOwnSong ==
    [][(FirstPlay \/ EnqueuePlay) => queue[pos' + 1] = "ashuffle"]_vars

(* The lengths of the groups; one group is one song where nothing else is. *)
GroupSizes == {Len(items[i]) : i \in 1 .. Len(items)} \cup {1}

(* With nobody else touching the queue, ashuffle never gets further ahead  *)
(* of the player than the buffer asked for, rounded up by the rest of a    *)
(* group.                                                                  *)
NeverOverfills ==
    \E size \in GroupSizes : Ahead <= Max({options.queue_buffer, 1}) + size - 1

(* In Idle, with no database event pending, the chain holds what the       *)
(* library loads to: an update that happens while the loop is busy, even   *)
(* while it is reloading, is not forgotten.                                *)
ChainIsFresh ==
    pc = "idle" /\ link = "up" /\ "database" \notin pending
        => items = IF options.from_file THEN FileItems ELSE Loaded[library]

(* The assertion in ShuffleChain::Pick never fails.                        *)
NeverPicksFromEmpty == pc # "aborted"

(* A list of songs that came from a file is none of the library's          *)
(* business: whatever happens to the library, ashuffle neither loses a     *)
(* wakeup to an update nor runs out of songs to pick.                      *)
FileIsUndisturbed == options.from_file => BlocksOnlyWhenFed /\ NeverPicksFromEmpty

(* "Once those songs finish, the random music will resume" (readme.md):    *)
(* when the player has run off the end of the queue, something is played   *)
(* again, unless ashuffle is suspended or has lost MPD.                    *)
MusicResumes ==
    (pos = NoPos /\ (pending \cap {"queue", "player"} # {} \/ pc # "idle"))
        ~> (pos # NoPos \/ ~active \/ pc \in {"returned", "exited"})

(* A suspended ashuffle leaves the queue and the player to others, however *)
(* many events it looks into in the meantime.                              *)
SuspendedStaysSilent ==
    [][LoopNext /\ ~active => UNCHANGED <<queue, pos, player>>]_vars

(* A suspended ashuffle resumes when the queue is cleared and stays empty. *)
SuspensionEnds ==
    (~active /\ queue = <<>>) ~> (active \/ queue # <<>> \/ pc = "returned")

(* With exit_on_db_update, a library update ends ashuffle whatever it is   *)
(* doing when the update happens.                                          *)
ExitsOnUpdate ==
    (options.exit_on_db_update /\ "database" \in pending)
        ~> (pc \in {"exited", "returned"})
=============================================================================
