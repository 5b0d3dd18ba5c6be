--------------------------------- MODULE Main ---------------------------------
(***************************************************************************)
(* The life of an ashuffle process (src/src/main.cc, main): connect, load  *)
(* the chain, then either add a number of groups and exit (--only), or run *)
(* Loop, and when Loop fails, reconnect, load once more and run it again,  *)
(* until reconnecting has taken too long.                                  *)
(*                                                                         *)
(* Connect is one step here; its calls and its password prompt are the     *)
(* subject of Connect.tla.                                                 *)
(***************************************************************************)
EXTENDS Loop

CONSTANTS ReconnectTimeout,   \* reconnect_timeout, in waits of 250ms
          MaxItems            \* bound on the chain's length (model checking)

ASSUME MainAssumption ==
    /\ ReconnectTimeout \in Nat
    /\ MaxItems \in Nat

VARIABLES interactive,    \* disable_reconnect: a password was prompted for
          waited,         \* how long ago disconnect_begin was
          count,          \* i, in the loop over queue_only
          number_of_songs \* what --only will report to have added

mainVars == <<interactive, waited, count, number_of_songs>>
allVars == <<library, mode, queue, pos, player, link, pending, moves,
             items, window, pool, options, pc, st, todo, needed, active,
             interactive, waited, count, number_of_songs>>

(* The places in main itself; "success" and "failure" are its exits.       *)
MainSteps == {"connect", "load", "queue_pick", "queue_add", "reconnect",
              "reconnect_load"}
Finished == {"exited", "died", "aborted", "success", "failure"}

MainTypeOK ==
    /\ ServerTypeOK
    /\ DataTypeOK
    /\ pc \in Calls \cup {"returned"} \cup MainSteps \cup Finished
    /\ pc = "queue_add" => todo # <<>>
    /\ pc \in Calls \cup {"queue_pick"} => count <= options.queue_only
    /\ interactive \in BOOLEAN
    /\ waited \in 0 .. ReconnectTimeout
    /\ count \in Nat /\ number_of_songs \in Nat

MainInit ==
    /\ ServerInit
    /\ options \in OptionSet
    /\ items = <<>> /\ window = <<>> /\ pool = {}
    /\ pc = "connect"
    /\ st = NoStatus
    /\ todo = <<>>
    /\ needed = 0
    /\ active = TRUE
    /\ interactive = FALSE
    /\ waited = 0
    /\ count = 0 /\ number_of_songs = 0

-----------------------------------------------------------------------------
(* A new connection knows of no changes.                                   *)
Dialed ==
    /\ link' = "up"
    /\ pending' = {}
    /\ UNCHANGED <<library, mode, queue, pos, player, moves>>

Unreachable ==
    \/ link = "down" /\ UNCHANGED serverVars
    \/ Disconnect

(* Mutant: only the first connection gets the music going.                 *)
EnterIdle ==
    /\ pc' = "idle"
    /\ active' = TRUE

(* Loop starts over: its local variables are new.                          *)
EnterLoop ==
    /\ pc' = IF options.play_on_startup THEN "first_status" ELSE "idle"
    /\ active' = TRUE

(* Connecting, and the password being asked for, succeeds or ends it all.  *)
StartConnect ==
    /\ pc = "connect"
    /\ \/ /\ Dialed
          /\ pc' = "load"
          /\ interactive' \in BOOLEAN
       \/ /\ Unreachable
          /\ pc' = "died"
          /\ UNCHANGED interactive
       \/ /\ Dialed
          /\ pc' = "died"
          /\ UNCHANGED interactive
    /\ UNCHANGED <<waited, count, number_of_songs, localVars>>

(* FileMPDLoader accepts the songs of the file that are in the library.    *)
FileSongs == UNION {Range(FileItems[i]) : i \in 1 .. Len(FileItems)}

LoadedFrom(songs) ==
    Loaded[IF options.from_file THEN songs \cap FileSongs ELSE songs]

(* What MPDLoader, FileMPDLoader included, adds to the chain, and whether  *)
(* it lives to add it: all there is, or as much as got through.            *)
LoaderAdds ==
    \/ /\ link = "up"
       /\ UNCHANGED serverVars
       /\ Chain!AddAll(LoadedFrom(library))
    \/ /\ Unreachable
       /\ \E part \in SUBSET (IF link = "up" THEN library ELSE {}) :
             Chain!AddAll(LoadedFrom(part))

LoaderDies ==
    /\ Unreachable
    /\ pc' = "died"
    /\ UNCHANGED <<items, window, pool, active>>

AfterLoad ==
    IF items' = <<>>
    THEN pc' = "failure" /\ UNCHANGED active
    ELSE IF options.queue_only > 0
    THEN pc' = "queue_pick" /\ UNCHANGED active
    ELSE EnterLoop

(* A file that is not to be checked is loaded without asking MPD.          *)
StartLoad ==
    /\ pc = "load"
    /\ \/ /\ options.from_file /\ ~options.check_uris
          /\ UNCHANGED serverVars
          /\ Chain!AddAll(FileItems)
          /\ AfterLoad
       \/ /\ ~options.from_file \/ options.check_uris
          /\ LoaderAdds
          /\ AfterLoad
       \/ /\ ~options.from_file \/ options.check_uris
          /\ LoaderDies
    /\ UNCHANGED <<mainVars, options, st, todo, needed>>

(* --only                                                                  *)

(* Mutant: the loop runs once too often.                                   *)
QueuePickOneMore ==
    /\ pc = "queue_pick"
    /\ IF count <= options.queue_only
       THEN /\ PickToAdd("queue_add", 0)
            /\ count' = count + 1
            /\ number_of_songs' = number_of_songs + Len(todo')
       ELSE /\ pc' = "success"
            /\ UNCHANGED <<items, window, pool, todo, needed, count, number_of_songs>>
    /\ UNCHANGED serverVars
    /\ UNCHANGED <<options, st, active, interactive, waited>>

QueuePick ==
    /\ pc = "queue_pick"
    /\ IF count < options.queue_only
       THEN /\ PickToAdd("queue_add", 0)
            /\ count' = count + 1
            /\ number_of_songs' = number_of_songs + Len(todo')
       ELSE /\ pc' = "success"
            /\ UNCHANGED <<items, window, pool, todo, needed, count, number_of_songs>>
    /\ UNCHANGED serverVars
    /\ UNCHANGED <<options, st, active, interactive, waited>>

(* Mutant: of each group only one song is added.                           *)
QueueAddOneSong ==
    /\ pc = "queue_add"
    /\ Answered
    /\ AddSong
    /\ todo' = <<>>
    /\ pc' = "queue_pick"
    /\ UNCHANGED <<items, window, pool, options, st, needed, active, mainVars>>

QueueAdd ==
    /\ pc = "queue_add"
    /\ Answered
    /\ AddSong
    /\ todo' = Tail(todo)
    /\ pc' = IF todo' = <<>> THEN "queue_pick" ELSE "queue_add"
    /\ UNCHANGED <<items, window, pool, options, st, needed, active, mainVars>>

QueueAddFails ==
    /\ pc = "queue_add"
    /\ \/ link = "down" /\ UNCHANGED serverVars
       \/ /\ link = "up"
          /\ Head(todo) \notin library \/ Len(queue) = MaxQueue
          /\ UNCHANGED serverVars
       \/ LinkBreaks /\ AddSong
    /\ pc' = "died"
    /\ UNCHANGED <<localVars, mainVars>>

(* Reconnecting                                                            *)

LoopReturned ==
    /\ pc = "returned"
    /\ pc' = IF interactive THEN "failure" ELSE "reconnect"
    /\ waited' = 0
    /\ UNCHANGED serverVars
    /\ UNCHANGED <<localVars, interactive, count, number_of_songs>>

Reconnected ==
    /\ pc = "reconnect"
    /\ waited < ReconnectTimeout
    /\ Dialed
    /\ IF options.from_file
       THEN EnterLoop
       ELSE pc' = "reconnect_load" /\ UNCHANGED active
    /\ UNCHANGED <<items, window, pool, options, st, todo, needed, mainVars>>

(* Mutant: only the last attempt is timed.                                 *)
ReconnectRestartsTimer ==
    /\ pc = "reconnect"
    /\ waited < ReconnectTimeout
    /\ Unreachable
    /\ waited' \in 0 .. 1
    /\ UNCHANGED <<pc, localVars, interactive, count, number_of_songs>>

(* An attempt may take any time, and is followed by a wait.                *)
ReconnectFails ==
    /\ pc = "reconnect"
    /\ waited < ReconnectTimeout
    /\ Unreachable
    /\ waited' \in waited + 1 .. ReconnectTimeout
    /\ UNCHANGED <<pc, localVars, interactive, count, number_of_songs>>

(* Connected, but not permitted to do what ashuffle has to.                *)
ReconnectRefused ==
    /\ pc = "reconnect"
    /\ waited < ReconnectTimeout
    /\ Dialed
    /\ pc' = "died"
    /\ UNCHANGED <<localVars, mainVars>>

GiveUp ==
    /\ pc = "reconnect"
    /\ waited >= ReconnectTimeout
    /\ pc' = "failure"
    /\ UNCHANGED serverVars
    /\ UNCHANGED <<localVars, mainVars>>

(* The library is loaded on top of what the chain already holds.           *)
ReconnectLoad ==
    /\ pc = "reconnect_load"
    /\ Len(items) + Len(Loaded[library]) <= MaxItems
    /\ \/ LoaderAdds /\ EnterLoop
       \/ LoaderDies
    /\ UNCHANGED <<options, st, todo, needed, mainVars>>

Process ==
    \/ StartConnect \/ StartLoad
    \/ QueuePick \/ QueueAdd \/ QueueAddFails
    \/ LoopReturned \/ Reconnected \/ ReconnectFails \/ ReconnectRefused
    \/ GiveUp \/ ReconnectLoad
    \/ LoopNext /\ UNCHANGED mainVars

World ==
    /\ pc \notin Finished
    /\ Others
    /\ UNCHANGED <<loopVars, mainVars>>

MainNext == Process \/ World

(* The process is scheduled; nothing is assumed of anybody else.           *)
MainSpec == MainInit /\ [][MainNext]_allVars /\ WF_allVars(Process)

-----------------------------------------------------------------------------
OwnSongs == Cardinality({n \in 1 .. Len(queue) : queue[n] = "ashuffle"})

(* Nobody has taken songs out of the queue.                                *)
Kept == ~mode.consume /\ moves.user = Moves.user

(* A lost connection is found again, or ashuffle gives up: it never hangs  *)
(* between the two.                                                        *)
ReconnectsOrGivesUp ==
    pc = "returned" ~> (pc \in Calls \/ pc \in Finished)

(* The music survives lost connections and refused commands: once the      *)
(* player has run off the end of the queue, something is played again,     *)
(* unless ashuffle is suspended, its process has ended or the queue has no *)
(* room for another song.                                                  *)
MusicSurvives ==
    (pos = NoPos /\ pc = "returned")
        ~> (pos # NoPos \/ ~active \/ pc \in Finished \/ Len(queue) = MaxQueue)

(* Nobody else has touched the queue, and no update has changed what the   *)
(* chain holds.                                                            *)
Alone ==
    /\ moves.user = Moves.user
    /\ options.from_file \/ moves.library = Moves.library

(* Songs whose addition was not confirmed are not added once more on top:  *)
(* whatever connections break, ashuffle blocks in Idle with no more songs  *)
(* ahead of the player than the buffer asked for, rounded up to groups, as *)
(* long as it is alone.                                                    *)
NoSurplusAfterRetry == pc = "idle" /\ Alone => NeverOverfills

LoopFails == pc \in Calls /\ pc' = "returned"

HasAReason ==
    \/ link' = "down"
    \/ todo # <<>> /\ (Len(queue) = MaxQueue \/ Head(todo) \notin library)
    \/ options.queue_buffer > MaxInt

(* While nobody else touches the queue, the server refuses nothing that    *)
(* Loop asks for without a reason: Loop fails because the connection is    *)
(* gone, or because the queue has no room for a song or the library has    *)
(* not got it, but never because there is nothing at the position that it  *)
(* wants played.  Together with a buffer that is no int, these reasons are *)
(* all there is to make it fail again at once after every reconnect.       *)
FailsOnlyForAReason ==
    [][LoopFails /\ moves.user = Moves.user => HasAReason]_allVars

(* --only n takes no more than n groups, and no song but those of groups   *)
(* it took is added, whatever happens.  Success means that n groups were   *)
(* taken and that every song of every one of them is in the queue, as many *)
(* as it reports; unless songs were taken out meanwhile, by consume mode   *)
(* or by another client.  (The help text and readme.md:47 say that n is a  *)
(* number of songs, which it is only without groups.)                      *)
OnlyAddsThatMany ==
    options.queue_only > 0 =>
        /\ count <= options.queue_only
        /\ OwnSongs <= number_of_songs
        /\ pc = "success" => /\ count = options.queue_only
                             /\ Kept => OwnSongs = number_of_songs

(* "Every song in the window is unique" (readme.md, "shuffle algorithm").  *)
WindowIsUnique ==
    \A a, b \in 1 .. Len(window) : items[window[a]] = items[window[b]] => a = b

(* A suspended ashuffle "will not add any songs to the queue [...] until   *)
(* the queue is cleared again" (readme.md, "suspend-timeout").             *)
StaysSuspended == [][~active /\ active' => queue = <<>>]_allVars
=============================================================================
