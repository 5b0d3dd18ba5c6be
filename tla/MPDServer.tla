------------------------------ MODULE MPDServer ------------------------------
(***************************************************************************)
(* The MPD server and everybody else who talks to it, as far as ashuffle   *)
(* can tell (external: the repository holds only a client of it).  The     *)
(* play queue, the player and the music library belong to the server;      *)
(* other clients edit the queue and drive the player, the library is       *)
(* updated, songs end, and the connection breaks, each at any moment.      *)
(*                                                                         *)
(* MPD keeps, for every connection, the set of subsystems that changed     *)
(* since the client last heard of them.  A client's "idle" returns that    *)
(* set as soon as it is not empty, and empties it.  Changes a client makes *)
(* itself are in the set too.                                              *)
(***************************************************************************)
EXTENDS Integers, SequencesExt

CONSTANTS Song,           \* the songs there are in the world
          Libraries,      \* the contents the music library may take
          Modes,          \* playback modes tried: [single, consume]
          MaxQueue,       \* MPD's max_playlist_length
          Moves           \* how often others may act: [user, library, link]

ASSUME ServerAssumption ==
    /\ Libraries \subseteq SUBSET Song
    /\ Modes \subseteq [single : BOOLEAN, consume : BOOLEAN]
    /\ MaxQueue \in Nat \ {0}
    /\ Moves \in [user : Nat, library : Nat, link : Nat]

VARIABLES library,        \* the songs in the music library
          mode,           \* MPD's "single" and "consume" options
          queue,          \* who added each song of the play queue
          pos,            \* zero-based position of the current song, or NoPos
          player,         \* "play", "pause" or "stop"
          link,           \* ashuffle's connection, "up" or "down"
          pending,        \* the subsystems its next idle will report
          moves           \* moves others have left (model checking)

serverVars == <<library, mode, queue, pos, player, link, pending, moves>>

NoPos == -1

Subsystems == {"database", "queue", "player"}

(* ashuffle never looks at the songs in the queue; all that properties     *)
(* need of an entry is who put it there.                                   *)
Owners == {"ashuffle", "user"}

ServerTypeOK ==
    /\ library \in Libraries
    /\ mode \in Modes
    /\ queue \in Seq(Owners)
    /\ Len(queue) <= MaxQueue
    /\ pos \in {NoPos} \cup (0 .. Len(queue) - 1)
    /\ player \in {"play", "pause", "stop"}
    /\ pos = NoPos => player = "stop"
    /\ link \in {"up", "down"}
    /\ pending \subseteq Subsystems
    /\ link = "down" => pending = {}
    /\ moves \in [user : 0 .. Moves.user, library : 0 .. Moves.library,
                  link : 0 .. Moves.link]

ServerInit ==
    /\ library \in Libraries
    /\ mode \in Modes
    /\ queue \in {<<>>, <<"user">>}
    /\ pos \in {NoPos} \cup (0 .. Len(queue) - 1)
    /\ player \in IF pos = NoPos THEN {"stop"} ELSE {"play", "stop"}
    /\ link = "up"
    /\ pending = {}
    /\ moves = Moves

(* A broken connection is told nothing any more.                           *)
Signal(subsystems) ==
    pending' = IF link' = "up" THEN pending \cup subsystems ELSE {}

-----------------------------------------------------------------------------
(* Commands.  Each is one atomic step of the server.  What becomes of link *)
(* in that step (the reply may get lost) and of moves is up to the caller, *)
(* who says so first.                                                      *)

Enqueue(owner) ==
    /\ Len(queue) < MaxQueue
    /\ queue' = Append(queue, owner)
    /\ Signal({"queue"})
    /\ UNCHANGED <<library, mode, pos, player>>

(* mpd_run_play_pos; a position outside the queue is refused.              *)
PlayPosition(n) ==
    /\ n \in 0 .. Len(queue) - 1
    /\ pos' = n
    /\ player' = "play"
    /\ Signal({"player"})
    /\ UNCHANGED <<library, mode, queue>>

(* mpd_run_pause(true) changes nothing unless a song is playing.           *)
PausePlayer ==
    /\ IF player = "play"
       THEN player' = "pause" /\ Signal({"player"})
       ELSE UNCHANGED player /\ Signal({})
    /\ UNCHANGED <<library, mode, queue, pos>>

-----------------------------------------------------------------------------
(* What happens without ashuffle.                                          *)

(* The current song ends.  In consume mode it leaves the queue; in single  *)
(* mode the next one is paused; after the last one there is no current     *)
(* song any more.                                                          *)
SongEnds ==
    /\ UNCHANGED <<link, moves>>
    /\ player = "play"
    /\ queue' = IF mode.consume THEN RemoveAt(queue, pos + 1) ELSE queue
    /\ LET next == IF mode.consume THEN pos ELSE pos + 1
       IN IF next < Len(queue')
          THEN /\ pos' = next
               /\ player' = IF mode.single THEN "pause" ELSE "play"
          ELSE /\ pos' = NoPos
               /\ player' = "stop"
    /\ Signal(IF mode.consume THEN {"player", "queue"} ELSE {"player"})
    /\ UNCHANGED <<library, mode>>

UserMove ==
    /\ moves.user > 0
    /\ moves' = [moves EXCEPT !.user = @ - 1]
    /\ UNCHANGED link

UserAdds == UserMove /\ Enqueue("user")

UserClears ==
    /\ UserMove
    /\ queue # <<>>
    /\ queue' = <<>>
    /\ pos' = NoPos
    /\ player' = "stop"
    /\ Signal(IF player = "stop" THEN {"queue"} ELSE {"queue", "player"})
    /\ UNCHANGED <<library, mode>>

UserPlays == UserMove /\ \E n \in 0 .. Len(queue) - 1 : PlayPosition(n)

UserPauses == UserMove /\ player = "play" /\ PausePlayer

(* Stopping keeps the current song.                                        *)
UserStops ==
    /\ UserMove
    /\ player # "stop"
    /\ player' = "stop"
    /\ Signal({"player"})
    /\ UNCHANGED <<library, mode, queue, pos>>

LibraryChanges ==
    /\ moves.library > 0
    /\ moves' = [moves EXCEPT !.library = @ - 1]
    /\ library' \in Libraries \ {library}
    /\ UNCHANGED <<mode, queue, pos, player, link>>
    /\ Signal({"database"})

LinkBreaks ==
    /\ link = "up"
    /\ moves.link > 0
    /\ moves' = [moves EXCEPT !.link = @ - 1]
    /\ link' = "down"

Disconnect ==
    /\ LinkBreaks
    /\ Signal({})
    /\ UNCHANGED <<library, mode, queue, pos, player>>

Others ==
    \/ SongEnds
    \/ UserAdds
    \/ UserClears
    \/ UserPlays
    \/ UserPauses
    \/ UserStops
    \/ LibraryChanges
    \/ Disconnect
=============================================================================
