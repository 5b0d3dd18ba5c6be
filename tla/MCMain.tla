------------------------------- MODULE MCMain -------------------------------
(* Values for the constants of Main.                                       *)
EXTENDS Main

CONSTANTS s1, s2

Songs == {s1, s2}
Whole == {{s1, s2}}
AnyLibrary == {{s1, s2}, {s2}, {}}

LoadedSongs == [d \in SUBSET Songs |->
    (IF s1 \in d THEN << <<s1>> >> ELSE <<>>) \o (IF s2 \in d THEN << <<s2>> >> ELSE <<>>)]

(* s1 and s2 form a group.                                                 *)
LoadedGroup == [d \in SUBSET Songs |->
    IF d = Songs THEN << <<s1, s2>> >> ELSE LoadedSongs[d]]

FileList == << <<s1>>, <<s2>> >>

OneByOne == [single : {FALSE}, consume : BOOLEAN]
PlainMode == [single : {FALSE}, consume : {FALSE}]

Options(startup, buffer, suspend, file, check, only) ==
    [play_on_startup : startup, queue_buffer : buffer, exit_on_db_update : {FALSE},
     suspend : suspend, from_file : file, check_uris : check,
     queue_only : only]

ReconnectOptions == Options({TRUE}, {0, 1}, {FALSE}, {TRUE}, {TRUE}, {0})
StartOptions == Options({TRUE}, {0}, {FALSE}, BOOLEAN, BOOLEAN, {0, 2})
SuspendOptions == Options({FALSE}, {0}, {TRUE}, {TRUE}, {FALSE}, {0})
LibraryOptions == Options({TRUE}, {0}, {FALSE}, {FALSE}, {TRUE}, {0})

LinkMoves == [user |-> 1, library |-> 0, link |-> 2]
SomeMoves == [user |-> 2, library |-> 0, link |-> 1]
StartMoves == [user |-> 0, library |-> 1, link |-> 1]
OneBreak == [user |-> 0, library |-> 0, link |-> 1]
=============================================================================
