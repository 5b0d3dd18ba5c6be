------------------------------- MODULE MCLoop -------------------------------
(* Values for the constants of Loop.                                       *)
EXTENDS Loop

CONSTANTS s1, s2, s3

Songs == {s1, s2, s3}

(* s3 is excluded by a rule, so that a library of nothing else loads to    *)
(* nothing; s1 and s2 form a group when grouping is on.                    *)
Single(d) == [i \in 1 .. Cardinality(d \cap {s1, s2}) |->
                 IF i = 1 /\ s1 \in d THEN <<s1>> ELSE <<s2>>]
Ungrouped == [d \in SUBSET Songs |-> Single(d)]

GroupedAccepted == [d \in SUBSET Songs |->
    IF {s1, s2} \subseteq d THEN << <<s1, s2>> >> ELSE Single(d)]

(* No rule excludes s3, which is a group of its own.                       *)
Grouped == [d \in SUBSET Songs |->
    GroupedAccepted[d] \o (IF s3 \in d THEN << <<s3>> >> ELSE <<>>)]

AcceptedLibraries == {{s1, s2}, {s2, s3}, {s1, s2, s3}}
AllLibraries == AcceptedLibraries \cup {{s3}}
OneLibrary == {{s1, s2, s3}}

FileList == << <<s1>>, <<s2>> >>

AnyMode == [single : BOOLEAN, consume : BOOLEAN]
OneByOne == [single : {FALSE}, consume : BOOLEAN]
PlainMode == {[single |-> FALSE, consume |-> FALSE]}

Options(startup, buffer, exit, suspend, file) ==
    [play_on_startup : startup, queue_buffer : buffer, exit_on_db_update : exit,
     suspend : suspend, from_file : file, check_uris : {TRUE},
     queue_only : {0}]

StreamOptions == Options(BOOLEAN, {0, 1, 2, 8}, {FALSE}, {FALSE}, {FALSE})
ClientOptions == Options(BOOLEAN, {0, 1}, {FALSE}, BOOLEAN, {FALSE})
LibraryOptions == Options({TRUE}, {0, 1}, BOOLEAN, {FALSE}, BOOLEAN)
PlainOptions == Options({TRUE}, {0}, {FALSE}, {FALSE}, {FALSE})

NoMoves == [user |-> 0, library |-> 0, link |-> 1]
OneLibraryMove == [user |-> 0, library |-> 1, link |-> 0]
UserMoves == [user |-> 2, library |-> 0, link |-> 1]
LibraryMoves == [user |-> 1, library |-> 2, link |-> 1]
=============================================================================
