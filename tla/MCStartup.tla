------------------------------- MODULE MCStartup -------------------------------
(* Values for the constants of Startup.                                    *)
EXTENDS Startup

CONSTANTS admin, reader, wrong

Words == {"-h", "-v", "-n", "-e", "-g", "--by-album", "-f", "-", "--host",
          "admin@", "--log-file", "-p", "-o", "-q", "2", "-t", "window-size=2",
          "window-size=0", "no-such=2", "suspend-timeout=-2s", "--test", "print_all_songs_and_exit",
          "--exclude-from", "rules", "bad rules", "no rules", "album", "date", "a", "b"}
Tags == {"album", "date"}

TagsNamed == [w \in Words |-> {w} \cap Tags]
Numbers == [w \in Words |-> IF w = "2" THEN {2} ELSE {}]
Tweaks == [w \in Words |->
    CASE w = "window-size=2" -> {[key |-> "window_size", value |-> {2}]}
      [] w = "window-size=0" -> {[key |-> "window_size", value |-> {0}]}
      [] w = "no-such=2" -> {[key |-> "no_such", value |-> {2}]}
      [] w = "suspend-timeout=-2s" -> {[key |-> "suspend_timeout", value |-> {-2}]}
      [] OTHER -> {}]
Is(key, value) == [key |-> key, value |-> value]
RuleFiles == [w \in Words |->
    CASE w = "rules" -> {<< <<Is("album", "a"), Is("date", "a")>>, <<Is("album", "b")>> >>}
      [] w = "bad rules" -> {<< <<Is("album", "a")>>, <<Is("b", "a")>> >>}
      [] w = "no rules" -> {<< <<>> >>}
      [] OTHER -> {}]
Hosts == [w \in Words |-> IF w = "admin@" THEN admin ELSE NoPassword]

(* Everything of up to three arguments; of more, every order of a few.     *)
CommandLines ==
    LET Upto(n, S, line) == Len(line) <= n /\ Range(line) \subseteq S
    IN {line \in Seq(Words) :
           \/ Upto(3, Words, line)
           \/ Upto(7, {"-e", "album", "date", "b"}, line)
           \/ Upto(6, {"-e", "-g", "-n", "album", "a"}, line)
           \/ Upto(5, {"-f", "-", "-n", "--by-album", "-e", "album", "a"}, line)}

(* Values of tags, and the words that are parts of them.                   *)
Texts == {"A", "B", "AB"}
Parts == {<<"A", "a">>, <<"AB", "a">>, <<"AB", "b">>, <<"B", "b">>}

SongWith(uri, album, date) ==
    [uri |-> uri, tags |-> [t \in Tags |-> IF t = "album" THEN album ELSE date]]
Library == <<SongWith("u1", <<"A">>, <<"A">>), SongWith("u2", <<"AB", "A">>, <<>>),
             SongWith("u3", <<>>, <<"B">>), SongWith("u4", <<"A">>, <<"A", "B">>)>>
Uris == {"u1", "u2", "u3", "u4", "the password"}
LineAs == [u \in Uris |-> IF u = "the password" THEN admin ELSE wrong]
SongLists == {Library, <<>>}
SomeFiles == {<<"the password", "u4", "u1">>, <<"u3">>}
=============================================================================
