------------------------------- MODULE Options -------------------------------
(***************************************************************************)
(* The options of an ashuffle process (src/src/args.h): the parser fills   *)
(* them in, main, the loaders and Loop read them.  An argument is a string *)
(* that may name a tag, spell a number and so on; what it says is given by *)
(* constant functions.  An optional value is a set of at most one element. *)
(***************************************************************************)
EXTENDS Integers, SequencesExt

CONSTANTS Arg,            \* the arguments tried
          Tag             \* MPD's tags

ASSUME OptionsAssumption ==
    /\ {"-", "--by-album"} \subseteq Arg
    /\ {"album", "date"} \subseteq Tag

VARIABLE opts             \* Options

(* A rule excludes the songs that match all of its patterns.               *)
Pattern == [tag : Tag, value : Arg]
Rule == Seq(Pattern)

TweakKeys == {"window_size", "play_on_startup", "suspend_timeout",
              "exit_on_db_update", "reconnect_timeout"}
Switches == {"play_on_startup", "exit_on_db_update"}

NoFile == "no file"

(* Only whether a log file was named is kept of it; booleans among the     *)
(* tweaks are 0 and 1, and durations are whole numbers.                    *)
OptionsType ==
    [ruleset : Seq(Rule), queue_only : Nat, file_in : Arg \cup {NoFile},
     log_file : BOOLEAN, check_uris : BOOLEAN, queue_buffer : Nat,
     host : SUBSET Arg, port : Nat, test : BOOLEAN,
     tweak : [TweakKeys -> Int], group_by : Seq(Tag)]

Defaults ==
    [ruleset |-> <<>>, queue_only |-> 0, file_in |-> NoFile, log_file |-> FALSE,
     check_uris |-> TRUE, queue_buffer |-> 0, host |-> {}, port |-> 0,
     test |-> FALSE,
     tweak |-> [k \in TweakKeys |->
                   CASE k = "window_size" -> 7
                     [] k = "play_on_startup" -> 1
                     [] k = "reconnect_timeout" -> 10
                     [] OTHER -> 0],
     group_by |-> <<>>]
=============================================================================
