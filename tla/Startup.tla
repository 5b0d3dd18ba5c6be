-------------------------------- MODULE Startup --------------------------------
(***************************************************************************)
(* From the command line to the moment main enters Loop (src/src/main.cc): *)
(* the options are parsed, a connection is made, the chain is loaded; and  *)
(* how main connects again after Loop has failed.  What happens in Loop,   *)
(* and after reconnecting, is the subject of Main.                         *)
(***************************************************************************)
EXTENDS Parser, Load, Connect

CONSTANTS HostPassword,   \* the part of an argument before its first '@'
          ReadAs,         \* what a line of a file is as a password
          Listings,       \* song lists of the libraries tried
          Files           \* files, or standard inputs, tried

ASSUME StartupAssumption ==
    /\ HostPassword \in [Arg -> Passwords \cup {NoPassword}]
    /\ ReadAs \in [URI -> Passwords]
    /\ Listings \subseteq Seq(Song) /\ \A songs \in Listings : ListedOnce(songs)
    /\ Files \subseteq Seq(URI)

VARIABLE main             \* "parse", "connect", "load", "run", "retry",
                          \* "run again" or how it exited

startupVars ==
    <<opts, state, pending_rule, rule_tag, err, args,
      host, interactive, pc, broken, permitted, typed, prompted,
      listing, file, lines, stage, unread, valid_uris, groups, items, main>>

loading == <<listing, file, lines, stage, unread, valid_uris, groups, items>>

(* Nothing outside has been looked at.                                     *)
StartupInit ==
    /\ ParserInit
    /\ Init /\ interactive = TRUE /\ host = NoPassword /\ permitted = FALSE
    /\ LoadInit({<<>>}, {<<>>})
    /\ main = "parse"

-----------------------------------------------------------------------------
Parse ==
    /\ main = "parse"
    /\ ParserNext
    /\ UNCHANGED <<vars, loading, main>>

Misparsed ==
    /\ main = "parse"
    /\ state = "kError"
    /\ main' = IF err = "kVersion" THEN "success" ELSE "failure"
    /\ UNCHANGED <<parserVars, vars, loading>>

(* Songs are grouped by tags, which a list that is not checked has not.    *)
GroupsUnchecked == ~opts.check_uris /\ opts.group_by # <<>>

Unsupported ==
    /\ main = "parse"
    /\ state = "kFinal"
    /\ GroupsUnchecked
    /\ main' = "failure"
    /\ UNCHANGED <<parserVars, vars, loading>>

(* The parser is gone.  Connect takes the host from MPD_HOST if there is no*)
(* --host; files, the server's defaults and its library are what they are. *)
Configured ==
    /\ main = "parse"
    /\ state = "kFinal"
    /\ ~GroupsUnchecked
    /\ main' = "connect"
    /\ host' \in IF opts.host = {} THEN Passwords \cup {NoPassword}
                 ELSE {HostPassword[a] : a \in opts.host}
    /\ permitted' \in BOOLEAN
    /\ listing' \in Listings
    /\ file' \in Files /\ lines' = file'
    /\ state' = "kNone" /\ args' = <<>> /\ rule_tag' = {}
    /\ UNCHANGED <<opts, pending_rule, err, interactive, pc, broken, typed, prompted,
                   stage, unread, valid_uris, groups, items>>

Calling ==
    /\ main = "connect"
    /\ Dial \/ ApplyHostPassword \/ CheckCommands \/ ApplyTypedPassword \/ Recheck \/ Breaks
    /\ UNCHANGED <<parserVars, loading, main>>

(* GetPass reads standard input, and so does --file -: the line is lost to *)
(* the list of songs.                                                      *)
PromptTakesLine ==
    /\ main = "connect"
    /\ opts.file_in = "-"
    /\ IF lines = <<>>
       THEN NoAnswer /\ UNCHANGED lines
       ELSE Type(ReadAs[Head(lines)]) /\ lines' = Tail(lines)
    /\ UNCHANGED <<parserVars, listing, file, stage, unread, valid_uris, groups, items, main>>

Answers ==
    /\ main = "connect"
    /\ opts.file_in # "-"
    /\ NoAnswer \/ \E password \in Passwords : Type(password)
    /\ UNCHANGED <<parserVars, loading, main>>

Connected ==
    /\ main = "connect"
    /\ pc \in Done
    /\ main' = IF pc = "connected" THEN IF interactive THEN "load" ELSE "run again"
               ELSE IF pc = "error" /\ ~interactive THEN "retry" ELSE "failure"
    /\ UNCHANGED <<parserVars, vars, loading>>

Loading ==
    /\ main = "load"
    /\ LoadNext
    /\ UNCHANGED <<parserVars, vars, main>>

Loaded ==
    /\ main = "load"
    /\ stage \in {"done", "died"}
    /\ main' = IF stage = "died" THEN "failure"
               ELSE IF opts.test THEN "success"
               ELSE IF items = <<>> THEN "failure"
               ELSE "run"
    /\ UNCHANGED <<parserVars, vars, loading>>

(* Loop has failed, and there is nobody to ask this time.                  *)
Reconnect ==
    /\ main \in {"run", "retry"} /\ opts.queue_only = 0
    /\ ~prompted
    /\ main' = "connect" /\ interactive' = FALSE
    /\ pc' = "dial" /\ broken' = FALSE /\ permitted' \in BOOLEAN
    /\ UNCHANGED <<parserVars, host, typed, prompted, loading>>

StartupNext ==
    \/ Parse \/ Misparsed \/ Unsupported \/ Configured
    \/ Calling \/ PromptTakesLine \/ Answers \/ Connected
    \/ Loading \/ Loaded \/ Reconnect

StartupSpec == StartupInit /\ [][StartupNext]_startupVars

-----------------------------------------------------------------------------
StartupTypeOK ==
    /\ ParserTypeOK /\ TypeOK /\ LoadTypeOK
    /\ main \in {"parse", "connect", "load", "run", "retry", "run again",
                 "success", "failure"}

(* When Loop is entered, or --only begins, everything they rely on holds,  *)
(* each of it established by another part of the start: the window holds a *)
(* song (args.cc), every command they will send is permitted (ashuffle.cc, *)
(* Connect), and there is something to pick (load.cc), in groups only where*)
(* MPD was asked for tags.                                                 *)
StartsReady ==
    main \in {"run", "run again"} =>
        /\ OptionsAreUsable
        /\ permitted
        /\ items # <<>> /\ <<>> \notin Range(items)
        /\ opts.group_by # <<>> => opts.check_uris
=============================================================================
