---------------------------- MODULE StartupProofs ----------------------------
(***************************************************************************)
(* Proofs about the start of the process, composed of those about parser,  *)
(* Connect and loaders: for command lines of any length, every server, set *)
(* of passwords, library and file.                                         *)
(***************************************************************************)
EXTENDS Startup, ParserProofs, ConnectProofs, LoadProofs

(* Where main is: what was called so far, and what it came to.             *)
MainInv ==
    /\ main \in {"parse", "connect", "load", "run", "retry", "run again",
                 "success", "failure"}
    /\ main = "parse" => pc = "dial" /\ ~prompted /\ typed = NoPassword /\ interactive
    /\ main \in {"parse", "connect"} /\ interactive => Untouched
    /\ main = "parse" \/ opts.file_in # "-" => lines = file
    /\ main = "load" => interactive
    /\ main \in {"load", "run", "run again"} => pc = "connected"
    /\ main = "retry" => pc = "error" /\ ~interactive
    /\ ~interactive \/ main \in {"run", "retry", "run again"} => items # <<>>
    /\ main \in {"connect", "load", "run", "retry", "run again"}
         => (opts.group_by # <<>> => opts.check_uris)

StartupInv == ParserInv /\ ConnectInv /\ LoadInv /\ MainInv

(* What a step of one part leaves alone, it leaves in order.               *)
LEMMA PartsUntouched ==
    /\ ParserInv /\ UNCHANGED parserVars => ParserInv'
    /\ ConnectInv /\ UNCHANGED vars => ConnectInv'
    /\ LoadInv /\ UNCHANGED <<opts, loading>> /\ opts \in OptionsType => LoadInv'
    /\ UNCHANGED loading => (Untouched' <=> Untouched)
<1>1. LoadInv /\ UNCHANGED <<opts, loading>> /\ opts \in OptionsType => LoadInv'
  BY LoadStep DEF loading, loadVars
<1>2. UNCHANGED loading => (Untouched' <=> Untouched)
  BY DEF loading, Untouched
<1> QED  BY <1>1, <1>2, ParserStep, ConnectStep

(* At the start nothing has been done.                                     *)
LEMMA StartupStart == StartupInit => StartupInv
<1> SUFFICES ASSUME StartupInit  PROVE StartupInv
  OBVIOUS
<1>1. ParserInv
  BY ParserStart DEF StartupInit
<1>2. ConnectInv
  BY ConnectStart DEF StartupInit
<1>3. Untouched /\ listing = <<>> /\ file = <<>> /\ lines = <<>>
  BY DEF StartupInit, LoadInit, Untouched
<1>4. LoadInv
  <2>1. DOMAIN groups = {} /\ Range(items) = {} /\ Range(unread) = {}
    BY <1>3 DEF Untouched, Range
  <2>2. IsFiniteSet(DOMAIN groups)
    BY <2>1, FS_EmptySet
  <2> QED  BY <1>3, <2>1, <2>2 DEF LoadInv, LoadTypeOK, NothingUnwanted, Untouched
<1>5. MainInv
  BY <1>3 DEF StartupInit, Init, MainInv
<1> QED  BY <1>1, <1>2, <1>4, <1>5 DEF StartupInv

(* An argument, or the end of them.                                        *)
LEMMA ParseStep == StartupInv /\ Parse => StartupInv'
<1> SUFFICES ASSUME StartupInv, Parse  PROVE StartupInv'
  OBVIOUS
<1>1. ParserInv'
  BY ParserStep DEF StartupInv, Parse
<1>2. ConnectInv'
  BY PartsUntouched DEF StartupInv, Parse
<1>3. UNCHANGED <<vars, loading, main>> /\ main = "parse"
  BY DEF Parse
<1>4. Untouched'
  BY <1>3, PartsUntouched DEF StartupInv, MainInv, vars
<1>5. LoadInv'
  BY <1>3, <1>4, UntouchedIsFine DEF StartupInv, LoadInv, LoadTypeOK, loading
<1>6. MainInv'
  BY <1>3, <1>4 DEF StartupInv, MainInv, vars, loading
<1> QED  BY <1>1, <1>2, <1>5, <1>6 DEF StartupInv

(* The options are used, and the outside is looked at.                     *)
LEMMA ConfiguredStep == StartupInv /\ Configured => StartupInv'
<1> SUFFICES ASSUME StartupInv, Configured  PROVE StartupInv'
  OBVIOUS
<1>1. /\ opts' = opts /\ Usable(opts) /\ pending_rule = <<>>
      /\ err = "kUnknown"
  BY DEF StartupInv, ParserInv, ParserTypeOK, PendingRuleIsWhole, Configured
<1>2. ParserInv'
  <2>1. Usable(opts)'
    BY <1>1 DEF Usable, Unsigned
  <2>2. ParserTypeOK'
    BY <1>1, KnownStates DEF StartupInv, ParserInv, ParserTypeOK, Configured
  <2> QED  BY <1>1, <2>1, <2>2 DEF ParserInv, PendingRuleIsWhole, Configured
<1>3. host' \in Passwords \cup {NoPassword}
  <2>1. opts.host \subseteq Arg
    BY <1>1 DEF Usable, OptionsType
  <2>2. \A a \in opts.host : HostPassword[a] \in Passwords \cup {NoPassword}
    BY <2>1, StartupAssumption
  <2>3. CASE opts.host = {}
    BY <2>3 DEF Configured
  <2>4. CASE opts.host # {}
    BY <2>2, <2>4 DEF Configured
  <2> QED  BY <2>3, <2>4
<1>4. /\ main = "parse" /\ permitted' \in BOOLEAN
      /\ UNCHANGED <<interactive, pc, broken, typed, prompted>>
      /\ pc = "dial" /\ ~prompted /\ typed = NoPassword /\ interactive /\ Untouched
  BY DEF StartupInv, MainInv, Configured
<1>5. ConnectInv'
  BY <1>3, <1>4 DEF StartupInv, ConnectInv, TypeOK, Prompting, ConnectedMeansPermitted,
                    AsksOnlyWithoutPassword, Done
<1>6. Untouched'
  BY <1>4 DEF Untouched, Configured
<1>7. LoadInv'
  BY <1>6, UntouchedIsFine, StartupAssumption DEF Configured
<1>8. main' = "connect" /\ (opts.group_by # <<>> => opts.check_uris) /\ lines' = file'
  BY DEF Configured, GroupsUnchecked
<1>9. MainInv'
  BY <1>1, <1>4, <1>6, <1>8 DEF MainInv
<1> QED  BY <1>2, <1>5, <1>7, <1>9 DEF StartupInv

(* A call of Connect, or the loss of its connection.                       *)
LEMMA CallingStep == StartupInv /\ Calling => StartupInv'
<1> SUFFICES ASSUME StartupInv, Calling  PROVE StartupInv'
  OBVIOUS
<1>1. UNCHANGED <<parserVars, loading, main>> /\ main = "connect"
  BY DEF Calling
<1>2. Next
  BY DEF Calling, Next, Step
<1>3. ParserInv' /\ ConnectInv' /\ LoadInv'
  BY <1>1, <1>2, PartsUntouched, ConnectStep DEF StartupInv, ParserInv, ParserTypeOK, parserVars
<1>4. interactive' = interactive
  BY DEF Calling, Dial, ApplyHostPassword, CheckCommands, ApplyTypedPassword, Recheck, Breaks
<1>5. MainInv'
  BY <1>1, <1>4, PartsUntouched DEF StartupInv, MainInv, parserVars, loading
<1> QED  BY <1>3, <1>5 DEF StartupInv

(* The prompt takes a line of the song list, or there is none.             *)
LEMMA PromptTakesLineStep == StartupInv /\ PromptTakesLine => StartupInv'
<1> SUFFICES ASSUME StartupInv, PromptTakesLine  PROVE StartupInv'
  OBVIOUS
<1>1. UNCHANGED <<parserVars, listing, stage, unread, valid_uris, groups, items, main>>
      /\ main = "connect" /\ pc = "getpass"
  BY DEF PromptTakesLine, NoAnswer, Type
<1>2. interactive /\ Untouched
  BY <1>1 DEF StartupInv, ConnectInv, TypeOK, MainInv
<1>3. /\ listing \in Seq(Song) /\ file \in Seq(URI) /\ lines \in Seq(URI)
      /\ file' = file /\ opts' = opts /\ opts.file_in = "-"
  BY DEF StartupInv, LoadInv, LoadTypeOK, PromptTakesLine, parserVars
<1>4. CASE lines = <<>> /\ NoAnswer /\ UNCHANGED lines
  <2>1. ConnectInv'
    BY <1>4, ConnectStep DEF StartupInv, Next, Step
  <2>2. Untouched'
    BY <1>1, <1>2 DEF Untouched
  <2>3. LoadInv'
    BY <1>1, <1>3, <1>4, <2>2, UntouchedIsFine
  <2>4. MainInv'
    BY <1>1, <1>2, <1>3, <1>4, <2>2 DEF StartupInv, MainInv, NoAnswer
  <2> QED  BY <1>1, <2>1, <2>3, <2>4, PartsUntouched DEF StartupInv
<1>5. CASE /\ lines # <<>> /\ Type(ReadAs[Head(lines)])
           /\ lines' = Tail(lines)
  <2>1. Head(lines) \in URI /\ Tail(lines) \in Seq(URI)
    BY <1>3, <1>5, HeadTailProperties
  <2>2. ReadAs[Head(lines)] \in Passwords
    BY <2>1, StartupAssumption
  <2>3. ConnectInv'
    BY <1>5, <2>2, ConnectStep DEF StartupInv, Next, Step
  <2>4. Untouched'
    BY <1>1, <1>2 DEF Untouched
  <2>5. LoadInv'
    BY <1>1, <1>3, <1>5, <2>1, <2>4, UntouchedIsFine
  <2>6. MainInv'
    BY <1>1, <1>2, <1>3, <1>5, <2>4 DEF StartupInv, MainInv, Type
  <2> QED  BY <1>1, <2>3, <2>5, <2>6, PartsUntouched DEF StartupInv
<1> QED  BY <1>4, <1>5 DEF PromptTakesLine

(* The user answers the prompt, or not.                                    *)
LEMMA AnswersStep == StartupInv /\ Answers => StartupInv'
<1> SUFFICES ASSUME StartupInv, Answers  PROVE StartupInv'
  OBVIOUS
<1>1. UNCHANGED <<parserVars, loading, main>> /\ main = "connect"
  BY DEF Answers
<1>2. Next /\ interactive' = interactive
  BY DEF Answers, Next, Step, NoAnswer, Type
<1>3. ParserInv' /\ ConnectInv' /\ LoadInv'
  BY <1>1, <1>2, PartsUntouched, ConnectStep DEF StartupInv, ParserInv, ParserTypeOK, parserVars
<1>4. MainInv'
  BY <1>1, <1>2, PartsUntouched DEF StartupInv, MainInv, parserVars, loading
<1> QED  BY <1>3, <1>4 DEF StartupInv

(* Connect has answered, the parser has failed or has parsed options that  *)
(* do not go together, or the chain is loaded: only main goes on.          *)
LEMMA MainGoesOn == StartupInv /\ (Misparsed \/ Unsupported \/ Connected \/ Loaded) => StartupInv'
<1> SUFFICES ASSUME StartupInv, Misparsed \/ Unsupported \/ Connected \/ Loaded  PROVE StartupInv'
  OBVIOUS
<1>1. UNCHANGED <<parserVars, vars, loading>>
  BY DEF Misparsed, Unsupported, Connected, Loaded
<1>2. ParserInv' /\ ConnectInv' /\ LoadInv'
  BY <1>1, PartsUntouched DEF StartupInv, ParserInv, ParserTypeOK, parserVars
<1>3. /\ opts' = opts /\ pc' = pc /\ interactive' = interactive /\ items' = items
      /\ interactive \in BOOLEAN /\ file' = file /\ lines' = lines
  BY <1>1 DEF parserVars, vars, loading, StartupInv, ConnectInv, TypeOK
<1>4. MainInv'
  <2>1. CASE Misparsed \/ Unsupported
    BY <1>3, <2>1 DEF StartupInv, MainInv, Misparsed, Unsupported
  <2>2. CASE Connected
    BY <1>3, <2>2 DEF StartupInv, MainInv, Connected, Done
  <2>3. CASE Loaded
    BY <1>3, <2>3 DEF StartupInv, MainInv, Loaded
  <2> QED  BY <2>1, <2>2, <2>3
<1> QED  BY <1>2, <1>4 DEF StartupInv

(* A step of the loader.                                                   *)
LEMMA LoadingStep == StartupInv /\ Loading => StartupInv'
<1> SUFFICES ASSUME StartupInv, Loading  PROVE StartupInv'
  OBVIOUS
<1>1. UNCHANGED <<parserVars, vars, main>> /\ main = "load" /\ LoadNext
  BY DEF Loading
<1>2. ParserInv' /\ ConnectInv'
  BY <1>1, PartsUntouched DEF StartupInv
<1>3. LoadInv'
  BY <1>1, LoadStep DEF StartupInv, ParserInv, ParserTypeOK, parserVars
<1>4. /\ opts' = opts /\ pc' = pc /\ interactive' = interactive
      /\ file' = file /\ lines' = lines
  BY <1>1 DEF parserVars, vars, LoadNext, LoadFile, ListAll, ReceiveSong, ListingEnds
<1>5. MainInv'
  BY <1>1, <1>4 DEF StartupInv, MainInv
<1> QED  BY <1>2, <1>3, <1>5 DEF StartupInv

(* The next call of Connect.                                               *)
LEMMA ReconnectStep == StartupInv /\ Reconnect => StartupInv'
<1> SUFFICES ASSUME StartupInv, Reconnect  PROVE StartupInv'
  OBVIOUS
<1>1. /\ UNCHANGED <<parserVars, host, typed, prompted, loading>>
      /\ main \in {"run", "retry"} /\ ~prompted
      /\ main' = "connect" /\ interactive' = FALSE
      /\ pc' = "dial" /\ broken' = FALSE /\ permitted' \in BOOLEAN
  BY DEF Reconnect
<1>2. ParserInv' /\ LoadInv'
  BY <1>1, PartsUntouched DEF StartupInv, ParserInv, ParserTypeOK, parserVars
<1>3. ConnectInv'
  BY <1>1 DEF StartupInv, ConnectInv, TypeOK, Prompting, ConnectedMeansPermitted,
              AsksOnlyWithoutPassword, Done
<1>4. opts' = opts /\ items' = items /\ file' = file /\ lines' = lines
  BY <1>1 DEF parserVars, loading
<1>5. MainInv'
  BY <1>1, <1>4 DEF StartupInv, MainInv
<1> QED  BY <1>2, <1>3, <1>5 DEF StartupInv

(* Every step on the way to Loop preserves StartupInv.                     *)
LEMMA StartupStep == StartupInv /\ [StartupNext]_startupVars => StartupInv'
<1> SUFFICES ASSUME StartupInv, [StartupNext]_startupVars
             PROVE  StartupInv'
  OBVIOUS
<1>1. CASE UNCHANGED startupVars
  <2>1. UNCHANGED <<parserVars, vars, loading, main>>
    BY <1>1 DEF startupVars, parserVars, vars, loading
  <2>2. ParserInv' /\ ConnectInv' /\ LoadInv'
    BY <2>1, PartsUntouched DEF StartupInv, ParserInv, ParserTypeOK, parserVars
  <2>3. MainInv'
    BY <2>1, PartsUntouched DEF StartupInv, MainInv, parserVars, vars, loading
  <2> QED  BY <2>2, <2>3 DEF StartupInv
<1> QED
  BY <1>1, ParseStep, ConfiguredStep, CallingStep, PromptTakesLineStep, AnswersStep,
     MainGoesOn, LoadingStep, ReconnectStep DEF StartupNext

(* What Loop relies on follows from the parts.                             *)
LEMMA InvImpliesReady == StartupInv => StartupTypeOK /\ StartsReady
<1> SUFFICES ASSUME StartupInv  PROVE StartupTypeOK /\ StartsReady
  OBVIOUS
<1>1. StartupTypeOK
  BY DEF StartupInv, ParserInv, ConnectInv, LoadInv, MainInv, StartupTypeOK
<1>2. ASSUME main \in {"run", "run again"}
      PROVE  /\ OptionsAreUsable
             /\ permitted
             /\ items # <<>> /\ <<>> \notin Range(items)
             /\ opts.group_by # <<>> => opts.check_uris
  <2>1. OptionsAreUsable
    BY DEF StartupInv, ParserInv, Usable, OptionsAreUsable
  <2>2. permitted
    BY <1>2 DEF StartupInv, MainInv, ConnectInv, ConnectedMeansPermitted
  <2>3. items # <<>> /\ <<>> \notin Range(items)
    BY <1>2 DEF StartupInv, MainInv, LoadInv
  <2>4. opts.group_by # <<>> => opts.check_uris
    BY <1>2 DEF StartupInv, MainInv
  <2> QED  BY <2>1, <2>2, <2>3, <2>4
<1> QED  BY <1>1, <1>2 DEF StartsReady

(* Parser, Connect and loaders keep their types where main hands one's     *)
(* results to the next.                                                    *)
THEOREM StartupTypes == StartupSpec => []StartupTypeOK
BY InvImpliesReady, StartupStart, StartupStep, PTL DEF StartupSpec

(***************************************************************************)
(* When main enters Loop, for the first time or after reconnecting, the    *)
(* options are usable, the connection is permitted every command, and the  *)
(* chain has items, none of them empty (main.cc, main).                    *)
(***************************************************************************)
THEOREM StartupCorrect == StartupSpec => []StartsReady
BY InvImpliesReady, StartupStart, StartupStep, PTL DEF StartupSpec

(***************************************************************************)
(* What holds of the parser and of Connect on their own still holds where  *)
(* main feeds one's options to the other, calls Connect again after a loss *)
(* and shares standard input between the prompt and the list of songs.     *)
(***************************************************************************)
THEOREM PartsStayCorrect ==
    StartupSpec => [](/\ PendingRuleIsWhole
                      /\ ConnectedMeansPermitted /\ AsksOnlyWithoutPassword)
<1>1. StartupInv => /\ PendingRuleIsWhole
                    /\ ConnectedMeansPermitted /\ AsksOnlyWithoutPassword
  BY DEF StartupInv, ParserInv, ConnectInv
<1> QED  BY <1>1, StartupStart, StartupStep, PTL DEF StartupSpec

(* While main parses, the parser keeps track; then it is gone.             *)
ParsedInv == OptionsMeanTheArguments /\ (main = "parse" => MeaningInv)

(* So it does at every step.                                               *)
LEMMA MeaningKept ==
    StartupInv /\ ParsedInv /\ [StartupNext]_startupVars => ParsedInv'
<1> SUFFICES ASSUME StartupInv, ParsedInv, [StartupNext]_startupVars
             PROVE  OptionsMeanTheArguments' /\ (main' = "parse" => MeaningInv')
  BY DEF ParsedInv
<1>1. ParserInv
  BY DEF StartupInv
<1>2. CASE Parse
  <2>1. MeaningInv'
    BY <1>1, <1>2, MeaningStep DEF Parse, ParsedInv
  <2> QED  BY <2>1 DEF MeaningInv
<1>3. CASE Configured
  BY <1>3 DEF Configured, OptionsMeanTheArguments
<1>4. CASE UNCHANGED parserVars /\ (main' = "parse" => main = "parse")
  <2>1. OptionsMeanTheArguments'
    BY <1>4 DEF ParsedInv, parserVars, OptionsMeanTheArguments
  <2>2. main = "parse" => MeaningInv'
    BY <1>1, <1>4, MeaningStep DEF ParsedInv
  <2> QED  BY <1>4, <2>1, <2>2
<1>5. Parse \/ Configured \/ (UNCHANGED parserVars /\ (main' = "parse" => main = "parse"))
  BY DEF StartupNext, startupVars, parserVars, Misparsed, Unsupported, Calling, PromptTakesLine, Answers,
         Connected, Loading, Loaded, Reconnect
<1> QED  BY <1>2, <1>3, <1>4, <1>5

(***************************************************************************)
(* The options with which main goes on are what the command line means,    *)
(* and it exits for an error in the arguments only if they mean nothing    *)
(* (main.cc, main, with args.cc, Options::Parse).                          *)
(***************************************************************************)
THEOREM OptionsMeant == StartupSpec => []OptionsMeanTheArguments
<1>1. StartupInit => ParsedInv
  BY MeaningStart DEF StartupInit, ParsedInv, MeaningInv
<1>2. ParsedInv => OptionsMeanTheArguments
  BY DEF ParsedInv
<1> QED  BY <1>1, <1>2, MeaningKept, StartupStart, StartupStep, PTL DEF StartupSpec

(***************************************************************************)
(* On the way to a loaded chain no song but a wanted one gets into it:     *)
(* none that a rule excludes, and with a file none that is not in it       *)
(* (load.cc, MPDLoader and FileMPDLoader; rule.cc).                        *)
(***************************************************************************)
THEOREM OnlyWantedSongs == StartupSpec => []NothingUnwanted
<1>1. StartupInv => NothingUnwanted
  BY DEF StartupInv, LoadInv
<1> QED  BY <1>1, StartupStart, StartupStep, PTL DEF StartupSpec

(* The parser and the prompt, which may take lines of the file, leave the  *)
(* loader as it was constructed; every other step but its own leaves it.   *)
LEMMA AskedKept ==
    StartupInv /\ AskedInv /\ [StartupNext]_startupVars => AskedInv'
<1> SUFFICES ASSUME StartupInv, AskedInv, [StartupNext]_startupVars  PROVE AskedInv'
  OBVIOUS
<1>1. StartupInv' /\ opts \in OptionsType
  BY StartupStep DEF StartupInv, ParserInv, ParserTypeOK
<1>2. CASE UNCHANGED <<opts, loading>>
  BY <1>1, <1>2, AskedStep DEF StartupInv, loading, loadVars
<1>3. CASE Loading
  BY <1>1, <1>3, AskedStep DEF StartupInv, Loading, parserVars
<1>4. CASE Parse \/ PromptTakesLine
  <2>1. UNCHANGED <<main, interactive, listing>> /\ main \in {"parse", "connect"}
    BY <1>4 DEF Parse, PromptTakesLine, NoAnswer, Type, vars, loading
  <2>2. interactive
    BY <1>4, <2>1 DEF StartupInv, MainInv, ConnectInv, TypeOK, Parse, PromptTakesLine, NoAnswer, Type
  <2>3. Untouched'
    BY <1>1, <2>1, <2>2 DEF StartupInv, MainInv
  <2> QED  BY <2>1, <2>3, UntouchedIsAsked DEF AskedInv
<1>5. CASE Configured
  <2>1. Untouched'
    BY <1>5 DEF StartupInv, MainInv, Configured, Untouched
  <2>2. ListedOnce(listing')
    BY <1>5, StartupAssumption DEF Configured
  <2> QED  BY <2>1, <2>2, UntouchedIsAsked
<1>6. CASE \/ Misparsed \/ Unsupported \/ Calling \/ Answers \/ Connected \/ Loaded \/ Reconnect
           \/ UNCHANGED startupVars
  <2>1. UNCHANGED <<opts, loading>>
    BY <1>6 DEF Misparsed, Unsupported, Calling, Answers, Connected, Loaded, Reconnect, startupVars,
                parserVars, loading
  <2> QED  BY <1>2, <2>1
<1> QED  BY <1>3, <1>4, <1>5, <1>6 DEF StartupNext

(***************************************************************************)
(* A chain that was loaded holds the wanted songs, all of them and each    *)
(* once, in listing order or in its groups, each whole (load.cc,           *)
(* MPDLoader::Load and FileLoader::Load); and where there is a file, no    *)
(* line of it was lost before, unless it is standard input (getpass.cc).   *)
(***************************************************************************)
THEOREM LoadsAsked == StartupSpec => []LoadsWhatWasAsked
<1>1. StartupInit => AskedInv
  BY DEF StartupInit, LoadInit, AskedInv, LoadsTheWanted, ListedOnce
<1>2. StartupInv /\ AskedInv => LoadsWhatWasAsked
  BY DEF StartupInv, MainInv, AskedInv, LoadsTheWanted, LoadsWhatWasAsked
<1> QED  BY <1>1, <1>2, AskedKept, StartupStart, StartupStep, PTL DEF StartupSpec

(* Every step on the way to Loop is an answer of Connect, a prompt, the    *)
(* next call, or none of Connect's business.                               *)
LEMMA StartupOutcome ==
    StartupInv /\ [StartupNext]_startupVars => [Outcome!Next]_(Outcome!vars)
<1> SUFFICES ASSUME StartupInv, [StartupNext]_startupVars
             PROVE  [Outcome!Next]_(Outcome!vars)
  OBVIOUS
<1>1. CASE [Next]_vars
  BY <1>1, OutcomeStep DEF StartupInv
<1>2. CASE Configured
  BY <1>2 DEF Configured, Outcome!vars
<1>3. CASE Reconnect
  <2>1. pc \in {"connected", "error"}
    BY <1>3 DEF StartupInv, MainInv, Reconnect
  <2> QED  BY <1>3, <2>1 DEF Reconnect, Outcome!Next, Outcome!CallAgain, Done
<1>4. CASE PromptTakesLine
  <2>1. NoAnswer => Next
    BY DEF Next, Step
  <2>2. CASE lines # <<>>
    <3>1. Head(lines) \in URI
      BY <2>2, HeadTailProperties DEF StartupInv, LoadInv, LoadTypeOK
    <3>2. ReadAs[Head(lines)] \in Passwords
      BY <3>1, StartupAssumption
    <3>3. Next
      BY <1>4, <2>2, <3>2 DEF PromptTakesLine, Next, Step
    <3> QED  BY <1>1, <3>3
  <2> QED  BY <1>1, <1>4, <2>1, <2>2 DEF PromptTakesLine
<1>5. CASE Calling \/ Answers
  BY <1>1, <1>5 DEF Calling, Answers, Next, Step
<1>6. CASE \/ Parse \/ Misparsed \/ Unsupported \/ Connected \/ Loading \/ Loaded
           \/ UNCHANGED startupVars
  BY <1>1, <1>6 DEF Parse, Misparsed, Unsupported, Connected, Loading, Loaded, startupVars, vars
<1> QED  BY <1>2, <1>3, <1>4, <1>5, <1>6 DEF StartupNext

(***************************************************************************)
(* main keeps its side of ConnectOutcome too: it never calls Connect again *)
(* for somebody who was asked for a password (main.cc, disable_reconnect). *)
(***************************************************************************)
THEOREM MainAnswersOnce == StartupSpec => AnswersOnce
<1>1. StartupInit => Outcome!Init
  BY DEF StartupInit, Init, Outcome!Init, Done
<1> QED  BY <1>1, StartupStart, StartupStep, StartupOutcome, PTL
            DEF StartupSpec, AnswersOnce, Outcome!Spec
=============================================================================
