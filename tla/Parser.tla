-------------------------------- MODULE Parser --------------------------------
(***************************************************************************)
(* The command line parser (src/src/args.cc): a state machine that is fed  *)
(* one argument at a time and told when there are no more.                 *)
(***************************************************************************)
EXTENDS Options

CONSTANTS TagNamed,       \* TagParser::Parse
          NumberIn,       \* SimpleAtoi, before any check of its range
          TweakIn,        \* the <key>=<value> an argument is, with what the
                          \* value converts to for that key, if it does
          ExcludeFile,    \* the "rules" list of the YAML file of that name
          MaxInt,         \* the largest int; the largest unsigned is twice that + 1
          Tried           \* the command lines tried, and their beginnings
                          \* (bound, for model checking)

ASSUME ParserAssumption ==
    /\ TagNamed \in [Arg -> SUBSET Tag]
    /\ NumberIn \in [Arg -> SUBSET Int]
    /\ TweakIn \in [Arg -> SUBSET [key : STRING, value : SUBSET Int]]
    /\ ExcludeFile \in [Arg -> SUBSET Seq(Seq([key : Arg, value : Arg]))]
    /\ MaxInt \in Nat /\ MaxInt >= 10

VARIABLES state,          \* state_
          pending_rule,   \* pending_rule_
          rule_tag,       \* rule_tag_, a set: nothing before the first tag
          err,            \* the type of err_
          args            \* history: the arguments consumed

parserVars == <<opts, state, pending_rule, rule_tag, err, args>>

Unsigned == 0 .. 2 * MaxInt + 1

(* Options that take arguments, and the state that waits for the first;    *)
(* of an option's spellings there is one.                                  *)
Awaits ==
    [o \in {"-e", "--exclude-from", "-f", "--host", "--log-file", "-p", "-o",
            "-q", "--test", "-t"} |->
        CASE o = "-e" -> "kRuleBegin"  [] o = "--exclude-from" -> "kExcludeFile"
          [] o = "-f" -> "kFile"       [] o = "--host" -> "kHost"
          [] o = "-p" -> "kPort"       [] o = "--log-file" -> "kLogFile"
          [] o = "-o" -> "kQueue"      [] o = "-q" -> "kQueueBuffer"
          [] o = "-t" -> "kTweak"      [] o = "--test" -> "kTest"]

InGenericState == state \in {"kNone", "kRule", "kGroup"}
InFinalState == state \in {"kFinal", "kError"}

States == {Awaits[o] : o \in DOMAIN Awaits}
            \cup {"kNone", "kRule", "kRuleValue", "kGroup", "kGroupBegin",
                  "kFinal", "kError"}

ParserTypeOK ==
    /\ opts \in OptionsType
    /\ state \in States
    /\ pending_rule \in Rule
    /\ rule_tag \in SUBSET Tag
    /\ state = "kRuleValue" => rule_tag # {}
    /\ err \in {"kUnknown", "kGeneric", "kHelp", "kVersion"}
    /\ state = "kError" <=> err # "kUnknown"
    /\ args \in Seq(Arg)

ParserInit ==
    /\ opts = Defaults
    /\ state = "kNone"
    /\ pending_rule = <<>>
    /\ rule_tag = {}
    /\ err = "kUnknown"
    /\ args = <<>>

-----------------------------------------------------------------------------
(* Mutant: a rule is flushed only when another one follows.                *)
GotoFlushesForRules(next, o) ==
    /\ state' = next
    /\ IF state = "kRule" /\ next = "kRuleBegin"
       THEN /\ opts' = [o EXCEPT !.ruleset = Append(@, pending_rule)]
            /\ pending_rule' = <<>>
       ELSE opts' = o /\ UNCHANGED pending_rule
    /\ UNCHANGED <<rule_tag, err>>

(* The end of Consume: having changed the options to o, go to state next,  *)
(* and flush the rule under construction on the way out of it.             *)
Goto(next, o) ==
    /\ state' = next
    /\ IF state = "kRule" /\ next \notin {"kRule", "kRuleValue"}
       THEN /\ opts' = [o EXCEPT !.ruleset = Append(@, pending_rule)]
            /\ pending_rule' = <<>>
       ELSE opts' = o /\ UNCHANGED pending_rule
    /\ UNCHANGED <<rule_tag, err>>

(* Mutant: an error without its type.                                      *)
FailUntyped(type) ==
    /\ state' = "kError"
    /\ UNCHANGED <<opts, pending_rule, rule_tag, err>>

(* Options changed on the way to an error are never looked at.             *)
Fail(type) ==
    /\ state' = "kError"
    /\ err' = type
    /\ UNCHANGED <<opts, pending_rule, rule_tag>>

(* Where an option may stand: -g and --by-album exclude each other.        *)
ConsumeOption(arg) ==
    \/ arg = "-v" /\ Fail("kVersion")
    \/ arg = "-n" /\ Goto("kNone", [opts EXCEPT !.check_uris = FALSE])
    \/ arg \in DOMAIN Awaits /\ Goto(Awaits[arg], opts)
    \/ arg \in {"-g", "--by-album"} /\ opts.group_by # <<>> /\ Fail("kGeneric")
    \/ arg = "-g" /\ opts.group_by = <<>> /\ Goto("kGroupBegin", opts)
    \/ /\ arg = "--by-album" /\ opts.group_by = <<>>
       /\ Goto("kNone", [opts EXCEPT !.group_by = <<"album", "date">>])

IsOption(arg) == arg \in DOMAIN Awaits \cup {"-v", "-n", "-g", "--by-album"}

(* A word names one tag, if any, and converts to one value; no option has  *)
(* the name of a tag.                                                      *)
AtMostOne(S) == \A x, y \in S : x = y

ASSUME VocabularyAssumption ==
    \A arg \in Arg :
        /\ AtMostOne(TagNamed[arg]) /\ AtMostOne(NumberIn[arg])
        /\ AtMostOne(TweakIn[arg]) /\ \A t \in TweakIn[arg] : AtMostOne(t.value)
        /\ AtMostOne(ExcludeFile[arg])
        /\ IsOption(arg) => TagNamed[arg] = {}

(* Mutant: any value will do.                                              *)
TweakUnchecked(t, v) == t.key \in TweakKeys

(* ParseTweak: a known key, with a value in its range.                     *)
TweakIsValid(t, v) ==
    /\ t.key \in TweakKeys
    /\ t.key = "window_size" => v \in 1 .. MaxInt
    /\ t.key \in {"suspend_timeout", "reconnect_timeout"} => v >= 0
    /\ t.key \in Switches => v \in {0, 1}

(* LoadExcludeFile; what the rules of a file come to if all keys are tags. *)
KeysAreTags(rules) ==
    \A r \in Range(rules) : \A kv \in Range(r) : TagNamed[kv.key] # {}

Resolved(rules) ==
    [i \in DOMAIN rules |->
        [j \in DOMAIN rules[i] |->
            [tag |-> CHOOSE t \in TagNamed[rules[i][j].key] : TRUE,
             value |-> rules[i][j].value]]]

(* The options, once the argument that the state waits for is taken in;    *)
(* nothing if it does not convert.                                         *)
OptionsWith(arg) ==
    LET numbers == NumberIn[arg] \cap Unsigned
    IN CASE state = "kExcludeFile" ->
               {[opts EXCEPT !.ruleset = @ \o Resolved(rules)] :
                   rules \in {r \in ExcludeFile[arg] : KeysAreTags(r)}}
         [] state = "kTweak" ->
               UNION {{[opts EXCEPT !.tweak[t.key] = v] :
                          v \in {x \in t.value : TweakIsValid(t, x)}} : t \in TweakIn[arg]}
         [] state = "kFile" -> {[opts EXCEPT !.file_in = arg]}
         [] state = "kHost" -> {[opts EXCEPT !.host = {arg}]}
         [] state = "kLogFile" -> {[opts EXCEPT !.log_file = TRUE]}
         [] state = "kPort" -> {[opts EXCEPT !.port = n] : n \in numbers}
         [] state = "kQueue" -> {[opts EXCEPT !.queue_only = n] : n \in numbers}
         [] state = "kQueueBuffer" -> {[opts EXCEPT !.queue_buffer = n] : n \in numbers}
         [] state = "kTest" ->
               {[opts EXCEPT !.test = TRUE] : x \in {arg} \cap {"print_all_songs_and_exit"}}

ConsumeValue(arg) ==
    \/ /\ state \in Range(Awaits) \ {"kRuleBegin"}
       /\ \E o \in OptionsWith(arg) : Goto("kNone", o)
    \/ /\ state \in {"kRule", "kRuleBegin"}
       /\ TagNamed[arg] # {}
       /\ rule_tag' = TagNamed[arg]
       /\ state' = "kRuleValue"
       /\ UNCHANGED <<opts, pending_rule, err>>
    \/ /\ state = "kRuleValue"
       /\ \E t \in rule_tag :
             pending_rule' = Append(pending_rule, [tag |-> t, value |-> arg])
       /\ state' = "kRule"
       /\ UNCHANGED <<opts, rule_tag, err>>
    \/ /\ state \in {"kGroup", "kGroupBegin"}
       /\ \E t \in TagNamed[arg] :
             Goto("kGroup", [opts EXCEPT !.group_by = Append(@, t)])

(* Not an option where one may stand, and not what the state waits for.    *)
NotUnderstood(arg) ==
    CASE state \in {"kRule", "kRuleBegin", "kGroup", "kGroupBegin"} -> TagNamed[arg] = {}
      [] state = "kRuleValue" -> FALSE
      [] state = "kNone" -> TRUE
      [] OTHER -> OptionsWith(arg) = {}

Consume(arg) ==
    /\ ~InFinalState
    /\ args' = Append(args, arg)
    /\ IF arg = "-h" THEN Fail("kHelp")
       ELSE IF InGenericState /\ IsOption(arg) THEN ConsumeOption(arg)
       ELSE IF NotUnderstood(arg) THEN Fail("kGeneric")
       ELSE ConsumeValue(arg)

(* Mutant: a rule at the end of the arguments is forgotten.                *)
FinishWithoutFlush ==
    /\ ~InFinalState
    /\ IF InGenericState
       THEN state' = "kFinal" /\ UNCHANGED <<opts, pending_rule, rule_tag, err>>
       ELSE Fail("kGeneric")
    /\ UNCHANGED args

Finish ==
    /\ ~InFinalState
    /\ IF InGenericState THEN Goto("kFinal", opts) ELSE Fail("kGeneric")
    /\ UNCHANGED args

ParserNext ==
    \/ \E arg \in Arg : Append(args, arg) \in Tried /\ Consume(arg)
    \/ Finish

ParserSpec == ParserInit /\ [][ParserNext]_parserVars

-----------------------------------------------------------------------------
(* What a command line means, read as a whole.  It is divided into clauses,*)
(* an option with its arguments each, in the one way that is possible: S   *)
(* has the places where options stand.                                     *)
Own(line, S, i) == {j \in DOMAIN line : j > i /\ \A k \in S : k <= i \/ k > j}

Fits(option, arg) ==
    CASE option \in {"-f", "--host", "--log-file"} -> TRUE
      [] option \in {"-p", "-o", "-q"} -> NumberIn[arg] \cap Unsigned # {}
      [] option = "--test" -> arg = "print_all_songs_and_exit"
      [] option = "-t" -> \E t \in TweakIn[arg] : \E v \in t.value : TweakIsValid(t, v)
      [] option = "--exclude-from" -> \E rules \in ExcludeFile[arg] : KeysAreTags(rules)
      [] OTHER -> FALSE

IsClause(line, S, i) ==
    LET own == Own(line, S, i)
        IsTag(j) == TagNamed[line[j]] # {}
    IN \/ /\ line[i] = "-e" /\ own # {}
          /\ \A k \in DOMAIN line :
                i + 2 * k - 1 \in own => IsTag(i + 2 * k - 1) /\ i + 2 * k \in own
       \/ line[i] = "-g" /\ own # {} /\ \A j \in own : IsTag(j)
       \/ line[i] \in {"-n", "--by-album"} /\ own = {}
       \/ own = {i + 1} /\ Fits(line[i], line[i + 1])

OneGrouping(line, S) ==
    \A i, j \in S : {line[i], line[j]} \subseteq {"-g", "--by-album"} => i = j

Readings(line) ==
    {S \in SUBSET DOMAIN line :
        /\ line # <<>> => 1 \in S
        /\ "-h" \notin Range(line)
        /\ \A i \in S : IsClause(line, S, i)
        /\ OneGrouping(line, S)}

(* The value of an option is the one it is given last.                     *)
LastOf(S) == {i \in S : \A j \in S : j <= i}
Named(line, S, option) == {i \in S : line[i] = option}
Given(line, S, option) == {line[i + 1] : i \in LastOf(Named(line, S, option))}

TheOne(S, default) == IF S = {} THEN default ELSE CHOOSE x \in S : TRUE
NumberGiven(line, S, option) ==
    TheOne(UNION {NumberIn[arg] : arg \in Given(line, S, option)}, 0)

TweaksGiven(line, S, key) ==
    {i \in Named(line, S, "-t") : \E t \in TweakIn[line[i + 1]] : t.key = key}
TweakGiven(line, S, key) ==
    LET given == {line[i + 1] : i \in LastOf(TweaksGiven(line, S, key))}
    IN TheOne(UNION {t.value : t \in UNION {TweakIn[arg] : arg \in given}},
              Defaults.tweak[key])

TagAt(line, i) == CHOOSE t \in TagNamed[line[i]] : TRUE

RuleAt(line, S, i) ==
    [k \in {m \in DOMAIN line : i + 2 * m \in Own(line, S, i)} |->
        [tag |-> TagAt(line, i + 2 * k - 1), value |-> line[i + 2 * k]]]

RulesFrom(line, S, i) ==
    CASE line[i] = "-e" -> <<RuleAt(line, S, i)>>
      [] line[i] = "--exclude-from" -> Resolved(TheOne(ExcludeFile[line[i + 1]], <<>>))
      [] OTHER -> <<>>

Ruleset(line, S) ==
    LET upto[n \in 0 .. Len(line)] ==
            IF n = 0 THEN <<>>
            ELSE IF n \in S THEN upto[n - 1] \o RulesFrom(line, S, n) ELSE upto[n - 1]
    IN  upto[Len(line)]

GroupingAt(line, S, i) ==
    IF line[i] = "--by-album" THEN <<"album", "date">>
    ELSE [k \in {m \in DOMAIN line : i + m \in Own(line, S, i)} |-> TagAt(line, i + k)]

GroupBy(line, S) ==
    TheOne({GroupingAt(line, S, i) : i \in Named(line, S, "-g") \cup Named(line, S, "--by-album")},
           <<>>)

Meaning(line, S) ==
    [ruleset |-> Ruleset(line, S), group_by |-> GroupBy(line, S),
     check_uris |-> Named(line, S, "-n") = {},
     log_file |-> Named(line, S, "--log-file") # {},
     test |-> Named(line, S, "--test") # {},
     file_in |-> TheOne(Given(line, S, "-f"), NoFile), host |-> Given(line, S, "--host"),
     port |-> NumberGiven(line, S, "-p"), queue_only |-> NumberGiven(line, S, "-o"),
     queue_buffer |-> NumberGiven(line, S, "-q"),
     tweak |-> [key \in TweakKeys |-> TweakGiven(line, S, key)]]

(* The options are what the command line means, and an error is reported   *)
(* exactly when it means nothing: no rule under construction is lost,      *)
(* flushed twice or given a pattern of another, no argument of one option  *)
(* is taken for another option, whatever is the last argument.             *)
OptionsMeanTheArguments ==
    /\ state = "kFinal" => opts \in {Meaning(args, S) : S \in Readings(args)}
    /\ state = "kError" => Readings(args) = {}

(* The assertion in FlushRule never fails, and no other state keeps a rule *)
(* that would end up in the next one.                                      *)
PendingRuleIsWhole ==
    /\ state = "kRule" => pending_rule # <<>>
    /\ state \notin {"kRule", "kRuleValue", "kError"} => pending_rule = <<>>

(* What main and Loop assume of the options: a window that holds a song,   *)
(* timeouts that are not negative (readme.md:158 asks for more than zero;  *)
(* the parser takes zero), numbers in the range of their types.            *)
OptionsAreUsable ==
    /\ opts.tweak["window_size"] \in 1 .. MaxInt
    /\ opts.tweak["suspend_timeout"] >= 0 /\ opts.tweak["reconnect_timeout"] >= 0
    /\ {opts.queue_only, opts.queue_buffer, opts.port} \subseteq Unsigned
=============================================================================
