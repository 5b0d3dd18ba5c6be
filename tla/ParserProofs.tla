----------------------------- MODULE ParserProofs -----------------------------
(***************************************************************************)
(* Proofs about the parser, for every vocabulary of arguments, whatever    *)
(* they convert to, and command lines of any length.                       *)
(***************************************************************************)
EXTENDS Parser, SequenceTheorems, WellFoundedInduction, TLAPS

(* What the parser keeps true of the options it fills in.                  *)
Usable(o) ==
    /\ o \in OptionsType
    /\ o.tweak["window_size"] \in 1 .. MaxInt
    /\ o.tweak["suspend_timeout"] >= 0 /\ o.tweak["reconnect_timeout"] >= 0
    /\ {o.queue_only, o.queue_buffer, o.port} \subseteq Unsigned

ParserInv == ParserTypeOK /\ PendingRuleIsWhole /\ Usable(opts)

(* The states in which an option waits for its first argument.             *)
LEMMA AwaitedStates ==
    Range(Awaits) = {"kRuleBegin", "kExcludeFile", "kFile", "kHost", "kPort",
                     "kLogFile", "kQueue", "kQueueBuffer", "kTweak", "kTest"}
BY DEF Awaits, Range

(* The states an option leads to, and the others, one by one.              *)
LEMMA KnownStates ==
    /\ States = {"kRuleBegin", "kExcludeFile", "kFile", "kHost", "kPort", "kLogFile",
                 "kQueue", "kQueueBuffer", "kTweak", "kTest", "kNone", "kRule",
                 "kRuleValue", "kGroup", "kGroupBegin", "kFinal", "kError"}
    /\ \A arg \in DOMAIN Awaits : Awaits[arg] \in Range(Awaits)
<1>1. {Awaits[o] : o \in DOMAIN Awaits} = Range(Awaits)
  BY DEF Range
<1> QED  BY <1>1, AwaitedStates DEF States, Range

(* Sequences are functions.                                                *)
LEMMA FunctionIsSequence ==
    ASSUME NEW S, NEW n \in Nat, NEW f \in [1 .. n -> S]
    PROVE  f \in Seq(S)
OBVIOUS

(* The rules of a file, once their keys are known to be tags, are rules.   *)
LEMMA ResolvedAreRules ==
    ASSUME NEW rules \in Seq(Seq([key : Arg, value : Arg])), KeysAreTags(rules)
    PROVE  Resolved(rules) \in Seq(Rule)
<1> DEFINE chosen(i, j) == [tag |-> CHOOSE t \in TagNamed[rules[i][j].key] : TRUE,
                            value |-> rules[i][j].value]
           rule(i) == [j \in DOMAIN rules[i] |-> chosen(i, j)]
<1>1. ASSUME NEW i \in DOMAIN rules
      PROVE  rule(i) \in Rule
  <2>1. rules[i] \in Seq([key : Arg, value : Arg]) /\ rules[i] \in Range(rules)
    BY DEF Range
  <2>2. ASSUME NEW j \in DOMAIN rules[i]
        PROVE  chosen(i, j) \in Pattern
    <3>1. /\ rules[i][j] \in [key : Arg, value : Arg]
          /\ rules[i][j] \in Range(rules[i])
      BY <2>1, ElementOfSeq, LenProperties DEF Range
    <3>2. TagNamed[rules[i][j].key] # {} /\ TagNamed[rules[i][j].key] \subseteq Tag
      BY <2>1, <3>1, ParserAssumption DEF KeysAreTags
    <3>3. (CHOOSE t \in TagNamed[rules[i][j].key] : TRUE) \in Tag
      BY <3>2
    <3> QED  BY <3>1, <3>3 DEF Pattern
  <2>3. DOMAIN rules[i] = 1 .. Len(rules[i]) /\ Len(rules[i]) \in Nat
    BY <2>1
  <2>4. rule(i) \in [1 .. Len(rules[i]) -> Pattern]
    BY <2>2, <2>3
  <2> HIDE DEF rule
  <2> QED  BY <2>3, <2>4, FunctionIsSequence DEF Rule
<1>2. DOMAIN rules = 1 .. Len(rules) /\ Len(rules) \in Nat
  OBVIOUS
<1>3. [i \in DOMAIN rules |-> rule(i)] \in [1 .. Len(rules) -> Rule]
  BY <1>1, <1>2
<1>4. Resolved(rules) = [i \in DOMAIN rules |-> rule(i)]
  BY DEF Resolved
<1> HIDE DEF rule
<1> QED  BY <1>2, <1>3, <1>4, FunctionIsSequence

(* A value in its range is a value its tweak can have.                     *)
LEMMA TweakKeepsUsable ==
    ASSUME Usable(opts), NEW t \in [key : STRING, value : SUBSET Int],
           NEW v \in t.value, TweakIsValid(t, v)
    PROVE  Usable([opts EXCEPT !.tweak[t.key] = v])
<1> DEFINE o == [opts EXCEPT !.tweak[t.key] = v]
<1>1. t.key \in TweakKeys /\ v \in Int
  BY DEF TweakIsValid
<1>2. opts.tweak \in [TweakKeys -> Int]
  BY DEF Usable, OptionsType
<1>3. o = [opts EXCEPT !.tweak = [opts.tweak EXCEPT ![t.key] = v]]
  OBVIOUS
<1>4. [opts.tweak EXCEPT ![t.key] = v] \in [TweakKeys -> Int]
  BY <1>1, <1>2
<1>5. o \in OptionsType
  BY <1>3, <1>4 DEF Usable, OptionsType
<1>6. /\ \A k \in TweakKeys : o.tweak[k] = IF k = t.key THEN v ELSE opts.tweak[k]
      /\ o.queue_only = opts.queue_only
      /\ o.queue_buffer = opts.queue_buffer
      /\ o.port = opts.port
  BY <1>1, <1>2, <1>3 DEF Usable, OptionsType
<1>7. {"window_size", "suspend_timeout", "reconnect_timeout"} \subseteq TweakKeys
  BY DEF TweakKeys
<1>8. o.tweak["window_size"] \in 1 .. MaxInt
  BY <1>6, <1>7 DEF Usable, TweakIsValid
<1>9. o.tweak["suspend_timeout"] >= 0 /\ o.tweak["reconnect_timeout"] >= 0
  BY <1>6, <1>7 DEF Usable, TweakIsValid
<1> QED  BY <1>5, <1>6, <1>8, <1>9 DEF Usable

(* Whatever the state waits for, taking it in leaves the options usable.   *)
LEMMA OptionsWithAreUsable ==
    ASSUME ParserInv, NEW arg \in Arg,
           state \in Range(Awaits) \ {"kRuleBegin"}, NEW o \in OptionsWith(arg)
    PROVE  Usable(o)
<1>1. Usable(opts)
  BY DEF ParserInv
<1>2. NumberIn[arg] \cap Unsigned \subseteq Unsigned /\ Unsigned \subseteq Nat
  BY ParserAssumption DEF Unsigned
<1>3. CASE state = "kExcludeFile"
  <2>1. PICK rules \in ExcludeFile[arg] :
          KeysAreTags(rules) /\ o = [opts EXCEPT !.ruleset = @ \o Resolved(rules)]
    BY <1>3 DEF OptionsWith
  <2>2. Resolved(rules) \in Seq(Rule)
    BY <2>1, ParserAssumption, ResolvedAreRules
  <2>3. opts.ruleset \o Resolved(rules) \in Seq(Rule)
    BY <1>1, <2>2, ConcatProperties DEF Usable, OptionsType
  <2> QED  BY <1>1, <2>1, <2>3 DEF Usable, OptionsType
<1>4. CASE state = "kTweak"
  <2>1. PICK t \in TweakIn[arg] :
          \E v \in t.value : TweakIsValid(t, v) /\ o = [opts EXCEPT !.tweak[t.key] = v]
    BY <1>4 DEF OptionsWith
  <2>2. t \in [key : STRING, value : SUBSET Int]
    BY ParserAssumption
  <2> QED  BY <1>1, <2>1, <2>2, TweakKeepsUsable
<1>5. CASE state = "kFile"
  <2>1. o = [opts EXCEPT !.file_in = arg]
    BY <1>5 DEF OptionsWith
  <2> QED  BY <1>1, <2>1 DEF Usable, OptionsType
<1>6. CASE state = "kHost"
  <2>1. o = [opts EXCEPT !.host = {arg}]
    BY <1>6 DEF OptionsWith
  <2> QED  BY <1>1, <2>1 DEF Usable, OptionsType
<1>7. CASE state = "kLogFile"
  <2>1. o = [opts EXCEPT !.log_file = TRUE]
    BY <1>7 DEF OptionsWith
  <2> QED  BY <1>1, <2>1 DEF Usable, OptionsType
<1>8. CASE state = "kPort"
  <2>1. PICK n \in Unsigned : o = [opts EXCEPT !.port = n]
    BY <1>8, <1>2 DEF OptionsWith
  <2> QED  BY <1>1, <1>2, <2>1 DEF Usable, OptionsType
<1>9. CASE state = "kQueue"
  <2>1. PICK n \in Unsigned : o = [opts EXCEPT !.queue_only = n]
    BY <1>9, <1>2 DEF OptionsWith
  <2> QED  BY <1>1, <1>2, <2>1 DEF Usable, OptionsType
<1>10. CASE state = "kQueueBuffer"
  <2>1. PICK n \in Unsigned : o = [opts EXCEPT !.queue_buffer = n]
    BY <1>10, <1>2 DEF OptionsWith
  <2> QED  BY <1>1, <1>2, <2>1 DEF Usable, OptionsType
<1>11. CASE state = "kTest"
  <2>1. o = [opts EXCEPT !.test = TRUE]
    BY <1>11 DEF OptionsWith
  <2> QED  BY <1>1, <2>1 DEF Usable, OptionsType
<1> QED  BY <1>3, <1>4, <1>5, <1>6, <1>7, <1>8, <1>9, <1>10, <1>11, AwaitedStates

(* An error leaves everything but the state and the type of the error.     *)
LEMMA FailKeepsInv ==
    ASSUME ParserInv, args' \in Seq(Arg),
           NEW type \in {"kGeneric", "kHelp", "kVersion"}, Fail(type)
    PROVE  ParserInv'
BY KnownStates DEF ParserInv, ParserTypeOK, PendingRuleIsWhole, Fail, Usable, Unsigned

(* A rule is appended when it is complete, and nothing is left of it.      *)
LEMMA GotoKeepsInv ==
    ASSUME ParserInv, args' \in Seq(Arg), state \notin {"kRuleValue", "kError"},
           NEW next \in States \ {"kRule", "kRuleValue", "kError"},
           NEW o, Usable(o), Goto(next, o)
    PROVE  ParserInv'
<1>1. state' = next /\ rule_tag' = rule_tag /\ err' = err
  BY DEF Goto
<1>2. pending_rule' = <<>> /\ Usable(opts')
  <2>1. CASE state = "kRule"
    <3>1. pending_rule' = <<>> /\ opts' = [o EXCEPT !.ruleset = Append(@, pending_rule)]
      BY <2>1 DEF Goto
    <3>2. Append(o.ruleset, pending_rule) \in Seq(Rule)
      BY DEF Usable, OptionsType, ParserInv, ParserTypeOK
    <3>3. opts' = [o EXCEPT !.ruleset = Append(o.ruleset, pending_rule)]
      BY <3>1
    <3> QED  BY <3>1, <3>2, <3>3 DEF Usable, OptionsType
  <2>2. CASE state # "kRule"
    BY <2>2 DEF Goto, ParserInv, PendingRuleIsWhole
  <2> QED  BY <2>1, <2>2
<1>3. pending_rule' \in Rule
  BY <1>2 DEF Rule
<1>4. Usable(opts)'
  BY <1>2 DEF Usable, Unsigned
<1>5. opts' \in OptionsType
  BY <1>2 DEF Usable
<1>6. PendingRuleIsWhole'
  BY <1>1, <1>2 DEF PendingRuleIsWhole
<1>7. ParserTypeOK'
  BY <1>1, <1>3, <1>5, KnownStates DEF ParserInv, ParserTypeOK
<1> QED  BY <1>4, <1>6, <1>7 DEF ParserInv

(* An option, where one may stand, preserves the invariant.                *)
LEMMA OptionKeepsInv ==
    ASSUME ParserInv, args' \in Seq(Arg), NEW arg \in Arg,
           InGenericState, ConsumeOption(arg)
    PROVE  ParserInv'
<1>1. Usable(opts) /\ state \notin {"kRuleValue", "kError"}
  BY DEF ParserInv, InGenericState
<1>2. {"kNone", "kGroupBegin"} \subseteq States \ {"kRule", "kRuleValue", "kError"}
  BY KnownStates
<1>3. CASE Fail("kVersion") \/ Fail("kGeneric")
  BY <1>3, FailKeepsInv
<1>4. CASE Goto("kNone", [opts EXCEPT !.check_uris = FALSE])
  <2>1. Usable([opts EXCEPT !.check_uris = FALSE])
    BY <1>1 DEF Usable, OptionsType
  <2> QED  BY <1>1, <1>2, <1>4, <2>1, GotoKeepsInv
<1>5. CASE arg \in DOMAIN Awaits /\ Goto(Awaits[arg], opts)
  <2>1. Awaits[arg] \in States \ {"kRule", "kRuleValue", "kError"}
    BY <1>5, KnownStates, AwaitedStates
  <2> QED  BY <1>1, <1>5, <2>1, GotoKeepsInv
<1>6. CASE Goto("kGroupBegin", opts)
  BY <1>1, <1>2, <1>6, GotoKeepsInv
<1>7. CASE Goto("kNone", [opts EXCEPT !.group_by = <<"album", "date">>])
  <2>1. <<"album", "date">> \in Seq(Tag)
    BY OptionsAssumption
  <2>2. Usable([opts EXCEPT !.group_by = <<"album", "date">>])
    BY <1>1, <2>1 DEF Usable, OptionsType
  <2> QED  BY <1>1, <1>2, <1>7, <2>2, GotoKeepsInv
<1> QED  BY <1>3, <1>4, <1>5, <1>6, <1>7 DEF ConsumeOption

(* So does the value that a state waits for.                               *)
LEMMA ValueKeepsInv ==
    ASSUME ParserInv, args' \in Seq(Arg), NEW arg \in Arg, ConsumeValue(arg)
    PROVE  ParserInv'
<1>1. Usable(opts) /\ TagNamed[arg] \subseteq Tag
  BY ParserAssumption DEF ParserInv
<1>2. CASE /\ state \in Range(Awaits) \ {"kRuleBegin"}
           /\ \E o \in OptionsWith(arg) : Goto("kNone", o)
  <2>1. PICK o \in OptionsWith(arg) : Goto("kNone", o)
    BY <1>2
  <2>2. Usable(o)
    BY <1>2, OptionsWithAreUsable
  <2>3. "kNone" \in States \ {"kRule", "kRuleValue", "kError"}
    BY KnownStates
  <2>4. state \notin {"kRuleValue", "kError"}
    BY <1>2, AwaitedStates
  <2> QED  BY <2>1, <2>2, <2>3, <2>4, GotoKeepsInv
<1>3. CASE /\ state \in {"kRule", "kRuleBegin"}
           /\ TagNamed[arg] # {}
           /\ rule_tag' = TagNamed[arg]
           /\ state' = "kRuleValue"
           /\ UNCHANGED <<opts, pending_rule, err>>
  <2>1. ParserTypeOK'
    BY <1>1, <1>3, KnownStates DEF ParserInv, ParserTypeOK
  <2> QED  BY <1>3, <2>1 DEF ParserInv, PendingRuleIsWhole, Usable, Unsigned
<1>4. CASE /\ state = "kRuleValue"
           /\ \E t \in rule_tag :
                 pending_rule' = Append(pending_rule, [tag |-> t, value |-> arg])
           /\ state' = "kRule"
           /\ UNCHANGED <<opts, rule_tag, err>>
  <2>1. PICK t \in rule_tag : pending_rule' = Append(pending_rule, [tag |-> t, value |-> arg])
    BY <1>4
  <2>2. [tag |-> t, value |-> arg] \in Pattern /\ pending_rule \in Seq(Pattern)
    BY DEF ParserInv, ParserTypeOK, Pattern, Rule
  <2>3. pending_rule' \in Seq(Pattern) /\ pending_rule' # <<>>
    BY <2>1, <2>2
  <2>4. ParserTypeOK'
    BY <1>4, <2>3, KnownStates DEF ParserInv, ParserTypeOK, Rule
  <2> QED  BY <1>4, <2>3, <2>4 DEF ParserInv, PendingRuleIsWhole, Usable, Unsigned
<1>5. CASE /\ state \in {"kGroup", "kGroupBegin"}
           /\ \E t \in TagNamed[arg] :
                 Goto("kGroup", [opts EXCEPT !.group_by = Append(@, t)])
  <2>1. PICK t \in TagNamed[arg] : Goto("kGroup", [opts EXCEPT !.group_by = Append(@, t)])
    BY <1>5
  <2>2. Append(opts.group_by, t) \in Seq(Tag)
    BY <1>1 DEF Usable, OptionsType
  <2>3. Usable([opts EXCEPT !.group_by = Append(opts.group_by, t)])
    BY <1>1, <2>2 DEF Usable, OptionsType
  <2>4. "kGroup" \in States \ {"kRule", "kRuleValue", "kError"}
    BY KnownStates
  <2> QED  BY <1>5, <2>1, <2>3, <2>4, GotoKeepsInv
<1> QED  BY <1>2, <1>3, <1>4, <1>5 DEF ConsumeValue

(* Every argument, and the end of the arguments, preserves the invariant.  *)
LEMMA ParserStep == ParserInv /\ [ParserNext]_parserVars => ParserInv'
<1> SUFFICES ASSUME ParserInv, [ParserNext]_parserVars
             PROVE  ParserInv'
  OBVIOUS
<1>1. ASSUME NEW arg \in Arg, Consume(arg)
      PROVE  ParserInv'
  <2>1. args' \in Seq(Arg)
    BY <1>1 DEF Consume, ParserInv, ParserTypeOK
  <2>2. CASE Fail("kHelp") \/ Fail("kGeneric")
    BY <2>1, <2>2, FailKeepsInv
  <2>3. CASE InGenericState /\ ConsumeOption(arg)
    BY <2>1, <2>3, OptionKeepsInv
  <2>4. CASE ConsumeValue(arg)
    BY <2>1, <2>4, ValueKeepsInv
  <2> QED  BY <1>1, <2>2, <2>3, <2>4 DEF Consume
<1>2. CASE Finish
  <2>1. args' \in Seq(Arg) /\ ~InFinalState
    BY <1>2 DEF Finish, ParserInv, ParserTypeOK
  <2>2. CASE InGenericState /\ Goto("kFinal", opts)
    <3>1. state \notin {"kRuleValue", "kError"} /\ Usable(opts)
      BY <2>2 DEF InGenericState, ParserInv
    <3>2. "kFinal" \in States \ {"kRule", "kRuleValue", "kError"}
      BY KnownStates
    <3> QED  BY <2>1, <2>2, <3>1, <3>2, GotoKeepsInv
  <2>3. CASE Fail("kGeneric")
    BY <2>1, <2>3, FailKeepsInv
  <2> QED  BY <1>2, <2>2, <2>3 DEF Finish
<1>3. CASE UNCHANGED parserVars
  BY <1>3 DEF parserVars, ParserInv, ParserTypeOK, PendingRuleIsWhole, Usable,
              Unsigned, States, Awaits
<1> QED  BY <1>1, <1>2, <1>3 DEF ParserNext

(* A parser that was fed nothing has usable options, the defaults.         *)
LEMMA ParserStart == ParserInit => ParserInv
<1> SUFFICES ASSUME ParserInit  PROVE ParserInv
  OBVIOUS
<1>1. /\ Defaults.tweak \in [TweakKeys -> Int]
      /\ Defaults.tweak["window_size"] = 7
      /\ Defaults.tweak["suspend_timeout"] = 0
      /\ Defaults.tweak["reconnect_timeout"] = 10
  BY DEF Defaults, TweakKeys
<1>2. Defaults \in OptionsType
  <2>1. /\ <<>> \in Seq(Rule) /\ <<>> \in Seq(Tag)
    OBVIOUS
  <2> QED  BY <1>1, <2>1 DEF Defaults, OptionsType
<1>3. Defaults.queue_only = 0 /\ Defaults.queue_buffer = 0 /\ Defaults.port = 0
  BY DEF Defaults
<1>4. Usable(opts)
  BY <1>1, <1>2, <1>3, ParserAssumption DEF ParserInit, Usable, Unsigned
<1>5. ParserTypeOK
  BY <1>2, KnownStates DEF ParserInit, ParserTypeOK, Rule
<1> QED  BY <1>4, <1>5 DEF ParserInv, ParserInit, PendingRuleIsWhole

(***************************************************************************)
(* A rule under construction is never flushed empty or half-built and      *)
(* never leaks into the next one, and the options are always fit for use,  *)
(* whatever the arguments and however many (args.cc, Consume and Finish).  *)
(***************************************************************************)
THEOREM ParserCorrect ==
    ParserSpec => [](ParserTypeOK /\ PendingRuleIsWhole /\ OptionsAreUsable)
<1>1. ParserInv => ParserTypeOK /\ PendingRuleIsWhole /\ OptionsAreUsable
  BY DEF ParserInv, Usable, OptionsAreUsable
<1> QED  BY <1>1, ParserStart, ParserStep, PTL DEF ParserSpec

-----------------------------------------------------------------------------
(* There is one way to divide a command line                               *)

(* Options with one argument, and what every option begins with.           *)
Singles == DOMAIN Awaits \ {"-e"}

MayBegin(line, S, i) ==
    LET own == Own(line, S, i)
        IsTag(j) == TagNamed[line[j]] # {}
    IN \/ /\ line[i] = "-e"
          /\ \A k \in DOMAIN line : i + 2 * k - 1 \in own => IsTag(i + 2 * k - 1)
       \/ line[i] = "-g" /\ \A j \in own : IsTag(j)
       \/ line[i] \in {"-n", "--by-album"} /\ own = {}
       \/ line[i] \in Singles /\ (own = {} \/ (own = {i + 1} /\ Fits(line[i], line[i + 1])))

(* The last clause of a beginning may lack arguments.                      *)
Partial(line, S) ==
    /\ S \subseteq DOMAIN line
    /\ line # <<>> => 1 \in S
    /\ "-h" \notin Range(line)
    /\ \A i \in S : /\ MayBegin(line, S, i)
                    /\ IsClause(line, S, i) \/ \A j \in S : j <= i
    /\ OneGrouping(line, S)

(* The options with one argument, by their names.                          *)
LEMMA SinglesAre ==
    /\ Singles = {"--exclude-from", "-f", "--host", "--log-file", "-p", "-o", "-q",
                  "--test", "-t"}
    /\ \A option, arg : Fits(option, arg) => option \in Singles
BY DEF Singles, Awaits, Fits

(* What is a clause was one from the beginning.                            *)
LEMMA ReadingIsPartial ==
    ASSUME NEW line, NEW S \in Readings(line)
    PROVE  Partial(line, S)
<1>1. ASSUME NEW i \in S  PROVE IsClause(line, S, i) /\ MayBegin(line, S, i)
  <2>1. IsClause(line, S, i)
    BY DEF Readings
  <2> QED  BY <2>1, SinglesAre DEF IsClause, MayBegin
<1> QED  BY <1>1 DEF Readings, Partial

(* Clauses that own the same places of a line and a longer one are alike.  *)
LEMMA LikeClauses ==
    ASSUME NEW line \in Seq(Arg), NEW a \in Arg, NEW S, NEW T, NEW i \in DOMAIN line,
           Own(Append(line, a), T, i) = Own(line, S, i)
    PROVE  /\ IsClause(Append(line, a), T, i) <=> IsClause(line, S, i)
           /\ MayBegin(Append(line, a), T, i) <=> MayBegin(line, S, i)
<1> DEFINE more == Append(line, a)
           n == Len(line)
           own == Own(line, S, i)
           Tags(w, j) == TagNamed[w[j]] # {}
<1>1. /\ n \in Nat /\ DOMAIN line = 1 .. n /\ DOMAIN more = 1 .. n + 1
      /\ \A j \in 1 .. n : more[j] = line[j]
  BY AppendProperties, LenProperties
<1>2. own \subseteq 1 .. n /\ \A j \in own : j > i /\ more[j] = line[j]
  BY <1>1 DEF Own
<1>3. Own(more, T, i) = own /\ more[i] = line[i] /\ i \in 1 .. n
  BY <1>1
<1> HIDE DEF more, n, own
<1>4. \A k \in 1 .. n + 1 : i + 2 * k - 1 \in own => k \in 1 .. n
  BY <1>1, <1>2, <1>3
<1>5. own = {i + 1} => more[i + 1] = line[i + 1]
  BY <1>2
<1>6. (\A j \in own : Tags(more, j)) <=> (\A j \in own : Tags(line, j))
  BY <1>2
<1> DEFINE at(k) == i + 2 * k - 1
           next(k) == i + 2 * k
<1>7. \A k \in DOMAIN more : at(k) \in own =>
         k \in DOMAIN line /\ (Tags(more, at(k)) <=> Tags(line, at(k)))
  BY <1>1, <1>2, <1>4
<1>8. DOMAIN line \subseteq DOMAIN more
  BY <1>1
<1>11. /\ (\A k \in DOMAIN more : at(k) \in own => Tags(more, at(k)))
            <=> (\A k \in DOMAIN line : at(k) \in own => Tags(line, at(k)))
       /\ (\A k \in DOMAIN more : at(k) \in own => Tags(more, at(k)) /\ next(k) \in own)
            <=> (\A k \in DOMAIN line : at(k) \in own => Tags(line, at(k)) /\ next(k) \in own)
  <2> HIDE DEF Tags, at, next
  <2> QED  BY <1>7, <1>8, Zenon
<1>9. IsClause(more, T, i) <=> IsClause(line, S, i)
  BY <1>3, <1>5, <1>6, <1>11, Zenon DEF IsClause, own
<1>10. MayBegin(more, T, i) <=> MayBegin(line, S, i)
  BY <1>3, <1>5, <1>6, <1>11, Zenon DEF MayBegin, own
<1> QED  BY <1>9, <1>10 DEF more

(* What an option owns does not change once another option follows.        *)
LEMMA OwnIsKept ==
    ASSUME NEW line \in Seq(Arg), NEW a \in Arg,
           NEW S, S \subseteq 1 .. Len(line),
           NEW T, S \subseteq T, T \subseteq S \cup {Len(line) + 1},
           NEW i \in 1 .. Len(line), NEW k \in T, k > i
    PROVE  Own(Append(line, a), T, i) = Own(line, S, i)
<1> DEFINE n == Len(line)
           more == Append(line, a)
<1>1. n \in Nat /\ DOMAIN line = 1 .. n /\ DOMAIN more = 1 .. n + 1
  BY AppendProperties, LenProperties
<1>0. \A m \in T : m \in 1 .. n + 1 /\ (m \in S \/ m = n + 1)
  BY <1>1
<1>2. ASSUME NEW j \in Own(more, T, i)  PROVE j \in Own(line, S, i)
  <2>1. j \in 1 .. n + 1 /\ j > i /\ \A m \in T : m <= i \/ m > j
    BY <1>1 DEF Own
  <2>2. k > j /\ k <= n + 1 /\ k \in Nat
    BY <1>0, <1>1, <2>1
  <2>3. j \in 1 .. n
    BY <1>1, <2>1, <2>2
  <2> QED  BY <1>1, <2>1, <2>3 DEF Own
<1>3. ASSUME NEW j \in Own(line, S, i)  PROVE j \in Own(more, T, i)
  <2>1. j \in 1 .. n /\ j > i /\ \A m \in S : m <= i \/ m > j
    BY <1>1 DEF Own
  <2>2. j \in 1 .. n + 1 /\ n + 1 > j
    BY <1>1, <2>1
  <2>3. \A m \in T : m <= i \/ m > j
    BY <1>0, <2>1, <2>2
  <2> QED  BY <1>1, <2>1, <2>2, <2>3 DEF Own
<1> QED  BY <1>2, <1>3

(* The last option owns the rest of the line.                              *)
LEMMA OwnOfLast ==
    ASSUME NEW line \in Seq(Arg), NEW S, NEW i \in S, \A j \in S : j <= i,
           i \in 1 .. Len(line)
    PROVE  Own(line, S, i) = i + 1 .. Len(line)
<1>1. Len(line) \in Nat /\ DOMAIN line = 1 .. Len(line)
  BY LenProperties
<1>2. Own(line, S, i) = {j \in 1 .. Len(line) : j > i}
  BY <1>1 DEF Own
<1> QED  BY <1>1, <1>2

(* The beginning of a beginning is a beginning.                            *)
LEMMA PrefixIsPartial ==
    ASSUME NEW line \in Seq(Arg), NEW a \in Arg, NEW T, Partial(Append(line, a), T)
    PROVE  Partial(line, T \ {Len(line) + 1})
<1> DEFINE n == Len(line)
           more == Append(line, a)
           S == T \ {n + 1}
<1>1. /\ n \in Nat /\ DOMAIN line = 1 .. n /\ DOMAIN more = 1 .. n + 1
      /\ \A j \in 1 .. n : more[j] = line[j]
      /\ more[n + 1] = a /\ more \in Seq(Arg) /\ more # <<>> /\ Len(more) = n + 1
  BY AppendProperties, LenProperties
<1>2. T \subseteq 1 .. n + 1 /\ 1 \in T /\ OneGrouping(more, T)
  BY <1>1 DEF Partial
<1>3. S \subseteq 1 .. n
  <2>1. \A j \in 1 .. n + 1 : j # n + 1 => j \in 1 .. n
    BY <1>1
  <2>2. \A j \in S : j \in 1 .. n + 1 /\ j # n + 1
    BY <1>2
  <2> HIDE DEF S, n
  <2> QED  BY <2>1, <2>2
<1>4. line # <<>> => 1 \in S
  <2>1. line # <<>> => n # 0
    BY EmptySeq
  <2> QED  BY <1>1, <1>2, <2>1
<1>5. "-h" \notin Range(line)
  BY <1>1 DEF Partial, Range
<1>6. OneGrouping(line, S)
  BY <1>1, <1>2, <1>3 DEF OneGrouping
<1>7. ASSUME NEW i \in S
      PROVE  MayBegin(line, S, i) /\ (IsClause(line, S, i) \/ \A j \in S : j <= i)
  <2>1. i \in 1 .. n /\ i \in T /\ more[i] = line[i] /\ MayBegin(more, T, i)
    BY <1>1, <1>3 DEF Partial
  <2>2. CASE \E k \in T : k > i
    <3>1. Own(more, T, i) = Own(line, S, i)
      <4>1. S \subseteq T /\ T \subseteq S \cup {n + 1}
        OBVIOUS
      <4> HIDE DEF S
      <4> QED  BY <1>3, <2>1, <2>2, <4>1, OwnIsKept
    <3>2. /\ IsClause(more, T, i) <=> IsClause(line, S, i)
          /\ MayBegin(more, T, i) <=> MayBegin(line, S, i)
      BY <1>1, <2>1, <3>1, LikeClauses
    <3>3. IsClause(more, T, i)
      BY <1>1, <1>2, <2>1, <2>2 DEF Partial
    <3> QED  BY <2>1, <3>2, <3>3
  <2>3. CASE ~ \E k \in T : k > i
    <3>1. \A k \in T : k <= i
      BY <1>1, <1>2, <2>1, <2>3
    <3>2. \A k \in S : k <= i
      BY <3>1
    <3>3. Own(line, S, i) = i + 1 .. n
      BY <2>1, <3>2, OwnOfLast
    <3>4. Own(more, T, i) = i + 1 .. n + 1
      <4>1. i \in 1 .. n + 1
        BY <1>1, <2>1
      <4> QED  BY <1>1, <2>1, <3>1, <4>1, OwnOfLast
    <3>5. i + 1 \in Own(more, T, i)
      BY <1>1, <2>1, <3>4
    <3>6. CASE line[i] = "-e" /\ \A k \in DOMAIN more :
                   i + 2 * k - 1 \in Own(more, T, i) => TagNamed[more[i + 2 * k - 1]] # {}
      <4>1. ASSUME NEW k \in DOMAIN line, i + 2 * k - 1 \in i + 1 .. n
            PROVE  TagNamed[line[i + 2 * k - 1]] # {}
        <5>1. k \in DOMAIN more /\ i + 2 * k - 1 \in i + 1 .. n + 1 /\ i + 2 * k - 1 \in 1 .. n
          BY <1>1, <2>1, <4>1
        <5> QED  BY <1>1, <3>4, <3>6, <5>1
      <4> QED  BY <3>2, <3>3, <3>6, <4>1 DEF MayBegin
    <3>7. CASE line[i] = "-g" /\ \A j \in Own(more, T, i) : TagNamed[more[j]] # {}
      <4>1. \A j \in i + 1 .. n : j \in i + 1 .. n + 1 /\ more[j] = line[j]
        BY <1>1, <2>1
      <4> QED  BY <3>2, <3>3, <3>4, <3>7, <4>1 DEF MayBegin
    <3>8. CASE line[i] \in Singles /\ Own(more, T, i) = {i + 1}
      <4>1. i + 1 .. n = {}
        BY <1>1, <2>1, <3>4, <3>8
      <4> QED  BY <3>2, <3>3, <3>8, <4>1 DEF MayBegin
    <3> QED  BY <2>1, <3>5, <3>6, <3>7, <3>8 DEF MayBegin
  <2> QED  BY <2>2, <2>3
<1> QED  BY <1>1, <1>3, <1>4, <1>5, <1>6, <1>7 DEF Partial

(* S is the one way in which the line may begin.                           *)
Unique(line, S) ==
    /\ Partial(line, S)
    /\ \A T : Partial(line, T) => T = S

(* The words that begin a clause.                                          *)
Begins(word) == word \in DOMAIN Awaits \cup {"-n", "-g", "--by-album"}

(* What a word at the end of a line can be: an option, after a clause, or  *)
(* an argument of the last one.                                            *)
LEMMA LastWord ==
    ASSUME NEW line \in Seq(Arg), NEW a \in Arg, NEW S, Unique(line, S),
           NEW T, Partial(Append(line, a), T)
    PROVE  /\ a # "-h"
           /\ \/ T = S
              \/ /\ T = S \cup {Len(line) + 1}
                 /\ Begins(a)
                 /\ \A i \in S : IsClause(line, S, i)
                 /\ OneGrouping(Append(line, a), T)
<1> DEFINE n == Len(line)
           more == Append(line, a)
<1>1. /\ n \in Nat /\ DOMAIN line = 1 .. n /\ DOMAIN more = 1 .. n + 1
      /\ \A j \in 1 .. n : more[j] = line[j]
      /\ more[n + 1] = a
  BY AppendProperties, LenProperties
<1>2. a # "-h"
  BY <1>1 DEF Partial, Range
<1>3. T \ {n + 1} = S
  BY PrefixIsPartial DEF Unique
<1>4. CASE n + 1 \notin T
  BY <1>2, <1>3, <1>4
<1>5. CASE n + 1 \in T
  <2>1. T = S \cup {n + 1} /\ T \subseteq 1 .. n + 1 /\ S \subseteq 1 .. n
    BY <1>1, <1>3, <1>5 DEF Unique, Partial
  <2>2. Begins(a)
    <3>1. MayBegin(more, T, n + 1)
      BY <1>5 DEF Partial
    <3> QED  BY <1>1, <3>1 DEF MayBegin, Begins, Singles, Awaits
  <2>3. ASSUME NEW i \in S  PROVE IsClause(line, S, i)
    <3>1. i \in 1 .. n /\ i \in T /\ n + 1 > i
      BY <1>1, <2>1, <2>3
    <3>2. Own(more, T, i) = Own(line, S, i)
      <4>1. /\ S \subseteq T /\ T \subseteq S \cup {n + 1}
            /\ S \subseteq 1 .. n /\ i \in 1 .. n
        BY <2>1, <3>1
      <4>2. \A k \in T : k > i => Own(more, T, i) = Own(line, S, i)
        BY <4>1, OwnIsKept
      <4> QED  BY <1>5, <3>1, <4>2
    <3>3. IsClause(more, T, i)
      <4>1. ~ \A j \in T : j <= i
        BY <1>1, <1>5, <3>1
      <4> QED  BY <3>1, <4>1 DEF Partial
    <3> QED  BY <1>1, <3>1, <3>2, <3>3, LikeClauses
  <2> QED  BY <1>2, <2>1, <2>2, <2>3 DEF Partial
<1> QED  BY <1>4, <1>5

(* After a clause, an option begins the next.                              *)
LEMMA OptionIsUnique ==
    ASSUME NEW line \in Seq(Arg), NEW a \in Arg, NEW S, Unique(line, S),
           \A i \in S : IsClause(line, S, i), Begins(a),
           OneGrouping(Append(line, a), S \cup {Len(line) + 1}),
           ~ Partial(Append(line, a), S)
    PROVE  Unique(Append(line, a), S \cup {Len(line) + 1})
<1> DEFINE n == Len(line)
           more == Append(line, a)
           T == S \cup {n + 1}
<1>1. /\ n \in Nat /\ DOMAIN line = 1 .. n /\ DOMAIN more = 1 .. n + 1
      /\ \A j \in 1 .. n : more[j] = line[j]
      /\ more[n + 1] = a /\ more \in Seq(Arg) /\ Len(more) = n + 1
  BY AppendProperties, LenProperties
<1>2. S \subseteq 1 .. n /\ "-h" \notin Range(line) /\ (line # <<>> => 1 \in S)
  BY <1>1 DEF Unique, Partial
<1>3. /\ T \subseteq 1 .. n + 1 /\ \A j \in T : j <= n + 1
      /\ n + 1 \in T /\ S \subseteq T /\ T \subseteq S \cup {n + 1}
  <2>1. \A j \in 1 .. n : j \in 1 .. n + 1 /\ j <= n + 1
    BY <1>1
  <2>2. n + 1 \in 1 .. n + 1 /\ n + 1 <= n + 1
    BY <1>1
  <2>3. \A j \in T : j \in 1 .. n \/ j = n + 1
    BY <1>2
  <2> HIDE DEF n
  <2> QED  BY <2>1, <2>2, <2>3
<1>4. 1 \in T
  <2>1. line = <<>> => n + 1 = 1
    OBVIOUS
  <2> HIDE DEF n
  <2> QED  BY <1>2, <2>1
<1>5. "-h" \notin Range(more)
  <2>1. a # "-h"
    BY DEF Begins, Awaits
  <2>2. \A j \in 1 .. n : line[j] # "-h"
    BY <1>1, <1>2 DEF Range
  <2>3. \A j \in 1 .. n + 1 : j \in 1 .. n \/ j = n + 1
    BY <1>1
  <2>4. \A j \in DOMAIN more : more[j] # "-h"
    <3> HIDE DEF n, more
    <3> QED  BY <1>1, <2>1, <2>2, <2>3
  <2> QED  BY <2>4 DEF Range
<1>6. ASSUME NEW i \in S  PROVE MayBegin(more, T, i) /\ IsClause(more, T, i)
  <2>1. i \in 1 .. n /\ n + 1 > i
    BY <1>1, <1>2, <1>6
  <2>2. Own(more, T, i) = Own(line, S, i)
    <3>1. \A k \in T : k > i => Own(more, T, i) = Own(line, S, i)
      <4>1. /\ S \subseteq T /\ T \subseteq S \cup {n + 1}
            /\ S \subseteq 1 .. n /\ i \in 1 .. n
        BY <1>2, <1>3, <2>1
      <4> HIDE DEF T
      <4> QED  BY <4>1, OwnIsKept
    <3> QED  BY <1>3, <2>1, <3>1
  <2>3. MayBegin(line, S, i) /\ IsClause(line, S, i)
    BY DEF Unique, Partial
  <2> QED  BY <1>1, <2>1, <2>2, <2>3, LikeClauses
<1>7. MayBegin(more, T, n + 1)
  <2>1. Own(more, T, n + 1) = (n + 1) + 1 .. n + 1
    <3>1. n + 1 \in T /\ n + 1 \in 1 .. Len(more)
      BY <1>1
    <3> HIDE DEF T, more, n
    <3> QED  BY <1>1, <1>3, <3>1, OwnOfLast
  <2>2. Own(more, T, n + 1) = {}
    BY <1>1, <2>1
  <2>3. a = "-e" \/ a \in Singles \/ a \in {"-n", "-g", "--by-album"}
    BY DEF Begins, Singles
  <2> QED  BY <1>1, <2>2, <2>3 DEF MayBegin
<1>8. Partial(more, T)
  BY <1>1, <1>3, <1>4, <1>5, <1>6, <1>7 DEF Partial
<1>9. ASSUME NEW V, Partial(more, V)  PROVE V = T
  BY <1>9, LastWord
<1> QED  BY <1>8, <1>9 DEF Unique

(* An argument of the last option leaves the options where they are.       *)
LEMMA ArgumentIsUnique ==
    ASSUME NEW line \in Seq(Arg), NEW a \in Arg, NEW S, Unique(line, S),
           NEW L \in S, \A i \in S : i <= L, a # "-h",
           ~ IsClause(line, S, L) \/ ~ Begins(a), MayBegin(Append(line, a), S, L)
    PROVE  Unique(Append(line, a), S)
<1> DEFINE n == Len(line)
           more == Append(line, a)
<1>1. /\ n \in Nat /\ DOMAIN line = 1 .. n /\ DOMAIN more = 1 .. n + 1
      /\ \A j \in 1 .. n : more[j] = line[j]
      /\ more[n + 1] = a
  BY AppendProperties, LenProperties
<1>2. S \subseteq 1 .. n /\ "-h" \notin Range(line) /\ OneGrouping(line, S)
  BY <1>1 DEF Unique, Partial
<1>3. line # <<>>
  <2>1. n # 0
    BY <1>1, <1>2
  <2> QED  BY <2>1, EmptySeq
<1>4. "-h" \notin Range(more)
  BY <1>1, <1>2 DEF Range
<1>5. S \subseteq 1 .. n + 1
  BY <1>1, <1>2
<1>6. OneGrouping(more, S)
  BY <1>1, <1>2 DEF OneGrouping
<1>7. ASSUME NEW i \in S
      PROVE  MayBegin(more, S, i) /\ (IsClause(more, S, i) \/ \A j \in S : j <= i)
  <2>1. CASE i = L
    BY <2>1
  <2>2. CASE i # L
    <3>1. i \in 1 .. n /\ L > i
      BY <1>1, <1>2, <2>2
    <3>2. Own(more, S, i) = Own(line, S, i)
      BY <1>2, <3>1, OwnIsKept
    <3>3. MayBegin(line, S, i) /\ IsClause(line, S, i)
      BY <1>1, <1>2, <3>1 DEF Unique, Partial
    <3> QED  BY <1>1, <3>1, <3>2, <3>3, LikeClauses
  <2> QED  BY <2>1, <2>2
<1>8. Partial(more, S)
  BY <1>1, <1>3, <1>4, <1>5, <1>6, <1>7 DEF Unique, Partial
<1>9. ASSUME NEW V, Partial(more, V)  PROVE V = S
  BY <1>9, LastWord
<1> QED  BY <1>8, <1>9 DEF Unique

(* A word that is neither leaves no way to divide the line.                *)
LEMMA NoReading ==
    ASSUME NEW line \in Seq(Arg), NEW a \in Arg, NEW S, Unique(line, S),
           \/ a = "-h"
           \/ /\ ~ Partial(Append(line, a), S)
              /\ \/ ~ Begins(a)
                 \/ \E i \in S : ~ IsClause(line, S, i)
                 \/ ~ OneGrouping(Append(line, a), S \cup {Len(line) + 1})
    PROVE  Readings(Append(line, a)) = {}
<1> SUFFICES ASSUME NEW T, Partial(Append(line, a), T)  PROVE FALSE
  BY ReadingIsPartial
<1>1. /\ a # "-h"
      /\ \/ T = S
         \/ /\ T = S \cup {Len(line) + 1} /\ Begins(a)
            /\ \A i \in S : IsClause(line, S, i)
            /\ OneGrouping(Append(line, a), T)
  BY LastWord
<1> QED  BY <1>1

(* The option at L is the last, and the state says how much of it was read.*)
AtLast(S, L) ==
    /\ L \in S
    /\ \A i \in S : i <= L
    /\ \/ /\ state = "kNone"
          /\ \/ args[L] \in {"-n", "--by-album"} /\ Len(args) = L
             \/ Len(args) = L + 1 /\ Fits(args[L], args[L + 1])
       \/ args[L] \in DOMAIN Awaits /\ state = Awaits[args[L]] /\ Len(args) = L
       \/ /\ state = "kRule" /\ args[L] = "-e"
          /\ \E k \in Nat : Len(args) = L + 2 * k + 2
       \/ /\ state = "kRuleValue" /\ args[L] = "-e"
          /\ \E k \in Nat : Len(args) = L + 2 * k + 1
          /\ rule_tag = TagNamed[args[Len(args)]]
       \/ state = "kGroupBegin" /\ args[L] = "-g" /\ Len(args) = L
       \/ state = "kGroup" /\ args[L] = "-g" /\ Len(args) > L

(* The states that options lead to, by their names.                        *)
LEMMA AwaitedAre ==
    /\ DOMAIN Awaits = Singles \cup {"-e"}
    /\ Awaits["-e"] = "kRuleBegin" /\ Awaits["--exclude-from"] = "kExcludeFile"
    /\ Awaits["-f"] = "kFile" /\ Awaits["--host"] = "kHost"
    /\ Awaits["-p"] = "kPort" /\ Awaits["--log-file"] = "kLogFile"
    /\ Awaits["-o"] = "kQueue" /\ Awaits["-q"] = "kQueueBuffer"
    /\ Awaits["-t"] = "kTweak" /\ Awaits["--test"] = "kTest"
BY DEF Awaits, Singles

(* An argument converts if there are options with it.                      *)
LEMMA ConvertsIfFits ==
    ASSUME NEW option \in Singles, state = Awaits[option], NEW arg
    PROVE  OptionsWith(arg) = {} <=> ~ Fits(option, arg)
<1>1. CASE option = "--exclude-from"
  <2>1. state = "kExcludeFile"
    BY <1>1, AwaitedAre
  <2>2. OptionsWith(arg) = {[opts EXCEPT !.ruleset = @ \o Resolved(rules)] :
                               rules \in {r \in ExcludeFile[arg] : KeysAreTags(r)}}
    BY <2>1 DEF OptionsWith
  <2> QED  BY <1>1, <2>2 DEF Fits
<1>2. CASE option = "-t"
  <2>1. state = "kTweak"
    BY <1>2, AwaitedAre
  <2>2. OptionsWith(arg) =
          UNION {{[opts EXCEPT !.tweak[t.key] = v] :
                     v \in {x \in t.value : TweakIsValid(t, x)}} : t \in TweakIn[arg]}
    BY <2>1 DEF OptionsWith
  <2>3. Fits(option, arg) <=> \E t \in TweakIn[arg] : \E v \in t.value : TweakIsValid(t, v)
    BY <1>2 DEF Fits
  <2>4. \A x : x \in OptionsWith(arg) <=>
           \E t \in TweakIn[arg] : \E v \in t.value :
               TweakIsValid(t, v) /\ x = [opts EXCEPT !.tweak[t.key] = v]
    BY <2>2
  <2> QED  BY <2>3, <2>4, Zenon
<1>3. CASE option \in {"-f", "--host", "--log-file"}
  <2>1. state \in {"kFile", "kHost", "kLogFile"}
    BY <1>3, AwaitedAre
  <2>2. OptionsWith(arg) # {}
    BY <2>1 DEF OptionsWith
  <2> QED  BY <1>3, <2>2 DEF Fits
<1>4. CASE option \in {"-p", "-o", "-q"}
  <2>1. state \in {"kPort", "kQueue", "kQueueBuffer"}
    BY <1>4, AwaitedAre
  <2>2. OptionsWith(arg) = {} <=> NumberIn[arg] \cap Unsigned = {}
    <3> DEFINE numbers == NumberIn[arg] \cap Unsigned
    <3>1. OptionsWith(arg) \in {{[opts EXCEPT !.port = n] : n \in numbers},
                                {[opts EXCEPT !.queue_only = n] : n \in numbers},
                                {[opts EXCEPT !.queue_buffer = n] : n \in numbers}}
      BY <2>1 DEF OptionsWith
    <3> HIDE DEF numbers
    <3>2. OptionsWith(arg) = {} <=> numbers = {}
      BY <3>1
    <3> QED  BY <3>2 DEF numbers
  <2> QED  BY <1>4, <2>2 DEF Fits
<1>5. CASE option = "--test"
  <2>1. state = "kTest"
    BY <1>5, AwaitedAre
  <2>2. OptionsWith(arg) = {} <=> arg # "print_all_songs_and_exit"
    BY <2>1 DEF OptionsWith
  <2> QED  BY <1>5, <2>2 DEF Fits
<1> QED  BY <1>1, <1>2, <1>3, <1>4, <1>5, SinglesAre

(* A line that is longer by one word.                                      *)
LEMMA OneLonger ==
    ASSUME NEW line \in Seq(Arg), NEW a \in Arg
    PROVE  /\ Len(line) \in Nat /\ DOMAIN line = 1 .. Len(line)
           /\ Append(line, a) \in Seq(Arg) /\ Len(Append(line, a)) = Len(line) + 1
           /\ DOMAIN Append(line, a) = 1 .. Len(line) + 1
           /\ \A j \in 1 .. Len(line) : Append(line, a)[j] = line[j]
           /\ Append(line, a)[Len(line) + 1] = a
BY AppendProperties, LenProperties

(* A clause is complete where an option may stand, and only there.         *)
LEMMA GenericIsClause ==
    ASSUME ParserTypeOK, NEW S, Unique(args, S), NEW L, AtLast(S, L)
    PROVE  /\ InGenericState <=> IsClause(args, S, L)
           /\ InGenericState => \A i \in S : IsClause(args, S, i)
<1> DEFINE n == Len(args)
           own == Own(args, S, L)
<1>1. args \in Seq(Arg) /\ n \in Nat /\ DOMAIN args = 1 .. n /\ S \subseteq 1 .. n
  BY LenProperties DEF ParserTypeOK, Unique, Partial
<1>2. L \in S /\ L \in 1 .. n /\ (\A i \in S : i <= L) /\ own = L + 1 .. n
  BY <1>1, OwnOfLast DEF AtLast
<1>3. MayBegin(args, S, L)
  BY <1>2 DEF Unique, Partial
<1>11. SUFFICES InGenericState <=> IsClause(args, S, L)
  <2>1. \A i \in S : IsClause(args, S, i) \/ i = L
    <3>1. \A i \in S : (\A j \in S : j <= i) => i = L
      BY <1>1, <1>2
    <3> QED  BY <3>1 DEF Unique, Partial
  <2> QED  BY <1>2, <2>1
<1>4. CASE state = "kNone" /\ args[L] \in {"-n", "--by-album"} /\ n = L
  <2>1. own = {}
    BY <1>1, <1>2, <1>4
  <2> QED  BY <1>4, <2>1 DEF InGenericState, IsClause
<1>5. CASE state = "kNone" /\ n = L + 1 /\ Fits(args[L], args[L + 1])
  <2>1. own = {L + 1}
    BY <1>1, <1>2, <1>5
  <2> QED  BY <1>5, <2>1 DEF InGenericState, IsClause
<1>6. CASE args[L] \in DOMAIN Awaits /\ state = Awaits[args[L]] /\ n = L
  <2>1. own = {} /\ own # {L + 1}
    <3>1. n = L
      BY <1>6
    <3> HIDE DEF n, own
    <3> QED  BY <1>1, <1>2, <3>1
  <2>2. ~ InGenericState
    BY <1>6, KnownStates, AwaitedStates DEF InGenericState
  <2>3. args[L] \notin {"-n", "--by-album"}
    BY <1>6 DEF Awaits
  <2> HIDE DEF own
  <2> QED  BY <2>1, <2>2, <2>3 DEF IsClause, own
<1>7. CASE state = "kRule" /\ args[L] = "-e" /\ \E k \in Nat : n = L + 2 * k + 2
  <2>1. PICK q \in Nat : n = L + 2 * q + 2
    BY <1>7
  <2>2. own # {} /\ \A k \in 1 .. n : L + 2 * k - 1 \in own => L + 2 * k \in own
    <3>1. L + 1 \in L + 1 .. n
      BY <1>1, <1>2, <2>1
    <3>2. \A k \in 1 .. n : L + 2 * k - 1 \in L + 1 .. n => L + 2 * k \in L + 1 .. n
      <4> HIDE DEF n
      <4> QED  BY <1>1, <1>2, <2>1
    <3> QED  BY <1>2, <3>1, <3>2
  <2>3. \A k \in 1 .. n : L + 2 * k - 1 \in own => TagNamed[args[L + 2 * k - 1]] # {}
    <3>1. args[L] \notin Singles \cup {"-g", "-n", "--by-album"}
      BY <1>7, SinglesAre
    <3> HIDE DEF n, own
    <3> QED  BY <1>1, <1>3, <3>1 DEF MayBegin, own
  <2> HIDE DEF n, own
  <2> QED  BY <1>1, <1>7, <2>2, <2>3 DEF IsClause, own, InGenericState
<1>8. CASE state = "kRuleValue" /\ args[L] = "-e" /\ \E k \in Nat : n = L + 2 * k + 1
  <2>1. PICK q \in Nat : n = L + 2 * q + 1
    BY <1>8
  <2>2. q + 1 \in 1 .. n /\ L + 2 * (q + 1) - 1 \in own /\ L + 2 * (q + 1) \notin own
    BY <1>1, <1>2, <2>1
  <2>3. ~ Fits(args[L], args[L + 1])
    BY <1>8, SinglesAre
  <2> HIDE DEF n, own
  <2> QED  BY <1>1, <1>8, <2>2, <2>3 DEF IsClause, own, InGenericState
<1>9. CASE state = "kGroupBegin" /\ args[L] = "-g" /\ n = L
  <2>1. own = {}
    BY <1>1, <1>2, <1>9
  <2>2. ~ Fits(args[L], args[L + 1])
    BY <1>9, SinglesAre
  <2> QED  BY <1>9, <2>1, <2>2 DEF IsClause, InGenericState
<1>10. CASE state = "kGroup" /\ args[L] = "-g" /\ n > L
  <2>1. own # {}
    <3>1. L + 1 \in L + 1 .. n
      BY <1>1, <1>2, <1>10
    <3> QED  BY <1>2, <3>1
  <2>2. \A j \in own : TagNamed[args[j]] # {}
    <3>1. args[L] \notin Singles \cup {"-e", "-n", "--by-album"}
      BY <1>10, SinglesAre
    <3> QED  BY <1>3, <3>1 DEF MayBegin
  <2> QED  BY <1>10, <2>1, <2>2 DEF IsClause, InGenericState
<1> QED  BY <1>4, <1>5, <1>6, <1>7, <1>8, <1>9, <1>10 DEF AtLast

(* An argument is understood if the last option may go on with it.         *)
LEMMA Understanding ==
    ASSUME ParserTypeOK, NEW S, Unique(args, S), NEW L, AtLast(S, L), NEW a \in Arg
    PROVE  NotUnderstood(a) <=> ~ MayBegin(Append(args, a), S, L)
<1> DEFINE n == Len(args)
           more == Append(args, a)
           own == Own(more, S, L)
           Tags(k) == TagNamed[more[L + 2 * k - 1]] # {}
<1>1. S \subseteq 1 .. n
  BY LenProperties DEF ParserTypeOK, Unique, Partial
<1>2. /\ n \in Nat /\ L \in 1 .. n
      /\ DOMAIN args = 1 .. n /\ DOMAIN more = 1 .. n + 1
      /\ Own(args, S, L) = L + 1 .. n /\ own = L + 1 .. n + 1
      /\ \A j \in 1 .. n : more[j] = args[j]
      /\ more[n + 1] = a
  <2>1. /\ n \in Nat /\ DOMAIN args = 1 .. n
        /\ more \in Seq(Arg) /\ Len(more) = n + 1
        /\ DOMAIN more = 1 .. n + 1
        /\ \A j \in 1 .. n : more[j] = args[j]
        /\ more[n + 1] = a
    BY OneLonger DEF ParserTypeOK
  <2>2. L \in S /\ (\A i \in S : i <= L) /\ L \in 1 .. n /\ L \in 1 .. n + 1
    <3>1. L \in S /\ \A i \in S : i <= L
      BY DEF AtLast
    <3>2. \A i \in 1 .. n : i \in 1 .. n + 1
      BY <2>1
    <3> HIDE DEF n
    <3> QED  BY <1>1, <3>1, <3>2
  <2>3. Own(args, S, L) = L + 1 .. n
    BY <2>2, OwnOfLast DEF ParserTypeOK
  <2>4. own = L + 1 .. n + 1
    <3> HIDE DEF more, n
    <3> QED  BY <2>1, <2>2, OwnOfLast
  <2> QED  BY <2>1, <2>2, <2>3, <2>4
<1>3. MayBegin(args, S, L) /\ more[L] = args[L]
  BY <1>2 DEF Unique, Partial, AtLast
<1>4. n + 1 \in own /\ own # {}
  BY <1>2
<1> HIDE DEF n, more, own, Tags
<1>5. CASE state = "kNone" /\ args[L] \in {"-n", "--by-album"} /\ n = L
  <2>1. args[L] \notin Singles \cup {"-e", "-g"}
    BY <1>5, SinglesAre
  <2>2. ~ MayBegin(more, S, L)
    BY <1>3, <1>4, <2>1 DEF MayBegin, own
  <2> QED  BY <1>5, <2>2 DEF NotUnderstood, more
<1>6. CASE state = "kNone" /\ n = L + 1 /\ Fits(args[L], args[L + 1])
  <2>1. args[L] \in Singles /\ args[L] \notin {"-e", "-g", "-n", "--by-album"}
    BY <1>6, SinglesAre
  <2>2. own # {L + 1}
    BY <1>2, <1>4, <1>6
  <2>3. ~ MayBegin(more, S, L)
    BY <1>3, <1>4, <2>1, <2>2 DEF MayBegin, own
  <2> QED  BY <1>6, <2>3 DEF NotUnderstood, more
<1>7. CASE args[L] \in Singles /\ state = Awaits[args[L]] /\ n = L
  <2>1. args[L] \notin {"-e", "-g", "-n", "--by-album"}
    BY <1>7, SinglesAre
  <2>2. own = {L + 1} /\ more[L + 1] = a
    BY <1>2, <1>7
  <2>3. MayBegin(more, S, L) <=> Fits(args[L], a)
    BY <1>3, <1>7, <2>1, <2>2 DEF MayBegin, own
  <2>4. state \in {"kExcludeFile", "kFile", "kHost", "kPort", "kLogFile", "kQueue",
                   "kQueueBuffer", "kTweak", "kTest"}
    BY <1>7, SinglesAre, AwaitedAre
  <2>5. NotUnderstood(a) <=> OptionsWith(a) = {}
    BY <2>4 DEF NotUnderstood
  <2> QED  BY <1>7, <2>3, <2>5, ConvertsIfFits DEF more
<1>8. CASE args[L] = "-e"
  <2>1. args[L] \notin Singles /\ args[L] \notin {"-g", "-n", "--by-album"}
    BY <1>8, SinglesAre
  <2>2. MayBegin(more, S, L) <=>
           \A k \in 1 .. n + 1 : L + 2 * k - 1 \in own => Tags(k)
    BY <1>2, <1>3, <1>8, <2>1 DEF MayBegin, own, Tags
  <2>3. ASSUME NEW k \in 1 .. n + 1, L + 2 * k - 1 \in L + 1 .. n  PROVE Tags(k)
    <3>1. k \in 1 .. n /\ L + 2 * k - 1 \in 1 .. n
      BY <1>2, <2>3
    <3>2. \A m \in 1 .. n : L + 2 * m - 1 \in L + 1 .. n => TagNamed[args[L + 2 * m - 1]] # {}
      BY <1>2, <1>3, <1>8, <2>1 DEF MayBegin
    <3> QED  BY <1>2, <2>3, <3>1, <3>2 DEF Tags
  <2>4. MayBegin(more, S, L) <=>
           \A k \in 1 .. n + 1 : L + 2 * k - 1 = n + 1 => TagNamed[a] # {}
    <3>1. \A k \in 1 .. n + 1 : L + 2 * k - 1 \in own <=>
             (L + 2 * k - 1 \in L + 1 .. n \/ L + 2 * k - 1 = n + 1)
      BY <1>2
    <3>2. \A k \in 1 .. n + 1 : L + 2 * k - 1 = n + 1 => (Tags(k) <=> TagNamed[a] # {})
      BY <1>2 DEF Tags
    <3> QED  BY <2>2, <2>3, <3>1, <3>2
  <2>5. CASE state = "kRuleBegin" /\ n = L
    <3>1. 1 \in 1 .. n + 1 /\ L + 2 * 1 - 1 = n + 1
      BY <1>2, <2>5
    <3>2. MayBegin(more, S, L) <=> TagNamed[a] # {}
      BY <2>4, <3>1
    <3> QED  BY <2>5, <3>2 DEF NotUnderstood, more
  <2>6. CASE state = "kRule" /\ \E k \in Nat : n = L + 2 * k + 2
    <3>1. PICK q \in Nat : n = L + 2 * q + 2
      BY <2>6
    <3>2. q + 2 \in 1 .. n + 1 /\ L + 2 * (q + 2) - 1 = n + 1
      BY <1>2, <3>1
    <3>3. MayBegin(more, S, L) <=> TagNamed[a] # {}
      BY <2>4, <3>2
    <3> QED  BY <2>6, <3>3 DEF NotUnderstood, more
  <2>7. CASE state = "kRuleValue" /\ \E k \in Nat : n = L + 2 * k + 1
    <3>1. PICK q \in Nat : n = L + 2 * q + 1
      BY <2>7
    <3>2. \A k \in 1 .. n + 1 : L + 2 * k - 1 # n + 1
      BY <1>2, <3>1
    <3>3. MayBegin(more, S, L)
      BY <2>4, <3>2
    <3> QED  BY <2>7, <3>3 DEF NotUnderstood, more
  <2>8. args[L] \in DOMAIN Awaits /\ state = Awaits[args[L]] => state = "kRuleBegin"
    BY <1>8, AwaitedAre
  <2>9. ~ Fits(args[L], args[L + 1])
    BY <2>1, SinglesAre
  <2> QED  BY <1>8, <2>5, <2>6, <2>7, <2>8, <2>9 DEF AtLast, n
<1>9. CASE args[L] = "-g" /\ state \in {"kGroupBegin", "kGroup"}
  <2>1. args[L] \notin Singles /\ args[L] \notin {"-e", "-n", "--by-album"}
    BY <1>9, SinglesAre
  <2>2. MayBegin(more, S, L) <=> \A j \in own : TagNamed[more[j]] # {}
    BY <1>3, <1>9, <2>1 DEF MayBegin, own
  <2>3. \A j \in L + 1 .. n : TagNamed[args[j]] # {}
    BY <1>2, <1>3, <1>9, <2>1 DEF MayBegin
  <2>4. \A j \in own : (j \in L + 1 .. n /\ more[j] = args[j]) \/ (j = n + 1 /\ more[j] = a)
    BY <1>2
  <2>5. MayBegin(more, S, L) <=> TagNamed[a] # {}
    BY <1>2, <1>4, <2>2, <2>3, <2>4
  <2> QED  BY <1>9, <2>5 DEF NotUnderstood, more
<1>10. args[L] \in DOMAIN Awaits => args[L] \in Singles \/ args[L] = "-e"
  BY AwaitedAre
<1> QED  BY <1>5, <1>6, <1>7, <1>8, <1>9, <1>10 DEF AtLast, n

-----------------------------------------------------------------------------
(* What the options come to, an option at a time                           *)

(* Whether URIs are checked.                                               *)
Checks(line, D) == IF Named(line, D, "-n") = {} THEN TRUE ELSE FALSE

(* What the options are, with these rules and this grouping, for what the  *)
(* options at D of the line say.                                           *)
Stands(line, D, rules, grouping) ==
    [ruleset |-> rules, group_by |-> grouping,
     check_uris |-> Checks(line, D),
     log_file |-> Named(line, D, "--log-file") # {},
     test |-> Named(line, D, "--test") # {},
     file_in |-> TheOne(Given(line, D, "-f"), NoFile), host |-> Given(line, D, "--host"),
     port |-> NumberGiven(line, D, "-p"), queue_only |-> NumberGiven(line, D, "-o"),
     queue_buffer |-> NumberGiven(line, D, "-q"),
     tweak |-> [key \in TweakKeys |-> TweakGiven(line, D, key)]]

(* The argument of an option among these, if it takes one, is there.       *)
Answered(line, D) ==
    /\ D \subseteq DOMAIN line
    /\ \A i \in D : line[i] \in Singles => i + 1 \in DOMAIN line

(* Nothing that was said is changed by another word.                       *)
LEMMA StandsOfLonger ==
    ASSUME NEW line \in Seq(Arg), NEW a \in Arg, NEW D, Answered(line, D),
           NEW rules, NEW grouping
    PROVE  Stands(Append(line, a), D, rules, grouping) = Stands(line, D, rules, grouping)
<1> DEFINE more == Append(line, a)
<1>1. \A j \in DOMAIN line : more[j] = line[j]
  BY OneLonger
<1>2. D \subseteq DOMAIN line
  BY DEF Answered
<1>3. \A option : Named(more, D, option) = Named(line, D, option)
  <2> HIDE DEF more
  <2> QED  BY <1>1, <1>2 DEF Named
<1>4. \A option \in Singles : \A i \in Named(line, D, option) : more[i + 1] = line[i + 1]
  <2> HIDE DEF more
  <2> QED  BY <1>1 DEF Named, Answered
<1>5. \A option \in Singles : Given(more, D, option) = Given(line, D, option)
  <2> SUFFICES ASSUME NEW option \in Singles
               PROVE  Given(more, D, option) = Given(line, D, option)
    OBVIOUS
  <2>1. \A i \in LastOf(Named(line, D, option)) : more[i + 1] = line[i + 1]
    BY <1>4 DEF LastOf
  <2> HIDE DEF more
  <2> QED  BY <1>3, <2>1 DEF Given
<1>6. \A key : TweakGiven(more, D, key) = TweakGiven(line, D, key)
  <2> SUFFICES ASSUME NEW key
               PROVE  TweakGiven(more, D, key) = TweakGiven(line, D, key)
    OBVIOUS
  <2>1. "-t" \in Singles
    BY SinglesAre
  <2> HIDE DEF more
  <2>2. TweaksGiven(more, D, key) = TweaksGiven(line, D, key)
    BY <1>3, <1>4, <2>1 DEF TweaksGiven
  <2>3. \A i \in LastOf(TweaksGiven(line, D, key)) : more[i + 1] = line[i + 1]
    BY <1>4, <2>1 DEF TweaksGiven, LastOf
  <2>4. {more[i + 1] : i \in LastOf(TweaksGiven(more, D, key))} =
          {line[i + 1] : i \in LastOf(TweaksGiven(line, D, key))}
    BY <2>2, <2>3
  <2> QED  BY <2>4 DEF TweakGiven
<1>7. {"-f", "--host", "-p", "-o", "-q"} \subseteq Singles
  BY SinglesAre
<1> HIDE DEF more
<1>8. \A option \in Singles : NumberGiven(more, D, option) = NumberGiven(line, D, option)
  BY <1>5 DEF NumberGiven
<1>9. Stands(more, D, rules, grouping) = Stands(line, D, rules, grouping)
  BY <1>3, <1>5, <1>6, <1>7, <1>8 DEF Stands, Checks
<1> QED  BY <1>9 DEF more

(* The only element of a set.                                              *)
LEMMA TheOneIs ==
    ASSUME NEW S, AtMostOne(S), NEW x \in S, NEW default
    PROVE  TheOne(S, default) = x
<1>1. S # {} /\ (CHOOSE y \in S : TRUE) \in S
  OBVIOUS
<1> QED  BY <1>1 DEF TheOne, AtMostOne

(* An option behind the others says what it says, and nothing else.        *)
LEMMA OneMoreOption ==
    ASSUME NEW line, NEW D \in SUBSET Nat, NEW m \in Nat, \A i \in D : i < m
    PROVE  /\ \A option : line[m] # option =>
                 /\ Named(line, D \cup {m}, option) = Named(line, D, option)
                 /\ Given(line, D \cup {m}, option) = Given(line, D, option)
                 /\ NumberGiven(line, D \cup {m}, option) = NumberGiven(line, D, option)
           /\ Named(line, D \cup {m}, line[m]) # {}
           /\ Given(line, D \cup {m}, line[m]) = {line[m + 1]}
           /\ \A key : ~ (line[m] = "-t" /\ \E t \in TweakIn[line[m + 1]] : t.key = key) =>
                 TweakGiven(line, D \cup {m}, key) = TweakGiven(line, D, key)
           /\ \A key : line[m] = "-t" /\ (\E t \in TweakIn[line[m + 1]] : t.key = key) =>
                 TweakGiven(line, D \cup {m}, key) =
                    TheOne(UNION {t.value : t \in TweakIn[line[m + 1]]}, Defaults.tweak[key])
<1> DEFINE E == D \cup {m}
<1>1. ASSUME NEW N, N \subseteq D
      PROVE  LastOf(N \cup {m}) = {m}
  <2>1. \A i \in N \cup {m} : i <= m /\ i \in Nat
    BY <1>1
  <2>2. \A i \in N : i < m /\ ~ (m <= i)
    BY <1>1
  <2> QED  BY <2>1, <2>2 DEF LastOf
<1>2. ASSUME NEW option, line[m] # option
      PROVE  /\ Named(line, E, option) = Named(line, D, option)
             /\ Given(line, E, option) = Given(line, D, option)
             /\ NumberGiven(line, E, option) = NumberGiven(line, D, option)
  <2>1. Named(line, E, option) = Named(line, D, option)
    BY <1>2 DEF Named
  <2> HIDE DEF E
  <2>2. Given(line, E, option) = Given(line, D, option)
    BY <2>1 DEF Given
  <2> QED  BY <2>1, <2>2 DEF NumberGiven
<1>3. Named(line, E, line[m]) = Named(line, D, line[m]) \cup {m}
  BY DEF Named
<1>4. Named(line, E, line[m]) # {}
  BY <1>3
<1>5. Given(line, E, line[m]) = {line[m + 1]}
  <2>1. Named(line, D, line[m]) \subseteq D
    BY DEF Named
  <2>2. LastOf(Named(line, E, line[m])) = {m}
    BY <1>1, <1>3, <2>1
  <2> HIDE DEF E
  <2> QED  BY <2>2 DEF Given
<1>6. ASSUME NEW key, ~ (line[m] = "-t" /\ \E t \in TweakIn[line[m + 1]] : t.key = key)
      PROVE  TweakGiven(line, E, key) = TweakGiven(line, D, key)
  <2>1. TweaksGiven(line, E, key) = TweaksGiven(line, D, key)
    BY <1>6 DEF TweaksGiven, Named
  <2> HIDE DEF E
  <2> QED  BY <2>1 DEF TweakGiven
<1>7. ASSUME NEW key, line[m] = "-t", \E t \in TweakIn[line[m + 1]] : t.key = key
      PROVE  TweakGiven(line, E, key) =
                TheOne(UNION {t.value : t \in TweakIn[line[m + 1]]}, Defaults.tweak[key])
  <2>1. /\ TweaksGiven(line, E, key) = TweaksGiven(line, D, key) \cup {m}
        /\ TweaksGiven(line, D, key) \subseteq D
    BY <1>7 DEF TweaksGiven, Named
  <2>2. LastOf(TweaksGiven(line, E, key)) = {m}
    BY <1>1, <2>1
  <2> HIDE DEF E
  <2>3. UNION {TweakIn[arg] : arg \in {line[i + 1] : i \in LastOf(TweaksGiven(line, E, key))}}
          = TweakIn[line[m + 1]]
    BY <2>2
  <2> QED  BY <2>3 DEF TweakGiven
<1> QED  BY <1>2, <1>4, <1>5, <1>6, <1>7

(* Such an option says at most that URIs are not checked.                  *)
ChecksWith(option, o) == IF option = "-n" THEN [o EXCEPT !.check_uris = FALSE] ELSE o

(* An option without a value of its own.                                   *)
LEMMA OptionTaken ==
    ASSUME NEW line, NEW D \in SUBSET Nat, NEW m \in Nat, \A i \in D : i < m,
           NEW rules, NEW grouping, line[m] \notin Singles
    PROVE  Stands(line, D \cup {m}, rules, grouping) =
              ChecksWith(line[m], Stands(line, D, rules, grouping))
<1> DEFINE E == D \cup {m}
<1>1. /\ \A option : line[m] # option =>
            /\ Named(line, E, option) = Named(line, D, option)
            /\ Given(line, E, option) = Given(line, D, option)
            /\ NumberGiven(line, E, option) = NumberGiven(line, D, option)
      /\ Named(line, E, line[m]) # {}
      /\ \A key : line[m] # "-t" => TweakGiven(line, E, key) = TweakGiven(line, D, key)
  BY OneMoreOption
<1>2. line[m] \notin {"-f", "--host", "--log-file", "-p", "-o", "-q", "--test", "-t"}
  BY SinglesAre
<1> HIDE DEF E
<1>3. /\ Named(line, E, "--log-file") = Named(line, D, "--log-file")
      /\ Named(line, E, "--test") = Named(line, D, "--test")
      /\ Given(line, E, "-f") = Given(line, D, "-f")
      /\ Given(line, E, "--host") = Given(line, D, "--host")
      /\ NumberGiven(line, E, "-p") = NumberGiven(line, D, "-p")
      /\ NumberGiven(line, E, "-o") = NumberGiven(line, D, "-o")
      /\ NumberGiven(line, E, "-q") = NumberGiven(line, D, "-q")
      /\ \A key : TweakGiven(line, E, key) = TweakGiven(line, D, key)
  BY <1>1, <1>2
<1>4. CASE line[m] = "-n"
  <2>1. FALSE = Checks(line, E)
    BY <1>1, <1>4 DEF Checks
  <2>2. ASSUME NEW v, v = Checks(line, E), NEW was, was = Stands(line, D, rules, grouping)
        PROVE  Stands(line, E, rules, grouping) = [was EXCEPT !.check_uris = v]
    BY <1>3, <2>2 DEF Stands
  <2>3. Stands(line, E, rules, grouping) =
           [Stands(line, D, rules, grouping) EXCEPT !.check_uris = FALSE]
    BY <2>1, <2>2, Zenon
  <2> QED  BY <1>4, <2>3, Zenon DEF E, ChecksWith
<1>5. CASE line[m] # "-n"
  <2>1. Checks(line, E) = Checks(line, D)
    BY <1>1, <1>5 DEF Checks
  <2>2. Stands(line, E, rules, grouping) = Stands(line, D, rules, grouping)
    BY <1>3, <2>1 DEF Stands
  <2> QED  BY <1>5, <2>2, Zenon DEF E, ChecksWith
<1> QED  BY <1>4, <1>5

(* An option with a value, and the value.                                  *)
LEMMA ValueTaken ==
    ASSUME NEW line, NEW D \in SUBSET Nat, NEW m \in Nat, \A i \in D : i < m,
           NEW S, NEW rules \in Seq(Rule), NEW grouping,
           line[m] \in Singles, state = Awaits[line[m]], line[m + 1] \in Arg,
           opts = Stands(line, D, rules, grouping), NEW o \in OptionsWith(line[m + 1])
    PROVE  o = Stands(line, D \cup {m}, rules \o RulesFrom(line, S, m), grouping)
<1> DEFINE E == D \cup {m}
           arg == line[m + 1]
<1>1. /\ \A option : line[m] # option =>
            /\ Named(line, E, option) = Named(line, D, option)
            /\ Given(line, E, option) = Given(line, D, option)
            /\ NumberGiven(line, E, option) = NumberGiven(line, D, option)
      /\ Named(line, E, line[m]) # {}
      /\ Given(line, E, line[m]) = {arg}
      /\ \A key : ~ (line[m] = "-t" /\ \E t \in TweakIn[arg] : t.key = key) =>
            TweakGiven(line, E, key) = TweakGiven(line, D, key)
      /\ \A key : line[m] = "-t" /\ (\E t \in TweakIn[arg] : t.key = key) =>
            TweakGiven(line, E, key) =
               TheOne(UNION {t.value : t \in TweakIn[arg]}, Defaults.tweak[key])
  BY OneMoreOption
<1>2. arg \in Arg /\ o \in OptionsWith(arg)
  OBVIOUS
<1>3. /\ AtMostOne(NumberIn[arg]) /\ AtMostOne(TweakIn[arg]) /\ AtMostOne(ExcludeFile[arg])
      /\ \A t \in TweakIn[arg] : AtMostOne(t.value)
  BY <1>2, VocabularyAssumption
<1> HIDE DEF E, arg
<1>4. rules \o <<>> = rules
  BY ConcatEmptySeq
<1>5. line[m] # "--exclude-from" => rules \o RulesFrom(line, S, m) = rules
  <2>1. line[m] # "-e"
    BY SinglesAre
  <2> QED  BY <1>4, <2>1 DEF RulesFrom
<1>6. line[m] # "-t" => \A key : TweakGiven(line, E, key) = TweakGiven(line, D, key)
  BY <1>1
<1>7. ASSUME line[m] \in {"-p", "-o", "-q"}, NEW x \in NumberIn[arg] \cap Unsigned
      PROVE  NumberGiven(line, E, line[m]) = x
  <2>1. UNION {NumberIn[y] : y \in Given(line, E, line[m])} = NumberIn[arg]
    BY <1>1
  <2>2. TheOne(NumberIn[arg], 0) = x
    BY <1>3, <1>7, TheOneIs
  <2> QED  BY <2>1, <2>2 DEF NumberGiven
<1>8. Checks(line, E) = Checks(line, D)
  <2>1. line[m] # "-n"
    BY SinglesAre
  <2> QED  BY <1>1, <2>1 DEF Checks
<1> DEFINE same(option) == line[m] # option =>
             /\ Named(line, E, option) = Named(line, D, option)
             /\ Given(line, E, option) = Given(line, D, option)
             /\ NumberGiven(line, E, option) = NumberGiven(line, D, option)
<1>9. /\ same("-f") /\ same("--host") /\ same("--log-file") /\ same("-p")
      /\ same("-o") /\ same("-q") /\ same("--test")
  BY <1>1
<1> DEFINE all == rules \o RulesFrom(line, S, m)
<1>10. ASSUME line[m] \notin {"--exclude-from", "-t"}  PROVE all = rules
  BY <1>5, <1>10
<1> HIDE DEF all
<1>11. CASE line[m] = "--exclude-from"
  <2>1. state = "kExcludeFile"
    BY <1>11, AwaitedAre
  <2>2. PICK r \in ExcludeFile[arg] : o = [opts EXCEPT !.ruleset = @ \o Resolved(r)]
    BY <1>2, <2>1 DEF OptionsWith
  <2>3. TheOne(ExcludeFile[arg], <<>>) = r
    BY <1>3, TheOneIs
  <2>4. RulesFrom(line, S, m) = Resolved(r)
    BY <1>11, <2>3 DEF RulesFrom, arg
  <2>5. o = [opts EXCEPT !.ruleset = all]
    BY <2>2, <2>4 DEF all, Stands
  <2>6. o = Stands(line, E, all, grouping)
    BY <1>6, <1>8, <1>9, <1>11, <2>5 DEF Stands
  <2> QED  BY <2>6 DEF E, all
<1>12. CASE line[m] = "-t"
  <2>1. state = "kTweak"
    BY <1>12, AwaitedAre
  <2>2. PICK t \in TweakIn[arg] : \E v \in t.value :
           TweakIsValid(t, v) /\ o = [opts EXCEPT !.tweak[t.key] = v]
    BY <1>2, <2>1 DEF OptionsWith
  <2>3. PICK v \in t.value : TweakIsValid(t, v) /\ o = [opts EXCEPT !.tweak[t.key] = v]
    BY <2>2
  <2>4. \A u \in TweakIn[arg] : u = t
    BY <1>3 DEF AtMostOne
  <2>5. UNION {u.value : u \in TweakIn[arg]} = t.value
    BY <2>4
  <2>6. AtMostOne(t.value)
    BY <1>3
  <2>7. \A key \in TweakKeys : TweakGiven(line, E, key) =
           IF key = t.key THEN v ELSE TweakGiven(line, D, key)
    <3> SUFFICES ASSUME NEW key \in TweakKeys
                 PROVE  TweakGiven(line, E, key) =
                           IF key = t.key THEN v ELSE TweakGiven(line, D, key)
      OBVIOUS
    <3>1. CASE key = t.key
      <4>1. TweakGiven(line, E, key) = TheOne(t.value, Defaults.tweak[key])
        BY <1>1, <1>12, <2>5, <3>1
      <4>2. TheOne(t.value, Defaults.tweak[key]) = v
        BY <2>6, TheOneIs
      <4> QED  BY <3>1, <4>1, <4>2
    <3>2. CASE key # t.key
      BY <1>1, <2>4, <3>2
    <3> QED  BY <3>1, <3>2
  <2>8. [key \in TweakKeys |-> TweakGiven(line, E, key)] =
           [[key \in TweakKeys |-> TweakGiven(line, D, key)] EXCEPT ![t.key] = v]
    BY <2>7
  <2>9. o = [opts EXCEPT !.tweak = [[key \in TweakKeys |-> TweakGiven(line, D, key)]
                                       EXCEPT ![t.key] = v]]
    BY <2>3 DEF Stands
  <2>10. o = [opts EXCEPT !.tweak = [key \in TweakKeys |-> TweakGiven(line, E, key)]]
    BY <2>8, <2>9
  <2>11. all = rules
    BY <1>5, <1>12 DEF all
  <2>12. o = Stands(line, E, all, grouping)
    BY <1>8, <1>9, <1>12, <2>10, <2>11 DEF Stands
  <2> QED  BY <2>12 DEF E, all
<1> DEFINE goal == o = Stands(line, E, all, grouping)
<1>13. CASE line[m] = "-f"
  <2>1. state = "kFile"
    BY <1>13, AwaitedAre
  <2>2. o = [opts EXCEPT !.file_in = arg]
    BY <1>2, <2>1 DEF OptionsWith
  <2>3. TheOne(Given(line, E, "-f"), NoFile) = arg
    BY <1>1, <1>13, TheOneIs DEF AtMostOne
  <2>4. goal
    BY <1>6, <1>8, <1>9, <1>10, <1>13, <2>2, <2>3 DEF Stands
  <2> QED  BY <2>4 DEF E, all
<1>14. CASE line[m] = "--host"
  <2>1. state = "kHost"
    BY <1>14, AwaitedAre
  <2>2. o = [opts EXCEPT !.host = {arg}]
    BY <1>2, <2>1 DEF OptionsWith
  <2>3. goal
    BY <1>1, <1>6, <1>8, <1>9, <1>10, <1>14, <2>2 DEF Stands
  <2> QED  BY <2>3 DEF E, all
<1>15. CASE line[m] = "--log-file"
  <2>1. state = "kLogFile"
    BY <1>15, AwaitedAre
  <2>2. o = [opts EXCEPT !.log_file = TRUE]
    BY <1>2, <2>1 DEF OptionsWith
  <2>3. goal
    BY <1>1, <1>6, <1>8, <1>9, <1>10, <1>15, <2>2 DEF Stands
  <2> QED  BY <2>3 DEF E, all
<1>16. CASE line[m] = "--test"
  <2>1. state = "kTest"
    BY <1>16, AwaitedAre
  <2>2. o = [opts EXCEPT !.test = TRUE]
    BY <1>2, <2>1 DEF OptionsWith
  <2>3. goal
    BY <1>1, <1>6, <1>8, <1>9, <1>10, <1>16, <2>2 DEF Stands
  <2> QED  BY <2>3 DEF E, all
<1>17. CASE line[m] = "-p"
  <2>1. state = "kPort"
    BY <1>17, AwaitedAre
  <2>2. PICK x \in NumberIn[arg] \cap Unsigned : o = [opts EXCEPT !.port = x]
    BY <1>2, <2>1 DEF OptionsWith
  <2>3. goal
    BY <1>6, <1>7, <1>8, <1>9, <1>10, <1>17, <2>2 DEF Stands
  <2> QED  BY <2>3 DEF E, all
<1>18. CASE line[m] = "-o"
  <2>1. state = "kQueue"
    BY <1>18, AwaitedAre
  <2>2. PICK x \in NumberIn[arg] \cap Unsigned : o = [opts EXCEPT !.queue_only = x]
    BY <1>2, <2>1 DEF OptionsWith
  <2>3. goal
    BY <1>6, <1>7, <1>8, <1>9, <1>10, <1>18, <2>2 DEF Stands
  <2> QED  BY <2>3 DEF E, all
<1>19. CASE line[m] = "-q"
  <2>1. state = "kQueueBuffer"
    BY <1>19, AwaitedAre
  <2>2. PICK x \in NumberIn[arg] \cap Unsigned : o = [opts EXCEPT !.queue_buffer = x]
    BY <1>2, <2>1 DEF OptionsWith
  <2>3. goal
    BY <1>6, <1>7, <1>8, <1>9, <1>10, <1>19, <2>2 DEF Stands
  <2> QED  BY <2>3 DEF E, all
<1> QED
  BY <1>11, <1>12, <1>13, <1>14, <1>15, <1>16, <1>17, <1>18, <1>19, SinglesAre

(* f[i] is what the options up to i say of the rules.                      *)
Collects(f, line, S, m) ==
    f = [i \in 0 .. m |->
           IF i = 0 THEN <<>>
           ELSE IF i \in S THEN f[i - 1] \o RulesFrom(line, S, i) ELSE f[i - 1]]

(* There is one such function, and the rules are its last value.           *)
LEMMA RulesetIs ==
    ASSUME NEW line \in Seq(Arg), NEW S, NEW f, Collects(f, line, S, Len(line))
    PROVE  Ruleset(line, S) = f[Len(line)]
<1> DEFINE n == Len(line)
           g == CHOOSE g : Collects(g, line, S, n)
           differ == {i \in 0 .. n : g[i] # f[i]}
           less == {p \in Nat \X Nat : p[1] < p[2]}
<1>1. Ruleset(line, S) = g[n]
  BY DEF Ruleset, Collects
<1>2. n \in Nat
  BY LenProperties
<1>3. Collects(g, line, S, n) /\ Collects(f, line, S, n)
  OBVIOUS
<1> HIDE DEF n, g
<1>4. ASSUME NEW i \in differ, \A j \in differ : <<j, i>> \notin less  PROVE FALSE
  <2>1. i \in 0 .. n /\ i \in Nat
    BY <1>2
  <2>2. CASE i = 0
    BY <1>2, <1>3, <2>2 DEF Collects
  <2>3. CASE i # 0
    <3>1. i - 1 \in 0 .. n /\ <<i - 1, i>> \in less
      BY <1>2, <2>1, <2>3
    <3>2. g[i - 1] = f[i - 1]
      BY <1>4, <3>1
    <3>3. /\ g[i] = IF i \in S THEN g[i - 1] \o RulesFrom(line, S, i) ELSE g[i - 1]
          /\ f[i] = IF i \in S THEN f[i - 1] \o RulesFrom(line, S, i) ELSE f[i - 1]
      BY <1>3, <2>1, <2>3 DEF Collects
    <3> QED  BY <3>2, <3>3
  <2> QED  BY <2>2, <2>3
<1>5. differ = {}
  <2>1. IsWellFoundedOn(less, Nat)
    BY NatLessThanWellFounded DEF OpToRel
  <2>2. differ \subseteq Nat
    BY <1>2
  <2> HIDE DEF differ, less
  <2> QED  BY <1>4, <2>1, <2>2, WFMin
<1>6. n \in 0 .. n
  BY <1>2
<1> QED  BY <1>1, <1>5, <1>6 DEF n

(* Clauses that own the same places say the same.                          *)
LEMMA LikeWords ==
    ASSUME NEW line \in Seq(Arg), NEW a \in Arg, NEW S, NEW T, NEW i \in DOMAIN line,
           Own(Append(line, a), T, i) = Own(line, S, i)
    PROVE  /\ RuleAt(Append(line, a), T, i) = RuleAt(line, S, i)
           /\ GroupingAt(Append(line, a), T, i) = GroupingAt(line, S, i)
           /\ line[i] \in Singles /\ i + 1 \in DOMAIN line
                 => RulesFrom(Append(line, a), T, i) = RulesFrom(line, S, i)
           /\ line[i] \notin Singles
                 => RulesFrom(Append(line, a), T, i) = RulesFrom(line, S, i)
<1> DEFINE more == Append(line, a)
           n == Len(line)
           own == Own(line, S, i)
           places == {k \in DOMAIN line : i + k \in own}
           pairs == {k \in DOMAIN line : i + 2 * k \in own}
<1>1. /\ n \in Nat /\ DOMAIN line = 1 .. n /\ DOMAIN more = 1 .. n + 1
      /\ \A j \in 1 .. n : more[j] = line[j]
  BY OneLonger
<1>2. own \subseteq 1 .. n
  BY <1>1 DEF Own
<1>3. Own(more, T, i) = own /\ more[i] = line[i] /\ i \in 1 .. n
  BY <1>1
<1> HIDE DEF more, n, own
<1>4. /\ {k \in DOMAIN more : i + k \in own} = places
      /\ {k \in DOMAIN more : i + 2 * k \in own} = pairs
  <2>1. \A k \in 1 .. n + 1 : (i + k \in own \/ i + 2 * k \in own) => k \in 1 .. n
    <3>1. \A k \in 1 .. n + 1 : (i + k \in 1 .. n \/ i + 2 * k \in 1 .. n) => k \in 1 .. n
      BY <1>1, <1>3
    <3> QED  BY <1>2, <3>1
  <2>2. 1 .. n \subseteq 1 .. n + 1
    BY <1>1
  <2> QED  BY <1>1, <2>1, <2>2
<1>5. \A k \in places : more[i + k] = line[i + k]
  BY <1>1, <1>2
<1>6. \A k \in pairs : /\ more[i + 2 * k] = line[i + 2 * k]
                       /\ more[i + 2 * k - 1] = line[i + 2 * k - 1]
  <2>1. \A k \in 1 .. n : i + 2 * k \in 1 .. n => i + 2 * k - 1 \in 1 .. n
    BY <1>1, <1>3
  <2>2. \A k \in pairs : i + 2 * k \in 1 .. n /\ i + 2 * k - 1 \in 1 .. n
    BY <1>1, <1>2, <2>1
  <2> HIDE DEF pairs
  <2> QED  BY <1>1, <2>2
<1> HIDE DEF places, pairs
<1>7. RuleAt(more, T, i) = RuleAt(line, S, i)
  <2>1. RuleAt(line, S, i) = [k \in pairs |->
           [tag |-> TagAt(line, i + 2 * k - 1), value |-> line[i + 2 * k]]]
    BY DEF RuleAt, pairs, own
  <2>2. RuleAt(more, T, i) = [k \in pairs |->
           [tag |-> TagAt(more, i + 2 * k - 1), value |-> more[i + 2 * k]]]
    BY <1>3, <1>4 DEF RuleAt
  <2> QED  BY <1>6, <2>1, <2>2 DEF TagAt
<1>8. GroupingAt(more, T, i) = GroupingAt(line, S, i)
  <2>1. line[i] # "--by-album" => GroupingAt(line, S, i) = [k \in places |-> TagAt(line, i + k)]
    BY DEF GroupingAt, places, own
  <2>2. line[i] # "--by-album" => GroupingAt(more, T, i) = [k \in places |-> TagAt(more, i + k)]
    BY <1>3, <1>4 DEF GroupingAt
  <2>3. line[i] = "--by-album" => GroupingAt(more, T, i) = GroupingAt(line, S, i)
    BY <1>3 DEF GroupingAt
  <2>4. [k \in places |-> TagAt(more, i + k)] = [k \in places |-> TagAt(line, i + k)]
    BY <1>5 DEF TagAt
  <2> QED  BY <2>1, <2>2, <2>3, <2>4
<1>9. ASSUME line[i] \notin Singles \/ i + 1 \in DOMAIN line
      PROVE  RulesFrom(more, T, i) = RulesFrom(line, S, i)
  <2>1. line[i] = "--exclude-from" => more[i + 1] = line[i + 1]
    BY <1>1, <1>9, SinglesAre
  <2> QED  BY <1>3, <1>7, <2>1 DEF RulesFrom
<1> QED  BY <1>7, <1>8, <1>9 DEF more

(* What was collected stands when the line grows: whether a further option *)
(* follows or an argument of the last.                                     *)
LEMMA CollectsOfLonger ==
    ASSUME NEW line \in Seq(Arg), NEW a \in Arg, NEW S, S \subseteq 1 .. Len(line),
           NEW T, S \subseteq T, T \subseteq S \cup {Len(line) + 1},
           NEW f, NEW m \in 0 .. Len(line), Collects(f, line, S, m),
           NEW l \in T, m < l,
           \A i \in S : i <= m /\ line[i] \in Singles => i + 1 \in DOMAIN line
    PROVE  Collects(f, Append(line, a), T, m)
<1> DEFINE n == Len(line)
           more == Append(line, a)
<1>1. n \in Nat /\ DOMAIN line = 1 .. n /\ m \in Nat /\ m <= n /\ l \in 1 .. n + 1
  <2>1. n \in Nat /\ DOMAIN line = 1 .. n
    BY LenProperties
  <2>2. m \in Nat /\ m <= n
    BY <2>1
  <2>3. \A i \in T : i \in 1 .. n + 1
    <3>1. \A i \in 1 .. n : i \in 1 .. n + 1
      BY <2>1
    <3>2. n + 1 \in 1 .. n + 1
      BY <2>1
    <3> HIDE DEF n
    <3> QED  BY <3>1, <3>2 DEF n
  <2> QED  BY <2>1, <2>2, <2>3
<1>2. ASSUME NEW i \in 0 .. m, i # 0
      PROVE  /\ i \in T <=> i \in S
             /\ i \in S => RulesFrom(more, T, i) = RulesFrom(line, S, i)
  <2>1. i \in 1 .. n /\ i # n + 1 /\ l > i /\ i <= m
    BY <1>1, <1>2
  <2>2. i \in T <=> i \in S
    BY <2>1
  <2>3. ASSUME i \in S  PROVE RulesFrom(more, T, i) = RulesFrom(line, S, i)
    <3>1. \A k \in T : k > i => Own(more, T, i) = Own(line, S, i)
      BY <2>1, OwnIsKept
    <3>2. Own(more, T, i) = Own(line, S, i) /\ i \in DOMAIN line
      BY <1>1, <2>1, <3>1
    <3>3. line[i] \in Singles => i + 1 \in DOMAIN line
      BY <2>1, <2>3
    <3> QED  BY <3>2, <3>3, LikeWords
  <2> QED  BY <2>2, <2>3
<1> HIDE DEF more, n
<1>3. Collects(f, more, T, m)
  <2>1. f = [i \in 0 .. m |->
               IF i = 0 THEN <<>>
               ELSE IF i \in S THEN f[i - 1] \o RulesFrom(line, S, i) ELSE f[i - 1]]
    BY DEF Collects
  <2>2. [i \in 0 .. m |->
           IF i = 0 THEN <<>>
           ELSE IF i \in S THEN f[i - 1] \o RulesFrom(line, S, i) ELSE f[i - 1]] =
        [i \in 0 .. m |->
           IF i = 0 THEN <<>>
           ELSE IF i \in T THEN f[i - 1] \o RulesFrom(more, T, i) ELSE f[i - 1]]
    BY <1>2
  <2> QED  BY <2>1, <2>2, Zenon DEF Collects
<1> QED  BY <1>3 DEF more

-----------------------------------------------------------------------------
(* Rules and groupings grow with their arguments                           *)

(* A function on 1 .. q + 1 is what it is on 1 .. q, and its last value.   *)
LEMMA LastIsAppended ==
    ASSUME NEW q \in Nat, NEW g, g = [k \in 1 .. q + 1 |-> g[k]]
    PROVE  g = Append([k \in 1 .. q |-> g[k]], g[q + 1])
<1> DEFINE T == {g[k] : k \in 1 .. q + 1}
           was == [k \in 1 .. q |-> g[k]]
<1>1. \A k \in 1 .. q : k \in 1 .. q + 1
  OBVIOUS
<1>2. /\ was \in [1 .. q -> T] /\ g \in [1 .. q + 1 -> T] /\ g[q + 1] \in T
      /\ \A k \in 1 .. q : was[k] = g[k]
  BY <1>1
<1> HIDE DEF was, T
<1>3. was \in Seq(T) /\ Len(was) = q /\ g \in Seq(T) /\ Len(g) = q + 1
  BY <1>2
<1>4. /\ Append(was, g[q + 1]) \in Seq(T)
      /\ Len(Append(was, g[q + 1])) = q + 1
      /\ \A k \in 1 .. q : Append(was, g[q + 1])[k] = was[k]
      /\ Append(was, g[q + 1])[q + 1] = g[q + 1]
  BY <1>2, <1>3, AppendProperties
<1>5. \A k \in 1 .. q + 1 : g[k] = Append(was, g[q + 1])[k]
  <2>1. \A k \in 1 .. q + 1 : k \in 1 .. q \/ k = q + 1
    OBVIOUS
  <2> QED  BY <1>2, <1>4, <2>1
<1> QED  BY <1>3, <1>4, <1>5, SeqEqual DEF was

(* The rule of the last option, by its patterns.                           *)
LEMMA RuleOfLast ==
    ASSUME NEW line \in Seq(Arg), NEW S, NEW L \in 1 .. Len(line),
           Own(line, S, L) = L + 1 .. Len(line),
           NEW q \in Nat, Len(line) = L + 2 * q \/ Len(line) = L + 2 * q + 1
    PROVE  RuleAt(line, S, L) =
              [k \in 1 .. q |-> [tag |-> TagAt(line, L + 2 * k - 1), value |-> line[L + 2 * k]]]
<1> DEFINE n == Len(line)
<1>1. n \in Nat /\ DOMAIN line = 1 .. n
  BY LenProperties
<1>2. \A k \in 1 .. n : L + 2 * k \in L + 1 .. n <=> k \in 1 .. q
  <2> HIDE DEF n
  <2>1. L \in 1 .. n /\ (n = L + 2 * q \/ n = L + 2 * q + 1)
    BY DEF n
  <2> QED  BY <1>1, <2>1
<1>3. 1 .. q \subseteq 1 .. n
  <2> HIDE DEF n
  <2>1. L \in 1 .. n /\ (n = L + 2 * q \/ n = L + 2 * q + 1)
    BY DEF n
  <2> QED  BY <1>1, <2>1
<1>4. {k \in DOMAIN line : L + 2 * k \in Own(line, S, L)} = 1 .. q
  <2> HIDE DEF n
  <2>1. Own(line, S, L) = L + 1 .. n
    BY DEF n
  <2> QED  BY <1>1, <1>2, <1>3, <2>1
<1> QED  BY <1>4 DEF RuleAt

(* A tag adds nothing to a rule, a value a pattern.                        *)
LEMMA RuleOfLonger ==
    ASSUME NEW line \in Seq(Arg), NEW a \in Arg, NEW S, NEW L \in 1 .. Len(line),
           Own(line, S, L) = L + 1 .. Len(line),
           Own(Append(line, a), S, L) = L + 1 .. Len(line) + 1,
           NEW q \in Nat
    PROVE  /\ Len(line) = L + 2 * q => RuleAt(Append(line, a), S, L) = RuleAt(line, S, L)
           /\ Len(line) = L + 2 * q + 1 =>
                RuleAt(Append(line, a), S, L) =
                   Append(RuleAt(line, S, L), [tag |-> TagAt(line, Len(line)), value |-> a])
<1> DEFINE n == Len(line)
           more == Append(line, a)
           at(w, k) == [tag |-> TagAt(w, L + 2 * k - 1), value |-> w[L + 2 * k]]
<1>1. /\ n \in Nat /\ more \in Seq(Arg) /\ Len(more) = n + 1
      /\ \A j \in 1 .. n : more[j] = line[j]
      /\ more[n + 1] = a
  BY OneLonger
<1>2. Own(more, S, L) = L + 1 .. Len(more)
  BY <1>1
<1>3. L \in 1 .. n /\ L \in 1 .. Len(more)
  BY <1>1
<1> HIDE DEF more
<1>4. ASSUME n = L + 2 * q \/ n = L + 2 * q + 1
      PROVE  /\ RuleAt(line, S, L) = [k \in 1 .. q |-> at(line, k)]
             /\ \A k \in 1 .. q : at(more, k) = at(line, k)
  <2>1. RuleAt(line, S, L) = [k \in 1 .. q |-> at(line, k)]
    BY <1>4, RuleOfLast
  <2> HIDE DEF n
  <2>2. \A k \in 1 .. q : L + 2 * k - 1 \in 1 .. n /\ L + 2 * k \in 1 .. n
    BY <1>1, <1>3, <1>4
  <2>3. \A k \in 1 .. q : more[L + 2 * k - 1] = line[L + 2 * k - 1]
                          /\ more[L + 2 * k] = line[L + 2 * k]
    BY <1>1, <2>2
  <2>4. \A k \in 1 .. q : at(more, k) = at(line, k)
    BY <2>3 DEF TagAt
  <2> QED  BY <2>1, <2>4 DEF n
<1>5. ASSUME n = L + 2 * q
      PROVE  RuleAt(more, S, L) = RuleAt(line, S, L)
  <2>1. Len(more) = L + 2 * q + 1
    BY <1>1, <1>5
  <2>2. RuleAt(more, S, L) = [k \in 1 .. q |-> at(more, k)]
    BY <1>1, <1>2, <1>3, <2>1, RuleOfLast
  <2>3. [k \in 1 .. q |-> at(more, k)] = [k \in 1 .. q |-> at(line, k)]
    BY <1>4, <1>5
  <2> HIDE DEF at
  <2> QED  BY <1>4, <1>5, <2>2, <2>3
<1>6. ASSUME n = L + 2 * q + 1
      PROVE  RuleAt(more, S, L) =
                Append(RuleAt(line, S, L), [tag |-> TagAt(line, n), value |-> a])
  <2>1. Len(more) = L + 2 * (q + 1) /\ q + 1 \in Nat
    BY <1>1, <1>6
  <2>2. RuleAt(more, S, L) = [k \in 1 .. q + 1 |-> at(more, k)]
    BY <1>1, <1>2, <1>3, <2>1, RuleOfLast
  <2>3. at(more, q + 1) = [tag |-> TagAt(line, n), value |-> a]
    <3>1. L + 2 * (q + 1) - 1 = n /\ L + 2 * (q + 1) = n + 1 /\ n \in 1 .. n
      BY <1>1, <1>3, <1>6
    <3>2. at(more, q + 1) = [tag |-> TagAt(more, n), value |-> more[n + 1]]
      BY <3>1
    <3> QED  BY <1>1, <3>1, <3>2 DEF TagAt
  <2> HIDE DEF at
  <2>4. [k \in 1 .. q + 1 |-> at(more, k)] = Append([k \in 1 .. q |-> at(line, k)], at(more, q + 1))
    <3> DEFINE is == [k \in 1 .. q + 1 |-> at(more, k)]
    <3>1. is = [k \in 1 .. q + 1 |-> is[k]] /\ is[q + 1] = at(more, q + 1)
      <4>1. q + 1 \in 1 .. q + 1
        OBVIOUS
      <4> QED  BY <4>1
    <3>2. [k \in 1 .. q |-> is[k]] = [k \in 1 .. q |-> at(line, k)]
      <4>1. \A k \in 1 .. q : k \in 1 .. q + 1
        OBVIOUS
      <4> QED  BY <1>4, <1>6, <4>1
    <3> HIDE DEF is
    <3>3. is = Append([k \in 1 .. q |-> is[k]], is[q + 1])
      BY <3>1, LastIsAppended
    <3> QED  BY <3>1, <3>2, <3>3 DEF is
  <2>5. RuleAt(line, S, L) = [k \in 1 .. q |-> at(line, k)]
    BY <1>4, <1>6
  <2> QED  BY <2>2, <2>3, <2>4, <2>5
<1> QED  BY <1>5, <1>6 DEF more

(* The options that group, and their places.                               *)
IsGrouping(word) == word \in {"-g", "--by-album"}
Groupings(line, S) == Named(line, S, "-g") \cup Named(line, S, "--by-album")

(* Without one there is no grouping, and one is what it says.              *)
LEMMA GroupByIs ==
    ASSUME NEW line, NEW S
    PROVE  /\ Groupings(line, S) = {} => GroupBy(line, S) = <<>>
           /\ \A i \in Groupings(line, S) :
                 OneGrouping(line, S) => GroupBy(line, S) = GroupingAt(line, S, i)
<1>1. GroupBy(line, S) = TheOne({GroupingAt(line, S, i) : i \in Groupings(line, S)}, <<>>)
  BY DEF GroupBy, Groupings
<1>2. ASSUME Groupings(line, S) = {}  PROVE GroupBy(line, S) = <<>>
  <2>1. {GroupingAt(line, S, i) : i \in Groupings(line, S)} = {}
    BY <1>2
  <2> QED  BY <1>1, <2>1 DEF TheOne
<1>3. ASSUME NEW i \in Groupings(line, S), OneGrouping(line, S)
      PROVE  GroupBy(line, S) = GroupingAt(line, S, i)
  <2>1. \A j \in Groupings(line, S) : j = i
    BY <1>3 DEF Groupings, Named, OneGrouping
  <2>2. {GroupingAt(line, S, j) : j \in Groupings(line, S)} = {GroupingAt(line, S, i)}
    BY <2>1
  <2>3. TheOne({GroupingAt(line, S, i)}, <<>>) = GroupingAt(line, S, i)
    BY TheOneIs DEF AtMostOne
  <2> QED  BY <1>1, <2>2, <2>3
<1> QED  BY <1>2, <1>3

(* Options that say the same of the grouping.                              *)
LEMMA GroupByAlike ==
    ASSUME NEW line, NEW S, NEW more, NEW T, Groupings(more, T) = Groupings(line, S),
           \A i \in Groupings(line, S) : GroupingAt(more, T, i) = GroupingAt(line, S, i)
    PROVE  GroupBy(more, T) = GroupBy(line, S)
<1>1. {GroupingAt(more, T, i) : i \in Groupings(more, T)} =
        {GroupingAt(line, S, i) : i \in Groupings(line, S)}
  OBVIOUS
<1> QED  BY <1>1, Zenon DEF GroupBy, Groupings

(* A clause that groups names a tag.                                       *)
LEMMA GroupingIsNotEmpty ==
    ASSUME NEW line \in Seq(Arg), NEW S, S \subseteq DOMAIN line,
           NEW i \in Groupings(line, S), IsClause(line, S, i)
    PROVE  GroupingAt(line, S, i) # <<>>
<1>1. CASE line[i] = "--by-album"
  <2>1. GroupingAt(line, S, i) = <<"album", "date">>
    BY <1>1 DEF GroupingAt
  <2> QED  BY <2>1
<1>2. CASE line[i] = "-g"
  <2>1. i \in DOMAIN line
    BY DEF Groupings, Named
  <2>2. Own(line, S, i) # {}
    <3>1. ~ Fits(line[i], line[i + 1])
      BY <1>2, SinglesAre
    <3> QED  BY <1>2, <3>1 DEF IsClause
  <2>3. PICK j \in Own(line, S, i) : TRUE
    BY <2>2
  <2>4. j - i \in DOMAIN line /\ i + (j - i) = j
    BY <2>1, LenProperties DEF Own
  <2>5. j - i \in {m \in DOMAIN line : i + m \in Own(line, S, i)}
    BY <2>3, <2>4
  <2>6. GroupingAt(line, S, i) =
           [k \in {m \in DOMAIN line : i + m \in Own(line, S, i)} |-> TagAt(line, i + k)]
    BY <1>2 DEF GroupingAt
  <2>7. DOMAIN GroupingAt(line, S, i) # {}
    BY <2>5, <2>6
  <2>8. DOMAIN <<>> = {}
    OBVIOUS
  <2> QED  BY <2>7, <2>8
<1> QED  BY <1>1, <1>2 DEF Groupings, Named

(* The grouping of the last option grows by the tag that follows.          *)
LEMMA GroupingOfLonger ==
    ASSUME NEW line \in Seq(Arg), NEW a \in Arg, NEW S, NEW L \in 1 .. Len(line),
           line[L] = "-g", Own(line, S, L) = L + 1 .. Len(line),
           Own(Append(line, a), S, L) = L + 1 .. Len(line) + 1
    PROVE  GroupingAt(Append(line, a), S, L) =
              Append(GroupingAt(line, S, L), TagAt(Append(line, a), Len(line) + 1))
<1> DEFINE n == Len(line)
           more == Append(line, a)
           q == n - L
           g == GroupingAt(more, S, L)
<1>1. /\ n \in Nat /\ DOMAIN line = 1 .. n /\ DOMAIN more = 1 .. n + 1
      /\ \A j \in 1 .. n : more[j] = line[j]
  BY OneLonger
<1>2. L \in 1 .. n /\ q \in Nat /\ L + q = n /\ more[L] = "-g"
  BY <1>1
<1>3. /\ {m \in 1 .. n : L + m \in L + 1 .. n} = 1 .. q
      /\ {m \in 1 .. n + 1 : L + m \in L + 1 .. n + 1} = 1 .. q + 1
  <2> HIDE DEF n
  <2>1. \A m \in 1 .. n : L + m \in L + 1 .. n <=> m \in 1 .. q
    BY <1>1, <1>2
  <2>2. \A m \in 1 .. n + 1 : L + m \in L + 1 .. n + 1 <=> m \in 1 .. q + 1
    BY <1>1, <1>2
  <2>3. 1 .. q \subseteq 1 .. n /\ 1 .. q + 1 \subseteq 1 .. n + 1
    BY <1>1, <1>2
  <2> HIDE DEF q
  <2> QED  BY <2>1, <2>2, <2>3
<1>4. GroupingAt(line, S, L) = [k \in 1 .. q |-> TagAt(line, L + k)]
  BY <1>1, <1>3 DEF GroupingAt
<1>5. g = [k \in 1 .. q + 1 |-> TagAt(more, L + k)]
  <2>1. Own(more, S, L) = L + 1 .. n + 1
    OBVIOUS
  <2> HIDE DEF more, n, q
  <2> QED  BY <1>1, <1>2, <1>3, <2>1 DEF GroupingAt
<1> HIDE DEF n, more, q
<1>6. \A k \in 1 .. q : TagAt(more, L + k) = TagAt(line, L + k)
  <2>1. \A k \in 1 .. q : L + k \in 1 .. n
    BY <1>1, <1>2
  <2> QED  BY <1>1, <2>1 DEF TagAt
<1>7. g = [k \in 1 .. q + 1 |-> g[k]] /\ g[q + 1] = TagAt(more, n + 1)
  <2>1. q + 1 \in 1 .. q + 1 /\ L + (q + 1) = n + 1
    BY <1>1, <1>2
  <2> HIDE DEF g
  <2> QED  BY <1>5, <2>1
<1>8. [k \in 1 .. q |-> g[k]] = GroupingAt(line, S, L)
  <2>1. \A k \in 1 .. q : k \in 1 .. q + 1
    BY <1>2
  <2> HIDE DEF g
  <2> QED  BY <1>4, <1>5, <1>6, <2>1
<1>9. g = Append([k \in 1 .. q |-> g[k]], g[q + 1])
  <2> HIDE DEF g
  <2> QED  BY <1>2, <1>7, LastIsAppended
<1> QED  BY <1>7, <1>8, <1>9 DEF more, n

-----------------------------------------------------------------------------
(* What was understood of the arguments so far                             *)

(* The options whose arguments the options already show.                   *)
Heard(S, L) == IF args[L] \in Singles /\ Len(args) = L THEN S \ {L} ELSE S

(* What was understood of the arguments so far: where the options stand,   *)
(* the rules collected before the last, and what all of them come to.      *)
Understood(S, L, f) ==
    /\ Unique(args, S)
    /\ AtLast(S, L)
    /\ Collects(f, args, S, L - 1)
    /\ opts = Stands(args, Heard(S, L),
                     IF state = "kNone" THEN f[L - 1] \o RulesFrom(args, S, L) ELSE f[L - 1],
                     GroupBy(args, S))
    /\ state \in {"kRuleBegin", "kRule", "kRuleValue"} => pending_rule = RuleAt(args, S, L)

MeaningInv ==
    /\ OptionsMeanTheArguments
    /\ InFinalState
       \/ (args = <<>> /\ state = "kNone" /\ opts = Defaults)
       \/ \E S, L, f : Understood(S, L, f)

(* The options, with the rule that a step out of this state appends.       *)
Flushed == IF state = "kRule" THEN [opts EXCEPT !.ruleset = Append(@, pending_rule)] ELSE opts

(* All is said: every option has its arguments.                            *)
Whole(S, f) ==
    /\ Unique(args, S)
    /\ \A i \in S : IsClause(args, S, i)
    /\ Answered(args, S)
    /\ Collects(f, args, S, Len(args))
    /\ Flushed = Stands(args, S, f[Len(args)], GroupBy(args, S))
    /\ \A a \in Arg : NotUnderstood(a) => ~ Partial(Append(args, a), S)

(* So it is before the first argument,                                     *)
LEMMA NothingIsWhole ==
    ASSUME args = <<>>, state = "kNone", opts = Defaults
    PROVE  \E S, f : Whole(S, f)
<1> DEFINE f == [i \in 0 .. 0 |-> <<>>]
<1>1. /\ args \in Seq(Arg) /\ Len(args) = 0 /\ DOMAIN args = {} /\ Range(args) = {}
      /\ Flushed = Defaults
  BY DEF Flushed, Range
<1>2. Unique(args, {})
  BY <1>1 DEF Unique, Partial, OneGrouping
<1>3. Collects(f, args, {}, Len(args))
  BY <1>1 DEF Collects
<1>4. \A option : Named(args, {}, option) = {} /\ Given(args, {}, option) = {}
  BY DEF Named, Given, LastOf
<1>5. \A option : NumberGiven(args, {}, option) = 0
  BY <1>4 DEF NumberGiven, TheOne
<1>6. \A key : TweakGiven(args, {}, key) = Defaults.tweak[key]
  <2> SUFFICES ASSUME NEW key  PROVE TweakGiven(args, {}, key) = Defaults.tweak[key]
    OBVIOUS
  <2>1. LastOf(TweaksGiven(args, {}, key)) = {}
    BY <1>4 DEF TweaksGiven, LastOf
  <2>2. UNION {t.value : t \in UNION {TweakIn[arg] :
           arg \in {args[i + 1] : i \in LastOf(TweaksGiven(args, {}, key))}}} = {}
    BY <2>1
  <2> QED  BY <2>2 DEF TweakGiven, TheOne
<1>7. GroupBy(args, {}) = <<>>
  <2>1. Groupings(args, {}) = {}
    BY <1>4 DEF Groupings
  <2> QED  BY <2>1, GroupByIs
<1>8. [key \in TweakKeys |-> TweakGiven(args, {}, key)] = Defaults.tweak
  BY <1>6 DEF Defaults
<1>9. Stands(args, {}, <<>>, <<>>) = Defaults
  <2>1. /\ TheOne(Given(args, {}, "-f"), NoFile) = NoFile
        /\ Checks(args, {}) = TRUE
        /\ (Named(args, {}, "--log-file") # {}) = FALSE
        /\ (Named(args, {}, "--test") # {}) = FALSE
    BY <1>4 DEF TheOne, Checks
  <2> QED  BY <1>4, <1>5, <1>8, <2>1, Zenon DEF Stands, Defaults
<1>10. \A a : ~ Partial(Append(args, a), {})
  BY DEF Partial
<1>11. f[Len(args)] = <<>>
  BY <1>1
<1> HIDE DEF f
<1>12. Whole({}, f)
  BY <1>1, <1>2, <1>3, <1>7, <1>9, <1>10, <1>11 DEF Whole, Answered
<1> QED  BY <1>12

(* and wherever an option may stand.                                       *)
LEMMA GenericIsWhole ==
    ASSUME ParserInv, InGenericState, NEW S, NEW L, NEW f, Understood(S, L, f)
    PROVE  \E g : Whole(S, g)
<1> DEFINE n == Len(args)
           all == f[L - 1] \o RulesFrom(args, S, L)
           g == [i \in 0 .. n |-> IF i < L THEN f[i] ELSE all]
<1>1. /\ ParserTypeOK /\ args \in Seq(Arg) /\ n \in Nat /\ DOMAIN args = 1 .. n
      /\ Unique(args, S) /\ AtLast(S, L) /\ Collects(f, args, S, L - 1)
  BY LenProperties DEF ParserInv, ParserTypeOK, Understood
<1>2. /\ S \subseteq 1 .. n /\ L \in S /\ L \in 1 .. n /\ \A i \in S : i <= L
  BY <1>1 DEF Unique, Partial, AtLast
<1>3. \A i \in S : IsClause(args, S, i)
  BY <1>1, GenericIsClause
<1>4. args[L] \in Singles => n = L + 1
  <2>1. \A w \in Singles : w \notin {"-n", "--by-album", "-e", "-g"}
    BY SinglesAre
  <2>2. \A w \in DOMAIN Awaits : Awaits[w] \notin {"kNone", "kRule", "kGroup"}
    BY KnownStates, AwaitedStates
  <2> QED  BY <1>1, <2>1, <2>2 DEF AtLast, InGenericState
<1>5. Answered(args, S)
  <2>1. ASSUME NEW i \in S, args[i] \in Singles  PROVE i + 1 \in 1 .. n
    <3>1. CASE i = L
      <4>1. n = L + 1
        BY <1>4, <2>1, <3>1
      <4> HIDE DEF n
      <4> QED  BY <1>1, <1>2, <3>1, <4>1
    <3>2. CASE i # L
      <4>1. i \in 1 .. n /\ i <= L
        BY <1>2
      <4> HIDE DEF n
      <4> QED  BY <1>1, <1>2, <3>2, <4>1
    <3> QED  BY <3>1, <3>2
  <2> QED  BY <1>1, <1>2, <2>1 DEF Answered
<1>6. Heard(S, L) = S
  <2>1. args[L] \in Singles => n # L
    <3> HIDE DEF n
    <3> QED  BY <1>1, <1>2, <1>4
  <2> QED  BY <2>1 DEF Heard
<1>7. Collects(g, args, S, n)
  <2>1. \A i \in 0 .. L - 1 : f[i] = IF i = 0 THEN <<>>
           ELSE IF i \in S THEN f[i - 1] \o RulesFrom(args, S, i) ELSE f[i - 1]
    BY <1>1 DEF Collects
  <2> HIDE DEF n
  <2>2. ASSUME NEW i \in 0 .. n
        PROVE  g[i] = IF i = 0 THEN <<>>
                      ELSE IF i \in S THEN g[i - 1] \o RulesFrom(args, S, i) ELSE g[i - 1]
    <3>1. CASE i < L
      <4>1. i \in 0 .. L - 1 /\ g[i] = f[i]
        BY <1>1, <1>2, <3>1
      <4>2. i # 0 => g[i - 1] = f[i - 1]
        BY <1>1, <1>2, <3>1
      <4> QED  BY <2>1, <4>1, <4>2
    <3>2. CASE i = L
      <4>1. g[i] = all /\ g[i - 1] = f[L - 1] /\ i \in S /\ i # 0
        BY <1>1, <1>2, <3>2
      <4> HIDE DEF g
      <4> QED  BY <3>2, <4>1
    <3>3. CASE i > L
      <4>1. g[i] = all /\ g[i - 1] = all /\ i \notin S /\ i # 0
        BY <1>1, <1>2, <3>3
      <4> HIDE DEF g, all
      <4> QED  BY <4>1
    <3> QED  BY <1>1, <1>2, <3>1, <3>2, <3>3
  <2> HIDE DEF all
  <2>3. g = [i \in 0 .. n |-> g[i]]
    OBVIOUS
  <2> HIDE DEF g
  <2>4. [i \in 0 .. n |-> g[i]] =
          [i \in 0 .. n |-> IF i = 0 THEN <<>>
              ELSE IF i \in S THEN g[i - 1] \o RulesFrom(args, S, i) ELSE g[i - 1]]
    BY <2>2
  <2> QED  BY <2>3, <2>4 DEF Collects
<1>8. g[n] = all
  <2> HIDE DEF all
  <2> QED  BY <1>1, <1>2
<1>9. Flushed = Stands(args, S, all, GroupBy(args, S))
  <2>1. CASE state = "kNone"
    BY <1>6, <2>1 DEF Understood, Flushed
  <2>2. CASE state # "kNone"
    <3>1. opts = Stands(args, S, f[L - 1], GroupBy(args, S))
      BY <1>6, <2>2 DEF Understood
    <3>2. opts.ruleset = f[L - 1] /\ opts.ruleset \in Seq(Rule)
      <4>1. opts.ruleset = f[L - 1]
        BY <3>1 DEF Stands
      <4> QED  BY <1>1, <4>1 DEF ParserTypeOK, OptionsType
    <3>3. CASE state = "kRule"
      <4>1. args[L] = "-e" /\ pending_rule = RuleAt(args, S, L)
        <5>1. \A w \in DOMAIN Awaits : Awaits[w] # "kRule"
          BY KnownStates, AwaitedStates
        <5> QED  BY <1>1, <3>3, <5>1 DEF AtLast, Understood
      <4>2. RulesFrom(args, S, L) = <<pending_rule>>
        BY <4>1 DEF RulesFrom
      <4>3. pending_rule \in Rule
        BY <1>1 DEF ParserTypeOK
      <4>4. Append(f[L - 1], pending_rule) = f[L - 1] \o <<pending_rule>>
        BY <3>2, <4>3
      <4>5. Flushed = [opts EXCEPT !.ruleset = Append(f[L - 1], pending_rule)]
        BY <3>2, <3>3 DEF Flushed
      <4>6. Flushed = [opts EXCEPT !.ruleset = all]
        BY <4>2, <4>4, <4>5
      <4> HIDE DEF all
      <4> QED  BY <3>1, <4>6 DEF Stands
    <3>4. CASE state = "kGroup"
      <4>1. args[L] = "-g"
        <5>1. \A w \in DOMAIN Awaits : Awaits[w] # "kGroup"
          BY KnownStates, AwaitedStates
        <5> QED  BY <1>1, <3>4, <5>1 DEF AtLast
      <4>2. RulesFrom(args, S, L) = <<>>
        BY <4>1 DEF RulesFrom
      <4>3. all = f[L - 1]
        BY <3>2, <4>2, ConcatEmptySeq
      <4> HIDE DEF all
      <4> QED  BY <3>1, <3>4, <4>3 DEF Flushed
    <3> QED  BY <2>2, <3>3, <3>4 DEF InGenericState
  <2> QED  BY <2>1, <2>2
<1>10. ASSUME NEW a \in Arg, NotUnderstood(a)  PROVE ~ Partial(Append(args, a), S)
  <2>1. ~ MayBegin(Append(args, a), S, L)
    BY <1>1, <1>10, Understanding
  <2> QED  BY <1>2, <2>1 DEF Partial
<1> HIDE DEF g, all
<1>11. Whole(S, g)
  BY <1>1, <1>3, <1>5, <1>7, <1>8, <1>9, <1>10 DEF Whole
<1> QED  BY <1>11

(* When all is said, the options are what the line means.                  *)
LEMMA WholeMeans ==
    ASSUME args \in Seq(Arg), NEW S, NEW f, Whole(S, f)
    PROVE  S \in Readings(args) /\ Flushed = Meaning(args, S)
<1>1. S \in Readings(args)
  BY DEF Whole, Unique, Partial, Readings
<1>2. Ruleset(args, S) = f[Len(args)]
  BY RulesetIs DEF Whole
<1>3. Checks(args, S) = (Named(args, S, "-n") = {})
  BY DEF Checks
<1>4. Stands(args, S, f[Len(args)], GroupBy(args, S)) = Meaning(args, S)
  BY <1>2, <1>3, Zenon DEF Stands, Meaning
<1> QED  BY <1>1, <1>4 DEF Whole

(* A generic state is one in which all is said, and only such a state is.  *)
LEMMA Standing ==
    ASSUME ParserInv, MeaningInv, ~ InFinalState
    PROVE  \/ InGenericState /\ \E S, f : Whole(S, f)
           \/ ~ InGenericState /\ \E S, L, f : Understood(S, L, f)
<1>1. CASE args = <<>> /\ state = "kNone" /\ opts = Defaults
  BY <1>1, NothingIsWhole DEF InGenericState
<1>2. CASE \E S, L, f : Understood(S, L, f)
  BY <1>2, GenericIsWhole, Zenon
<1> QED  BY <1>1, <1>2 DEF MeaningInv

(* At the end of the arguments.                                            *)
LEMMA FinishKeepsMeaning ==
    ASSUME ParserInv, MeaningInv, Finish
    PROVE  MeaningInv'
<1>1. args' = args /\ ~ InFinalState /\ args \in Seq(Arg)
  BY DEF Finish, ParserInv, ParserTypeOK
<1>2. CASE InGenericState
  <2>1. PICK S, f : Whole(S, f)
    BY <1>1, <1>2, Standing
  <2>2. S \in Readings(args) /\ Flushed = Meaning(args, S)
    BY <1>1, <2>1, WholeMeans
  <2>3. state' = "kFinal" /\ opts' = Flushed
    BY <1>2 DEF Finish, Goto, Flushed
  <2>4. opts' \in {Meaning(args, T) : T \in Readings(args)}
    BY <2>2, <2>3, Zenon
  <2> QED  BY <1>1, <2>3, <2>4 DEF MeaningInv, OptionsMeanTheArguments, InFinalState
<1>3. CASE ~ InGenericState
  <2>1. PICK S, L, f : Understood(S, L, f)
    BY <1>1, <1>3, Standing
  <2>2. Unique(args, S) /\ AtLast(S, L) /\ L \in S
    BY <2>1 DEF Understood, AtLast
  <2>3. ~ IsClause(args, S, L)
    BY <1>3, <2>2, GenericIsClause DEF ParserInv
  <2>4. Readings(args) = {}
    <3> SUFFICES ASSUME NEW T \in Readings(args)  PROVE FALSE
      OBVIOUS
    <3>1. Partial(args, T)
      BY ReadingIsPartial
    <3>2. T = S
      BY <2>2, <3>1 DEF Unique
    <3> QED  BY <2>2, <2>3, <3>2 DEF Readings
  <2>5. state' = "kError"
    BY <1>3 DEF Finish, Fail
  <2> QED  BY <1>1, <2>4, <2>5 DEF MeaningInv, OptionsMeanTheArguments, InFinalState
<1> QED  BY <1>2, <1>3

(* An error is reported when there is no way to read the line.             *)
LEMMA ErrorKeepsMeaning ==
    ASSUME Readings(args') = {}, state' = "kError"
    PROVE  MeaningInv'
BY DEF MeaningInv, OptionsMeanTheArguments, InFinalState

(* A second grouping is one too many.                                      *)
LEMMA GroupedOnce ==
    ASSUME args \in Seq(Arg), NEW S, NEW f, Whole(S, f), NEW a \in Arg
    PROVE  /\ opts.group_by = <<>> <=> Groupings(args, S) = {}
           /\ OneGrouping(Append(args, a), S \cup {Len(args) + 1}) <=>
                 (IsGrouping(a) => Groupings(args, S) = {})
<1> DEFINE n == Len(args)
           more == Append(args, a)
           T == S \cup {n + 1}
<1>1. /\ n \in Nat /\ DOMAIN args = 1 .. n
      /\ \A j \in 1 .. n : more[j] = args[j]
      /\ more[n + 1] = a
  BY OneLonger
<1>2. S \subseteq 1 .. n /\ OneGrouping(args, S) /\ \A i \in S : IsClause(args, S, i)
  BY <1>1 DEF Whole, Unique, Partial
<1>3. \A i \in S : more[i] = args[i] /\ i # n + 1
  BY <1>1, <1>2
<1>4. Flushed.group_by = GroupBy(args, S)
  BY DEF Whole, Stands
<1>5. Flushed.group_by = opts.group_by
  BY DEF Flushed
<1>6. GroupBy(args, S) = <<>> <=> Groupings(args, S) = {}
  <2>1. ASSUME NEW i \in Groupings(args, S)  PROVE GroupBy(args, S) # <<>>
    <3>1. i \in S
      BY DEF Groupings, Named
    <3>2. GroupingAt(args, S, i) # <<>>
      BY <1>1, <1>2, <3>1, GroupingIsNotEmpty
    <3> QED  BY <1>2, <3>2, GroupByIs
  <2> QED  BY <2>1, GroupByIs
<1> HIDE DEF n, more
<1>7. OneGrouping(more, T) <=> (a \in {"-g", "--by-album"} => Groupings(args, S) = {})
  <2> DEFINE groups(w) == w \in {"-g", "--by-album"}
  <2>1. OneGrouping(args, S) <=> \A i, j \in S : groups(args[i]) /\ groups(args[j]) => i = j
    BY DEF OneGrouping
  <2>2. OneGrouping(more, T) <=> \A i, j \in T : groups(more[i]) /\ groups(more[j]) => i = j
    BY DEF OneGrouping
  <2>3. Groupings(args, S) = {} <=> \A i \in S : ~ groups(args[i])
    BY DEF Groupings, Named
  <2> HIDE DEF groups
  <2>4. (\A i, j \in T : groups(more[i]) /\ groups(more[j]) => i = j) <=>
           /\ \A i, j \in S : groups(args[i]) /\ groups(args[j]) => i = j
           /\ groups(a) => \A i \in S : ~ groups(args[i])
    BY <1>1, <1>3
  <2> QED  BY <1>2, <2>1, <2>2, <2>3, <2>4 DEF groups
<1> QED  BY <1>4, <1>5, <1>6, <1>7 DEF n, more, IsGrouping

-----------------------------------------------------------------------------
(* A further option                                                        *)

(* An option at the end takes nothing from the options before it.          *)
LEMMA OwnOfEarlier ==
    ASSUME NEW line \in Seq(Arg), NEW a \in Arg, NEW S, S \subseteq 1 .. Len(line)
    PROVE  \A i \in S : Own(Append(line, a), S \cup {Len(line) + 1}, i) = Own(line, S, i)
<1> SUFFICES ASSUME NEW i \in S
             PROVE  Own(Append(line, a), S \cup {Len(line) + 1}, i) = Own(line, S, i)
  OBVIOUS
<1> DEFINE T == S \cup {Len(line) + 1}
<1>1. S \subseteq T /\ T \subseteq S \cup {Len(line) + 1} /\ Len(line) + 1 \in T
  OBVIOUS
<1>2. i \in 1 .. Len(line) /\ Len(line) + 1 > i
  OBVIOUS
<1> HIDE DEF T
<1>3. \A k \in T : k > i => Own(Append(line, a), T, i) = Own(line, S, i)
  BY <1>1, <1>2, OwnIsKept
<1>4. Own(Append(line, a), T, i) = Own(line, S, i)
  BY <1>1, <1>2, <1>3
<1> QED  BY <1>4 DEF T

(* The grouping, once this option is read too.                             *)
GroupingWith(option, grouping) ==
    IF option = "--by-album" THEN <<"album", "date">> ELSE grouping

(* What a new option at the end of the arguments changes, and what not.    *)
Added(S, f, a, n, more) ==
    /\ n \in Nat /\ Len(more) = n + 1 /\ more[n + 1] = a /\ n + 1 \notin S
    /\ \A i \in S : i < n + 1 /\ i \in Nat
    /\ Unique(more, S \cup {n + 1})
    /\ Collects(f, more, S \cup {n + 1}, n)
    /\ Own(more, S \cup {n + 1}, n + 1) = {}
    /\ Flushed = Stands(more, S, f[n], GroupBy(args, S))
    /\ f[n] \in Seq(Rule)
    /\ GroupBy(more, S \cup {n + 1}) = GroupingWith(a, GroupBy(args, S))

(* So it is with an option that may stand there.                           *)
LEMMA OptionAdds ==
    ASSUME ParserInv, NEW S, NEW f, Whole(S, f), NEW a \in Arg, Begins(a),
           NEW n, n = Len(args), NEW more, more = Append(args, a),
           IsGrouping(a) => Groupings(args, S) = {},
           NotUnderstood(a)
    PROVE  Added(S, f, a, n, more)
<1> DEFINE T == S \cup {n + 1}
<1>1. /\ args \in Seq(Arg) /\ n \in Nat /\ DOMAIN args = 1 .. n
      /\ more \in Seq(Arg) /\ Len(more) = n + 1
      /\ \A j \in 1 .. n : more[j] = args[j]
      /\ more[n + 1] = a
  <2>1. args \in Seq(Arg)
    BY DEF ParserInv, ParserTypeOK
  <2> QED  BY <2>1, OneLonger
<1>2. S \subseteq 1 .. n /\ Unique(args, S) /\ \A i \in S : IsClause(args, S, i)
  BY <1>1 DEF Whole, Unique, Partial
<1>3. \A i \in S : i \in 1 .. n /\ i < n + 1 /\ i # n + 1 /\ i \in Nat
  <2>1. \A i \in 1 .. n : i < n + 1 /\ i # n + 1 /\ i \in Nat
    BY <1>1
  <2> QED  BY <1>2, <2>1
<1>4. /\ n + 1 \in T /\ S \subseteq T /\ T \subseteq S \cup {Len(args) + 1}
      /\ (\A i \in T : i <= n + 1) /\ n + 1 \in 1 .. Len(more) /\ n + 1 \notin S
  <2>1. \A i \in T : i < n + 1 \/ i = n + 1
    BY <1>3
  <2>2. \A i \in T : i <= n + 1
    <3>1. \A i \in T : i \in Int
      BY <1>1, <1>3
    <3> HIDE DEF T
    <3> QED  BY <1>1, <2>1, <3>1
  <2>3. n + 1 \in 1 .. Len(more) /\ n + 1 \notin S
    BY <1>1, <1>3
  <2> QED  BY <2>2, <2>3
<1> HIDE DEF T
<1>5. Own(more, T, n + 1) = {}
  <2>1. Own(more, T, n + 1) = (n + 1) + 1 .. Len(more)
    BY <1>1, <1>4, OwnOfLast
  <2> QED  BY <1>1, <2>1
<1>6. Unique(more, T)
  <2>1. OneGrouping(Append(args, a), S \cup {Len(args) + 1})
    BY <1>1, GroupedOnce
  <2>2. ~ Partial(Append(args, a), S)
    BY DEF Whole
  <2>3. Unique(Append(args, a), S \cup {Len(args) + 1})
    BY <1>1, <1>2, <2>1, <2>2, OptionIsUnique
  <2> QED  BY <2>3 DEF T
<1>7. \A i \in S : Own(more, T, i) = Own(args, S, i)
  <2>1. \A i \in S : Own(Append(args, a), S \cup {Len(args) + 1}, i) = Own(args, S, i)
    <3>1. args \in Seq(Arg) /\ S \subseteq 1 .. Len(args)
      BY <1>1, <1>2
    <3> QED  BY <3>1, OwnOfEarlier, Zenon
  <2> QED  BY <2>1, Zenon DEF T
<1>8. Collects(f, more, T, n)
  <2>1. /\ S \subseteq 1 .. Len(args) /\ n \in 0 .. Len(args) /\ Collects(f, args, S, n)
        /\ \A i \in S : i <= n /\ args[i] \in Singles => i + 1 \in DOMAIN args
    BY <1>1, <1>2 DEF Whole, Answered
  <2>2. \A l \in T : n < l => Collects(f, Append(args, a), T, n)
    BY <1>1, <1>4, <2>1, CollectsOfLonger
  <2>3. n < n + 1
    BY <1>1
  <2> QED  BY <1>4, <2>2, <2>3
<1>9. Flushed = Stands(more, S, f[n], GroupBy(args, S))
  BY <1>1, StandsOfLonger DEF Whole
<1>10. f[n] \in Seq(Rule)
  <2>1. Flushed.ruleset = f[n]
    BY <1>9 DEF Stands
  <2>2. opts \in OptionsType /\ pending_rule \in Rule
    BY DEF ParserInv, ParserTypeOK
  <2>3. opts.ruleset \in Seq(Rule)
    BY <2>2 DEF OptionsType
  <2>4. Append(opts.ruleset, pending_rule) \in Seq(Rule)
    BY <2>2, <2>3
  <2>5. Flushed.ruleset = opts.ruleset \/ Flushed.ruleset = Append(opts.ruleset, pending_rule)
    <3>1. CASE state = "kRule"
      BY <2>2, <3>1 DEF Flushed, OptionsType
    <3>2. CASE state # "kRule"
      BY <3>2 DEF Flushed
    <3> QED  BY <3>1, <3>2
  <2> QED  BY <2>1, <2>3, <2>4, <2>5
<1>11. GroupBy(more, T) = GroupingWith(a, GroupBy(args, S))
  <2>1. \A i \in S : GroupingAt(more, T, i) = GroupingAt(args, S, i)
    <3> SUFFICES ASSUME NEW i \in S  PROVE GroupingAt(more, T, i) = GroupingAt(args, S, i)
      OBVIOUS
    <3>1. i \in DOMAIN args /\ Own(Append(args, a), T, i) = Own(args, S, i)
      BY <1>1, <1>2, <1>7
    <3> QED  BY <1>1, <3>1, LikeWords
  <2> SUFFICES GroupBy(more, T) =
                  IF a = "--by-album" THEN <<"album", "date">> ELSE GroupBy(args, S)
    BY Zenon DEF GroupingWith
  <2>2. CASE ~ IsGrouping(a)
    <3>0. a \notin {"-g", "--by-album"}
      BY <2>2 DEF IsGrouping
    <3>1. Groupings(more, T) = Groupings(args, S)
      BY <1>1, <1>2, <3>0 DEF Groupings, Named, T
    <3>2. \A i \in Groupings(args, S) : i \in S
      BY DEF Groupings, Named
    <3>3. GroupBy(more, T) = GroupBy(args, S)
      BY <2>1, <3>1, <3>2, GroupByAlike
    <3> QED  BY <3>0, <3>3
  <2>3. CASE IsGrouping(a)
    <3>0. a \in {"-g", "--by-album"}
      BY <2>3 DEF IsGrouping
    <3>1. n + 1 \in Groupings(more, T)
      BY <1>1, <1>4, <3>0 DEF Groupings, Named
    <3>2. OneGrouping(more, T)
      BY <1>6 DEF Unique, Partial
    <3>3. GroupBy(more, T) = GroupingAt(more, T, n + 1)
      BY <3>1, <3>2, GroupByIs
    <3>4. GroupBy(args, S) = <<>>
      BY <2>3, GroupByIs
    <3>5. CASE a = "--by-album"
      BY <1>1, <3>3, <3>5 DEF GroupingAt
    <3>6. CASE a = "-g"
      <4>1. GroupingAt(more, T, n + 1) = [k \in {} |-> TagAt(more, n + 1 + k)]
        <5>1. {m \in DOMAIN more : n + 1 + m \in Own(more, T, n + 1)} = {}
          BY <1>5
        <5> QED  BY <1>1, <3>6, <5>1 DEF GroupingAt
      <4>2. [k \in {} |-> TagAt(more, n + 1 + k)] = <<>>
        OBVIOUS
      <4> QED  BY <3>3, <3>4, <3>6, <4>1, <4>2
    <3> QED  BY <3>0, <3>5, <3>6
  <2> QED  BY <2>2, <2>3
<1> QED  BY <1>1, <1>3, <1>4, <1>5, <1>6, <1>8, <1>9, <1>10, <1>11, Zenon DEF T, Added

(* What an option does to the options, and where it leads.                 *)
AfterOption(a) ==
    CASE a = "-n" -> [Flushed EXCEPT !.check_uris = FALSE]
      [] a = "--by-album" -> [Flushed EXCEPT !.group_by = <<"album", "date">>]
      [] OTHER -> Flushed

NextState(a) ==
    CASE a = "-g" -> "kGroupBegin"
      [] a \in {"-n", "--by-album"} -> "kNone"
      [] OTHER -> Awaits[a]

(* An option that may stand where it does is understood.                   *)
LEMMA OptionIsUnderstood ==
    ASSUME NEW S, NEW f, NEW a, Begins(a), NEW n, NEW more, Added(S, f, a, n, more),
           args' = more, state' = NextState(a), opts' = AfterOption(a), pending_rule' = <<>>
    PROVE  Understood(S \cup {n + 1}, n + 1, f)'
<1> DEFINE T == S \cup {n + 1}
           L == n + 1
           grouping == GroupingWith(a, GroupBy(args, S))
<1>1. /\ n \in Nat /\ Len(more) = L /\ more[L] = a /\ L \notin S
      /\ \A i \in S : i < L /\ i \in Nat
      /\ Unique(more, T)
      /\ Collects(f, more, T, n)
      /\ Own(more, T, L) = {}
      /\ Flushed = Stands(more, S, f[n], GroupBy(args, S))
      /\ f[n] \in Seq(Rule)
      /\ GroupBy(more, T) = grouping
  BY DEF Added
<1>2. /\ a \in {"-n", "--by-album"} => state' = "kNone"
      /\ a = "-g" => state' = "kGroupBegin"
      /\ a \notin {"-n", "--by-album", "-g"} => a \in DOMAIN Awaits /\ state' = Awaits[a]
      /\ a \in DOMAIN Awaits => a \notin {"-n", "--by-album", "-g"}
  <2>1. a \in DOMAIN Awaits => a \notin {"-n", "--by-album", "-g"}
    BY AwaitedAre, SinglesAre
  <2> QED  BY <2>1 DEF NextState, Begins
<1>3. \A w \in DOMAIN Awaits :
         /\ Awaits[w] \notin {"kNone", "kRule", "kRuleValue"}
         /\ Awaits[w] = "kRuleBegin" => w = "-e"
  BY AwaitedAre, SinglesAre
<1>4. /\ state' = "kNone" => a \in {"-n", "--by-album"}
      /\ state' \notin {"kRule", "kRuleValue"}
      /\ state' = "kRuleBegin" => a = "-e"
  BY <1>2, <1>3
<1>5. args' = more /\ L - 1 = n
  BY <1>1
<1>6. AtLast(T, L)'
  <2>1. L \in T /\ \A i \in T : i <= L
    BY <1>1
  <2> HIDE DEF L, T
  <2>2. args'[L] = a /\ Len(args') = L
    BY <1>1, <1>5
  <2>3. \/ /\ state' = "kNone"
           /\ \/ args'[L] \in {"-n", "--by-album"} /\ Len(args') = L
              \/ Len(args') = L + 1 /\ Fits(args'[L], args'[L + 1])
        \/ args'[L] \in DOMAIN Awaits /\ state' = Awaits[args'[L]] /\ Len(args') = L
        \/ state' = "kGroupBegin" /\ args'[L] = "-g" /\ Len(args') = L
    BY <1>2, <2>2
  <2> QED  BY <2>1, <2>3, Zenon DEF AtLast
<1>7. IF state' = "kNone" THEN f[n] \o RulesFrom(more, T, L) = f[n] ELSE TRUE
  <2>1. CASE state' = "kNone"
    <3>1. RulesFrom(more, T, L) = <<>>
      BY <1>1, <1>4, <2>1 DEF RulesFrom
    <3> QED  BY <1>1, <3>1, ConcatEmptySeq
  <2> QED  BY <2>1
<1>8. Heard(T, L)' = IF a \in Singles THEN S ELSE T
  <2>1. T \ {L} = S
    BY <1>1
  <2> QED  BY <1>1, <1>5, <2>1 DEF Heard
<1>9. opts' = Stands(more, IF a \in Singles THEN S ELSE T, f[n], grouping)
  <2>1. S \in SUBSET Nat
    BY <1>1
  <2>2. a \notin Singles =>
          Stands(more, T, f[n], grouping) = ChecksWith(a, Stands(more, S, f[n], grouping))
    <3>1. more[L] = a
      BY <1>1
    <3>2. L \in Nat /\ \A i \in S : i < L
      BY <1>1
    <3> HIDE DEF L, grouping
    <3>3. more[L] \notin Singles =>
            Stands(more, S \cup {L}, f[n], grouping) =
               ChecksWith(more[L], Stands(more, S, f[n], grouping))
      BY <2>1, <3>2, OptionTaken
    <3>4. T = S \cup {L}
      BY DEF L
    <3> HIDE DEF T
    <3> QED  BY <3>1, <3>3, <3>4
  <2>3. CASE a = "-n"
    <3>1. a \notin Singles
      BY <1>2, <2>3, AwaitedAre
    <3>2. grouping = GroupBy(args, S)
      BY <2>3 DEF GroupingWith
    <3>3. opts' = [Flushed EXCEPT !.check_uris = FALSE]
      BY <2>3, Zenon DEF AfterOption
    <3> HIDE DEF grouping, T
    <3> QED  BY <1>1, <2>2, <2>3, <3>1, <3>2, <3>3, Zenon DEF ChecksWith
  <2>4. CASE a = "--by-album"
    <3>1. a \notin Singles /\ a # "-n"
      BY <1>2, <2>4, AwaitedAre
    <3>2. grouping = <<"album", "date">>
      BY <2>4 DEF GroupingWith
    <3>3. opts' = [Flushed EXCEPT !.group_by = <<"album", "date">>]
      BY <2>4 DEF AfterOption
    <3>4. opts' = Stands(more, S, f[n], <<"album", "date">>)
      BY <1>1, <3>3 DEF Stands
    <3> HIDE DEF grouping, T
    <3> QED  BY <2>2, <3>1, <3>2, <3>4, Zenon DEF ChecksWith
  <2>5. CASE a \notin {"-n", "--by-album"}
    <3>1. opts' = Flushed /\ grouping = GroupBy(args, S)
      BY <2>5 DEF AfterOption, GroupingWith
    <3> HIDE DEF grouping, T
    <3> QED  BY <1>1, <2>2, <2>5, <3>1 DEF ChecksWith
  <2> QED  BY <2>3, <2>4, <2>5
<1>10. state' \in {"kRuleBegin", "kRule", "kRuleValue"} => pending_rule' = RuleAt(more, T, L)
  <2>1. {m \in DOMAIN more : L + 2 * m \in Own(more, T, L)} = {}
    BY <1>1
  <2>2. RuleAt(more, T, L) =
          [k \in {} |-> [tag |-> TagAt(more, L + 2 * k - 1), value |-> more[L + 2 * k]]]
    BY <2>1 DEF RuleAt
  <2> QED  BY <2>2
<1>11. opts' = Stands(args', Heard(T, L)',
                      IF state' = "kNone" THEN f[L - 1] \o RulesFrom(args', T, L) ELSE f[L - 1],
                      GroupBy(args', T))
  <2> HIDE DEF T, L, grouping
  <2>1. f[L - 1] = f[n]
    BY <1>5
  <2>2. (IF state' = "kNone" THEN f[L - 1] \o RulesFrom(args', T, L) ELSE f[L - 1]) = f[n]
    BY <1>5, <1>7, <2>1
  <2> QED  BY <1>1, <1>5, <1>8, <1>9, <2>2
<1>12. Unique(args', T) /\ Collects(f, args', T, L - 1)
  <2> HIDE DEF T, L
  <2> QED  BY <1>1, <1>5
<1>13. state' \in {"kRuleBegin", "kRule", "kRuleValue"} => pending_rule' = RuleAt(args', T, L)
  BY <1>5, <1>10
<1> HIDE DEF T, L
<1>14. Understood(T, L, f)'
  BY <1>6, <1>11, <1>12, <1>13 DEF Understood
<1> QED  BY <1>14 DEF T, L

(* Where an option may stand, it is not an argument.                       *)
LEMMA OptionIsNoArgument ==
    ASSUME InGenericState, NEW a \in Arg, IsOption(a)
    PROVE  NotUnderstood(a)
<1>1. TagNamed[a] = {}
  BY VocabularyAssumption
<1> QED  BY <1>1 DEF InGenericState, NotUnderstood

(* An option, where one may stand.                                         *)
LEMMA OptionKeepsMeaning ==
    ASSUME ParserInv, MeaningInv, InGenericState, NEW a \in Arg, IsOption(a),
           args' = Append(args, a), ConsumeOption(a)
    PROVE  MeaningInv'
<1>1. args \in Seq(Arg) /\ ~ InFinalState
  BY DEF ParserInv, ParserTypeOK, InGenericState, InFinalState
<1>2. PICK S, f : Whole(S, f)
  BY <1>1, Standing
<1>3. NotUnderstood(a)
  BY OptionIsNoArgument
<1>4. Unique(args, S) /\ ~ Partial(Append(args, a), S)
  BY <1>2, <1>3 DEF Whole
<1>5. /\ opts.group_by = <<>> <=> Groupings(args, S) = {}
      /\ OneGrouping(Append(args, a), S \cup {Len(args) + 1}) <=>
            (IsGrouping(a) => Groupings(args, S) = {})
  BY <1>1, <1>2, GroupedOnce
<1>6. CASE Begins(a) /\ (IsGrouping(a) => Groupings(args, S) = {})
  <2>1. PICK n, more : n = Len(args) /\ more = Append(args, a)
    OBVIOUS
  <2>2. Added(S, f, a, n, more)
    BY <1>2, <1>3, <1>6, <2>1, OptionAdds, Zenon
  <2>3. state' = NextState(a) /\ opts' = AfterOption(a) /\ pending_rule' = <<>>
    <3>1. state # "kRule" => pending_rule = <<>>
      BY DEF ParserInv, PendingRuleIsWhole, InGenericState
    <3>2. a \in DOMAIN Awaits => /\ a \notin {"-v", "-n", "--by-album", "-g"}
                                 /\ Awaits[a] \notin {"kRule", "kRuleValue"}
      BY AwaitedAre, SinglesAre
    <3>3. IsGrouping(a) => opts.group_by = <<>>
      BY <1>5, <1>6
    <3>4. CASE a = "-n"
      <4>1. Goto("kNone", [opts EXCEPT !.check_uris = FALSE])
        BY <3>2, <3>4 DEF ConsumeOption
      <4>2. ASSUME NEW v, Goto("kNone", [opts EXCEPT !.check_uris = v])
            PROVE  opts' = [Flushed EXCEPT !.check_uris = v] /\ pending_rule' = <<>>
        BY <3>1, <4>2 DEF Goto, Flushed
      <4>3. opts' = [Flushed EXCEPT !.check_uris = FALSE] /\ pending_rule' = <<>>
        BY <4>1, <4>2, Zenon
      <4>4. state' = "kNone"
        BY <4>1 DEF Goto
      <4>5. AfterOption(a) = [Flushed EXCEPT !.check_uris = FALSE]
        BY <3>4, Zenon DEF AfterOption
      <4> QED  BY <3>4, <4>3, <4>4, <4>5 DEF NextState
    <3>5. CASE a = "--by-album"
      <4>1. Goto("kNone", [opts EXCEPT !.group_by = <<"album", "date">>])
        BY <3>2, <3>3, <3>5 DEF ConsumeOption, IsGrouping
      <4>2. opts' = [Flushed EXCEPT !.group_by = <<"album", "date">>] /\ pending_rule' = <<>>
        BY <3>1, <4>1 DEF Goto, Flushed
      <4>3. state' = "kNone"
        BY <4>1 DEF Goto
      <4> QED  BY <3>5, <4>2, <4>3 DEF NextState, AfterOption
    <3>6. CASE a \notin {"-n", "--by-album"}
      <4>1. Goto(NextState(a), opts) /\ NextState(a) \notin {"kRule", "kRuleValue"}
        BY <1>6, <3>2, <3>3, <3>6 DEF ConsumeOption, IsGrouping, Begins, NextState
      <4> QED  BY <3>1, <3>6, <4>1 DEF Goto, Flushed, AfterOption
    <3> QED  BY <3>4, <3>5, <3>6
  <2>4. Understood(S \cup {n + 1}, n + 1, f)'
    BY <1>6, <2>1, <2>2, <2>3, OptionIsUnderstood
  <2>5. state' \notin {"kFinal", "kError"}
    BY <2>3, AwaitedAre, SinglesAre, <1>6 DEF NextState, Begins
  <2> QED  BY <2>4, <2>5 DEF MeaningInv, OptionsMeanTheArguments
<1>7. CASE ~ Begins(a) \/ ~ (IsGrouping(a) => Groupings(args, S) = {})
  <2>1. Readings(Append(args, a)) = {}
    BY <1>1, <1>4, <1>5, <1>7, NoReading
  <2>2. state' = "kError"
    <3>1. CASE ~ Begins(a)
      BY <3>1 DEF Begins, ConsumeOption, Fail, IsOption
    <3>2. CASE IsGrouping(a) /\ Groupings(args, S) # {}
      <4>1. a \in {"-g", "--by-album"} /\ opts.group_by # <<>>
        BY <1>5, <3>2 DEF IsGrouping
      <4>2. a \notin DOMAIN Awaits
        BY <4>1, AwaitedAre, SinglesAre
      <4> QED  BY <4>1, <4>2 DEF ConsumeOption, Fail
    <3> QED  BY <1>7, <3>1, <3>2
  <2> QED  BY <2>1, <2>2, ErrorKeepsMeaning
<1> QED  BY <1>6, <1>7

-----------------------------------------------------------------------------
(* A further argument                                                      *)

(* A word that is not understood, and a call for help.                     *)
LEMMA NotUnderstoodKeepsMeaning ==
    ASSUME ParserInv, MeaningInv, ~ InFinalState, NEW a \in Arg,
           args' = Append(args, a), state' = "kError",
           a = "-h" \/ (~ (InGenericState /\ IsOption(a)) /\ NotUnderstood(a))
    PROVE  MeaningInv'
<1>1. args \in Seq(Arg) /\ ParserTypeOK
  BY DEF ParserInv, ParserTypeOK
<1>2. ~ IsOption(a) => ~ Begins(a)
  BY DEF IsOption, Begins
<1>3. Readings(Append(args, a)) = {}
  <2>1. CASE InGenericState
    <3>1. PICK S, f : Whole(S, f)
      BY <2>1, Standing
    <3>2. Unique(args, S) /\ (NotUnderstood(a) => ~ Partial(Append(args, a), S))
      BY <3>1 DEF Whole
    <3> QED  BY <1>1, <1>2, <2>1, <3>2, NoReading
  <2>2. CASE ~ InGenericState
    <3>1. PICK S, L, f : Understood(S, L, f)
      BY <2>2, Standing
    <3>2. Unique(args, S) /\ AtLast(S, L) /\ L \in S
      BY <3>1 DEF Understood, AtLast
    <3>3. ~ IsClause(args, S, L)
      BY <1>1, <2>2, <3>2, GenericIsClause
    <3>4. NotUnderstood(a) => ~ Partial(Append(args, a), S)
      <4>1. NotUnderstood(a) => ~ MayBegin(Append(args, a), S, L)
        BY <1>1, <3>2, Understanding
      <4> QED  BY <3>2, <4>1 DEF Partial
    <3> QED  BY <1>1, <2>2, <3>2, <3>3, <3>4, NoReading
  <2> QED  BY <2>1, <2>2
<1> QED  BY <1>3, ErrorKeepsMeaning

(* What an argument at the end of the arguments changes, and what not.     *)
Extended(S, L, f, a, n, more) ==
    /\ n \in Nat /\ L \in 1 .. n /\ L \in S /\ \A i \in S : i <= L /\ i \in Nat
    /\ more \in Seq(Arg) /\ Len(more) = n + 1 /\ more[n + 1] = a /\ more[L] = args[L]
    /\ Unique(more, S)
    /\ Own(args, S, L) = L + 1 .. n /\ Own(more, S, L) = L + 1 .. n + 1
    /\ Collects(f, more, S, L - 1)
    /\ Answered(args, S \ {L})
    /\ ~ IsGrouping(args[L]) => GroupBy(more, S) = GroupBy(args, S)

(* An argument at the end is the last option's.                            *)
LEMMA OwnOfOthers ==
    ASSUME NEW line \in Seq(Arg), NEW a \in Arg, NEW S, S \subseteq 1 .. Len(line),
           NEW L \in S
    PROVE  \A i \in S : i < L => Own(Append(line, a), S, i) = Own(line, S, i)
<1> SUFFICES ASSUME NEW i \in S, i < L
             PROVE  Own(Append(line, a), S, i) = Own(line, S, i)
  OBVIOUS
<1>1. i \in 1 .. Len(line) /\ L > i
  OBVIOUS
<1>2. \A k \in S : k > i => Own(Append(line, a), S, i) = Own(line, S, i)
  BY <1>1, OwnIsKept
<1> QED  BY <1>1, <1>2

(* So it is with an argument that is understood.                           *)
LEMMA ValueExtends ==
    ASSUME ParserInv, NEW S, NEW L, NEW f, Understood(S, L, f), NEW a \in Arg, a # "-h",
           ~ (InGenericState /\ IsOption(a)), ~ NotUnderstood(a),
           NEW n, n = Len(args), NEW more, more = Append(args, a)
    PROVE  Extended(S, L, f, a, n, more)
<1>1. /\ args \in Seq(Arg) /\ n \in Nat /\ DOMAIN args = 1 .. n
      /\ more \in Seq(Arg) /\ Len(more) = n + 1
      /\ \A j \in 1 .. n : more[j] = args[j]
      /\ more[n + 1] = a
  <2>1. args \in Seq(Arg)
    BY DEF ParserInv, ParserTypeOK
  <2> QED  BY <2>1, OneLonger
<1>2. /\ Unique(args, S) /\ AtLast(S, L) /\ L \in S /\ \A i \in S : i <= L
      /\ Collects(f, args, S, L - 1) /\ S \subseteq 1 .. n
  BY <1>1 DEF Understood, AtLast, Unique, Partial
<1>3. L \in 1 .. n /\ more[L] = args[L] /\ \A i \in S : i <= L /\ i \in Nat /\ i \in 1 .. n + 1
  BY <1>1, <1>2
<1>4. Unique(more, S)
  <2>1. MayBegin(Append(args, a), S, L)
    BY <1>2, Understanding DEF ParserInv
  <2>2. ~ IsClause(args, S, L) \/ ~ Begins(a)
    <3>1. InGenericState \/ ~ IsClause(args, S, L)
      BY <1>2, GenericIsClause DEF ParserInv
    <3>2. ~ IsOption(a) => ~ Begins(a)
      BY DEF IsOption, Begins
    <3> QED  BY <3>1, <3>2
  <2> QED  BY <1>1, <1>2, <2>1, <2>2, ArgumentIsUnique
<1>5. Own(args, S, L) = L + 1 .. n /\ Own(more, S, L) = L + 1 .. n + 1
  <2>1. Own(args, S, L) = L + 1 .. Len(args)
    BY <1>1, <1>2, <1>3, OwnOfLast
  <2>2. Own(more, S, L) = L + 1 .. Len(more)
    BY <1>1, <1>2, <1>3, OwnOfLast
  <2> QED  BY <1>1, <2>1, <2>2
<1>6. \A i \in S : i # L => i < L /\ i + 1 \in 1 .. n
  BY <1>1, <1>2, <1>3
<1>7. Collects(f, more, S, L - 1)
  <2>1. /\ S \subseteq 1 .. Len(args) /\ L - 1 \in 0 .. Len(args) /\ L - 1 < L
        /\ S \subseteq S \cup {Len(args) + 1}
    BY <1>1, <1>2, <1>3
  <2>2. \A i \in S : i <= L - 1 /\ args[i] \in Singles => i + 1 \in DOMAIN args
    BY <1>1, <1>3, <1>6
  <2> QED  BY <1>1, <1>2, <2>1, <2>2, CollectsOfLonger
<1>8. Answered(args, S \ {L})
  BY <1>1, <1>2, <1>6 DEF Answered
<1>9. ASSUME ~ IsGrouping(args[L])  PROVE GroupBy(more, S) = GroupBy(args, S)
  <2>1. Groupings(more, S) = Groupings(args, S)
    <3>1. \A i \in S : more[i] = args[i]
      BY <1>1, <1>2
    <3> QED  BY <3>1 DEF Groupings, Named
  <2>2. \A i \in Groupings(args, S) : i \in S /\ i # L
    <3>1. L \notin Groupings(args, S)
      BY <1>9 DEF Groupings, Named, IsGrouping
    <3> QED  BY <3>1 DEF Groupings, Named
  <2>3. ASSUME NEW i \in S, i # L  PROVE GroupingAt(more, S, i) = GroupingAt(args, S, i)
    <3>1. S \subseteq 1 .. Len(args) /\ i \in DOMAIN args /\ i < L
      BY <1>1, <1>2, <1>6, <2>3
    <3>2. Own(Append(args, a), S, i) = Own(args, S, i)
      BY <1>1, <1>2, <3>1, OwnOfOthers, Zenon
    <3> QED  BY <1>1, <3>1, <3>2, LikeWords
  <2> QED  BY <2>1, <2>2, <2>3, GroupByAlike
<1> QED  BY <1>1, <1>2, <1>3, <1>4, <1>5, <1>7, <1>8, <1>9, Zenon DEF Extended

(* What the state says of the option whose arguments are read.             *)
Says(S, L, f, n) ==
    /\ opts = Stands(args, Heard(S, L), f[L - 1], GroupBy(args, S))
    /\ f[L - 1] \in Seq(Rule)
    /\ state \in Range(Awaits) =>
          /\ n = L /\ args[L] \in DOMAIN Awaits /\ state = Awaits[args[L]]
          /\ args[L] = "-e" <=> state = "kRuleBegin"
    /\ state \in {"kRuleBegin", "kRule"} =>
          args[L] = "-e" /\ \E q \in Nat : n = L + 2 * q
    /\ state = "kRuleValue" =>
          /\ args[L] = "-e" /\ \E q \in Nat : n = L + 2 * q + 1
          /\ rule_tag = TagNamed[args[n]]
    /\ state \in {"kGroupBegin", "kGroup"} => args[L] = "-g"

(* It says so, as long as the option waits for arguments or may have more. *)
LEMMA ReadingSays ==
    ASSUME ParserInv, NEW S, NEW L, NEW f, Understood(S, L, f), state # "kNone",
           NEW n, n = Len(args), L \in 1 .. n, n \in Nat
    PROVE  Says(S, L, f, n)
<1>1. opts = Stands(args, Heard(S, L), f[L - 1], GroupBy(args, S))
  BY DEF Understood
<1>2. f[L - 1] \in Seq(Rule)
  <2>1. opts.ruleset = f[L - 1]
    BY <1>1 DEF Stands
  <2> QED  BY <2>1 DEF ParserInv, ParserTypeOK, OptionsType
<1>3. /\ Range(Awaits) = {"kRuleBegin", "kExcludeFile", "kFile", "kHost", "kPort",
                          "kLogFile", "kQueue", "kQueueBuffer", "kTweak", "kTest"}
      /\ \A w \in DOMAIN Awaits : /\ Awaits[w] \in Range(Awaits)
                                  /\ Awaits[w] = "kRuleBegin" <=> w = "-e"
  BY AwaitedStates, KnownStates, AwaitedAre, SinglesAre
<1>4. \/ args[L] \in DOMAIN Awaits /\ state = Awaits[args[L]] /\ n = L
      \/ /\ state = "kRule" /\ args[L] = "-e"
         /\ \E k \in Nat : n = L + 2 * k + 2
      \/ /\ state = "kRuleValue" /\ args[L] = "-e"
         /\ \E k \in Nat : n = L + 2 * k + 1
         /\ rule_tag = TagNamed[args[n]]
      \/ state = "kGroupBegin" /\ args[L] = "-g"
      \/ state = "kGroup" /\ args[L] = "-g"
  BY DEF Understood, AtLast
<1>5. state = "kRuleBegin" => \E q \in Nat : n = L + 2 * q
  <2>1. state = "kRuleBegin" => n = L
    BY <1>3, <1>4
  <2>2. L = L + 2 * 0
    OBVIOUS
  <2> QED  BY <2>1, <2>2
<1>6. state = "kRule" => \E q \in Nat : n = L + 2 * q
  <2> SUFFICES ASSUME state = "kRule"  PROVE \E q \in Nat : n = L + 2 * q
    OBVIOUS
  <2>1. PICK k \in Nat : n = L + 2 * k + 2
    BY <1>3, <1>4
  <2>2. n = L + 2 * (k + 1) /\ k + 1 \in Nat
    BY <2>1
  <2> QED  BY <2>2
<1>7. state \in {"kRuleBegin", "kRule"} => args[L] = "-e"
  BY <1>3, <1>4
<1>8. state \in Range(Awaits) =>
         /\ n = L /\ args[L] \in DOMAIN Awaits /\ state = Awaits[args[L]]
         /\ args[L] = "-e" <=> state = "kRuleBegin"
  BY <1>3, <1>4
<1>9. state = "kRuleValue" =>
         /\ args[L] = "-e" /\ \E q \in Nat : n = L + 2 * q + 1
         /\ rule_tag = TagNamed[args[n]]
  BY <1>3, <1>4
<1>10. state \in {"kGroupBegin", "kGroup"} => args[L] = "-g"
  BY <1>3, <1>4
<1> QED  BY <1>1, <1>2, <1>5, <1>6, <1>7, <1>8, <1>9, <1>10 DEF Says

(* The argument of an option that takes one.                               *)
LEMMA SingleIsUnderstood ==
    ASSUME ParserInv, NEW S, NEW L, NEW f, Understood(S, L, f), NEW a \in Arg,
           NEW n, NEW more, n = Len(args), more = Append(args, a),
           Extended(S, L, f, a, n, more), args' = more,
           state \in Range(Awaits) \ {"kRuleBegin"},
           NEW o \in OptionsWith(a), Goto("kNone", o)
    PROVE  Understood(S, L, f)'
<1>1. /\ n \in Nat /\ L \in 1 .. n /\ L \in S /\ \A i \in S : i <= L /\ i \in Nat
      /\ Len(more) = n + 1 /\ more[n + 1] = a /\ more[L] = args[L]
      /\ Unique(more, S) /\ Collects(f, more, S, L - 1) /\ Answered(args, S \ {L})
      /\ ~ IsGrouping(args[L]) => GroupBy(more, S) = GroupBy(args, S)
  BY DEF Extended
<1>2. state \notin {"kNone", "kRule", "kRuleValue", "kError"}
  BY AwaitedStates
<1>3. /\ opts = Stands(args, Heard(S, L), f[L - 1], GroupBy(args, S))
      /\ f[L - 1] \in Seq(Rule)
      /\ n = L /\ args[L] \in DOMAIN Awaits /\ state = Awaits[args[L]]
      /\ args[L] # "-e"
  <2>1. Says(S, L, f, n)
    BY <1>1, <1>2, ReadingSays
  <2> QED  BY <1>2, <2>1 DEF Says
<1>4. args[L] \in Singles /\ ~ IsGrouping(args[L])
  BY <1>3, SinglesAre, AwaitedAre DEF IsGrouping
<1>5. Heard(S, L) = S \ {L}
  BY <1>3, <1>4 DEF Heard
<1>6. opts = Stands(more, S \ {L}, f[L - 1], GroupBy(more, S))
  <2>1. args \in Seq(Arg)
    BY DEF ParserInv, ParserTypeOK
  <2>2. \A grouping : Stands(more, S \ {L}, f[L - 1], grouping) =
                        Stands(args, S \ {L}, f[L - 1], grouping)
    BY <1>1, <2>1, StandsOfLonger
  <2> QED  BY <1>1, <1>3, <1>4, <1>5, <2>2
<1>7. o = Stands(more, (S \ {L}) \cup {L}, f[L - 1] \o RulesFrom(more, S, L), GroupBy(more, S))
  <2> DEFINE D == S \ {L}
             g == GroupBy(more, S)
             rules == f[L - 1]
  <2>1. /\ D \in SUBSET Nat /\ L \in Nat
        /\ \A i \in D : i < L
    BY <1>1
  <2>2. /\ more[L] \in Singles /\ state = Awaits[more[L]] /\ more[L + 1] = a
        /\ opts = Stands(more, D, rules, g) /\ rules \in Seq(Rule)
    BY <1>1, <1>3, <1>4, <1>6
  <2>3. o \in OptionsWith(more[L + 1]) /\ more[L + 1] \in Arg
    BY <2>2
  <2> HIDE DEF D, g, rules
  <2>4. o = Stands(more, D \cup {L}, rules \o RulesFrom(more, S, L), g)
    BY <2>1, <2>2, <2>3, ValueTaken, Zenon
  <2> QED  BY <2>4 DEF D, g, rules
<1>8. (S \ {L}) \cup {L} = S
  BY <1>1
<1>9. opts' = o /\ state' = "kNone"
  BY <1>2 DEF Goto
<1>10. Fits(more[L], more[L + 1])
  <2>1. OptionsWith(a) # {}
    OBVIOUS
  <2>2. Fits(args[L], a)
    BY <1>3, <1>4, <2>1, ConvertsIfFits
  <2> QED  BY <1>1, <1>3, <2>2
<1>11. AtLast(S, L)'
  <2>1. Len(more) = L + 1
    BY <1>1, <1>3
  <2> QED  BY <1>1, <1>9, <1>10, <2>1 DEF AtLast
<1>12. Heard(S, L)' = S
  <2>1. Len(more) # L
    BY <1>1, <1>3
  <2> QED  BY <2>1 DEF Heard
<1>13. opts' = Stands(args', Heard(S, L)', f[L - 1] \o RulesFrom(args', S, L), GroupBy(args', S))
  BY <1>7, <1>8, <1>9, <1>12
<1> QED  BY <1>1, <1>9, <1>11, <1>13 DEF Understood

(* Where a rule or a grouping is read, the last option is heard.           *)
LEMMA RuleOrGrouping ==
    ASSUME ParserInv, NEW S, NEW L, NEW f, Understood(S, L, f), NEW a \in Arg,
           NEW n, NEW more, n = Len(args), more = Append(args, a),
           Extended(S, L, f, a, n, more),
           state \in {"kRuleBegin", "kRule", "kRuleValue", "kGroupBegin", "kGroup"}
    PROVE  /\ Heard(S, L) = S /\ args[L] \notin Singles
           /\ opts = Stands(more, S, f[L - 1], GroupBy(args, S))
           /\ opts = Stands(args, S, f[L - 1], GroupBy(args, S))
<1>1. n \in Nat /\ L \in 1 .. n /\ L \in S /\ Answered(args, S \ {L}) /\ DOMAIN args = 1 .. n
      /\ args \in Seq(Arg)
  BY LenProperties DEF Extended, ParserInv, ParserTypeOK
<1>2. /\ opts = Stands(args, Heard(S, L), f[L - 1], GroupBy(args, S))
      /\ args[L] \in {"-e", "-g"}
  <2>1. state # "kNone"
    OBVIOUS
  <2>2. Says(S, L, f, n)
    BY <1>1, <2>1, ReadingSays
  <2> QED  BY <2>2 DEF Says
<1>3. args[L] \notin Singles
  BY <1>2, SinglesAre
<1>4. Heard(S, L) = S
  BY <1>3 DEF Heard
<1>5. Answered(args, S)
  BY <1>1, <1>3 DEF Answered
<1>6. \A grouping : Stands(more, S, f[L - 1], grouping) = Stands(args, S, f[L - 1], grouping)
  BY <1>1, <1>5, StandsOfLonger
<1> QED  BY <1>2, <1>3, <1>4, <1>6

(* A tag, and the value that a song is to have for it.                     *)
LEMMA PatternIsUnderstood ==
    ASSUME ParserInv, NEW S, NEW L, NEW f, Understood(S, L, f), NEW a \in Arg,
           NEW n, NEW more, n = Len(args), more = Append(args, a),
           Extended(S, L, f, a, n, more), args' = more, UNCHANGED opts,
           \/ /\ state \in {"kRule", "kRuleBegin"} /\ state' = "kRuleValue"
              /\ rule_tag' = TagNamed[a] /\ UNCHANGED pending_rule
           \/ /\ state = "kRuleValue" /\ state' = "kRule"
              /\ \E t \in rule_tag : pending_rule' = Append(pending_rule, [tag |-> t, value |-> a])
    PROVE  Understood(S, L, f)'
<1>1. /\ n \in Nat /\ L \in 1 .. n /\ L \in S /\ \A i \in S : i <= L /\ i \in Nat
      /\ Len(more) = n + 1 /\ more[n + 1] = a /\ more[L] = args[L]
      /\ Unique(more, S) /\ Collects(f, more, S, L - 1)
      /\ Own(args, S, L) = L + 1 .. n /\ Own(more, S, L) = L + 1 .. n + 1
      /\ ~ IsGrouping(args[L]) => GroupBy(more, S) = GroupBy(args, S)
  BY DEF Extended
<1>2. /\ args[L] = "-e"
      /\ state \in {"kRuleBegin", "kRule"} => \E q \in Nat : n = L + 2 * q
      /\ state = "kRuleValue" =>
            (\E q \in Nat : n = L + 2 * q + 1) /\ rule_tag = TagNamed[args[n]]
  <2>1. state # "kNone"
    OBVIOUS
  <2>2. Says(S, L, f, n)
    BY <1>1, <2>1, ReadingSays
  <2> QED  BY <2>2 DEF Says
<1>3. /\ opts = Stands(more, S, f[L - 1], GroupBy(more, S))
      /\ args[L] \notin Singles
  <2>1. state \in {"kRuleBegin", "kRule", "kRuleValue", "kGroupBegin", "kGroup"}
    OBVIOUS
  <2>2. /\ args[L] \notin Singles
        /\ opts = Stands(more, S, f[L - 1], GroupBy(args, S))
    BY <2>1, RuleOrGrouping
  <2>3. ~ IsGrouping(args[L])
    BY <1>2 DEF IsGrouping
  <2> QED  BY <1>1, <2>2, <2>3
<1>4. pending_rule = RuleAt(args, S, L)
  BY DEF Understood
<1>5. args \in Seq(Arg) /\ L \in 1 .. Len(args) /\ Own(args, S, L) = L + 1 .. Len(args)
      /\ Own(Append(args, a), S, L) = L + 1 .. Len(args) + 1
  BY <1>1 DEF ParserInv, ParserTypeOK
<1>6. Heard(S, L)' = S
  BY <1>1, <1>3 DEF Heard
<1>7. opts' = Stands(args', Heard(S, L)', f[L - 1], GroupBy(args', S))
  BY <1>3, <1>6
<1>8. CASE /\ state \in {"kRule", "kRuleBegin"} /\ state' = "kRuleValue"
           /\ rule_tag' = TagNamed[a] /\ UNCHANGED pending_rule
  <2>1. PICK q \in Nat : n = L + 2 * q
    BY <1>2, <1>8
  <2>2. RuleAt(more, S, L) = RuleAt(args, S, L)
    <3>1. Len(args) = L + 2 * q
      BY <2>1
    <3>2. RuleAt(Append(args, a), S, L) = RuleAt(args, S, L)
      BY <1>5, <3>1, RuleOfLonger, Zenon
    <3> QED  BY <3>2
  <2>3. AtLast(S, L)'
    <3>1. Len(more) = L + 2 * q + 1
      BY <1>1, <2>1
    <3>2. \E k \in Nat : Len(more) = L + 2 * k + 1
      BY <3>1
    <3>3. rule_tag' = TagNamed[more[Len(more)]]
      BY <1>1, <1>8
    <3> QED  BY <1>1, <1>2, <1>8, <3>2, <3>3 DEF AtLast
  <2> QED  BY <1>1, <1>4, <1>7, <1>8, <2>2, <2>3 DEF Understood
<1>9. CASE /\ state = "kRuleValue" /\ state' = "kRule"
           /\ \E t \in rule_tag : pending_rule' = Append(pending_rule, [tag |-> t, value |-> a])
  <2>1. PICK q \in Nat : n = L + 2 * q + 1
    BY <1>2, <1>9
  <2>2. PICK t \in rule_tag : pending_rule' = Append(pending_rule, [tag |-> t, value |-> a])
    BY <1>9
  <2>3. t = TagAt(args, n)
    <3>1. args[n] \in Arg
      BY <1>1, <1>5
    <3>2. AtMostOne(TagNamed[args[n]])
      BY <3>1, VocabularyAssumption
    <3>3. t \in TagNamed[args[n]]
      BY <1>2, <1>9
    <3>4. TagAt(args, n) \in TagNamed[args[n]]
      BY <3>3 DEF TagAt
    <3> QED  BY <3>2, <3>3, <3>4 DEF AtMostOne
  <2>4. RuleAt(more, S, L) = Append(RuleAt(args, S, L), [tag |-> TagAt(args, n), value |-> a])
    <3>1. Len(args) = L + 2 * q + 1
      BY <2>1
    <3>2. RuleAt(Append(args, a), S, L) =
            Append(RuleAt(args, S, L), [tag |-> TagAt(args, Len(args)), value |-> a])
      BY <1>5, <3>1, RuleOfLonger, Zenon
    <3> QED  BY <3>2
  <2>5. AtLast(S, L)'
    <3>1. Len(more) = L + 2 * q + 2
      BY <1>1, <2>1
    <3>2. \E k \in Nat : Len(more) = L + 2 * k + 2
      BY <3>1
    <3> QED  BY <1>1, <1>2, <1>9, <3>2 DEF AtLast
  <2>6. pending_rule' = RuleAt(args', S, L)
    BY <1>4, <2>2, <2>3, <2>4
  <2> QED  BY <1>1, <1>7, <1>9, <2>5, <2>6 DEF Understood
<1> QED  BY <1>8, <1>9

(* A tag to group by.                                                      *)
LEMMA GroupingIsUnderstood ==
    ASSUME ParserInv, NEW S, NEW L, NEW f, Understood(S, L, f), NEW a \in Arg,
           NEW n, NEW more, n = Len(args), more = Append(args, a),
           Extended(S, L, f, a, n, more), args' = more,
           state \in {"kGroup", "kGroupBegin"}, NEW t \in TagNamed[a],
           Goto("kGroup", [opts EXCEPT !.group_by = Append(@, t)])
    PROVE  Understood(S, L, f)'
<1>1. /\ n \in Nat /\ L \in 1 .. n /\ L \in S /\ \A i \in S : i <= L /\ i \in Nat
      /\ Len(more) = n + 1 /\ more[n + 1] = a /\ more[L] = args[L]
      /\ Unique(more, S) /\ Collects(f, more, S, L - 1)
      /\ Own(args, S, L) = L + 1 .. n /\ Own(more, S, L) = L + 1 .. n + 1
  BY DEF Extended
<1>2. args[L] = "-g"
  <2>1. state # "kNone"
    OBVIOUS
  <2>2. Says(S, L, f, n)
    BY <1>1, <2>1, ReadingSays
  <2> QED  BY <2>2 DEF Says
<1>3. /\ opts = Stands(more, S, f[L - 1], GroupBy(args, S))
      /\ args[L] \notin Singles
  <2>1. state \in {"kRuleBegin", "kRule", "kRuleValue", "kGroupBegin", "kGroup"}
    OBVIOUS
  <2> QED  BY <2>1, RuleOrGrouping
<1>4. Heard(S, L)' = S
  BY <1>1, <1>3 DEF Heard
<1>5. GroupBy(more, S) = Append(GroupBy(args, S), t)
  <2>1. L \in Groupings(args, S) /\ L \in Groupings(more, S)
    BY <1>1, <1>2 DEF Groupings, Named
  <2>2. OneGrouping(args, S) /\ OneGrouping(more, S)
    BY <1>1 DEF Understood, Unique, Partial
  <2>3. GroupBy(args, S) = GroupingAt(args, S, L) /\ GroupBy(more, S) = GroupingAt(more, S, L)
    BY <2>1, <2>2, GroupByIs
  <2>4. t = TagAt(more, n + 1)
    <3>1. AtMostOne(TagNamed[a])
      BY VocabularyAssumption
    <3>2. TagAt(more, n + 1) \in TagNamed[a]
      BY <1>1 DEF TagAt
    <3> QED  BY <3>1, <3>2 DEF AtMostOne
  <2>5. GroupingAt(more, S, L) = Append(GroupingAt(args, S, L), TagAt(more, n + 1))
    <3>1. /\ args \in Seq(Arg) /\ L \in 1 .. Len(args)
          /\ Own(args, S, L) = L + 1 .. Len(args)
          /\ Own(Append(args, a), S, L) = L + 1 .. Len(args) + 1
      BY <1>1 DEF ParserInv, ParserTypeOK
    <3>2. GroupingAt(Append(args, a), S, L) =
            Append(GroupingAt(args, S, L), TagAt(Append(args, a), Len(args) + 1))
      BY <1>2, <3>1, GroupingOfLonger, Zenon
    <3> QED  BY <3>2
  <2> QED  BY <2>3, <2>4, <2>5
<1>6. state' = "kGroup" /\ opts' = [opts EXCEPT !.group_by = Append(@, t)]
  BY DEF Goto
<1>7. opts' = Stands(more, S, f[L - 1], GroupBy(more, S))
  <2>1. opts.group_by = GroupBy(args, S)
    BY <1>3 DEF Stands
  <2>2. opts' = [opts EXCEPT !.group_by = GroupBy(more, S)]
    BY <1>5, <1>6, <2>1
  <2> QED  BY <1>3, <2>2 DEF Stands
<1>8. AtLast(S, L)'
  BY <1>1, <1>2, <1>6 DEF AtLast
<1> QED  BY <1>1, <1>4, <1>6, <1>7, <1>8 DEF Understood

-----------------------------------------------------------------------------
(* Every step                                                              *)

(* An argument of the last option.                                         *)
LEMMA ValueKeepsMeaning ==
    ASSUME ParserInv, MeaningInv, ~ InFinalState, NEW a \in Arg, a # "-h",
           ~ (InGenericState /\ IsOption(a)), ~ NotUnderstood(a),
           args' = Append(args, a), ConsumeValue(a)
    PROVE  MeaningInv'
<1>1. state # "kNone"
  BY DEF NotUnderstood
<1>2. PICK S, L, f : Understood(S, L, f)
  BY <1>1 DEF MeaningInv
<1>3. PICK n, more : n = Len(args) /\ more = Append(args, a)
  OBVIOUS
<1>4. Extended(S, L, f, a, n, more)
  BY <1>2, <1>3, ValueExtends, Zenon
<1>5. Understood(S, L, f)' /\ state' \notin {"kFinal", "kError"}
  <2>1. CASE /\ state \in Range(Awaits) \ {"kRuleBegin"}
             /\ \E o \in OptionsWith(a) : Goto("kNone", o)
    <3>1. PICK o \in OptionsWith(a) : Goto("kNone", o)
      BY <2>1
    <3>2. Understood(S, L, f)'
      BY <1>2, <1>3, <1>4, <2>1, <3>1, SingleIsUnderstood
    <3>3. state' = "kNone"
      BY <3>1 DEF Goto
    <3> QED  BY <3>2, <3>3
  <2>2. CASE /\ state \in {"kRule", "kRuleBegin"}
             /\ TagNamed[a] # {}
             /\ rule_tag' = TagNamed[a]
             /\ state' = "kRuleValue"
             /\ UNCHANGED <<opts, pending_rule, err>>
    <3>1. Understood(S, L, f)'
      BY <1>2, <1>3, <1>4, <2>2, PatternIsUnderstood
    <3> QED  BY <2>2, <3>1
  <2>3. CASE /\ state = "kRuleValue"
             /\ \E t \in rule_tag :
                   pending_rule' = Append(pending_rule, [tag |-> t, value |-> a])
             /\ state' = "kRule"
             /\ UNCHANGED <<opts, rule_tag, err>>
    <3>1. Understood(S, L, f)'
      BY <1>2, <1>3, <1>4, <2>3, PatternIsUnderstood
    <3> QED  BY <2>3, <3>1
  <2>4. CASE /\ state \in {"kGroup", "kGroupBegin"}
             /\ \E t \in TagNamed[a] :
                   Goto("kGroup", [opts EXCEPT !.group_by = Append(@, t)])
    <3>1. PICK t \in TagNamed[a] : Goto("kGroup", [opts EXCEPT !.group_by = Append(@, t)])
      BY <2>4
    <3>2. Understood(S, L, f)'
      BY <1>2, <1>3, <1>4, <2>4, <3>1, GroupingIsUnderstood
    <3>3. state' = "kGroup"
      BY <3>1 DEF Goto
    <3> QED  BY <3>2, <3>3
  <2> QED  BY <2>1, <2>2, <2>3, <2>4 DEF ConsumeValue
<1> QED  BY <1>5 DEF MeaningInv, OptionsMeanTheArguments

(* Before the first argument there is nothing to understand.               *)
LEMMA MeaningStart == ParserInit => MeaningInv
BY DEF ParserInit, MeaningInv, OptionsMeanTheArguments

(* Every step keeps what was understood.                                   *)
LEMMA MeaningStep == ParserInv /\ MeaningInv /\ [ParserNext]_parserVars => MeaningInv'
<1> SUFFICES ASSUME ParserInv, MeaningInv, [ParserNext]_parserVars
             PROVE  MeaningInv'
  OBVIOUS
<1>1. CASE Finish
  BY <1>1, FinishKeepsMeaning
<1>2. ASSUME NEW a \in Arg, Consume(a)  PROVE MeaningInv'
  <2>1. ~ InFinalState /\ args' = Append(args, a)
    BY <1>2 DEF Consume
  <2>2. CASE a = "-h"
    <3>1. state' = "kError"
      BY <1>2, <2>2 DEF Consume, Fail
    <3> QED  BY <2>1, <2>2, <3>1, NotUnderstoodKeepsMeaning
  <2>3. CASE a # "-h" /\ InGenericState /\ IsOption(a)
    <3>1. ConsumeOption(a)
      BY <1>2, <2>3 DEF Consume
    <3> QED  BY <2>1, <2>3, <3>1, OptionKeepsMeaning
  <2>4. CASE a # "-h" /\ ~ (InGenericState /\ IsOption(a)) /\ NotUnderstood(a)
    <3>1. state' = "kError"
      BY <1>2, <2>4 DEF Consume, Fail
    <3> QED  BY <2>1, <2>4, <3>1, NotUnderstoodKeepsMeaning
  <2>5. CASE a # "-h" /\ ~ (InGenericState /\ IsOption(a)) /\ ~ NotUnderstood(a)
    <3>1. ConsumeValue(a)
      BY <1>2, <2>5 DEF Consume
    <3> QED  BY <2>1, <2>5, <3>1, ValueKeepsMeaning
  <2> QED  BY <2>2, <2>3, <2>4, <2>5
<1>3. CASE UNCHANGED parserVars
  <2>1. /\ opts' = opts /\ state' = state /\ pending_rule' = pending_rule
        /\ rule_tag' = rule_tag /\ args' = args
    BY <1>3 DEF parserVars
  <2>2. \A S, L, f : Understood(S, L, f) => Understood(S, L, f)'
    <3>1. \A S, L : AtLast(S, L) => AtLast(S, L)'
      BY <2>1 DEF AtLast
    <3>2. \A S, L : Heard(S, L)' = Heard(S, L)
      BY <2>1 DEF Heard
    <3> QED  BY <2>1, <3>1, <3>2 DEF Understood
  <2>3. OptionsMeanTheArguments' /\ (InFinalState => InFinalState')
    BY <2>1 DEF MeaningInv, OptionsMeanTheArguments, InFinalState
  <2> QED  BY <2>1, <2>2, <2>3 DEF MeaningInv
<1> QED  BY <1>1, <1>2, <1>3 DEF ParserNext

(***************************************************************************)
(* The options are what the command line means, read as a whole, and an    *)
(* error is reported exactly when it cannot be read, whatever the          *)
(* arguments convert to and however many they are (args.cc, Consume and    *)
(* Finish): no argument of one option is taken for another option, and no  *)
(* rule is lost, flushed twice or given a pattern of another.              *)
(***************************************************************************)
THEOREM MeaningCorrect == ParserSpec => []OptionsMeanTheArguments
<1>1. MeaningInv => OptionsMeanTheArguments
  BY DEF MeaningInv
<1> QED  BY <1>1, ParserStart, ParserStep, MeaningStart, MeaningStep, PTL DEF ParserSpec

=============================================================================
