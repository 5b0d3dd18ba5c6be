# ashuffle in TLA+

Specifications of [ashuffle](../src/readme.md), a client of the Music Player
Daemon (MPD) that keeps the daemon's play queue filled with randomly picked
songs. The modules model it from the command line to the end of the process: the
parser, the loaders and their rules, the shuffle chain, the loop that feeds the
queue, the connection workflow and main, against an MPD server whose other
clients, music library and connections do as they please.
Paths below are relative to the repository.

## 1. The system

| Component | State | Operations | Talks to |
|---|---|---|---|
| Shuffle chain (`src/shuffle.cc`, `shuffle.h`) | `_items`, `_window`, `_pool`, `_max_window` | `Add`, `Clear`, `Pick` (with `FillWindow`), `Len`, `LenURIs`, `Items` | called by the loaders, by `Loop` and by `main` |
| Loop (`src/ashuffle.cc`: `TryFirst`, `TryEnqueue`, `Loop`) | `active`; between two calls the status that was read, the group being added, `needed` | react to idle events: exit, reload, suspend, enqueue | MPD: `status`, `add`, `play`, `pause`, `idle`; a loader; the chain |
| Connect (`src/ashuffle.cc`: `Connect`, `PromptPassword`) | the connection, a typed password | dial, apply passwords, check the permitted commands | MPD; the terminal through a callback of `main` |
| Main (`src/main.cc`) | options, chain, `disable_reconnect`, `disconnect_begin` | start, load, `--only`, run `Loop`, reconnect, give up | all of the above |
| MPD client bindings (`src/mpd_client.cc`, `mpd.h`) | one libmpdclient connection, with a sticky error | one method per command, `SongReader` | MPD |
| Loaders (`src/load.cc`) | the URIs of `--file` | `MPDLoader`, `FileMPDLoader`, `FileLoader` | MPD's song list; rules; the chain |
| Rules (`src/rule.cc`) | patterns | `AddPattern`, `Accepts` | the parser fills them, the loaders ask them |
| Parser (`src/args.cc`) | parser state, options, pending rule | `Consume`, `Finish` | `main` |
| GetPass (`src/getpass.cc`) | standard input | read a line, or exit at its end | shares its input with `--file -` |
| Logging, version | – | log I/O | – |

ashuffle is one process with one thread. It is concurrent all the same: MPD is
shared with other clients and with the passing of time. Between any two calls
songs end, users edit the queue and drive the player, the library is updated
and the connection breaks; and what a call did is not known when its answer is
lost. What is hard, and what the properties are for:

* **wakeups**: `Loop` sleeps in `idle` and is told of changes as one *set* of
  subsystems. Each change that needs a reaction has to be pending when the loop
  goes to sleep, or seen before. (`BlocksOnlyWhenFed`, `MusicResumes`,
  `ChainIsFresh`, `FileIsUndisturbed`, `ExitsOnUpdate`)
* **stale reads**: `TryEnqueue` computes how many songs to add and which
  position to play from a status that other clients outdate.
  (`PlaysItsOwnSong`, `NeverOverfills`)
* **suspend mode**: a client's "clear, then fill" is two steps that race with
  the handler's read, sleep, read. (`SuspensionEnds`, `SuspendedStaysSilent`)
* **lost connections**: in the middle of anything, with a retry that starts
  from the beginning and a chain that survives. (`MusicSurvives`,
  `NoSurplusAfterRetry`, `FailsOnlyForAReason`, `ReconnectsOrGivesUp`,
  `WindowIsUnique`, `StaysSuspended`)
* **several adds that are one**: groups are added song by song, and `--only` adds
  group after group; the connection may break between any two. (`OnlyAddsThatMany`)
* **permissions**: defaults, a supplied password and a typed one, each of which
  may be unknown or insufficient, and a second call of `Connect` that has nobody
  to ask. (`ConnectedMeansPermitted`, `AsksOnlyWithoutPassword`, `AnswersOnce`,
  `PromptEnds`)
* **protocols over arguments**: a rule under construction, and which words are
  options in which state. (`OptionsMeanTheArguments`, `PendingRuleIsWhole`,
  `StartsReady`)
* **one pass over the library**: verification, tags that are left out of the
  listing when nobody needs them, groups that fill up in between others, and a
  listing that breaks off unnoticed. (`LoadsWhatWasAsked`, `NothingUnwanted`)
* **indices**: the chain moves bare indices between two deques, with a window
  that is one larger inside `Pick` than outside. (`NothingLostOrDuplicated`,
  `WindowBounded`, `KeepsPromise`)

`PROJECT.json` lists each hazard with its line and the properties that cover
it, or why none does.

## 2. The modules

```
   CooldownShuffle <-implements- ShuffleHistory --> ShuffleChain
                                                        ^
                          Loop: Chain == INSTANCE ------+
                           |
                  Main --> Loop --> MPDServer

   ConnectOutcome <-implements- Connect <--+
                    Options <-- Parser <---+-- Startup
                    Options <-- Load   <---+
```

(`-->`: EXTENDS.) `Startup` and `Main` are two views of the same `main`: the
first goes through parser, `Connect` and loaders in detail and ends where `Loop`
is entered or a reconnect has succeeded; the second takes each of them as one
step and follows the process for the rest of its life, against a server that
changes all the time. A module that is named `...Proofs` holds the theorems about
the module before that ending.

**ShuffleChain** has the code's `_items`, `_window` and `_pool`. The pool is a
deque in the code, but elements are drawn from it uniformly at random, so its
order cannot be observed and it is a set here; a draw is a choice among
`FilledWindows`. Indices start at 1 instead of 0. `AddAll` and `Refill` are the
repeated `Add` of a loader, without and after a `Clear`. `Pick` has no successor
on an empty chain: its assertion is the business of the caller.

**CooldownShuffle** is what a listener may rely on, without pool and window: an
item that was just picked comes back only after `min(window size, items - 1)`
picks of others. **ShuffleHistory** adds the history variable `cooldown` and
states that the chain implements it (`KeepsPromise`).

**MPDServer** is external: it stands for the server and for everybody else who
uses it, as far as ashuffle can tell. An entry of the queue is who added it.
The idle mechanism is modelled by `pending`, the subsystems that changed since
the last answer to `idle` on this connection, the client's own changes included.
A command and its effect are one atomic step.

**Loop** takes one action per call to MPD, together with what the code computes
until the next call, so that others can act between any two calls:

| Actions | Code |
|---|---|
| `FirstStatus`, `FirstAdd`, `FirstPlay` | `TryFirst` |
| `EnqueueStatus`, `EnqueueAdd`, `EnqueuePlay`, `EnqueuePause` | `TryEnqueue`; `ShouldAdd` and `Needed` are its arithmetic |
| `Idle` with `Reaction` | the wait and the branches on the event set |
| `Reload`, `ReloadBroken` | `Clear` and `Load`; when the listing breaks off, the part received is kept (`SongReader::Done`), or the process dies (`ListAll` failed) |
| `SuspendStatus`, `SuspendSleep`, `SuspendRecheck` | the suspend handler |
| `ConnectionLost`, `Refused`, `AnswerLost` | a call fails: the link is down; MPD refuses; MPD obeys, but the answer is lost. `Loop` returns |

`queue_buffer = 0` picks one group whatever its size, which is `Needed = 1`.
`ToInt` is the code's cast of `queue_buffer`, an unsigned, to an int: beyond
`MaxInt` the number of songs needed is negative, none is added, and the play
command that follows is refused. At 2^31 - 1 itself, `needed += 1` is undefined
behaviour, and `LoopAssumption` leaves that one value out.
What a listing of the library loads to, after rules and grouping, is the
constant function `Loaded`.

**Main** adds the process around it: `StartConnect`, `StartLoad` (from the
library, or a file that is or is not checked against it), `QueuePick`,
`QueueAdd`, `QueueAddFails` for `--only`, and `LoopReturned`, `Reconnected`,
`ReconnectFails`, `ReconnectRefused`, `ReconnectLoad`, `GiveUp` for the
reconnect loop. The clock is `waited`: each failed attempt takes at least one
wait of 250ms and possibly all the time there is. `OnlyAddsThatMany` compares
the queue with `count`, the groups `--only` has taken, and `number_of_songs`, the
songs in them: no other song is ever added, and who reports success has taken n
groups and added all of their songs, unless consume mode or another client has
removed some by then. `NoSurplusAfterRetry` holds `NeverOverfills` against every
sequence of lost connections, as long as ashuffle is `Alone` at the queue: songs
of other clients count as ahead of the player too, and an update changes the size
of groups. It bounds what is ahead of the player; songs that an interrupted
`TryFirst` has added stay in the queue, before the song the next one starts.
`FailsOnlyForAReason` is about the other end of the reconnect loop: a Loop that
fails at once, every time, makes `main` reconnect for ever. While no other client
has touched the queue, Loop fails only because the connection is gone, the queue
full, a song not in the library, or the buffer no `int`;
otherwise the player is never told to play what is not there.

**Connect** models the password workflow in detail, with a connection that
may break at any call and stays broken, and a user who may not answer (`NoAnswer`:
at the end of its input, GetPass exits). Main takes it as one step.
**ConnectOutcome** is what the header promises to callers and what is asked of
them: one answer per call, a prompt only if there is somebody to ask, and no
second call once somebody was asked.

**Options** holds what the parser produces: defaults, rules, tweaks.
**Parser** is `Consume` and `Finish`: one action per argument. `ConsumeOption`,
`ConsumeValue` and `NotUnderstood` are the three ways `ConsumeInternal` can go,
`Goto` is what `Consume` does around it (a rule under construction is flushed
on the way out of its state), `Fail` an error. Of several spellings of an option
one is kept. Words are an abstract set; what a word converts to (a number, a tag,
a tweak, the rules of a YAML file) is given by constant functions, before any
check of a range, which the parser does itself (`TweakIsValid`, `Unsigned`).
`OptionsMeanTheArguments` compares the outcome with a reading of the whole
command line at once: a set of places where options stand, such that each has the
arguments it takes up to the next (`IsClause`), and `Meaning` says what such a
reading comes to. `VocabularyAssumption` has what the code's tables make so: a word
names one tag and converts to one value, and no option has the name of a tag.

**Load** has the three loaders, rules and grouping, song by song: `ListAll`,
`ReceiveSong`, `ListingEnds`. `ListingEnds` is enabled at any time, since to the
loader a broken connection looks like the end. A pattern's substring test is the
constant relation `Matching`; only the first value of a tag is looked at
(`TagOf`). `LoadsWhatWasAsked` compares the chain with a definition over the
library as a whole (`HoldsTheWanted`), and asks that the loader read the `file`
to its last line. `lines` is what the loader finds of it: of standard input, what
password prompts have left. That groups differ rests on `ListedOnce`: MPD's library has
one song of a URI.

**Startup** composes the three in the order of `main`: `Parse`, `Misparsed`,
`Unsupported` (groups of a list that is not checked), `Configured`, then `Calling`, `Answers` or `PromptTakesLine` (the prompt and
`--file -` read the same input), `Connected`, `Loading`, `Loaded`, and after Loop
has failed, `Reconnect`.

**MCShuffle**, **MCLoop**, **MCMain**, **MCConnect** and **MCStartup** only give
the constants their values.

Definitions marked `Mutant:` are plausible wrong versions of the definition that
follows them. They are part of no specification; substituting one for the
original makes the property it belongs to fail (`PROJECT.json`, "mutants").

## 3. Runs

Runs that pass:

| Run | Question | Instance |
|---|---|---|
| `shuffle_chain` | Does any sequence of `Add`, `Clear`, `Pick` lose, duplicate or pick too early? | window 2, up to 5 items of 2 values |
| `loop_alone` | Does the loop keep the player fed, never overfill the queue and start only what it added? | all playback modes, buffer 0–2 and one beyond the range of `int`, a group of 2, one break |
| `loop_clients` | The same, while a user edits the queue, with and without suspend mode; does a suspended loop keep its hands off until it resumes? | two user moves, one break, queue of 4 |
| `loop_library` | Does the chain always catch up with the library? With `--file`, are updates harmless? Do they end ashuffle if wanted? | a user move, two updates, a break; groups, and a library that loads to nothing |
| `reconnect` | Does ashuffle reconnect or give up, does Loop fail without need, does the music come back, and do repeated commands pile up songs ahead of the player? | a user move, two breaks, two waits, buffer 0–1, a group of 2, a queue of 6 that fills up |
| `start` | Does `--only n` add its n groups whole and no more, or fail? | n = 2, groups of 2, an update, a break, with and without consume mode; also the loop after a start from the library |
| `startup` | Do the options mean what the arguments say? Does whoever gets a connection have the permissions, and does Connect, called again by main, implement its promise? Does the chain hold what was asked for? | all command lines of up to three of 30 words, and of up to 5 to 7 of the words that make rules, groups and files; four songs; three passwords: sufficient, insufficient, unknown |

Runs that show a disagreement between the code and what its documentation or
comments say ("findings" in `PROJECT.json` quotes both):

| Run | What happens |
|---|---|
| `lost_event` | The last song ends while the library is updated. `idle` reports both; the `else if` at `ashuffle.cc:241` drops the player event and silence follows. |
| `empty_chain` | An update leaves no acceptable song; the next `Pick` fails its assertion. |
| `prompt` | The connection breaks at the password prompt; it asks for ever. |
| `duplicates` | After a reconnect the chain holds each song twice; so may the window. |
| `forgotten` | With suspend mode, a reconnect ends the suspension. |

More disagreements are known from the models but have no run of their own;
"hazards" notes them. A song another client adds between `status` and `add` is
played in place of ashuffle's own (`ashuffle.cc:133`; without other clients,
`PlaysItsOwnSong` holds). A queue that is cleared and refilled before the suspend
handler looks does not suspend ashuffle (`ashuffle.cc:250`). With
`play-on-startup=no`, music that ended while disconnected does not resume
(`ashuffle.cc:204`; otherwise `MusicSurvives` holds). A `queue_buffer` beyond the
range of `int` makes Loop fail at once, for ever (`ashuffle.cc:102`). `rule.h:27`
says a song is accepted only if no pattern matches; the code, and the readme,
exclude it only if all of a rule's patterns do. With `--file -`, each password
prompt takes a line of the song list (`getpass.cc:59`); for this reason
`LoadsWhatWasAsked` asks for every line of a file, but not of standard input.
The readme (`readme.md:47`) and the help text (`args.cc:54`) say that `--only n`
adds n songs; with `--group-by` it adds n groups, and says so itself when it is
done (`main.cc:161`). The readme asks for timeouts of more than zero
(`readme.md:158`); the parser accepts zero (`args.cc:241`), and so does
`StartsReady`. The reconnect timeout starts anew after every connection
(`main.cc:197`), so a Loop that fails at once makes ashuffle reconnect without
end: at a full queue, with an unchecked file of songs the library has not got, or
with the buffer just mentioned. `FailsOnlyForAReason` says that there is no other
such cause while the connection is up.

### Bounds

| Bound | Why it is enough |
|---|---|
| `MaxItems` | Five items are more than two windows of 2, so that fill, overflow and wrap-around happen. In Main it caps the growth of the chain over reconnects, and disables `ReconnectLoad` beyond it; no liveness property is checked where that can happen. |
| `MaxWindow` | 1 in the loop's runs, where the order of picks is not the subject; 2 where it is |
| `MaxQueue` | 4 to 6, at least two more than buffer and group ask for. It is also MPD's limit on the queue, so a full queue is refused as by the server. |
| `Moves` | One or two moves of the user, of the library and of the connection. The passing of songs is not bounded. |
| songs | one song in a group or two; one that no rule accepts. In `startup` four songs that have a tag, have it twice, or lack it |
| `Tried` | The command lines parsed. Every pair of state and argument occurs within three arguments; the longer ones hold two rules of several patterns, a rule or group before each kind of option, and groups of several tags. |
| `MaxInt` | the largest `int`: 7 in the loop's runs and 10 in `startup`, with an option beyond it in `loop_alone` |
| `ReconnectTimeout` | two waits: none, one and too many failed attempts |

Deadlock is not checked where the system may stop: processes exit, a queue stays
full, and an idle loop waits for events that bounded users no longer cause.

### Fairness

`Loop` and `Main` assume weak fairness of the process's own steps only: one
thread that is scheduled as long as it can go on. Nothing is assumed of the
server, its users, the player or the link. Properties of progress therefore
speak of what the process owes once something is wrong (nothing is current),
and allow for its documented ends. Suspension may end only if the queue stays
empty. `Connect`'s `PatientSpec` also has a user who, asked over and over, at
some time types a password that the server knows.

## 4. Proofs

Each component's proofs are in a module of their own. A theorem holds for every
value of the constants that the assumptions, named in the modules that declare
the constants, allow; TLC evaluates them on the instances of the runs.

* **`ChainProofs`, `ShuffleProofs`** (`WindowAssumption`, `MaxItemsAssumption`).
  `ChainWhole`, that window and pool share out all indices and the window has
  none twice, is kept by `Clear`, `AddAll` and `Pick`. That the window is not
  empty when its head is taken needs the count of `FillWindowLemma`: filling ends
  with `MaxWindow + 1` items or with all of them. `ChainCorrect` and
  `WindowStaysBounded` follow. `LineIsKept` adds `WaitsInLine`: an item at place j
  of the window is due in at most j - 1 picks; `HistoryTypes` says that chain and
  history stay in step. `ChainKeepsPromise` is the
  refinement of `CooldownShuffle`: `WaitsInLine` at place 1 says that what `Pick`
  returns has cooldown 0.
* **`ConnectProofs`** (`PasswordAssumption`, `NoPasswordAssumption`).
  `ConnectInv` adds `Prompting` to the invariants of the run: while a password is
  asked for and tried, none was supplied. `ConnectCorrect` follows, and
  `ConnectAnswersOnce`, the refinement of `ConnectOutcome`.
* **`ParserProofs`**. `ParserCorrect`: `ParserInv` (types, `PendingRuleIsWhole`,
  and that the options parsed so far can be used) is kept by every argument and
  by the end of the arguments. `MeaningCorrect`: the options are what the command
  line means, and an error is reported only if it means nothing. The automaton
  reads one argument at a time and never goes back, while a reading is of the
  whole line, so the invariant (`MeaningInv`) is about beginnings of a line. A
  beginning is divided like a whole line but for its last option, which may still
  lack arguments (`Partial`); it is divided in at most one way (`Unique`), because
  a further word either is an option, which only a complete clause allows, or
  belongs to the last one (`LastWord`, from which `OptionIsUnique`,
  `ArgumentIsUnique` and `NoReading`). `AtLast` says which beginnings the states
  stand for; so `NotUnderstood` is exactly that the line with this word is no
  beginning (`Understanding`). `Understood` adds what the options read so far come
  to: those with all their arguments are in the options (`Stands`), the rules
  before the last option in a function `f` by place (`Collects`), the rule under
  construction in `pending_rule`. `Ruleset`, a recursive function, is the last
  value of any such `f` (`RulesetIs`, by well-foundedness). Each action has its
  lemma, from `OptionIsUnderstood` to `GroupingIsUnderstood`; an option at the end
  of an unfinished clause, a second grouping and `-h` leave no reading.
* **`LoadProofs`**. `LoadInv` is kept by every step of every kind of loader
  (`LoadStep`). Beyond types and `NothingUnwanted` it says that no group is empty
  and that what is still to be received, or was read from the file, is part of
  the listing, or of the file. `AskedInv` (`AskedStep`) says of every prefix of
  the listing what `LoadsWhatWasAsked` says of a loaded chain: the items, or the
  groups by their keys, are what is `Selected` of it. What `Selected` comes to
  for one more element (`SelectedOfAppended`), and what it contains
  (`SelectedHas`), is proved by induction. The library's induction theorems
  take an operator; here the formula is a set instead (`SetInduction`,
  `AppendInduction`), which well-foundedness of the numbers gives without one.
  At the end every group has a first song, and with `ListedOnce` that song has
  one key, so that the groups differ (`GroupsDiffer`), and an order of all keys
  has them all (`OrderHasAll`).
* **`StartupProofs`**. `StartupInv` joins `ParserInv`, `ConnectInv` and `LoadInv`
  with what `main` itself does in between. `StartupCorrect`, `PartsStayCorrect`
  and `OnlyWantedSongs` say that the parts keep their guarantees with a second
  call of `Connect` and a standard input that prompts and song list share.
  `LoadsAsked` carries `AskedInv` through the start: until the loader begins,
  prompts may take lines of standard input, and the loader is as it was
  constructed; no line of another file is gone (`MainInv`).
  `OptionsMeant` says of the process what `MeaningCorrect` says of the parser.
  `MainAnswersOnce` is the refinement of `ConnectOutcome` by the composition.
* **`LoopProofs`** (`MPDServer`'s and `Loop`'s assumptions). `TypeInv` is
  `LoopTypeOK` and `ChainWhole` of the chain in use. `FreshInv`: a chain that is
  not what the library loads to has a database event pending, or is about to be
  reloaded (`ChainStaysFresh`). `WakeInv`: an idle loop's queue is fed, or an
  event of the queue or the player is pending; it holds since a loop that has
  worked on an outdated status has added songs by then, and will be told of its
  own additions (`FileStaysUndisturbed`, `BlocksWhenFed`). `BlocksWhenFed` assumes
  that the library does not change, as in the runs that check the property: run
  `lost_event` shows why. `OwnInv`: on the way to playing a song, whatever has
  joined the queue since its status was read was added by ashuffle
  (`PlaysOwnSongs`, which assumes that no other client moves). `SilenceInv`: while
  it is suspended, the loop is at none of the calls that touch queue or player
  (`SuspendedKeepsOff`, with other clients that do as they please). `FillInv`: what is
  ahead, with what is still to be added, stays within what was asked for when the
  status was read, up to the rest of the last group (`NeverTooFarAhead`, which
  assumes that neither other clients nor the library move; the chain's groups
  would change with the library).
* **`MainProofs`** repeats the types, the wakeups, the undisturbed file and the
  silence of a suspended loop for the process that loses its connection and comes
  back. The new cases are the losses at every wait, a load on top of a chain that
  is in use, and a load that breaks off. The loop's own steps are `LoopProofs`'
  lemmas. `OnlyAddsSo`, by `OnlyInv`: while `--only` is at work,
  the queue holds every song of the groups it has taken but for the rest of the
  last (`todo`), which makes `number_of_songs` the count of its own songs, as long
  as the queue is `Kept`, and a bound of it always; that count is a cardinality
  that `add` makes one larger and nobody else makes larger. `FailsForReasons`, by
  `FailInv`: `OwnInv`, and that there is something at the position that is to be
  played (`ReachInv`), for a song has been added behind those that the status
  had counted; only with a buffer that is no `int` does Loop play without having
  added any.
  `NoSurplus`, by `SurplusInv`: `FillInv` does not survive a loss
  in `TryFirst`, which leaves songs in the queue that were not asked for; but then
  nothing plays, and the next `TryFirst` starts behind them, with the first of its
  songs. Only a loss in `TryEnqueue` leaves the player playing, with what is ahead
  within bounds. `Alone` is part of the state, not of the constants: the theorem
  is about the time before another client's first move, in an instance that has
  such moves.

Only model-checked is what must happen at last (`MusicResumes`, `SuspensionEnds`,
`ExitsOnUpdate`, `MusicSurvives`, `ReconnectsOrGivesUp`): liveness under fairness is
beyond the proof system. Every other property of a passing run
is a theorem.

## 5. Not modelled

* Randomness: which item is drawn is nondeterministic; that the distribution is
  uniform is not a property of behaviours.
* Conversions of words: the spellings of options, of numbers (beyond the range
  of `int`), of tags, the YAML of `--exclude-from`, the host's split at
  '@' (a function of the model values), and which address and port are dialed.
* Terminal echo, log and output, and the hidden `--test` options.
* Memory limits and a `queue_buffer` of exactly the largest `int`, where the
  addition of the current song overflows.
* `LenURIs` and `Items`, which only serve output, and the bindings that nothing
  in the program calls.
* MPD's repeat, random and crossfade modes; songs removed from the queue one at
  a time; several partitions.
* `Loop` and `Main` see a loader as the function `Loaded` of the library;
  `Startup` has its steps.

## 6. What is left

1. *MPD client bindings*: the sticky error of a connection and `SongReader`'s
   caching, refined by the links of `MPDServer` and the listing of `Load`.
2. *Suspend mode*: a history of what other clients did to the queue, to state
   the documentation of `suspend-timeout` over it.
3. *Composition*: `Startup` ends where `Main` begins; a module with both would
   replace `Main`'s choice of options and loaded chains.
