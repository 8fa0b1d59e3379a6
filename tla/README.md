# Verification of bot-camomila

bot-camomila is a WhatsApp bot that answers in configured groups when a message
comes close to a configured keyword, or mentions the bot. It promises to be
quiet when told to (kill switch, quiet hours), to repeat itself rarely
(cooldowns, rate caps), to follow its configuration file without a restart, and
to keep running. The modules here state those promises in TLA+, check them with
TLC on small instances, and prove the central ones with TLAPS for all values of
the constants. Every definition is translated from the code under `src/`;
`PROJECT.json` lists the lines each stands for.

## 1. Inventory of the system

| Part (code) | State it keeps | Operations | Interacts with |
|---|---|---|---|
| Cooldown tracker (`internal/cooldown`) | `perMatcher`, `perUser`: last fires | `Allow`, `Record`, `reap` every 5 min | called by the pipeline; the reaper goroutine shares both maps |
| Rate limiter (`internal/pipeline`, `RateLimiter`) | `minuteLog`, `hourLog` | `Allow`, `Record` | called by the pipeline |
| Quiet hours (`internal/quiethours`) | none | `IsActive` | called by the pipeline |
| Kill switch, owner commands (`internal/killswitch`, `internal/ownercommands`) | `paused` | `Pause`, `Resume`, `IsPaused`, `Handle` | flipped and read by the pipeline |
| Matcher (`internal/matcher`) | none | `Normalize`, `Tokenize`, `Match` | called by the pipeline |
| Pipeline actor (`internal/pipeline`) | where it is in a message | `Run`, `handleCommand`, `Handle` | reads `inCh` and the store, asks the adapter about admins, writes `outCh` |
| Adapter, messages (`internal/whatsappadapter/inbound.go`) | `pending` | `onEvent`, `handleMessage`, `ReplyLoop`, `prunePending`, `sendThreadedReply` | whatsmeow's events in, `inCh`, `outCh`, `SendMessage` out |
| Adapter, session (`client.go`) | client, database, `botJID`, `botLID`, `cancel` | `Start`, `Disconnect`, `IsGroupAdmin` | whatsmeow, SQLite, `app.Run` |
| Configuration (`internal/config`) | the snapshot in `Store`; the watcher's `lastMtime` and debounce timer | `Load`, `validate`, `Swap`, `Get`, `Watcher.Run`, `pollOnly`, `reload` | the file, the log level, every reader of the store |
| Composition root (`internal/app`, `cmd/bot`) | the context, the two channels | `Run` | starts and stops all of it |

Goroutines: whatsmeow's event dispatch, the pipeline actor, the reaper,
`ReplyLoop`, one sender per reply, the watcher with its debounce timers, and
`main`, which waits for the signal and then disconnects.

What is hard here:

- `sync.Map`s shared without a lock around more than one operation (tracker
  against reaper, `pending` against handler, pruner and senders);
- decisions made of many gates while the clock moves and the configuration is
  swapped; `Allow` and `Record` as separate calls;
- channels of capacity 64 whose sends ignore the context;
- replies that sleep in goroutines of their own after everything was decided;
- boundaries: windows across midnight, entries exactly as old as a window,
  empty clusters, caps of zero;
- messages that arrive late, twice, or from the bot itself.

What makes each part correct: a granted `Allow` respects both cooldowns and the
reaper forgets only what is old (tracker); no window holds more fires than its
cap and no refusal is needless (limiter); silence from start to end of the
window (quiet hours); only the authorized move the switch and it bars answers
(commands); one snapshot per decision, no talking to itself, exactly the answers
are counted, nothing wedges the actor (pipeline); replies threaded under their
message, originals kept while needed and dropped afterwards (adapter); the store
ends up with the last valid file (watcher); a stop signal ends the process and
nothing else does (life cycle). The hazards, each at its line, are in
`PROJECT.json`.

## 2. Plan

1. `Cooldown`, `RateLimiter`, `QuietHours`: the gates with state or arithmetic of
   their own, and their proofs (`CooldownProofs`, `RateLimiterProofs`,
   `QuietDay`). *Done.*
2. `Pipeline`: the actor, composing the gates with commands, reloads, the reaper
   and the channels. *Done.*
3. `Adapter`: from event to pipeline and from reply to wire, with restarts.
   *Done*, and proved about in `AdapterProofs`.
4. `PipelineProofs`: types, `PauseBarrier`, `SwitchAsAcknowledged` and
   `OnlyAuthorizedToggle` for any messages, snapshots and capacities; that every
   step of `Pipeline` is a step of `Cooldown` and of `RateLimiter` or leaves their
   variables alone, so that what is proved of those two holds in it.
   `DecisionProofs`: `NeverAnswersItself`, `OneConfiguration`, `CountedOnce`,
   `AnswersSpaced` and `AnswersCapped`. *Done.*
5. `ConfigRules` and `MatcherRules`: what `Load` accepts and makes of a file, and
   what the matcher finds in a text. *Done*, and proved about in `LifecycleProofs`,
   where a process loads the one and runs the other.
6. `ConfigWatcher`: events, debounce, the two polls, concurrent reloads and the
   log level. *Done*, and proved about in `WatcherProofs`.
7. `Lifecycle`: one process after another, from the load of the configuration to
   the exit, with pairing, session events and the blocked handler. *Done*, and
   proved about in `LifecycleProofs`.
8. Next: what is left to TLC is liveness; a theorem that `Pipeline`'s snapshots are
   what `ConfigRules` makes of a file would tie the two halves of the project
   together, where an assumption does it now.

Abstract specifications worth having: `QuietDay` is one for quiet hours (the
boundaries as events); `Cooldown` and `RateLimiter` are the ones `Pipeline`
implements (`TrackerSteps`, `LimiterSteps`). For the watcher it is two properties:
a store that is always some valid version of the file (`HoldsAVersion`), and never
an older one than before (`OnlyForward`).

## 3. The modules

**Cooldown.** `fired` holds both maps (their keys are disjoint: a matcher key has
`Everyone` for the sender). `call` is the pipeline between `Allow` and `Record`:
`BeginAllow` reads the clock and the matcher's entry, `AllowUser`/`DenyUser` the
sender's with the same reading, `Forgo` is a later gate dropping the message,
`RecordMatcher` and `RecordUser` are the two stores of `Record`. `reaper` is a
round of `reap`: `ReapVisit` loads an entry and compares its age, `ReapDelete`
deletes the key in a later step, as in the code. `recorded` and `raced` are
history: the last `Record` of each key, and the keys that were stored between the
reaper's comparison and its deletion.

**RateLimiter.** The mutex makes `Allow` (`Grant`, `Refuse`) and `Record` atomic.
Both prune with the clock of the call; the caps come with each call. `grant`
remembers the caps of a permission until `Record`; `fires` is the history of all
of them.

**QuietHours, QuietDay.** `IsActive` on times of day. `Unset` stands for every
reason the code has to find no window (no zone, an empty bound, a bound not of
the form "15:04"). `QuietDay` tells the same as events round the clock.

**Pipeline.** `pc` and `job` follow `Run` through a message: `Receive` (scope gate,
command or not, own messages), `HandleCommand` with any verdict the admin lookup
may give, `Screen` (kill switch, quiet hours, match: nothing else can move
between them), `CheckMatcher`, `CheckUser`, `CheckRate`, `Pick` or `Panic`,
`RecordUser`, `RecordRate`, `Send`, and `Return`. The tracker's and the limiter's
actions are used through `INSTANCE`, on the variables and the clock of this
module; `TrackerSteps` and `LimiterSteps` say that the composition implements the
two specifications under that mapping, so `Record` only ever follows a granted
`Allow` for the same matcher, sender and caps. Around the actor: `Deliver`, `Reload`, `Take`, `StopReplyLoop`, `Cancel`,
`Reap`, `Tick`. A message is a record of what the gates look at: group, sender,
whether it is the account's own, command or plain, the keywords its body and its
quotation come close to, whether it mentions the bot, whether it quotes the bot.
`delivered`, `outbox` and `answered` (the replies of `outbox` that are no
acknowledgements) are histories, and `job` remembers when it was screened,
when it fired, and which snapshots were in force meanwhile.

**Adapter.** `Arrive` filters by the start time and stores the original, `Forward`
puts the message on `inCh`. `Take` starts a sender, `SweepBegin` and `SweepVisit`
are `prunePending` key by key in the same goroutine. `Lookup` is the end of the
sleep and `LoadAndDelete`, `Transmit` is `SendMessage` with either outcome. The
pipeline is reduced to any decision on any message (`Decide`). whatsmeow is
external: it calls the handler for one event at a time, any time after the
message was written, possibly more than once. `Restart` ends the process at any
step and starts the next one, which knows nothing of the last one's messages, its
replies or its switch. `startTime` lies inside a second and messages carry whole
seconds, so a message counts as older up to and including the second of the start.

**ConfigRules.** A file is a record of what the YAML says, `Unreadable`, or `None`.
`Accepts` is `validate` with all its checks, `Resolve` the snapshot it makes, and
`resolveCooldown` multiplies as integers from `-Half` to `Half - 1` do, keeping the
low bits of a product that does not fit. Keywords are sequences of characters, so
that lengths count runes as `utf8.RuneCountInString` does.

**MatcherRules.** `Normalize` composes (NFC) and lowers, `Tokenize` cuts at spaces and
trims punctuation (the tokens are a function from the places where a field starts,
so that their order is that of the text), `Match` goes through matchers, tokens and
keywords in the code's order. What is a space, a punctuation mark, a lower-case or composed letter,
and how far two words are apart, are constants.

**ConfigWatcher.** `mode` is where `Run` is: about to watch (`boot`), watching
(`added`, `events`), between the failure of fsnotify and `pollOnly` (`broken`),
polling (`poll`) or `returned`. `HandleEvent` arms the debounce timer, `Fire` starts
its reload in a goroutine of its own, `Poll` starts one inside the loop. A reload is
three steps, `LoadFile`, `Swap` and `SetLevel`, and several may overlap. `Save` is
the environment: any file, any modification time, and an event that concerns the
file, one that is filtered, or none. `told`, `lost` and `overlapped` are histories
that say when the watcher has no way to know.

**Lifecycle.** `main` is the main goroutine, through `app.Run`, `Adapter.Start` and
`Disconnect`; every step of `Start` may fail (`StartFails`), and a cancelled context
makes the later ones fail. `handler` is `onEvent` with the one event whatsmeow gives
it at a time; `Disconnect` waits for it. `OnSessionEnd` cancels the context derived
in `Start` (`stopping`), which is not the one `main` waits for (`signal`).
`Inbound` is what `handleMessage` tells the pipeline with the identity known at that
moment. whatsmeow (`Pair`, `Drop`, `Reconnect`, `Receive`, `EndSession`), signals and
kills are the environment; between two processes somebody may change the file.

## 4. The runs

Runs that pass:

| Run | Instance | What it shows |
|---|---|---|
| `cooldown` | 1 matcher, 2 senders, cooldowns 1 to 3, expiry 2, clock to 6 | `CooldownHeld`, `ForgottenOnlyWhenExpired`, `ExpiredReaped` in every interleaving of tracker and reaper; the expiry lies between the cooldowns, so both excuses occur |
| `rate_windows` | windows 2 and 4, four pairs of caps, 5 fires, clock to 8 | `WindowCap`, `RefusedOnlyAtCap`; the clock passes two long windows, and caps of zero to three alternate |
| `quiet_day` | a day of 7 units, all windows | `ActiveFromStartToEnd`: normal, wrapping and empty windows |
| `commands` | 2 groups, 4 messages, 2 snapshots, 3 deliveries, capacity 1 | `PauseBarrier`, `SwitchAsAcknowledged`, `OnlyAuthorizedToggle`; `EveryMessageDecided`, `ReturnsOnceCancelled` |
| `decisions` | 2 groups, 5 messages, 2 snapshots, 2 deliveries, clock to 2 | `OneConfiguration`, `NeverAnswersItself` |
| `limits` | 1 matcher, 2 senders, 2 snapshots, 3 deliveries, clock to 3 | `CountedOnce`, `AnswersSpaced`, `AnswersCapped` with every gate refusing at times; `TrackerSteps`, `LimiterSteps` |
| `adapter` | a message and a command of one author, 2 events, 2 processes, lifetime 1, jitter 1 or 2, clock to 3 | `ThreadedToItsMessage`, `QuoteKept`, `DecidedByOneProcess`; `PendingDrained`, `EveryReplyAttempted` |
| `watcher` | 5 files (no level, two levels, a rejected one, none), 3 versions, 2 modification times, 2 timers | `HoldsAVersion`, `LevelAgrees`, `OnlyForward`; `FollowsFile` |
| `lifecycle` | 126 files or none, 2 processes, 3 kinds of message, 27 words, 44 texts, `inCh` of one | `DatabaseOutlivesClient`, `RecognisesItself`, `StopsWhenTold`; of each file `ReferencesResolved`, `CooldownsAsAsked`, `TyposTolerated`, `MatchesWords` |

Runs whose property the code violates; each is a finding in `PROJECT.json` with
the sentence it contradicts:

| Run | What happens |
|---|---|
| `cooldown_race` | a `Record` between the reaper's comparison and its `Delete` is lost, and the matcher may fire again at once |
| `panic` | an empty cluster passes `validate` and panics the actor |
| `logged_out` | `LoggedOut` cancels a context nobody waits for: the process stays up without a session |

Bounds. `MaxTime`, `MaxFires`, `MaxMessages` and `MaxArrivals` bound clocks and
histories for TLC only; the clocks are long enough for every cooldown, window
and expiry to pass at least once. Interactions between messages are pairwise (a
cooldown, a cap of one or two, a pause and an answer) or involve three (pause,
answer, resume), hence two to three deliveries. `Capacity` is 64 in the code; one
or two make channels fill up. In `limits` the senders are
interchangeable and TLC uses the symmetry; no liveness is checked there. `commands`
uses `RestingSpec`, in which the reaper rests, and a clock that stands still: what it
checks does not look at the tracker, and no entry could expire. `limits` restricts behaviours to `PromptSpec`: no message waits in a
channel, the bot is not shut down, and a configuration is loaded only between
messages. Its properties depend on none of these (a message is read only when it
is taken, and the actor uses the snapshot it took with it), and `decisions` and
`commands` check that on all behaviours. Deadlock is not checked where the
program may come to its end: after a panic, after a shutdown, or when the clock
and the histories are at their bounds.

In `watcher` three versions let a reload be overtaken by a save and that one by
another; two modification times let a save keep the time of the version before, as
a copy with its dates does; two timers beside the poll let two or three reloads
overlap. In `lifecycle` the second process is the one that meets a device paired by the
first. Its files differ from a plain one in one respect each: keywords of four, five,
eight and nine runes around the limits, some of them longer as written than
normalised, at distances zero to three; seconds that are missing, negative, the
largest that fit and the first that do not (integers have 6 bits and a second is 4
units); repeated, missing and dangling names; listeners that try several matchers in
either order. What holds of a file is looked at in the state right after it was
loaded. `Capacity` one wedges the handler as 64 do.

Fairness. `Cooldown`: the ticker keeps firing and the reaper runs (`WF(Reaper)`).
`Pipeline`: the actor, `ReplyLoop` while it has replies, and its return once the
context is cancelled; nothing is assumed of deliveries, reloads or the clock. With
the context cancelled, Go's select chooses at random among what is ready, so the
actor may take further messages; deliveries are finite, which stands for its
choosing `Return` in the end. `Adapter`: strong fairness for taking a reply and
for starting to prune, since the same random select serves both; weak fairness
for a sender, whose sleep and whose `SendMessage` (30 s timeout) end; and for the
clock. `ConfigWatcher`: the loop, its ticker, its timers and their reloads go on;
nothing is assumed of saves or of fsnotify. `Lifecycle`: the main goroutine, the
handler's sends and the actor go on, since every call they make ends; nothing is
assumed of signals, sessions or messages.

Some properties carry an exception that the code needs, and say so; without it TLC
finds a behaviour of the code that violates them.

- `CooldownHeld` and `AnswersSpaced` excuse fires past the expiry or raced with the
  reaper. `cooldown_race` shows the second to be real. The first is the reaper's
  constant hour: REQUIREMENTS (COOLDOWN-01) sets cooldowns no maximum, and one of
  more than an hour ends with its entry.
- `ReturnsOnceCancelled` excuses the actor that blocks on a full `outCh` after
  `ReplyLoop` has returned; `StopsWhenTold` the handler that blocks on a full `inCh`
  after the actor has returned (`Wedged`), because `Disconnect` waits for it:
  DEPLOY-03's ten seconds are then the supervisor's kill.
- `QuoteKept` speaks of messages within their lifetime: one delivered late is
  answered without its quotation (REPLY-01 promises one), since the pruning goes
  by the age of the message.
- `EveryReplyAttempted` ends with the process: replies that sleep when it ends are
  never sent, and their cooldowns are forgotten with them. It counts replies, so
  that of two to a repeated message each is attempted; attempted is not sent.
- `CountedOnce`, and `AnswersSpaced` and `AnswersCapped` with it, speak of the answers
  that `Handle` decides (`Answers`), not of those that are sent. `Handle` records
  before it returns; a reply that the shutdown leaves behind or whose `SendMessage`
  fails has used up its cooldown and its place under the caps. The comments at
  cooldown.go:38-39 and pipeline.go:279-280 ask for `Record` "after a successful send";
  the code does not do that, even if "sent" means no more than put on `outCh`. What the
  comments are for, that no message dropped by a gate is recorded, is `CountedOnce`.
- `NeverAnswersItself` takes for the bot's quotations those that the adapter recognises
  (`quotesBot`); which these are is `RecognisesItself`, with the exceptions below.
- `OnlyAuthorizedToggle` and `OneConfiguration` go by the snapshot taken with the
  message: an admin lookup of ten seconds may end under another that would refuse.
- `DatabaseOutlivesClient` and the exception of `StopsWhenTold` take from the comment at
  inbound.go:20-23 that `Disconnect` waits for the handler; whatsmeow is not in the
  repository.
- `DecidedByOneProcess` takes the clock of the host and WhatsApp's timestamps to be
  the same clock.
- `FollowsFile` excuses versions that nothing points to (saved between the load and
  the watch or around the switch to polling, or without an event and with an
  unchanged or older modification time), reloads that overlap, and the shutdown.
  `OnlyForward` and `LevelAgrees` excuse reloads that overlapped, until one has
  loaded the file alone again: the comment at store.go:25, that only the watcher's goroutine swaps, leaves out the debounce
  timer's.
- `RecognisesItself` holds of processes that had an identity when they connected. After
  a first pairing `botJID` stays empty until the next start. Quotations of the bot in
  its LID form are never recognised (inbound.go:256).
- `TyposTolerated` excuses two edits on a word of eight runes, and `MatchesWords` takes
  them for none (`Disputed`): CONFIG-02, MATCH-05, README.md:154 and `validate` have
  distance 2 from eight runes on, `maxDistanceForRuneLen` and its comment
  (matcher.go:48-49) from nine. `MatchesWords` follows the latter, so it asks for silence
  where the former have the matcher fire: with distance 2 and the keyword "xxxxxxxx", a
  word of eight runes that differs in two does not match.
- `CooldownsAsAsked` holds as long as the seconds fit a `time.Duration`; nothing
  rejects a file whose seconds do not.

## 5. What is proved

Checked by TLAPS, from the named assumptions on the constants only (positive
durations, caps in Nat, distinct markers; `resolveCooldown` and `validate` give
them; `PipelineAssumption` says that the snapshots, the listeners and the matchers
are what `config.Load` makes of a file; `AdapterAssumption`, `WatcherAssumption`,
`NothingAssumption` and `LifecycleAssumption` that markers differ from values, that
capacities and bounds are numbers, and that one file can be loaded;
`ComponentAssumption` repeats for `Pipeline` what `Cooldown` and `RateLimiter` assume;
`FilesAssumption` says that the numbers of a file are integers, its lists sequences,
and the two default cooldowns durations; `TextAssumption` that normalising gives
texts, that `ComputeDistance` counts, and that a result is not nil; TLC evaluates
them on every instance):

| Theorem | States |
|---|---|
| `CooldownProofs!TypeCorrect` | the tracker's types |
| `CooldownProofs!AllowedMeansCooledDown` | `Spec => []CooldownHeld` |
| `CooldownProofs!ReaperForgetsOnlyExpired` | `Spec => ForgottenOnlyWhenExpired` |
| `RateLimiterProofs!TypeCorrect` | the limiter's types |
| `RateLimiterProofs!PermissionKeeps` | `Spec => []RoomForGrant` |
| `RateLimiterProofs!CapsHold` | `Spec => []WindowCap` |
| `RateLimiterProofs!NoNeedlessRefusal` | `Spec => []RefusedOnlyAtCap` |
| `PipelineProofs!TypeCorrect` | the types of the actor and the channels |
| `PipelineProofs!PauseHolds` | `Spec => []PauseBarrier` |
| `PipelineProofs!SwitchFollows` | `Spec => []SwitchAsAcknowledged` |
| `PipelineProofs!ToggledByAuthority` | `Spec => OnlyAuthorizedToggle` |
| `PipelineProofs!ImplementsTracker` | `Spec => TrackerSteps` |
| `PipelineProofs!ImplementsLimiter` | `Spec => LimiterSteps` |
| `PipelineProofs!TrackerPromises` | `Spec => []CD!CooldownHeld /\ CD!ForgottenOnlyWhenExpired` |
| `PipelineProofs!LimiterPromises` | `Spec => [](RL!RoomForGrant /\ RL!WindowCap /\ RL!RefusedOnlyAtCap)` |
| `DecisionProofs!AnswersOthersOnly` | `Spec => []NeverAnswersItself` |
| `DecisionProofs!DecidedUnderOne` | `Spec => []OneConfiguration` |
| `DecisionProofs!CountsAnswers` | `Spec => []CountedOnce` |
| `DecisionProofs!SpacesAnswers` | `Spec => []AnswersSpaced` |
| `DecisionProofs!CapsAnswers` | `Spec => []AnswersCapped` |
| `QuietDay!ActiveCorrect` | `Spec => []ActiveFromStartToEnd` |
| `AdapterProofs!TypeCorrect` | the adapter's types, and no more senders than events |
| `AdapterProofs!RepliesThreaded` | `Spec => []ThreadedToItsMessage` |
| `AdapterProofs!OriginalKept` | `Spec => []QuoteKept` |
| `AdapterProofs!DecidedOnce` | `Spec => []DecidedByOneProcess` |
| `WatcherProofs!TypeCorrect` | the watcher's types |
| `WatcherProofs!StoreHoldsAVersion` | `Spec => []HoldsAVersion` |
| `WatcherProofs!LevelFollows` | `Spec => []LevelAgrees` |
| `WatcherProofs!StoreGoesForward` | `Spec => OnlyForward` |
| `LifecycleProofs!TypeCorrect` | the types of a process |
| `LifecycleProofs!ClosedLast` | `Spec => []DatabaseOutlivesClient` |
| `LifecycleProofs!IdentityUsed` | `Spec => []RecognisesItself` |
| `LifecycleProofs!NamesResolve` | `Spec => []ReferencesResolved` |
| `LifecycleProofs!CooldownsResolve` | `Spec => []CooldownsAsAsked` |
| `LifecycleProofs!TyposFire` | `Spec => []TyposTolerated` |
| `LifecycleProofs!MatchPointsAtWords` | `Spec => []MatchesWords` |

Tracker. `CooldownHeld` is not inductive: it speaks of the last `Record`, `Allow`
looks at the map. The invariant that connects them says of every key that its
entry is the last `Record` of it; that a key without an entry was never recorded,
is past the expiry, or was raced; that what the reaper is about to delete was
older than the expiry when it was compared, unless it has been stored anew, and
is then counted as raced; and that a call past the matcher's gate already has that
half of the promise. No assumption relates cooldowns and expiry.

Limiter. The invariant says that each log is a suffix of the history of fires that
contains every fire still inside its window, in order of time. Pruning keeps such
a suffix because the history is sorted, so the length of a log is at least the
number of fires in its window, and, right after pruning, exactly that number. From
the one follows that a granted permission leaves room, from the other that a
refusal has cause; and room at the moment of `Record` is the cap at that fire. Since
`Record` may come at once, `RoomForGrant` says no more than `WindowCap` of the next
state, and no run checks it beside that.

Pipeline. Neither `PauseBarrier` nor `SwitchAsAcknowledged` is inductive. What is
added says what the actor knows while it works: past the first gates the switch
was off when it was read and, because only the actor moves it, still is; and a
reply on its way to the channel is an answer with the switch off, or an
acknowledgement that tells how the switch now is. All steps but `Send` leave
`outbox` alone. An answer goes out only when the last acknowledgement is not that
of a pause, which is the barrier for the new pair; an acknowledgement makes the
last one agree with the switch again. The listener and the matcher of a job are
always ones of some configuration (`ListenerTypes`, `MatchTypes`), so the
arguments of `Allow` are in the sets that `Cooldown` and `RateLimiter` quantify
over, and every action of the composition is one of theirs or leaves their
variables alone. What `CooldownProofs` and `RateLimiterProofs` show of behaviours
of `Init` and `Next` therefore holds of the pipeline's behaviours: `TrackerPromises`
and `LimiterPromises` instantiate those modules on the pipeline's variables and cite
their theorems, whose assumptions `ComponentAssumption` discharges. Only what rests
on the reaper's fairness (`ExpiredReaped`) does not carry over.

Decisions. `NeverAnswersItself` and `OneConfiguration` speak of replies on the
channel; what makes them true is established gate by gate. The added invariants
(`OthersOnly`, `Accounted`) say at each gate what the earlier ones have found of the
job's message under the job's snapshot: the scope, the authority, the match, the
hour, the answer. A reload does not touch the job's snapshot, only the set of
those that were in force, and deliveries only append, so at `Send` the snapshot of
the job accounts for the whole reply and goes on doing so.

Counting. `CountedOnce` and `AnswersSpaced` compare the answers with what the tracker
and the limiter remember, and neither is inductive: between `Allow` and the channel an
answer is in some of their records and not yet in others, and what a gate has seen in a
map must stay true while the reaper deletes. The invariant (`CountInv`) says, at every
step of the actor, under which keys the answer in hand is stored already
(`StoredKeys`); that the last fire of a key is the last answer that bears it; that a
key missing from the map never fired or has a fire past the expiry, which is also all
that the reaper's doomed keys can be; that a gate passed for the job stays passed,
since only the actor records; and that the limiter has a fire for every answer,
under the caps of its snapshot and no earlier than it was picked. `AnswersCapped`
adds to this, by `LimiterPromises`, that there is room for the answer when it is
picked (`CapInv`): the fires recorded since a window ago include all the answers
of that window, because an answer is never recorded before it is picked.

Quiet hours. `ActiveFromStartToEnd` with the types is inductive: one case for each
of the boundaries the clock can reach.

Adapter. That `senders` stays within its bound follows from counting: every event is
at most once in the handler's hand, in a channel or in a sender. `ThreadedToItsMessage`
needs that an entry of `pending` is filed under its own ID. `QuoteKept` needs three
facts beside it: the handler's message is stored before it is forwarded; the pruner's
clock reading is not ahead of the clock, so what it deletes is past its lifetime; and
a sender that is asleep has taken nothing yet. `DecidedByOneProcess` holds because
whatever is on its way to the pipeline was written after the start of the process,
and whatever an earlier process decided was written before.

Watcher. What a reload carries is a version of the file that `Load` accepted, at every
step of it, hence so is what it swaps in, whatever overlaps. The other two properties
need to know who is alone: while `overlapped` is false at most one reload runs, and
what it has loaded is not older than the store's version; between its swap and its
`SetLevel` the level may differ, afterwards it does not.

Life cycle. `DatabaseOutlivesClient` needs the order of main's steps: before `Connect`
there is no session, the database is not closed while `Start` can still connect, and
after `Disconnect` nothing brings the connection back. `RecognisesItself` needs that
a process which connected with an identity and still has a session has not lost that
identity by the time `Identify` reads it: only `LoggedOut` takes it, and ends the
session with it. `ReferencesResolved` follows from `validate` alone: the names in the
file are distinct and every reference has a target, so that the first match of a name
is the only one.

Files and texts. `CooldownsAsAsked` holds because a product that fits is not wrapped,
and the block of an accepted matcher is one of the file. For the matcher the
specification is a reader's: a word is a stretch of the text between spaces but for
punctuation (`IsWord`), wherever it begins. The lemmas show that the tokens are
exactly those words, in the same order (`TokenIsWord`, `WordIsToken`, `TokensOf`): the
ends of a word are the first and the last place in its field that is not punctuation,
which exist because a set of places has a least and a greatest member. With this,
a matcher fires exactly when some word is a typo of a keyword (`FiresOnTypos`), the
first hit is the first such word (`FirstTypo`), and `Match` returns the first matcher
that has one (`MatchIsFirst`). `TyposTolerated` needs beside it that `MinRunes` is never
below what `maxDistanceForRuneLen` allows but for two edits on eight runes.

Only model-checked: the seven liveness properties (`ExpiredReaped`,
`EveryMessageDecided`, `ReturnsOnceCancelled`, `PendingDrained`, `EveryReplyAttempted`,
`FollowsFile`, `StopsWhenTold`). They rest on fairness, and `ENABLED` is out of the
prover's reach. Every invariant and every action property of the passing runs is
stated by a theorem above.

## 6. What is not modelled

- YAML decoding: a file decodes or it does not. The edit distance and the tables of
  Unicode are libraries; `MatcherRules` takes them as constants.
- The text of answers and the substitution of variables; flags, the choice of the log
  handler and all logging.
- SQLite beyond open and closed, and whatsmeow beyond its calls and events.
- Daylight-saving changes in quiet hours.
- The order in which sleeping replies reach the group: the code promises none. An
  answer decided before a pause or before quiet hours may be sent after; `PauseBarrier`
  is about the channel replies leave from.
- The self-loop guard of CONFIG-02 (answers that match their own keywords): the code
  has none; `NeverAnswersItself` shows what keeps the bot from answering itself.
- A cooldown large enough to overflow `time.Duration` in `Cooldown` and `Pipeline`, whose
  constants are positive by assumption; `CooldownsAsAsked` says which files give such.
