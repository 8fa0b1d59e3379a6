------------------------------ MODULE Pipeline ------------------------------
(***************************************************************************)
(* internal/pipeline with the gates it composes: the actor loop that takes *)
(* one message after another from inCh, decides it, and puts the reply on  *)
(* outCh.  Around it run the adapter's event handler (Deliver), the        *)
(* configuration watcher (Reload), the cooldown reaper, the adapter's      *)
(* ReplyLoop (Take) and the shutdown signal (Cancel).                      *)
(*                                                                         *)
(* One step of the actor is what it does between two moments at which      *)
(* another goroutine or the clock could make a difference.  Text is        *)
(* abstracted to what the gates tell apart: whether a message is a         *)
(* command, and which of the configured keywords its body, or the text it  *)
(* quotes, comes close enough to.                                          *)
(***************************************************************************)
EXTENDS Integers, Sequences, FiniteSets, Functions, QuietHours

CONSTANTS Matchers, Users, Everyone,        \* as in Cooldown
          MatcherCooldowns, UserCooldowns, Expiry,
          Minute, Hour, Caps, None,         \* as in RateLimiter
          MaxTime,       \* bound on the clock, for TLC only
          Snapshots,     \* the configurations that are loaded in turn
          Messages,      \* what may arrive in the groups
          Admins,        \* <<group, sender>>: who is an admin of which group
          Capacity,      \* capacity of both channels (64 in app.go)
          MaxMessages,   \* bound on the messages delivered, for TLC only
          NoMatch        \* matcher.Match found nothing

VARIABLES now,                                     \* the clock
          fired, call, reaper, recorded, raced,    \* Cooldown's variables
          minuteLog, hourLog, grant, fires,        \* RateLimiter's variables
          snap,       \* the snapshot in config.Store
          ctxDone,    \* the context is cancelled
          inCh,       \* inbound channel: positions in delivered
          outCh,      \* outbound channel: positions in outbox
          replyLoop,  \* the adapter's ReplyLoop still runs
          paused,     \* killswitch.Switch
          pc, job,    \* where Run is, and the message it works on
          delivered,  \* history: every message put on inCh
          outbox,     \* history: every reply put on outCh
          answered    \* history: those of them that answer, not acknowledge

cooldownVars == <<fired, call, reaper, recorded, raced>>
limiterVars  == <<minuteLog, hourLog, grant, fires>>
actorVars    == <<paused, pc, job>>
channelVars  == <<inCh, outCh, replyLoop, delivered, outbox, answered>>
configVars   == <<snap, ctxDone>>
vars == <<now, cooldownVars, limiterVars, actorVars, channelVars, configVars>>

CD == INSTANCE Cooldown
RL == INSTANCE RateLimiter WITH MaxFires <- MaxMessages

\* The listeners and the matchers of all configurations.
ResolvedListeners == UNION {Range(s.listeners) : s \in Snapshots}
ResolvedMatchers  == UNION {Range(l.matchers) : l \in ResolvedListeners}

\* What config.Load makes of a file; senders are JIDs.
ASSUME PipelineAssumption ==
    /\ \A s \in Snapshots : /\ s.listeners \in Seq(ResolvedListeners)
                            /\ s.userCooldown \in UserCooldowns
                            /\ s.rateCap \in Caps
    /\ \A l \in ResolvedListeners : l # NoMatch /\ l.matchers \in Seq(ResolvedMatchers)
    /\ \A m \in ResolvedMatchers : /\ m # NoMatch
                                   /\ m.name \in Matchers
                                   /\ m.cooldown \in MatcherCooldowns
    /\ \A msg \in Messages : msg.sender \in Users
    /\ MaxTime \in Nat /\ MaxMessages \in Nat
    /\ Capacity \in Nat \ {0}

\* What the tracker and the limiter assume of their constants.
ASSUME ComponentAssumption == CD!CooldownAssumption /\ RL!RateAssumption

-----------------------------------------------------------------------------
(* Configuration and matching.                                             *)

\* The first of some places in a sequence, or none.
First(seq, places) ==
    IF places = {} THEN NoMatch
    ELSE seq[CHOOSE i \in places : \A j \in places : i <= j]

findListener(listeners, group) ==
    First(listeners, {i \in DOMAIN listeners : listeners[i].group = group})

\* Does one matcher fire on these keywords?  A mention matcher looks only at
\* whether the bot was mentioned.
Hits(m, words, mentioned) ==
    IF m.kind = "mention" THEN mentioned ELSE m.words \cap words # {}

\* matcher.Match: the first matcher of the list that fires.
Match(words, mentioned, matchers) ==
    First(matchers, {i \in DOMAIN matchers : Hits(matchers[i], words, mentioned)})

\* Mutation of MatchMessage: the text of the bot itself is eligible too.
MatchMessage_anyQuote(msg, matchers) ==
    LET body == Match(msg.words, msg.mentioned, matchers)
    IN  IF body # NoMatch THEN body
        ELSE Match(msg.quotedWords, FALSE, matchers)

\* Gate 3: the body first; then the quoted text, unless the adapter has left
\* QuotedSenderJID empty.  It does so where it recognises the bot as the author,
\* by its phone number only (inbound.go:256); quotesBot says that it did.
MatchMessage(msg, matchers) ==
    LET body == Match(msg.words, msg.mentioned, matchers)
    IN  IF body # NoMatch \/ msg.quotesBot THEN body
        ELSE Match(msg.quotedWords, FALSE, matchers)

IsCommand(msg) == msg.text \in {"!pause", "!resume"}

\* What ownercommands.Handle answers.
Ack(text) == IF text = "!pause" THEN "paused" ELSE "resumed"

\* A reply that answers, as opposed to one that acknowledges a command.
IsAnswer(reply) == reply.matcher # NoMatch

\* Between two messages the actor holds none.
NoJob == [id |-> 0]

\* The message and the listener of the job at hand.
Msg      == delivered[job.id]
Listener == findListener(job.snap.listeners, Msg.group)

-----------------------------------------------------------------------------
Init == /\ CD!Init /\ RL!Init
        /\ snap \in Snapshots
        /\ ctxDone = FALSE
        /\ inCh = << >> /\ outCh = << >>
        /\ replyLoop = TRUE
        /\ paused = FALSE
        /\ pc = "select" /\ job = NoJob
        /\ delivered = << >> /\ outbox = << >> /\ answered = << >>

-----------------------------------------------------------------------------
(* The actor loop, Run.                                                    *)

\* Mutation of Finish: the job in hand is not let go.
Finish_keepsJob == pc' = "select" /\ job' = job

\* Back to the select; the message is dropped or done with.
Finish == pc' = "select" /\ job' = NoJob

Incoming == delivered[Head(inCh)]
InScope  == findListener(snap.listeners, Incoming.group) # NoMatch

\* Run takes a message and the snapshot it will use for it throughout.  The
\* job also remembers, as history, when it was screened and when it fired, and
\* every snapshot that was in force meanwhile.
Proceed(step) ==
    /\ pc' = step
    /\ job' = [id |-> Head(inCh), snap |-> snap, matcher |-> NoMatch,
               answer |-> None, screened |-> 0, fired |-> 0,
               during |-> {snap}]

\* The scope gate, the commands, the bot's own messages, everything else.
Receive ==
    /\ pc = "select" /\ inCh # << >>
    /\ inCh' = Tail(inCh)
    /\ \/ ~InScope /\ Finish
       \/ InScope /\ IsCommand(Incoming) /\ Proceed("command")
       \/ InScope /\ ~IsCommand(Incoming) /\ Incoming.fromMe /\ Finish
       \/ InScope /\ ~IsCommand(Incoming) /\ ~Incoming.fromMe /\ Proceed("screen")
    /\ UNCHANGED <<now, cooldownVars, limiterVars, paused, snap, ctxDone,
                   outCh, replyLoop, delivered, outbox, answered>>

\* What IsGroupAdmin may answer; the lookup fails, or its ten seconds pass,
\* at any time.
Verdicts(msg) ==
    {"error", IF <<msg.group, msg.sender>> \in Admins THEN "admin" ELSE "member"}

\* Mutation of Authorized: a lookup that fails lets the command through.
Authorized_failOpen(verdict) ==
    Msg.fromMe \/ (Listener.allowAdmin /\ verdict # "member")

Authorized(verdict) ==
    Msg.fromMe \/ (Listener.allowAdmin /\ verdict = "admin")

\* Mutation of HandleCommand: the switch is flipped before the sender is checked.
HandleCommand_flipsFirst(verdict) ==
    /\ pc = "command"
    /\ paused' = (Msg.text = "!pause")
    /\ \/ /\ Authorized(verdict)
          /\ pc' = "send"
          /\ job' = [job EXCEPT !.answer = Ack(Msg.text)]
       \/ ~Authorized(verdict) /\ Finish
    /\ UNCHANGED <<now, cooldownVars, limiterVars, channelVars, configVars>>

\* handleCommand: flip the kill switch and acknowledge, or refuse in silence.
HandleCommand(verdict) ==
    /\ pc = "command"
    /\ \/ /\ Authorized(verdict)
          /\ paused' = (Msg.text = "!pause")
          /\ pc' = "send"
          /\ job' = [job EXCEPT !.answer = Ack(Msg.text)]
       \/ ~Authorized(verdict) /\ Finish /\ UNCHANGED paused
    /\ UNCHANGED <<now, cooldownVars, limiterVars, channelVars, configVars>>

\* Mutation of Screen: the kill switch is not consulted.
Screen_ignoresSwitch ==
    /\ pc = "screen"
    /\ LET m == MatchMessage(Msg, Listener.matchers)
           blocked == \/ IsActive(now % Day, job.snap.quiet)
                      \/ m = NoMatch
       IN  \/ blocked /\ Finish
           \/ /\ ~blocked
              /\ pc' = "cooldown"
              /\ job' = [job EXCEPT !.matcher = m, !.screened = now]
    /\ UNCHANGED <<now, cooldownVars, limiterVars, paused, channelVars, configVars>>

\* Mutation of Screen: quiet hours are read from the store once more.
Screen_rereads ==
    /\ pc = "screen"
    /\ LET m == MatchMessage(Msg, Listener.matchers)
           blocked == \/ paused
                      \/ IsActive(now % Day, snap.quiet)
                      \/ m = NoMatch
       IN  \/ blocked /\ Finish
           \/ /\ ~blocked
              /\ pc' = "cooldown"
              /\ job' = [job EXCEPT !.matcher = m, !.screened = now]
    /\ UNCHANGED <<now, cooldownVars, limiterVars, paused, channelVars, configVars>>

\* Handle, gates 1 to 3: kill switch, quiet hours, match.
Screen ==
    /\ pc = "screen"
    /\ LET m == MatchMessage(Msg, Listener.matchers)
           blocked == \/ paused
                      \/ IsActive(now % Day, job.snap.quiet)
                      \/ m = NoMatch
       IN  \/ blocked /\ Finish
           \/ /\ ~blocked
              /\ pc' = "cooldown"
              /\ job' = [job EXCEPT !.matcher = m, !.screened = now]
    /\ UNCHANGED <<now, cooldownVars, limiterVars, paused, channelVars, configVars>>

\* Mutation of CheckMatcher: Allow gets its two durations in the wrong order.
CheckMatcher_swapped ==
    /\ pc = "cooldown"
    /\ \/ /\ CD!BeginAllow(job.matcher.name, Msg.sender,
                            job.snap.userCooldown, job.matcher.cooldown)
          /\ pc' = "user" /\ UNCHANGED job
       \/ /\ ~CD!OffCooldown(CD!MatcherKey(job.matcher.name), now,
                              job.snap.userCooldown)
          /\ Finish /\ UNCHANGED <<now, cooldownVars>>
    /\ UNCHANGED <<limiterVars, paused, channelVars, configVars>>

\* Gate 4, the perMatcher entry.
CheckMatcher ==
    /\ pc = "cooldown"
    /\ \/ /\ CD!BeginAllow(job.matcher.name, Msg.sender,
                            job.matcher.cooldown, job.snap.userCooldown)
          /\ pc' = "user" /\ UNCHANGED job
       \/ /\ ~CD!OffCooldown(CD!MatcherKey(job.matcher.name), now,
                              job.matcher.cooldown)
          /\ Finish /\ UNCHANGED <<now, cooldownVars>>
    /\ UNCHANGED <<limiterVars, paused, channelVars, configVars>>

\* Gate 4, the perUser entry.
CheckUser ==
    /\ pc = "user"
    /\ \/ CD!AllowUser /\ pc' = "rate" /\ UNCHANGED job
       \/ CD!DenyUser /\ Finish
    /\ UNCHANGED <<limiterVars, paused, channelVars, configVars>>

\* Gate 5.  A message dropped here starts no cooldown.
CheckRate ==
    /\ pc = "rate"
    /\ \/ /\ RL!Grant(job.snap.rateCap)
          /\ pc' = "pick" /\ UNCHANGED <<job, cooldownVars>>
       \/ RL!Refuse(job.snap.rateCap) /\ CD!Forgo /\ Finish
    /\ UNCHANGED <<paused, channelVars, configVars>>

\* Pick one of the matcher's answers; then Record stores the perMatcher entry.
Pick ==
    /\ pc = "pick"
    /\ \E answer \in job.matcher.answers :
         job' = [job EXCEPT !.answer = answer, !.fired = now]
    /\ CD!RecordMatcher
    /\ pc' = "recordUser"
    /\ UNCHANGED <<limiterVars, paused, channelVars, configVars>>

\* An empty cluster: rng.IntN(0) panics, and the process with it.
Panic ==
    /\ pc = "pick"
    /\ job.matcher.answers = {}
    /\ pc' = "panicked"
    /\ UNCHANGED <<now, cooldownVars, limiterVars, paused, job, channelVars,
                   configVars>>

\* Mutation of RecordUser: the perUser entry is not stored.
RecordUser_skipped ==
    /\ pc = "recordUser"
    /\ call' = CD!Idle
    /\ pc' = "recordRate"
    /\ UNCHANGED <<now, fired, reaper, recorded, raced, limiterVars, paused,
                   job, channelVars, configVars>>

\* Record stores the perUser entry.
RecordUser ==
    /\ pc = "recordUser"
    /\ CD!RecordUser
    /\ pc' = "recordRate"
    /\ UNCHANGED <<limiterVars, paused, job, channelVars, configVars>>

\* Mutation of RecordRate: the logs are told of the fire twice.
RecordRate_twice ==
    /\ pc = "recordRate"
    /\ minuteLog' = minuteLog \o <<now, now>>
    /\ hourLog' = hourLog \o <<now, now>>
    /\ fires' = Append(fires, [at |-> now, caps |-> grant])
    /\ grant' = None
    /\ pc' = "send"
    /\ UNCHANGED <<now, cooldownVars, paused, job, channelVars, configVars>>

\* Mutation of RecordRate: the rate limiter is not told.
RecordRate_forgotten ==
    /\ pc = "recordRate"
    /\ pc' = "send" /\ grant' = None
    /\ UNCHANGED <<now, minuteLog, hourLog, fires, cooldownVars, paused, job,
                   channelVars, configVars>>

\* The rate limiter records the same fire.
RecordRate ==
    /\ pc = "recordRate"
    /\ RL!Record
    /\ pc' = "send"
    /\ UNCHANGED <<cooldownVars, paused, job, channelVars, configVars>>

\* The acknowledgement or the answer goes to outCh, which may have to drain
\* first: this send waits for nothing else, not even the context.
Send ==
    /\ pc = "send"
    /\ Len(outCh) < Capacity
    /\ outbox' = Append(outbox, job)
    /\ answered' = IF IsAnswer(job) THEN Append(answered, job) ELSE answered
    /\ outCh' = Append(outCh, Len(outbox'))
    /\ Finish
    /\ UNCHANGED <<now, cooldownVars, limiterVars, paused, inCh, replyLoop,
                   delivered, configVars>>

\* Mutation of Return: Run waits for ReplyLoop to empty outCh first.
Return_drained ==
    /\ pc = "select" /\ ctxDone /\ outCh = << >>
    /\ pc' = "returned"
    /\ UNCHANGED <<now, cooldownVars, limiterVars, paused, job, channelVars,
                   configVars>>

\* Run returns.  The select may go on taking messages for a while, as it
\* chooses at random among what is ready.
Return ==
    /\ pc = "select" /\ ctxDone
    /\ pc' = "returned"
    /\ UNCHANGED <<now, cooldownVars, limiterVars, paused, job, channelVars,
                   configVars>>

Actor == \/ Receive
         \/ \E verdict \in {"admin", "member", "error"} :
               /\ pc = "command" /\ verdict \in Verdicts(Msg)
               /\ HandleCommand(verdict)
         \/ Screen
         \/ CheckMatcher
         \/ CheckUser
         \/ CheckRate
         \/ Pick
         \/ Panic
         \/ RecordUser
         \/ RecordRate
         \/ Send
         \/ Return

-----------------------------------------------------------------------------
(* The goroutines around it.                                               *)

\* The adapter's event handler puts a message on inCh.
Deliver ==
    /\ Len(delivered) < MaxMessages
    /\ Len(inCh) < Capacity
    /\ \E msg \in Messages : delivered' = Append(delivered, msg)
    /\ inCh' = Append(inCh, Len(delivered'))
    /\ UNCHANGED <<now, cooldownVars, limiterVars, actorVars, configVars,
                   outCh, replyLoop, outbox, answered>>

\* The snapshot in the store changes; a job in hand remembers that it did.
Swapped == /\ snap' \in Snapshots \ {snap}
           /\ job' = IF job = NoJob THEN NoJob
                     ELSE [job EXCEPT !.during = @ \cup {snap'}]

\* The watcher swaps in another snapshot.
Reload ==
    /\ Swapped
    /\ UNCHANGED <<now, cooldownVars, limiterVars, paused, pc, channelVars, ctxDone>>

\* ReplyLoop takes a reply and hands it to a goroutine of its own.
Take ==
    /\ replyLoop /\ outCh # << >>
    /\ outCh' = Tail(outCh)
    /\ UNCHANGED <<now, cooldownVars, limiterVars, actorVars, configVars,
                   inCh, replyLoop, delivered, outbox, answered>>

\* Mutation of StopReplyLoop: ReplyLoop gives up after a failed send.
StopReplyLoop_onError ==
    /\ replyLoop
    /\ replyLoop' = FALSE
    /\ UNCHANGED <<now, cooldownVars, limiterVars, actorVars, configVars,
                   inCh, outCh, delivered, outbox, answered>>

\* ReplyLoop returns.
StopReplyLoop ==
    /\ ctxDone /\ replyLoop
    /\ replyLoop' = FALSE
    /\ UNCHANGED <<now, cooldownVars, limiterVars, actorVars, configVars,
                   inCh, outCh, delivered, outbox, answered>>

\* The shutdown signal.
Cancel ==
    /\ ~ctxDone
    /\ ctxDone' = TRUE
    /\ UNCHANGED <<now, cooldownVars, limiterVars, actorVars, channelVars, snap>>

Reap == /\ CD!Reaper
        /\ UNCHANGED <<limiterVars, actorVars, channelVars, configVars>>

Tick == /\ CD!Tick
        /\ UNCHANGED <<limiterVars, actorVars, channelVars, configVars>>

\* A panic ends the process: nothing happens after it.
Next == /\ pc # "panicked"
        /\ \/ Actor
           \/ Deliver
           \/ Reload
           \/ Take
           \/ StopReplyLoop
           \/ Cancel
           \/ Reap
           \/ Tick

\* The Go scheduler runs every goroutine that can run: the actor, and ReplyLoop
\* while it has replies to take or a cancelled context to notice.
Fairness == /\ WF_vars(Actor)
            /\ WF_vars(Take)
            /\ WF_vars(StopReplyLoop)

Spec == Init /\ [][Next]_vars /\ Fairness
-----------------------------------------------------------------------------
(* Properties.                                                             *)

\* A job that answers has a matcher; one that acknowledges has none.
Jobs == [id : 1 .. MaxMessages, snap : Snapshots,
         matcher : ResolvedMatchers \cup {NoMatch},
         answer : (UNION {m.answers : m \in ResolvedMatchers})
                    \cup {None, "paused", "resumed"},
         screened : 0 .. MaxTime, fired : 0 .. MaxTime,
         during : SUBSET Snapshots]

Steps == {"command", "screen", "cooldown", "user", "rate", "pick",
          "recordUser", "recordRate", "send", "panicked"}

(* Every variable of this module holds a value of its type, and the actor  *)
(* holds a job exactly while it is not waiting for one.  The variables of  *)
(* the tracker and of the limiter are typed by their modules, whose steps  *)
(* are the only ones they take (TrackerSteps, LimiterSteps).               *)
TypeOK ==
    /\ now \in 0 .. MaxTime
    /\ snap \in Snapshots
    /\ ctxDone \in BOOLEAN /\ replyLoop \in BOOLEAN /\ paused \in BOOLEAN
    /\ delivered \in Seq(Messages) /\ Len(delivered) <= MaxMessages
    /\ outbox \in Seq(Jobs) /\ answered \in Seq(Jobs)
    /\ inCh \in Seq(1 .. Len(delivered)) /\ Len(inCh) <= Capacity
    /\ outCh \in Seq(1 .. Len(outbox)) /\ Len(outCh) <= Capacity
    /\ \/ pc \in Steps /\ job \in Jobs /\ job.id <= Len(delivered)
       \/ pc \in {"select", "returned"} /\ job = NoJob

(* The pipeline uses the tracker as the tracker is specified               *)
(* (pipeline.go:210, 225): every step of any goroutine is a step of        *)
(* Cooldown or leaves its variables alone, so Record follows a granted     *)
(* Allow for the same matcher and sender, one call at a time.              *)
TrackerSteps == CD!Init /\ [][CD!Next]_(CD!vars)

(* The same for the rate limiter (pipeline.go:215, 226): Record follows a  *)
(* granted Allow, and no permission is used twice or left over.            *)
LimiterSteps == RL!Init /\ [][RL!Next]_(RL!vars)

\* Every answer decided so far, in order, sent or not: those put on outCh, and
\* the one that Handle has returned and Run still holds.
Answers == IF pc = "send" /\ IsAnswer(job) THEN Append(answered, job)
                                           ELSE answered

\* The i-th reply acknowledges a command with this text.
Acknowledges(i, text) == ~IsAnswer(outbox[i]) /\ outbox[i].answer = text

(* The kill switch bars every answer (pipeline.go:175, OWNER-04): in the   *)
(* order in which replies reach outCh, no answer stands between the        *)
(* acknowledgement of a pause and that of the next resume, however reloads *)
(* and other goroutines interleave with the commands.                      *)
PauseBarrier ==
    \A i, j \in 1 .. Len(outbox) :
        i < j /\ Acknowledges(i, "paused") /\ IsAnswer(outbox[j]) =>
            \E k \in i .. j : Acknowledges(k, "resumed")

\* The last acknowledgement on outCh is that of a pause.
ToldToPause == \E i \in 1 .. Len(outbox) :
                  /\ Acknowledges(i, "paused")
                  /\ \A k \in i .. Len(outbox) : ~Acknowledges(k, "resumed")

(* The switch is as the operator was last told (ownercommands.go:15-26):   *)
(* whenever no acknowledgement is on its way, it is on exactly if the last *)
(* one on outCh says "paused".  A command refused in silence moves nothing.*)
SwitchAsAcknowledged ==
    ~(pc = "send" /\ ~IsAnswer(job)) => (paused <=> ToldToPause)

(* Nobody moves the kill switch without authority (pipeline.go:134-153):   *)
(* the message comes from the account itself, or its sender is an admin of *)
(* the group and the snapshot taken with the message lets admins command.  *)
(* A failed lookup gives none.                                             *)
OnlyAuthorizedToggle ==
    [][paused' # paused =>
         \/ Msg.fromMe
         \/ Listener.allowAdmin /\ <<Msg.group, Msg.sender>> \in Admins]_vars

\* The first matcher of the list to fire on these keywords is m.
FirstToHit(m, words, mentioned, matchers) ==
    \E i \in DOMAIN matchers :
        /\ matchers[i] = m /\ Hits(m, words, mentioned)
        /\ \A j \in 1 .. i - 1 : ~Hits(matchers[j], words, mentioned)

\* Configuration s accounts for the whole reply: the scope, the authority or
\* the match, the answer and the quiet hours.
AccountsFor(s, reply) ==
    \E i \in DOMAIN s.listeners :
        LET msg == delivered[reply.id]
            l   == s.listeners[i]
        IN  /\ l.group = msg.group
            /\ \A j \in 1 .. i - 1 : s.listeners[j].group # msg.group
            /\ IF IsAnswer(reply)
               THEN /\ \/ FirstToHit(reply.matcher, msg.words, msg.mentioned,
                                     l.matchers)
                       \/ FirstToHit(reply.matcher, msg.quotedWords, FALSE,
                                     l.matchers)
                    /\ reply.answer \in reply.matcher.answers
                    /\ ~IsActive(reply.screened % Day, s.quiet)
               ELSE msg.fromMe \/ l.allowAdmin

(* Every decision is taken under one configuration (config.go:86-88): some *)
(* snapshot that was in force while the message was handled accounts for   *)
(* all of the reply, even when the store was swapped between two gates.    *)
OneConfiguration ==
    \A i \in 1 .. Len(outbox) :
        \E s \in outbox[i].during : AccountsFor(s, outbox[i])

(* The bot does not talk to itself (SCOPE-02, pipeline.go:189-194): an     *)
(* answer never goes to a message of its own account, and is triggered     *)
(* either by the body or by a quotation that the adapter did not recognise *)
(* as the bot's (RecognisesItself says when it does).                      *)
NeverAnswersItself ==
    \A i \in 1 .. Len(outbox) :
        LET msg == delivered[outbox[i].id]
            m   == outbox[i].matcher
        IN  IsAnswer(outbox[i]) =>
              /\ ~msg.fromMe /\ ~IsCommand(msg)
              /\ \/ Hits(m, msg.words, msg.mentioned)
                 \/ ~msg.quotesBot /\ Hits(m, msg.quotedWords, FALSE)

\* The keys under which the cooldown tracker knows an answer.
KeysOf(reply) ==
    {CD!MatcherKey(reply.matcher.name),
     CD!UserKey(reply.matcher.name, delivered[reply.id].sender)}

(* Cooldowns and rate caps count exactly the answers that Handle decides   *)
(* (pipeline.go:224-233): one fire per answer, in order, under the caps of *)
(* its snapshot; and the tracker's last fire of each key is that of the    *)
(* last answer with the key.  A message dropped at a late gate leaves no   *)
(* trace in either.  It counts decisions, not sends: the comments at       *)
(* cooldown.go:38-39 and pipeline.go:279-280 ask for Record "after a       *)
(* successful send", but Handle records before its reply is on outCh, and  *)
(* a reply that then fails, or is never sent, stays counted.               *)
CountedOnce ==
    pc \notin {"recordUser", "recordRate"} =>
        /\ Len(fires) = Len(Answers)
        /\ \A i \in 1 .. Len(fires) :
             /\ fires[i].caps = Answers[i].snap.rateCap
             /\ fires[i].at >= Answers[i].fired
        /\ \A k \in CD!Keys :
             LET with == {i \in 1 .. Len(Answers) : k \in KeysOf(Answers[i])}
             IN  IF with = {} THEN recorded[k] = CD!Never
                 ELSE \E i \in with : /\ \A j \in with : j <= i
                                      /\ recorded[k] = Answers[i].fired

\* The cooldown that answer j had to respect after answer i, if any.
Waited(i, j) ==
    LET gap  == Answers[j].fired - Answers[i].fired
        same == delivered[Answers[i].id].sender = delivered[Answers[j].id].sender
    IN  Answers[i].matcher.name = Answers[j].matcher.name =>
            /\ gap >= Answers[j].matcher.cooldown
            /\ same => gap >= Answers[j].snap.userCooldown

(* What the group sees of the cooldowns: two answers of one matcher are a  *)
(* matcher cooldown apart, and two to one sender a user cooldown.  The     *)
(* exceptions are the tracker's: a gap longer than the reaper's expiry     *)
(* ends every cooldown, and so may the race of Record with the deletion of *)
(* a still older entry of the same matcher.                                *)
AnswersSpaced ==
    \A i, j \in 1 .. Len(Answers) :
        i < j => \/ Waited(i, j)
                 \/ \E h \in 1 .. i :
                      /\ Answers[h].matcher.name = Answers[j].matcher.name
                      /\ Answers[j].fired - Answers[h].fired > Expiry

\* The answers up to the j-th that are no older than the window when it fires.
Recent(j, window) ==
    {i \in 1 .. j : Answers[i].fired >= Answers[j].fired - window}

(* What the group sees of the caps (pipeline.go:215, 263): no minute and no*)
(* hour that ends with an answer contains more answers than the cap under  *)
(* which that one was decided.  The clock runs between Allow and Record,   *)
(* and the caps change with the snapshots; no answer slips through.        *)
AnswersCapped ==
    \A j \in 1 .. Len(Answers) :
        LET cap == Answers[j].snap.rateCap
        IN  /\ RL!Within(Cardinality(Recent(j, Minute)), cap.perMin)
            /\ RL!Within(Cardinality(Recent(j, Hour)), cap.perHour)

\* The message at position i has been taken off inCh.
Decided(i) == \A n \in 1 .. Len(inCh) : inCh[n] # i

(* Nothing wedges the actor: every message put on inCh is taken off it and *)
(* decided, unless the bot is told to stop or an empty cluster kills it.   *)
EveryMessageDecided ==
    \A i \in 1 .. MaxMessages :
        Len(delivered) >= i
            ~> \/ Decided(i) /\ (job = NoJob \/ job.id > i)
               \/ ctxDone
               \/ pc = "panicked"

(* After the shutdown signal the actor returns, unless ReplyLoop stopped   *)
(* first and left outCh full: Run then blocks on its send for good         *)
(* (pipeline.go:82 and 112 do not select on the context).                  *)
ReturnsOnceCancelled ==
    ctxDone ~> \/ pc = "returned"
               \/ pc = "panicked"
               \/ pc = "send" /\ ~replyLoop /\ Len(outCh) = Capacity

-----------------------------------------------------------------------------
(* A claim of the documentation that the code does not keep.               *)

(* The bot reacts to messages "without going down"; no configuration that  *)
(* validate accepts makes it panic.                                        *)
NeverPanics == pc # "panicked"
=============================================================================
