--------------------------- MODULE DecisionProofs ---------------------------
(***************************************************************************)
(* Proofs about what Pipeline decides, for all configurations, messages    *)
(* and reloads: whom it answers, that one configuration accounts for each  *)
(* reply, and that the tracker and the limiter count exactly the answers,  *)
(* which the cooldowns therefore keep apart and the caps keep few.         *)
(***************************************************************************)
EXTENDS PipelineProofs, FiniteSetTheorems

-----------------------------------------------------------------------------
(* What is found in a configuration.                                       *)

\* First takes the least of the places.
LEMMA FirstPlace ==
    ASSUME NEW S, NEW seq \in Seq(S), NEW places \in SUBSET DOMAIN seq,
           First(seq, places) # NoMatch
    PROVE  \E i \in places : /\ First(seq, places) = seq[i]
                             /\ \A j \in places : i <= j
<1>1. places # {} /\ places \subseteq Nat
    BY LenProperties DEF First
<1> QED BY <1>1, SmallestPlace DEF First

\* findListener finds the first listener of the group.
LEMMA ListenerFound ==
    ASSUME NEW s \in Snapshots, NEW group,
           findListener(s.listeners, group) # NoMatch
    PROVE  \E i \in DOMAIN s.listeners :
              /\ s.listeners[i] = findListener(s.listeners, group)
              /\ s.listeners[i].group = group
              /\ \A j \in 1 .. i - 1 : s.listeners[j].group # group
<1> DEFINE places == {i \in DOMAIN s.listeners : s.listeners[i].group = group}
<1>1. s.listeners \in Seq(ResolvedListeners)
    BY PipelineAssumption
<1>2. PICK i \in places : /\ findListener(s.listeners, group) = s.listeners[i]
                          /\ \A j \in places : i <= j
    BY <1>1, FirstPlace DEF findListener
<1>3. DOMAIN s.listeners = 1 .. Len(s.listeners) /\ Len(s.listeners) \in Nat
    BY <1>1, LenProperties
<1>4. ASSUME NEW j \in 1 .. i - 1 PROVE s.listeners[j].group # group
    BY <1>2, <1>3, <1>4
<1> QED BY <1>2, <1>4

\* The matcher that is found fires on the body, or on a quotation that is not
\* of the bot, and none before it does.
LEMMA MatchFound ==
    ASSUME NEW l \in ResolvedListeners, NEW msg,
           MatchMessage(msg, l.matchers) # NoMatch
    PROVE  \/ FirstToHit(MatchMessage(msg, l.matchers), msg.words, msg.mentioned,
                         l.matchers)
           \/ /\ ~msg.quotesBot
              /\ FirstToHit(MatchMessage(msg, l.matchers), msg.quotedWords, FALSE,
                            l.matchers)
<1>1. ASSUME NEW words, NEW mentioned, Match(words, mentioned, l.matchers) # NoMatch
      PROVE  FirstToHit(Match(words, mentioned, l.matchers), words, mentioned,
                        l.matchers)
  <2> DEFINE places == {i \in DOMAIN l.matchers : Hits(l.matchers[i], words, mentioned)}
  <2>1. l.matchers \in Seq(ResolvedMatchers)
      BY PipelineAssumption
  <2>2. PICK i \in places : /\ Match(words, mentioned, l.matchers) = l.matchers[i]
                            /\ \A j \in places : i <= j
      BY <1>1, <2>1, FirstPlace DEF Match
  <2>3. DOMAIN l.matchers = 1 .. Len(l.matchers) /\ Len(l.matchers) \in Nat
      BY <2>1, LenProperties
  <2>4. ASSUME NEW j \in 1 .. i - 1 PROVE ~Hits(l.matchers[j], words, mentioned)
      BY <2>2, <2>3, <2>4
  <2> QED BY <2>2, <2>4 DEF FirstToHit
<1> QED BY <1>1 DEF MatchMessage

-----------------------------------------------------------------------------
(* The bot does not talk to itself.                                        *)

\* The message is one to answer, and the matcher has a reason to.
Triggered(msg, m) ==
    /\ ~msg.fromMe /\ ~IsCommand(msg)
    /\ \/ Hits(m, msg.words, msg.mentioned)
       \/ ~msg.quotesBot /\ Hits(m, msg.quotedWords, FALSE)

\* What the gates have established stays true of the job, and of the replies.
OthersOnly ==
    /\ pc = "screen" => ~Msg.fromMe /\ ~IsCommand(Msg)
    /\ pc \in Gates \/ (pc = "send" /\ IsAnswer(job)) => Triggered(Msg, job.matcher)
    /\ \A i \in 1 .. Len(outbox) :
         /\ outbox[i].id \in 1 .. Len(delivered)
         /\ IsAnswer(outbox[i]) =>
              Triggered(delivered[outbox[i].id], outbox[i].matcher)

\* OthersOnly holds at first, when there is neither a job nor a reply.
LEMMA OthersOnlyInit == Init => OthersOnly
BY EmptySeq DEF Init, OthersOnly, Gates

\* A step after which job and message are as before, or gone.
LEMMA OthersOnlyKept ==
    ASSUME OthersOnly, UNCHANGED <<delivered, outbox>>,
           \/ pc' \in {"select", "returned", "panicked", "command"}
           \/ /\ \/ pc' = pc
                 \/ pc' \in Gates \cup {"send"} /\ pc \in Gates
              /\ job'.id = job.id /\ job'.matcher = job.matcher
    PROVE  OthersOnly'
BY DEF OthersOnly, Msg, IsAnswer, Gates

\* It goes on holding: each gate adds what it has found, Send needs all of it.
LEMMA OthersOnlyNext == IInv /\ OthersOnly /\ [Next]_vars => OthersOnly'
<1> SUFFICES ASSUME IInv, OthersOnly, [Next]_vars PROVE OthersOnly'
    OBVIOUS
<1>1. CASE Receive
  <2>1. UNCHANGED <<delivered, outbox>>
      BY <1>1 DEF Receive
  <2>2. CASE pc' # "screen"
      BY <1>1, <2>1, <2>2, OthersOnlyKept DEF Receive, Finish, Proceed
  <2>3. CASE pc' = "screen"
    <3>1. Proceed("screen") /\ ~IsCommand(Incoming) /\ ~Incoming.fromMe
        BY <1>1, <2>3 DEF Receive, Finish, Proceed
    <3>2. Msg' = Incoming
        BY <2>1, <3>1 DEF Proceed, Msg, Incoming
    <3> QED BY <2>1, <2>3, <3>1, <3>2 DEF OthersOnly, IsCommand, Gates
  <2> QED BY <2>2, <2>3
<1>2. CASE \E verdict : HandleCommand(verdict)
  <2>1. job \in Jobs /\ job.matcher = NoMatch
      BY <1>2, JobHeld DEF IInv, JobOK, HandleCommand, Steps
  <2>2. pc' = "send" => job'.matcher = NoMatch
      BY <1>2, <2>1 DEF HandleCommand, Finish, Jobs
  <2>3. UNCHANGED <<delivered, outbox>> /\ pc' \in {"select", "send"}
      BY <1>2 DEF HandleCommand, Finish, channelVars
  <2> QED BY <2>2, <2>3 DEF OthersOnly, IsAnswer, Gates
<1>3. CASE Screen
  <2> DEFINE m == MatchMessage(Msg, Listener.matchers)
  <2>1. UNCHANGED <<delivered, outbox>> /\ pc = "screen"
      BY <1>3 DEF Screen, channelVars
  <2>2. CASE Finish
      BY <2>1, <2>2, OthersOnlyKept DEF Finish
  <2>3. CASE /\ m # NoMatch /\ pc' = "cooldown"
             /\ job' = [job EXCEPT !.matcher = m, !.screened = now]
    <3>1. job \in Jobs
        BY <2>1, JobHeld DEF IInv, Steps
    <3>2. Listener \in ResolvedListeners
        BY <2>1, <3>1, ListenerTypes DEF IInv, JobOK, Listener, Jobs
    <3>3. Triggered(Msg, m)
        BY <2>1, <2>3, <3>2, MatchFound DEF OthersOnly, Triggered, FirstToHit
    <3> HIDE DEF m
    <3>4. Msg' = Msg /\ job'.matcher = m
        BY <2>1, <2>3, <3>1 DEF Msg, Jobs
    <3>5. Triggered(Msg, job.matcher)'
        BY <3>3, <3>4 DEF Triggered
    <3> QED BY <2>1, <2>3, <3>4, <3>5 DEF OthersOnly, Gates
  <2> QED BY <1>3, <2>2, <2>3 DEF Screen
<1>4. CASE CheckMatcher \/ CheckUser \/ CheckRate \/ RecordUser \/ RecordRate
  <2>1. pc \in Gates /\ UNCHANGED <<delivered, outbox>>
      BY <1>4 DEF CheckMatcher, CheckUser, CheckRate, RecordUser, RecordRate, Gates,
                  channelVars
  <2>2. Finish \/ (pc' \in Gates \cup {"send"} /\ UNCHANGED job)
      BY <1>4 DEF CheckMatcher, CheckUser, CheckRate, RecordUser, RecordRate, Gates
  <2> QED BY <2>1, <2>2, OthersOnlyKept DEF Finish
<1>5. CASE Pick
  <2>1. job \in Jobs /\ pc \in Gates /\ pc' \in Gates /\ UNCHANGED <<delivered, outbox>>
      BY <1>5, JobHeld DEF IInv, Pick, Gates, Steps, channelVars
  <2>2. job'.id = job.id /\ job'.matcher = job.matcher
      BY <1>5, <2>1 DEF Pick, Jobs
  <2> QED BY <2>1, <2>2, OthersOnlyKept
<1>6. CASE Panic \/ Return \/ UNCHANGED vars
  BY <1>6, OthersOnlyKept DEF Panic, Return, vars, channelVars, actorVars
<1>7. CASE Send
  <2>0. PICK n \in Nat : n = Len(outbox)
      BY LenProperties DEF IInv, TypeOK
  <2>1. /\ pc = "send" /\ job \in Jobs /\ job.id \in 1 .. Len(delivered)
        /\ pc' = "select" /\ outbox' = Append(outbox, job) /\ UNCHANGED delivered
      BY <1>7, JobHeld DEF IInv, Send, Finish, Steps
  <2>2. /\ Len(outbox') = n + 1 /\ outbox'[n + 1] = job
        /\ \A i \in 1 .. n : outbox'[i] = outbox[i]
    <3>1. outbox \in Seq(Jobs)
        BY DEF IInv, TypeOK
    <3> QED BY <2>0, <2>1, <3>1, AppendProperties
  <2>3. IsAnswer(job) => Triggered(delivered[job.id], job.matcher)
      BY <2>1 DEF OthersOnly, Msg
  <2>4. ASSUME NEW i \in 1 .. n + 1
        PROVE  /\ outbox'[i].id \in 1 .. Len(delivered')
               /\ IsAnswer(outbox'[i]) =>
                    Triggered(delivered'[outbox'[i].id], outbox'[i].matcher)
    <3>1. CASE i \in 1 .. n
        BY <2>0, <2>1, <2>2, <3>1 DEF OthersOnly, IsAnswer
    <3>2. CASE i = n + 1
        BY <2>1, <2>2, <2>3, <3>2 DEF IsAnswer
    <3> QED BY <3>1, <3>2
  <2> QED BY <2>1, <2>2, <2>4 DEF OthersOnly, Gates
<1>8. CASE Deliver
  <2>0. PICK n \in Nat : n = Len(delivered)
      BY LenProperties DEF IInv, TypeOK
  <2>1. PICK msg \in Messages : delivered' = Append(delivered, msg)
      BY <1>8 DEF Deliver
  <2>2. Len(delivered') = n + 1 /\ \A i \in 1 .. n : delivered'[i] = delivered[i]
      BY <2>0, <2>1, AppendProperties DEF IInv, TypeOK
  <2>3. UNCHANGED <<pc, job, outbox>>
      BY <1>8 DEF Deliver, actorVars
  <2>4. pc \in Steps => Msg' = Msg
      BY <2>0, <2>2, <2>3, JobHeld DEF IInv, Msg
  <2> QED BY <2>0, <2>2, <2>3, <2>4 DEF OthersOnly, IsAnswer, Gates, Steps
<1>9. CASE Reload
  <2>1. UNCHANGED <<pc, delivered, outbox>>
      BY <1>9 DEF Reload, channelVars
  <2>2. pc \in Steps => job'.id = job.id /\ job'.matcher = job.matcher
      BY <1>9, JobHeld DEF IInv, Reload, Swapped, Jobs
  <2>3. CASE pc \in Steps
      BY <2>1, <2>2, <2>3, OthersOnlyKept
  <2>4. CASE pc \notin Steps
      BY <2>1, <2>4, JobHeld, OthersOnlyKept DEF IInv
  <2> QED BY <2>3, <2>4
<1>10. CASE Take \/ StopReplyLoop \/ Cancel \/ Reap \/ Tick
  BY <1>10, OthersOnlyKept DEF Take, StopReplyLoop, Cancel, Reap, Tick, actorVars,
                               channelVars
<1> QED BY <1>1, <1>2, <1>3, <1>4, <1>5, <1>6, <1>7, <1>8, <1>9, <1>10 DEF Next, Actor

(* An answer never goes to a message of the account itself, and a keyword  *)
(* or a mention by somebody else has triggered it (pipeline.go:189-194).   *)
THEOREM AnswersOthersOnly == Spec => []NeverAnswersItself
<1>1. OthersOnly => NeverAnswersItself
    BY DEF OthersOnly, NeverAnswersItself, Triggered
<1> QED BY <1>1, Invariant, OthersOnlyInit, OthersOnlyNext, PTL DEF Spec

-----------------------------------------------------------------------------
(* One configuration accounts for each reply: the snapshot of its job.     *)

\* The scope and the grounds of an answer, as the first gates found them.
Grounded ==
    /\ Listener # NoMatch
    /\ job.matcher # NoMatch
    /\ job.matcher = MatchMessage(Msg, Listener.matchers)
    /\ ~IsActive(job.screened % Day, job.snap.quiet)

\* The scope and the authority of an acknowledgement.
Commanded == Listener # NoMatch /\ (Msg.fromMe \/ Listener.allowAdmin)

\* What each gate adds to the account of the reply.
Accounted ==
    /\ pc \in Steps => job.snap \in job.during
    /\ pc = "command" => Listener # NoMatch
    /\ pc \in Gates => Grounded
    /\ pc \in {"recordUser", "recordRate"} => job.answer \in job.matcher.answers
    /\ pc = "send" /\ IsAnswer(job) =>
         Grounded /\ job.answer \in job.matcher.answers
    /\ pc = "send" /\ ~IsAnswer(job) => Commanded
    /\ OneConfiguration

\* Accounted holds at first.
LEMMA AccountedInit == Init => Accounted
BY EmptySeq DEF Init, Accounted, Gates, Steps, OneConfiguration

\* When a reply is about to be sent, the snapshot of its job accounts for it.
LEMMA AccountComplete ==
    ASSUME IInv, Accounted, pc = "send"
    PROVE  AccountsFor(job.snap, job)
<1>1. job \in Jobs /\ job.snap \in Snapshots
    BY JobHeld DEF IInv, Steps, Jobs
<1>2. findListener(job.snap.listeners, Msg.group) # NoMatch
    BY DEF Accounted, Grounded, Commanded, Listener
<1>3. PICK i \in DOMAIN job.snap.listeners :
          /\ job.snap.listeners[i] = Listener
          /\ job.snap.listeners[i].group = Msg.group
          /\ \A j \in 1 .. i - 1 : job.snap.listeners[j].group # Msg.group
    BY <1>1, <1>2, ListenerFound DEF Listener
<1>4. CASE IsAnswer(job)
  <2>1. Listener \in ResolvedListeners
      BY <1>1, <1>2, ListenerTypes DEF Listener
  <2>2. \/ FirstToHit(job.matcher, Msg.words, Msg.mentioned, Listener.matchers)
        \/ FirstToHit(job.matcher, Msg.quotedWords, FALSE, Listener.matchers)
      BY <1>4, <2>1, MatchFound DEF Accounted, Grounded
  <2> QED BY <1>3, <1>4, <2>2 DEF Accounted, Grounded, AccountsFor, Msg
<1>5. CASE ~IsAnswer(job)
    BY <1>3, <1>5 DEF Accounted, Commanded, AccountsFor, Msg
<1> QED BY <1>4, <1>5

\* An account stays good while the history of deliveries grows.
LEMMA AccountsKept ==
    ASSUME NEW s, NEW r, delivered'[r.id] = delivered[r.id]
    PROVE  AccountsFor(s, r)' <=> AccountsFor(s, r)
BY DEF AccountsFor, FirstToHit, IsAnswer

\* What is accounted for stays so while outbox rests and deliveries only append.
LEMMA OneConfigurationKept ==
    ASSUME OneConfiguration, OthersOnly, UNCHANGED outbox,
           \A i \in 1 .. Len(delivered) : delivered'[i] = delivered[i]
    PROVE  OneConfiguration'
<1>1. ASSUME NEW i \in 1 .. Len(outbox), NEW r, r = outbox[i]
      PROVE  \E s \in r.during : AccountsFor(s, r)'
  <2>1. PICK s \in r.during : AccountsFor(s, r)
      BY <1>1 DEF OneConfiguration
  <2>2. delivered'[r.id] = delivered[r.id]
      BY <1>1 DEF OthersOnly
  <2> QED BY <2>1, <2>2, AccountsKept
<1>2. ASSUME NEW i \in 1 .. Len(outbox')
      PROVE  \E s \in outbox'[i].during : AccountsFor(s, outbox[i])'
  <2>1. PICK r : r = outbox[i] /\ r = outbox'[i]
      OBVIOUS
  <2>2. PICK s \in r.during : AccountsFor(s, r)'
      BY <1>1, <2>1
  <2> QED BY <2>1, <2>2 DEF AccountsFor, IsAnswer
<1> QED BY <1>2 DEF OneConfiguration

\* A step after which the job has the same grounds.
LEMMA AccountedKept ==
    ASSUME Accounted, OneConfiguration', pc' = pc,
           pc \in Steps => /\ Msg' = Msg
                           /\ job'.snap = job.snap /\ job'.snap \in job'.during
                           /\ job'.matcher = job.matcher
                           /\ job'.answer = job.answer
                           /\ job'.screened = job.screened
    PROVE  Accounted'
BY DEF Accounted, Grounded, Commanded, Listener, Gates, Steps, IsAnswer

\* A step after which the actor has no job.
LEMMA AccountedDone ==
    ASSUME OneConfiguration', pc' \in {"select", "returned"}
    PROVE  Accounted'
BY DEF Accounted, Gates, Steps

\* Only Send adds replies, and deliveries are only added.
LEMMA HistoryGrows ==
    ASSUME IInv, [Next]_vars
    PROVE  /\ ~Send => UNCHANGED <<outbox, answered>>
           /\ Len(delivered) \in Nat /\ Len(delivered') \in Nat
           /\ Len(delivered) <= Len(delivered')
           /\ \A i \in 1 .. Len(delivered) : delivered'[i] = delivered[i]
<1>0. Len(delivered) \in Nat
    BY LenProperties DEF IInv, TypeOK
<1>1. CASE Deliver
  <2>1. PICK msg \in Messages : delivered' = Append(delivered, msg)
      BY <1>1 DEF Deliver
  <2>2. /\ Len(delivered') = Len(delivered) + 1
        /\ \A i \in 1 .. Len(delivered) : delivered'[i] = delivered[i]
      BY <2>1, AppendProperties DEF IInv, TypeOK
  <2> QED BY <1>0, <1>1, <2>2 DEF Deliver
<1>2. CASE ~Deliver
  <2>1. (~Send => UNCHANGED <<outbox, answered>>) /\ UNCHANGED delivered
      BY <1>2 DEF Next, Actor, Receive, HandleCommand, Screen, CheckMatcher, CheckUser,
                  CheckRate, Pick, Panic, RecordUser, RecordRate, Send, Return, Reload,
                  Take, StopReplyLoop, Cancel, Reap, Tick, vars, channelVars
  <2> QED BY <1>0, <2>1
<1> QED BY <1>1, <1>2

\* The reply that Send appends is accounted for by the snapshot of its job.
LEMMA SendAccounted == ASSUME IInv, OthersOnly, Accounted, Send PROVE Accounted'
<1>0. PICK n \in Nat : n = Len(outbox)
    BY LenProperties DEF IInv, TypeOK
<1>1. PICK j \in Jobs : j = job
    BY JobHeld DEF IInv, Send, Steps
<1>2. pc = "send" /\ pc' = "select" /\ outbox' = Append(outbox, j) /\ UNCHANGED delivered
    BY <1>1 DEF Send, Finish
<1>3. /\ Len(outbox') = n + 1 /\ outbox'[n + 1] = j
      /\ \A i \in 1 .. n : outbox'[i] = outbox[i]
  <2>1. outbox \in Seq(Jobs)
      BY DEF IInv, TypeOK
  <2> QED BY <1>0, <1>1, <1>2, <2>1, AppendProperties
<1>4. AccountsFor(j.snap, j)' /\ j.snap \in j.during
  <2>1. AccountsFor(j.snap, j)
      BY <1>1, <1>2, AccountComplete
  <2> QED BY <1>1, <1>2, <2>1, AccountsKept DEF Accounted, Steps
<1>5. ASSUME NEW i \in 1 .. n + 1, NEW r, r = outbox'[i]
      PROVE  \E s \in r.during : AccountsFor(s, r)'
  <2>1. CASE i \in 1 .. n
    <3>1. PICK s \in r.during : AccountsFor(s, r)
        BY <1>0, <1>3, <1>5, <2>1 DEF Accounted, OneConfiguration
    <3> QED BY <1>2, <3>1, AccountsKept
  <2>2. CASE i = n + 1
      BY <1>3, <1>4, <1>5, <2>2
  <2> QED BY <2>1, <2>2
<1>6. ASSUME NEW i \in 1 .. n + 1
      PROVE  (\E s \in outbox[i].during : AccountsFor(s, outbox[i]))'
  <2>1. PICK r : r = outbox'[i]
      OBVIOUS
  <2>2. PICK s \in r.during : AccountsFor(s, r)'
      BY <1>5, <2>1
  <2> QED BY <2>1, <2>2 DEF AccountsFor, IsAnswer
<1>7. OneConfiguration'
    BY <1>3, <1>6 DEF OneConfiguration
<1> QED BY <1>2, <1>7, AccountedDone

\* The other steps of the actor add what their gate has found.
LEMMA ActorAccounted ==
    ASSUME IInv, OthersOnly, Accounted, OneConfiguration', Actor, ~Send
    PROVE  Accounted'
<1>0. CASE Finish \/ Return
    BY <1>0, AccountedDone DEF Finish, Return
<1>1. CASE Receive
  <2>1. PICK step \in {"command", "screen"} : (InScope /\ Proceed(step)) \/ Finish
      BY <1>1 DEF Receive
  <2>2. CASE InScope /\ Proceed(step)
    <3>1. job'.snap = snap /\ snap \in job'.during /\ pc' = step
        BY <2>2 DEF Proceed
    <3>2. Listener' # NoMatch
        BY <1>1, <2>2, <3>1 DEF Receive, InScope, Incoming, Proceed, Listener, Msg
    <3> QED BY <3>1, <3>2 DEF Accounted, Gates
  <2> QED BY <1>0, <2>1, <2>2
<1>2. CASE \E verdict : HandleCommand(verdict) /\ ~Finish
  <2>1. PICK verdict : HandleCommand(verdict) /\ ~Finish
      BY <1>2
  <2>2. job \in Jobs /\ job.matcher = NoMatch /\ pc = "command" /\ pc \in Steps
      BY <2>1, JobHeld DEF IInv, JobOK, HandleCommand, Steps
  <2>3. Authorized(verdict) /\ pc' = "send" /\ UNCHANGED delivered
        /\ job' = [job EXCEPT !.answer = Ack(Msg.text)]
      BY <2>1 DEF HandleCommand, channelVars
  <2>4. /\ job'.id = job.id /\ job'.snap = job.snap /\ job'.during = job.during
        /\ job'.matcher = NoMatch
      BY <2>2, <2>3 DEF Jobs
  <2>5. Listener' = Listener /\ Msg' = Msg
      BY <2>3, <2>4 DEF Listener, Msg
  <2>6. Commanded'
      BY <2>2, <2>3, <2>5 DEF Accounted, Commanded, Authorized
  <2> QED BY <2>2, <2>3, <2>4, <2>6 DEF Accounted, Gates, IsAnswer
<1>3. CASE Screen /\ ~Finish
  <2> DEFINE m == MatchMessage(Msg, Listener.matchers)
  <2>1. /\ job \in Jobs /\ pc \in Steps /\ Listener # NoMatch
        /\ UNCHANGED delivered
      BY <1>3, JobHeld DEF IInv, JobOK, Screen, Steps, channelVars
  <2>2. /\ m # NoMatch /\ ~IsActive(now % Day, job.snap.quiet)
        /\ pc' = "cooldown" /\ job' = [job EXCEPT !.matcher = m, !.screened = now]
      BY <1>3 DEF Screen
  <2> HIDE DEF m
  <2>3. /\ job'.id = job.id /\ job'.snap = job.snap /\ job'.during = job.during
        /\ job'.matcher = m /\ job'.screened = now
      BY <2>1, <2>2 DEF Jobs
  <2>4. Listener' = Listener /\ Msg' = Msg
      BY <2>1, <2>3 DEF Listener, Msg
  <2>5. Grounded'
      BY <2>1, <2>2, <2>3, <2>4 DEF Grounded, m
  <2> QED BY <2>1, <2>2, <2>3, <2>5 DEF Accounted
<1>4. CASE ~Finish /\ (CheckMatcher \/ CheckUser \/ CheckRate)
  <2>1. pc \in Gates /\ pc' \in {"user", "rate", "pick"} /\ UNCHANGED <<job, delivered>>
      BY <1>4 DEF CheckMatcher, CheckUser, CheckRate, Gates, channelVars
  <2>2. Grounded'
      BY <2>1 DEF Accounted, Grounded, Listener, Msg
  <2> QED BY <2>1, <2>2 DEF Accounted, Gates, Steps
<1>5. CASE Pick
  <2>1. PICK answer \in job.matcher.answers :
            job' = [job EXCEPT !.answer = answer, !.fired = now]
      BY <1>5 DEF Pick
  <2>2. /\ job \in Jobs /\ pc \in Gates /\ pc \in Steps /\ pc' = "recordUser"
        /\ UNCHANGED delivered
      BY <1>5, JobHeld DEF IInv, Pick, Gates, Steps, channelVars
  <2>3. /\ job'.id = job.id /\ job'.snap = job.snap /\ job'.during = job.during
        /\ job'.matcher = job.matcher /\ job'.screened = job.screened
        /\ job'.answer = answer
      BY <2>1, <2>2 DEF Jobs
  <2>4. Grounded'
      BY <2>2, <2>3 DEF Accounted, Grounded, Listener, Msg
  <2> QED BY <2>2, <2>3, <2>4 DEF Accounted
<1>6. CASE RecordUser \/ RecordRate
  <2>1. /\ pc \in {"recordUser", "recordRate"} /\ pc' \in {"recordRate", "send"}
        /\ UNCHANGED <<job, delivered>>
      BY <1>6 DEF RecordUser, RecordRate, channelVars
  <2>2. Grounded' /\ IsAnswer(job)' /\ job'.answer \in job'.matcher.answers
      BY <2>1 DEF Accounted, Grounded, Listener, Msg, Gates, IsAnswer
  <2> QED BY <2>1, <2>2 DEF Accounted, Gates, Steps
<1>7. CASE Panic
    BY <1>7 DEF Panic, Accounted, Gates, Steps
<1> QED BY <1>0, <1>1, <1>2, <1>3, <1>4, <1>5, <1>6, <1>7 DEF Actor

\* Accounted goes on holding.
LEMMA AccountedNext == IInv /\ OthersOnly /\ Accounted /\ [Next]_vars => Accounted'
<1> SUFFICES ASSUME IInv, OthersOnly, Accounted, [Next]_vars PROVE Accounted'
    OBVIOUS
<1>1. CASE Send
    BY <1>1, SendAccounted
<1>2. CASE ~Send
  <2>1. OneConfiguration'
      BY <1>2, HistoryGrows, OneConfigurationKept DEF Accounted
  <2>2. CASE Actor
      BY <1>2, <2>1, <2>2, ActorAccounted
  <2>3. CASE Deliver \/ Reload \/ Take \/ StopReplyLoop \/ Cancel \/ Reap \/ Tick
               \/ UNCHANGED vars
    <3>1. pc' = pc
        BY <2>3 DEF Deliver, Reload, Take, StopReplyLoop, Cancel, Reap, Tick, vars, actorVars
    <3>2. pc \in Steps => /\ job'.id = job.id /\ job'.snap = job.snap
                          /\ job'.matcher = job.matcher /\ job'.answer = job.answer
                          /\ job'.screened = job.screened
                          /\ job.during \subseteq job'.during
      <4>1. CASE Reload
          BY <4>1, JobHeld DEF IInv, Reload, Swapped, Jobs
      <4>2. CASE ~Reload
          BY <2>3, <4>2 DEF Deliver, Take, StopReplyLoop, Cancel, Reap, Tick, vars, actorVars
      <4> QED BY <4>1, <4>2
    <3>3. pc \in Steps => Msg' = Msg /\ job'.snap \in job'.during
        BY <3>2, HistoryGrows, JobHeld DEF IInv, Msg, Accounted
    <3> QED BY <2>1, <3>1, <3>2, <3>3, AccountedKept
  <2> QED BY <2>2, <2>3 DEF Next
<1> QED BY <1>1, <1>2

(* Some snapshot in force while the message was handled accounts for the   *)
(* scope, the authority or the match, the answer and the quiet hours of    *)
(* its reply, however often the store is swapped (pipeline.go:69).         *)
THEOREM DecidedUnderOne == Spec => []OneConfiguration
<1>1. Accounted => OneConfiguration
    BY DEF Accounted
<1> QED BY <1>1, Invariant, OthersOnlyInit, OthersOnlyNext, AccountedInit, AccountedNext,
           PTL DEF Spec
-----------------------------------------------------------------------------
(* Cooldowns and caps count exactly the answers, and the cooldowns keep    *)
(* them apart.                                                             *)

Places == 1 .. Len(answered)

\* The actor has an answer in hand that has fired.
Firing == \/ pc \in {"recordUser", "recordRate"}
          \/ pc = "send" /\ IsAnswer(job)

\* The keys under which Record has stored it so far.
StoredKeys == IF pc = "recordUser" THEN {CD!MatcherKey(job.matcher.name)}
              ELSE IF Firing THEN KeysOf(job) ELSE {}

\* The answer put on outCh at place i is one that key k stands for.
Bears(i, k) == k \in KeysOf(answered[i])

\* Key k has last fired at time v, or never.
LastFire(k, v) ==
    IF k \in StoredKeys THEN v = job.fired
    ELSE \/ v = CD!Never /\ \A i \in Places : ~Bears(i, k)
         \/ \E i \in Places : /\ Bears(i, k) /\ v = answered[i].fired
                              /\ \A j \in i + 1 .. Len(answered) : ~Bears(j, k)

\* Some fire of key k is older than the reaper's expiry.
Expired(k) ==
    \/ k \in StoredKeys /\ now - job.fired > Expiry
    \/ \E i \in Places : Bears(i, k) /\ now - answered[i].fired > Expiry

\* Answers were given for messages that were delivered, one after another.
HistoryOK ==
    /\ \A i \in Places : /\ answered[i].id \in 1 .. Len(delivered)
                         /\ answered[i].matcher \in ResolvedMatchers
                         /\ answered[i].fired <= now
    /\ \A i, j \in Places : i < j => answered[i].fired <= answered[j].fired
    /\ Firing => /\ job.fired <= now
                 /\ \A i \in Places : answered[i].fired <= job.fired

\* The tracker's maps hold the last fires, or else the reaper deleted them;
\* what the reaper is about to delete once fired long enough ago.
MapsOK ==
    /\ \A k \in CD!Keys : LastFire(k, recorded[k])
    /\ \A k \in DOMAIN fired : fired[k] = recorded[k] /\ recorded[k] # CD!Never
    /\ \A k \in CD!Keys \ DOMAIN fired : recorded[k] = CD!Never \/ Expired(k)
    /\ reaper.left \cap reaper.doomed = {}
    /\ reaper.left \subseteq DOMAIN fired
    /\ \A k \in reaper.doomed : Expired(k)

\* Key k does not forbid an answer under cooldown c at the time of the call.
Permits(k, c) ==
    \/ \A i \in Places : Bears(i, k) => call.at - answered[i].fired >= c
    \/ Expired(k)

\* The tracker's call is the one for the job in hand, and each gate that it
\* has passed stays passed.
CallOK ==
    /\ pc \in {"user", "rate", "pick", "recordUser"} =>
         /\ call \in CD!Calls /\ call.at <= now
         /\ call.m = job.matcher.name /\ call.u = Msg.sender
         /\ call.mc = job.matcher.cooldown /\ call.uc = job.snap.userCooldown
    /\ pc \notin {"user", "rate", "pick", "recordUser", "panicked"} => call = CD!Idle
    /\ pc \in {"user", "rate", "pick"} => Permits(CD!MatcherKey(call.m), call.mc)
    /\ pc \in {"rate", "pick"} => Permits(CD!UserKey(call.m, call.u), call.uc)
    /\ pc = "recordUser" => call.at = job.fired

\* The fire that the limiter knows is that of the answer.
CountedAs(fire, answer) == fire.caps = answer.snap.rateCap /\ fire.at >= answer.fired

\* The limiter's permission is the one for the job in hand, and every fire it
\* knows of is that of an answer.
FiresOK ==
    LET n == Len(answered)
        recordedFire == pc = "send" /\ IsAnswer(job)
    IN  /\ pc \in {"pick", "recordUser", "recordRate"} => grant = job.snap.rateCap
        /\ Len(fires) = n + (IF recordedFire THEN 1 ELSE 0)
        /\ \A i \in 1 .. n : CountedAs(fires[i], answered[i])
        /\ recordedFire => CountedAs(fires[n + 1], job)

\* Answer b keeps its cooldowns after answer a.
Apart(a, b) ==
    a.matcher.name = b.matcher.name =>
        /\ b.fired - a.fired >= b.matcher.cooldown
        /\ delivered[a.id].sender = delivered[b.id].sender =>
             b.fired - a.fired >= b.snap.userCooldown

\* Answer b keeps its cooldowns after the first n answers, with the exceptions
\* of AnswersSpaced.
SpacedAfter(n, b) ==
    \A i \in 1 .. n :
        \/ Apart(answered[i], b)
        \/ \E h \in 1 .. i : /\ answered[h].matcher.name = b.matcher.name
                             /\ b.fired - answered[h].fired > Expiry

SpacingOK ==
    /\ \A j \in Places : SpacedAfter(j - 1, answered[j])
    /\ Firing => SpacedAfter(Len(answered), job)

\* The variables of the tracker and of the limiter keep their types.
TrackerTypes ==
    /\ DOMAIN fired \subseteq CD!Keys
    /\ recorded \in [CD!Keys -> (0 .. MaxTime) \cup {CD!Never}]
    /\ reaper \in CD!Rounds \cup {CD!Resting} /\ reaper.at <= now
    /\ fires \in Seq([at : 0 .. MaxTime, caps : Caps])

CountInv == TrackerTypes /\ HistoryOK /\ MapsOK /\ CallOK /\ FiresOK /\ SpacingOK
-----------------------------------------------------------------------------
(* The invariant holds at first, and is disturbed only by the steps of the *)
(* tracker and the limiter and by Send.                                    *)

\* Types in a state of the invariant.
LEMMA AnsweredTypes ==
    ASSUME IInv
    PROVE  /\ Len(answered) \in Nat /\ now \in Int /\ Expiry \in Int
           /\ \A i \in Places : answered[i] \in Jobs /\ answered[i].fired \in Int
           /\ pc \in Steps => job \in Jobs /\ job.fired \in Int
<1>1. answered \in Seq(Jobs) /\ now \in 0 .. MaxTime /\ MaxTime \in Nat
    BY PipelineAssumption DEF IInv, TypeOK
<1>2. Len(answered) \in Nat /\ \A i \in Places : answered[i] \in Jobs
    BY <1>1, LenProperties, ElementOfSeq DEF Places
<1>3. \A j \in Jobs : j.fired \in Int
    BY <1>1 DEF Jobs
<1>4. Expiry \in Int
    BY ComponentAssumption DEF CD!CooldownAssumption
<1> QED BY <1>1, <1>2, <1>3, <1>4, JobHeld DEF IInv

\* CountInv holds at first: nothing is stored and nothing was answered.
LEMMA CountInit == Init => CountInv
<1> SUFFICES ASSUME Init PROVE CountInv
    OBVIOUS
<1>1. /\ answered = << >> /\ fires = << >> /\ Len(<< >>) = 0
      /\ Places = {} /\ MaxTime \in Nat
    BY EmptySeq, PipelineAssumption DEF Init, RL!Init, Places
<1>2. /\ now = 0 /\ fired = [k \in {} |-> CD!Never] /\ call = CD!Idle
      /\ reaper = CD!Resting /\ recorded = [k \in CD!Keys |-> CD!Never]
      /\ pc = "select"
    BY DEF Init, CD!Init
<1>3. ~Firing /\ StoredKeys = {}
    BY <1>2 DEF Firing, StoredKeys
<1>4. TrackerTypes
  <2>1. fires \in Seq([at : 0 .. MaxTime, caps : Caps])
      BY <1>1, EmptySeq
  <2> QED BY <1>1, <1>2, <2>1 DEF TrackerTypes, CD!Resting
<1>5. HistoryOK /\ SpacingOK /\ FiresOK /\ CallOK
    BY <1>1, <1>2, <1>3 DEF HistoryOK, SpacingOK, FiresOK, CallOK
<1>6. MapsOK
  <2>1. \A k \in CD!Keys : LastFire(k, recorded[k])
      BY <1>1, <1>2, <1>3 DEF LastFire
  <2> QED BY <1>2, <2>1 DEF MapsOK, CD!Resting
<1> QED BY <1>4, <1>5, <1>6 DEF CountInv

\* Time does not go back.
LEMMA ClockGrows == ASSUME IInv, [Next]_vars PROVE now' \in Int /\ now <= now'
<1>1. now \in Int
    BY AnsweredTypes
<1>2. CASE Tick
    BY <1>1, <1>2 DEF Tick, CD!Tick
<1>3. CASE ~Tick
  <2>1. UNCHANGED now
    <3>1. CASE Actor
        BY <3>1 DEF Actor, Receive, HandleCommand, Screen, CheckMatcher, CheckUser,
                    CheckRate, Pick, Panic, RecordUser, RecordRate, Send, Return,
                    CD!BeginAllow, CD!AllowUser, CD!DenyUser, CD!Forgo, CD!RecordMatcher,
                    CD!RecordUser, RL!Grant, RL!Refuse, RL!Pruned, RL!Record
    <3>2. CASE Deliver \/ Reload \/ Take \/ StopReplyLoop \/ Cancel \/ UNCHANGED vars
        BY <3>2 DEF Deliver, Reload, Take, StopReplyLoop, Cancel, vars
    <3>3. CASE Reap
        BY <3>3 DEF Reap, CD!Reaper, CD!ReapBegin, CD!ReapVisit, CD!ReapDelete,
                    CD!ReapUsers, CD!ReapEnd
    <3> QED BY <1>3, <3>1, <3>2, <3>3 DEF Next
  <2> QED BY <1>1, <2>1
<1> QED BY <1>2, <1>3

\* Nothing is put on outCh and no answer fires or is let go.
Undisturbed ==
    /\ UNCHANGED answered
    /\ Firing' <=> Firing
    /\ Firing => /\ pc' = pc \/ (pc = "recordRate" /\ pc' = "send")
                 /\ job'.id = job.id /\ job'.matcher = job.matcher
                 /\ job'.snap = job.snap /\ job'.fired = job.fired

\* Such a step keeps the history, and fires only grow older.
LEMMA Frame ==
    ASSUME IInv, HistoryOK, [Next]_vars, Undisturbed
    PROVE  /\ Places' = Places
           /\ \A i \in Places : \A k : Bears(i, k)' <=> Bears(i, k)
           /\ StoredKeys' = StoredKeys
           /\ \A k, v : LastFire(k, v)' <=> LastFire(k, v)
           /\ \A k : Expired(k) => Expired(k)'
           /\ HistoryOK'
           /\ SpacingOK => SpacingOK'
<1>0. /\ UNCHANGED answered /\ (Firing' <=> Firing)
      /\ Firing => /\ pc' = pc \/ (pc = "recordRate" /\ pc' = "send")
                   /\ job'.id = job.id /\ job'.matcher = job.matcher
                   /\ job'.snap = job.snap /\ job'.fired = job.fired
      /\ now' \in Int /\ now <= now'
      /\ Len(delivered) \in Nat /\ Len(delivered') \in Nat
      /\ Len(delivered) <= Len(delivered')
      /\ \A i \in 1 .. Len(delivered) : delivered'[i] = delivered[i]
    BY ClockGrows, HistoryGrows DEF Undisturbed
<1>1. Places' = Places /\ Len(answered') = Len(answered)
    BY <1>0 DEF Places
<1>2. \A i \in Places : /\ answered'[i] = answered[i]
                        /\ answered[i].id \in 1 .. Len(delivered)
                        /\ delivered'[answered[i].id] = delivered[answered[i].id]
    BY <1>0 DEF HistoryOK
<1>3. \A i \in Places : \A k : Bears(i, k)' <=> Bears(i, k)
    BY <1>2 DEF Bears, KeysOf
<1>4. Firing => /\ job.id \in 1 .. Len(delivered) /\ job.fired \in Int
                /\ pc \in Steps
    BY JobHeld, AnsweredTypes DEF IInv, Firing, Steps
<1>5. (Firing' <=> Firing) /\ (Firing => job'.fired = job.fired)
    BY <1>0
<1>6. StoredKeys' = StoredKeys /\ (StoredKeys # {} => Firing)
  <2>1. CASE Firing
    <3>1. /\ pc' = pc \/ (pc = "recordRate" /\ pc' = "send")
          /\ job'.id = job.id /\ job'.matcher = job.matcher
          /\ delivered'[job.id] = delivered[job.id]
        BY <1>0, <1>4, <2>1
    <3>2. KeysOf(job)' = KeysOf(job)
        BY <3>1 DEF KeysOf
    <3> QED BY <1>5, <2>1, <3>1, <3>2 DEF StoredKeys
  <2>2. CASE ~Firing
      BY <1>5, <2>2 DEF StoredKeys, Firing
  <2> QED BY <2>1, <2>2
<1>7. \A k, v : LastFire(k, v)' <=> LastFire(k, v)
  <2>1. \A i \in Places : \A j \in i + 1 .. Len(answered) : j \in Places
      BY AnsweredTypes DEF Places
  <2> QED BY <1>1, <1>2, <1>3, <1>5, <1>6, <2>1 DEF LastFire
<1>8. ASSUME NEW k, Expired(k) PROVE Expired(k)'
  <2>1. CASE k \in StoredKeys /\ now - job.fired > Expiry
      BY <1>0, <1>4, <1>5, <1>6, <2>1, AnsweredTypes DEF Expired
  <2>2. CASE \E i \in Places : Bears(i, k) /\ now - answered[i].fired > Expiry
    <3>1. PICK i \in Places : Bears(i, k) /\ now - answered[i].fired > Expiry
        BY <2>2
    <3>2. Bears(i, k)' /\ now' - answered'[i].fired > Expiry
        BY <1>0, <1>2, <1>3, <3>1, AnsweredTypes
    <3> QED BY <1>1, <3>2 DEF Expired
  <2> QED BY <1>8, <2>1, <2>2 DEF Expired
<1>9. HistoryOK'
    BY <1>0, <1>1, <1>2, <1>4, <1>5, AnsweredTypes DEF HistoryOK
<1>10. ASSUME SpacingOK PROVE SpacingOK'
  <2>1. ASSUME NEW n \in Nat, n <= Len(answered), NEW b, b.id \in 1 .. Len(delivered),
               SpacedAfter(n, b)
        PROVE  SpacedAfter(n, b)'
    <3>1. \A i \in 1 .. n : i \in Places /\ \A h \in 1 .. i : h \in Places
        BY <2>1, AnsweredTypes DEF Places
    <3> QED BY <1>0, <1>2, <2>1, <3>1 DEF SpacedAfter, Apart
  <2>2. ASSUME NEW j \in Places PROVE SpacedAfter(j - 1, answered[j])'
    <3>1. PICK b : b = answered[j] /\ b = answered'[j] /\ b.id \in 1 .. Len(delivered)
        BY <1>2
    <3>2. SpacedAfter(j - 1, b) /\ j - 1 \in Nat /\ j - 1 <= Len(answered)
        BY <1>0, <1>10, <3>1, AnsweredTypes DEF SpacingOK, Places
    <3>3. SpacedAfter(j - 1, b)'
        BY <2>1, <3>1, <3>2
    <3> QED BY <3>1, <3>3 DEF SpacedAfter, Apart
  <2>3. ASSUME Firing PROVE SpacedAfter(Len(answered), job)'
    <3>1. SpacedAfter(Len(answered), job)
        BY <1>10, <2>3 DEF SpacingOK
    <3>2. PICK b : b = job
        OBVIOUS
    <3>3. SpacedAfter(Len(answered), b)'
        BY <1>0, <1>4, <2>1, <2>3, <3>1, <3>2, AnsweredTypes
    <3>4. job'.id = b.id /\ job'.matcher = b.matcher /\ job'.snap = b.snap
          /\ job'.fired = b.fired
        BY <1>0, <1>4, <2>3, <3>2
    <3> QED BY <1>1, <3>3, <3>4 DEF SpacedAfter, Apart
  <2> QED BY <1>1, <1>5, <2>2, <2>3 DEF SpacingOK
<1> QED BY <1>1, <1>3, <1>6, <1>7, <1>8, <1>9, <1>10

\* If the step also leaves alone what the tracker and the limiter remember,
\* only the call and the permission may have changed.
LEMMA Remembered ==
    ASSUME IInv, CountInv, [Next]_vars, Undisturbed,
           UNCHANGED <<fired, reaper, recorded, fires>>
    PROVE  /\ TrackerTypes' /\ HistoryOK' /\ MapsOK' /\ SpacingOK'
           /\ \A k, c : call' = call /\ Permits(k, c) => Permits(k, c)'
           /\ (/\ pc # "recordRate" \/ pc' = pc
               /\ pc' \in {"pick", "recordUser", "recordRate"} =>
                    grant' = job'.snap.rateCap) => FiresOK'
<1>1. /\ Places' = Places /\ StoredKeys' = StoredKeys /\ HistoryOK' /\ SpacingOK'
      /\ \A i \in Places : \A k : Bears(i, k)' <=> Bears(i, k)
      /\ \A k, v : LastFire(k, v)' <=> LastFire(k, v)
      /\ \A k : Expired(k) => Expired(k)'
    BY Frame DEF CountInv
<1>2. TrackerTypes'
  <2>1. reaper.at \in Int
      BY PipelineAssumption DEF CountInv, TrackerTypes, CD!Rounds, CD!Resting, CD!Time
  <2>2. reaper'.at <= now'
      BY <2>1, ClockGrows, AnsweredTypes DEF CountInv, TrackerTypes
  <2> QED BY <2>2 DEF CountInv, TrackerTypes
<1>3. MapsOK'
    BY <1>1 DEF CountInv, MapsOK
<1>4. \A k, c : call' = call /\ Permits(k, c) => Permits(k, c)'
    BY <1>1 DEF Permits, Undisturbed
<1>5. ASSUME pc # "recordRate" \/ pc' = pc,
             pc' \in {"pick", "recordUser", "recordRate"} => grant' = job'.snap.rateCap
      PROVE  FiresOK'
  <2>1. (pc = "send" /\ IsAnswer(job))' <=> (pc = "send" /\ IsAnswer(job))
      BY <1>5 DEF Undisturbed, Firing, IsAnswer
  <2>2. pc = "send" /\ IsAnswer(job) =>
          job'.snap = job.snap /\ job'.fired = job.fired
      BY DEF Undisturbed, Firing
  <2> QED BY <1>5, <2>1, <2>2 DEF CountInv, FiresOK, CountedAs, Undisturbed
<1> QED BY <1>1, <1>2, <1>3, <1>4, <1>5

\* A step that concerns neither the tracker nor the limiter.
LEMMA Aside ==
    ASSUME IInv, CountInv, [Next]_vars, Undisturbed,
           UNCHANGED <<fired, reaper, recorded, fires, call, grant>>,
           \/ /\ pc' = pc
              /\ pc \in Steps => job'.id = job.id /\ job'.matcher = job.matcher
                                 /\ job'.snap = job.snap
           \/ /\ pc' \notin {"user", "rate", "pick", "recordUser", "recordRate"}
              /\ \/ pc \notin {"user", "rate", "pick", "recordUser", "recordRate",
                             "panicked"}
                 \/ pc = "pick" /\ pc' = "panicked"
    PROVE  CountInv'
<1>1. /\ TrackerTypes' /\ HistoryOK' /\ MapsOK' /\ SpacingOK'
      /\ \A k, c : Permits(k, c) => Permits(k, c)'
      /\ (pc' \in {"pick", "recordUser", "recordRate"} =>
            grant' = job'.snap.rateCap) => FiresOK'
    BY Remembered DEF CountInv
<1>2. CASE /\ pc' = pc
           /\ pc \in Steps => job'.id = job.id /\ job'.matcher = job.matcher
                              /\ job'.snap = job.snap
  <2>1. FiresOK'
      BY <1>1, <1>2 DEF CountInv, FiresOK, Steps
  <2>2. pc \in Steps => Msg' = Msg
      BY <1>2, JobHeld, HistoryGrows DEF IInv, Msg
  <2>3. ASSUME pc \in {"user", "rate", "pick", "recordUser"}
        PROVE  /\ call' \in CD!Calls /\ call'.at <= now'
               /\ call'.m = job'.matcher.name /\ call'.u = Msg'.sender
               /\ call'.mc = job'.matcher.cooldown /\ call'.uc = job'.snap.userCooldown
    <3>1. /\ call \in CD!Calls /\ call.at <= now /\ call.at \in Int
          /\ call.m = job.matcher.name /\ call.u = Msg.sender
          /\ call.mc = job.matcher.cooldown /\ call.uc = job.snap.userCooldown
        BY <2>3, PipelineAssumption DEF CountInv, CallOK, CD!Calls, CD!Time
    <3>2. call'.at <= now'
        BY <3>1, ClockGrows, AnsweredTypes
    <3> QED BY <1>2, <2>2, <2>3, <3>1, <3>2 DEF Steps
  <2>4. pc = "recordUser" => job'.fired = job.fired
      BY DEF Undisturbed, Firing
  <2>5. CallOK'
      BY <1>1, <1>2, <2>3, <2>4 DEF CountInv, CallOK
  <2> QED BY <1>1, <2>1, <2>5 DEF CountInv
<1>3. CASE /\ pc' \notin {"user", "rate", "pick", "recordUser", "recordRate"}
           /\ \/ pc \notin {"user", "rate", "pick", "recordUser", "recordRate",
                             "panicked"}
              \/ pc = "pick" /\ pc' = "panicked"
  <2>1. CallOK'
      BY <1>3 DEF CountInv, CallOK
  <2> QED BY <1>1, <1>3, <2>1 DEF CountInv
<1> QED BY <1>2, <1>3

\* The actor's steps outside the gates, and those of the other goroutines.
LEMMA ActorAside ==
    ASSUME IInv, CountInv, [Next]_vars,
           \/ Receive \/ Screen \/ Panic \/ Return
           \/ \E verdict : HandleCommand(verdict)
           \/ Send /\ ~IsAnswer(job)
           \/ CheckMatcher /\ Finish
    PROVE  CountInv'
<1> USE DEF cooldownVars, limiterVars, channelVars
<1>1. CASE Receive \/ Screen \/ Panic \/ Return
  <2>1. /\ pc' \notin {"user", "rate", "pick", "recordUser", "recordRate", "send"}
        /\ pc \notin {"user", "rate", "recordUser", "recordRate", "send", "panicked"}
        /\ pc = "pick" => pc' = "panicked"
        /\ UNCHANGED <<answered, fired, reaper, recorded, fires, call, grant>>
      BY <1>1 DEF Receive, Screen, Panic, Return, Finish, Proceed
  <2> QED BY <2>1, Aside DEF Undisturbed, Firing
<1>2. CASE \E verdict : HandleCommand(verdict)
  <2>1. job \in Jobs /\ job.matcher = NoMatch /\ pc = "command"
      BY <1>2, JobHeld DEF IInv, JobOK, HandleCommand, Steps
  <2>2. pc' = "send" => job'.matcher = NoMatch
      BY <1>2, <2>1 DEF HandleCommand, Finish, Jobs
  <2>3. /\ pc' \in {"send", "select"}
        /\ UNCHANGED <<answered, fired, reaper, recorded, fires, call, grant>>
      BY <1>2 DEF HandleCommand, Finish
  <2> QED BY <2>1, <2>2, <2>3, Aside DEF Undisturbed, Firing, IsAnswer
<1>3. CASE Send /\ ~IsAnswer(job)
  <2>1. /\ pc = "send" /\ pc' = "select"
        /\ UNCHANGED <<answered, fired, reaper, recorded, fires, call, grant>>
      BY <1>3 DEF Send, Finish
  <2> QED BY <1>3, <2>1, Aside DEF Undisturbed, Firing
<1>4. CASE CheckMatcher /\ Finish
  <2>1. /\ pc = "cooldown" /\ pc' = "select"
        /\ UNCHANGED <<answered, fired, reaper, recorded, fires, call, grant>>
      BY <1>4 DEF CheckMatcher, Finish
  <2> QED BY <2>1, Aside DEF Undisturbed, Firing
<1> QED BY <1>1, <1>2, <1>3, <1>4

\* Deliveries, reloads, the channels and the clock disturb none of it.
LEMMA OthersAside ==
    ASSUME IInv, CountInv, [Next]_vars,
           \/ Deliver \/ Reload \/ Take \/ StopReplyLoop \/ Cancel \/ Tick
           \/ UNCHANGED vars
    PROVE  CountInv'
<1>1. UNCHANGED <<pc, answered, fired, reaper, recorded, fires, call, grant>>
    BY DEF Deliver, Reload, Take, StopReplyLoop, Cancel, Tick, CD!Tick, vars,
           actorVars, channelVars, cooldownVars, limiterVars
<1>2. pc \in Steps => /\ job'.id = job.id /\ job'.matcher = job.matcher
                      /\ job'.snap = job.snap /\ job'.fired = job.fired
  <2>1. CASE Reload
      BY <2>1, JobHeld DEF IInv, Reload, Swapped, Jobs
  <2>2. CASE ~Reload
      BY <2>2 DEF Deliver, Take, StopReplyLoop, Cancel, Tick, vars, actorVars
  <2> QED BY <2>1, <2>2
<1>3. Undisturbed
    BY <1>1, <1>2 DEF Undisturbed, Firing, IsAnswer, Steps
<1> QED BY <1>1, <1>2, <1>3, Aside

\* What OffCooldown has seen in the maps, it has seen of the answers.
LEMMA OffCooldownPermits ==
    ASSUME IInv, CountInv, NEW k \in CD!Keys, NEW t \in Int, NEW c \in Int,
           StoredKeys = {}, CD!OffCooldown(k, t, c)
    PROVE  \/ \A i \in Places : Bears(i, k) => t - answered[i].fired >= c
           \/ Expired(k)
<1>1. LastFire(k, recorded[k])
    BY DEF CountInv, MapsOK
<1>2. CASE \A i \in Places : ~Bears(i, k)
    BY <1>2
<1>3. CASE k \notin DOMAIN fired
  <2>1. recorded[k] = CD!Never \/ Expired(k)
      BY <1>3 DEF CountInv, MapsOK
  <2>2. CASE recorded[k] = CD!Never
    <3>1. \A i \in Places : answered[i].fired # CD!Never
        BY AnsweredTypes, PipelineAssumption DEF CD!Never, Jobs
    <3> QED BY <1>1, <2>2, <3>1 DEF LastFire
  <2> QED BY <2>1, <2>2
<1>4. CASE k \in DOMAIN fired
  <2>1. t - recorded[k] >= c /\ recorded[k] # CD!Never
      BY <1>4 DEF CountInv, MapsOK, CD!OffCooldown
  <2>2. PICK i \in Places : /\ Bears(i, k) /\ recorded[k] = answered[i].fired
                            /\ \A j \in i + 1 .. Len(answered) : ~Bears(j, k)
      BY <1>1, <2>1 DEF LastFire
  <2>3. ASSUME NEW j \in Places, Bears(j, k) PROVE t - answered[j].fired >= c
    <3>1. j <= i
        BY <2>2, <2>3, AnsweredTypes DEF Places
    <3>2. answered[j].fired <= answered[i].fired
        BY <3>1, AnsweredTypes DEF CountInv, HistoryOK, Places
    <3> QED BY <2>1, <2>2, <3>2, AnsweredTypes
  <2> QED BY <2>3
<1> QED BY <1>2, <1>3, <1>4

\* Cooldowns are numbers.
LEMMA CooldownTypes == MatcherCooldowns \subseteq Int /\ UserCooldowns \subseteq Int
BY ComponentAssumption DEF CD!CooldownAssumption

\* The matcher's gate, granted or refused.
LEMMA CheckMatcherCounts ==
    ASSUME IInv, CountInv, [Next]_vars, CheckMatcher
    PROVE  CountInv'
<1>1. CASE Finish
    BY <1>1, ActorAside
<1>2. CASE /\ CD!BeginAllow(job.matcher.name, Msg.sender,
                            job.matcher.cooldown, job.snap.userCooldown)
           /\ pc' = "user" /\ UNCHANGED job
  <2>1. /\ pc = "cooldown" /\ UNCHANGED <<answered, delivered, now, fired, reaper, recorded,
                                          fires, grant, job>>
      BY <1>2 DEF CheckMatcher, CD!BeginAllow, channelVars, limiterVars
  <2>2. /\ job \in Jobs /\ Msg \in Messages /\ job.matcher \in ResolvedMatchers
        /\ now \in 0 .. MaxTime /\ now \in Int
      BY <2>1, JobHeld, PipelineAssumption DEF IInv, TypeOK, JobOK, Steps, Gates
  <2>3. /\ job.matcher.name \in Matchers /\ Msg.sender \in Users
        /\ job.matcher.cooldown \in MatcherCooldowns /\ job.matcher.cooldown \in Int
        /\ job.snap.userCooldown \in UserCooldowns
    <3>1. job.snap \in Snapshots
        BY <2>2 DEF Jobs
    <3>2. /\ job.matcher.name \in Matchers /\ Msg.sender \in Users
          /\ job.matcher.cooldown \in MatcherCooldowns
          /\ job.snap.userCooldown \in UserCooldowns
        BY <2>2, <3>1, PipelineAssumption
    <3> QED BY <3>2, CooldownTypes
  <2>4. /\ call' \in CD!Calls /\ call'.at = now
        /\ call'.m = job.matcher.name /\ call'.u = Msg.sender
        /\ call'.mc = job.matcher.cooldown /\ call'.uc = job.snap.userCooldown
      BY <1>2, <2>2, <2>3 DEF CD!BeginAllow, CD!Calls, CD!Time
  <2>5. Undisturbed /\ StoredKeys = {} /\ ~Firing
      BY <1>2, <2>1 DEF Undisturbed, Firing, StoredKeys
  <2>6. /\ TrackerTypes' /\ HistoryOK' /\ MapsOK' /\ SpacingOK' /\ FiresOK'
      BY <1>2, <2>1, <2>5, Remembered
  <2>7. Permits(CD!MatcherKey(call.m), call.mc)'
    <3>0. PICK k : k = CD!MatcherKey(job.matcher.name)
        OBVIOUS
    <3>1. CD!OffCooldown(k, now, job.matcher.cooldown)
        BY <1>2, <3>0 DEF CD!BeginAllow
    <3>2. k \in CD!Keys
        BY <2>3, <3>0 DEF CD!MatcherKey, CD!MatcherKeys, CD!Keys
    <3>3. \/ \A i \in Places : Bears(i, k) => now - answered[i].fired >= job.matcher.cooldown
          \/ Expired(k)
        BY <2>2, <2>3, <2>5, <3>1, <3>2, OffCooldownPermits
    <3>4. /\ Places' = Places /\ \A i \in Places : Bears(i, k)' <=> Bears(i, k)
          /\ Expired(k) => Expired(k)'
        BY <2>5, Frame DEF CountInv
    <3>5. CD!MatcherKey(call'.m) = k
        BY <2>4, <3>0 DEF CD!MatcherKey
    <3> QED BY <2>1, <2>4, <3>3, <3>4, <3>5 DEF Permits
  <2>8. CallOK'
    <3>1. Msg' = Msg
        BY <2>1 DEF Msg
    <3> QED BY <1>2, <2>1, <2>2, <2>4, <2>7, <3>1 DEF CallOK
  <2> QED BY <2>6, <2>8 DEF CountInv
<1> QED BY <1>1, <1>2 DEF CheckMatcher

\* The sender's gate, granted or refused.
LEMMA CheckUserCounts ==
    ASSUME IInv, CountInv, [Next]_vars, CheckUser
    PROVE  CountInv'
<1>1. /\ pc = "user"
      /\ UNCHANGED <<answered, delivered, now, fired, reaper, recorded, fires, grant>>
    BY DEF CheckUser, CD!AllowUser, CD!DenyUser, channelVars, limiterVars
<1>2. /\ job \in Jobs /\ call \in CD!Calls /\ call.at <= now
      /\ call.m = job.matcher.name /\ call.u = Msg.sender
      /\ call.mc = job.matcher.cooldown /\ call.uc = job.snap.userCooldown
      /\ Permits(CD!MatcherKey(call.m), call.mc)
    BY <1>1, JobHeld DEF IInv, CountInv, CallOK, Steps
<1>3. ~Firing /\ StoredKeys = {}
    BY <1>1 DEF Firing, StoredKeys
<1>4. CASE CD!DenyUser /\ Finish
  <2>1. Undisturbed /\ pc' = "select" /\ call' = CD!Idle
      BY <1>1, <1>3, <1>4 DEF Undisturbed, Firing, Finish, CD!DenyUser
  <2>2. TrackerTypes' /\ HistoryOK' /\ MapsOK' /\ SpacingOK' /\ FiresOK'
      BY <1>1, <2>1, Remembered
  <2> QED BY <2>1, <2>2 DEF CountInv, CallOK
<1>5. CASE CD!AllowUser /\ pc' = "rate" /\ UNCHANGED job
  <2>1. Undisturbed
      BY <1>1, <1>3, <1>5 DEF Undisturbed, Firing
  <2>2. TrackerTypes' /\ HistoryOK' /\ MapsOK' /\ SpacingOK' /\ FiresOK'
      BY <1>1, <1>5, <2>1, Remembered
  <2>3. /\ call' \in CD!Calls /\ call'.pc = "granted" /\ call'.at = call.at
        /\ call'.m = call.m /\ call'.u = call.u
        /\ call'.mc = call.mc /\ call'.uc = call.uc
      BY <1>2, <1>5 DEF CD!AllowUser, CD!Calls
  <2>4. PICK k : k = CD!UserKey(call.m, call.u)
      OBVIOUS
  <2>5. /\ k \in CD!Keys /\ call.at \in Int /\ call.uc \in Int
        /\ CD!OffCooldown(k, call.at, call.uc)
    <3>1. k \in CD!Keys
        BY <1>2, <2>4 DEF CD!Calls, CD!UserKey, CD!UserKeys, CD!Keys
    <3>2. call.at \in Int /\ call.uc \in Int
        BY <1>2, CooldownTypes, PipelineAssumption DEF CD!Calls, CD!Time
    <3> QED BY <1>5, <2>4, <3>1, <3>2 DEF CD!AllowUser
  <2>6. \/ \A i \in Places : Bears(i, k) => call.at - answered[i].fired >= call.uc
        \/ Expired(k)
      BY <1>3, <2>5, OffCooldownPermits
  <2>7. PICK m : m = CD!MatcherKey(call.m)
      OBVIOUS
  <2>8. /\ Places' = Places /\ \A i \in Places : \A l : Bears(i, l)' <=> Bears(i, l)
        /\ \A l : Expired(l) => Expired(l)'
      BY <2>1, Frame DEF CountInv
  <2>9. Permits(CD!UserKey(call.m, call.u), call.uc)'
    <3>1. CD!UserKey(call'.m, call'.u) = k
        BY <2>3, <2>4 DEF CD!UserKey
    <3>2. Permits(k, call.uc)'
        BY <1>1, <2>3, <2>6, <2>8 DEF Permits
    <3> QED BY <2>3, <3>1, <3>2 DEF Permits
  <2>10. Permits(CD!MatcherKey(call.m), call.mc)'
    <3>1. CD!MatcherKey(call'.m) = m
        BY <2>3, <2>7 DEF CD!MatcherKey
    <3>2. Permits(m, call.mc)'
        BY <1>1, <1>2, <2>3, <2>7, <2>8 DEF Permits
    <3> QED BY <2>3, <3>1, <3>2 DEF Permits
  <2>11. CallOK'
    <3>1. Msg' = Msg
        BY <1>1, <1>5 DEF Msg
    <3> QED BY <1>1, <1>2, <1>5, <2>3, <2>9, <2>10, <3>1 DEF CallOK
  <2> QED BY <2>2, <2>11 DEF CountInv
<1> QED BY <1>4, <1>5 DEF CheckUser

\* The limiter's gate: a refusal forgoes the tracker's permission.
LEMMA CheckRateCounts ==
    ASSUME IInv, CountInv, [Next]_vars, CheckRate
    PROVE  CountInv'
<1>1. /\ pc = "rate"
      /\ UNCHANGED <<answered, delivered, now, fired, reaper, recorded, fires>>
    BY DEF CheckRate, RL!Grant, RL!Refuse, RL!Pruned, CD!Forgo, channelVars, cooldownVars
<1>2. CASE Finish /\ CD!Forgo
  <2>1. Undisturbed /\ pc' = "select" /\ call' = CD!Idle
      BY <1>1, <1>2 DEF Undisturbed, Firing, Finish, CD!Forgo
  <2>2. TrackerTypes' /\ HistoryOK' /\ MapsOK' /\ SpacingOK' /\ FiresOK'
      BY <1>1, <2>1, Remembered
  <2> QED BY <2>1, <2>2 DEF CountInv, CallOK
<1>3. CASE RL!Grant(job.snap.rateCap) /\ pc' = "pick" /\ UNCHANGED <<job, cooldownVars>>
  <2>1. Undisturbed /\ grant' = job'.snap.rateCap /\ call' = call
      BY <1>1, <1>3 DEF Undisturbed, Firing, RL!Grant, cooldownVars
  <2>2. /\ TrackerTypes' /\ HistoryOK' /\ MapsOK' /\ SpacingOK' /\ FiresOK'
        /\ \A k, c : Permits(k, c) => Permits(k, c)'
      BY <1>1, <2>1, Remembered
  <2>3. CallOK'
    <3>1. Msg' = Msg
        BY <1>1, <1>3 DEF Msg
    <3> QED BY <1>1, <1>3, <2>1, <2>2, <3>1 DEF CountInv, CallOK
  <2> QED BY <2>2, <2>3 DEF CountInv
<1> QED BY <1>2, <1>3 DEF CheckRate

\* What a store of key k, at the time of the answer in hand, does to the maps.
LEMMA StoredCounts ==
    ASSUME IInv, CountInv, NEW k \in CD!Keys, NEW t \in 0 .. MaxTime,
           CD!Stored(k, t), t = job'.fired,
           UNCHANGED <<now, reaper, answered>>,
           StoredKeys' = StoredKeys \cup {k},
           StoredKeys # {} => job'.fired = job.fired,
           \A i \in Places : \A l : Bears(i, l)' <=> Bears(i, l)
    PROVE  /\ MapsOK'
           /\ DOMAIN fired' \subseteq CD!Keys
           /\ recorded' \in [CD!Keys -> (0 .. MaxTime) \cup {CD!Never}]
<1>1. /\ DOMAIN fired' = DOMAIN fired \cup {k}
      /\ \A j \in DOMAIN fired' : fired'[j] = IF j = k THEN t ELSE fired[j]
    BY DEF CD!Stored
<1>2. /\ recorded' \in [CD!Keys -> (0 .. MaxTime) \cup {CD!Never}]
      /\ \A j \in CD!Keys : recorded'[j] = IF j = k THEN t ELSE recorded[j]
    BY DEF CountInv, TrackerTypes, CD!Stored
<1>3. DOMAIN fired' \subseteq CD!Keys
    BY <1>1 DEF CountInv, TrackerTypes
<1>4. Places' = Places /\ Len(answered') = Len(answered)
    BY DEF Places
<1>5. t # CD!Never
    BY PipelineAssumption DEF CD!Never
<1>6. ASSUME NEW l \in CD!Keys PROVE LastFire(l, recorded[l])'
  <2>1. \A i \in Places : \A j \in i + 1 .. Len(answered) : j \in Places
      BY AnsweredTypes DEF Places
  <2>2. PICK v : v = recorded'[l]
      OBVIOUS
  <2>3. CASE l = k
    <3>1. l \in StoredKeys' /\ recorded'[l] = job'.fired
        BY <1>2, <2>3
    <3> QED BY <3>1 DEF LastFire
  <2>4. CASE l # k
    <3>1. v = recorded[l] /\ (l \in StoredKeys' <=> l \in StoredKeys)
        BY <1>2, <2>2, <2>4
    <3>2. LastFire(l, v)
        BY <3>1 DEF CountInv, MapsOK
    <3>3. LastFire(l, v)'
      <4>1. CASE l \in StoredKeys
          BY <3>1, <3>2, <4>1 DEF LastFire
      <4>2. CASE l \notin StoredKeys
          BY <1>4, <2>1, <3>1, <3>2, <4>2 DEF LastFire
      <4> QED BY <4>1, <4>2
    <3> QED BY <2>2, <3>3 DEF LastFire
  <2> QED BY <2>3, <2>4
<1>7. \A l : Expired(l) => Expired(l)'
    BY <1>4 DEF Expired
<1>8. MapsOK'
  <2>1. \A l \in DOMAIN fired' : fired'[l] = recorded'[l] /\ recorded'[l] # CD!Never
      BY <1>1, <1>2, <1>3, <1>5 DEF CountInv, MapsOK
  <2>2. \A l \in CD!Keys \ DOMAIN fired' : recorded'[l] = CD!Never \/ Expired(l)'
      BY <1>1, <1>2, <1>7 DEF CountInv, MapsOK
  <2>3. /\ reaper'.left \cap reaper'.doomed = {}
        /\ reaper'.left \subseteq DOMAIN fired'
        /\ \A l \in reaper'.doomed : Expired(l)'
      BY <1>1, <1>7 DEF CountInv, MapsOK
  <2> QED BY <1>6, <2>1, <2>2, <2>3 DEF MapsOK
<1> QED BY <1>2, <1>3, <1>8

\* The fire itself: the job fires off both cooldowns, and RecordMatcher stores it.
LEMMA PickCounts == ASSUME IInv, CountInv, [Next]_vars, Pick PROVE CountInv'
<1>1. PICK answer \in job.matcher.answers :
          job' = [job EXCEPT !.answer = answer, !.fired = now]
    BY DEF Pick
<1>2. /\ pc = "pick" /\ pc' = "recordUser" /\ CD!RecordMatcher
      /\ UNCHANGED <<answered, delivered, now, reaper, fires, grant>>
    BY DEF Pick, CD!RecordMatcher, channelVars, limiterVars
<1>3. /\ job \in Jobs /\ job.id \in 1 .. Len(delivered)
      /\ job.matcher \in ResolvedMatchers
      /\ call \in CD!Calls /\ call.at <= now /\ call.at \in Int
      /\ call.m = job.matcher.name /\ call.u = Msg.sender
      /\ call.mc = job.matcher.cooldown /\ call.uc = job.snap.userCooldown
      /\ call.mc \in Int /\ call.uc \in Int
      /\ Permits(CD!MatcherKey(call.m), call.mc)
      /\ Permits(CD!UserKey(call.m, call.u), call.uc)
      /\ now \in 0 .. MaxTime
  <2>1. /\ job \in Jobs /\ job.id \in 1 .. Len(delivered)
        /\ job.matcher \in ResolvedMatchers
      BY <1>2, JobHeld DEF IInv, JobOK, Steps, Gates
  <2>2. /\ call \in CD!Calls /\ call.at <= now
        /\ call.m = job.matcher.name /\ call.u = Msg.sender
        /\ call.mc = job.matcher.cooldown /\ call.uc = job.snap.userCooldown
        /\ Permits(CD!MatcherKey(call.m), call.mc)
        /\ Permits(CD!UserKey(call.m, call.u), call.uc)
        /\ now \in 0 .. MaxTime
      BY <1>2 DEF IInv, TypeOK, CountInv, CallOK
  <2>3. call.at \in Int /\ call.mc \in Int /\ call.uc \in Int
    <3>1. /\ call.at \in 0 .. MaxTime /\ MaxTime \in Nat
          /\ call.mc \in MatcherCooldowns /\ call.uc \in UserCooldowns
        BY <2>2, PipelineAssumption DEF CD!Calls, CD!Time
    <3>2. call.mc \in Int /\ call.uc \in Int
        BY <3>1, CooldownTypes, Zenon
    <3> QED BY <3>1, <3>2
  <2> QED BY <2>1, <2>2, <2>3
<1>4. /\ job'.id = job.id /\ job'.matcher = job.matcher /\ job'.snap = job.snap
      /\ job'.fired = now
    BY <1>1, <1>3 DEF Jobs
<1>5. /\ StoredKeys = {} /\ ~Firing /\ Firing'
      /\ StoredKeys' = {CD!MatcherKey(job.matcher.name)}
    BY <1>2, <1>4 DEF StoredKeys, Firing
<1>6. \A i \in Places : \A l : Bears(i, l)' <=> Bears(i, l)
    BY <1>2 DEF Bears, KeysOf
<1>7. MapsOK' /\ TrackerTypes'
  <2>1. PICK k : k = CD!MatcherKey(job.matcher.name)
      OBVIOUS
  <2>2. k \in CD!Keys /\ CD!Stored(k, now)
      BY <1>2, <1>3, <2>1
         DEF CD!RecordMatcher, CD!Calls, CD!MatcherKey, CD!MatcherKeys, CD!Keys
  <2>3. /\ MapsOK'
        /\ DOMAIN fired' \subseteq CD!Keys
        /\ recorded' \in [CD!Keys -> (0 .. MaxTime) \cup {CD!Never}]
      BY <1>2, <1>3, <1>4, <1>5, <1>6, <2>1, <2>2, StoredCounts
  <2> QED BY <1>2, <2>3 DEF CountInv, TrackerTypes
<1>8. HistoryOK'
    BY <1>2, <1>4, AnsweredTypes DEF CountInv, HistoryOK, Places
<1>9. CallOK'
  <2>1. /\ call' \in CD!Calls /\ call'.at = now
        /\ call'.m = call.m /\ call'.u = call.u
        /\ call'.mc = call.mc /\ call'.uc = call.uc
      BY <1>2, <1>3 DEF CD!RecordMatcher, CD!Calls, CD!Time
  <2>2. Msg' = Msg
      BY <1>2, <1>4 DEF Msg
  <2>3. now <= now
      BY AnsweredTypes
  <2> QED BY <1>2, <1>3, <1>4, <2>1, <2>2, <2>3 DEF CallOK
<1>10. FiresOK'
    BY <1>2, <1>4 DEF CountInv, FiresOK, CountedAs
<1>11. SpacingOK'
  <2>1. ASSUME NEW i \in Places,
               answered[i].matcher.name = job.matcher.name
        PROVE  /\ Bears(i, CD!MatcherKey(call.m))
               /\ delivered[answered[i].id].sender = Msg.sender =>
                    Bears(i, CD!UserKey(call.m, call.u))
      BY <1>3, <2>1 DEF Bears, KeysOf
  <2>2. ASSUME NEW k \in {CD!MatcherKey(call.m), CD!UserKey(call.m, call.u)},
               Expired(k), NEW i \in Places,
               answered[i].matcher.name = job.matcher.name
        PROVE  \E h \in 1 .. i : /\ answered[h].matcher.name = job.matcher.name
                                 /\ now - answered[h].fired > Expiry
    <3>1. PICK h \in Places : Bears(h, k) /\ now - answered[h].fired > Expiry
        BY <1>5, <2>2 DEF Expired
    <3>2. answered[h].matcher.name = job.matcher.name
        BY <1>3, <3>1 DEF Bears, KeysOf, CD!MatcherKey, CD!UserKey
    <3>3. CASE h <= i
        BY <3>1, <3>2, <3>3, AnsweredTypes DEF Places
    <3>4. CASE i < h
      <4>1. answered[i].fired <= answered[h].fired
          BY <3>4 DEF CountInv, HistoryOK
      <4>2. now - answered[i].fired > Expiry /\ i \in 1 .. i
          BY <3>1, <4>1, AnsweredTypes DEF Places
      <4> QED BY <2>2, <4>2
    <3> QED BY <3>3, <3>4, AnsweredTypes DEF Places
  <2>3. ASSUME NEW i \in Places
        PROVE  \/ Apart(answered[i], job)'
               \/ \E h \in 1 .. i : /\ answered[h].matcher.name = job.matcher.name
                                    /\ now - answered[h].fired > Expiry
    <3>1. CASE Expired(CD!MatcherKey(call.m)) \/ Expired(CD!UserKey(call.m, call.u))
        BY <1>2, <1>4, <2>2, <3>1 DEF Apart
    <3>2. CASE ~Expired(CD!MatcherKey(call.m)) /\ ~Expired(CD!UserKey(call.m, call.u))
      <4>1. ASSUME answered[i].matcher.name = job.matcher.name
            PROVE  /\ now - answered[i].fired >= job.matcher.cooldown
                   /\ delivered[answered[i].id].sender = Msg.sender =>
                        now - answered[i].fired >= job.snap.userCooldown
        <5>1. call.at - answered[i].fired >= call.mc
            BY <1>3, <2>1, <3>2, <4>1 DEF Permits
        <5>2. delivered[answered[i].id].sender = Msg.sender =>
                call.at - answered[i].fired >= call.uc
            BY <1>3, <2>1, <3>2, <4>1 DEF Permits
        <5> QED BY <1>3, <5>1, <5>2, AnsweredTypes
      <4> QED BY <1>2, <1>4, <4>1 DEF Apart, Msg
    <3> QED BY <3>1, <3>2
  <2>4. SpacedAfter(Len(answered), job)'
      BY <1>2, <1>4, <2>3 DEF SpacedAfter, Places
  <2>5. ASSUME NEW j \in Places PROVE SpacedAfter(j - 1, answered[j])'
      BY <1>2 DEF CountInv, SpacingOK, SpacedAfter, Apart
  <2> QED BY <1>2, <2>4, <2>5 DEF SpacingOK, Places
<1> QED BY <1>7, <1>8, <1>9, <1>10, <1>11 DEF CountInv

\* The second store, of the sender's key.
LEMMA RecordUserCounts == ASSUME IInv, CountInv, [Next]_vars, RecordUser PROVE CountInv'
<1>1. /\ pc = "recordUser" /\ pc' = "recordRate" /\ CD!RecordUser
      /\ call' = CD!Idle
      /\ UNCHANGED <<answered, delivered, now, reaper, fires, grant, job>>
    BY DEF RecordUser, CD!RecordUser, channelVars, limiterVars
<1>2. /\ job \in Jobs /\ call \in CD!Calls /\ call.at = job.fired
      /\ call.m = job.matcher.name /\ call.u = Msg.sender
    BY <1>1, JobHeld DEF IInv, CountInv, CallOK, Steps
<1>3. Firing /\ Firing'
    BY <1>1 DEF Firing
<1>4. PICK k : k = CD!UserKey(call.m, call.u)
    OBVIOUS
<1>5. k \in CD!Keys /\ CD!Stored(k, call.at) /\ call.at \in 0 .. MaxTime
    BY <1>1, <1>2, <1>4
       DEF CD!RecordUser, CD!Calls, CD!Time, CD!UserKey, CD!UserKeys, CD!Keys
<1>6. StoredKeys' = StoredKeys \cup {k}
  <2>1. StoredKeys = {CD!MatcherKey(job.matcher.name)}
      BY <1>1 DEF StoredKeys
  <2>2. StoredKeys' = KeysOf(job)
      BY <1>1, <1>3 DEF StoredKeys, KeysOf
  <2>3. k = CD!UserKey(job.matcher.name, delivered[job.id].sender)
      BY <1>2, <1>4 DEF Msg
  <2> QED BY <2>1, <2>2, <2>3 DEF KeysOf
<1>7. \A i \in Places : \A l : Bears(i, l)' <=> Bears(i, l)
    BY <1>1 DEF Bears, KeysOf
<1>8. MapsOK' /\ TrackerTypes'
  <2>1. /\ MapsOK'
        /\ DOMAIN fired' \subseteq CD!Keys
        /\ recorded' \in [CD!Keys -> (0 .. MaxTime) \cup {CD!Never}]
      BY <1>1, <1>2, <1>5, <1>6, <1>7, StoredCounts
  <2> QED BY <1>1, <2>1 DEF CountInv, TrackerTypes
<1>9. HistoryOK'
    BY <1>1, <1>3 DEF CountInv, HistoryOK, Places
<1>10. CallOK' /\ FiresOK'
    BY <1>1 DEF CountInv, CallOK, FiresOK, CountedAs
<1>11. SpacingOK'
    BY <1>1, <1>3 DEF CountInv, SpacingOK, SpacedAfter, Apart, Places
<1> QED BY <1>8, <1>9, <1>10, <1>11 DEF CountInv

\* The fire enters the history of the limiter.
LEMMA RecordRateCounts == ASSUME IInv, CountInv, [Next]_vars, RecordRate PROVE CountInv'
<1>1. /\ pc = "recordRate" /\ pc' = "send"
      /\ fires' = Append(fires, [at |-> now, caps |-> grant])
      /\ UNCHANGED <<answered, delivered, now, fired, reaper, recorded, call, job>>
    BY DEF RecordRate, RL!Record, channelVars, cooldownVars
<1>2. /\ job \in Jobs /\ job.snap \in Snapshots /\ job.matcher \in ResolvedMatchers
      /\ job.fired \in Int /\ now \in 0 .. MaxTime /\ now \in Int
    BY <1>1, JobHeld, AnsweredTypes DEF IInv, TypeOK, JobOK, Steps, Gates, Jobs
<1>3. IsAnswer(job)
    BY <1>2, PipelineAssumption DEF IsAnswer
<1>4. Undisturbed /\ Firing
    BY <1>1, <1>3 DEF Undisturbed, Firing, IsAnswer
<1>5. /\ Places' = Places /\ StoredKeys' = StoredKeys /\ HistoryOK' /\ SpacingOK'
      /\ \A i \in Places : \A k : Bears(i, k)' <=> Bears(i, k)
      /\ \A k, v : LastFire(k, v)' <=> LastFire(k, v)
      /\ \A k : Expired(k) => Expired(k)'
    BY <1>4, Frame DEF CountInv
<1>6. PICK fire : fire = [at |-> now, caps |-> grant]
    OBVIOUS
<1>7. fire \in [at : 0 .. MaxTime, caps : Caps] /\ CountedAs(fire, job)
  <2>1. grant = job.snap.rateCap /\ job.fired <= now
      BY <1>1, <1>4 DEF CountInv, FiresOK, HistoryOK
  <2>2. grant \in Caps
      BY <1>2, <2>1, PipelineAssumption
  <2> QED BY <1>2, <1>6, <2>1, <2>2 DEF CountedAs
<1>8. /\ fires' \in Seq([at : 0 .. MaxTime, caps : Caps])
      /\ Len(fires') = Len(fires) + 1
      /\ \A i \in 1 .. Len(fires) : fires'[i] = fires[i]
      /\ fires'[Len(fires) + 1] = fire
    BY <1>1, <1>6, <1>7, AppendProperties DEF CountInv, TrackerTypes
<1>9. TrackerTypes'
    BY <1>1, <1>8 DEF CountInv, TrackerTypes
<1>10. MapsOK'
    BY <1>1, <1>5 DEF CountInv, MapsOK
<1>11. CallOK'
    BY <1>1 DEF CountInv, CallOK
<1>12. FiresOK'
  <2>1. PICK n \in Nat : n = Len(answered) /\ n = Len(answered')
      BY <1>1, AnsweredTypes
  <2>2. Len(fires) = n /\ \A i \in 1 .. n : CountedAs(fires[i], answered[i])
      BY <1>1, <2>1 DEF CountInv, FiresOK
  <2>3. Len(fires') = n + 1 /\ CountedAs(fires'[n + 1], job')
      BY <1>1, <1>7, <1>8, <2>2
  <2>4. \A i \in 1 .. n : CountedAs(fires'[i], answered'[i])
      BY <1>1, <1>8, <2>2
  <2>5. (pc = "send" /\ IsAnswer(job))'
      BY <1>1, <1>3 DEF IsAnswer
  <2> QED BY <1>1, <2>1, <2>3, <2>4, <2>5 DEF FiresOK, CountedAs
<1> QED BY <1>5, <1>9, <1>10, <1>11, <1>12 DEF CountInv

\* The fire becomes the last of those answered.
LEMMA SendCounts == ASSUME IInv, CountInv, [Next]_vars, Send PROVE CountInv'
<1>1. CASE ~IsAnswer(job)
    BY <1>1, ActorAside
<1>2. CASE IsAnswer(job)
  <2>1. PICK b \in Jobs : b = job
      BY JobHeld DEF IInv, Send, Steps
  <2>2. PICK n \in Nat : n = Len(answered)
      BY AnsweredTypes
  <2>3. /\ pc = "send" /\ pc' = "select" /\ answered' = Append(answered, b)
        /\ UNCHANGED <<delivered, now, fired, call, reaper, recorded, fires>>
      BY <1>2, <2>1 DEF Send, Finish, cooldownVars, limiterVars
  <2>4. /\ Len(answered') = n + 1 /\ answered'[n + 1] = b
        /\ \A i \in 1 .. n : answered'[i] = answered[i]
    <3>1. answered \in Seq(Jobs)
        BY DEF IInv, TypeOK
    <3> QED BY <2>1, <2>2, <2>3, <3>1, AppendProperties
  <2>5. Places = 1 .. n /\ Places' = 1 .. n + 1
      BY <2>2, <2>4 DEF Places
  <2>6. Firing /\ ~Firing' /\ StoredKeys' = {} /\ StoredKeys = KeysOf(b)
      BY <1>2, <2>1, <2>3 DEF Firing, StoredKeys, KeysOf
  <2>7. /\ \A i \in 1 .. n : \A k : Bears(i, k)' <=> Bears(i, k)
        /\ \A k : Bears(n + 1, k)' <=> k \in KeysOf(b)
      BY <2>3, <2>4 DEF Bears, KeysOf
  <2>8. /\ b.id \in 1 .. Len(delivered) /\ b.matcher \in ResolvedMatchers
        /\ b.fired \in Int /\ b.fired <= now /\ now \in Int /\ Expiry \in Int
        /\ \A i \in 1 .. n : answered[i].fired \in Int /\ answered[i].fired <= b.fired
    <3>1. b.id \in 1 .. Len(delivered)
        BY <2>1, <2>3, JobHeld DEF IInv, Steps
    <3>2. b.matcher \in ResolvedMatchers
        BY <1>2, <2>1 DEF IsAnswer, Jobs
    <3>3. b.fired \in Int /\ now \in Int /\ Expiry \in Int
        BY <2>1, <2>3, AnsweredTypes DEF Steps
    <3>4. b.fired <= now /\ \A i \in 1 .. n : answered[i].fired <= b.fired
        BY <2>1, <2>5, <2>6 DEF CountInv, HistoryOK
    <3>5. \A i \in 1 .. n : answered[i].fired \in Int
        BY <2>5, AnsweredTypes
    <3> QED BY <3>1, <3>2, <3>3, <3>4, <3>5
  <2>9. ASSUME NEW k \in CD!Keys PROVE LastFire(k, recorded[k])'
    <3>1. PICK v : v = recorded[k] /\ v = recorded'[k]
        BY <2>3
    <3>2. LastFire(k, v)
        BY <3>1 DEF CountInv, MapsOK
    <3>3. CASE k \in KeysOf(b)
      <4>1. v = b.fired
          BY <2>1, <2>6, <3>2, <3>3 DEF LastFire
      <4>2. \A j \in n + 1 + 1 .. n + 1 : FALSE
          OBVIOUS
      <4> QED BY <2>4, <2>5, <2>6, <2>7, <3>1, <3>3, <4>1, <4>2 DEF LastFire
    <3>4. CASE /\ k \notin KeysOf(b) /\ v = CD!Never
               /\ \A i \in 1 .. n : ~Bears(i, k)
      <4>1. \A i \in 1 .. n + 1 : ~Bears(i, k)'
          BY <2>7, <3>4
      <4> QED BY <2>5, <2>6, <3>1, <3>4, <4>1 DEF LastFire, CD!Never
    <3>5. CASE /\ k \notin KeysOf(b)
               /\ \E i \in 1 .. n : /\ Bears(i, k) /\ v = answered[i].fired
                                    /\ \A j \in i + 1 .. n : ~Bears(j, k)
      <4>1. PICK i \in 1 .. n : /\ Bears(i, k) /\ v = answered[i].fired
                                /\ \A j \in i + 1 .. n : ~Bears(j, k)
          BY <3>5
      <4>2. Bears(i, k)' /\ v = answered'[i].fired /\ i \in 1 .. n + 1
          BY <2>4, <2>7, <4>1
      <4>3. ASSUME NEW j \in i + 1 .. n + 1 PROVE ~Bears(j, k)'
        <5>1. (j \in i + 1 .. n /\ j \in 1 .. n) \/ j = n + 1
            OBVIOUS
        <5> QED BY <2>7, <3>5, <4>1, <5>1
      <4> QED BY <2>4, <2>5, <2>6, <3>1, <4>2, <4>3 DEF LastFire
    <3> QED BY <2>2, <2>5, <2>6, <3>2, <3>3, <3>4, <3>5 DEF LastFire
  <2>10. ASSUME NEW k, Expired(k) PROVE Expired(k)'
    <3>1. CASE k \in KeysOf(b) /\ now - b.fired > Expiry
        BY <2>3, <2>4, <2>5, <2>7, <3>1 DEF Expired
    <3>2. CASE \E i \in 1 .. n : Bears(i, k) /\ now - answered[i].fired > Expiry
      <4>1. PICK i \in 1 .. n : Bears(i, k) /\ now - answered[i].fired > Expiry
          BY <3>2
      <4>2. Bears(i, k)' /\ now' - answered'[i].fired > Expiry /\ i \in 1 .. n + 1
          BY <2>3, <2>4, <2>7, <4>1
      <4> QED BY <2>5, <4>2 DEF Expired
    <3> QED BY <2>1, <2>5, <2>6, <2>10, <3>1, <3>2 DEF Expired
  <2>11. MapsOK'
      BY <2>3, <2>9, <2>10 DEF CountInv, MapsOK
  <2>12. HistoryOK'
    <3>1. \A i \in 1 .. n + 1 : /\ answered'[i].id \in 1 .. Len(delivered)
                                /\ answered'[i].matcher \in ResolvedMatchers
                                /\ answered'[i].fired <= now
      <4>1. \A i \in 1 .. n : /\ answered[i].id \in 1 .. Len(delivered)
                              /\ answered[i].matcher \in ResolvedMatchers
                              /\ answered[i].fired <= now
          BY <2>5 DEF CountInv, HistoryOK
      <4>2. \A i \in 1 .. n + 1 : i \in 1 .. n \/ i = n + 1
          OBVIOUS
      <4> QED BY <2>4, <2>8, <4>1, <4>2
    <3>2. ASSUME NEW i \in 1 .. n + 1, NEW j \in 1 .. n + 1, i < j
          PROVE  answered'[i].fired <= answered'[j].fired
      <4>1. i \in 1 .. n /\ (j \in 1 .. n \/ j = n + 1)
          BY <3>2
      <4>2. j \in 1 .. n => answered[i].fired <= answered[j].fired
          BY <2>5, <3>2, <4>1 DEF CountInv, HistoryOK
      <4> QED BY <2>4, <2>8, <4>1, <4>2
    <3> QED BY <2>3, <2>5, <2>6, <3>1, <3>2 DEF HistoryOK
  <2>13. CallOK' /\ TrackerTypes'
      BY <2>3 DEF CountInv, CallOK, TrackerTypes
  <2>14. FiresOK'
    <3>1. /\ Len(fires) = n + 1 /\ CountedAs(fires[n + 1], b)
          /\ \A i \in 1 .. n : CountedAs(fires[i], answered[i])
        BY <1>2, <2>1, <2>2, <2>3 DEF CountInv, FiresOK
    <3>2. ASSUME NEW i \in 1 .. n + 1 PROVE CountedAs(fires'[i], answered'[i])
      <4>1. i \in 1 .. n \/ i = n + 1
          OBVIOUS
      <4> QED BY <2>3, <2>4, <3>1, <4>1
    <3> QED BY <2>3, <2>4, <3>1, <3>2 DEF FiresOK, CountedAs
  <2>15. SpacingOK'
    <3>1. ASSUME NEW m \in 0 .. n, NEW c, SpacedAfter(m, c) PROVE SpacedAfter(m, c)'
      <4>1. \A i \in 1 .. m : i \in 1 .. n /\ \A h \in 1 .. i : h \in 1 .. n
          OBVIOUS
      <4> QED BY <2>3, <2>4, <3>1, <4>1 DEF SpacedAfter, Apart
    <3>2. ASSUME NEW j \in 1 .. n + 1 PROVE SpacedAfter(j - 1, answered[j])'
      <4>1. PICK c : c = answered'[j]
          OBVIOUS
      <4>2. j \in 1 .. n \/ j = n + 1
          OBVIOUS
      <4>3. SpacedAfter(j - 1, c) /\ j - 1 \in 0 .. n
        <5>1. CASE j \in 1 .. n
            BY <2>4, <2>5, <4>1, <5>1 DEF CountInv, SpacingOK
        <5>2. CASE j = n + 1
            BY <2>1, <2>2, <2>4, <2>6, <4>1, <5>2 DEF CountInv, SpacingOK
        <5> QED BY <4>2, <5>1, <5>2
      <4>4. SpacedAfter(j - 1, c)'
          BY <3>1, <4>3
      <4> QED BY <4>1, <4>4 DEF SpacedAfter, Apart
    <3> QED BY <2>5, <2>6, <3>2 DEF SpacingOK
  <2> QED BY <2>11, <2>12, <2>13, <2>14, <2>15 DEF CountInv
<1> QED BY <1>1, <1>2

\* An entry that the reaper finds too old is that of an answer.
LEMMA OldEntry ==
    ASSUME IInv, CountInv, NEW k \in DOMAIN fired, reaper.at - fired[k] > Expiry
    PROVE  Expired(k)
<1>1. /\ LastFire(k, recorded[k]) /\ fired[k] = recorded[k] /\ recorded[k] # CD!Never
    BY DEF CountInv, MapsOK, TrackerTypes
<1>2. reaper.at <= now /\ reaper.at \in Int /\ now \in Int /\ Expiry \in Int
  <2>1. reaper.at \in Int
      BY PipelineAssumption DEF CountInv, TrackerTypes, CD!Rounds, CD!Resting, CD!Time
  <2> QED BY <2>1, AnsweredTypes DEF CountInv, TrackerTypes
<1>3. CASE k \in StoredKeys
  <2>1. fired[k] = job.fired
      BY <1>1, <1>3 DEF LastFire
  <2>2. job.fired \in Int
    <3>1. pc \in Steps
        BY <1>3 DEF StoredKeys, Firing, Steps
    <3> QED BY <3>1, AnsweredTypes
  <2>3. now - job.fired > Expiry
      BY <1>2, <2>1, <2>2
  <2> QED BY <1>3, <2>3 DEF Expired
<1>4. CASE k \notin StoredKeys
  <2>1. PICK i \in Places : Bears(i, k) /\ fired[k] = answered[i].fired
      BY <1>1, <1>4 DEF LastFire
  <2>2. now - answered[i].fired > Expiry
      BY <1>2, <2>1, AnsweredTypes
  <2> QED BY <2>1, <2>2 DEF Expired
<1> QED BY <1>3, <1>4

\* The part of the invariant that the reaper's own steps can touch.
ReaperOK ==
    /\ DOMAIN fired \subseteq CD!Keys
    /\ reaper \in CD!Rounds \cup {CD!Resting} /\ reaper.at <= now
    /\ \A k \in DOMAIN fired : fired[k] = recorded[k] /\ recorded[k] # CD!Never
    /\ \A k \in CD!Keys \ DOMAIN fired : recorded[k] = CD!Never \/ Expired(k)
    /\ reaper.left \cap reaper.doomed = {}
    /\ reaper.left \subseteq DOMAIN fired
    /\ \A k \in reaper.doomed : Expired(k)

\* A step of the reaper keeps the maps apart from the doomed keys.
LEMMA ReaperSteps ==
    ASSUME IInv, CountInv, CD!Reaper, UNCHANGED <<now, recorded>>,
           \A k : Expired(k) => Expired(k)'
    PROVE  ReaperOK'
<1> USE DEF ReaperOK
<1>1. ReaperOK
    BY DEF CountInv, TrackerTypes, MapsOK
<1>2. now \in 0 .. MaxTime /\ now <= now
    BY AnsweredTypes DEF IInv, TypeOK
<1>3. CASE CD!ReapBegin
  <2>1. /\ reaper' = [pc |-> "matchers", at |-> now,
                      left |-> DOMAIN fired \cap CD!MatcherKeys, doomed |-> {}]
        /\ UNCHANGED fired
      BY <1>3 DEF CD!ReapBegin
  <2>2. reaper' \in CD!Rounds
      BY <1>1, <1>2, <2>1 DEF CD!Rounds, CD!Time
  <2> QED BY <1>1, <1>2, <2>1, <2>2
<1>4. CASE \E k \in CD!Keys : CD!ReapVisit(k)
  <2>1. PICK k \in CD!Keys : CD!ReapVisit(k)
      BY <1>4
  <2>2. k \in reaper.left /\ k \in DOMAIN fired /\ UNCHANGED fired
      BY <1>1, <2>1 DEF CD!ReapVisit
  <2>3. reaper \in CD!Rounds
      BY <1>1, <2>2 DEF CD!Resting
  <2>4. /\ reaper'.left = reaper.left \ {k} /\ reaper'.at = reaper.at
        /\ reaper'.doomed = IF reaper.at - fired[k] > Expiry THEN {k} ELSE {}
        /\ reaper' \in CD!Rounds
      BY <2>1, <2>3 DEF CD!ReapVisit, CD!Rounds
  <2>5. \A l \in reaper'.doomed : Expired(l)'
      BY <2>2, <2>4, OldEntry
  <2> QED BY <1>1, <2>2, <2>4, <2>5
<1>5. CASE CD!ReapDelete
  <2>1. /\ fired' = [j \in DOMAIN fired \ reaper.doomed |-> fired[j]]
        /\ reaper' = [reaper EXCEPT !.doomed = {}]
        /\ reaper.doomed # {}
      BY <1>5 DEF CD!ReapDelete
  <2>2. reaper \in CD!Rounds
      BY <1>1, <2>1 DEF CD!Resting
  <2>3. /\ reaper'.left = reaper.left /\ reaper'.at = reaper.at /\ reaper'.doomed = {}
        /\ reaper' \in CD!Rounds
      BY <2>1, <2>2 DEF CD!Rounds
  <2>4. \A k \in CD!Keys \ DOMAIN fired' : recorded'[k] = CD!Never \/ Expired(k)'
      BY <1>1, <2>1
  <2> QED BY <1>1, <2>1, <2>3, <2>4
<1>6. CASE CD!ReapUsers
  <2>1. /\ reaper' = [reaper EXCEPT !.pc = "users", !.left = DOMAIN fired \cap CD!UserKeys]
        /\ reaper.doomed = {} /\ reaper.pc = "matchers" /\ UNCHANGED fired
      BY <1>6 DEF CD!ReapUsers
  <2>2. reaper \in CD!Rounds
      BY <1>1, <2>1 DEF CD!Resting
  <2>3. /\ reaper'.left = DOMAIN fired \cap CD!UserKeys
        /\ reaper'.at = reaper.at /\ reaper'.doomed = {} /\ reaper' \in CD!Rounds
      BY <1>1, <2>1, <2>2 DEF CD!Rounds
  <2> QED BY <1>1, <2>1, <2>3
<1>7. CASE CD!ReapEnd
    BY <1>1, <1>2, <1>7 DEF CD!ReapEnd, CD!Resting
<1> QED BY <1>3, <1>4, <1>5, <1>6, <1>7 DEF CD!Reaper

\* The reaper deletes only what has expired.
LEMMA ReapCounts == ASSUME IInv, CountInv, [Next]_vars, Reap PROVE CountInv'
<1>1. UNCHANGED <<pc, job, answered, delivered, now, recorded, call, fires, grant>>
    BY DEF Reap, CD!Reaper, CD!ReapBegin, CD!ReapVisit, CD!ReapDelete, CD!ReapUsers,
           CD!ReapEnd, actorVars, channelVars, limiterVars
<1>2. Undisturbed
    BY <1>1 DEF Undisturbed, Firing, IsAnswer
<1>3. /\ Places' = Places /\ HistoryOK' /\ SpacingOK'
      /\ \A i \in Places : \A k : Bears(i, k)' <=> Bears(i, k)
      /\ \A k, v : LastFire(k, v)' <=> LastFire(k, v)
      /\ \A k : Expired(k) => Expired(k)'
    BY <1>2, Frame DEF CountInv
<1>4. ReaperOK'
    BY <1>1, <1>3, ReaperSteps DEF Reap
<1>5. TrackerTypes' /\ MapsOK'
    BY <1>1, <1>3, <1>4 DEF CountInv, TrackerTypes, MapsOK, ReaperOK
<1>6. FiresOK'
    BY <1>1 DEF CountInv, FiresOK, CountedAs, IsAnswer
<1>7. CallOK'
  <2>1. Msg' = Msg
      BY <1>1 DEF Msg
  <2>2. \A k, c : Permits(k, c) => Permits(k, c)'
      BY <1>1, <1>3 DEF Permits
  <2> QED BY <1>1, <2>1, <2>2 DEF CountInv, CallOK, CD!MatcherKey, CD!UserKey
<1> QED BY <1>3, <1>5, <1>6, <1>7 DEF CountInv

\* CountInv is kept by every step.
LEMMA CountNext == IInv /\ CountInv /\ [Next]_vars => CountInv'
<1> SUFFICES ASSUME IInv, CountInv, [Next]_vars PROVE CountInv'
    OBVIOUS
<1>1. CASE Actor
    BY <1>1, ActorAside, CheckMatcherCounts, CheckUserCounts, CheckRateCounts, PickCounts,
       RecordUserCounts, RecordRateCounts, SendCounts DEF Actor
<1>2. CASE Reap
    BY <1>2, ReapCounts
<1>3. CASE \/ Deliver \/ Reload \/ Take \/ StopReplyLoop \/ Cancel \/ Tick
           \/ UNCHANGED vars
    BY <1>3, OthersAside
<1> QED BY <1>1, <1>2, <1>3 DEF Next

\* The answers of the properties: those on outCh, and the one in hand.
LEMMA AnswersInHand ==
    ASSUME IInv, NEW n \in Nat, n = Len(answered)
    PROVE  /\ ~(pc = "send" /\ IsAnswer(job)) => Answers = answered
           /\ pc = "send" /\ IsAnswer(job) =>
                /\ Len(Answers) = n + 1 /\ Answers[n + 1] = job
                /\ \A i \in 1 .. n : Answers[i] = answered[i]
<1>1. CASE ~(pc = "send" /\ IsAnswer(job))
    BY <1>1 DEF Answers
<1>2. CASE pc = "send" /\ IsAnswer(job)
  <2>1. answered \in Seq(Jobs) /\ job \in Jobs
      BY <1>2, JobHeld DEF IInv, TypeOK, Steps
  <2> QED BY <1>2, <2>1, AppendProperties DEF Answers
<1> QED BY <1>1, <1>2

\* Between two messages the tracker and the limiter hold the answers and no more.
LEMMA CountsOnce == IInv /\ CountInv => CountedOnce
<1> SUFFICES ASSUME IInv, CountInv, pc \notin {"recordUser", "recordRate"},
                    NEW n \in Nat, n = Len(answered)
             PROVE  /\ Len(fires) = Len(Answers)
                    /\ \A i \in 1 .. Len(fires) : CountedAs(fires[i], Answers[i])
                    /\ \A k \in CD!Keys :
                         \/ /\ \A i \in 1 .. Len(Answers) : k \notin KeysOf(Answers[i])
                            /\ recorded[k] = CD!Never
                         \/ \E i \in 1 .. Len(Answers) :
                              /\ k \in KeysOf(Answers[i])
                              /\ \A j \in 1 .. Len(Answers) :
                                   k \in KeysOf(Answers[j]) => j <= i
                              /\ recorded[k] = Answers[i].fired
  <2>1. Len(answered) \in Nat
      BY AnsweredTypes
  <2> QED BY <2>1 DEF CountedOnce, CountedAs
<1>1. \A k \in CD!Keys : LastFire(k, recorded[k])
    BY DEF CountInv, MapsOK
<1>2. CASE ~(pc = "send" /\ IsAnswer(job))
  <2>1. Answers = answered /\ StoredKeys = {}
      BY <1>2, AnswersInHand DEF StoredKeys, Firing
  <2>2. Len(fires) = n /\ \A i \in 1 .. n : CountedAs(fires[i], answered[i])
      BY <1>2 DEF CountInv, FiresOK
  <2>3. ASSUME NEW k \in CD!Keys
        PROVE  \/ /\ \A i \in 1 .. n : k \notin KeysOf(answered[i])
                  /\ recorded[k] = CD!Never
               \/ \E i \in 1 .. n : /\ k \in KeysOf(answered[i])
                                    /\ \A j \in 1 .. n : k \in KeysOf(answered[j]) => j <= i
                                    /\ recorded[k] = answered[i].fired
    <3>1. CASE \E i \in 1 .. n : /\ Bears(i, k) /\ recorded[k] = answered[i].fired
                                 /\ \A j \in i + 1 .. n : ~Bears(j, k)
        BY <3>1 DEF Bears
    <3> QED BY <1>1, <2>1, <3>1 DEF LastFire, Places, Bears
  <2> QED BY <2>1, <2>2, <2>3
<1>3. CASE pc = "send" /\ IsAnswer(job)
  <2>1. /\ Len(Answers) = n + 1 /\ Answers[n + 1] = job
        /\ \A i \in 1 .. n : Answers[i] = answered[i]
        /\ StoredKeys = KeysOf(job)
      BY <1>3, AnswersInHand DEF StoredKeys, Firing
  <2>2. Len(fires) = n + 1 /\ \A i \in 1 .. n + 1 : CountedAs(fires[i], Answers[i])
    <3>1. /\ Len(fires) = n + 1 /\ CountedAs(fires[n + 1], job)
          /\ \A i \in 1 .. n : CountedAs(fires[i], answered[i])
        BY <1>3 DEF CountInv, FiresOK
    <3>2. \A i \in 1 .. n + 1 : i \in 1 .. n \/ i = n + 1
        OBVIOUS
    <3> QED BY <2>1, <3>1, <3>2
  <2>3. ASSUME NEW k \in CD!Keys
        PROVE  \/ /\ \A i \in 1 .. n + 1 : k \notin KeysOf(Answers[i])
                  /\ recorded[k] = CD!Never
               \/ \E i \in 1 .. n + 1 :
                    /\ k \in KeysOf(Answers[i])
                    /\ \A j \in 1 .. n + 1 : k \in KeysOf(Answers[j]) => j <= i
                    /\ recorded[k] = Answers[i].fired
    <3>1. CASE k \in KeysOf(job)
      <4>1. recorded[k] = Answers[n + 1].fired /\ k \in KeysOf(Answers[n + 1])
          BY <1>1, <2>1, <3>1 DEF LastFire
      <4> QED BY <4>1
    <3>2. CASE k \notin KeysOf(job)
      <4>1. \A i \in 1 .. n + 1 : k \in KeysOf(Answers[i]) => i \in 1 .. n /\ Bears(i, k)
        <5>1. \A i \in 1 .. n + 1 : i \in 1 .. n \/ i = n + 1
            OBVIOUS
        <5> QED BY <2>1, <3>2, <5>1 DEF Bears
      <4>2. CASE recorded[k] = CD!Never /\ \A i \in 1 .. n : ~Bears(i, k)
          BY <4>1, <4>2
      <4>3. CASE \E i \in 1 .. n : /\ Bears(i, k) /\ recorded[k] = answered[i].fired
                                   /\ \A j \in i + 1 .. n : ~Bears(j, k)
        <5>1. PICK i \in 1 .. n : /\ Bears(i, k) /\ recorded[k] = answered[i].fired
                                  /\ \A j \in i + 1 .. n : ~Bears(j, k)
            BY <4>3
        <5>2. i \in 1 .. n + 1 /\ k \in KeysOf(Answers[i]) /\ recorded[k] = Answers[i].fired
            BY <2>1, <5>1 DEF Bears
        <5>3. \A j \in 1 .. n + 1 : k \in KeysOf(Answers[j]) => j <= i
            BY <4>1, <5>1
        <5> QED BY <5>2, <5>3
      <4> QED BY <1>1, <2>1, <3>2, <4>2, <4>3 DEF LastFire, Places
    <3> QED BY <3>1, <3>2
  <2> QED BY <2>1, <2>2, <2>3
<1> QED BY <1>2, <1>3

\* A fire off cooldown is apart from the earlier ones, or these have expired.
LEMMA KeepsApart == IInv /\ CountInv => AnswersSpaced
<1> SUFFICES ASSUME IInv, CountInv, NEW n \in Nat, n = Len(answered),
                    NEW i \in 1 .. Len(Answers), NEW j \in 1 .. Len(Answers), i < j
             PROVE  \/ Waited(i, j)
                    \/ \E h \in 1 .. i :
                         /\ Answers[h].matcher.name = Answers[j].matcher.name
                         /\ Answers[j].fired - Answers[h].fired > Expiry
  <2>1. Len(answered) \in Nat
      BY AnsweredTypes
  <2> QED BY <2>1 DEF AnswersSpaced
<1>1. PICK b : b = Answers[j]
    OBVIOUS
<1>2. /\ SpacedAfter(j - 1, b) /\ i \in 1 .. j - 1 /\ j - 1 \in 0 .. n
      /\ \A h \in 1 .. j - 1 : Answers[h] = answered[h]
  <2>1. CASE ~(pc = "send" /\ IsAnswer(job))
    <3>1. Answers = answered
        BY <2>1, AnswersInHand
    <3> QED BY <1>1, <3>1 DEF CountInv, SpacingOK, Places
  <2>2. CASE pc = "send" /\ IsAnswer(job)
    <3>1. /\ Len(Answers) = n + 1 /\ Answers[n + 1] = job
          /\ \A h \in 1 .. n : Answers[h] = answered[h]
        BY <2>2, AnswersInHand
    <3>2. j - 1 \in 0 .. n /\ i \in 1 .. j - 1 /\ (j \in 1 .. n \/ j = n + 1)
        BY <3>1
    <3>3. SpacedAfter(j - 1, b)
      <4>1. CASE j \in 1 .. n
          BY <1>1, <3>1, <4>1 DEF CountInv, SpacingOK, Places
      <4>2. CASE j = n + 1
          BY <1>1, <2>2, <3>1, <4>2 DEF CountInv, SpacingOK, Firing
      <4> QED BY <3>2, <4>1, <4>2
    <3> QED BY <3>1, <3>2, <3>3
  <2> QED BY <2>1, <2>2
<1>3. CASE Apart(answered[i], b)
    BY <1>1, <1>2, <1>3 DEF Apart, Waited
<1>4. CASE \E h \in 1 .. i : /\ answered[h].matcher.name = b.matcher.name
                             /\ b.fired - answered[h].fired > Expiry
  <2>1. \A h \in 1 .. i : h \in 1 .. j - 1
      BY <1>2
  <2> QED BY <1>1, <1>2, <1>4, <2>1
<1> QED BY <1>2, <1>3, <1>4 DEF SpacedAfter

(* In every configuration, cooldowns and rate caps count exactly the       *)
(* answers that Handle decides: what the tracker and the limiter record of *)
(* a message is recorded by both, once, and only if no gate has dropped it *)
(* (pipeline.go:224-233).                                                  *)
THEOREM CountsAnswers == Spec => []CountedOnce
<1> QED BY Invariant, CountInit, CountNext, CountsOnce, PTL DEF Spec

(* Two answers of one matcher are a matcher cooldown apart, and two to one *)
(* sender a user cooldown, whatever the interleaving of the actor with the *)
(* reaper, but for the fires that the reaper has made the tracker forget.  *)
THEOREM SpacesAnswers == Spec => []AnswersSpaced
<1> QED BY Invariant, CountInit, CountNext, KeepsApart, PTL DEF Spec

-----------------------------------------------------------------------------
(* The caps, as the group sees them.  The limiter's promise is about the   *)
(* moments of Record; an answer fires earlier, when it is picked.          *)

\* Answer b, firing now, makes with the first n fires no more than its caps allow.
CappedAfter(n, b) ==
    LET recent(w) == RL!InWindow(fires, n, b.fired, w)
    IN  /\ RL!Within(Cardinality(recent(Minute)) + 1, b.snap.rateCap.perMin)
        /\ RL!Within(Cardinality(recent(Hour)) + 1, b.snap.rateCap.perHour)

CapInv ==
    /\ \A j \in Places : CappedAfter(j - 1, answered[j])
    /\ Firing => CappedAfter(Len(answered), job)

LEMMA CapInit == Init => CapInv
BY DEF Init, CapInv, Places, Firing

\* Fires are only appended, so earlier ones are counted as before.
LEMMA CappedKept ==
    ASSUME NEW n \in Nat, NEW b, NEW c, c.fired = b.fired, c.snap = b.snap,
           \A i \in 1 .. n : fires'[i] = fires[i], CappedAfter(n, b)
    PROVE  CappedAfter(n, c)'
<1>1. \A w : RL!InWindow(fires', n, c.fired, w) = RL!InWindow(fires, n, b.fired, w)
    BY DEF RL!InWindow
<1> QED BY <1>1 DEF CappedAfter

\* The answers on outCh keep within their caps.
LEMMA CappedBefore ==
    ASSUME IInv, CapInv, NEW n \in Nat, n = Len(answered), UNCHANGED answered,
           \A i \in 1 .. n : fires'[i] = fires[i]
    PROVE  \A j \in Places' : CappedAfter(j - 1, answered[j])'
<1>1. ASSUME NEW j \in 1 .. n PROVE CappedAfter(j - 1, answered[j])'
  <2>1. PICK a : a = answered[j]
      OBVIOUS
  <2>2. j - 1 \in Nat /\ answered'[j] = a /\ \A i \in 1 .. j - 1 : fires'[i] = fires[i]
      BY <2>1
  <2>3. CappedAfter(j - 1, a)'
      BY <2>1, <2>2, CappedKept DEF CapInv, Places
  <2> QED BY <2>2, <2>3 DEF CappedAfter
<1> QED BY <1>1 DEF Places

\* The room that the limiter promised is still there when the answer is picked.
LEMMA PickCapped == ASSUME IInv, CountInv, RL!RoomForGrant, CapInv, Pick PROVE CapInv'
<1>1. PICK b \in Jobs : b = job
    BY JobHeld DEF IInv, Pick, Steps
<1>2. PICK n \in Nat : n = Len(answered)
    BY AnsweredTypes
<1>3. /\ pc = "pick" /\ pc' = "recordUser" /\ UNCHANGED <<answered, fires, now>>
      /\ \E answer : job' = [b EXCEPT !.answer = answer, !.fired = now]
    BY <1>1 DEF Pick, CD!RecordMatcher, channelVars, limiterVars
<1>4. PICK c : c = job'
    OBVIOUS
<1>5. c.fired = now /\ c.snap = b.snap
    BY <1>3, <1>4 DEF Jobs
<1>6. /\ grant = b.snap.rateCap /\ Len(fires) = n /\ grant # None
  <2>1. b.snap.rateCap \in Caps /\ None \notin Caps
      BY PipelineAssumption, ComponentAssumption DEF Jobs, RL!RateAssumption
  <2> QED BY <1>1, <1>2, <1>3, <2>1 DEF CountInv, FiresOK
<1>7. CappedAfter(n, c)
    BY <1>5, <1>6, SameCardinality DEF RL!RoomForGrant, CappedAfter
<1>8. \A j \in Places' : CappedAfter(j - 1, answered[j])'
    BY <1>2, <1>3, CappedBefore
<1>9. CappedAfter(Len(answered), job)'
  <2>1. CappedAfter(n, c)'
      BY <1>2, <1>3, <1>7, CappedKept
  <2> QED BY <1>2, <1>3, <1>4, <2>1 DEF CappedAfter
<1> QED BY <1>8, <1>9 DEF CapInv

\* Steps that answer nothing and fire nothing: a fire may be recorded for the
\* answer in hand.
LEMMA CapsAside ==
    ASSUME IInv, CountInv, CapInv, UNCHANGED answered,
           \A i \in 1 .. Len(answered) : fires'[i] = fires[i],
           Firing' => Firing /\ job'.fired = job.fired /\ job'.snap = job.snap
    PROVE  CapInv'
<1>1. PICK n \in Nat : n = Len(answered)
    BY AnsweredTypes
<1>2. \A j \in Places' : CappedAfter(j - 1, answered[j])'
    BY <1>1, CappedBefore
<1>3. ASSUME Firing' PROVE CappedAfter(Len(answered), job)'
  <2>1. PICK b, c : b = job /\ c = job'
      OBVIOUS
  <2>2. CappedAfter(n, b) /\ c.fired = b.fired /\ c.snap = b.snap
      BY <1>1, <1>3, <2>1 DEF CapInv
  <2>3. CappedAfter(n, c)'
      BY <1>1, <2>2, CappedKept
  <2> QED BY <1>1, <2>1, <2>3 DEF CappedAfter
<1> QED BY <1>2, <1>3 DEF CapInv

\* The answer in hand becomes the last on outCh.
LEMMA SendCapped ==
    ASSUME IInv, CapInv, Send, IsAnswer(job)
    PROVE  CapInv'
<1>1. PICK b \in Jobs : b = job
    BY JobHeld DEF IInv, Send, Steps
<1>2. PICK n \in Nat : n = Len(answered)
    BY AnsweredTypes
<1>3. /\ pc = "send" /\ pc' = "select" /\ UNCHANGED fires
      /\ answered' = Append(answered, b)
    BY <1>1 DEF Send, Finish, limiterVars
<1>4. /\ Len(answered') = n + 1 /\ answered'[n + 1] = b
      /\ \A i \in 1 .. n : answered'[i] = answered[i]
    BY <1>1, <1>2, <1>3, AppendProperties DEF IInv, TypeOK
<1>5. CappedAfter(n, b)
    BY <1>1, <1>2, <1>3 DEF CapInv, Firing
<1>6. ASSUME NEW j \in 1 .. n + 1 PROVE CappedAfter(j - 1, answered[j])'
  <2>1. PICK a : a = answered'[j]
      OBVIOUS
  <2>2. j - 1 \in Nat /\ (j \in 1 .. n \/ j = n + 1)
      OBVIOUS
  <2>3. CappedAfter(j - 1, a)
      BY <1>2, <1>4, <1>5, <2>1, <2>2 DEF CapInv, Places
  <2>4. CappedAfter(j - 1, a)'
      BY <1>3, <2>2, <2>3, CappedKept
  <2> QED BY <2>1, <2>4 DEF CappedAfter
<1>7. ~Firing'
    BY <1>3 DEF Firing
<1> QED BY <1>4, <1>6, <1>7 DEF CapInv, Places

\* CapInv is kept by every step.
LEMMA CapNext == IInv /\ CountInv /\ RL!RoomForGrant /\ CapInv /\ [Next]_vars => CapInv'
<1> SUFFICES ASSUME IInv, CountInv, RL!RoomForGrant, CapInv, [Next]_vars
             PROVE  CapInv'
    OBVIOUS
<1> USE DEF channelVars, limiterVars
<1>1. CASE Pick
    BY <1>1, PickCapped
<1>2. CASE Send
  <2>1. CASE IsAnswer(job)
      BY <1>2, <2>1, SendCapped
  <2>2. CASE ~IsAnswer(job)
    <3>1. UNCHANGED <<answered, fires>> /\ ~Firing'
        BY <1>2, <2>2 DEF Send, Finish, Firing
    <3> QED BY <3>1, CapsAside
  <2> QED BY <2>1, <2>2
<1>3. CASE RecordUser
  <2>1. UNCHANGED <<answered, fires, job>> /\ Firing
      BY <1>3 DEF RecordUser, Firing
  <2> QED BY <2>1, CapsAside
<1>4. CASE RecordRate
  <2>1. UNCHANGED <<answered, job>> /\ Firing
      BY <1>4 DEF RecordRate, Firing
  <2>2. \A i \in 1 .. Len(fires) : fires'[i] = fires[i]
    <3>1. PICK fire : fires' = Append(fires, fire)
        BY <1>4 DEF RecordRate, RL!Record
    <3> QED BY <3>1, LenProperties DEF CountInv, TrackerTypes
  <2>3. Len(fires) = Len(answered)
      BY <1>4, AnsweredTypes DEF RecordRate, CountInv, FiresOK
  <2> QED BY <2>1, <2>2, <2>3, CapsAside
<1>5. CASE Receive \/ Screen \/ CheckMatcher \/ CheckUser \/ CheckRate \/ Panic \/ Return
  <2>1. UNCHANGED <<answered, fires>> /\ ~Firing'
      BY <1>5 DEF Receive, Screen, CheckMatcher, CheckUser, CheckRate, Panic, Return, Finish,
                  Proceed, Firing, RL!Grant, RL!Refuse, RL!Pruned
  <2> QED BY <2>1, CapsAside
<1>6. CASE \E verdict : HandleCommand(verdict)
  <2>1. UNCHANGED <<answered, fires>> /\ ~Firing'
    <3>1. job \in Jobs /\ job.matcher = NoMatch
        BY <1>6, JobHeld DEF IInv, JobOK, HandleCommand, Steps
    <3> QED BY <1>6, <3>1 DEF HandleCommand, Finish, Firing, IsAnswer, Jobs
  <2> QED BY <2>1, CapsAside
<1>7. CASE \/ Deliver \/ Reload \/ Take \/ StopReplyLoop \/ Cancel \/ Reap \/ Tick
           \/ UNCHANGED vars
  <2>1. UNCHANGED <<pc, answered, fires>>
      BY <1>7 DEF Deliver, Reload, Take, StopReplyLoop, Cancel, Reap, Tick, vars, actorVars
  <2>2. Firing => /\ job'.fired = job.fired /\ job'.snap = job.snap
                  /\ job'.matcher = job.matcher
    <3>1. CASE Reload
        BY <3>1, JobHeld DEF IInv, Reload, Swapped, Jobs, Firing, Steps
    <3>2. CASE ~Reload
        BY <1>7, <3>2 DEF Deliver, Take, StopReplyLoop, Cancel, Reap, Tick, vars, actorVars
    <3> QED BY <3>1, <3>2
  <2>3. Firing' => Firing
    <3>1. CASE Reload
        BY <2>1, <3>1, JobHeld DEF IInv, Reload, Swapped, Jobs, Firing, IsAnswer, Steps
    <3>2. CASE ~Reload
        BY <1>7, <2>1, <3>2 DEF Deliver, Take, StopReplyLoop, Cancel, Reap, Tick, vars,
                                actorVars, Firing, IsAnswer
    <3> QED BY <3>1, <3>2
  <2> QED BY <2>1, <2>2, <2>3, CapsAside
<1> QED BY <1>1, <1>2, <1>3, <1>4, <1>5, <1>6, <1>7 DEF Next, Actor

\* Each recent answer but the last is a recent fire, for it was recorded no earlier.
LEMMA RecentFires ==
    ASSUME IInv, CountInv, NEW j \in 1 .. Len(Answers), NEW b, b = Answers[j],
           NEW w \in Nat, NEW cap \in Nat,
           RL!Within(Cardinality(RL!InWindow(fires, j - 1, b.fired, w)) + 1, cap)
    PROVE  RL!Within(RL!Cardinality(Recent(j, w)), cap)
<1>1. PICK n \in Nat : n = Len(answered)
    BY AnsweredTypes
<1>2. /\ Len(Answers) \in Nat /\ j - 1 \in Nat /\ j \in Nat /\ j - 1 <= n
      /\ b.fired \in Int
      /\ \A i \in 1 .. j - 1 : Answers[i].fired \in Int /\ CountedAs(fires[i], Answers[i])
  <2>1. \A i \in 1 .. n : CountedAs(fires[i], answered[i])
      BY <1>1 DEF CountInv, FiresOK
  <2>2. CASE ~(pc = "send" /\ IsAnswer(job))
    <3>1. Answers = answered
        BY <2>2, AnswersInHand, <1>1
    <3> QED BY <1>1, <2>1, <3>1, AnsweredTypes DEF Places
  <2>3. CASE pc = "send" /\ IsAnswer(job)
    <3>1. /\ Len(Answers) = n + 1 /\ Answers[n + 1] = job
          /\ \A i \in 1 .. n : Answers[i] = answered[i]
        BY <1>1, <2>3, AnswersInHand
    <3>2. j \in 1 .. n \/ j = n + 1
        BY <3>1
    <3>3. job.fired \in Int /\ \A i \in 1 .. n : answered[i].fired \in Int
        BY <1>1, <2>3, AnsweredTypes DEF Places, Steps
    <3> QED BY <2>1, <3>1, <3>2, <3>3
  <2> QED BY <2>2, <2>3
<1>3. \A i \in 1 .. j - 1 : fires[i].at \in Int
  <2>1. fires \in Seq([at : 0 .. MaxTime, caps : Caps]) /\ n <= Len(fires)
      BY <1>1 DEF CountInv, TrackerTypes, FiresOK
  <2>2. Len(fires) \in Nat /\ \A i \in 1 .. j - 1 : i \in 1 .. Len(fires)
      BY <1>1, <1>2, <2>1, LenProperties
  <2>3. \A i \in 1 .. j - 1 : fires[i] \in [at : 0 .. MaxTime, caps : Caps]
      BY <2>1, <2>2, ElementOfSeq
  <2> QED BY <2>3, PipelineAssumption
<1> DEFINE old == RL!InWindow(fires, j - 1, b.fired, w)
<1>4. Recent(j, w) \subseteq old \cup {j}
  <2>1. ASSUME NEW i \in 1 .. j, i # j, Answers[i].fired >= b.fired - w
        PROVE  i \in 1 .. j - 1 /\ fires[i].at >= b.fired - w
    <3>1. i \in 1 .. j - 1
        BY <1>2, <2>1
    <3> QED BY <1>2, <1>3, <2>1, <3>1 DEF CountedAs
  <2> QED BY <2>1 DEF Recent, RL!InWindow
<1>5. IsFiniteSet(old) /\ j \notin old
  <2>1. old \subseteq 1 .. j - 1
      BY DEF RL!InWindow
  <2> HIDE DEF old
  <2>2. IsFiniteSet(1 .. j - 1)
      BY <1>2, FS_Interval
  <2>3. j \notin 1 .. j - 1
      BY <1>2
  <2> QED BY <2>1, <2>2, <2>3, FS_Subset
<1>6. Cardinality(Recent(j, w)) <= Cardinality(old) + 1
  <2> HIDE DEF old
  <2>1. /\ IsFiniteSet(old \cup {j})
        /\ Cardinality(old \cup {j}) = Cardinality(old) + 1
      BY <1>5, FS_AddElement
  <2> QED BY <1>4, <2>1, FS_Subset
<1>7. Cardinality(Recent(j, w)) \in Nat /\ Cardinality(old) \in Nat
  <2> HIDE DEF old
  <2> QED BY <1>4, <1>5, FS_AddElement, FS_Subset, FS_CardinalityType
<1> QED BY <1>6, <1>7, SameCardinality DEF RL!Within

\* Answers are no more than the fires that the limiter let pass.
LEMMA KeepsFew == IInv /\ CountInv /\ CapInv => AnswersCapped
<1> SUFFICES ASSUME IInv, CountInv, CapInv, NEW j \in 1 .. Len(Answers),
                    NEW b, b = Answers[j]
             PROVE  /\ RL!Within(RL!Cardinality(Recent(j, Minute)), b.snap.rateCap.perMin)
                    /\ RL!Within(RL!Cardinality(Recent(j, Hour)), b.snap.rateCap.perHour)
    BY SameCardinality DEF AnswersCapped
<1>1. PICK n \in Nat : n = Len(answered)
    BY AnsweredTypes
<1>2. b \in Jobs /\ CappedAfter(j - 1, b)
  <2>1. CASE ~(pc = "send" /\ IsAnswer(job))
      BY <1>1, <2>1, AnswersInHand, AnsweredTypes DEF CapInv, Places
  <2>2. CASE pc = "send" /\ IsAnswer(job)
    <3>1. /\ Len(Answers) = n + 1 /\ Answers[n + 1] = job
          /\ \A i \in 1 .. n : Answers[i] = answered[i]
        BY <1>1, <2>2, AnswersInHand
    <3>2. CASE j \in 1 .. n
        BY <1>1, <3>1, <3>2, AnsweredTypes DEF CapInv, Places
    <3>3. CASE j = n + 1
        BY <1>1, <2>2, <3>1, <3>3, AnsweredTypes DEF CapInv, Firing, Steps
    <3> QED BY <3>1, <3>2, <3>3
  <2> QED BY <2>1, <2>2
<1>3. b.snap.rateCap.perMin \in Nat /\ b.snap.rateCap.perHour \in Nat
      /\ Minute \in Nat /\ Hour \in Nat
  <2>1. b.snap.rateCap \in Caps
      BY <1>2, PipelineAssumption DEF Jobs
  <2> QED BY <2>1, ComponentAssumption DEF RL!RateAssumption
<1> QED BY <1>2, <1>3, RecentFires DEF CappedAfter

(* No minute and no hour that ends with an answer contains more answers    *)
(* than the cap of the snapshot that decided it, for any traffic, caps and *)
(* reloads (pipeline.go:215, 226, 263-308).                                *)
THEOREM CapsAnswers == Spec => []AnswersCapped
<1>1. Spec => []RL!RoomForGrant
    BY LimiterPromises, PTL
<1> QED BY <1>1, Invariant, CountInit, CountNext, CapInit, CapNext, KeepsFew, PTL DEF Spec
=============================================================================
