--------------------------- MODULE PipelineProofs ---------------------------
(***************************************************************************)
(* Proofs about Pipeline for all configurations, messages, capacities and  *)
(* bounds: its types, PauseBarrier and SwitchAsAcknowledged, that its      *)
(* steps are steps of the tracker and of the limiter, and that what those  *)
(* two promise holds of the pipeline's behaviours.                         *)
(***************************************************************************)
EXTENDS Pipeline, SequenceTheorems, WellFoundedInduction, TLAPS

-----------------------------------------------------------------------------
(* The inductive invariant.                                                *)

\* Where the actor works for an answer it has found.
Gates == {"cooldown", "user", "rate", "pick", "recordUser", "recordRate"}

\* What the actor knows of its job as it moves from gate to gate: past the
\* first gates the switch was off, and has stayed so.
JobOK ==
    /\ pc = "screen" => Listener # NoMatch
    /\ pc \in {"command", "screen"} => job.matcher = NoMatch
    /\ pc \in Gates => job.matcher \in ResolvedMatchers /\ ~paused
    /\ pc = "send" /\ IsAnswer(job) => ~paused
    /\ pc = "send" /\ ~IsAnswer(job) =>
         job.answer = IF paused THEN "paused" ELSE "resumed"

IInv == TypeOK /\ JobOK /\ PauseBarrier /\ SwitchAsAcknowledged

-----------------------------------------------------------------------------
(* Configurations.                                                         *)

LEMMA SmallestPlace ==
    ASSUME NEW T, T \subseteq Nat, T # {}
    PROVE  \E x \in T : \A y \in T : x <= y
<1> DEFINE R == OpToRel(<, Nat)
<1>1. PICK x \in T : \A y \in T : ~ (<<y, x>> \in R)
    BY NatLessThanWellFounded, WFMin
<1>2. \A a, b \in Nat : b < a => <<b, a>> \in R
    BY Zenon DEF OpToRel
<1> HIDE DEF R
<1>3. \A y \in T : ~ (y < x)
    BY <1>1, <1>2, Zenon
<1> QED BY <1>3

\* What First finds in a sequence is one of its elements.
LEMMA FirstOfSeq ==
    ASSUME NEW S, NEW seq \in Seq(S), NEW places \in SUBSET DOMAIN seq,
           First(seq, places) # NoMatch
    PROVE  First(seq, places) \in S
<1>1. places # {}
    BY DEF First
<1>2. DOMAIN seq = 1 .. Len(seq) /\ Len(seq) \in Nat
    BY LenProperties
<1>3. \E i \in places : \A j \in places : i <= j
    BY <1>1, <1>2, SmallestPlace
<1> DEFINE i == CHOOSE i \in places : \A j \in places : i <= j
<1>4. i \in 1 .. Len(seq)
    BY <1>2, <1>3
<1>5. First(seq, places) = seq[i]
    BY <1>1 DEF First
<1> HIDE DEF i
<1> QED BY <1>4, <1>5, ElementOfSeq

\* A listener that findListener finds is one of some configuration.
LEMMA ListenerTypes ==
    ASSUME NEW s \in Snapshots, NEW group,
           findListener(s.listeners, group) # NoMatch
    PROVE  findListener(s.listeners, group) \in ResolvedListeners
<1>1. s.listeners \in Seq(ResolvedListeners)
    BY PipelineAssumption
<1> QED BY <1>1, FirstOfSeq DEF findListener

\* A matcher that fires is one of some configuration.
LEMMA MatchTypes ==
    ASSUME NEW l \in ResolvedListeners, NEW msg,
           MatchMessage(msg, l.matchers) # NoMatch
    PROVE  MatchMessage(msg, l.matchers) \in ResolvedMatchers
<1>1. l.matchers \in Seq(ResolvedMatchers)
    BY PipelineAssumption
<1>2. ASSUME NEW words, NEW mentioned, Match(words, mentioned, l.matchers) # NoMatch
      PROVE  Match(words, mentioned, l.matchers) \in ResolvedMatchers
    BY <1>1, <1>2, FirstOfSeq DEF Match
<1> QED BY <1>2 DEF MatchMessage

-----------------------------------------------------------------------------
(* The inductive invariant is one.                                         *)

LEMMA InitIInv == Init => IInv
<1> SUFFICES ASSUME Init PROVE IInv
    OBVIOUS
<1>1. now = 0 /\ MaxTime \in Nat /\ MaxMessages \in Nat /\ Capacity \in Nat
    BY PipelineAssumption DEF Init, CD!Init
<1>2. \A S : << >> \in Seq(S) /\ Len(<< >>) = 0
    BY EmptySeq
<1>3. TypeOK
  <2>1. /\ inCh = << >> /\ outCh = << >>
        /\ delivered = << >> /\ outbox = << >> /\ answered = << >>
        /\ pc = "select" /\ job = NoJob
        /\ snap \in Snapshots /\ ctxDone = FALSE /\ replyLoop = TRUE /\ paused = FALSE
      BY DEF Init
  <2>2. /\ delivered \in Seq(Messages) /\ outbox \in Seq(Jobs) /\ answered \in Seq(Jobs)
        /\ inCh \in Seq(1 .. Len(delivered)) /\ outCh \in Seq(1 .. Len(outbox))
      BY <1>2, <2>1, Zenon
  <2>3. Len(delivered) <= MaxMessages /\ Len(inCh) <= Capacity /\ Len(outCh) <= Capacity
      BY <1>1, <1>2, <2>1
  <2>4. ctxDone \in BOOLEAN /\ replyLoop \in BOOLEAN /\ paused \in BOOLEAN
      BY <2>1
  <2>5. now \in 0 .. MaxTime
      BY <1>1
  <2> QED BY <2>1, <2>2, <2>3, <2>4, <2>5, Zenon DEF TypeOK
<1>4. JobOK
    BY DEF Init, JobOK, Gates
<1>5. PauseBarrier /\ SwitchAsAcknowledged
    BY <1>2 DEF Init, PauseBarrier, SwitchAsAcknowledged, ToldToPause
<1> QED BY <1>3, <1>4, <1>5 DEF IInv

\* The actor holds a job exactly while it works on one.
LEMMA JobHeld ==
    ASSUME TypeOK
    PROVE  /\ pc \in Steps => /\ job \in Jobs /\ job # NoJob
                              /\ job.id \in 1 .. Len(delivered)
                              /\ Msg \in Messages
           /\ pc \in {"select", "returned"} => job = NoJob
           /\ pc \in Steps \cup {"select", "returned"}
<1>1. pc \in Steps => pc \notin {"select", "returned"}
    BY DEF Steps
<1>2. ASSUME pc \in Steps
      PROVE  job \in Jobs /\ job # NoJob /\ job.id \in 1 .. Len(delivered)
  <2>1. job \in Jobs /\ job.id <= Len(delivered)
      BY <1>1, <1>2 DEF TypeOK
  <2>2. job.id \in Nat \ {0}
      BY <2>1, PipelineAssumption DEF Jobs
  <2>3. Len(delivered) \in Nat
      BY LenProperties DEF TypeOK
  <2> QED BY <2>1, <2>2, <2>3 DEF NoJob
<1>3. \A n \in 1 .. Len(delivered) : delivered[n] \in Messages
    BY ElementOfSeq DEF TypeOK
<1> QED BY <1>1, <1>2, <1>3 DEF TypeOK, Msg

\* What a job may be given as its answer.
LEMMA AnsweredJob ==
    ASSUME NEW j \in Jobs, NEW a, NEW t \in 0 .. MaxTime,
           \/ a \in {None, "paused", "resumed"}
           \/ \E m \in ResolvedMatchers : a \in m.answers
    PROVE  /\ [j EXCEPT !.answer = a] \in Jobs
           /\ [j EXCEPT !.answer = a, !.fired = t] \in Jobs
<1> DEFINE As == (UNION {m.answers : m \in ResolvedMatchers})
                   \cup {None, "paused", "resumed"}
<1>1. a \in As
    OBVIOUS
<1>2. Jobs = [id : 1 .. MaxMessages, snap : Snapshots,
              matcher : ResolvedMatchers \cup {NoMatch}, answer : As,
              screened : 0 .. MaxTime, fired : 0 .. MaxTime,
              during : SUBSET Snapshots]
    BY Zenon DEF Jobs
<1> HIDE DEF As
<1> QED BY <1>1, <1>2

\* A step of the actor between two gates disturbs neither the channels nor
\* what has been sent.
LEMMA GateStep ==
    ASSUME IInv, UNCHANGED <<now, channelVars, configVars>>, paused' \in BOOLEAN,
           \/ pc' \in Steps /\ pc \in Steps /\ job' \in Jobs /\ job'.id = job.id
           \/ pc' \in {"select", "returned"} /\ job' = NoJob
    PROVE  TypeOK' /\ PauseBarrier' /\ (ToldToPause' <=> ToldToPause)
<1>1. TypeOK'
  <2>1. pc \in Steps => job.id <= Len(delivered)
      BY JobHeld DEF IInv, TypeOK, Steps
  <2> QED BY <2>1 DEF IInv, TypeOK, channelVars, configVars
<1>2. PauseBarrier' /\ (ToldToPause' <=> ToldToPause)
    BY DEF IInv, channelVars, PauseBarrier, ToldToPause, Acknowledges, IsAnswer
<1> QED BY <1>1, <1>2

\* A step after which the actor holds no job.
LEMMA Dropped ==
    ASSUME IInv, UNCHANGED <<now, paused, channelVars, configVars>>, Finish,
           ~(pc = "send" /\ ~IsAnswer(job))
    PROVE  IInv'
<1>1. TypeOK' /\ PauseBarrier' /\ (ToldToPause' <=> ToldToPause)
    BY GateStep DEF IInv, TypeOK, Finish
<1>2. JobOK'
    BY DEF Finish, JobOK, Gates
<1>3. SwitchAsAcknowledged'
    BY <1>1 DEF IInv, SwitchAsAcknowledged
<1> QED BY <1>1, <1>2, <1>3 DEF IInv

\* A step from a gate to the next, or to the send.
LEMMA Passed ==
    ASSUME IInv, UNCHANGED <<now, paused, channelVars, configVars>>,
           pc \in Gates, pc' \in Gates \cup {"send"},
           job' \in Jobs, job'.id = job.id, job'.matcher = job.matcher
    PROVE  IInv'
<1>1. TypeOK' /\ PauseBarrier' /\ (ToldToPause' <=> ToldToPause)
    BY GateStep DEF IInv, TypeOK, Gates, Steps
<1>2. job.matcher \in ResolvedMatchers /\ ~paused /\ job.matcher # NoMatch
    BY PipelineAssumption DEF IInv, JobOK
<1>3. JobOK'
    BY <1>2 DEF JobOK, Gates, IsAnswer
<1>4. SwitchAsAcknowledged'
    BY <1>1 DEF IInv, SwitchAsAcknowledged, Gates
<1> QED BY <1>1, <1>3, <1>4 DEF IInv

LEMMA ReceiveIInv == ASSUME IInv, Receive PROVE IInv'
<1>1. /\ inCh \in Seq(1 .. Len(delivered)) /\ inCh # << >>
      /\ pc = "select" /\ job = NoJob /\ inCh' = Tail(inCh)
      /\ UNCHANGED <<now, paused, snap, ctxDone, outCh, replyLoop, delivered, outbox,
                     answered>>
    BY DEF Receive, IInv, TypeOK, Steps
<1>2. /\ Head(inCh) \in 1 .. Len(delivered)
      /\ inCh' \in Seq(1 .. Len(delivered'))
      /\ Len(inCh') = Len(inCh) - 1 /\ Len(inCh) \in Nat
      /\ Len(delivered) \in Nat
    BY <1>1, HeadTailProperties, LenProperties DEF IInv, TypeOK
<1>3. \/ Finish
      \/ \E step \in {"command", "screen"} : InScope /\ Proceed(step)
    BY DEF Receive
<1>4. ASSUME NEW step \in {"command", "screen"}, InScope, Proceed(step)
      PROVE  /\ pc' = step /\ job' \in Jobs /\ job'.id <= Len(delivered')
             /\ Listener' # NoMatch /\ job'.matcher = NoMatch
  <2>1. job'.id = Head(inCh) /\ job'.snap = snap /\ job'.matcher = NoMatch /\ pc' = step
      BY <1>4 DEF Proceed
  <2>2. job' \in Jobs
    <3>1. snap \in Snapshots /\ Head(inCh) \in 1 .. MaxMessages /\ 0 \in 0 .. MaxTime
        BY <1>2, PipelineAssumption DEF IInv, TypeOK
    <3> DEFINE As == (UNION {m.answers : m \in ResolvedMatchers})
                       \cup {None, "paused", "resumed"}
    <3>2. None \in As
        OBVIOUS
    <3> HIDE DEF As
    <3>3. [id |-> Head(inCh), snap |-> snap, matcher |-> NoMatch,
           answer |-> None, screened |-> 0, fired |-> 0, during |-> {snap}]
            \in [id : 1 .. MaxMessages, snap : Snapshots,
                 matcher : ResolvedMatchers \cup {NoMatch}, answer : As,
                 screened : 0 .. MaxTime, fired : 0 .. MaxTime,
                 during : SUBSET Snapshots]
        BY <3>1, <3>2
    <3> QED BY <1>4, <3>3 DEF Proceed, Jobs, As
  <2>3. Listener' # NoMatch
      BY <1>1, <1>4, <2>1 DEF InScope, Incoming, Listener, Msg
  <2> QED BY <1>1, <1>2, <2>1, <2>2, <2>3
<1>5. TypeOK'
  <2>1. \/ pc' \in Steps /\ job' \in Jobs /\ job'.id <= Len(delivered')
        \/ pc' \in {"select", "returned"} /\ job' = NoJob
      BY <1>3, <1>4 DEF Finish, Steps
  <2>2. Len(inCh') <= Capacity /\ outCh' \in Seq(1 .. Len(outbox'))
      BY <1>1, <1>2, PipelineAssumption DEF IInv, TypeOK
  <2> QED BY <1>1, <1>2, <2>1, <2>2 DEF IInv, TypeOK
<1>6. JobOK'
    BY <1>3, <1>4 DEF Finish, JobOK, Gates
<1>7. PauseBarrier' /\ (ToldToPause' <=> ToldToPause)
  <2>1. outbox' = outbox
      BY <1>1
  <2> QED BY <2>1 DEF IInv, PauseBarrier, ToldToPause, Acknowledges, IsAnswer
<1>8. SwitchAsAcknowledged'
    BY <1>1, <1>7 DEF IInv, SwitchAsAcknowledged
<1> QED BY <1>5, <1>6, <1>7, <1>8 DEF IInv

\* The switch changes only together with an acknowledgement on its way.
LEMMA HandleCommandIInv ==
    ASSUME IInv, NEW verdict, HandleCommand(verdict)
    PROVE  IInv'
<1>1. CASE Finish /\ UNCHANGED paused
    BY <1>1, Dropped DEF HandleCommand, cooldownVars, limiterVars
<1>2. CASE /\ paused' = (Msg.text = "!pause")
           /\ pc' = "send"
           /\ job' = [job EXCEPT !.answer = Ack(Msg.text)]
  <2>1. job \in Jobs /\ job.matcher = NoMatch /\ pc = "command" /\ pc \in Steps
      BY JobHeld DEF IInv, JobOK, HandleCommand, Steps
  <2>2. Ack(Msg.text) = IF paused' THEN "paused" ELSE "resumed"
      BY <1>2 DEF Ack
  <2>3. /\ job' \in Jobs /\ job'.id = job.id /\ job'.matcher = NoMatch
        /\ job'.answer = IF paused' THEN "paused" ELSE "resumed"
    <3>1. job' \in Jobs
      <4>1. Ack(Msg.text) \in {None, "paused", "resumed"} /\ 0 \in 0 .. MaxTime
          BY PipelineAssumption DEF Ack
      <4> QED BY <1>2, <2>1, <4>1, AnsweredJob
    <3>2. DOMAIN job = {"id", "snap", "matcher", "answer", "screened", "fired", "during"}
        BY <2>1 DEF Jobs
    <3> QED BY <1>2, <2>1, <2>2, <3>1, <3>2
  <2>4. TypeOK' /\ PauseBarrier' /\ (ToldToPause' <=> ToldToPause)
      BY <1>2, <2>1, <2>3, GateStep DEF HandleCommand, Steps
  <2>5. JobOK' /\ SwitchAsAcknowledged'
      BY <1>2, <2>3 DEF JobOK, Gates, IsAnswer, SwitchAsAcknowledged
  <2> QED BY <2>4, <2>5 DEF IInv
<1> QED BY <1>1, <1>2 DEF HandleCommand

LEMMA ScreenIInv == ASSUME IInv, Screen PROVE IInv'
<1> DEFINE m == MatchMessage(Msg, Listener.matchers)
<1>1. CASE Finish
    BY <1>1, Dropped DEF Screen
<1>2. CASE /\ ~paused /\ m # NoMatch
           /\ pc' = "cooldown"
           /\ job' = [job EXCEPT !.matcher = m, !.screened = now]
  <2>1. job \in Jobs /\ pc = "screen" /\ pc \in Steps
      BY JobHeld DEF IInv, Screen, Steps
  <2>2. Listener \in ResolvedListeners
      BY <2>1, ListenerTypes DEF IInv, JobOK, Listener, Jobs
  <2>3. m \in ResolvedMatchers
      BY <1>2, <2>2, MatchTypes
  <2> HIDE DEF m
  <2>4. job' \in Jobs /\ job'.id = job.id /\ job'.matcher = m
      BY <1>2, <2>1, <2>3 DEF Jobs, IInv, TypeOK
  <2>5. TypeOK' /\ PauseBarrier' /\ (ToldToPause' <=> ToldToPause) /\ UNCHANGED paused
      BY <1>2, <2>1, <2>4, GateStep DEF IInv, TypeOK, Screen, Steps
  <2>6. JobOK' /\ SwitchAsAcknowledged'
      BY <1>2, <2>1, <2>3, <2>4, <2>5 DEF IInv, JobOK, Gates, SwitchAsAcknowledged
  <2> QED BY <2>5, <2>6 DEF IInv
<1> QED BY <1>1, <1>2 DEF Screen

LEMMA GatesIInv ==
    ASSUME IInv, CheckMatcher \/ CheckUser \/ CheckRate \/ Pick
                   \/ RecordUser \/ RecordRate
    PROVE  IInv'
<1>1. pc \in Gates /\ UNCHANGED <<now, paused, channelVars, configVars>>
    BY DEF CheckMatcher, CheckUser, CheckRate, Pick, RecordUser, RecordRate, Gates,
           cooldownVars, CD!BeginAllow, CD!AllowUser, CD!DenyUser, CD!Forgo,
           CD!RecordMatcher, CD!RecordUser, RL!Grant, RL!Refuse, RL!Pruned, RL!Record
<1>2. job \in Jobs
    BY <1>1, JobHeld DEF IInv, Gates, Steps
<1>3. CASE Finish
    BY <1>1, <1>3, Dropped DEF Gates
<1>4. CASE pc' \in Gates \cup {"send"} /\ UNCHANGED job
    BY <1>1, <1>2, <1>4, Passed
<1>5. CASE Pick
  <2>1. PICK answer \in job.matcher.answers :
            job' = [job EXCEPT !.answer = answer, !.fired = now]
      BY <1>5 DEF Pick
  <2>2. job.matcher \in ResolvedMatchers /\ now \in 0 .. MaxTime
      BY <1>1 DEF IInv, JobOK, TypeOK
  <2>3. job' \in Jobs
      BY <1>2, <2>1, <2>2, AnsweredJob
  <2>4. job'.id = job.id /\ job'.matcher = job.matcher
      BY <1>2, <2>1 DEF Jobs
  <2> QED BY <1>1, <1>5, <2>3, <2>4, Passed DEF Pick, Gates
<1> QED BY <1>3, <1>4, <1>5
        DEF CheckMatcher, CheckUser, CheckRate, RecordUser, RecordRate, Gates

LEMMA PanicIInv == ASSUME IInv, Panic PROVE IInv'
<1>1. job \in Jobs
    BY JobHeld DEF IInv, Panic, Steps
<1>2. TypeOK' /\ PauseBarrier' /\ (ToldToPause' <=> ToldToPause)
    BY <1>1, GateStep DEF IInv, TypeOK, Panic, Steps
<1>3. JobOK' /\ SwitchAsAcknowledged'
    BY <1>2 DEF IInv, Panic, JobOK, Gates, SwitchAsAcknowledged
<1> QED BY <1>2, <1>3 DEF IInv

\* The reply that is sent comes last in outbox.  It is an answer only while
\* the switch is off, and an acknowledgement tells how the switch is.
LEMMA SendIInv == ASSUME IInv, Send PROVE IInv'
<1>0. PICK n \in Nat : n = Len(outbox)
    BY LenProperties DEF IInv, TypeOK
<1>1. /\ pc = "send" /\ job \in Jobs /\ Finish
      /\ outbox' = Append(outbox, job) /\ outCh' = Append(outCh, Len(outbox'))
      /\ Len(outCh) < Capacity /\ Capacity \in Nat
      /\ answered' = IF IsAnswer(job) THEN Append(answered, job) ELSE answered
      /\ UNCHANGED <<now, paused, inCh, replyLoop, delivered, snap, ctxDone>>
    BY JobHeld, PipelineAssumption DEF IInv, Send, Steps, configVars
<1>2. /\ n \in Nat /\ outbox' \in Seq(Jobs) /\ Len(outbox') = n + 1
      /\ \A i \in 1 .. n : outbox'[i] = outbox[i]
      /\ outbox'[n + 1] = job
  <2>1. outbox \in Seq(Jobs)
      BY DEF IInv, TypeOK
  <2> QED BY <1>0, <1>1, <2>1, AppendProperties, LenProperties
<1>3. outCh' \in Seq(1 .. n + 1) /\ Len(outCh') = Len(outCh) + 1 /\ Len(outCh) \in Nat
  <2>1. outCh \in Seq(1 .. n) /\ 1 .. n \subseteq 1 .. n + 1 /\ n + 1 \in 1 .. n + 1
      BY <1>0, <1>2 DEF IInv, TypeOK
  <2>2. outCh \in Seq(1 .. n + 1)
      BY <2>1, SeqMonotonic
  <2> QED BY <1>1, <1>2, <2>1, <2>2, AppendProperties, LenProperties
<1>4. TypeOK'
  <2>1. outCh' \in Seq(1 .. Len(outbox')) /\ Len(outCh') <= Capacity
      BY <1>1, <1>2, <1>3
  <2>2. pc' \in {"select", "returned"} /\ job' = NoJob
      BY <1>1 DEF Finish
  <2>3. answered' \in Seq(Jobs)
    <3>1. answered \in Seq(Jobs)
        BY DEF IInv, TypeOK
    <3> QED BY <1>1, <3>1, AppendProperties
  <2> QED BY <1>1, <1>2, <2>1, <2>2, <2>3 DEF IInv, TypeOK
<1>5. JobOK'
    BY <1>1 DEF Finish, JobOK, Gates
<1>6. ToldToPause <=> \E i \in 1 .. n : /\ Acknowledges(i, "paused")
                                        /\ \A k \in i .. n : ~Acknowledges(k, "resumed")
    BY <1>0 DEF ToldToPause
<1>7. ToldToPause' <=>
        \E i \in 1 .. n + 1 : /\ Acknowledges(i, "paused")'
                              /\ \A k \in i .. n + 1 : ~Acknowledges(k, "resumed")'
    BY <1>2 DEF ToldToPause
<1>8. \A i \in 1 .. n : \A text : Acknowledges(i, text)' <=> Acknowledges(i, text)
    BY <1>2 DEF Acknowledges, IsAnswer
<1>9. \A text : Acknowledges(n + 1, text)' <=> ~IsAnswer(job) /\ job.answer = text
    BY <1>2 DEF Acknowledges, IsAnswer
<1>10. PauseBarrier'
  <2>1. ASSUME NEW i \in 1 .. n + 1, NEW j \in 1 .. n + 1, i < j,
               Acknowledges(i, "paused")', IsAnswer(outbox'[j])
        PROVE  \E k \in i .. j : Acknowledges(k, "resumed")'
    <3>1. i \in 1 .. n /\ Acknowledges(i, "paused")
        BY <1>2, <1>8, <2>1
    <3>2. CASE j \in 1 .. n
      <4>1. IsAnswer(outbox[j])
          BY <1>2, <2>1, <3>2 DEF IsAnswer
      <4>2. \E k \in i .. j : Acknowledges(k, "resumed")
          BY <1>0, <2>1, <3>1, <3>2, <4>1 DEF IInv, PauseBarrier
      <4> QED BY <1>2, <1>8, <2>1, <3>1, <3>2, <4>2
    <3>3. CASE j = n + 1
      <4>1. IsAnswer(job)
          BY <1>2, <2>1, <3>3
      <4>2. ~ToldToPause
          BY <1>1, <4>1 DEF IInv, JobOK, SwitchAsAcknowledged
      <4>3. \E k \in i .. n : Acknowledges(k, "resumed")
          BY <1>6, <3>1, <4>2
      <4> QED BY <1>2, <1>8, <3>1, <3>3, <4>3
    <3> QED BY <1>2, <2>1, <3>2, <3>3
  <2> QED BY <1>2, <2>1 DEF PauseBarrier
<1>11. paused' <=> ToldToPause'
  <2>1. CASE IsAnswer(job)
    <3>1. ~paused' /\ ~ToldToPause
        BY <1>1, <2>1 DEF IInv, JobOK, SwitchAsAcknowledged
    <3>2. \A text : ~Acknowledges(n + 1, text)'
        BY <1>9, <2>1
    <3>3. ASSUME NEW i \in 1 .. n + 1, Acknowledges(i, "paused")'
          PROVE  \E k \in i .. n + 1 : Acknowledges(k, "resumed")'
      <4>1. i \in 1 .. n /\ Acknowledges(i, "paused")
          BY <1>8, <3>2, <3>3
      <4>2. PICK k \in i .. n : Acknowledges(k, "resumed")
          BY <1>6, <3>1, <4>1
      <4> QED BY <1>8, <4>1, <4>2
    <3> QED BY <1>7, <3>1, <3>3
  <2>2. CASE ~IsAnswer(job) /\ paused
    <3>1. job.answer = "paused"
        BY <1>1, <2>2 DEF IInv, JobOK
    <3>2. Acknowledges(n + 1, "paused")' /\ ~Acknowledges(n + 1, "resumed")'
        BY <1>9, <2>2, <3>1
    <3> QED BY <1>1, <1>2, <1>7, <2>2, <3>2
  <2>3. CASE ~IsAnswer(job) /\ ~paused
    <3>1. job.answer = "resumed"
        BY <1>1, <2>3 DEF IInv, JobOK
    <3>2. Acknowledges(n + 1, "resumed")'
        BY <1>9, <2>3, <3>1
    <3> QED BY <1>1, <1>2, <1>7, <2>3, <3>2
  <2> QED BY <2>1, <2>2, <2>3
<1> QED BY <1>4, <1>5, <1>10, <1>11 DEF IInv, SwitchAsAcknowledged

LEMMA ReturnIInv == ASSUME IInv, Return PROVE IInv'
<1>1. job = NoJob
    BY JobHeld DEF IInv, Return
<1>2. TypeOK' /\ PauseBarrier' /\ (ToldToPause' <=> ToldToPause)
    BY <1>1, GateStep DEF IInv, TypeOK, Return
<1>3. JobOK' /\ SwitchAsAcknowledged'
    BY <1>2 DEF IInv, Return, JobOK, Gates, SwitchAsAcknowledged
<1> QED BY <1>2, <1>3 DEF IInv

LEMMA DeliverIInv == ASSUME IInv, Deliver PROVE IInv'
<1>0. PICK n \in Nat : n = Len(delivered)
    BY LenProperties DEF IInv, TypeOK
<1>1. PICK msg \in Messages : delivered' = Append(delivered, msg)
    BY DEF Deliver
<1>2. /\ inCh' = Append(inCh, Len(delivered')) /\ Len(inCh) < Capacity
      /\ n < MaxMessages
      /\ UNCHANGED <<now, paused, pc, job, snap, ctxDone, outCh, replyLoop, outbox,
                     answered>>
    BY <1>0 DEF Deliver, actorVars, configVars
<1>3. /\ delivered' \in Seq(Messages) /\ Len(delivered') = n + 1
      /\ \A i \in 1 .. n : delivered'[i] = delivered[i]
    BY <1>0, <1>1, AppendProperties DEF IInv, TypeOK
<1>4. inCh' \in Seq(1 .. n + 1) /\ Len(inCh') = Len(inCh) + 1 /\ Len(inCh) \in Nat
  <2>1. inCh \in Seq(1 .. n) /\ 1 .. n \subseteq 1 .. n + 1 /\ n + 1 \in 1 .. n + 1
      BY <1>0 DEF IInv, TypeOK
  <2>2. inCh \in Seq(1 .. n + 1)
      BY <2>1, SeqMonotonic
  <2> QED BY <1>2, <1>3, <2>1, <2>2, AppendProperties, LenProperties
<1>5. TypeOK'
  <2>1. /\ inCh' \in Seq(1 .. Len(delivered')) /\ Len(inCh') <= Capacity
        /\ Len(delivered') <= MaxMessages
      BY <1>2, <1>3, <1>4, PipelineAssumption
  <2>2. pc \in Steps => job.id <= Len(delivered')
      BY <1>0, <1>3, JobHeld DEF IInv
  <2> QED BY <1>2, <1>3, <2>1, <2>2, JobHeld DEF IInv, TypeOK
<1>6. JobOK'
  <2>1. pc = "screen" => Listener' = Listener
      BY <1>0, <1>2, <1>3, JobHeld DEF IInv, Steps, Listener, Msg
  <2> QED BY <1>2, <2>1 DEF IInv, JobOK, IsAnswer
<1>7. PauseBarrier' /\ SwitchAsAcknowledged'
    BY <1>2 DEF IInv, PauseBarrier, SwitchAsAcknowledged, ToldToPause, Acknowledges,
                IsAnswer
<1> QED BY <1>5, <1>6, <1>7 DEF IInv

\* A reload changes nothing that a job in hand looks at.
LEMMA ReloadIInv == ASSUME IInv, Reload PROVE IInv'
<1>1. /\ snap' \in Snapshots
      /\ UNCHANGED <<now, paused, pc, inCh, outCh, replyLoop, delivered, outbox, answered,
                     ctxDone>>
    BY DEF Reload, Swapped, channelVars
<1>2. ASSUME job = NoJob PROVE job' = NoJob
    BY <1>2 DEF Reload, Swapped
<1>3. ASSUME job \in Jobs, job # NoJob
      PROVE  /\ job' \in Jobs /\ job'.id = job.id /\ job'.matcher = job.matcher
             /\ job'.snap = job.snap /\ job'.answer = job.answer
    BY <1>1, <1>3 DEF Reload, Swapped, Jobs
<1>4. TypeOK'
    BY <1>1, <1>2, <1>3, JobHeld DEF IInv, TypeOK
<1>5. pc \in Steps => /\ job'.matcher = job.matcher /\ job'.answer = job.answer
                      /\ Listener' = Listener
    BY <1>1, <1>3, JobHeld DEF IInv, Listener, Msg
<1>6. JobOK'
    BY <1>1, <1>5 DEF IInv, JobOK, IsAnswer, Gates, Steps
<1>7. PauseBarrier' /\ SwitchAsAcknowledged'
    BY <1>1, <1>5 DEF IInv, PauseBarrier, SwitchAsAcknowledged, ToldToPause,
                      Acknowledges, IsAnswer, Steps
<1> QED BY <1>4, <1>6, <1>7 DEF IInv

LEMMA TakeIInv == ASSUME IInv, Take PROVE IInv'
<1>1. /\ outCh # << >> /\ outCh' = Tail(outCh)
      /\ UNCHANGED <<now, paused, pc, job, snap, ctxDone, inCh, replyLoop,
                     delivered, outbox, answered>>
    BY DEF Take, actorVars, configVars
<1>2. /\ outCh' \in Seq(1 .. Len(outbox')) /\ Len(outCh') = Len(outCh) - 1
      /\ Len(outCh) \in Nat
    BY <1>1, HeadTailProperties, LenProperties DEF IInv, TypeOK
<1>3. TypeOK'
    BY <1>1, <1>2, PipelineAssumption DEF IInv, TypeOK
<1>4. JobOK' /\ PauseBarrier' /\ SwitchAsAcknowledged'
    BY <1>1 DEF IInv, JobOK, Listener, Msg, PauseBarrier, SwitchAsAcknowledged,
                ToldToPause, Acknowledges, IsAnswer
<1> QED BY <1>3, <1>4 DEF IInv

\* The other goroutines touch nothing that the invariant relates.
LEMMA BackgroundIInv ==
    ASSUME IInv, StopReplyLoop \/ Cancel \/ Reap \/ Tick \/ UNCHANGED vars
    PROVE  IInv'
<1>1. /\ now' \in 0 .. MaxTime /\ replyLoop' \in BOOLEAN /\ ctxDone' \in BOOLEAN
      /\ UNCHANGED <<paused, pc, job, snap, inCh, outCh, delivered, outbox, answered>>
  <2> USE DEF vars, actorVars, channelVars, configVars, cooldownVars
  <2>1. CASE StopReplyLoop \/ Cancel
      BY <2>1 DEF IInv, TypeOK, StopReplyLoop, Cancel
  <2>2. CASE Reap
      BY <2>2 DEF IInv, TypeOK, Reap, CD!Reaper, CD!ReapBegin, CD!ReapVisit,
                  CD!ReapDelete, CD!ReapUsers, CD!ReapEnd
  <2>3. CASE Tick
    <3>1. now' \in 0 .. MaxTime
        BY <2>3, PipelineAssumption DEF IInv, TypeOK, Tick, CD!Tick
    <3> QED BY <2>3, <3>1 DEF IInv, TypeOK, Tick
  <2>4. CASE UNCHANGED vars
      BY <2>4 DEF IInv, TypeOK
  <2> QED BY <2>1, <2>2, <2>3, <2>4
<1>2. TypeOK'
    BY <1>1 DEF IInv, TypeOK
<1>3. JobOK' /\ PauseBarrier' /\ SwitchAsAcknowledged'
    BY <1>1 DEF IInv, JobOK, Listener, Msg, PauseBarrier, SwitchAsAcknowledged,
                ToldToPause, Acknowledges, IsAnswer
<1> QED BY <1>2, <1>3 DEF IInv

LEMMA NextIInv == IInv /\ [Next]_vars => IInv'
BY ReceiveIInv, HandleCommandIInv, ScreenIInv, GatesIInv, PanicIInv, SendIInv,
   ReturnIInv, DeliverIInv, ReloadIInv, TakeIInv, BackgroundIInv
   DEF Next, Actor

LEMMA Invariant == Spec => []IInv
BY InitIInv, NextIInv, PTL DEF Spec

-----------------------------------------------------------------------------
(* Theorems.                                                               *)

(* The variables keep their types for any configurations, messages and     *)
(* capacities: the channels hold only what was put on them, and the actor  *)
(* works only on messages that were delivered (pipeline.go:60-123).        *)
THEOREM TypeCorrect == Spec => []TypeOK
BY Invariant, PTL DEF IInv

(* No answer stands between a pause and the next resume on outCh, whatever *)
(* arrives and is reloaded meanwhile (pipeline.go:175).                    *)
THEOREM PauseHolds == Spec => []PauseBarrier
BY Invariant, PTL DEF IInv

(* The kill switch is as the last acknowledgement says (ownercommands.go:  *)
(* 15-26), whatever commands were refused.                                 *)
THEOREM SwitchFollows == Spec => []SwitchAsAcknowledged
BY Invariant, PTL DEF IInv

LEMMA ToggleStep ==
    ASSUME IInv, [Next]_vars, paused' # paused
    PROVE  Msg.fromMe \/ (Listener.allowAdmin /\ <<Msg.group, Msg.sender>> \in Admins)
<1>1. PICK verdict \in {"admin", "member", "error"} :
          verdict \in Verdicts(Msg) /\ HandleCommand(verdict)
    BY DEF Next, Actor, Receive, Screen, CheckMatcher, CheckUser, CheckRate, Pick, Panic,
           RecordUser, RecordRate, Send, Return, Deliver, Reload, Take, StopReplyLoop,
           Cancel, Reap, Tick, vars, actorVars
<1>2. Authorized(verdict)
    BY <1>1 DEF HandleCommand
<1> QED BY <1>1, <1>2 DEF Authorized, Verdicts

(* Nobody moves the kill switch without authority (pipeline.go:134-153).   *)
THEOREM ToggledByAuthority == Spec => OnlyAuthorizedToggle
<1>1. IInv /\ [Next]_vars =>
        [paused' # paused =>
           \/ Msg.fromMe
           \/ Listener.allowAdmin /\ <<Msg.group, Msg.sender>> \in Admins]_vars
    BY ToggleStep
<1> QED BY <1>1, Invariant, PTL DEF Spec, OnlyAuthorizedToggle

-----------------------------------------------------------------------------
(* Every step is a step of the tracker, or leaves it alone.                *)

LEMMA TrackerInit == Init => CD!Init
BY DEF Init

LEMMA TrackerNext == IInv /\ [Next]_vars => [CD!Next]_(CD!vars)
<1> SUFFICES ASSUME IInv, [Next]_vars PROVE CD!Next \/ UNCHANGED CD!vars
    OBVIOUS
<1>1. UNCHANGED <<now, cooldownVars>> => UNCHANGED CD!vars
    BY DEF cooldownVars, CD!vars
<1>2. CASE UNCHANGED vars
    BY <1>1, <1>2 DEF vars
<1>3. CASE Receive \/ Screen \/ Panic \/ RecordRate \/ Send \/ Return
             \/ \E verdict : HandleCommand(verdict)
    BY <1>1, <1>3 DEF Receive, Screen, Panic, RecordRate, Send, Return, HandleCommand,
                      RL!Record
<1>4. CASE Deliver \/ Reload \/ Take \/ StopReplyLoop \/ Cancel
    BY <1>1, <1>4 DEF Deliver, Reload, Take, StopReplyLoop, Cancel
<1>5. CASE CheckMatcher
  <2>1. CASE CD!BeginAllow(job.matcher.name, Msg.sender,
                           job.matcher.cooldown, job.snap.userCooldown)
    <3>1. job \in Jobs /\ Msg \in Messages /\ job.matcher \in ResolvedMatchers
        BY <1>5, JobHeld DEF IInv, JobOK, CheckMatcher, Steps, Gates
    <3>2. job.snap \in Snapshots
        BY <3>1 DEF Jobs
    <3>3. /\ job.matcher.name \in Matchers /\ Msg.sender \in Users
          /\ job.matcher.cooldown \in MatcherCooldowns
          /\ job.snap.userCooldown \in UserCooldowns
        BY <3>1, <3>2, PipelineAssumption
    <3>4. CD!Pipeline
        BY <2>1, <3>3 DEF CD!Pipeline
    <3> QED BY <3>4 DEF CD!Next
  <2>2. CASE UNCHANGED <<now, cooldownVars>>
      BY <1>1, <2>2
  <2> QED BY <1>5, <2>1, <2>2 DEF CheckMatcher
<1>6. CASE CheckUser \/ Pick \/ RecordUser
    BY <1>6 DEF CheckUser, Pick, RecordUser, CD!Next, CD!Pipeline
<1>7. CASE CheckRate
  <2>1. CASE UNCHANGED cooldownVars
      BY <1>1, <1>7, <2>1 DEF CheckRate, RL!Grant, RL!Refuse, RL!Pruned
  <2>2. CASE CD!Forgo
      BY <2>2 DEF CD!Next, CD!Pipeline
  <2> QED BY <1>7, <2>1, <2>2 DEF CheckRate
<1>8. CASE Reap \/ Tick
    BY <1>8 DEF Reap, Tick, CD!Next
<1> QED BY <1>2, <1>3, <1>4, <1>5, <1>6, <1>7, <1>8 DEF Next, Actor

(* The pipeline keeps to the protocol of the tracker: Cooldown's Next, on  *)
(* whose steps CooldownProofs rests, allows every step of the composition  *)
(* (pipeline.go:210, 225).                                                 *)
THEOREM ImplementsTracker == Spec => TrackerSteps
BY Invariant, TrackerInit, TrackerNext, PTL DEF Spec, TrackerSteps

-----------------------------------------------------------------------------
(* Every step is a step of the limiter, or leaves it alone.                *)

LEMMA LimiterInit == Init => RL!Init
BY DEF Init

LEMMA LimiterNext == IInv /\ [Next]_vars => [RL!Next]_(RL!vars)
<1> SUFFICES ASSUME IInv, [Next]_vars PROVE RL!Next \/ UNCHANGED RL!vars
    OBVIOUS
<1>1. UNCHANGED <<now, limiterVars>> => UNCHANGED RL!vars
    BY DEF limiterVars, RL!vars
<1>2. CASE UNCHANGED vars
    BY <1>1, <1>2 DEF vars
<1>3. CASE Receive \/ Screen \/ Panic \/ Send \/ Return
             \/ \E verdict : HandleCommand(verdict)
    BY <1>1, <1>3 DEF Receive, Screen, Panic, Send, Return, HandleCommand
<1>4. CASE Deliver \/ Reload \/ Take \/ StopReplyLoop \/ Cancel
    BY <1>1, <1>4 DEF Deliver, Reload, Take, StopReplyLoop, Cancel
<1>5. CASE CheckMatcher \/ CheckUser \/ Pick \/ RecordUser
    BY <1>1, <1>5 DEF CheckMatcher, CheckUser, Pick, RecordUser, CD!BeginAllow,
                      CD!AllowUser, CD!DenyUser, CD!RecordMatcher, CD!RecordUser
<1>6. CASE CheckRate
  <2>1. job \in Jobs
      BY <1>6, JobHeld DEF IInv, CheckRate, Steps
  <2>2. job.snap.rateCap \in Caps
      BY <2>1, PipelineAssumption DEF Jobs
  <2> QED BY <1>6, <2>2 DEF CheckRate, RL!Next
<1>7. CASE RecordRate
    BY <1>7 DEF RecordRate, RL!Next
<1>8. CASE Reap
    BY <1>1, <1>8 DEF Reap, CD!Reaper, CD!ReapBegin, CD!ReapVisit, CD!ReapDelete,
                      CD!ReapUsers, CD!ReapEnd
<1>9. CASE Tick
    BY <1>9 DEF Tick, CD!Tick, RL!Next, RL!Tick, limiterVars
<1> QED BY <1>2, <1>3, <1>4, <1>5, <1>6, <1>7, <1>8, <1>9 DEF Next, Actor

(* The pipeline keeps to the protocol of the limiter: RateLimiter's Next,  *)
(* on whose steps RateLimiterProofs rests, allows every step of the        *)
(* composition (pipeline.go:215, 226).                                     *)
THEOREM ImplementsLimiter == Spec => LimiterSteps
BY Invariant, LimiterInit, LimiterNext, PTL DEF Spec, LimiterSteps

-----------------------------------------------------------------------------
(* What is proved of the limiter and of the tracker holds in the pipeline. *)
(* The instances LP and TP bring in the proofs, with their own copies of   *)
(* the definitions that RL and CD stand for.                               *)

LP == INSTANCE RateLimiterProofs WITH MaxFires <- MaxMessages
TP == INSTANCE CooldownProofs

LEMMA SameCardinality ==
    \A S : LP!Cardinality(S) = Cardinality(S) /\ RL!Cardinality(S) = Cardinality(S)
BY DEF LP!Cardinality, RL!Cardinality, Cardinality

LEMMA SameLimiter ==
    /\ RL!Init <=> LP!Init
    /\ [RL!Next]_(RL!vars) <=> [LP!Next]_(LP!vars)
<1>1. RL!Init <=> LP!Init
    BY DEF RL!Init, LP!Init
<1>2. RL!Next <=> LP!Next
    BY DEF RL!Next, LP!Next, RL!Tick, LP!Tick, RL!Grant, LP!Grant, RL!Refuse, LP!Refuse,
           RL!Record, LP!Record, RL!Pruned, LP!Pruned, RL!Exhausted, LP!Exhausted,
           RL!Full, LP!Full, RL!pruneOlderThan, LP!pruneOlderThan
<1>3. RL!vars = LP!vars /\ RL!vars' = LP!vars'
    BY DEF RL!vars, LP!vars
<1> QED BY <1>1, <1>2, <1>3

\* Room for a permission, the caps at every fire, and cause for every refusal.
THEOREM LimiterPromises ==
    Spec => [](RL!RoomForGrant /\ RL!WindowCap /\ RL!RefusedOnlyAtCap)
<1>1. Spec => LP!Init /\ [][LP!Next]_(LP!vars)
    BY Invariant, LimiterInit, LimiterNext, SameLimiter, PTL DEF Spec
<1>2. LP!Spec => []LP!RoomForGrant
    BY LP!PermissionKeeps, ComponentAssumption DEF RL!RateAssumption, LP!RateAssumption
<1>3. LP!Spec => []LP!WindowCap
    BY LP!CapsHold, ComponentAssumption DEF RL!RateAssumption, LP!RateAssumption
<1>4. LP!Spec => []LP!RefusedOnlyAtCap
    BY LP!NoNeedlessRefusal, ComponentAssumption DEF RL!RateAssumption, LP!RateAssumption
<1>5. LP!Spec <=> LP!Init /\ [][LP!Next]_(LP!vars)
    BY DEF LP!Spec
<1>6. LP!RoomForGrant /\ LP!WindowCap /\ LP!RefusedOnlyAtCap
        => RL!RoomForGrant /\ RL!WindowCap /\ RL!RefusedOnlyAtCap
  <2>1. \A h, n, t, w : LP!InWindow(h, n, t, w) = RL!InWindow(h, n, t, w)
      BY DEF LP!InWindow, RL!InWindow
  <2>2. \A n, cap : LP!Within(n, cap) <=> RL!Within(n, cap)
      BY DEF LP!Within, RL!Within
  <2>3. \A log, at, w : LP!pruneOlderThan(log, at, w) = RL!pruneOlderThan(log, at, w)
      BY DEF LP!pruneOlderThan, RL!pruneOlderThan
  <2>4. \A caps : LP!Exhausted(caps) <=> RL!Exhausted(caps)
      BY <2>3 DEF LP!Exhausted, RL!Exhausted, LP!Full, RL!Full
  <2>5. LP!RoomForGrant => RL!RoomForGrant
      BY SameCardinality, <2>1, <2>2 DEF LP!RoomForGrant, RL!RoomForGrant
  <2>6. LP!WindowCap => RL!WindowCap
      BY SameCardinality, <2>1, <2>2 DEF LP!WindowCap, RL!WindowCap
  <2>7. LP!RefusedOnlyAtCap => RL!RefusedOnlyAtCap
      BY SameCardinality, <2>1, <2>2, <2>4 DEF LP!RefusedOnlyAtCap, RL!RefusedOnlyAtCap
  <2> QED BY <2>5, <2>6, <2>7
<1> QED BY <1>1, <1>2, <1>3, <1>4, <1>5, <1>6, PTL

LEMMA SameTracker ==
    /\ CD!Init <=> TP!Init
    /\ [CD!Next]_(CD!vars) <=> [TP!Next]_(TP!vars)
<1> USE DEF CD!MatcherKey, TP!MatcherKey, CD!UserKey, TP!UserKey, CD!MatcherKeys,
            TP!MatcherKeys, CD!UserKeys, TP!UserKeys, CD!Keys, TP!Keys, CD!Never, TP!Never,
            CD!Idle, TP!Idle, CD!Resting, TP!Resting
<1>1. CD!Init <=> TP!Init
    BY DEF CD!Init, TP!Init
<1>2. CD!Tick <=> TP!Tick
    BY DEF CD!Tick, TP!Tick
<1>3. CD!vars = TP!vars /\ CD!vars' = TP!vars'
    BY DEF CD!vars, TP!vars
<1>4. \A k, t, c : CD!OffCooldown(k, t, c) <=> TP!OffCooldown(k, t, c)
    BY DEF CD!OffCooldown, TP!OffCooldown
<1>5. \A k, t : CD!Stored(k, t) <=> TP!Stored(k, t)
    BY DEF CD!Stored, TP!Stored
<1>6. CD!Pipeline <=> TP!Pipeline
  <2>1. \A m, u, mc, uc : CD!BeginAllow(m, u, mc, uc) <=> TP!BeginAllow(m, u, mc, uc)
      BY <1>4 DEF CD!BeginAllow, TP!BeginAllow
  <2>2. /\ CD!AllowUser <=> TP!AllowUser
        /\ CD!DenyUser <=> TP!DenyUser
        /\ CD!Forgo <=> TP!Forgo
      BY <1>4 DEF CD!AllowUser, TP!AllowUser, CD!DenyUser, TP!DenyUser, CD!Forgo, TP!Forgo
  <2>3. /\ CD!RecordMatcher <=> TP!RecordMatcher
        /\ CD!RecordUser <=> TP!RecordUser
      BY <1>5 DEF CD!RecordMatcher, TP!RecordMatcher, CD!RecordUser, TP!RecordUser
  <2> QED BY <2>1, <2>2, <2>3 DEF CD!Pipeline, TP!Pipeline
<1>7. CD!Reaper <=> TP!Reaper
  <2>1. /\ CD!ReapBegin <=> TP!ReapBegin
        /\ \A k : CD!ReapVisit(k) <=> TP!ReapVisit(k)
        /\ CD!ReapDelete <=> TP!ReapDelete
        /\ CD!ReapUsers <=> TP!ReapUsers
        /\ CD!ReapEnd <=> TP!ReapEnd
      BY DEF CD!ReapBegin, TP!ReapBegin, CD!ReapVisit, TP!ReapVisit, CD!ReapDelete,
             TP!ReapDelete, CD!ReapUsers, TP!ReapUsers, CD!ReapEnd, TP!ReapEnd
  <2> QED BY <2>1 DEF CD!Reaper, TP!Reaper
<1> QED BY <1>1, <1>2, <1>3, <1>6, <1>7 DEF CD!Next, TP!Next

\* Every permission of the tracker respects the cooldowns, and its reaper forgets
\* only what is old.
THEOREM TrackerPromises ==
    Spec => []CD!CooldownHeld /\ CD!ForgottenOnlyWhenExpired
<1> USE ComponentAssumption DEF CD!CooldownAssumption, TP!CooldownAssumption
<1>1. TP!Init => TP!IInv
    BY TP!InitIInv
<1>2. TP!IInv /\ [TP!Next]_(TP!vars) => TP!IInv'
    BY TP!NextIInv
<1>3. TP!IInv => TP!CooldownHeld
    BY DEF TP!IInv, TP!CallOK, TP!CooldownHeld
<1>4. TP!IInv /\ [TP!Next]_(TP!vars) => [TP!Forgets]_(TP!vars)
    BY TP!ForgetsNext
<1>5. TP!CooldownHeld => CD!CooldownHeld
    BY DEF TP!CooldownHeld, CD!CooldownHeld, TP!Respected, CD!Respected, TP!MatcherKey,
           CD!MatcherKey, TP!UserKey, CD!UserKey, TP!Never, CD!Never
<1>6. [TP!Forgets]_(TP!vars)
        => [\A k \in DOMAIN fired :
              k \notin DOMAIN fired' => \/ now - recorded[k] > Expiry
                                        \/ k \in raced]_(CD!vars)
    BY DEF TP!Forgets, TP!vars, CD!vars
<1> QED BY <1>1, <1>2, <1>3, <1>4, <1>5, <1>6, Invariant, TrackerInit, TrackerNext,
           SameTracker, PTL DEF Spec, CD!ForgottenOnlyWhenExpired
=============================================================================
