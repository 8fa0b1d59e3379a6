----------------------------- MODULE MCPipeline -----------------------------
(***************************************************************************)
(* Small instances of Pipeline for TLC.  Two groups, two matchers and a    *)
(* few messages that differ in what the gates look at.                     *)
(***************************************************************************)
EXTENDS Pipeline, TLC

CONSTANTS g1, g2, u1, u2, m1, m2, a1, a2, w1, w2

\* Keyword matchers, a mention matcher, and one whose cluster is empty.
Keyword(name, word, answers, cooldown) ==
    [name |-> name, kind |-> "levenshtein", words |-> {word},
     answers |-> answers, cooldown |-> cooldown]
Mention(name, answers, cooldown) ==
    [name |-> name, kind |-> "mention", words |-> {},
     answers |-> answers, cooldown |-> cooldown]

Listens(group, allowAdmin, matchers) ==
    [group |-> group, allowAdmin |-> allowAdmin, matchers |-> matchers]

Snapshot(listeners, quiet, userCooldown, perMin, perHour) ==
    [listeners |-> listeners, quiet |-> quiet, userCooldown |-> userCooldown,
     rateCap |-> [perMin |-> perMin, perHour |-> perHour]]

\* A message whose body comes close to the given keywords.
Says(group, sender, words) ==
    [group |-> group, sender |-> sender, fromMe |-> FALSE, text |-> "plain",
     words |-> words, mentioned |-> FALSE, quotedWords |-> {},
     quotesBot |-> FALSE]

Commands(group, sender, text, fromMe) ==
    [Says(group, sender, {}) EXCEPT !.text = text, !.fromMe = fromMe]

\* Behaviours in which no message and no reply waits in a channel, nobody shuts
\* the bot down, and a configuration is loaded only between messages: enough
\* for what depends on none of these, as a message is read only when it is
\* taken and the actor uses the snapshot it took with it.
PromptSpec ==
    Init /\ [][/\ Next
               /\ ~ctxDone'
               /\ delivered' # delivered => job = NoJob /\ inCh = << >>
               /\ snap' # snap => job = NoJob /\ inCh = << >>
               /\ outCh # << >> => outCh' = << >>]_vars

\* Behaviours in which the reaper rests: enough where no entry can expire.
RestingSpec == Init /\ [][Next /\ UNCHANGED reaper]_vars /\ Fairness

MCCaps == {[perMin |-> p, perHour |-> h] : p \in 0 .. 2, h \in 0 .. 2}

-----------------------------------------------------------------------------
\* Commands: admins may command group g1 under one snapshot and not under the
\* other; g2 is configured only under the first.
CommandSnapshots ==
    {Snapshot(<<Listens(g1, TRUE, <<Keyword(m1, w1, {a1}, 1)>>),
                Listens(g2, FALSE, <<Keyword(m1, w1, {a1}, 1)>>)>>, Unset, 1, 0, 0),
     Snapshot(<<Listens(g1, FALSE, <<Keyword(m1, w1, {a2}, 1)>>)>>, Unset, 1, 0, 0)}

CommandMessages ==
    {Commands(g1, u1, "!pause", FALSE), Commands(g1, u2, "!resume", FALSE),
     Commands(g2, u1, "!resume", TRUE), Says(g1, u2, {w1})}

CommandAdmins == {<<g1, u1>>}
-----------------------------------------------------------------------------
\* Decisions: the two snapshots order the matchers differently, give them
\* other answers and keep other quiet hours; the last has an empty cluster.
DecisionSnapshots ==
    {Snapshot(<<Listens(g1, FALSE, <<Mention(m1, {a1}, 1),
                                     Keyword(m2, w1, {a1}, 1)>>)>>,
              [start |-> 1, end |-> 0], 1, 0, 0),
     Snapshot(<<Listens(g1, FALSE, <<Keyword(m2, w1, {a2}, 1),
                                     Mention(m1, {a2}, 1)>>),
                Listens(g2, FALSE, <<Keyword(m2, w2, {}, 1)>>)>>,
              [start |-> 0, end |-> 1], 1, 0, 0)}

DecisionMessages ==
    {[Says(g1, u1, {w1}) EXCEPT !.mentioned = TRUE],
     [Says(g1, u1, {}) EXCEPT !.quotedWords = {w1}],
     [Says(g1, u1, {}) EXCEPT !.quotedWords = {w1}, !.quotesBot = TRUE],
     [Says(g1, u1, {w1}) EXCEPT !.fromMe = TRUE],
     Says(g2, u1, {w2})}

-----------------------------------------------------------------------------
\* Limits: one matcher, two senders that are interchangeable, and cooldowns and
\* caps that differ between the snapshots.
LimitSnapshots ==
    {Snapshot(<<Listens(g1, FALSE, <<Keyword(m1, w1, {a1}, 1)>>)>>, Unset, 2, 1, 2),
     Snapshot(<<Listens(g1, FALSE, <<Keyword(m1, w1, {a1}, 2)>>)>>, Unset, 1, 2, 0)}

LimitMessages == {Says(g1, u1, {w1}), Says(g1, u2, {w1})}

NoAdmins == {}
Senders  == Permutations({u1, u2})

=============================================================================
