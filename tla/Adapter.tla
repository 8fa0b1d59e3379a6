------------------------------- MODULE Adapter -------------------------------
(***************************************************************************)
(* internal/whatsappadapter/inbound.go: from the event of a message to the *)
(* pipeline, and from the pipeline's reply to the wire.                    *)
(*                                                                         *)
(* The event handler stores every message it forwards in the map pending,  *)
(* so that the reply can quote it.  Three kinds of goroutine share the map:*)
(* the handler stores, the ReplyLoop prunes by age, and one goroutine per  *)
(* reply sleeps its jitter, takes the entry and sends.  The pipeline stands*)
(* between the two channels and may reply to any message or to none.       *)
(* A process may end at any step; the next one starts with nothing but the *)
(* time of its start, and whatsmeow may deliver messages to it again.      *)
(***************************************************************************)
EXTENDS Integers, Sequences

CONSTANTS Ids,          \* message IDs
          Author,       \* who wrote each message
          Commands,     \* the messages that are commands
          None,         \* nothing, no message
          Lifetime,     \* how long pending keeps an entry (60 s)
          Jitters,      \* how long a reply may sleep (2 to 8 s)
          Capacity,     \* capacity of both channels
          MaxTime,      \* bound on the clock, for TLC only
          MaxArrivals,  \* bound on the events handled, for TLC only
          MaxStarts     \* bound on the processes, for TLC only

ASSUME AdapterAssumption ==
    /\ None \notin Ids
    /\ Commands \subseteq Ids
    /\ MaxStarts \in Nat \ {0} /\ Lifetime \in Nat /\ MaxTime \in Nat
    /\ Jitters # {} /\ Jitters \subseteq Nat
    /\ Capacity \in Nat \ {0} /\ MaxArrivals \in Nat

VARIABLES now,        \* the clock
          startTime,  \* Adapter.startTime
          starts,     \* how many processes there have been
          decidedBy,  \* history: the processes whose pipeline saw a message
          posted,     \* when each message was written, its Info.Timestamp
          arrivals,   \* how many events have been handled
          handler,    \* the message handleMessage is about to forward
          pending,    \* Adapter.pending
          inCh,       \* inbound channel
          outCh,      \* outbound channel
          ctxDone,    \* the context is cancelled
          replyLoop,  \* whether ReplyLoop runs
          sweep,      \* prunePending: the keys Range has still to visit
          senders     \* the goroutines of sendThreadedReply, as started

channelVars == <<inCh, outCh>>
loopVars    == <<ctxDone, replyLoop, sweep>>
processVars == <<startTime, starts, decidedBy>>
vars == <<now, posted, arrivals, processVars, handler, pending, channelVars,
          loopVars, senders>>

-----------------------------------------------------------------------------
Time  == 0 .. MaxTime
Never == -1

\* Mutation of Key: entries are kept by author.
Key_author(id) == Author[id]

\* An entry is stored under the message's ID.
Key(id) == id

Resting == [at |-> 0, left |-> {}]

Init == /\ now = 0
        /\ startTime = 0 /\ starts = 1
        /\ decidedBy = [id \in Ids |-> {}]
        /\ posted = [id \in Ids |-> Never]
        /\ arrivals = 0
        /\ handler = None
        /\ pending = [k \in {} |-> None]
        /\ inCh = << >> /\ outCh = << >>
        /\ ctxDone = FALSE /\ replyLoop = TRUE
        /\ sweep = Resting
        /\ senders = << >>

Tick == /\ now < MaxTime
        /\ now' = now + 1
        /\ UNCHANGED <<posted, arrivals, processVars, handler, pending, channelVars,
                       loopVars, senders>>

\* Somebody writes a message in a group.
Post(id) ==
    /\ posted[id] = Never
    /\ posted' = [posted EXCEPT ![id] = now]
    /\ UNCHANGED <<now, arrivals, processVars, handler, pending, channelVars, loopVars, senders>>

-----------------------------------------------------------------------------
(* The event handler: whatsmeow calls it for one event after another, at   *)
(* any time after the message was written, and possibly again.             *)

\* Mutation of Arrive: the message is forwarded before it is stored.
Arrive_unstored(id) ==
    /\ handler = None /\ arrivals < MaxArrivals
    /\ posted[id] > startTime
    /\ handler' = id
    /\ arrivals' = arrivals + 1
    /\ UNCHANGED <<now, posted, processVars, pending, channelVars, loopVars, senders>>

\* Mutation of Arrive: messages from before the start are forwarded too.
Arrive_anyAge(id) ==
    /\ handler = None /\ arrivals < MaxArrivals
    /\ posted[id] # Never
    /\ handler' = id
    /\ arrivals' = arrivals + 1
    /\ pending' = [k \in DOMAIN pending \cup {Key(id)} |->
                     IF k = Key(id) THEN id ELSE pending[k]]
    /\ UNCHANGED <<now, posted, processVars, channelVars, loopVars, senders>>

\* A text not older than the bot is stored; anything else is ignored.  The
\* start lies inside a second and messages carry whole seconds, so a message
\* of that second counts as older.
Arrive(id) ==
    /\ handler = None /\ arrivals < MaxArrivals
    /\ posted[id] > startTime
    /\ handler' = id
    /\ arrivals' = arrivals + 1
    /\ pending' = [k \in DOMAIN pending \cup {Key(id)} |->
                     IF k = Key(id) THEN id ELSE pending[k]]
    /\ UNCHANGED <<now, posted, processVars, channelVars, loopVars, senders>>

\* The handler waits for room on inCh, whatever the context says.
Forward ==
    /\ handler # None
    /\ Len(inCh) < Capacity
    /\ inCh' = Append(inCh, handler)
    /\ handler' = None
    /\ UNCHANGED <<now, posted, arrivals, processVars, pending, outCh, loopVars, senders>>

-----------------------------------------------------------------------------
(* The pipeline decides, in order: it drops the message, or replies.       *)

\* Taking the message and the send on outCh are one step; the message that the
\* pipeline holds meanwhile would be like one more place in a channel.
Decide ==
    /\ inCh # << >>
    /\ inCh' = Tail(inCh)
    /\ \/ UNCHANGED outCh
       \/ /\ Len(outCh) < Capacity
          /\ outCh' = Append(outCh, Head(inCh))
    /\ decidedBy' = [decidedBy EXCEPT ![Head(inCh)] = @ \cup {starts}]
    /\ UNCHANGED <<now, posted, arrivals, startTime, starts, handler, pending, loopVars, senders>>

-----------------------------------------------------------------------------
(* ReplyLoop: one goroutine that starts senders and prunes, in turn.       *)

Idle == replyLoop /\ sweep = Resting

\* go sendThreadedReply: an acknowledgement does not sleep.
Take ==
    /\ Idle /\ outCh # << >>
    /\ outCh' = Tail(outCh)
    /\ \E jitter \in IF Head(outCh) \in Commands THEN {0} ELSE Jitters :
         senders' = Append(senders, [id |-> Head(outCh), pc |-> "asleep",
                                     wake |-> now + jitter, quoted |-> None,
                                     participant |-> None])
    /\ UNCHANGED <<now, posted, arrivals, processVars, handler, pending, inCh, loopVars>>

\* prunePending reads the clock and ranges over the map.  An empty map would
\* change nothing.
SweepBegin ==
    /\ Idle /\ DOMAIN pending # {}
    /\ sweep' = [at |-> now, left |-> DOMAIN pending]
    /\ UNCHANGED <<now, posted, arrivals, processVars, handler, pending, channelVars,
                   ctxDone, replyLoop, senders>>

\* Mutation of SweepVisit: an entry exactly as old as its lifetime is deleted.
SweepVisit_inclusive(k) ==
    /\ k \in sweep.left
    /\ sweep' = IF sweep.left = {k} THEN Resting
                ELSE [sweep EXCEPT !.left = @ \ {k}]
    /\ pending' = IF k \in DOMAIN pending /\ posted[pending[k]] <= sweep.at - Lifetime
                  THEN [j \in DOMAIN pending \ {k} |-> pending[j]]
                  ELSE pending
    /\ UNCHANGED <<now, posted, arrivals, processVars, handler, channelVars, ctxDone,
                   replyLoop, senders>>

\* Mutation of SweepVisit: the range does not get past an entry that is gone.
SweepVisit_stuck(k) ==
    /\ k \in sweep.left /\ k \in DOMAIN pending
    /\ sweep' = IF sweep.left = {k} THEN Resting
                ELSE [sweep EXCEPT !.left = @ \ {k}]
    /\ pending' = IF posted[pending[k]] < sweep.at - Lifetime
                  THEN [j \in DOMAIN pending \ {k} |-> pending[j]]
                  ELSE pending
    /\ UNCHANGED <<now, posted, arrivals, processVars, handler, channelVars, ctxDone,
                   replyLoop, senders>>

\* Mutation of SweepVisit: entries of messages that got a reply are left alone.
SweepVisit_answered(k) ==
    /\ k \in sweep.left
    /\ sweep' = IF sweep.left = {k} THEN Resting
                ELSE [sweep EXCEPT !.left = @ \ {k}]
    /\ pending' = IF /\ k \in DOMAIN pending /\ posted[pending[k]] < sweep.at - Lifetime
                     /\ \A n \in DOMAIN senders : senders[n].id # pending[k]
                  THEN [j \in DOMAIN pending \ {k} |-> pending[j]]
                  ELSE pending
    /\ UNCHANGED <<now, posted, arrivals, processVars, handler, channelVars, ctxDone,
                   replyLoop, senders>>

\* Range visits one key: an entry of a message that is too old goes.  The age
\* is that of the message, not of the entry.
SweepVisit(k) ==
    /\ k \in sweep.left
    /\ sweep' = IF sweep.left = {k} THEN Resting
                ELSE [sweep EXCEPT !.left = @ \ {k}]
    /\ pending' = IF k \in DOMAIN pending /\ posted[pending[k]] < sweep.at - Lifetime
                  THEN [j \in DOMAIN pending \ {k} |-> pending[j]]
                  ELSE pending
    /\ UNCHANGED <<now, posted, arrivals, processVars, handler, channelVars, ctxDone,
                   replyLoop, senders>>

Cancel == /\ ~ctxDone
          /\ ctxDone' = TRUE
          /\ UNCHANGED <<now, posted, arrivals, processVars, handler, pending, channelVars,
                         replyLoop, sweep, senders>>

\* The process ends, or is killed, and another one is started.  Nothing of the
\* adapter outlives it, and replies that were asleep are not sent.
Restart ==
    /\ starts < MaxStarts
    /\ starts' = starts + 1
    /\ startTime' = now
    /\ handler' = None /\ pending' = [k \in {} |-> None]
    /\ inCh' = << >> /\ outCh' = << >>
    /\ ctxDone' = FALSE /\ replyLoop' = TRUE /\ sweep' = Resting
    /\ senders' = << >>
    /\ UNCHANGED <<now, posted, arrivals, decidedBy>>

\* ReplyLoop returns; the senders it started go on.
StopReplyLoop ==
    /\ Idle /\ ctxDone
    /\ replyLoop' = FALSE
    /\ UNCHANGED <<now, posted, arrivals, processVars, handler, pending, channelVars,
                   ctxDone, sweep, senders>>

ReplyLoop == \/ Take
             \/ SweepBegin
             \/ \E k \in sweep.left : SweepVisit(k)
             \/ StopReplyLoop

-----------------------------------------------------------------------------
(* sendThreadedReply, one goroutine per reply.                             *)

\* The sleep is over (the last clock reading stands for any later one): take
\* the original message, or fall back to the sender named in the reply.
Lookup(n) ==
    /\ senders[n].pc = "asleep"
    /\ now >= senders[n].wake \/ now = MaxTime
    /\ LET id == senders[n].id
           original == IF Key(id) \in DOMAIN pending THEN pending[Key(id)] ELSE None
           participant == IF original # None THEN Author[original] ELSE Author[id]
       IN  /\ senders' = [senders EXCEPT ![n].pc = "sending",
                                         ![n].quoted = original,
                                         ![n].participant = participant]
           /\ pending' = [k \in DOMAIN pending \ {Key(id)} |-> pending[k]]
    /\ UNCHANGED <<now, posted, arrivals, processVars, handler, channelVars, loopVars>>

\* SendMessage succeeds, or fails or times out: there is no second attempt.
Transmit(n) ==
    /\ senders[n].pc = "sending"
    /\ \E outcome \in {"sent", "failed"} :
         senders' = [senders EXCEPT ![n].pc = outcome]
    /\ UNCHANGED <<now, posted, arrivals, processVars, handler, pending, channelVars, loopVars>>

Sender(n) == Lookup(n) \/ Transmit(n)

-----------------------------------------------------------------------------
Next == \/ Tick
        \/ \E id \in Ids : Post(id)
        \/ \E id \in Ids : Arrive(id)
        \/ Forward
        \/ Decide
        \/ Cancel
        \/ Restart
        \/ ReplyLoop
        \/ \E n \in DOMAIN senders : Sender(n)

\* The select of ReplyLoop picks at random among what is ready, so it serves
\* both the replies and its ticker; every sleep and every SendMessage ends.
Fairness == /\ WF_vars(Tick)
            /\ SF_vars(Take) /\ SF_vars(SweepBegin)
            /\ WF_vars(\E k \in sweep.left : SweepVisit(k))
            /\ \A n \in 1 .. MaxArrivals :
                 WF_vars(n \in DOMAIN senders /\ Sender(n))

Spec == Init /\ [][Next]_vars /\ Fairness

-----------------------------------------------------------------------------
Senders == [id : Ids, pc : {"asleep", "sending", "sent", "failed"}, wake : Nat,
            quoted : Ids \cup {None},
            participant : {Author[id] : id \in Ids} \cup {None}]

(* Every variable holds a value of its type.                               *)
TypeOK ==
    /\ now \in Time /\ startTime \in Time /\ starts \in 1 .. MaxStarts
    /\ decidedBy \in [Ids -> SUBSET (1 .. MaxStarts)]
    /\ posted \in [Ids -> Time \cup {Never}]
    /\ arrivals \in 0 .. MaxArrivals
    /\ handler \in Ids \cup {None}
    /\ DOMAIN pending \subseteq Ids /\ pending \in [DOMAIN pending -> Ids]
    /\ inCh \in Seq(Ids) /\ Len(inCh) <= Capacity
    /\ outCh \in Seq(Ids) /\ Len(outCh) <= Capacity
    /\ ctxDone \in BOOLEAN /\ replyLoop \in BOOLEAN
    /\ sweep \in [at : Time, left : SUBSET Ids]
    /\ senders \in Seq(Senders) /\ Len(senders) <= MaxArrivals

(* A reply is threaded under the message it answers (inbound.go:138-159):  *)
(* it names that message's author and quotes that message or none, however *)
(* messages, replies and the pruning overlap.                              *)
ThreadedToItsMessage ==
    \A n \in DOMAIN senders :
        senders[n].pc # "asleep" =>
            /\ senders[n].quoted \in {None, senders[n].id}
            /\ senders[n].participant = Author[senders[n].id]

\* The message is on its way through the pipeline, or its reply is asleep.
Underway(id) == \/ \E i \in DOMAIN inCh : inCh[i] = id
                \/ \E i \in DOMAIN outCh : outCh[i] = id
                \/ \E n \in DOMAIN senders : /\ senders[n].id = id
                                             /\ senders[n].pc = "asleep"

(* The original is there when the reply wakes up (inbound.go:80, 119-123): *)
(* while a message within its lifetime is underway its entry is kept, up   *)
(* to the first reply that takes it.                                       *)
QuoteKept ==
    \A id \in Ids :
        (Underway(id) /\ now - posted[id] <= Lifetime) =>
            \/ Key(id) \in DOMAIN pending
            \/ \E n \in DOMAIN senders : senders[n].quoted = id

\* Key k has an entry whose message is past its lifetime.
Expired(k) == k \in DOMAIN pending /\ now - posted[pending[k]] > Lifetime

(* pending does not grow for ever (inbound.go:118): the entry of a message *)
(* that is past its lifetime goes, also when nobody ever replies to it,    *)
(* unless the bot is told to stop.                                         *)
PendingDrained ==
    \A k \in Ids : Expired(k) ~> (k \notin DOMAIN pending \/ ctxDone)

(* Every reply is attempted (inbound.go:107-111): the n-th that a process  *)
(* puts on outCh is sent or fails, each of two to a repeated message too,  *)
(* though the same goroutine prunes and channels fill up.  This ends with  *)
(* the process: once it is told to stop, or killed, replies may be lost.   *)
EveryReplyAttempted ==
    \A n \in 1 .. MaxArrivals, process \in 1 .. MaxStarts :
        (starts = process /\ Len(senders) + Len(outCh) >= n)
            ~> \/ n \in DOMAIN senders /\ senders[n].pc \in {"sent", "failed"}
               \/ ctxDone \/ starts # process

(* A message is decided by one process only (client.go:46-55, inbound.go:  *)
(* 63-66): whatever is delivered again after a restart, no process answers *)
(* or obeys what an earlier one may have handled, for which the cooldowns  *)
(* and the kill switch are forgotten.                                      *)
DecidedByOneProcess ==
    \A id \in Ids : \A p, q \in decidedBy[id] : p = q
=============================================================================
