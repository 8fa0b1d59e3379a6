--------------------------- MODULE AdapterProofs ---------------------------
(***************************************************************************)
(* Proofs about Adapter for any messages, authors, lifetime, jitters and   *)
(* bounds: TypeOK, ThreadedToItsMessage, QuoteKept and DecidedByOneProcess *)
(* hold of Spec.                                                           *)
(***************************************************************************)
EXTENDS Adapter, TLAPS

-----------------------------------------------------------------------------
(* Types.  That there are no more senders than events handled follows from *)
(* counting messages on their way.                                         *)

InHand == IF handler = None THEN 0 ELSE 1

Counted == InHand + Len(inCh) + Len(outCh) + Len(senders) <= arrivals

TInv == TypeOK /\ Counted

LEMMA ExceptSeq ==
    ASSUME NEW S, NEW s \in Seq(S), NEW n \in 1 .. Len(s), NEW e \in S
    PROVE  /\ [s EXCEPT ![n] = e] \in Seq(S)
           /\ Len([s EXCEPT ![n] = e]) = Len(s)
OBVIOUS

LEMMA InitTypes == Init => TInv
<1> SUFFICES ASSUME Init PROVE TInv
    OBVIOUS
<1> USE DEF Init
<1>1. inCh \in Seq(Ids) /\ outCh \in Seq(Ids) /\ senders \in Seq(Senders)
      OBVIOUS
<1>2. /\ DOMAIN pending \subseteq Ids /\ pending \in [DOMAIN pending -> Ids]
      OBVIOUS
<1>3. TypeOK
      <2>1. 0 \in Time /\ 1 \in 1 .. MaxStarts /\ 0 \in 0 .. MaxArrivals
            BY AdapterAssumption DEF Time
      <2>2. sweep \in [at : Time, left : SUBSET Ids]
            BY <2>1 DEF Resting
      <2>3. decidedBy \in [Ids -> SUBSET (1 .. MaxStarts)]
            OBVIOUS
      <2>4. posted \in [Ids -> Time \cup {Never}]
            OBVIOUS
      <2>5. Len(inCh) = 0 /\ Len(outCh) = 0 /\ Len(senders) = 0
            OBVIOUS
      <2>6. Len(inCh) <= Capacity /\ Len(outCh) <= Capacity /\ Len(senders) <= MaxArrivals
            BY <2>5, AdapterAssumption
      <2>7. QED  BY <1>1, <1>2, <2>1, <2>2, <2>3, <2>4, <2>6 DEF TypeOK
<1>4. Counted
      BY DEF Counted, InHand
<1>5. QED  BY <1>3, <1>4 DEF TInv

LEMMA TypesStep == TInv /\ [Next]_vars => TInv'
<1> SUFFICES ASSUME TInv, [Next]_vars PROVE TInv'
    OBVIOUS
<1> USE DEF TInv
<1>0. /\ inCh \in Seq(Ids) /\ outCh \in Seq(Ids) /\ senders \in Seq(Senders)
      /\ Len(inCh) \in Nat /\ Len(outCh) \in Nat /\ Len(senders) \in Nat
      BY DEF TypeOK
<1>1. CASE UNCHANGED vars
      BY <1>1 DEF vars, channelVars, loopVars, processVars, TypeOK, Counted, InHand
<1>2. CASE Tick
      BY <1>2, AdapterAssumption
         DEF Tick, channelVars, loopVars, processVars, TypeOK, Counted, InHand, Time
<1>3. CASE \E id \in Ids : Post(id)
      BY <1>3 DEF Post, channelVars, loopVars, processVars, TypeOK, Counted, InHand
<1>4. ASSUME NEW id \in Ids, Arrive(id) PROVE TInv'
      <2>1. /\ DOMAIN pending' \subseteq Ids /\ pending' \in [DOMAIN pending' -> Ids]
            BY <1>4 DEF Arrive, Key, TypeOK
      <2>2. Counted' /\ arrivals' \in 0 .. MaxArrivals
            BY <1>4, AdapterAssumption, <1>0
               DEF Arrive, Counted, InHand, TypeOK, channelVars
      <2>3. QED  BY <1>4, <2>1, <2>2
                 DEF Arrive, TypeOK, channelVars, loopVars, processVars
<1>5. CASE Forward
      <2>1. inCh' \in Seq(Ids) /\ Len(inCh') = Len(inCh) + 1
            BY <1>0, <1>5 DEF Forward, TypeOK
      <2>2. Len(inCh') <= Capacity /\ Counted'
            <3>1. /\ UNCHANGED <<outCh, senders, arrivals>> /\ Len(inCh) < Capacity
                  /\ InHand = 1 /\ InHand' = 0
                  BY <1>5 DEF Forward, InHand
            <3>2. /\ InHand + Len(inCh) + Len(outCh) + Len(senders) <= arrivals
                  /\ arrivals \in Nat /\ Capacity \in Nat
                  BY AdapterAssumption DEF Counted, TypeOK
            <3>3. /\ 0 + Len(inCh') + Len(outCh) + Len(senders) <= arrivals
                  /\ Len(inCh') <= Capacity
                  BY <1>0, <2>1, <3>1, <3>2
            <3>4. QED  BY <3>1, <3>3 DEF Counted
      <2>3. QED  BY <1>5, <2>1, <2>2 DEF Forward, TypeOK, loopVars, processVars
<1>6. CASE Decide
      <2>1. Head(inCh) \in Ids /\ inCh' \in Seq(Ids) /\ Len(inCh') = Len(inCh) - 1
            BY <1>0, <1>6 DEF Decide
      <2>2. /\ outCh' \in Seq(Ids) /\ Len(outCh') <= Capacity
            /\ Len(outCh') <= Len(outCh) + 1
            <3>1. CASE UNCHANGED outCh
                  BY <1>0, <3>1 DEF TypeOK
            <3>2. CASE Len(outCh) < Capacity /\ outCh' = Append(outCh, Head(inCh))
                  <4>1. outCh' \in Seq(Ids) /\ Len(outCh') = Len(outCh) + 1
                        BY <1>0, <2>1, <3>2
                  <4>2. QED  BY <1>0, <3>2, <4>1, AdapterAssumption
            <3>3. QED  BY <1>6, <3>1, <3>2 DEF Decide
      <2>3. Counted' /\ Len(inCh') <= Capacity
            <3>1. UNCHANGED <<handler, senders, arrivals>>
                  BY <1>6 DEF Decide, loopVars
            <3>2. InHand' = InHand /\ InHand \in {0, 1}
                  BY <3>1 DEF InHand
            <3>3. /\ InHand + Len(inCh) + Len(outCh) + Len(senders) <= arrivals
                  /\ Len(inCh) <= Capacity /\ arrivals \in Nat
                  BY DEF Counted, TypeOK
            <3>4. Len(outCh') \in Nat /\ Capacity \in Nat
                  BY <2>2, AdapterAssumption
            <3>5. /\ InHand + Len(inCh') + Len(outCh') + Len(senders) <= arrivals
                  /\ Len(inCh') <= Capacity
                  BY <1>0, <2>1, <2>2, <3>2, <3>3, <3>4
            <3>6. QED  BY <3>1, <3>2, <3>5 DEF Counted
      <2>4. decidedBy' \in [Ids -> SUBSET (1 .. MaxStarts)]
            BY <1>6, <2>1 DEF Decide, TypeOK
      <2>5. QED  BY <1>6, <2>1, <2>2, <2>3, <2>4 DEF Decide, TypeOK, loopVars
<1>7. CASE Take
      <2>1. PICK jitter \in IF Head(outCh) \in Commands THEN {0} ELSE Jitters :
              senders' = Append(senders, [id |-> Head(outCh), pc |-> "asleep",
                                          wake |-> now + jitter, quoted |-> None,
                                          participant |-> None])
            BY <1>7 DEF Take
      <2>2. Head(outCh) \in Ids /\ outCh' \in Seq(Ids) /\ Len(outCh') = Len(outCh) - 1
            BY <1>0, <1>7 DEF Take
      <2>3. now + jitter \in Nat
            BY AdapterAssumption DEF TypeOK, Time
      <2>4. senders' \in Seq(Senders) /\ Len(senders') = Len(senders) + 1
            BY <1>0, <2>1, <2>2, <2>3 DEF Senders
      <2>5. UNCHANGED <<handler, inCh, arrivals>>
            BY <1>7 DEF Take
      <2>6. Counted'
            <3>1. InHand' = InHand /\ InHand \in {0, 1}
                  BY <2>5 DEF InHand
            <3>2. InHand + Len(inCh) + Len(outCh) + Len(senders) <= arrivals
                  BY DEF Counted
            <3>3. Len(inCh') = Len(inCh) /\ arrivals' = arrivals
                  BY <2>5
            <3>4. QED  BY <1>0, <2>2, <2>4, <3>1, <3>2, <3>3 DEF Counted
      <2>9. Len(senders') <= MaxArrivals
            BY <1>0, <2>2, <2>4, <2>5, <2>6, AdapterAssumption
               DEF Counted, InHand, TypeOK
      <2>7. Len(outCh') <= Capacity
            BY <1>0, <2>2, AdapterAssumption DEF TypeOK
      <2>8. QED  BY <1>7, <2>2, <2>4, <2>6, <2>9, <2>7
                 DEF Take, TypeOK, loopVars, processVars
<1>8. CASE SweepBegin
      BY <1>8 DEF SweepBegin, channelVars, processVars, TypeOK, Counted, InHand
<1>9. ASSUME NEW k \in sweep.left, SweepVisit(k) PROVE TInv'
      <2>1. /\ DOMAIN pending' \subseteq Ids /\ pending' \in [DOMAIN pending' -> Ids]
            BY <1>9 DEF SweepVisit, TypeOK
      <2>2. sweep' \in [at : Time, left : SUBSET Ids]
            BY <1>9, AdapterAssumption DEF SweepVisit, TypeOK, Resting, Time
      <2>3. QED  BY <1>9, <2>1, <2>2
                 DEF SweepVisit, TypeOK, channelVars, processVars, Counted, InHand
<1>10. CASE StopReplyLoop \/ Cancel
      BY <1>10 DEF StopReplyLoop, Cancel, channelVars, processVars, TypeOK, Counted,
                   InHand
<1>11. CASE Restart
      <2>1. inCh' \in Seq(Ids) /\ outCh' \in Seq(Ids) /\ senders' \in Seq(Senders)
            /\ Len(inCh') = 0 /\ Len(outCh') = 0 /\ Len(senders') = 0
            BY <1>11 DEF Restart
      <2>2. DOMAIN pending' \subseteq Ids /\ pending' \in [DOMAIN pending' -> Ids]
            BY <1>11 DEF Restart
      <2>3. Counted'
            BY <1>11, <2>1 DEF Restart, Counted, InHand, TypeOK
      <2>4. sweep' \in [at : Time, left : SUBSET Ids] /\ starts' \in 1 .. MaxStarts
            BY <1>11, AdapterAssumption DEF Restart, TypeOK, Resting, Time
      <2>5. Len(inCh') <= Capacity /\ Len(outCh') <= Capacity /\ Len(senders') <= MaxArrivals
            BY <2>1, AdapterAssumption
      <2>6. QED  BY <1>11, <2>1, <2>2, <2>3, <2>4, <2>5 DEF Restart, TypeOK
<1>12. ASSUME NEW n \in DOMAIN senders, Sender(n) PROVE TInv'
      <2>0. n \in 1 .. Len(senders) /\ senders[n] \in Senders
            BY <1>0
      <2>1. senders' \in Seq(Senders) /\ Len(senders') = Len(senders)
            <3>1. CASE Lookup(n)
                  <4> DEFINE id == senders[n].id
                             original == IF Key(id) \in DOMAIN pending
                                         THEN pending[Key(id)] ELSE None
                             participant == IF original # None THEN Author[original]
                                            ELSE Author[id]
                  <4>1. senders' = [senders EXCEPT ![n].pc = "sending",
                                                   ![n].quoted = original,
                                                   ![n].participant = participant]
                        BY <3>1 DEF Lookup
                  <4>2. original \in Ids \cup {None} /\ id \in Ids
                        BY <2>0 DEF TypeOK, Senders
                  <4>3. participant \in {Author[i] : i \in Ids} \cup {None}
                        BY <4>2
                  <4> DEFINE e == [senders[n] EXCEPT !.pc = "sending",
                                                     !.quoted = original,
                                                     !.participant = participant]
                  <4>4. e \in Senders
                        BY <2>0, <4>2, <4>3 DEF Senders
                  <4>5. senders' = [senders EXCEPT ![n] = e]
                        BY <4>1, <1>0, <2>0 DEF Senders
                  <4>6. QED  BY <1>0, <2>0, <4>4, <4>5, ExceptSeq
            <3>2. CASE Transmit(n)
                  <4>1. PICK outcome \in {"sent", "failed"} :
                          senders' = [senders EXCEPT ![n].pc = outcome]
                        BY <3>2 DEF Transmit
                  <4> DEFINE e == [senders[n] EXCEPT !.pc = outcome]
                  <4>2. e \in Senders
                        BY <2>0 DEF Senders
                  <4>3. senders' = [senders EXCEPT ![n] = e]
                        BY <4>1
                  <4>4. QED  BY <1>0, <2>0, <4>2, <4>3, ExceptSeq
            <3>3. QED  BY <1>12, <3>1, <3>2 DEF Sender
      <2>2. DOMAIN pending' \subseteq Ids /\ pending' \in [DOMAIN pending' -> Ids]
            BY <1>12 DEF Sender, Lookup, Transmit, TypeOK
      <2>3. QED  BY <1>12, <2>1, <2>2
                 DEF Sender, Lookup, Transmit, TypeOK, channelVars, loopVars,
                     processVars, Counted, InHand
<1>13. QED
      BY <1>1, <1>2, <1>3, <1>4, <1>5, <1>6, <1>7, <1>8, <1>9, <1>10, <1>11, <1>12
         DEF Next, ReplyLoop

(* Every variable of the adapter keeps its type, and no more replies are   *)
(* started than messages were handled.                                     *)
THEOREM TypeCorrect == Spec => []TypeOK
<1>1. TInv => TypeOK
      BY DEF TInv
<1>2. QED  BY <1>1, InitTypes, TypesStep, PTL DEF Spec

LEMMA Types == Spec => []TInv
BY InitTypes, TypesStep, PTL DEF Spec

-----------------------------------------------------------------------------
(* Threading: what is stored under a key is the message of that ID.        *)

Filed == \A k \in DOMAIN pending : pending[k] = k

ThreadInv == Filed /\ ThreadedToItsMessage

LEMMA ThreadStep == TypeOK /\ ThreadInv /\ [Next]_vars => ThreadInv'
<1> SUFFICES ASSUME TypeOK, ThreadInv, [Next]_vars PROVE ThreadInv'
    OBVIOUS
<1> USE DEF ThreadInv
<1>0. senders \in Seq(Senders)
      BY DEF TypeOK
<1>1. ASSUME UNCHANGED <<pending, senders>> PROVE ThreadInv'
      BY <1>1 DEF Filed, ThreadedToItsMessage
<1>2. ASSUME NEW id \in Ids, Arrive(id) PROVE ThreadInv'
      BY <1>2 DEF Arrive, Key, Filed, ThreadedToItsMessage
<1>3. CASE Take
      <2>1. PICK jitter \in IF Head(outCh) \in Commands THEN {0} ELSE Jitters :
              senders' = Append(senders, [id |-> Head(outCh), pc |-> "asleep",
                                          wake |-> now + jitter, quoted |-> None,
                                          participant |-> None])
            BY <1>3 DEF Take
      <2>2. \A n \in DOMAIN senders' :
                \/ n \in DOMAIN senders /\ senders'[n] = senders[n]
                \/ senders'[n].pc = "asleep"
            BY <1>0, <2>1
      <2>3. QED  BY <1>3, <2>2 DEF Take, Filed, ThreadedToItsMessage
<1>4. ASSUME NEW k \in sweep.left, SweepVisit(k) PROVE ThreadInv'
      BY <1>4 DEF SweepVisit, Filed, ThreadedToItsMessage
<1>5. CASE Restart
      BY <1>5 DEF Restart, Filed, ThreadedToItsMessage
<1>6. ASSUME NEW n \in DOMAIN senders, Lookup(n) PROVE ThreadInv'
      <2> DEFINE id == senders[n].id
                 original == IF Key(id) \in DOMAIN pending THEN pending[Key(id)] ELSE None
                 participant == IF original # None THEN Author[original] ELSE Author[id]
      <2>1. senders' = [senders EXCEPT ![n].pc = "sending", ![n].quoted = original,
                                       ![n].participant = participant]
            BY <1>6 DEF Lookup
      <2>8. n \in 1 .. Len(senders) /\ senders[n] \in Senders
            BY <1>0
      <2>2. senders[n] \in Senders /\ id \in Ids
            BY <2>8 DEF Senders
      <2>3. original \in {None, id} /\ participant = Author[id]
            BY DEF Filed, Key
      <2>4. /\ senders'[n].id = id
            /\ senders'[n].quoted = original /\ senders'[n].participant = participant
            /\ DOMAIN senders' = DOMAIN senders
            /\ \A j \in DOMAIN senders \ {n} : senders'[j] = senders[j]
            BY <2>1, <2>2, <1>0 DEF Senders
      <2>5. ThreadedToItsMessage'
            BY <2>3, <2>4 DEF ThreadedToItsMessage
      <2>6. Filed'
            BY <1>6 DEF Lookup, Filed
      <2>7. QED  BY <2>5, <2>6
<1>7. ASSUME NEW n \in DOMAIN senders, Transmit(n) PROVE ThreadInv'
      <2>1. PICK outcome \in {"sent", "failed"} :
              senders' = [senders EXCEPT ![n].pc = outcome]
            BY <1>7 DEF Transmit
      <2>2. senders[n] \in Senders /\ senders[n].pc = "sending"
            BY <1>0, <1>7 DEF Transmit
      <2>3. /\ senders'[n].id = senders[n].id
            /\ senders'[n].quoted = senders[n].quoted
            /\ senders'[n].participant = senders[n].participant
            /\ DOMAIN senders' = DOMAIN senders
            /\ \A j \in DOMAIN senders \ {n} : senders'[j] = senders[j]
            BY <2>1, <2>2 DEF Senders
      <2>4. QED  BY <1>7, <2>2, <2>3 DEF Transmit, Filed, ThreadedToItsMessage
<1>8. QED
      BY <1>1, <1>2, <1>3, <1>4, <1>5, <1>6, <1>7
         DEF Next, ReplyLoop, Sender, vars, channelVars, loopVars, Tick, Post, Forward,
             Decide, Cancel, SweepBegin, StopReplyLoop

(* Every reply names the author of the message it answers and quotes that  *)
(* message or none (inbound.go:138-159).                                   *)
THEOREM RepliesThreaded == Spec => []ThreadedToItsMessage
<1>1. Init => ThreadInv
      BY DEF Init, ThreadInv, Filed, ThreadedToItsMessage
<1>2. QED  BY <1>1, ThreadStep, TypeCorrect, PTL DEF Spec, ThreadInv

-----------------------------------------------------------------------------
(* Restarts: what this process works on was written after it started, and  *)
(* what an earlier one decided before.                                     *)

\* Message id has passed the filter of the current process.
Recent(id) == id \in Ids /\ posted[id] > startTime

Written == /\ startTime <= now
           /\ \A id \in Ids : posted[id] <= now
           /\ handler # None => Recent(handler)
           /\ \A i \in DOMAIN inCh : Recent(inCh[i])

Decided ==
    \A id \in Ids : \A p \in decidedBy[id] :
        /\ p \in 1 .. starts
        /\ p # starts => posted[id] # Never /\ posted[id] <= startTime
        /\ posted[id] # Never

OnceInv == Written /\ Decided /\ DecidedByOneProcess

LEMMA OnceStep == TypeOK /\ OnceInv /\ [Next]_vars => OnceInv'
<1> SUFFICES ASSUME TypeOK, OnceInv, [Next]_vars PROVE OnceInv'
    OBVIOUS
<1> USE DEF OnceInv
<1>0. /\ inCh \in Seq(Ids) /\ now \in Int /\ startTime \in Int /\ startTime >= 0
      /\ posted \in [Ids -> Int] /\ starts \in Nat /\ None \notin Ids
      BY AdapterAssumption DEF TypeOK, Time, Never
<1>1. ASSUME UNCHANGED <<now, posted, handler, inCh, startTime, starts, decidedBy>>
      PROVE  OnceInv'
      BY <1>1 DEF Written, Decided, DecidedByOneProcess, Recent
<1>2. CASE Tick
      BY <1>0, <1>2 DEF Tick, processVars, channelVars, Written, Decided,
                        DecidedByOneProcess, Recent
<1>3. ASSUME NEW id \in Ids, Post(id) PROVE OnceInv'
      <2>1. /\ posted[id] = Never /\ posted' = [posted EXCEPT ![id] = now]
            /\ UNCHANGED <<now, handler, inCh, startTime, starts, decidedBy>>
            BY <1>3 DEF Post, processVars, channelVars
      <2>2. \A j \in Ids : posted[j] # Never => posted'[j] = posted[j]
            BY <2>1, <1>0
      <2>3. \A j : Recent(j) => Recent(j)'
            BY <2>1, <2>2, <1>0 DEF Recent, Never
      <2>4. \A j \in Ids : posted'[j] <= now
            BY <2>1, <1>0 DEF Written
      <2>5. Written'
            BY <2>1, <2>3, <2>4 DEF Written
      <2>6. Decided'
            <3> SUFFICES ASSUME NEW j \in Ids, NEW p \in decidedBy[j]
                         PROVE  /\ p \in 1 .. starts
                                /\ p # starts => /\ posted'[j] # Never
                                                 /\ posted'[j] <= startTime
                                /\ posted'[j] # Never
                BY <2>1 DEF Decided
            <3>1. QED  BY <2>2 DEF Decided
      <2>7. QED  BY <2>1, <2>5, <2>6 DEF DecidedByOneProcess
<1>4. ASSUME NEW id \in Ids, Arrive(id) PROVE OnceInv'
      BY <1>0, <1>4 DEF Arrive, processVars, channelVars, Written, Decided,
                        DecidedByOneProcess, Recent
<1>5. CASE Forward
      <2>1. /\ handler # None /\ handler' = None /\ inCh' = Append(inCh, handler)
            /\ UNCHANGED <<now, posted, startTime, starts, decidedBy>>
            BY <1>5 DEF Forward, processVars
      <2>2. Recent(handler)
            BY <2>1 DEF Written
      <2>3. \A i \in DOMAIN inCh' :
                \/ inCh'[i] = handler
                \/ i \in DOMAIN inCh /\ inCh'[i] = inCh[i]
            <3>1. handler \in Ids
                  BY <2>2 DEF Recent
            <3>2. /\ DOMAIN inCh' = 1 .. (Len(inCh) + 1) /\ DOMAIN inCh = 1 .. Len(inCh)
                  /\ Len(inCh) \in Nat
                  /\ \A i \in 1 .. Len(inCh) : inCh'[i] = inCh[i]
                  /\ inCh'[Len(inCh) + 1] = handler
                  BY <1>0, <2>1, <3>1
            <3>3. QED  BY <3>2
      <2>4. Written'
            BY <2>1, <2>2, <2>3 DEF Written, Recent
      <2>5. QED  BY <2>1, <2>4 DEF Decided, DecidedByOneProcess
<1>6. CASE Decide
      <2> DEFINE id == Head(inCh)
      <2>1. /\ inCh # << >> /\ inCh' = Tail(inCh)
            /\ decidedBy' = [decidedBy EXCEPT ![id] = @ \cup {starts}]
            /\ UNCHANGED <<now, posted, startTime, starts, handler>>
            BY <1>6 DEF Decide
      <2>2. Recent(id)
            BY <1>0, <2>1 DEF Written
      <2>3. \A i \in DOMAIN inCh' : \E j \in DOMAIN inCh : inCh'[i] = inCh[j]
            <3> SUFFICES ASSUME NEW i \in DOMAIN inCh'
                         PROVE  \E j \in DOMAIN inCh : inCh'[i] = inCh[j]
                OBVIOUS
            <3>1. i + 1 \in DOMAIN inCh /\ inCh'[i] = inCh[i + 1]
                  BY <1>0, <2>1
            <3>2. QED  BY <3>1
      <2>4. Written'
            BY <2>1, <2>3 DEF Written, Recent
      <2>5. id \in Ids /\ posted[id] # Never /\ ~(posted[id] <= startTime)
            BY <1>0, <2>2 DEF Recent, Never
      <2>6. \A p \in decidedBy[id] : p = starts
            BY <2>5 DEF Decided
      <2>7. /\ \A p \in decidedBy'[id] : p = starts
            /\ \A j \in Ids \ {id} : decidedBy'[j] = decidedBy[j]
            BY <2>1, <2>5, <2>6 DEF TypeOK
      <2>8. DecidedByOneProcess'
            BY <2>7 DEF DecidedByOneProcess
      <2>9. starts \in 1 .. starts
            BY DEF TypeOK
      <2>10. Decided'
            BY <2>1, <2>5, <2>7, <2>9 DEF Decided
      <2>11. QED  BY <2>4, <2>8, <2>10
<1>7. CASE Restart
      <2>1. /\ starts' = starts + 1 /\ startTime' = now
            /\ handler' = None /\ inCh' = << >>
            /\ UNCHANGED <<now, posted, decidedBy>>
            BY <1>7 DEF Restart
      <2>2. Written'
            BY <1>0, <2>1 DEF Written
      <2>3. Decided'
            BY <1>0, <2>1 DEF Decided, Written
      <2>4. QED  BY <2>1, <2>2, <2>3 DEF DecidedByOneProcess
<1>8. QED
      BY <1>1, <1>2, <1>3, <1>4, <1>5, <1>6, <1>7
         DEF Next, ReplyLoop, Sender, Lookup, Transmit, vars, channelVars, loopVars,
             processVars, Take, Cancel, SweepBegin, SweepVisit, StopReplyLoop

(* No message is decided by two processes, whenever the bot is restarted   *)
(* and whatever is delivered again (inbound.go:63-66).                     *)
THEOREM DecidedOnce == Spec => []DecidedByOneProcess
<1>1. Init => OnceInv
      BY AdapterAssumption
         DEF Init, OnceInv, Written, Decided, DecidedByOneProcess, Recent, Never
<1>2. QED  BY <1>1, OnceStep, TypeCorrect, PTL DEF Spec, OnceInv

-----------------------------------------------------------------------------
(* Quoting.  The handler stores before it forwards, so QuoteKept extends to*)
(* the message in its hand; the sweep deletes by a clock reading that is   *)
(* not ahead of the clock; who is asleep has not taken an entry.           *)

OnItsWay(id) == handler = id \/ Underway(id)

Saved(id) == \/ id \in DOMAIN pending
             \/ \E n \in DOMAIN senders : senders[n].quoted = id

Kept == \A id \in Ids :
            OnItsWay(id) => /\ posted[id] # Never
                            /\ now - posted[id] <= Lifetime => Saved(id)

Unquoted == \A n \in DOMAIN senders : senders[n].pc = "asleep" => senders[n].quoted = None

QuoteInv == Filed /\ sweep.at <= now /\ Unquoted /\ Kept

\* A step that puts no message on its way and keeps what is saved.
LEMMA KeptFrom ==
    ASSUME TypeOK, Kept, now' \in Int, now' >= now, UNCHANGED posted,
           \A id \in Ids : OnItsWay(id)' => OnItsWay(id),
           \A id \in Ids : (now - posted[id] <= Lifetime /\ Saved(id)) => Saved(id)'
    PROVE  Kept'
<1> SUFFICES ASSUME NEW id \in Ids, OnItsWay(id)'
             PROVE  /\ posted'[id] # Never
                    /\ now' - posted'[id] <= Lifetime => Saved(id)'
    BY DEF Kept
<1>1. now \in Int /\ Lifetime \in Int /\ posted[id] \in Int
      BY AdapterAssumption DEF TypeOK, Time, Never
<1>2. QED  BY <1>1 DEF Kept

LEMMA QuoteStep == TypeOK /\ QuoteInv /\ [Next]_vars => QuoteInv'
<1> SUFFICES ASSUME TypeOK, QuoteInv, [Next]_vars PROVE QuoteInv'
    OBVIOUS
<1> USE DEF QuoteInv
<1>0. /\ inCh \in Seq(Ids) /\ outCh \in Seq(Ids) /\ senders \in Seq(Senders)
      /\ now \in Int /\ sweep.at \in Int /\ Lifetime \in Int /\ None \notin Ids
      /\ posted \in [Ids -> Int]
      BY AdapterAssumption DEF TypeOK, Time, Never
<1>1. ASSUME UNCHANGED <<posted, handler, pending, inCh, outCh, sweep, senders>>,
             now' \in Int, now' >= now
      PROVE  QuoteInv'
      <2>1. Kept'
            BY <1>1, KeptFrom DEF OnItsWay, Underway, Saved
      <2>2. QED  BY <1>0, <1>1, <2>1 DEF Filed, Unquoted
<1>2. ASSUME NEW j \in Ids, Post(j) PROVE QuoteInv'
      <2>1. /\ posted[j] = Never /\ posted' = [posted EXCEPT ![j] = now]
            /\ UNCHANGED <<now, handler, pending, inCh, outCh, sweep, senders>>
            BY <1>2 DEF Post, channelVars, loopVars
      <2>2. \A id \in Ids : posted[id] # Never => posted'[id] = posted[id]
            BY <2>1, <1>0
      <2>3. Kept'
            BY <2>1, <2>2 DEF Kept, OnItsWay, Underway, Saved
      <2>4. QED  BY <2>1, <2>3 DEF Filed, Unquoted
<1>3. ASSUME NEW j \in Ids, Arrive(j) PROVE QuoteInv'
      <2>1. /\ handler' = j /\ posted[j] > startTime
            /\ pending' = [k \in DOMAIN pending \cup {j} |->
                             IF k = j THEN j ELSE pending[k]]
            /\ UNCHANGED <<now, posted, inCh, outCh, sweep, senders>>
            BY <1>3 DEF Arrive, Key, channelVars, loopVars
      <2>2. posted[j] # Never
            BY <2>1, <1>0 DEF TypeOK, Time, Never
      <2>3. /\ \A id \in Ids : OnItsWay(id)' => OnItsWay(id) \/ id = j
            /\ \A id \in Ids : Saved(id) => Saved(id)'
            /\ Saved(j)'
            BY <2>1 DEF OnItsWay, Underway, Saved
      <2>4. Kept'
            BY <2>1, <2>2, <2>3 DEF Kept
      <2>5. QED  BY <2>1, <2>4 DEF Filed, Unquoted
<1>4. CASE Forward
      <2>1. /\ handler # None /\ handler' = None /\ inCh' = Append(inCh, handler)
            /\ UNCHANGED <<now, posted, pending, outCh, sweep, senders>>
            BY <1>4 DEF Forward, loopVars
      <2>2. \A i \in DOMAIN inCh' :
                \/ inCh'[i] = handler
                \/ i \in DOMAIN inCh /\ inCh'[i] = inCh[i]
            <3>1. handler \in Ids
                  BY <2>1 DEF TypeOK
            <3>2. /\ DOMAIN inCh' = 1 .. (Len(inCh) + 1) /\ DOMAIN inCh = 1 .. Len(inCh)
                  /\ Len(inCh) \in Nat
                  /\ \A i \in 1 .. Len(inCh) : inCh'[i] = inCh[i]
                  /\ inCh'[Len(inCh) + 1] = handler
                  BY <1>0, <2>1, <3>1
            <3>3. QED  BY <3>2
      <2>3. \A id \in Ids : OnItsWay(id)' => OnItsWay(id)
            BY <1>0, <2>1, <2>2 DEF OnItsWay, Underway
      <2>4. \A id \in Ids : Saved(id) => Saved(id)'
            BY <2>1 DEF Saved
      <2>5. Kept'
            BY <1>0, <2>1, <2>3, <2>4, KeptFrom
      <2>6. QED  BY <2>1, <2>5 DEF Filed, Unquoted
<1>5. CASE Decide
      <2>1. /\ inCh # << >> /\ inCh' = Tail(inCh)
            /\ outCh' = outCh \/ outCh' = Append(outCh, Head(inCh))
            /\ UNCHANGED <<now, posted, handler, pending, sweep, senders>>
            BY <1>5 DEF Decide, loopVars
      <2>2. Head(inCh) \in Ids /\ Head(inCh) = inCh[1] /\ 1 \in DOMAIN inCh
            BY <1>0, <2>1
      <2>3. \A i \in DOMAIN inCh' : \E j \in DOMAIN inCh : inCh'[i] = inCh[j]
            <3> SUFFICES ASSUME NEW i \in DOMAIN inCh'
                         PROVE  \E j \in DOMAIN inCh : inCh'[i] = inCh[j]
                OBVIOUS
            <3>1. i + 1 \in DOMAIN inCh /\ inCh'[i] = inCh[i + 1]
                  BY <1>0, <2>1
            <3>2. QED  BY <3>1
      <2>4. \A i \in DOMAIN outCh' :
                \/ outCh'[i] = Head(inCh)
                \/ i \in DOMAIN outCh /\ outCh'[i] = outCh[i]
            <3>1. CASE outCh' = outCh
                  BY <3>1
            <3>2. CASE outCh' = Append(outCh, Head(inCh))
                  <4>1. /\ DOMAIN outCh' = 1 .. (Len(outCh) + 1)
                        /\ DOMAIN outCh = 1 .. Len(outCh) /\ Len(outCh) \in Nat
                        /\ \A i \in 1 .. Len(outCh) : outCh'[i] = outCh[i]
                        /\ outCh'[Len(outCh) + 1] = Head(inCh)
                        BY <1>0, <2>2, <3>2
                  <4>2. QED  BY <4>1
            <3>3. QED  BY <2>1, <3>1, <3>2
      <2>5. \A id \in Ids : OnItsWay(id)' => OnItsWay(id)
            BY <2>1, <2>2, <2>3, <2>4 DEF OnItsWay, Underway
      <2>6. \A id \in Ids : Saved(id) => Saved(id)'
            BY <2>1 DEF Saved
      <2>7. Kept'
            BY <1>0, <2>1, <2>5, <2>6, KeptFrom
      <2>8. QED  BY <2>1, <2>7 DEF Filed, Unquoted
<1>6. CASE Take
      <2>1. /\ outCh # << >> /\ outCh' = Tail(outCh)
            /\ UNCHANGED <<now, posted, handler, pending, inCh, sweep>>
            BY <1>6 DEF Take, loopVars
      <2>2. PICK jitter \in IF Head(outCh) \in Commands THEN {0} ELSE Jitters :
              senders' = Append(senders, [id |-> Head(outCh), pc |-> "asleep",
                                          wake |-> now + jitter, quoted |-> None,
                                          participant |-> None])
            BY <1>6 DEF Take
      <2>3. Head(outCh) = outCh[1] /\ 1 \in DOMAIN outCh
            BY <1>0, <2>1
      <2>4. \A i \in DOMAIN outCh' : \E j \in DOMAIN outCh : outCh'[i] = outCh[j]
            <3> SUFFICES ASSUME NEW i \in DOMAIN outCh'
                         PROVE  \E j \in DOMAIN outCh : outCh'[i] = outCh[j]
                OBVIOUS
            <3>1. i + 1 \in DOMAIN outCh /\ outCh'[i] = outCh[i + 1]
                  BY <1>0, <2>1
            <3>2. QED  BY <3>1
      <2>5. /\ \A n \in DOMAIN senders' :
                  \/ n \in DOMAIN senders /\ senders'[n] = senders[n]
                  \/ senders'[n].id = Head(outCh) /\ senders'[n].quoted = None
            /\ \A n \in DOMAIN senders : n \in DOMAIN senders' /\ senders'[n] = senders[n]
            BY <1>0, <2>2
      <2>6. \A id \in Ids : OnItsWay(id)' => OnItsWay(id)
            BY <2>1, <2>3, <2>4, <2>5 DEF OnItsWay, Underway
      <2>7. \A id \in Ids : Saved(id) => Saved(id)'
            BY <2>1, <2>5 DEF Saved
      <2>8. Kept'
            BY <1>0, <2>1, <2>6, <2>7, KeptFrom
      <2>9. Unquoted'
            BY <2>5 DEF Unquoted
      <2>10. QED  BY <2>1, <2>8, <2>9 DEF Filed
<1>7. CASE SweepBegin
      <2>1. /\ sweep' = [at |-> now, left |-> DOMAIN pending]
            /\ UNCHANGED <<now, posted, handler, pending, inCh, outCh, senders>>
            BY <1>7 DEF SweepBegin, channelVars
      <2>2. Kept'
            BY <1>0, <2>1, KeptFrom DEF OnItsWay, Underway, Saved
      <2>3. QED  BY <1>0, <2>1, <2>2 DEF Filed, Unquoted
<1>8. ASSUME NEW k \in sweep.left, SweepVisit(k) PROVE QuoteInv'
      <2>1. UNCHANGED <<now, posted, handler, inCh, outCh, senders>>
            BY <1>8 DEF SweepVisit, channelVars
      <2>2. sweep'.at <= now
            BY <1>0, <1>8 DEF SweepVisit, Resting, TypeOK, Time
      <2>3. Filed'
            BY <1>8 DEF SweepVisit, Filed
      <2>4. \A id \in Ids : (now - posted[id] <= Lifetime /\ id \in DOMAIN pending)
                              => id \in DOMAIN pending'
            <3> SUFFICES ASSUME NEW id \in Ids, now - posted[id] <= Lifetime,
                                id \in DOMAIN pending, id \notin DOMAIN pending'
                         PROVE  FALSE
                OBVIOUS
            <3>1. id = k /\ posted[pending[k]] < sweep.at - Lifetime
                  BY <1>8 DEF SweepVisit
            <3>2. posted[id] < sweep.at - Lifetime
                  BY <3>1 DEF Filed
            <3>3. QED  BY <1>0, <3>2
      <2>5. \A id \in Ids : (now - posted[id] <= Lifetime /\ Saved(id)) => Saved(id)'
            BY <2>1, <2>4 DEF Saved
      <2>6. Kept'
            BY <1>0, <2>1, <2>5, KeptFrom DEF OnItsWay, Underway
      <2>7. QED  BY <2>1, <2>2, <2>3, <2>6 DEF Unquoted
<1>9. CASE Restart
      BY <1>0, <1>9, AdapterAssumption
         DEF Restart, Filed, Unquoted, Kept, OnItsWay, Underway, Resting, TypeOK, Time
<1>10. ASSUME NEW n \in DOMAIN senders, Lookup(n) PROVE QuoteInv'
      <2> DEFINE j == senders[n].id
                 original == IF j \in DOMAIN pending THEN pending[j] ELSE None
      <2>1. /\ senders[n].pc = "asleep"
            /\ pending' = [k \in DOMAIN pending \ {j} |-> pending[k]]
            /\ UNCHANGED <<now, posted, handler, inCh, outCh, sweep>>
            BY <1>10 DEF Lookup, Key, channelVars, loopVars
      <2>2. PICK participant :
              senders' = [senders EXCEPT ![n].pc = "sending", ![n].quoted = original,
                                         ![n].participant = participant]
            BY <1>10 DEF Lookup, Key
      <2>3. n \in 1 .. Len(senders) /\ senders[n] \in Senders
            BY <1>0
      <2>4. /\ senders'[n].pc = "sending" /\ senders'[n].quoted = original
            /\ n \in DOMAIN senders' /\ DOMAIN senders' = DOMAIN senders
            /\ \A m \in DOMAIN senders \ {n} : senders'[m] = senders[m]
            BY <1>0, <2>2, <2>3 DEF Senders
      <2>5. \A id \in Ids : OnItsWay(id)' => OnItsWay(id)
            BY <2>1, <2>4 DEF OnItsWay, Underway
      <2>6. \A id \in Ids : Saved(id) => Saved(id)'
            <3> SUFFICES ASSUME NEW id \in Ids, Saved(id) PROVE Saved(id)'
                OBVIOUS
            <3>1. CASE id \in DOMAIN pending /\ id # j
                  BY <2>1, <3>1 DEF Saved
            <3>2. CASE id \in DOMAIN pending /\ id = j
                  BY <2>4, <3>2 DEF Saved, Filed
            <3>3. CASE \E m \in DOMAIN senders : senders[m].quoted = id
                  <4>1. PICK m \in DOMAIN senders : senders[m].quoted = id
                        BY <3>3
                  <4>2. m # n
                        BY <1>0, <2>1, <4>1 DEF Unquoted
                  <4>3. QED  BY <2>4, <4>1, <4>2 DEF Saved
            <3>4. QED  BY <3>1, <3>2, <3>3 DEF Saved
      <2>7. Kept'
            BY <1>0, <2>1, <2>5, <2>6, KeptFrom
      <2>8. QED  BY <2>1, <2>4, <2>7 DEF Filed, Unquoted
<1>11. ASSUME NEW n \in DOMAIN senders, Transmit(n) PROVE QuoteInv'
      <2>1. UNCHANGED <<now, posted, handler, pending, inCh, outCh, sweep>>
            BY <1>11 DEF Transmit, channelVars, loopVars
      <2>2. PICK outcome \in {"sent", "failed"} :
              senders' = [senders EXCEPT ![n].pc = outcome]
            BY <1>11 DEF Transmit
      <2>3. n \in 1 .. Len(senders) /\ senders[n] \in Senders
            BY <1>0
      <2>4. /\ senders'[n].pc # "asleep" /\ senders'[n].quoted = senders[n].quoted
            /\ DOMAIN senders' = DOMAIN senders
            /\ \A m \in DOMAIN senders \ {n} : senders'[m] = senders[m]
            BY <1>0, <2>2, <2>3 DEF Senders
      <2>5. \A id \in Ids : OnItsWay(id)' => OnItsWay(id)
            BY <2>1, <2>4 DEF OnItsWay, Underway
      <2>6. \A id \in Ids : Saved(id) => Saved(id)'
            BY <2>1, <2>4 DEF Saved
      <2>7. Kept'
            BY <1>0, <2>1, <2>5, <2>6, KeptFrom
      <2>8. QED  BY <2>1, <2>4, <2>7 DEF Filed, Unquoted
<1>12. CASE Tick
      BY <1>0, <1>1, <1>12 DEF Tick, channelVars, loopVars
<1>13. CASE Cancel \/ StopReplyLoop \/ UNCHANGED vars
      BY <1>0, <1>1, <1>13 DEF Cancel, StopReplyLoop, vars, channelVars, loopVars
<1>14. QED
      BY <1>2, <1>3, <1>4, <1>5, <1>6, <1>7, <1>8, <1>9, <1>10, <1>11, <1>12, <1>13
         DEF Next, ReplyLoop, Sender

(* The entry of a message within its lifetime is kept for its reply        *)
(* (inbound.go:80, 119-123).                                               *)
THEOREM OriginalKept == Spec => []QuoteKept
<1>1. Init => QuoteInv
      BY AdapterAssumption
         DEF Init, QuoteInv, Filed, Unquoted, Kept, OnItsWay, Underway, Resting
<1>2. QuoteInv => QuoteKept
      BY DEF QuoteInv, Kept, QuoteKept, OnItsWay, Saved, Key
<1>3. QED  BY <1>1, <1>2, QuoteStep, TypeCorrect, PTL DEF Spec
=============================================================================
