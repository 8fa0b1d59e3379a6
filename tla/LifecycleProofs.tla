-------------------------- MODULE LifecycleProofs --------------------------
(***************************************************************************)
(* Proofs about Lifecycle for any files, texts, messages and bounds: every *)
(* invariant of Lifecycle holds of Spec.  The second half is about what    *)
(* Load makes of a file and what Match makes of a text: the tokens that    *)
(* Tokenize cuts out of a text are its words, so that what fires is what a *)
(* reader would point at.                                                  *)
(***************************************************************************)
EXTENDS Lifecycle, SequenceTheorems, WellFoundedInduction, TLAPS

-----------------------------------------------------------------------------
(* Types.                                                                  *)

\* None is none of the values it is compared with.
LEMMA NothingElse ==
    /\ None \notin {"success", "error", "killed"}
    /\ None # "jid" /\ None # "lid"
BY LifecycleAssumption

\* The types hold at first.
LEMMA InitTypes == Init => TypeOK
<1> SUFFICES ASSUME Init PROVE TypeOK
    OBVIOUS
<1>1. inCh \in Seq(Inbounds) /\ Len(inCh) = 0
      BY DEF Init
<1>2. 1 \in 1 .. MaxStarts /\ 0 <= Capacity
      BY LifecycleAssumption
<1>3. QED  BY <1>1, <1>2 DEF Init, TypeOK, Alive, Preparing

\* What the handler gets of a message.
LEMMA InboundType == ASSUME TypeOK, NEW m \in Messages PROVE Inbound(m) \in Inbounds
<1>1. m.quotes \in {None, "jid", "lid", "other"}
      BY LifecycleAssumption
<1>2. QED  BY <1>1 DEF Inbound, Inbounds

\* Every step keeps them.
LEMMA TypesStep == TypeOK /\ [Next]_vars => TypeOK'
<1> SUFFICES ASSUME TypeOK, [Next]_vars PROVE TypeOK'
    OBVIOUS
<1> USE DEF configVars, mainVars, stopVars, adapterVars, sessionVars, eventVars
<1>0. /\ inCh \in Seq(Inbounds) /\ Len(inCh) \in Nat /\ starts \in Nat
      /\ None \notin {"success", "error", "killed"}
      BY NothingElse DEF TypeOK
<1>1. CASE UNCHANGED vars
      BY <1>1 DEF vars, TypeOK, Alive
<1>2. CASE LoadConfig
      <2>1. snap' \in {None, Load(file')}
            BY <1>2 DEF LoadConfig
      <2>2. /\ main' \in {"exited", "open"} /\ starts' = starts /\ actor' \in BOOLEAN
            /\ exit' \in {None, "error"} /\ (exit' # None <=> main' = "exited")
            BY <1>0, <1>2 DEF LoadConfig, Exit, TypeOK, Alive
      <2>3. QED  BY <1>0, <1>2, <2>1, <2>2 DEF LoadConfig, TypeOK, Alive, Preparing
<1>3. CASE Prepare
      <2>1. main' \in Preparing \cup {"client"}
            BY <1>3 DEF Prepare, Preparing, After
      <2>2. QED  BY <1>3, <2>1 DEF Prepare, TypeOK, Alive, Preparing
<1>4. CASE NewClient \/ ShowQR \/ Connect
      BY <1>4 DEF NewClient, ShowQR, Connect, TypeOK, Alive, Preparing
<1>5. CASE StartFails
      BY <1>0, <1>5 DEF StartFails, Exit, TypeOK, Alive, Preparing
<1>6. CASE Identify
      BY <1>6 DEF Identify, TypeOK, Alive, Preparing
<1>7. CASE Shutdown \/ Disconnect \/ Close
      BY <1>7 DEF Shutdown, Disconnect, Close, TypeOK, Alive, Preparing
<1>8. CASE ReturnFromRun \/ Kill
      BY <1>0, <1>8 DEF ReturnFromRun, Kill, Exit, TypeOK, Alive, Preparing
<1>9. CASE Signal
      BY <1>9 DEF Signal, TypeOK, Alive, Preparing
<1>10. CASE Restart
       <2>1. PICK f \in Files : Fresh(f)
             BY <1>10 DEF Restart
       <2>2. inCh' \in Seq(Inbounds) /\ Len(inCh') = 0
             BY <2>1 DEF Fresh
       <2>3. starts' \in 1 .. MaxStarts
             BY <1>10, LifecycleAssumption DEF Restart, TypeOK
       <2>4. Len(inCh') <= Capacity
             BY <2>2, LifecycleAssumption
       <2>5. QED  BY <1>10, <2>1, <2>2, <2>3, <2>4
                  DEF Restart, Fresh, TypeOK, Alive, Preparing
<1>11. CASE Pair \/ Drop \/ Reconnect
       BY <1>11 DEF Pair, Drop, Reconnect, Session, TypeOK, Alive
<1>12. ASSUME NEW m \in Messages, Receive(m) PROVE TypeOK'
       <2>1. Inbound(m) \in Inbounds
             BY InboundType
       <2>2. QED  BY <1>12, <2>1 DEF Receive, Dispatch, TypeOK, Alive
<1>13. CASE \E event \in {LoggedOut, StreamReplaced} : EndSession(event)
       BY <1>13 DEF EndSession, Dispatch, TypeOK, Alive
<1>14. CASE OnSessionEnd
       BY <1>14 DEF OnSessionEnd, TypeOK, Alive
<1>15. CASE Forward
       <2>1. handler \in Inbounds
             BY <1>15 DEF Forward, TypeOK
       <2>2. inCh' \in Seq(Inbounds) /\ Len(inCh') = Len(inCh) + 1
             BY <1>0, <1>15, <2>1 DEF Forward
       <2>3. Len(inCh') <= Capacity
             BY <1>0, <1>15, <2>2, LifecycleAssumption DEF Forward
       <2>4. QED  BY <1>15, <2>2, <2>3 DEF Forward, TypeOK, Alive
<1>16. CASE Decide
       <2>1. inCh' \in Seq(Inbounds) /\ Len(inCh') = Len(inCh) - 1
             BY <1>0, <1>16 DEF Decide
       <2>2. Len(inCh') <= Capacity
             BY <1>0, <2>1, LifecycleAssumption DEF TypeOK
       <2>3. QED  BY <1>16, <2>1, <2>2 DEF Decide, TypeOK, Alive
<1>17. CASE ActorReturns
       <2>1. UNCHANGED <<file, snap, main, exit, starts, signal, stopping, db, botJID,
                         botLID, link, paired, knew, handler, inCh, ended>>
             BY <1>17 DEF ActorReturns
       <2>2. actor' \in BOOLEAN
             BY <1>17 DEF ActorReturns
       <2>3. QED  BY <2>1, <2>2 DEF TypeOK, Alive
<1>18. QED
       BY <1>1, <1>2, <1>3, <1>4, <1>5, <1>6, <1>7, <1>8, <1>9, <1>10, <1>11, <1>12,
          <1>13, <1>14, <1>15, <1>16, <1>17 DEF Next, Main

(* Every variable of the process keeps its type.                           *)
THEOREM TypeCorrect == Spec => []TypeOK
BY InitTypes, TypesStep, PTL DEF Spec

-----------------------------------------------------------------------------
(* The order of main's steps, and what the handler knows.                  *)

\* Before Connect there is no session, and the database is not closed yet.
Early == Preparing \cup {"load", "client", "qr", "connect"}

Ordered == /\ main \in Early => /\ link = "down" /\ handler = None /\ inCh = << >>
                                /\ db # "closed"
           /\ main = "close" => link = "down" /\ handler = None
           /\ DatabaseOutlivesClient

\* Every step keeps the order of main's steps.
LEMMA OrderedStep == TypeOK /\ Ordered /\ [Next]_vars => Ordered'
<1> SUFFICES ASSUME TypeOK, Ordered, [Next]_vars PROVE Ordered'
    OBVIOUS
<1> USE DEF Ordered, DatabaseOutlivesClient, configVars, mainVars, stopVars,
            adapterVars, sessionVars, eventVars
<1>1. CASE UNCHANGED vars
      BY <1>1 DEF vars
<1>2. CASE LoadConfig
      BY <1>2 DEF LoadConfig, Exit, Early, Preparing
<1>3. CASE Prepare
      BY <1>3 DEF Prepare, Early, Preparing, After
<1>4. CASE NewClient \/ ShowQR \/ Connect
      BY <1>4 DEF NewClient, ShowQR, Connect, Early, Preparing
<1>5. CASE StartFails
      BY <1>5 DEF StartFails, Exit, Early, Preparing
<1>6. CASE Identify \/ Shutdown \/ Disconnect \/ Close
      BY <1>6 DEF Identify, Shutdown, Disconnect, Close, Early, Preparing
<1>7. CASE ReturnFromRun \/ Kill
      BY <1>7 DEF ReturnFromRun, Kill, Exit, Early, Preparing
<1>8. CASE Signal
      BY <1>8 DEF Signal
<1>9. CASE Restart
      BY <1>9 DEF Restart, Fresh
<1>10. CASE Pair \/ Drop \/ Reconnect
       BY <1>10 DEF Pair, Drop, Reconnect, Session
<1>11. ASSUME NEW event, Dispatch(event) PROVE Ordered'
       BY <1>11 DEF Dispatch
<1>12. CASE OnSessionEnd
       BY <1>12 DEF OnSessionEnd
<1>13. CASE Forward \/ ActorReturns
       BY <1>13 DEF Forward, ActorReturns
<1>14. CASE Decide
       BY <1>14 DEF Decide
<1>15. QED
       BY <1>1, <1>2, <1>3, <1>4, <1>5, <1>6, <1>7, <1>8, <1>9, <1>10, <1>11, <1>12,
          <1>13, <1>14 DEF Next, Main, Receive, EndSession

\* Ordered is an invariant.
LEMMA OrderedAlways == Spec => []Ordered
<1>1. Init => Ordered
      BY DEF Init, Ordered, DatabaseOutlivesClient
<1>2. QED  BY <1>1, OrderedStep, TypeCorrect, PTL DEF Spec

(* No client uses a database that is closed, on any way through Start, its *)
(* failures and the shutdown (app.go:86-90, client.go:211-221).            *)
THEOREM ClosedLast == Spec => []DatabaseOutlivesClient
<1>1. Ordered => DatabaseOutlivesClient
      BY DEF Ordered
<1>2. QED  BY <1>1, OrderedAlways, PTL

-----------------------------------------------------------------------------
(* A message that is marked settled was looked at with the bot's identity  *)
(* at hand: a process that connected with one still has it in Identify, or *)
(* has no session any more.                                                *)

Recognised(inbound) ==
    inbound.settled => /\ "jid" \in inbound.msg.mentions => inbound.mentioned
                       /\ inbound.quoted # "jid"

Identified ==
    (knew /\ link # "down") => /\ main = "identify" => paired
                               /\ main = "wait" => botJID = "jid"

Known == /\ Identified
         /\ handler \notin {None, LoggedOut, StreamReplaced} => Recognised(handler)
         /\ \A i \in DOMAIN inCh : Recognised(inCh[i])

\* isBotMentioned and extractQuotedText, while the session is up.
LEMMA InboundRecognised ==
    ASSUME Identified, link = "up", NEW m \in Messages
    PROVE  Recognised(Inbound(m))
<1> SUFFICES ASSUME main = "wait", knew
             PROVE  /\ "jid" \in m.mentions => Inbound(m).mentioned
                    /\ Inbound(m).quoted # "jid"
    BY DEF Recognised, Inbound
<1>1. botJID = "jid"
      BY DEF Identified
<1>2. "jid" \in m.mentions => m.mentions \cap {botJID, botLID} # {}
      BY <1>1
<1>3. QED  BY <1>1, <1>2, NothingElse DEF Inbound

\* Every step keeps what the process knows of itself.
LEMMA KnownStep == TypeOK /\ Ordered /\ Known /\ [Next]_vars => Known'
<1> SUFFICES ASSUME TypeOK, Ordered, Known, [Next]_vars PROVE Known'
    OBVIOUS
<1> USE DEF Known, configVars, mainVars, stopVars, adapterVars, sessionVars, eventVars
<1>0. inCh \in Seq(Inbounds)
      BY DEF TypeOK
<1>1. ASSUME UNCHANGED <<handler, inCh>>, Identified' PROVE Known'
      BY <1>1 DEF Recognised
<1>2. ASSUME main \in Early,
             \/ LoadConfig \/ Prepare \/ NewClient \/ ShowQR \/ StartFails
      PROVE  Known'
      <2>1. link = "down" /\ UNCHANGED <<link, handler, inCh>>
            BY <1>2 DEF Ordered, LoadConfig, Prepare, NewClient, ShowQR, StartFails
      <2>2. QED  BY <1>1, <2>1 DEF Identified
<1>3. CASE Connect
      BY <1>1, <1>3 DEF Connect, Identified
<1>4. CASE Identify
      BY <1>1, <1>4 DEF Identify, Identified
<1>5. CASE Shutdown \/ Disconnect \/ Close \/ ReturnFromRun \/ Kill
      BY <1>1, <1>5 DEF Shutdown, Disconnect, Close, ReturnFromRun, Kill, Exit, Identified
<1>6. CASE Signal \/ UNCHANGED vars
      BY <1>1, <1>6 DEF Signal, vars, Identified
<1>7. CASE Restart
      BY <1>7 DEF Restart, Fresh, Identified
<1>8. CASE Pair \/ Drop \/ Reconnect
      BY <1>1, <1>8 DEF Pair, Drop, Reconnect, Session, Identified
<1>9. ASSUME NEW m \in Messages, Receive(m) PROVE Known'
      <2>1. Recognised(Inbound(m))
            BY <1>9, InboundRecognised DEF Receive, Dispatch
      <2>2. handler' = Inbound(m) /\ UNCHANGED inCh
            BY <1>9 DEF Receive, Dispatch
      <2>3. Identified'
            BY <1>9 DEF Receive, Dispatch, Identified
      <2>4. Recognised(handler')
            BY <2>1, <2>2
      <2>5. QED  BY <2>2, <2>3, <2>4 DEF Recognised
<1>10. ASSUME NEW event \in {LoggedOut, StreamReplaced}, EndSession(event) PROVE Known'
      BY <1>10 DEF EndSession, Dispatch, Identified, Recognised
<1>11. CASE OnSessionEnd
      BY <1>11 DEF OnSessionEnd, Identified, Recognised
<1>12. CASE Forward
      <2>1. handler \in Inbounds /\ Recognised(handler) /\ handler' = None
            BY <1>12 DEF Forward, TypeOK
      <2>2. inCh' = Append(inCh, handler)
            BY <1>12 DEF Forward
      <2>3. /\ DOMAIN inCh' = 1 .. (Len(inCh) + 1) /\ DOMAIN inCh = 1 .. Len(inCh)
            /\ Len(inCh) \in Nat
            /\ \A i \in 1 .. Len(inCh) : inCh'[i] = inCh[i]
            /\ inCh'[Len(inCh) + 1] = handler
            BY <1>0, <2>1, <2>2
      <2>4. \A i \in DOMAIN inCh' :
                \/ inCh'[i] = handler
                \/ i \in DOMAIN inCh /\ inCh'[i] = inCh[i]
            BY <2>3
      <2>5. \A i \in DOMAIN inCh' : Recognised(inCh'[i])
            BY <2>1, <2>4
      <2>6. Identified'
            BY <1>12 DEF Forward, Identified
      <2>7. QED  BY <2>1, <2>5, <2>6 DEF Recognised
<1>13. CASE Decide
      <2>1. inCh # << >> /\ inCh' = Tail(inCh) /\ UNCHANGED handler /\ Identified'
            BY <1>13 DEF Decide, Identified
      <2>2. \A i \in DOMAIN inCh' : i + 1 \in DOMAIN inCh /\ inCh'[i] = inCh[i + 1]
            BY <1>0, <2>1
      <2>3. \A i \in DOMAIN inCh' : Recognised(inCh'[i])
            BY <2>2
      <2>4. QED  BY <2>1, <2>3 DEF Recognised
<1>14. CASE ActorReturns
      BY <1>1, <1>14 DEF ActorReturns, Identified
<1>15. QED
      <2>1. ASSUME \/ LoadConfig \/ Prepare \/ NewClient \/ ShowQR \/ StartFails
            PROVE  main \in Early
            BY <2>1 DEF LoadConfig, Prepare, NewClient, ShowQR, StartFails, Early,
                        Preparing
      <2>2. QED
            BY <1>2, <1>3, <1>4, <1>5, <1>6, <1>7, <1>8, <1>9, <1>10, <1>11, <1>12,
               <1>13, <1>14, <2>1 DEF Next, Main

(* A process that connected with an identity sees every mention of its     *)
(* number and takes no quotation of itself for somebody else's, once Start *)
(* has returned (client.go:181-189, inbound.go:190-210, 250).              *)
THEOREM IdentityUsed == Spec => []RecognisesItself
<1>1. Init => Known
      BY DEF Init, Known, Identified
<1>2. Known => RecognisesItself
      BY DEF Known, Recognised, RecognisesItself
<1>3. QED  BY <1>1, <1>2, KnownStep, TypeCorrect, OrderedAlways, PTL DEF Spec

-----------------------------------------------------------------------------
(* What Load makes of a file that validate accepts.                        *)

\* A name that occurs once means the element that ByName finds.
LEMMA NameMeansOne ==
    ASSUME NEW seq, NamesDistinct(seq), NEW i \in DOMAIN seq
    PROVE  ByName(seq, seq[i].name) = seq[i]
<1> DEFINE k == CHOOSE j \in DOMAIN seq : seq[j].name = seq[i].name
<1>1. k \in DOMAIN seq /\ seq[k].name = seq[i].name
      OBVIOUS
<1>2. k = i
      BY <1>1 DEF NamesDistinct
<1>3. QED  BY <1>2 DEF ByName

\* A matcher of a snapshot was made of one of the file.
LEMMA MadeOf ==
    ASSUME NEW cfg, Load(cfg) # None,
           NEW l \in Range(Load(cfg).listeners), NEW m \in Range(l.matchers)
    PROVE  \E f \in Range(cfg.matchers) :
               m = ResolvedMatcher(f, cfg.clusters) /\ f.name = m.name
<1>1. Accepts(cfg) /\ Load(cfg) = Resolve(cfg)
      BY DEF Load
<1>2. PICK i \in DOMAIN cfg.listeners : l = ResolvedListener(cfg.listeners[i], cfg)
      BY <1>1 DEF Resolve, Range
<1> DEFINE names == cfg.listeners[i].matchers
<1>3. PICK k \in DOMAIN names :
          m = ResolvedMatcher(ByName(cfg.matchers, names[k]), cfg.clusters)
      BY <1>2 DEF ResolvedListener, Range
<1>4. names[k] \in Names(cfg.matchers)
      BY <1>1, <1>3 DEF Accepts, ValidListener, Range
<1>5. PICK j \in DOMAIN cfg.matchers : cfg.matchers[j].name = names[k]
      BY <1>4 DEF Names
<1>6. ByName(cfg.matchers, names[k]) = cfg.matchers[j]
      BY <1>1, <1>5, NameMeansOne DEF Accepts
<1>7. m = ResolvedMatcher(cfg.matchers[j], cfg.clusters)
      BY <1>3, <1>6
<1>8. cfg.matchers[j] \in Range(cfg.matchers)
      BY DEF Range
<1>9. cfg.matchers[j].name = m.name
      BY <1>7 DEF ResolvedMatcher
<1>10. QED  BY <1>7, <1>8, <1>9

(* The matchers the bot works with are the ones the file names, with the   *)
(* answers of the clusters it names, whatever is in the file (load.go:46-  *)
(* 54, 138-146).                                                           *)
THEOREM NamesResolve == Spec => []ReferencesResolved
<1>1. TypeOK => ReferencesResolved
      <2> SUFFICES ASSUME TypeOK, snap # None, NEW m \in LoadedMatchers,
                          NEW f \in Range(file.matchers), f.name = m.name,
                          NEW c \in Range(file.clusters), c.name = Block(f).cluster
                   PROVE  m.answers = c.answers
          BY DEF ReferencesResolved
      <2>1. snap = Load(file) /\ Load(file) # None /\ Accepts(file)
            BY DEF TypeOK, Load
      <2>2. PICK l \in Range(Load(file).listeners) : m \in Range(l.matchers)
            BY <2>1 DEF LoadedMatchers, Range
      <2>3. PICK g \in Range(file.matchers) :
                m = ResolvedMatcher(g, file.clusters) /\ g.name = m.name
            BY <2>1, <2>2, MadeOf
      <2>4. g = f
            BY <2>1, <2>3 DEF Accepts, NamesDistinct, Range
      <2>5. ByName(file.clusters, c.name) = c
            BY <2>1, NameMeansOne DEF Accepts, Range
      <2>6. m.answers = ByName(file.clusters, Block(f).cluster).answers
            BY <2>3, <2>4 DEF ResolvedMatcher
      <2>7. QED  BY <2>5, <2>6
<1>2. QED  BY <1>1, TypeCorrect, PTL
-----------------------------------------------------------------------------
(* Cooldowns.                                                              *)

\* A product that fits is not changed.
LEMMA NoWrap ==
    ASSUME NEW n \in Int, -Half <= n, n < Half
    PROVE  Wrapped(n) = n
<1>1. PICK x \in Int, k \in Int : x = n + Half /\ k = 2 * Half /\ 0 <= x /\ x < k
      BY FilesAssumption
<1>2. x % k = x
      BY <1>1
<1>3. QED  BY <1>1, <1>2, FilesAssumption DEF Wrapped

\* Seconds that fit become that long, and the default if there are none.
LEMMA CooldownResolved ==
    ASSUME NEW sec \in Int, NEW default \in {DefaultMatcher, DefaultUser}, Fits(sec)
    PROVE  /\ resolveCooldown(sec, default) > 0
           /\ sec > 0 => resolveCooldown(sec, default) = sec * Second
<1>0. /\ default \in Nat \ {0} /\ default * Second < Half
      /\ Asked(sec, default) = IF sec <= 0 THEN default ELSE sec
      BY FilesAssumption DEF Asked
<1>1. PICK asked \in Nat \ {0} : asked = Asked(sec, default) /\ asked * Second < Half
      BY <1>0 DEF Fits
<1>2. PICK n \in Int : n = asked * Second /\ n > 0
      BY FilesAssumption
<1>3. resolveCooldown(sec, default) = n
      BY <1>1, <1>2, NoWrap, FilesAssumption DEF resolveCooldown
<1>4. QED  BY <1>1, <1>2, <1>3 DEF Asked

\* What is known of the file whose snapshot is in use, and of the matchers.
LEMMA LoadedFrom ==
    ASSUME TypeOK, snap # None
    PROVE  /\ file \in Written /\ snap = Load(file) /\ Load(file) # None
           /\ Accepts(file) /\ snap = Resolve(file)
BY DEF TypeOK, Load, Written

\* The block of an accepted matcher is one of the file.
LEMMA BlockOfFile ==
    ASSUME NEW cfg \in Written, Accepts(cfg), NEW f \in Range(cfg.matchers)
    PROVE  ValidMatcher(f, cfg.clusters) /\ Block(f) \in Blocks(cfg)
<1>1. ValidMatcher(f, cfg.clusters)
      BY DEF Accepts
<1>2. Block(f) \in {f.levenshtein, f.mention}
      BY DEF Block
<1>3. Block(f) # None
      BY <1>1, Zenon DEF ValidMatcher, Block
<1>4. QED  BY <1>1, <1>2, <1>3, Zenon DEF Blocks

(* Whatever the file says, the cooldowns in use are positive, and those    *)
(* that it asks for are in use, unless the seconds overflow a duration     *)
(* (load.go:208-214).                                                      *)
THEOREM CooldownsResolve == Spec => []CooldownsAsAsked
<1>1. TypeOK => CooldownsAsAsked
      <2> SUFFICES ASSUME TypeOK, snap # None PROVE CooldownsAsAsked
          BY DEF CooldownsAsAsked
      <2>1. /\ file \in Written /\ snap = Load(file) /\ Load(file) # None
            /\ Accepts(file) /\ snap = Resolve(file)
            BY LoadedFrom
      <2>2. ASSUME NEW m \in LoadedMatchers, NEW f \in Range(file.matchers),
                   f.name = m.name, NEW sec, sec = Block(f).cooldownSec, Fits(sec)
            PROVE  m.cooldown > 0 /\ (sec > 0 => m.cooldown = sec * Second)
            <3>1. PICK l \in Range(Load(file).listeners) : m \in Range(l.matchers)
                  BY <2>1 DEF LoadedMatchers, Range
            <3>2. PICK g \in Range(file.matchers) :
                      m = ResolvedMatcher(g, file.clusters) /\ g.name = m.name
                  BY <2>1, <3>1, MadeOf
            <3>3. g = f
                  BY <2>1, <2>2, <3>2 DEF Accepts, NamesDistinct, Range
            <3>4. m.cooldown = resolveCooldown(sec, DefaultMatcher)
                  BY <2>2, <3>2, <3>3 DEF ResolvedMatcher
            <3>5. sec \in Int
                  BY <2>1, <2>2, BlockOfFile, FilesAssumption
            <3>6. QED  BY <2>2, <3>4, <3>5, CooldownResolved
      <2>3. ASSUME Fits(file.userCooldownSec) PROVE snap.userCooldown > 0
            <3>1. snap.userCooldown = resolveCooldown(file.userCooldownSec, DefaultUser)
                  BY <2>1 DEF Resolve
            <3>2. QED  BY <2>1, <2>3, <3>1, CooldownResolved, FilesAssumption
      <2>4. QED  BY <2>2, <2>3 DEF CooldownsAsAsked
<1>2. QED  BY <1>1, TypeCorrect, PTL
-----------------------------------------------------------------------------
(* The words of a text.                                                    *)

\* Min is the least of a set of naturals.
LEMMA Least ==
    ASSUME NEW T, T \subseteq Nat, T # {}
    PROVE  Min(T) \in T /\ \A y \in T : Min(T) <= y
<1> DEFINE R == OpToRel(<, Nat)
<1>1. PICK x \in T : \A y \in T : ~ (<<y, x>> \in R)
      BY NatLessThanWellFounded, WFMin
<1>2. \A p, q \in Nat : q < p => <<q, p>> \in R
      BY Zenon DEF OpToRel
<1> HIDE DEF R
<1>3. \A y \in T : ~ (y < x)
      BY <1>1, <1>2, Zenon
<1>4. \A y \in T : x <= y
      BY <1>3
<1>5. QED  BY <1>4 DEF Min

\* Max is the greatest of a bounded one.
LEMMA Greatest ==
    ASSUME NEW n \in Nat, NEW T, T \subseteq 0 .. n, T # {}
    PROVE  Max(T) \in T /\ \A y \in T : y <= Max(T)
<1> DEFINE S == {n - y : y \in T}
<1>1. S \subseteq Nat /\ S # {}
      <2>1. \A y \in T : n - y \in Nat
            OBVIOUS
      <2>2. QED  BY <2>1
<1>2. Min(S) \in S /\ \A z \in S : Min(S) <= z
      BY <1>1, Least
<1>3. PICK x \in T : Min(S) = n - x
      BY <1>2
<1>4. ASSUME NEW y \in T PROVE y <= x
      <2>1. n - x <= n - y
            BY <1>2, <1>3
      <2>2. QED  BY <2>1
<1>5. QED  BY <1>4 DEF Max

\* The places of a field that are not punctuation, if it starts at b.
Inside(s, b) == {k \in Field(s, b) : s[k] \notin Puncts}

\* The first and the last place of a field that is not punctuation.
LEMMA Ends ==
    ASSUME NEW s \in Seq(Chars), NEW b \in Starts(s), Inside(s, b) # {},
           NEW i, i = Min(Inside(s, b)), NEW j, j = Max(Inside(s, b))
    PROVE  /\ b \in Nat /\ i \in b .. j /\ j \in b .. Len(s) /\ b \in 1 .. Len(s)
           /\ i \in Inside(s, b) /\ j \in Inside(s, b)
           /\ \A k \in Inside(s, b) : k \in i .. j
<1>1. b \in 1 .. Len(s) /\ Len(s) \in Nat
      BY DEF Starts
<1>2. Inside(s, b) \subseteq b .. Len(s)
      BY DEF Inside, Field
<1>3. Inside(s, b) \subseteq 0 .. Len(s)
      BY <1>1, <1>2
<1>4. i \in Inside(s, b) /\ \A k \in Inside(s, b) : i <= k
      BY <1>3, Least
<1>5. j \in Inside(s, b) /\ \A k \in Inside(s, b) : k <= j
      BY <1>1, <1>3, Greatest
<1>6. QED  BY <1>1, <1>2, <1>4, <1>5

\* What is left of a field is a word ...
LEMMA TokenIsWord ==
    ASSUME NEW s \in Seq(Chars), NEW b \in Starts(s), Inside(s, b) # {},
           NEW i, i = Min(Inside(s, b)), NEW j, j = Max(Inside(s, b))
    PROVE  IsWord(s, i, j)
<1>1. /\ b \in Nat /\ i \in b .. j /\ j \in b .. Len(s) /\ b \in 1 .. Len(s)
      /\ i \in Inside(s, b) /\ j \in Inside(s, b) /\ Len(s) \in Nat
      /\ \A k \in Inside(s, b) : k \in i .. j
      BY Ends
<1>2. /\ s[i] \notin Puncts /\ s[j] \notin Puncts
      /\ \A k \in b .. j : s[k] \notin Spaces
      BY <1>1 DEF Inside, Field
<1>3. ASSUME NEW k \in 1 .. i - 1
      PROVE  s[k] \in Puncts \/ \E n \in k .. i - 1 : s[n] \in Spaces
      <2>1. CASE k < b
            <3>1. b - 1 \in k .. i - 1 /\ s[b - 1] \in Spaces
                  BY <1>1, <2>1 DEF Starts
            <3>2. QED  BY <3>1
      <2>2. CASE b <= k
            <3>1. k \in Field(s, b) /\ k \notin i .. j
                  BY <1>1, <1>2, <2>2 DEF Field
            <3>2. QED  BY <1>1, <3>1 DEF Inside
      <2>3. QED  BY <1>1, <2>1, <2>2
<1>4. ASSUME NEW k \in j + 1 .. Len(s)
      PROVE  s[k] \in Puncts \/ \E n \in j + 1 .. k : s[n] \in Spaces
      <2>1. CASE \E n \in b .. k : s[n] \in Spaces
            <3>1. PICK n \in b .. k : s[n] \in Spaces
                  BY <2>1
            <3>2. n \in j + 1 .. k
                  BY <1>1, <1>2, <3>1
            <3>3. QED  BY <3>1, <3>2
      <2>2. CASE \A n \in b .. k : s[n] \notin Spaces
            <3>1. k \in Field(s, b) /\ k \notin i .. j
                  BY <1>1, <2>2 DEF Field
            <3>2. QED  BY <1>1, <3>1 DEF Inside
      <2>3. QED  BY <2>1, <2>2
<1>5. QED  BY <1>1, <1>2, <1>3, <1>4 DEF IsWord

\* ... and every word is what is left of one.
LEMMA WordIsToken ==
    ASSUME NEW s \in Seq(Chars), NEW i \in 1 .. Len(s), NEW j \in i .. Len(s),
           IsWord(s, i, j)
    PROVE  \E b \in Starts(s) : /\ Inside(s, b) # {}
                                /\ Min(Inside(s, b)) = i /\ Max(Inside(s, b)) = j
<1>0. Len(s) \in Nat /\ DOMAIN s = 1 .. Len(s)
      OBVIOUS
<1> DEFINE befores == {k \in 0 .. i - 1 : k = 0 \/ s[k] \in Spaces}
<1>1. PICK z \in befores : \A k \in befores : k <= z
      <2>1. befores \subseteq 0 .. i - 1 /\ 0 \in befores /\ i - 1 \in Nat
            BY <1>0
      <2>2. QED  BY <2>1, Greatest
<1>2. PICK b \in 1 .. i : b = z + 1
      BY <1>0, <1>1
<1>3. \A k \in b .. j : s[k] \notin Spaces
      <2>1. ASSUME NEW k \in b .. i - 1 PROVE s[k] \notin Spaces
            <3>1. k \in 0 .. i - 1 /\ k > z
                  BY <1>0, <1>1, <1>2
            <3>2. k \notin befores
                  BY <1>1, <3>1
            <3>3. QED  BY <3>1, <3>2
      <2>2. \A k \in i .. j : s[k] \notin Spaces
            BY DEF IsWord
      <2>3. QED  BY <1>0, <2>1, <2>2
<1>4. b \in Starts(s)
      BY <1>0, <1>1, <1>2, <1>3 DEF Starts
<1>5. i \in Inside(s, b) /\ j \in Inside(s, b)
      BY <1>0, <1>3 DEF Inside, Field, IsWord
<1>6. ASSUME NEW k \in Inside(s, b) PROVE k \in i .. j
      <2>1. k \in b .. Len(s) /\ s[k] \notin Puncts /\ \A n \in b .. k : s[n] \notin Spaces
            BY <1>6 DEF Inside, Field
      <2>2. CASE k < i
            <3>1. k \in 1 .. i - 1 /\ \A n \in k .. i - 1 : s[n] \notin Spaces
                  BY <1>0, <1>3, <2>1, <2>2
            <3>2. QED  BY <2>1, <3>1 DEF IsWord
      <2>3. CASE k > j
            <3>1. k \in j + 1 .. Len(s) /\ \A n \in j + 1 .. k : s[n] \notin Spaces
                  BY <1>0, <2>1, <2>3
            <3>2. QED  BY <2>1, <3>1 DEF IsWord
      <2>4. QED  BY <1>0, <2>1, <2>2, <2>3
<1>7. Min(Inside(s, b)) = i /\ Max(Inside(s, b)) = j
      <2>1. PICK x : x = Min(Inside(s, b))
            OBVIOUS
      <2>2. PICK y : y = Max(Inside(s, b))
            OBVIOUS
      <2>3. /\ x \in i .. j /\ y \in i .. j
            /\ \A k \in Inside(s, b) : k \in x .. y
            BY <1>4, <1>5, <1>6, <2>1, <2>2, Ends
      <2>4. QED  BY <1>0, <1>5, <2>1, <2>2, <2>3
<1>8. QED  BY <1>4, <1>5, <1>7

\* The first place of the token at b, and its last.
Opens(s, b)  == Min(Inside(s, b))
Closes(s, b) == Max(Inside(s, b))

\* Tokenize cuts out what is left of each field, in the order of the fields.
LEMMA TokensOf ==
    ASSUME NEW s \in Seq(Chars)
    PROVE  /\ DOMAIN Tokenize(s) = {b \in Starts(s) : Inside(s, b) # {}}
           /\ \A b \in DOMAIN Tokenize(s) :
                /\ b \in Nat /\ Opens(s, b) \in 1 .. Len(s)
                /\ Closes(s, b) \in Opens(s, b) .. Len(s)
                /\ Tokenize(s)[b] = SubSeq(s, Opens(s, b), Closes(s, b))
                /\ Tokenize(s)[b] \in Seq(Chars)
                /\ Len(Tokenize(s)[b]) = Closes(s, b) - Opens(s, b) + 1
                /\ IsWord(s, Opens(s, b), Closes(s, b))
           /\ \A b, c \in DOMAIN Tokenize(s) : b < c => Opens(s, b) < Opens(s, c)
<1>1. ASSUME NEW b \in Starts(s), Inside(s, b) # {},
             NEW i, i = Opens(s, b), NEW j, j = Closes(s, b)
      PROVE  /\ b \in Nat /\ i \in 1 .. Len(s) /\ j \in i .. Len(s)
             /\ b <= i /\ \A n \in b .. i : s[n] \notin Spaces
             /\ Trim(s, Field(s, b)) = SubSeq(s, i, j)
             /\ SubSeq(s, i, j) \in Seq(Chars) /\ Len(SubSeq(s, i, j)) = j - i + 1
             /\ SubSeq(s, i, j) # << >>
             /\ IsWord(s, i, j)
      <2>1. /\ b \in Nat /\ i \in b .. j /\ j \in b .. Len(s) /\ b \in 1 .. Len(s)
            /\ i \in Inside(s, b) /\ Len(s) \in Nat
            BY <1>1, Ends DEF Opens, Closes
      <2>2. i \in 1 .. Len(s) /\ j \in i .. Len(s) /\ j \in 1 .. Len(s)
            BY <2>1
      <2>3. \A n \in b .. i : s[n] \notin Spaces
            BY <2>1 DEF Inside, Field
      <2>4. Trim(s, Field(s, b)) = SubSeq(s, i, j)
            BY <1>1 DEF Trim, Inside, Opens, Closes
      <2>5. SubSeq(s, i, j) \in Seq(Chars) /\ Len(SubSeq(s, i, j)) = j - i + 1
            BY <2>2, SubSeqProperties
      <2>6. SubSeq(s, i, j) # << >>
            BY <2>2, <2>5
      <2>7. IsWord(s, i, j)
            BY <1>1, TokenIsWord DEF Opens, Closes
      <2>8. QED  BY <2>1, <2>2, <2>3, <2>4, <2>5, <2>6, <2>7
<1>2. ASSUME NEW b \in Starts(s), Inside(s, b) = {}
      PROVE  Trim(s, Field(s, b)) = << >>
      BY <1>2 DEF Trim, Inside
<1>3. DOMAIN Tokenize(s) = {b \in Starts(s) : Inside(s, b) # {}}
      <2>1. \A b \in Starts(s) : Trim(s, Field(s, b)) # << >> <=> Inside(s, b) # {}
            BY <1>1, <1>2
      <2>2. QED  BY <2>1 DEF Tokenize
<1>4. \A b \in DOMAIN Tokenize(s) : Tokenize(s)[b] = Trim(s, Field(s, b))
      BY DEF Tokenize
<1>5. ASSUME NEW b \in DOMAIN Tokenize(s), NEW c \in DOMAIN Tokenize(s), b < c
      PROVE  Opens(s, b) < Opens(s, c)
      <2>1. PICK i : i = Opens(s, b)
            OBVIOUS
      <2>2. PICK k : k = Opens(s, c)
            OBVIOUS
      <2>3. /\ b \in Nat /\ i \in Nat /\ b <= i /\ \A n \in b .. i : s[n] \notin Spaces
            /\ c \in Nat /\ k \in Nat /\ c <= k
            BY <1>1, <1>3, <2>1, <2>2
      <2>4. s[c - 1] \in Spaces /\ c - 1 \in Nat
            BY <1>3, <1>5, <2>3 DEF Starts
      <2>5. i < c - 1
            BY <1>5, <2>3, <2>4
      <2>6. QED  BY <2>1, <2>2, <2>3, <2>4, <2>5
<1>6. QED  BY <1>1, <1>3, <1>4, <1>5

-----------------------------------------------------------------------------
(* What fires.                                                             *)

\* A token comes close to a keyword exactly if it is a typo of one.
LEMMA FiresOnTypos ==
    ASSUME NEW s \in Texts, NEW m, m.words \subseteq Keywords,
           NEW b \in DOMAIN Tokenize(s)
    PROVE  Fires(m, Tokenize(s)[b]) <=> IsTypo(m, s, Opens(s, b), Closes(s, b))
<1>1. PICK i : i = Opens(s, b)
      OBVIOUS
<1>2. PICK j : j = Closes(s, b)
      OBVIOUS
<1>3. /\ s \in Seq(Chars) /\ i \in 1 .. Len(s) /\ j \in i .. Len(s) /\ IsWord(s, i, j)
      /\ Tokenize(s)[b] = SubSeq(s, i, j) /\ Len(SubSeq(s, i, j)) = j - i + 1
      BY <1>1, <1>2, TokensOf, TextAssumption
<1>4. ASSUME NEW w \in m.words
      PROVE  ComesClose(m, SubSeq(s, i, j), w) <=>
               LET dist == Distance(SubSeq(s, i, j), Normalize(w))
               IN  /\ dist <= m.distance /\ dist <= 2
                   /\ dist >= 1 => j - i >= 4
                   /\ dist >= 2 => j - i >= 7
                   /\ ~Disputed(j - i + 1, dist)
      <2>1. PICK d \in Nat : d = Distance(SubSeq(s, i, j), Normalize(w))
            <3>1. i \in DOMAIN s /\ j \in DOMAIN s /\ w \in Keywords
                  BY <1>3
            <3>2. QED  BY <3>1, TextAssumption
      <2>2. PICK n \in Nat : n = j - i
            BY <1>3
      <2>3. d <= maxDistanceForRuneLen(n + 1) <=>
              /\ d <= 2 /\ (d >= 1 => n >= 4) /\ (d >= 2 => n >= 7)
              /\ ~Disputed(n + 1, d)
            BY DEF maxDistanceForRuneLen, Disputed
      <2>4. Len(SubSeq(s, i, j)) = n + 1
            BY <1>3, <2>2
      <2>5. QED  BY <2>1, <2>2, <2>3, <2>4 DEF ComesClose
<1>5. QED  BY <1>1, <1>2, <1>3, <1>4 DEF Fires, IsTypo

\* Where the fields of the tokens that fire start, as Match finds them.
Hitting(m, s) == {b \in DOMAIN Tokenize(s) : Fires(m, Tokenize(s)[b])}

\* The first token to fire is the first typo of the text.
LEMMA FirstTypo ==
    ASSUME NEW s \in Texts, NEW m, m.words \subseteq Keywords
    PROVE  /\ Hitting(m, s) = {} <=> Typos(m, s) = {}
           /\ Hitting(m, s) # {} =>
                LET word == Tokenize(s)[Min(Hitting(m, s))]
                    i    == Min(Typos(m, s))
                    j    == i + Len(word) - 1
                IN  /\ word \in Seq(Chars)
                    /\ IsTypo(m, s, i, j) /\ SubSeq(s, i, j) = word
<1>1. s \in Seq(Chars) /\ DOMAIN s = 1 .. Len(s) /\ Len(s) \in Nat
      BY TextAssumption
<1>2. ASSUME NEW b \in Hitting(m, s) PROVE Opens(s, b) \in Typos(m, s)
      <2>1. /\ Opens(s, b) \in 1 .. Len(s) /\ Closes(s, b) \in Opens(s, b) .. Len(s)
            /\ IsTypo(m, s, Opens(s, b), Closes(s, b))
            BY <1>1, TokensOf, FiresOnTypos DEF Hitting
      <2>2. QED  BY <1>1, <2>1 DEF Typos
<1>3. ASSUME NEW i \in Typos(m, s) PROVE \E b \in Hitting(m, s) : i = Opens(s, b)
      <2>1. PICK j \in i .. Len(s) : IsTypo(m, s, i, j)
            BY DEF Typos
      <2>2. i \in 1 .. Len(s) /\ IsWord(s, i, j)
            BY <1>1, <2>1 DEF Typos, IsTypo
      <2>3. PICK b \in Starts(s) : /\ Inside(s, b) # {}
                                   /\ Opens(s, b) = i /\ Closes(s, b) = j
            BY <1>1, <2>1, <2>2, WordIsToken DEF Opens, Closes
      <2>4. b \in DOMAIN Tokenize(s)
            BY <1>1, <2>3, TokensOf
      <2>5. QED  BY <2>1, <2>3, <2>4, FiresOnTypos DEF Hitting
<1>4. Hitting(m, s) = {} <=> Typos(m, s) = {}
      BY <1>2, <1>3
<1>5. ASSUME Hitting(m, s) # {}, NEW b, b = Min(Hitting(m, s)), NEW i, i = Min(Typos(m, s)),
             NEW word, word = Tokenize(s)[b]
      PROVE  /\ word \in Seq(Chars)
             /\ IsTypo(m, s, i, i + Len(word) - 1) /\ SubSeq(s, i, i + Len(word) - 1) = word
      <2>1. b \in Hitting(m, s) /\ \A c \in Hitting(m, s) : b <= c
            <3>1. Hitting(m, s) \subseteq Nat
                  BY <1>1, TokensOf DEF Hitting
            <3>2. QED  BY <1>5, <3>1, Least
      <2>2. b \in DOMAIN Tokenize(s)
            BY <2>1 DEF Hitting
      <2>3. PICK k : k = Opens(s, b)
            OBVIOUS
      <2>4. PICK j : j = Closes(s, b)
            OBVIOUS
      <2>5. /\ word \in Seq(Chars) /\ word = SubSeq(s, k, j) /\ Len(word) = j - k + 1
            /\ k \in 1 .. Len(s) /\ j \in k .. Len(s) /\ IsTypo(m, s, k, j)
            BY <1>1, <1>5, <2>1, <2>2, <2>3, <2>4, TokensOf, FiresOnTypos DEF Hitting
      <2>6. \A t \in Typos(m, s) : k <= t
            <3>1. ASSUME NEW c \in Hitting(m, s) PROVE k <= Opens(s, c)
                  <4>1. /\ c \in DOMAIN Tokenize(s) /\ b <= c /\ b \in Nat /\ c \in Nat
                        /\ Opens(s, c) \in 1 .. Len(s)
                        BY <1>1, <2>1, <2>2, TokensOf DEF Hitting
                  <4>2. b < c => k < Opens(s, c)
                        BY <1>1, <2>2, <2>3, <4>1, TokensOf
                  <4>3. QED  BY <1>1, <2>3, <2>5, <4>1, <4>2
            <3>2. QED  BY <1>3, <3>1
      <2>7. k = i
            <3>1. Typos(m, s) \subseteq Nat /\ k \in Typos(m, s)
                  BY <1>1, <1>2, <2>1, <2>3 DEF Typos
            <3>2. i \in Typos(m, s) /\ i <= k /\ k <= i /\ i \in Nat
                  BY <1>5, <2>6, <3>1, Least
            <3>3. QED  BY <1>1, <2>5, <3>2
      <2>8. i + Len(word) - 1 = j
            BY <1>1, <2>5, <2>7
      <2>9. QED  BY <2>5, <2>7, <2>8
<1>6. QED  BY <1>4, <1>5

\* The matchers that the bot works with: a sequence, with keywords of the file
\* no shorter than validate demands.
LEMMA LoadedMatcher ==
    ASSUME TypeOK, snap # None, NEW l \in Range(snap.listeners)
    PROVE  /\ DOMAIN l.matchers \subseteq Nat
           /\ \A n \in DOMAIN l.matchers : \A k \in 1 .. n : k \in DOMAIN l.matchers
           /\ \A n \in DOMAIN l.matchers :
                LET m == l.matchers[n]
                IN  /\ m.words \subseteq Keywords
                    /\ m.name \in UNION {Names(f.matchers) : f \in Written}
                    /\ m.kind = "mention" => m.words = {}
                    /\ \A w \in m.words : Len(w) >= MinRunes(m.distance)
<1>1. /\ file \in Written /\ snap = Load(file) /\ Load(file) # None
      /\ Accepts(file) /\ snap = Resolve(file)
      BY LoadedFrom
<1>2. PICK g \in Range(file.listeners) : DOMAIN l.matchers = DOMAIN g.matchers
      <2>1. PICK i \in DOMAIN file.listeners : l = ResolvedListener(file.listeners[i], file)
            BY <1>1 DEF Resolve, Range
      <2>2. QED  BY <2>1 DEF ResolvedListener, Range
<1>3. DOMAIN g.matchers = 1 .. Len(g.matchers) /\ Len(g.matchers) \in Nat
      <2>1. g.matchers \in Seq(Range(g.matchers))
            BY <1>1, FilesAssumption
      <2>2. QED  BY <2>1
<1>4. ASSUME NEW n \in DOMAIN l.matchers, NEW m, m = l.matchers[n]
      PROVE  /\ m.words \subseteq Keywords
             /\ m.name \in UNION {Names(f.matchers) : f \in Written}
             /\ m.kind = "mention" => m.words = {}
             /\ \A w \in m.words : Len(w) >= MinRunes(m.distance)
      <2>1. m \in Range(l.matchers)
            BY <1>4 DEF Range
      <2>2. PICK f \in Range(file.matchers) :
                m = ResolvedMatcher(f, file.clusters) /\ f.name = m.name
            BY <1>1, <2>1, MadeOf
      <2>3. m.name \in Names(file.matchers)
            BY <2>2 DEF Names, Range
      <2>4. CASE f.levenshtein = None
            BY <1>1, <2>2, <2>3, <2>4 DEF ResolvedMatcher
      <2>5. CASE f.levenshtein # None
            <3>1. m.words = f.levenshtein.words /\ m.distance = f.levenshtein.distance
                  /\ m.kind = "levenshtein"
                  BY <2>2, <2>5 DEF ResolvedMatcher, Block
            <3>2. \A w \in m.words : Len(w) >= MinRunes(m.distance)
                  BY <1>1, <2>5, <3>1, BlockOfFile DEF ValidMatcher
            <3>3. m.words \subseteq Keywords
                  BY <1>1, <2>5, <3>1 DEF Keywords
            <3>4. QED  BY <1>1, <2>3, <3>1, <3>2, <3>3
      <2>6. QED  BY <2>4, <2>5
<1>5. /\ DOMAIN l.matchers \subseteq Nat
      /\ \A n \in DOMAIN l.matchers : \A k \in 1 .. n : k \in DOMAIN l.matchers
      BY <1>2, <1>3
<1>6. QED  BY <1>4, <1>5

\* Match, with matchers such as these, is as a reader would have it.
LEMMA MatchIsFirst ==
    ASSUME NEW s \in Texts, NEW mentioned \in BOOLEAN, NEW matchers,
           DOMAIN matchers \subseteq Nat,
           \A n \in DOMAIN matchers : \A k \in 1 .. n : k \in DOMAIN matchers,
           \A n \in DOMAIN matchers :
              /\ matchers[n].words \subseteq Keywords
              /\ matchers[n].name \in UNION {Names(f.matchers) : f \in Written}
    PROVE  PointsAt(Match(s, mentioned, matchers), s, mentioned, matchers)
<1> DEFINE hits == {n \in DOMAIN matchers : Reason(matchers[n], s, mentioned)}
           result == Match(s, mentioned, matchers)
<1>1. \A n \in DOMAIN matchers : Hitting(matchers[n], s) = {} <=> Typos(matchers[n], s) = {}
      BY FirstTypo
<1>2. \A n \in DOMAIN matchers :
        Reason(matchers[n], s, mentioned) <=>
          IF matchers[n].kind = "mention" THEN mentioned
                                            ELSE Hitting(matchers[n], s) # {}
      BY <1>1 DEF Reason
<1>3. hits = {n \in DOMAIN matchers :
                IF matchers[n].kind = "mention" THEN mentioned
                ELSE {b \in DOMAIN Tokenize(s) : Fires(matchers[n], Tokenize(s)[b])} # {}}
      BY <1>2 DEF Hitting
<1>4. CASE hits = {}
      <2>1. result = None
            BY <1>3, <1>4 DEF Match
      <2>2. QED  BY <1>4, <2>1 DEF PointsAt
<1>5. CASE hits # {}
      <2>1. PICK n \in hits : n = Min(hits) /\ \A k \in hits : n <= k
            <3>1. hits \subseteq Nat
                  OBVIOUS
            <3>2. QED  BY <1>5, <3>1, Least
      <2>2. PICK m : m = matchers[n]
            OBVIOUS
      <2>3. result = [matcher |-> m.name,
                      word    |-> IF m.kind = "mention" THEN "@mention"
                                  ELSE Tokenize(s)[Min(Hitting(m, s))]]
            BY <1>3, <1>5, <2>1, <2>2 DEF Match, Hitting
      <2>4. /\ n \in DOMAIN matchers /\ n \in Nat /\ Reason(m, s, mentioned)
            /\ m.words \subseteq Keywords
            /\ m.name \in UNION {Names(f.matchers) : f \in Written}
            BY <2>1, <2>2
      <2>5. \A k \in 1 .. n - 1 : ~Reason(matchers[k], s, mentioned)
            <3>1. ASSUME NEW k \in 1 .. n - 1 PROVE k \notin hits /\ k \in DOMAIN matchers
                  <4>1. k \in 1 .. n /\ ~(n <= k)
                        BY <2>4
                  <4>2. QED  BY <2>1, <2>4, <4>1
            <3>2. QED  BY <3>1
      <2>6. m.kind # "mention" =>
              LET i == Min(Typos(m, s))
                  j == i + Len(result.word) - 1
              IN  /\ result.word \in Seq(Chars)
                  /\ IsTypo(m, s, i, j) /\ SubSeq(s, i, j) = result.word
            <3>1. ASSUME m.kind # "mention"
                  PROVE  /\ result.word = Tokenize(s)[Min(Hitting(m, s))]
                         /\ Hitting(m, s) # {}
                  BY <1>1, <2>2, <2>3, <2>4, <3>1 DEF Reason
            <3>2. QED  BY <2>4, <3>1, FirstTypo
      <2>7. result \in Results
            <3>1. m.kind = "mention" => result.word = "@mention"
                  BY <2>3
            <3>2. result.word \in Seq(Chars) \cup {"@mention"}
                  BY <2>6, <3>1
            <3>3. QED  BY <2>3, <2>4, <3>2 DEF Results
      <2>8. result # None
            BY <2>7, TextAssumption
      <2>9. QED  BY <2>2, <2>3, <2>4, <2>5, <2>6, <2>8 DEF PointsAt
<1>6. QED  BY <1>4, <1>5

\* A process that opens the session has loaded a file.
LEMMA OpenLoaded == Spec => [](main = "open" => snap # None)
<1>1. Init => (main = "open" => snap # None)
      BY DEF Init
<1>2. (main = "open" => snap # None) /\ [Next]_vars => (main = "open" => snap # None)'
      <2> USE DEF configVars, mainVars, stopVars, adapterVars, sessionVars, eventVars
      <2>1. CASE Main \/ UNCHANGED vars
            BY <2>1 DEF Main, LoadConfig, Prepare, Preparing, After, NewClient, ShowQR,
                        Connect, StartFails, Identify, Shutdown, Disconnect, Close,
                        ReturnFromRun, Exit, vars
      <2>2. CASE Signal \/ Kill \/ Restart \/ Pair \/ Drop \/ Reconnect \/ OnSessionEnd
                 \/ Forward \/ Decide \/ ActorReturns
            BY <2>2 DEF Signal, Kill, Exit, Restart, Fresh, Pair, Drop, Reconnect, Session,
                        OnSessionEnd, Forward, Decide, ActorReturns
      <2>3. CASE \/ \E m \in Messages : Receive(m)
                 \/ \E event \in {LoggedOut, StreamReplaced} : EndSession(event)
            BY <2>3 DEF Receive, EndSession, Dispatch
      <2>4. QED  BY <2>1, <2>2, <2>3 DEF Next
<1>3. QED  BY <1>1, <1>2, PTL DEF Spec

(* On any text and with any matchers, Match fires what a reader would      *)
(* point at: the first matcher with a mention or a typo of its keywords,   *)
(* and the first word of the text that is one (matcher.go:48-117), the     *)
(* disputed words being none.                                              *)
THEOREM MatchPointsAtWords == Spec => []MatchesWords
<1>1. TypeOK /\ (main = "open" => snap # None) => MatchesWords
      <2> SUFFICES ASSUME TypeOK, snap # None, NEW l \in Range(snap.listeners),
                          NEW mentioned \in BOOLEAN, NEW s \in Texts
                   PROVE  PointsAt(Match(s, mentioned, l.matchers), s, mentioned,
                                   l.matchers)
          BY DEF MatchesWords, Texts
      <2>1. QED  BY LoadedMatcher, MatchIsFirst
<1>2. QED  BY <1>1, TypeCorrect, OpenLoaded, PTL

(* Every typo that validate means to allow fires, whatever the keywords:   *)
(* the lengths it demands are those that Match goes by (load.go:90-102,    *)
(* matcher.go:49-60), but for two edits on eight runes.                    *)
THEOREM TyposFire == Spec => []TyposTolerated
<1>1. TypeOK /\ (main = "open" => snap # None) => TyposTolerated
      <2> SUFFICES ASSUME TypeOK, snap # None, NEW m \in LoadedMatchers,
                          m.distance \in 0 .. 2, NEW w \in m.words, NEW t \in Tokens,
                          NEW d, d = Distance(t, Normalize(w)),
                          Len(t) >= Len(w), d <= m.distance, ~Disputed(Len(t), d)
                   PROVE  Match(t, FALSE, <<m>>) # None
          BY DEF TyposTolerated
      <2>1. PICK l \in Range(snap.listeners) : \E n \in DOMAIN l.matchers : m = l.matchers[n]
            BY DEF LoadedMatchers, Range
      <2>2. /\ m.words \subseteq Keywords /\ m.kind # "mention"
            /\ m.name \in UNION {Names(f.matchers) : f \in Written}
            /\ Len(w) >= MinRunes(m.distance)
            BY <2>1, LoadedMatcher
      <2>3. /\ t \in Texts /\ t \in Seq(Chars) /\ Len(t) \in Nat /\ t # << >>
            /\ Len(w) \in Nat /\ IsWord(t, 1, Len(t))
            BY <2>2, TextAssumption DEF Texts
      <2>4. 1 \in 1 .. Len(t) /\ Len(t) \in 1 .. Len(t) /\ SubSeq(t, 1, Len(t)) = t
            BY <2>3
      <2>5. d \in Nat
            <3>1. 1 \in DOMAIN t /\ Len(t) \in DOMAIN t
                  BY <2>3, <2>4
            <3>2. Distance(SubSeq(t, 1, Len(t)), Normalize(w)) \in Nat
                  BY <2>2, <2>3, <3>1, TextAssumption
            <3>3. QED  BY <2>4, <3>2
      <2>6. IsTypo(m, t, 1, Len(t))
            <3>1. /\ d <= 2 /\ (d >= 1 => Len(t) - 1 >= 4) /\ (d >= 2 => Len(t) - 1 >= 7)
                  /\ ~Disputed(Len(t) - 1 + 1, d)
                  <4>1. MinRunes(1) = 5 /\ MinRunes(2) = 8
                        BY DEF MinRunes
                  <4>2. m.distance = 0 \/ m.distance = 1 \/ m.distance = 2
                        OBVIOUS
                  <4>3. PICK a \in Nat, c \in Nat : /\ a = Len(t) /\ c = Len(w) /\ a >= c
                                                    /\ Len(t) - 1 + 1 = Len(t)
                        BY <2>3
                  <4>4. CASE m.distance = 0
                        BY <2>5, <4>3, <4>4
                  <4>5. CASE m.distance = 1
                        BY <2>2, <2>5, <4>1, <4>3, <4>5
                  <4>6. CASE m.distance = 2
                        BY <2>2, <2>5, <4>1, <4>3, <4>6
                  <4>7. QED  BY <4>2, <4>4, <4>5, <4>6
            <3>2. QED  BY <2>3, <2>4, <3>1 DEF IsTypo
      <2>7. Reason(m, t, FALSE)
            <3>1. 1 \in Typos(m, t)
                  BY <2>3, <2>4, <2>6 DEF Typos
            <3>2. QED  BY <2>2, <3>1 DEF Reason
      <2>8. PICK one : one = <<m>> /\ DOMAIN one = {1} /\ one[1] = m
            <3>1. \A x : x = <<m>> => DOMAIN x = {1} /\ x[1] = m
                  OBVIOUS
            <3>2. QED  BY <3>1
      <2>9. PointsAt(Match(t, FALSE, one), t, FALSE, one)
            <3>1. DOMAIN one \subseteq Nat /\ \A n \in DOMAIN one : \A k \in 1 .. n : k = 1
                  BY <2>8
            <3>2. QED  BY <2>2, <2>3, <2>8, <3>1, MatchIsFirst
      <2>10. Match(t, FALSE, one) # None
            BY <2>7, <2>8, <2>9 DEF PointsAt
      <2>11. QED  BY <2>8, <2>10
<1>2. QED  BY <1>1, TypeCorrect, OpenLoaded, PTL
=============================================================================
