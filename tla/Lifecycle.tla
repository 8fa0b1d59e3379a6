------------------------------ MODULE Lifecycle ------------------------------
(***************************************************************************)
(* One process after another: cmd/bot and internal/app from the first load *)
(* of the configuration to the exit, with Adapter.Start, Disconnect and    *)
(* onEvent of internal/whatsappadapter.  whatsmeow and the signals are the *)
(* environment; so is whoever starts the bot again and edits the file      *)
(* meanwhile.                                                              *)
(*                                                                         *)
(* The main goroutine starts everything in order and waits for the signal. *)
(* whatsmeow calls onEvent for one event at a time; a call that is not     *)
(* over keeps client.Disconnect waiting (inbound.go:20-23).                *)
(***************************************************************************)
EXTENDS MatcherRules

CONSTANTS Files,      \* configuration files to start with
          Tokens,     \* words of messages, normalised
          Bodies,     \* texts of messages
          Messages,   \* messages that arrive
          LoggedOut, StreamReplaced,  \* the events that end a session
          Capacity,   \* capacity of inCh (64 in app.go)
          MaxStarts   \* bound on the processes, for TLC only

ASSUME LifecycleAssumption ==
    /\ Capacity \in Nat \ {0} /\ MaxStarts \in Nat \ {0}
    /\ None \notin {"jid", "lid", "other", "success", "error", "killed"}
    /\ \A m \in Messages : /\ m.mentions \subseteq {"jid", "lid"}
                           /\ m.quotes \in {None, "jid", "lid", "other"}

VARIABLES file,      \* the configuration file
          starts,    \* how many processes there have been
          main,      \* where the main goroutine is
          exit,      \* how the process ended, if it has
          snap,      \* the snapshot app.Run has loaded
          signal,    \* the context of main is cancelled
          stopping,  \* Adapter.cancel was called: Start's context is cancelled
          db,        \* Adapter.db
          link,      \* the connection of the client
          paired,    \* the device has an identity: kept in the database
          knew,      \* history: it had one when this process connected
          botJID, botLID,  \* of the adapter; None is the empty string
          handler,   \* the event onEvent is working on
          inCh,      \* inbound channel
          actor,     \* the pipeline actor runs
          ended      \* history: LoggedOut was handled by this process

configVars  == <<file, snap>>
mainVars    == <<main, exit, starts>>
stopVars    == <<signal, stopping>>
adapterVars == <<db, botJID, botLID>>
sessionVars == <<link, paired, knew>>
eventVars   == <<handler, inCh, ended>>
vars == <<configVars, mainVars, stopVars, adapterVars, sessionVars, eventVars, actor>>

-----------------------------------------------------------------------------
Alive == main # "exited"

\* What a process starts with.
Fresh(f) == /\ file' = f /\ snap' = None
            /\ main' = "load" /\ exit' = None
            /\ signal' = FALSE /\ stopping' = FALSE
            /\ db' = "none" /\ botJID' = None /\ botLID' = None
            /\ link' = "down" /\ knew' = FALSE
            /\ handler' = None /\ inCh' = << >> /\ ended' = FALSE
            /\ actor' = FALSE

Init == /\ file \in Files /\ snap = None
        /\ main = "load" /\ exit = None /\ starts = 1
        /\ signal = FALSE /\ stopping = FALSE
        /\ db = "none" /\ botJID = None /\ botLID = None
        /\ link = "down" /\ knew = FALSE
        /\ paired \in BOOLEAN
        /\ handler = None /\ inCh = << >> /\ ended = FALSE
        /\ actor = FALSE

Restart == /\ ~Alive /\ starts < MaxStarts
           /\ starts' = starts + 1
           /\ \E f \in Files : Fresh(f)
           /\ UNCHANGED paired

\* The process ends; its goroutines end with it.
Exit(how) == main' = "exited" /\ exit' = how /\ UNCHANGED starts

-----------------------------------------------------------------------------
(* app.Run up to Start.                                                    *)

LoadConfig ==
    /\ main = "load"
    /\ snap' = Load(file)
    /\ \/ snap' = None /\ Exit("error") /\ UNCHANGED actor
       \/ snap' # None /\ main' = "open" /\ actor' = TRUE /\ UNCHANGED <<exit, starts>>
    /\ UNCHANGED <<file, stopVars, adapterVars, sessionVars, eventVars>>

-----------------------------------------------------------------------------
(* Adapter.Start.                                                          *)

\* The steps that can fail on the way to a client.
Preparing == {"open", "check", "upgrade", "device"}
After == [open |-> "check", check |-> "upgrade", upgrade |-> "device",
          device |-> "client"]

\* The step at hand succeeds, unless its context is cancelled already.
Prepare ==
    /\ main \in Preparing
    /\ main = "open" \/ ~signal
    /\ main' = After[main]
    /\ db' = "open"
    /\ UNCHANGED <<exit, starts, configVars, stopVars, botJID, botLID, sessionVars,
                   eventVars, actor>>

\* Client and event handler; without an identity the QR codes come first.
NewClient ==
    /\ main = "client"
    /\ main' = IF paired THEN "connect" ELSE "qr"
    /\ UNCHANGED <<exit, starts, configVars, stopVars, adapterVars, sessionVars,
                   eventVars, actor>>

ShowQR ==
    /\ main = "qr"
    /\ main' = "connect"
    /\ UNCHANGED <<exit, starts, configVars, stopVars, adapterVars, sessionVars,
                   eventVars, actor>>

Connect ==
    /\ main = "connect"
    /\ main' = "identify"
    /\ link' = "up" /\ knew' = paired
    /\ UNCHANGED <<exit, starts, configVars, stopVars, adapterVars, paired, eventVars,
                   actor>>

\* A step fails: the database is closed, the context cancelled, and the error
\* goes to main, which exits with it.
StartFails ==
    /\ main \in Preparing \cup {"qr", "connect"}
    /\ db' = IF main = "open" THEN "none" ELSE "closed"
    /\ stopping' = TRUE
    /\ Exit("error")
    /\ UNCHANGED <<configVars, signal, botJID, botLID, sessionVars, eventVars, actor>>

\* Mutation of Identify: the identity keeps its device suffix.
Identify_withDevice ==
    /\ main = "identify"
    /\ botJID' = IF paired THEN "jid:device" ELSE None
    /\ \E lid \in {None, "lid"} : botLID' = IF paired THEN lid ELSE None
    /\ main' = "wait"
    /\ UNCHANGED <<exit, starts, configVars, stopVars, db, sessionVars, eventVars, actor>>

\* The bot's identity, if it has one by now; an older session knows no LID.
Identify ==
    /\ main = "identify"
    /\ botJID' = IF paired THEN "jid" ELSE None
    /\ \E lid \in {None, "lid"} : botLID' = IF paired THEN lid ELSE None
    /\ main' = "wait"
    /\ UNCHANGED <<exit, starts, configVars, stopVars, db, sessionVars, eventVars, actor>>

-----------------------------------------------------------------------------
(* The end of app.Run: the signal, then the client, then the database.     *)

Signal == /\ Alive /\ ~signal
          /\ signal' = TRUE
          /\ UNCHANGED <<configVars, mainVars, stopping, adapterVars, sessionVars,
                         eventVars, actor>>

Shutdown ==
    /\ main = "wait" /\ signal
    /\ main' = "disconnect"
    /\ UNCHANGED <<exit, starts, configVars, stopVars, adapterVars, sessionVars,
                   eventVars, actor>>

\* Mutation of Disconnect: the client does not wait for its handler.
Disconnect_atOnce ==
    /\ main = "disconnect"
    /\ link' = "down"
    /\ main' = "close"
    /\ UNCHANGED <<exit, starts, configVars, stopVars, adapterVars, paired, knew,
                   eventVars, actor>>

\* client.Disconnect waits until onEvent has returned.
Disconnect ==
    /\ main = "disconnect" /\ handler = None
    /\ link' = "down"
    /\ main' = "close"
    /\ UNCHANGED <<exit, starts, configVars, stopVars, adapterVars, paired, knew,
                   eventVars, actor>>

Close ==
    /\ main = "close"
    /\ db' = "closed"
    /\ main' = "return"
    /\ UNCHANGED <<exit, starts, configVars, stopVars, botJID, botLID, sessionVars,
                   eventVars, actor>>

ReturnFromRun ==
    /\ main = "return"
    /\ Exit("success")
    /\ UNCHANGED <<configVars, stopVars, adapterVars, sessionVars, eventVars, actor>>

\* The process is killed.
Kill == /\ Alive
        /\ Exit("killed")
        /\ UNCHANGED <<configVars, stopVars, adapterVars, sessionVars, eventVars, actor>>

Main == \/ LoadConfig \/ Prepare \/ NewClient \/ ShowQR \/ Connect \/ StartFails
        \/ Identify \/ Shutdown \/ Disconnect \/ Close \/ ReturnFromRun

-----------------------------------------------------------------------------
(* whatsmeow: pairing, losing the connection and finding it again, events. *)

Session(nextLink, nextPaired) ==
    /\ Alive
    /\ link' = nextLink /\ paired' = nextPaired
    /\ UNCHANGED <<configVars, mainVars, stopVars, adapterVars, knew, eventVars, actor>>

Pair      == link = "up" /\ ~paired /\ Session("up", TRUE)
Drop      == link = "up" /\ handler = None /\ Session("lost", paired)
Reconnect == link = "lost" /\ Session("up", paired)

\* isBotMentioned and extractQuotedText: what the pipeline learns of m.
Inbound(m) == [msg       |-> m,
               mentioned |-> m.mentions \cap {botJID, botLID} # {},
               quoted    |-> IF m.quotes = botJID THEN None ELSE m.quotes,
               settled   |-> main = "wait" /\ knew]

Dispatch(event) ==
    /\ Alive /\ link = "up" /\ handler = None
    /\ handler' = event
    /\ UNCHANGED <<configVars, mainVars, stopVars, adapterVars, sessionVars, inCh,
                   ended, actor>>

Receive(m) == paired /\ Dispatch(Inbound(m))

\* LoggedOut or StreamReplaced: the session is over, and reconnecting too.
EndSession(event) == paired /\ Dispatch(event)

\* Mutation of OnSessionEnd: the handler calls Disconnect, which waits for it.
OnSessionEnd_disconnects ==
    /\ Alive /\ handler \in {LoggedOut, StreamReplaced}
    /\ handler = None
    /\ link' = "down" /\ db' = "closed"
    /\ UNCHANGED <<configVars, mainVars, stopVars, botJID, botLID, paired, knew,
                   eventVars, actor>>

\* onEvent: the session is over, and the context that Start derived is cancelled.
OnSessionEnd ==
    /\ Alive /\ handler \in {LoggedOut, StreamReplaced}
    /\ stopping' = TRUE
    /\ link' = "down"
    /\ paired' = (handler # LoggedOut)
    /\ ended' = (ended \/ handler = LoggedOut)
    /\ handler' = None
    /\ UNCHANGED <<configVars, mainVars, signal, adapterVars, knew, inCh, actor>>

\* The send waits for room, whatever any context says.
Forward ==
    /\ Alive /\ handler \notin {None, LoggedOut, StreamReplaced}
    /\ Len(inCh) < Capacity
    /\ inCh' = Append(inCh, handler)
    /\ handler' = None
    /\ UNCHANGED <<configVars, mainVars, stopVars, adapterVars, sessionVars, ended,
                   actor>>

-----------------------------------------------------------------------------
(* The pipeline actor: it works until its context, main's, is cancelled.   *)

Decide ==
    /\ Alive /\ actor /\ inCh # << >>
    /\ inCh' = Tail(inCh)
    /\ UNCHANGED <<configVars, mainVars, stopVars, adapterVars, sessionVars, handler,
                   ended, actor>>

ActorReturns ==
    /\ Alive /\ actor /\ signal
    /\ actor' = FALSE
    /\ UNCHANGED <<configVars, mainVars, stopVars, adapterVars, sessionVars, eventVars>>

-----------------------------------------------------------------------------
Next == \/ Main \/ Signal \/ Kill \/ Restart
        \/ Pair \/ Drop \/ Reconnect
        \/ \E m \in Messages : Receive(m)
        \/ \E event \in {LoggedOut, StreamReplaced} : EndSession(event)
        \/ OnSessionEnd \/ Forward
        \/ Decide \/ ActorReturns

\* Every goroutine goes on; nothing is assumed of signals, sessions, messages.
Fairness == /\ WF_vars(Main) /\ WF_vars(OnSessionEnd) /\ WF_vars(Forward)
            /\ WF_vars(Decide) /\ WF_vars(ActorReturns)

Spec == Init /\ [][Next]_vars /\ Fairness

-----------------------------------------------------------------------------
Inbounds == [msg : Messages, mentioned : BOOLEAN,
             quoted : {None, "jid", "lid", "other"}, settled : BOOLEAN]

(* Every variable holds a value of its type.                               *)
TypeOK ==
    /\ file \in Files /\ snap \in {None, Load(file)}
    /\ starts \in 1 .. MaxStarts
    /\ main \in Preparing \cup {"load", "client", "qr", "connect", "identify", "wait",
                              "disconnect", "close", "return", "exited"}
    /\ exit \in {None, "success", "error", "killed"} /\ (exit # None <=> ~Alive)
    /\ signal \in BOOLEAN /\ stopping \in BOOLEAN /\ ended \in BOOLEAN
    /\ db \in {"none", "open", "closed"}
    /\ link \in {"down", "up", "lost"}
    /\ paired \in BOOLEAN /\ knew \in BOOLEAN /\ actor \in BOOLEAN
    /\ botJID \in {None, "jid"} /\ botLID \in {None, "lid"}
    /\ handler \in {None, LoggedOut, StreamReplaced} \cup Inbounds
    /\ inCh \in Seq(Inbounds) /\ Len(inCh) <= Capacity

(* The database is closed under no client that still uses it, on any way   *)
(* through Start and Disconnect (app.go:86-90, client.go:211-221): neither *)
(* connected nor inside the handler.                                       *)
DatabaseOutlivesClient ==
    db = "closed" => link = "down" /\ handler = None

(* A process that knew its identity when it connected recognises itself    *)
(* once Start has returned (client.go:181-189, inbound.go:190-210, 250):   *)
(* mentions of its phone number are seen and quotations of itself are      *)
(* dropped.  Before that, or after a first pairing, they are not.          *)
RecognisesItself ==
    \A i \in DOMAIN inCh :
        inCh[i].settled =>
            /\ "jid" \in inCh[i].msg.mentions => inCh[i].mentioned
            /\ inCh[i].quoted # "jid"

\* The handler cannot put its message on inCh any more.
Wedged == handler \in Inbounds /\ ~actor /\ Len(inCh) = Capacity

(* SIGTERM ends the process (app.go:82-91), at whatever step of Start or   *)
(* in whatever event it comes, except that the handler may be stuck on a   *)
(* full inCh after the actor has returned, and Disconnect with it.         *)
StopsWhenTold == (signal /\ Alive) ~> (~Alive \/ Wedged)

-----------------------------------------------------------------------------
(* What the process works with once its configuration is loaded.           *)

LoadedMatchers == UNION {Range(l.matchers) : l \in Range(snap.listeners)}

Fits(sec) == sec * Second < Half

(* A reference in the file means one thing (load.go:46-54, 138-146): a     *)
(* matcher is the only one of its name, with the answers of the only       *)
(* cluster of the name it gives.                                           *)
ReferencesResolved ==
    snap # None =>
        \A m \in LoadedMatchers :
            \A f \in Range(file.matchers) :
                f.name = m.name =>
                    \A c \in Range(file.clusters) :
                        c.name = Block(f).cluster => m.answers = c.answers

(* Cooldowns are what the file asks for or the default, and positive, as   *)
(* long as the seconds fit a time.Duration (load.go:208-214).              *)
CooldownsAsAsked ==
    snap # None =>
        /\ \A m \in LoadedMatchers, f \in Range(file.matchers) :
             LET sec == Block(f).cooldownSec
             IN  (f.name = m.name /\ Fits(sec)) =>
                     /\ m.cooldown > 0
                     /\ sec > 0 => m.cooldown = sec * Second
        /\ Fits(file.userCooldownSec) => snap.userCooldown > 0

\* Where the documents and the code part: CONFIG-02, MATCH-05 and README.md:154
\* allow two edits from eight runes on, and so does validate; Match does from
\* nine on, as the comment at matcher.go:48-49 has it.
Disputed(runes, dist) == runes = 8 /\ dist = 2

(* The lengths validate demands go with the ones Match allows (load.go:    *)
(* 90-102, matcher.go:49-60): a token at least as long as a keyword and    *)
(* within its distance fires, if normalising does not shorten the keyword. *)
(* Disputed words are excused.                                             *)
TyposTolerated ==
    main = "open" =>
        \A m \in LoadedMatchers : m.distance \in 0 .. 2 =>
            \A w \in m.words, t \in Tokens :
                LET dist == Distance(t, Normalize(w))
                IN  (/\ Len(w) = Len(Normalize(w)) /\ Len(t) >= Len(w)
                     /\ dist <= m.distance)
                    => \/ Match(t, FALSE, <<m>>) # None
                       \/ Disputed(Len(t), dist)

\* Positions i to j of s are a word: whatever else there is in s, it is
\* punctuation, or there is a space in between.
IsWord(s, i, j) ==
    /\ \A k \in i .. j : s[k] \notin Spaces
    /\ {s[i], s[j]} \cap Puncts = {}
    /\ \A k \in 1 .. i - 1 : s[k] \in Puncts \/ \E n \in k .. i - 1 : s[n] \in Spaces
    /\ \A k \in j + 1 .. Len(s) :
         s[k] \in Puncts \/ \E n \in j + 1 .. k : s[n] \in Spaces

\* What is compared: characters, the texts and keywords made of them, and what
\* Match returns of them.
Chars    == DOMAIN Lower
Written  == Files \ {None, Unreadable}
Blocks(f) == (UNION {{m.levenshtein, m.mention} : m \in Range(f.matchers)}) \ {None}
Keywords == UNION {m.levenshtein.words :
                     m \in {x \in UNION {Range(f.matchers) : f \in Written} :
                              x.levenshtein # None}}
Texts    == Tokens \cup {Normalize(body) : body \in Bodies}
Results  == [matcher : UNION {Names(f.matchers) : f \in Written},
             word    : Seq(Chars) \cup {"@mention"}]

\* The numbers of a file are integers, its lists are sequences, and the defaults
\* of load.go are durations.
ASSUME FilesAssumption ==
    /\ Half \in Nat \ {0} /\ Second \in Nat \ {0}
    /\ \A sec \in {DefaultMatcher, DefaultUser} : sec \in Nat \ {0} /\ sec * Second < Half
    /\ \A f \in Written : /\ f.userCooldownSec \in Int
                          /\ \A block \in Blocks(f) : block.cooldownSec \in Int
                          /\ \A l \in Range(f.listeners) :
                               l.matchers \in Seq(Range(l.matchers))

\* Normalising gives texts, each of Tokens is a word, and ComputeDistance counts;
\* a Result is not nil.
ASSUME TextAssumption ==
    /\ None \notin Results
    /\ Texts \cup Keywords \subseteq Seq(Chars)
    /\ \A t \in Tokens : t # << >> /\ IsWord(t, 1, Len(t))
    /\ \A s \in Texts, w \in Keywords : \A i, j \in DOMAIN s :
         Distance(SubSeq(s, i, j), Normalize(w)) \in Nat

\* It is a typo of a keyword of m: no edits in a short word, one from five runes
\* on, two from eight, except where that is disputed.
IsTypo(m, s, i, j) ==
    /\ IsWord(s, i, j)
    /\ \E w \in m.words :
         LET dist == Distance(SubSeq(s, i, j), Normalize(w))
         IN  /\ dist <= m.distance /\ dist <= 2
             /\ dist >= 1 => j - i >= 4
             /\ dist >= 2 => j - i >= 7
             /\ ~Disputed(j - i + 1, dist)

\* Where in s there is one, and whether m has a reason to fire.
Typos(m, s) == {i \in DOMAIN s : \E j \in i .. Len(s) : IsTypo(m, s, i, j)}
Reason(m, s, mentioned) == IF m.kind = "mention" THEN mentioned ELSE Typos(m, s) # {}

\* The result is the first matcher with a reason, and the first word that is one.
PointsAt(result, s, mentioned, matchers) ==
    IF result = None THEN \A n \in DOMAIN matchers : ~Reason(matchers[n], s, mentioned)
    ELSE \E n \in DOMAIN matchers :
           /\ matchers[n].name = result.matcher
           /\ Reason(matchers[n], s, mentioned)
           /\ \A k \in 1 .. n - 1 : ~Reason(matchers[k], s, mentioned)
           /\ matchers[n].kind # "mention" =>
                LET i == Min(Typos(matchers[n], s))
                    j == i + Len(result.word) - 1
                IN  IsTypo(matchers[n], s, i, j) /\ SubSeq(s, i, j) = result.word

(* What fires is what a reader of matcher.go:48-65 would point at: the     *)
(* first matcher of the listener that is mentioned or has a typo in the    *)
(* text, with the first word that is one, at whatever distance validate    *)
(* lets pass.  Disputed words are none here: Match is silent on them,      *)
(* where MATCH-05 with CONFIG-02, and README.md:149-154, have it fire.     *)
MatchesWords ==
    main = "open" =>
        \A l \in Range(snap.listeners), body \in Bodies, mentioned \in BOOLEAN :
            LET s == Normalize(body)
            IN  PointsAt(Match(s, mentioned, l.matchers), s, mentioned, l.matchers)

-----------------------------------------------------------------------------
(* A claim of the documentation that the code does not keep.               *)

(* "On `events.LoggedOut`, bot logs ... and exits non-zero" (REQUIREMENTS, *)
(* SESSION-04): the process comes to an end.                               *)
LoggedOutEnds == ended ~> ~Alive
=============================================================================
