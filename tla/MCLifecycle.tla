----------------------------- MODULE MCLifecycle -----------------------------
(***************************************************************************)
(* A small instance of Lifecycle for TLC: files that differ from a plain   *)
(* one in what validate and Match look at, and messages that mention and   *)
(* quote the bot in either of its forms.                                   *)
(***************************************************************************)
EXTENDS Lifecycle

CONSTANTS g1, g2, n1, n2, c1, c2, a1, a2

C == INSTANCE MCConfig

MCLower          == C!MCLower
MCComposed       == C!MCComposed
MCDistance(s, t) == C!MCDistance(s, t)

MCTokens == {C!Text(x, y) : x \in 2 .. 10, y \in 0 .. 2}

\* Words alone, between punctuation, after another, and broken by punctuation.
MCBodies ==
    LET some == {C!Text(4, 0), C!Text(5, 1), C!Text(9, 2)}
    IN  {<< >>, <<".">>, <<".", " ">>, C!Word(5, 1)}
        \cup {<<".">> \o t \o <<".", ".">> : t \in MCTokens}
        \cup {<<"y", " ", " ">> \o t : t \in some}
        \cup {t \o <<" ">> \o u : t \in some, u \in some}
        \cup {t \o <<".", "y">> : t \in some}

With(matcher) == [C!Plain EXCEPT !.matchers = <<matcher>>]

\* Keywords of every length, some shortened by normalising, at every distance.
KeywordFiles == {With(C!Fuzzy(n1, {C!Word(x, extra)}, distance, c1, 0)) :
                   x \in {4, 5, 8, 9}, extra \in {0, 1}, distance \in 0 .. 3}

\* Seconds that are missing, negative, too many for a duration.
CooldownFiles == {[With(C!Mention(n1, c1, sec)) EXCEPT !.userCooldownSec = sec] :
                    sec \in {-1, 0, 2, 7, 8, 20}}

\* Names that are repeated or missing, blocks that are, and empty lists.
ReferenceFiles ==
    LET two   == <<C!Mention(n1, c1, 0), C!Mention(n2, c2, 0)>>
        plain == [C!Plain EXCEPT !.matchers = two,
                    !.clusters = <<C!Cluster(c1, {a1}), C!Cluster(c2, {a2})>>,
                    !.listeners = <<C!Listens(g1, <<n1, n2>>), C!Listens(g2, <<n2>>)>>]
    IN  {plain,
         [plain EXCEPT !.clusters = <<C!Cluster(c1, {a1}), C!Cluster(c1, {a2}),
                                      C!Cluster(c2, {a2})>>],
         [plain EXCEPT !.matchers = two \o <<C!Mention(n1, c2, 0)>>],
         [plain EXCEPT !.clusters = <<C!Cluster(c1, {a1})>>],
         [plain EXCEPT !.clusters = <<C!Cluster(c1, {}), C!Cluster(c2, {a2})>>],
         [plain EXCEPT !.matchers = <<C!Mention(n1, c1, 0)>>],
         [plain EXCEPT !.listeners = <<C!Listens(g1, <<n1>>), C!Listens(g1, <<n2>>)>>],
         [plain EXCEPT !.listeners = <<C!Listens(g1, << >>)>>],
         [plain EXCEPT !.listeners = << >>],
         [plain EXCEPT !.listeners[1].server = "s.whatsapp.net"],
         [plain EXCEPT !.matchers[1].mention = None],
         [plain EXCEPT !.matchers[1].levenshtein =
                         [words |-> {C!Word(5, 0)}, distance |-> 0,
                          cluster |-> c1, cooldownSec |-> 0]],
         [plain EXCEPT !.matchers[1] = C!Fuzzy(n1, {}, 1, c1, 0)],
         [plain EXCEPT !.zone = "UTC"], [plain EXCEPT !.zone = "Mars"],
         [plain EXCEPT !.level = "debug"], [plain EXCEPT !.level = "loud"],
         Unreadable, None}

\* Listeners that try several matchers, in either order.
OrderFiles ==
    LET two == {<<C!Fuzzy(n1, {C!Word(5, 0)}, 1, c1, 0), C!Mention(n2, c1, 0)>>,
                <<C!Fuzzy(n1, {C!Word(9, 1), C!Word(4, 0)}, 2, c1, 0),
                  C!Fuzzy(n2, {C!Word(5, 0), C!Word(8, 0)}, 1, c1, 0)>>,
                <<C!Fuzzy(n1, {C!Word(9, 1)}, 2, c1, 0),
                  C!Fuzzy(n2, {C!Word(4, 0), C!Word(8, 0)}, 0, c1, 0)>>}
    IN  {[C!Plain EXCEPT !.matchers = pair, !.listeners = <<C!Listens(g1, order)>>] :
           pair \in two, order \in {<<n1, n2>>, <<n2, n1>>}}

MCFiles == OrderFiles \cup KeywordFiles \cup CooldownFiles \cup ReferenceFiles

OneFile == {C!Plain}

MCMessages == {[mentions |-> {"jid"}, quotes |-> None],
               [mentions |-> {"lid"}, quotes |-> "jid"],
               [mentions |-> {}, quotes |-> "lid"]}
=============================================================================
