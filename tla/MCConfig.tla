------------------------------ MODULE MCConfig ------------------------------
(***************************************************************************)
(* Configuration files and texts for TLC.  All keywords are runs of one    *)
(* letter, so that their distance to a token has a closed form.  Durations *)
(* are integers of 6 bits and a second is 4 of their units, so that 8      *)
(* seconds no longer fit.                                                  *)
(***************************************************************************)
EXTENDS Integers, Sequences, FiniteSetsExt

CONSTANTS None, g1, g2, n1, n2, c1, c2, a1, a2

\* The letter x is also written X, or as b with the mark m.
Letters == {"x", "X", "y", "b", "m"}
MCLower    == [c \in Letters \cup {" ", "."} |-> IF c = "X" THEN "x" ELSE c]
MCComposed == [pair \in {<<"b", "m">>} |-> "x"]

\* A run of x, and one of y.
Text(x, y) == [i \in 1 .. x + y |-> IF i <= x THEN "x" ELSE "y"]

\* The edits between any token and a keyword, which is a run of x.
MCDistance(token, keyword) ==
    LET n == Len(keyword)
        x == Cardinality({i \in DOMAIN token : token[i] = "x"})
    IN  Max({Len(token), n}) - Min({x, n})

\* A keyword of x runes once it is normalised: some of them capital, and some
\* written as two runes.
Word(x, extra) ==
    [i \in 1 .. x - extra |-> IF i = 1 THEN "X" ELSE "x"]
    \o [i \in 1 .. 2 * extra |-> IF i % 2 = 1 THEN "b" ELSE "m"]

Fuzzy(name, words, distance, cluster, sec) ==
    [name |-> name, mention |-> None,
     levenshtein |-> [words |-> words, distance |-> distance,
                      cluster |-> cluster, cooldownSec |-> sec]]

Mention(name, cluster, sec) ==
    [name |-> name, levenshtein |-> None,
     mention |-> [cluster |-> cluster, cooldownSec |-> sec]]

Cluster(name, answers) == [name |-> name, answers |-> answers]

Listens(group, matchers) ==
    [group |-> group, server |-> "g.us", allowAdmin |-> FALSE,
     matchers |-> matchers]

Plain == [clusters        |-> <<Cluster(c1, {a1})>>,
          matchers        |-> <<Fuzzy(n1, {Word(5, 0)}, 1, c1, 0)>>,
          listeners       |-> <<Listens(g1, <<n1>>)>>,
          zone            |-> None,
          level           |-> None,
          userCooldownSec |-> 0]
=============================================================================
