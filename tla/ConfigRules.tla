----------------------------- MODULE ConfigRules -----------------------------
(***************************************************************************)
(* internal/config/load.go and config.go: which files Load accepts and     *)
(* what it makes of them.  A file is a record of what the YAML says; a     *)
(* keyword is a sequence of characters, one for each rune.                 *)
(***************************************************************************)
EXTENDS Integers, Sequences, Functions

CONSTANTS None,               \* nil, an empty optional field, no file
          Unreadable,         \* a file that does not decode
          Levels,             \* what parseLogLevel knows
          Zones,              \* what time.LoadLocation knows
          Second,             \* time.Second, in units of time.Duration
          Half,               \* an int and a time.Duration are from -Half to Half - 1
          DefaultMatcher,     \* default cooldowns, in seconds
          DefaultUser

-----------------------------------------------------------------------------
(* Durations.                                                              *)

\* A signed integer keeps the low bits of a result that does not fit.
Wrapped(n) == ((n + Half) % (2 * Half)) - Half

\* Mutation of Asked: zero seconds are taken as they are.
Asked_zero(sec, default) == IF sec < 0 THEN default ELSE sec

\* Seconds, or the default if there are none.
Asked(sec, default) == IF sec <= 0 THEN default ELSE sec

resolveCooldown(sec, default) == Wrapped(Asked(sec, default) * Second)

-----------------------------------------------------------------------------
(* validate.                                                               *)

Names(seq) == {seq[i].name : i \in DOMAIN seq}

ByName(seq, name) == seq[CHOOSE i \in DOMAIN seq : seq[i].name = name]

\* Mutation of NamesDistinct: a repeated name is taken for the first one.
NamesDistinct_never(seq) == TRUE

NamesDistinct(seq) ==
    \A i, j \in DOMAIN seq : seq[i].name = seq[j].name => i = j

\* Mutation of MinRunes: four runes are enough for distance 1.
MinRunes_four(distance) == CASE distance = 1 -> 4
                             [] distance = 2 -> 8
                             [] OTHER        -> 0

\* The shortest keyword, in runes as written, for a distance.
MinRunes(distance) == CASE distance = 1 -> 5
                        [] distance = 2 -> 8
                        [] OTHER        -> 0

\* A matcher is a levenshtein block or a mention block.
Block(m) == IF m.levenshtein # None THEN m.levenshtein ELSE m.mention

ValidMatcher(m, clusters) ==
    /\ (m.levenshtein = None) # (m.mention = None)
    /\ m.levenshtein # None =>
         /\ m.levenshtein.words # {}
         /\ \A w \in m.levenshtein.words :
              Len(w) >= MinRunes(m.levenshtein.distance)
    /\ Block(m).cluster \in Names(clusters)

ValidListener(l, matchers) ==
    /\ l.server = "g.us"
    /\ l.matchers # << >>
    /\ Range(l.matchers) \subseteq Names(matchers)

\* The checks of validate; it fails if one of them does.
Accepts(cfg) ==
    /\ NamesDistinct(cfg.clusters)
    /\ NamesDistinct(cfg.matchers)
    /\ \A m \in Range(cfg.matchers) : ValidMatcher(m, cfg.clusters)
    /\ cfg.listeners # << >>
    /\ \A l \in Range(cfg.listeners) : ValidListener(l, cfg.matchers)
    /\ cfg.zone \in Zones \cup {None}
    /\ cfg.level \in Levels \cup {None}

\* A matcher with its cluster's answers and its cooldown.
ResolvedMatcher(m, clusters) ==
    LET block == Block(m)
        fuzzy == m.levenshtein # None
    IN  [name     |-> m.name,
         kind     |-> IF fuzzy THEN "levenshtein" ELSE "mention",
         words    |-> IF fuzzy THEN block.words ELSE {},
         distance |-> IF fuzzy THEN block.distance ELSE 0,
         answers  |-> ByName(clusters, block.cluster).answers,
         cooldown |-> resolveCooldown(block.cooldownSec, DefaultMatcher)]

ResolvedListener(l, cfg) ==
    [group      |-> l.group,
     allowAdmin |-> l.allowAdmin,
     matchers   |-> [i \in DOMAIN l.matchers |->
                       ResolvedMatcher(ByName(cfg.matchers, l.matchers[i]),
                                       cfg.clusters)]]

Resolve(cfg) ==
    [listeners    |-> [i \in DOMAIN cfg.listeners |->
                         ResolvedListener(cfg.listeners[i], cfg)],
     zone         |-> cfg.zone,
     level        |-> cfg.level,
     userCooldown |-> resolveCooldown(cfg.userCooldownSec, DefaultUser)]

\* The snapshot, or None for an error.
Load(file) ==
    IF file \notin {None, Unreadable} /\ Accepts(file) THEN Resolve(file) ELSE None
=============================================================================
