---------------------------- MODULE MatcherRules ----------------------------
(***************************************************************************)
(* internal/matcher: which matcher of a listener a text makes fire, and    *)
(* with which word of the text.  A text is a sequence of characters; what  *)
(* Unicode says of a character is given by constants.                      *)
(***************************************************************************)
EXTENDS ConfigRules, SequencesExt, FiniteSetsExt

CONSTANTS Spaces, Puncts,   \* unicode.IsSpace, unicode.Punct
          Lower,            \* strings.ToLower, character by character
          Composed,         \* what NFC makes of a character and the next one
          Distance(_, _)    \* levenshtein.ComputeDistance

-----------------------------------------------------------------------------
\* norm.NFC: a character that composes with the one before joins it.
Compose(text, char) ==
    IF text # << >> /\ <<text[Len(text)], char>> \in DOMAIN Composed
    THEN [text EXCEPT ![Len(text)] = Composed[<<@, char>>]]
    ELSE Append(text, char)

NFC(s) == FoldLeft(Compose, << >>, s)

Normalize(s) == [i \in DOMAIN NFC(s) |-> Lower[NFC(s)[i]]]

\* Where strings.Fields starts a field, and the places the field takes up.
Starts(s) == {i \in DOMAIN s : s[i] \notin Spaces /\ (i > 1 => s[i - 1] \in Spaces)}

Field(s, i) == {k \in i .. Len(s) : \A n \in i .. k : s[n] \notin Spaces}

\* Mutation of Trim: punctuation stays at the end of a word.
Trim_left(s, field) ==
    LET inside == {k \in field : s[k] \notin Puncts}
    IN  IF inside = {} THEN << >> ELSE SubSeq(s, Min(inside), Max(field))

\* strings.TrimFunc: a field without the punctuation at both ends.
Trim(s, field) ==
    LET inside == {k \in field : s[k] \notin Puncts}
    IN  IF inside = {} THEN << >> ELSE SubSeq(s, Min(inside), Max(inside))

\* The tokens, each at the place where its field starts.
Tokenize(s) ==
    [i \in {k \in Starts(s) : Trim(s, Field(s, k)) # << >>} |-> Trim(s, Field(s, i))]

-----------------------------------------------------------------------------
\* The distance a token of n runes may have at most.
maxDistanceForRuneLen(n) ==
    CASE n <= 4 -> 0 [] n > 4 /\ n <= 8 -> 1 [] OTHER -> 2

\* Mutation of ComesClose: the cap goes by the length of the keyword.
ComesClose_byKeyword(m, token, word) ==
    LET dist == Distance(token, Normalize(word))
    IN  dist <= m.distance /\ dist <= maxDistanceForRuneLen(Len(Normalize(word)))

\* A token is within the distance configured, and within the cap.
ComesClose(m, token, word) ==
    LET dist == Distance(token, Normalize(word))
    IN  dist <= m.distance /\ dist <= maxDistanceForRuneLen(Len(token))

Fires(m, token) == \E word \in m.words : ComesClose(m, token, word)

\* The first matcher that fires, and the first token that makes it.
Match(text, mentionedBot, matchers) ==
    LET tokens   == Tokenize(text)
        close(m) == {k \in DOMAIN tokens : Fires(m, tokens[k])}
        hit(m)   == IF m.kind = "mention" THEN mentionedBot ELSE close(m) # {}
        hits     == {i \in DOMAIN matchers : hit(matchers[i])}
        m        == matchers[Min(hits)]
    IN  IF hits = {} THEN None
        ELSE [matcher |-> m.name,
              word    |-> IF m.kind = "mention" THEN "@mention"
                          ELSE tokens[Min(close(m))]]
=============================================================================
