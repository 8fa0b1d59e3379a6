SPECIFICATION Spec
CONSTANTS
    g1 = g1
    g2 = g2
    n1 = n1
    n2 = n2
    c1 = c1
    c2 = c2
    a1 = a1
    a2 = a2
    None = None
    LoggedOut = LoggedOut
    StreamReplaced = StreamReplaced
    Unreadable = Unreadable
    Spaces = {" "}
    Puncts = {"."}
    Lower <- MCLower
    Composed <- MCComposed
    Distance <- MCDistance
    Levels = {"debug", "warn"}
    Zones = {"UTC"}
    Second = 4
    Half = 32
    DefaultMatcher = 3
    DefaultUser = 5
    Files <- OneFile
    Tokens <- MCTokens
    Bodies <- MCBodies
    Messages <- MCMessages
    Capacity = 1
    MaxStarts = 1
PROPERTY
    LoggedOutEnds
\* The last process may have ended.
CHECK_DEADLOCK FALSE
