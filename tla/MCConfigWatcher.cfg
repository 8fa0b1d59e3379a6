SPECIFICATION Spec
CONSTANTS
    g1 = g1
    g2 = g2
    n1 = n1
    n2 = n2
    c1 = c1
    c2 = c2
    a1 = a1
    a2 = a2
    t1 = t1
    t2 = t2
    None = None
    Unreadable = Unreadable
    Nothing = Nothing
    Levels = {"debug", "warn"}
    Zones = {}
    Second = 4
    Half = 32
    DefaultMatcher = 3
    DefaultUser = 5
    Files <- WatchedFiles
    Timers = {t1, t2}
    DefaultLevel = "info"
    MaxVersions = 3
    MaxMtime = 2
INVARIANTS
    TypeOK
    HoldsAVersion
    LevelAgrees
PROPERTIES
    OnlyForward
    FollowsFile
\* Once the file is final and followed nothing is left to do.
CHECK_DEADLOCK FALSE
