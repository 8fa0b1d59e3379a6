SPECIFICATION Spec
CONSTANTS
    p1 = p1
    c1 = c1
    u1 = u1
    Ids = {p1, c1}
    Author <- MCAuthor
    Commands = {c1}
    None = None
    Lifetime = 1
    Jitters = {1, 2}
    Capacity = 1
    MaxTime = 3
    MaxArrivals = 2
    MaxStarts = 2
INVARIANTS
    TypeOK
    ThreadedToItsMessage
    QuoteKept
    DecidedByOneProcess
PROPERTIES
    PendingDrained
    EveryReplyAttempted
\* Once the clock, the arrivals and the loop have stopped nothing is left to do.
CHECK_DEADLOCK FALSE
