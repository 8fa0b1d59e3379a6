SPECIFICATION PromptSpec
CONSTANTS
    g1 = g1
    g2 = g2
    u1 = u1
    u2 = u2
    m1 = m1
    m2 = m2
    a1 = a1
    a2 = a2
    w1 = w1
    w2 = w2
    Matchers = {m1}
    Users = {u1, u2}
    Everyone = Everyone
    MatcherCooldowns = {1, 2}
    UserCooldowns = {1, 2}
    Expiry = 2
    Minute = 1
    Hour = 2
    Caps <- MCCaps
    None = None
    MaxTime = 3
    Day = 4
    Unset = Unset
    Snapshots <- LimitSnapshots
    Messages <- LimitMessages
    Admins <- NoAdmins
    Capacity = 1
    MaxMessages = 3
    NoMatch = NoMatch
SYMMETRY Senders
INVARIANTS
    CountedOnce
    
    AnswersCapped
PROPERTIES
    TrackerSteps
    LimiterSteps
