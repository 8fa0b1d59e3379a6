SPECIFICATION Spec
CONSTANTS
    m1 = m1
    u1 = u1
    u2 = u2
    Matchers = {m1}
    Users = {u1}
    Everyone = Everyone
    MatcherCooldowns = {1}
    UserCooldowns = {2}
    Expiry = 2
    MaxTime = 6
INVARIANT NoEarlyRefire
    
