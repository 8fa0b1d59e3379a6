SPECIFICATION Spec
CONSTANTS
    m1 = m1
    u1 = u1
    u2 = u2
    Matchers = {m1}
    Users = {u1, u2}
    Everyone = Everyone
    MatcherCooldowns = {1, 2}
    UserCooldowns = {3}
    Expiry = 2
    MaxTime = 6
INVARIANTS
    TypeOK
    CooldownHeld
PROPERTIES
    ForgottenOnlyWhenExpired
    ExpiredReaped
