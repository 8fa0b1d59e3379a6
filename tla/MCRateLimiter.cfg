SPECIFICATION Spec
CONSTANTS
    Minute = 2
    Hour = 4
    Caps <- MCCaps
    None = None
    MaxTime = 8
    MaxFires = 5
INVARIANTS
    TypeOK
    WindowCap
    RefusedOnlyAtCap
\* At the bounds of the clock and of the fires nothing is left to do.
CHECK_DEADLOCK FALSE
