SPECIFICATION Spec
CONSTANTS
    Day = 7
    Unset = Unset
INVARIANT
    ActiveFromStartToEnd
