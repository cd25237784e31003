SPECIFICATION Spec
CONSTANTS
    HalfWord = 16
    NoValue = NoValue
    MaxChar = 1
    Programs <- MCPrograms
    Asked <- MCAsked
INVARIANTS
    StopsAtValue
CHECK_DEADLOCK FALSE
