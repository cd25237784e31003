SPECIFICATION Spec
CONSTANTS
    HalfWord = 16
    NoValue = NoValue
    MaxChar = 1
    EndsEarly = TRUE
    Programs <- MCReaders
PROPERTIES
    RefinesWalk
CHECK_DEADLOCK FALSE
