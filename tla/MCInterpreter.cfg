SPECIFICATION Spec
CONSTANTS
    HalfWord = 16
    NoValue = NoValue
    MaxChar = 1
    EndsEarly = FALSE
    Programs <- MCPrograms
PROPERTIES
    RefinesWalk
