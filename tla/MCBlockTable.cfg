SPECIFICATION Spec
CONSTANTS
    HalfWord = 16
    Programs <- MCPrograms
    Models <- MCModels
INVARIANTS
    TableIsFolded
    PointerFoldExact
    ValueFoldExact
CHECK_DEADLOCK FALSE
