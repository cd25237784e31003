SPECIFICATION Spec
CONSTANTS
    HalfWord = 4
    Programs <- MCPrograms
    Models <- MCHugeModels
INVARIANTS
    PointerFoldExact
CHECK_DEADLOCK FALSE
