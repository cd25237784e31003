SPECIFICATION Spec
CONSTANTS
    HalfWord = 16
    NoValue = NoValue
    MaxChar = 1
    Programs <- MCPrograms
    Asked <- MCAsked
INVARIANTS
    ReachCorrect
    VisitCorrect
    ValueCorrect
    OverflowCorrect
    PrintsExecution
    MarksWrap
    DotShowsGraph
CHECK_DEADLOCK FALSE
