SPECIFICATION FairSpec
CONSTANTS
    Node <- MCNode
    Start <- MCStart
    Graphs <- MCGraphs
INVARIANTS
    TypeOK
    PathInv
    BlackInv
    DecidesEG
    SimpleLasso
PROPERTIES
    Termination
CHECK_DEADLOCK FALSE
