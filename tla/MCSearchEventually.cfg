SPECIFICATION FairSpec
CONSTANTS
    Node <- MCNode
    Start <- MCStart
    Graphs <- MCGraphs
INVARIANTS
    TypeOK
    TreeInv
    DecidesEF
    ShortestWitness
PROPERTIES
    Termination
CHECK_DEADLOCK FALSE
