SPECIFICATION FairSpec
CONSTANTS
    Node <- MCNode
    Start <- MCStart
    Graphs <- MCGraphs
INVARIANTS
    TypeOK
    ExploredGraph
    BlackInv
    DecidesEFG
    ShortestPrefix
PROPERTIES
    Termination
CHECK_DEADLOCK FALSE
