SPECIFICATION ProcessSpec
CONSTANTS
    HalfWord = 128
    NoValue = NoValue
    MaxChar = 3
    Inputs <- MCInputs
    Budgets <- MCBudgets
    MaxReads = 3
    Code <- MCCode
    HexDigits <- MCHexDigits
    DefaultMemoryModel <- MCDefaultMemoryModel
    Arguments <- MCArguments
    Analysed <- MCAnalysed
    Programs <- MCPrograms
    Foldings <- MCFoldings
INVARIANTS
    ReadsInOrder
    GraphAgrees
    InputAsTyped
    FoldingExact
    HiddenUnobserved
    StartsAtBlock
    Branching
CHECK_DEADLOCK FALSE
