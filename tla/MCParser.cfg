SPECIFICATION ParseSpec
CONSTANTS
    HalfWord = 16
    Sources <- MCSources
INVARIANTS
    StackInv
    ParsesText
    PrintRoundTrip
CHECK_DEADLOCK FALSE
