SPECIFICATION Spec
CONSTANTS
    MaxValue = 2
    Priorities <- MCPriorities
    EntryHashes <- MCEntryHashes
    MaxAlive = 6
    Heads <- MCHeads
    Null = Null
INVARIANTS
    Canonical
    CompareOrders
