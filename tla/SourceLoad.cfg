SPECIFICATION Spec
CONSTANTS
    UnsafePart = {"empty", "up"}
    ReservedPart = {"con"}
    EmptyPart = "empty"
    MaxEntries = 3
    MaxTotal = 4
    MaxEntryBytes = 3
    MaxPath = 5
    MaxDepth = 3
    Block = 2
    MaxArchive = 14
    Archives <- MCArchives
    OtherArchive <- MCOther
    ForeignName <- MCForeign
    MaxCalls = 2
    MaxFaults = 1
    MaxExchanges = 2
    MaxForeign = 1
INVARIANTS AcceptsExactly OutcomeExact AcceptedExtracts ForeignUntouched
CHECK_DEADLOCK FALSE
