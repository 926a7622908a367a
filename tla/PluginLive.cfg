SPECIFICATION FairSpec
CONSTANTS
    Leader = leader
    Kid = {k1}
    Stream <- MCStream
    Failing = {}
    Capability = {c1}
    Allowed = {}
    MaxLines = 3
    MaxNotes = 0
CHECK_DEADLOCK FALSE
PROPERTIES ProbeReturns ReaderEnds
