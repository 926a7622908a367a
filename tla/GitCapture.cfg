SPECIFICATION FairSpec
CONSTANTS
    Leader = leader
    Kid = {k1}
    Stream <- MCStream
    Failing = {"kill", "wait", "read"}
    Limit = 1
    MaxBytes = 3
CHECK_DEADLOCK FALSE
INVARIANTS OutputWhole NobodyLeft
PROPERTY CaptureReturns
