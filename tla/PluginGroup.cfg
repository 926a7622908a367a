SPECIFICATION Spec
CONSTANTS
    Leader = leader
    Kid = {k1}
    Stream <- MCStream
    Failing = {"wait"}
    Capability = {c1}
    Allowed = {}
    MaxLines = 2
    MaxNotes = 1
CHECK_DEADLOCK FALSE
INVARIANTS OkMeansAllWentWell NobodyLeft DiagnosticsComplete
PROPERTY EscalatesAfterGraceProp
