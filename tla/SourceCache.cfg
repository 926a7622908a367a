SPECIFICATION Spec
CONSTANTS
    w1 = w1
    w2 = w2
    w3 = w3
    p1 = p1
    p2 = p2
    Thread = {w1, w2, w3}
    Process = {p1, p2}
    Home <- MCHome
    Stage = {s1, s2}
    Digest = {d1, d2}
    MaxFaults = 1
    MaxCrashes = 1
    MaxOutages = 1
    MaxScribbles = 1
    NoThread = NoThread
    NoProcess = NoProcess
    NoStage = NoStage
    NoDigest = NoDigest
    Absent = Absent
INVARIANTS CachedBlobMatches LockFreeWhileWaiting SpooledArchiveWhole
           UnreadableOnlyByLeftover
PROPERTIES CachedAnswerHoldsProp ImplementsArchiveCache
SYMMETRY Symmetry
