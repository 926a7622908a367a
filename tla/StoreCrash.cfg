SPECIFICATION Spec
CONSTANTS
    Worker = {w1, w2}
    TxnId = {t1, t2, t3}
    ResultId = {r1}
    File = {lib, dev}
    Forbidden = {dev}
    MaxFaults = 0
    MaxCrashes = 2
    MaxOutages = 0
    NoWorker = NoWorker
    NoTxn = NoTxn
    NoResult = NoResult
    NoMeta = NoMeta
    Torn = Torn
    Absent = Absent
SYMMETRY Symmetry
INVARIANT StagingCollectable
PROPERTIES RecoveryCollectsProp ImplementsResultStore
