SPECIFICATION Spec
CONSTANTS
    Worker = {w1, w2}
    TxnId = {t1}
    ResultId = {r1}
    File = {lib, dev}
    Forbidden = {dev}
    MaxFaults = 1
    MaxCrashes = 0
    MaxOutages = 0
    NoWorker = NoWorker
    NoTxn = NoTxn
    NoResult = NoResult
    NoMeta = NoMeta
    Torn = Torn
    Absent = Absent
INVARIANT StagingCollectable
