SPECIFICATION FairSpec
CONSTANTS
    Worker = {w1, w2}
    TxnId = {t1, t2}
    ResultId = {r1}
    File = {dev}
    Forbidden = {dev}
    MaxFaults = 1
    MaxCrashes = 1
    MaxOutages = 0
    NoWorker = NoWorker
    NoTxn = NoTxn
    NoResult = NoResult
    NoMeta = NoMeta
    Torn = Torn
    Absent = Absent
PROPERTY EveryCallReturns
