SPECIFICATION Spec
CONSTANTS
    Worker = {w1, w2}
    TxnId = {t1, t2}
    ResultId = {r1}
    File = {lib, dev}
    Forbidden = {dev}
    MaxFaults = 2
    MaxCrashes = 1
    MaxOutages = 1
    NoWorker = NoWorker
    NoTxn = NoTxn
    NoResult = NoResult
    NoMeta = NoMeta
    Torn = Torn
    Absent = Absent
SYMMETRY Symmetry
INVARIANTS LiveTransactionKept RenameOntoNothing
PROPERTIES TornOnlyByRollbackProp ReturnedResultKeptProp PublishedSurvivesOutageProp FailedCommitLeavesNoResultProp
