SPECIFICATION FairSpec
CONSTANTS
    b1 = b1
    b2 = b2
    Batches = {b1, b2}
    Size <- MCSize
    MaxConcurrent = 1
    MaxAttempts = 2
    Answers = {"succeeded", "refused"}
    Deletable = {b1}
    MaxCrashes = 1
INVARIANTS
    TypeOK
    SentByOneCall
    CompletedAccountsForAll
    WithinConcurrency
    CountsFollowRecords
PROPERTIES
    TerminalIsFinal
    EveryBatchEnds
