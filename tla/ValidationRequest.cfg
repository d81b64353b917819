SPECIFICATION FairSpec
CONSTANTS
    Requests = {r1, l1}
    Legacy = {l1}
    MaxAttempts = 3
    MaxCrashes = 2
    MaxSaveFailures = 1
INVARIANTS
    AcknowledgedWorkExists
    RecordAndStatusAgree
    AbandonedOnlyAfterBudget
PROPERTIES
    DurableStatusMovesForward
    EventuallySettled
