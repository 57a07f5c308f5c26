SPECIFICATION FairSpec
CONSTANTS
    w1 = w1
    w2 = w2
    w3 = w3
    Null = Null
    Sessions = {1, 2}
    Witnesses = {w1, w2, w3}
    Backers <- MCThreeBackers
    Toad = 2
    Data = {"x"}
    MaxSn = 2
    MaxCalls = 3
    MaxFailures = 2
    MaxTimeouts = 1
    MaxOverlaps = 1
INVARIANTS
    CommittedIsHeld
    StoreReplays
    WitnessReplays
    AtMostOneAgreement
    CompleteEntries
PROPERTIES
    CallsEnd
    CallsSucceed
CHECK_DEADLOCK FALSE
