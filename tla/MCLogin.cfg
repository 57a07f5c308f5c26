SPECIFICATION Spec
CONSTANTS
    Null = Null
    t1 = t1
    t2 = t2
    Tokens = {t1, t2}
    Kels <- MCKels
    MaxRequests = 3
    MaxRecording = 1
    MaxFailures = 1
SYMMETRY TokenSymmetry
INVARIANTS
    RecordedBeforeChallenge
    AuthenticatedByResponse
PROPERTY
    FirstSeenStable
CHECK_DEADLOCK FALSE
