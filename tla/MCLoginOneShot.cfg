SPECIFICATION Spec
CONSTANTS
    Null = Null
    Tokens = {"t1"}
    Kels <- MCTwoKels
    MaxRequests = 3
    MaxRecording = 1
    MaxFailures = 0
INVARIANT
    OneShot
CHECK_DEADLOCK FALSE
