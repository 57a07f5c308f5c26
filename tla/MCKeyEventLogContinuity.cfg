SPECIFICATION Spec
CONSTANTS
    a0 = a0
    a1 = a1
    a2 = a2
    b0 = b0
    b1 = b1
    w1 = w1
    w2 = w2
    w3 = w3
    A = A
    D = D
    Null = Null
    Messages <- MCMessages
    OptionSet <- MCStrict
    MaxEvents = 3
INVARIANT
    SequenceContinuity
CHECK_DEADLOCK FALSE
