SPECIFICATION Spec
CHECK_DEADLOCK FALSE
CONSTANTS
    A = A
    D = D
    d0 = d0
    d1 = d1
    e0 = e0
    e1 = e1
    w = w
    Null = Null
    History <- MCHistory
    Sent <- MCSent
INVARIANTS
    ReceiverReplays
    IntroducedIsHeld
    IntroducedIsApproved
    ReplyBacked
    Retryable
