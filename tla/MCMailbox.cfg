SPECIFICATION Spec
CONSTANTS
    p1 = p1
    p2 = p2
    Boxes = {"credential", "replay"}
    Grants = {"g"}
    Broken = {"broken"}
    Others = {"x", "iss"}
    Held <- MCHeld
    Pollers = {p1, p2}
    MaxEntries = 2
    MaxCrashes = 1
SYMMETRY PollerSymmetry
INVARIANTS
    TypeOK
    NothingSkipped
    GrantsFollowCursor
PROPERTY
    CursorAdvances
CHECK_DEADLOCK FALSE
