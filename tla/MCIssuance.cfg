SPECIFICATION Spec
CONSTANTS
    p1 = p1
    p2 = p2
    Owners = {"A", "B"}
    Witnessed = {"B"}
    OwnerOf <- MCOwnerOf
    RegistryOf <- MCRegistryOf
    Sources <- MCSources
    Callers = {p1, p2}
    MaxAnchors = 2
    MaxSends = 2
    Requested = {"c2"}
    MaxOverlaps = 1
    MaxFailures = 1
SYMMETRY CallerSymmetry
INVARIANTS
    RowsAreSealed
    SealedIsStored
    FoundedInOrder
CHECK_DEADLOCK FALSE
