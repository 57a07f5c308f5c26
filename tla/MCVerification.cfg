SPECIFICATION VerifySpec
CONSTANTS
    I = I
    A = A
    D = D
    issuerKey = issuerKey
    delegateKey = delegateKey
    delegatorKey = delegatorKey
    forgerKey = forgerKey
    Null = Null
    MaxNesting = 2
    Pieces <- MCPieces
    MaxPieces = 4
    Truth <- MCTruth
INVARIANTS
    TypeOK
    IssuedIsSealed
    OkIsFounded
    OrderIsImmaterial
