SPECIFICATION Spec
CONSTANT
    Sources <- MCSources
INVARIANTS
    TypeOK
    KeysFound
PROPERTY
    DeliversInOrder
