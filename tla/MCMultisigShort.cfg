SPECIFICATION Spec
CONSTANTS
    k1 = k1
    k2 = k2
    k3 = k3
    kx = kx
    Keys <- MCKeys
    KeyLists <- MCOneList
    Thresholds <- MCShortWeights
INVARIANTS
    ThresholdSound
