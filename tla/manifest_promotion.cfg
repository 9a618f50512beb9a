SPECIFICATION ManifestFairSpec
CONSTANTS
    None = None
    Worker = {w1, w2}
    Provider = pA
    ProviderSets = {{pA, pB}, {pA}, {pB}}
    MaximumRetries = 0
    MaxSeq = 9
    Reserve = 7
    MaxRelease = 2
    MaxObs = 1
    MaxLife = 2
    MaxEpoch = 1
    MaxFaults = 2
    MaxOperator = 2
    MaxEvents = 3
    pA = pA
    pB = pB
    w1 = w1
    w2 = w2
INVARIANTS ManifestInvariant AppliedIsKept
PROPERTIES LaneConverges
CHECK_DEADLOCK FALSE
