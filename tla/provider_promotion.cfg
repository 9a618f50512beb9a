SPECIFICATION ProviderFairSpec
CONSTANTS
    w1 = w1
    w2 = w2
    None = None
    Worker = {w1, w2}
    Batches = 1
    MaximumRetries = 1
    MaximumOperations = 2
    Steady = TRUE
    MaxSettled = 3
    MaxObs = 1
    MaxEpoch = 1
    MaxLife = 2
    MaxSeq = 7
    MaxFaults = 2
    MaxRefusals = 1
    MaxExpired = 1
    MaxEvents = 3
INVARIANTS ProviderInvariant
PROPERTIES ProviderSettles
CHECK_DEADLOCK FALSE
