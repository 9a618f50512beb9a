SPECIFICATION EmailFairSpec
CONSTANTS
    Key = {k1, k2}
    Caller = {c1, c2}
    Drain = {d1, d2}
    SourceOf <- OneForAll
    RecipientOf <- OneEach
    SourceActiveLimit = 1
    BatchSize = 2
    PerRecipientLimit = 1
    MaximumAttempts = 2
    MaxFaults = 1
    MaxRounds = 2
    MaxClaims = 2
    None = None
INVARIANTS SourceBound AttemptsAreKept
PROPERTIES OutboxIsReliable IntentsComeToRest
CHECK_DEADLOCK FALSE
