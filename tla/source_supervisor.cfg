SPECIFICATION FairSpec
CONSTANTS
    s1 = s1
    s2 = s2
    Sources = {s1, s2}
    MaxEpochs = 3
    MaxGeneration = 2
    MaximumAttempts = 1
    MaximumCommittedPages = 2
    Environments <- MCEnvironments
INVARIANTS SupervisorInvariant CursorInStep
PROPERTIES EpisodeHoldsCursors WorkSettles
CHECK_DEADLOCK FALSE
