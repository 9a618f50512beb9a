SPECIFICATION MCSpec
CONSTANTS
    A = A
    B = B
    Titles = {A, B}
    MaxSetbacks = 2
    MaxSequence = 3
    MaxAttempts = 2
    MaxOperations = 5
    MaxOperator = 2
    Readiness = {"ready", "waiting"}
    DeferStates = {"waiting"}
    Lifecycles = {0, 1}
    Refusals = TRUE
    Lapses = TRUE
    None = None
SYMMETRY TitleSymmetry
INVARIANTS PackInvariant NoSuccessDiscarded
PROPERTIES SupersededStaysPrivate PublishedWasActivated
CHECK_DEADLOCK FALSE
