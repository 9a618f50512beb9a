SPECIFICATION WelcomeFairSpec
CONSTANTS
    User = {u1, u2}
    Dispatcher = {d1, d2}
    Legacy = {}
    BatchSize = 1
    MaxDecisions = 2
    MaxFaults = 1
    MaxPrunes = 1
    None = None
INVARIANTS EnqueuedOnce
PROPERTIES ArmedAtFirstAdmission DueIsSettled
CHECK_DEADLOCK FALSE
