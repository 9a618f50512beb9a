\* Two executors, one Run now click, an operator, two configuration versions and
\* any one disturbance: an expiry, a crash, an exception, a lost outcome, an abort.
SPECIFICATION FairSpec
CONSTANTS
    w1 = w1
    w2 = w2
    Worker <- MCWorker
    Capable <- MCCapable
    RunId = {1, 2, 3}
    RunCommand = {c1}
    ControlCommand = {k1}
    Cursor = {x}
    MaxConfig = 2
    MaxFence = 4
    MaxPolls = 0
    MaxPages = 1
    MaxFaults = 1
    MaxAncestry = 2
    None = None
INVARIANTS CursorChain HolderIsCurrent HeadProofAvailable SucceededIsReconciled
PROPERTIES RuntimeSpec NoAttemptStuck
\* Polls that find no work are bounded.
CHECK_DEADLOCK FALSE
