\* Two Run now clicks on an idle provider.
SPECIFICATION RuntimeSpec
CONSTANTS
    Worker = {w1}
    RunId = {1, 2}
    RunCommand = {c1, c2}
    ControlCommand = {}
    Cursor = {x}
    MaxConfig = 1
    MaxFence = 1
    MaxAncestry = 128
    None = None
INVARIANT RunNowCoalesces
CHECK_DEADLOCK FALSE
