\* Unconstrained callers over one provider database.
SPECIFICATION RuntimeSpec
CONSTANTS
    Worker = {w1}
    RunId = {1, 2}
    RunCommand = {c1, c2}
    ControlCommand = {k1}
    Cursor = {x}
    MaxConfig = 1
    MaxFence = 2
    MaxAncestry = 128
    None = None
SYMMETRY Symmetry
INVARIANTS RunningIsBacked PauseIsFinal FencedPages
PROPERTIES TransitionsFollowMatrix
\* The run ids, commands and fences are used up.
CHECK_DEADLOCK FALSE
