SPECIFICATION FairSpec
CONSTANTS
    t1 = t1
    t2 = t2
    t3 = t3
    l1 = l1
    l2 = l2
    p1 = p1
    Turns = {t1, t2, t3}
    Lanes = {l1, l2}
    Profiles = {p1}
    LaneOf <- MCLaneOf
    ProfileOf <- MCProfileOf
    Pools <- MCPools
INVARIANTS PermitInvariant
PROPERTIES NoCallAfterAbort WaiterIsAnswered
CHECK_DEADLOCK FALSE
