\* Two coordinators, two providers of which a cycle lists one at a time, two events
\* and any one failed call, unreachable database or crash.
SPECIFICATION FairSpec
CONSTANTS
    Relay = {a, b}
    Provider = {1, 2}
    Event = {1, 2}
    BatchSize = 2
    PageSize = 1
    Concurrency = 1
    MaxClock = 2
    MaxFaults = 1
    None = None
INVARIANTS LastActivityIsLatest RecoveryFollowsOutage
PROPERTIES RelayIsReliable EventsAreDelivered
