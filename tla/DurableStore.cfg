SPECIFICATION DurableSpec
CONSTANTS
    Processes = {p1, p2, p3}
    MaxCrashes = 2
    NoFile = NoFile
    Clients = {c1, c2, c3}
    Commands = {create, startA, startB}
    Create = create
    Exclusive = {startA, startB}
    MaxDeaths = 1
    NoEvent = NoEvent
SYMMETRY Symmetry
INVARIANTS LockFollowsOwner StreamIsReplayable
PROPERTIES ImplementsMutex DeadOwnerIsRecovered ImplementsEventLog
CHECK_DEADLOCK FALSE
