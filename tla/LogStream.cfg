\* Two viewers of two containers, channels that fill up, clients that stall or go.
CONSTANTS
    v1 = v1
    v2 = v2
    Viewers = {v1, v2}
    c1 = c1
    c2 = c2
    h1 = h1
    s1 = s1
    Containers = {c1, c2}
    HostOf <- MCHostOf
    StackOf <- MCStackOf
    NoStack = NoStack
    Filters <- MCFilters
    NoEntry = NoEntry
    Buffer = 2
    LinePieces = 2
    Window = 3
    Backlog = 2
    MaxLog = 4
    MaxEvents = 2
SPECIFICATION FairSpec
INVARIANTS
    NeverPanics
    NothingVanishes
PROPERTIES
    ImplementsTail
    ShownIsAskedFor
    ViewersLeave
    EntriesArrive
CHECK_DEADLOCK FALSE
