\* Requests, an edit, a reload and the watcher in any order, and a failure or crash.
CONSTANTS
    h1 = h1
    g1 = g1
    Hosts = {h1}
    Groups = {g1}
    NoGroup = NoGroup
    Empty = Empty
    Broken = Broken
    Callers = {p1, p2}
    NoOne = NoOne
    NoRequest = NoRequest
    Requests <- MCRequests
    Edits <- MCEdits
    Ghost = Ghost
    MaxCalls = 2
    MaxEvents = 1
    MaxFaults = 1
SPECIFICATION FairSpec
INVARIANTS
    Recoverable
    NoDangling
PROPERTIES
    ImplementsStore
    CallsReturn
    Converges
CHECK_DEADLOCK FALSE
