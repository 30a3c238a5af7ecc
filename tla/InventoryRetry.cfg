\* A host joins a new group, whose metadata is then updated.
CONSTANTS
    h1 = h1
    g1 = g1
    Hosts = {h1}
    Groups = {g1}
    NoGroup = NoGroup
    Empty = Empty
    Broken = Broken
    Callers = {p1}
    NoOne = NoOne
    NoRequest = NoRequest
    Requests <- MCRequests
    Edits <- MCEdits
    Ghost = Ghost
    MaxCalls = 2
    MaxEvents = 0
    MaxFaults = 0
SPECIFICATION Spec
INVARIANTS
    NoSelfWait
CHECK_DEADLOCK FALSE
