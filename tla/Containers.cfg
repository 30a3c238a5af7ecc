\* Two containers, the timer and a request that scan, one deployment.
CONSTANTS
    Containers = {c1, c2}
    Existing = {c1}
    Loops = {timer}
    Requests = {request}
    Deploys = {d1}
    NoStamp = NoStamp
    MaxChanges = 2
    MaxFaults = 1
    Tries = 2
SPECIFICATION FairSpec
INVARIANTS
    RowsAreReal
PROPERTIES
    LiveRowsStay
    Converges
CHECK_DEADLOCK FALSE
