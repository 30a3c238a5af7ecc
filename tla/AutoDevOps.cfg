\* A loop that scans and evaluates, a request that scans, users and git.
CONSTANTS
    Stacks = {s1}
    Loops = {timer}
    Requests = {request}
    NoKey = NoKey
    NoRow = NoRow
    NoPull = NoPull
    Env = TRUE
    MaxEdits = 2
    MaxFaults = 1
    MaxEvents = 2
    MaxAll = 2
SPECIFICATION AFairSpec
PROPERTIES
    
    DeploysOnlyAllowed
    Converges
    AllowedAreDeployed
