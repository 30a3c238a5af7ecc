\* An update, starts, timers and manual calls at any time, and a failure.
CONSTANTS
    Updates = {u1}
    Boot = Boot
    Hand = Hand
    NoOne = NoOne
    Configs <- MCModes
    FaultKinds = {"clone", "setup", "save", "ack"}
    MaxFaults = 1
SPECIFICATION FairSpec
INVARIANTS
    MutexHeld
PROPERTIES
    
    CallsEnd
CHECK_DEADLOCK FALSE
