\* Two updates, starts, timers and manual calls at any time, and a failure.
CONSTANTS
    Updates = {u1, u2}
    Boot = Boot
    Hand = Hand
    NoOne = NoOne
    Configs <- MCConfigs
    FaultKinds = {"clone", "ack", "crash"}
    MaxFaults = 1
SPECIFICATION Spec
SYMMETRY MCSymmetry

    
    
PROPERTIES
    OperatesInWholeClone
CHECK_DEADLOCK FALSE
