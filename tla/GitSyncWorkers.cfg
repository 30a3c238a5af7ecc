\* Two callers (the timer and a handler) compete for g.mu, every fault.
CONSTANTS
    Workers = {w1, w2}
    NoWorker = NoWorker
    Ops = {"pull", "push", "sync"}
    FaultKinds = {"network", "ack", "capture", "apply", "commit", "backup",
                  "reset", "crash"}
    DivergedPull = {"refused"}
    MaxFaults = 1
    MaxCommits = 3
    MaxVersion = 2
SPECIFICATION FairSpec
INVARIANTS
    TrackingBehindRemote
PROPERTIES
    CallsReturn
CHECK_DEADLOCK FALSE
