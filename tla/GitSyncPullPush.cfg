\* One caller that pulls and pushes, under gits that refuse to pull into a
\* diverged branch, merge, or say so in the words the code looks for, and with
\* every kind of failure.
CONSTANTS
    Workers = {w1}
    NoWorker = NoWorker
    Ops = {"pull", "push"}
    FaultKinds = {"network", "ack", "capture", "apply", "commit", "backup",
                  "reset", "crash"}
    DivergedPull = {"refused", "merge", "diverged"}
    MaxFaults = 2
    MaxCommits = 5
    MaxVersion = 3
SPECIFICATION Spec
INVARIANTS
    PullInstallsOneCommit
PROPERTIES
    OverwrittenIsPreserved
    PushPublishesData
    
    PushKeepsCommits
CHECK_DEADLOCK FALSE
