\* A job on one host or on up to three, a stream, a failure or a crash anywhere.
CONSTANTS
    Jobs = {j1}
    Hosts = {h1, h2, h3}
    Streams = {s1}
    MaxFaults = 1
SPECIFICATION FairSpec
INVARIANTS
    ProgressIsHonest
    CompletedMeansDone
    CompleteIsLastWord
PROPERTIES
    RowsForward
    JobsAndStreamsEnd
CHECK_DEADLOCK FALSE
