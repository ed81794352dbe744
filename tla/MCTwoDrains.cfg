\* Resumes: two overlapping processes, batches in any order.
CONSTANTS
    N = 2
    Source <- MCSource
    RecordType = "resume"
    BatchLimit = 1
    Concurrency = 1
    MaxAttempts = 1
    MaxRuns = 1
    MaxResolves = 0
SPECIFICATION BothFairSpec
INVARIANTS
    FailedInCoreOnlyIfShared
PROPERTIES
    KeepsLifecycleApart
    FirstEnds
CHECK_DEADLOCK FALSE
