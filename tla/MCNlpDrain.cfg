\* Vacancies: safety and refinement of RecordLifecycle.
CONSTANTS
    N = 3
    Source <- MCSource
    RecordType = "vacancy"
    BatchLimit = 2
    Concurrency = 2
    MaxAttempts = 2
    MaxRuns = 2
    MaxResolves = 1
SPECIFICATION Spec
INVARIANTS
    FailedInCoreOnlyIfUnacked
    AttemptCountBounded
PROPERTIES
    TransientIsNotRecorded
    OnlyPendingIsTried
    BatchesAreFair
    KeepsLifecycle
CHECK_DEADLOCK FALSE
