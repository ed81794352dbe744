\* The flow and the pool, with retries, siblings of failed tasks and Ctrl+C.
CONSTANTS
    vacancies = vacancies
    dou = dou
    nlpV = nlpV
    nlpR = nlpR
    convert = convert
    Loose = Loose
    Tasks = {vacancies, dou, nlpV, nlpR, convert}
    Stage <- MCStage
    LastStage = 3
    Retries <- MCRetries
    Gathering = {vacancies}
    Jobs = 2
    MaxPools = 3
SPECIFICATION FairSpec
INVARIANTS
    NeverHalfClosed
    SecondPoolOnlyAfterClose
    LeakNeedsFailure
PROPERTIES
    FlowEnds
CHECK_DEADLOCK FALSE
