\* Three coroutines over two providers, safety.
CONSTANTS
    t1 = t1
    t2 = t2
    t3 = t3
    Tasks = {t1, t2, t3}
    NumProviders = 2
    RpdStop <- MCRpdStop
    TpdStop <- MCTpdStop
    Estimate = 1
    CallTokens = {1, 2}
    MaxCallTokens = 2
    Interval <- MCInterval
    RetryAfter = {2}
    ErrorCooldown = 1
    DefaultRetry = 1
    MaxRestarts = 0
SPECIFICATION Spec
SYMMETRY TaskSymmetry
INVARIANTS
    RequestsBounded
    TokensBounded
    ExhaustedIsFinal
    LateCallsBounded
    BusyAsksToWait
