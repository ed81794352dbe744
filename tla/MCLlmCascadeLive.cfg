\* One provider, three coroutines, the process started twice a day, under
\* fairness.
CONSTANTS
    t1 = t1
    t2 = t2
    t3 = t3
    Tasks = {t1, t2, t3}
    NumProviders = 1
    RpdStop <- MCRpdStop
    TpdStop <- MCTpdStop
    Estimate = 1
    CallTokens = {1, 2}
    MaxCallTokens = 2
    Interval <- MCInterval
    RetryAfter = {2}
    ErrorCooldown = 1
    DefaultRetry = 1
    MaxRestarts = 1
SPECIFICATION FairSpec
INVARIANTS
    BilledBounded
PROPERTIES
    KeepsContract
    CallsReturn
