\* The claim about cooldowns of llm_cascade.py:120.
CONSTANTS
    t1 = t1
    t2 = t2
    Tasks = {t1, t2}
    NumProviders = 1
    RpdStop <- MCRpdStop
    TpdStop <- MCTpdStop
    Estimate = 1
    CallTokens = {1, 2}
    MaxCallTokens = 2
    Interval <- MCInterval
    RetryAfter = {2, 3}
    ErrorCooldown = 1
    DefaultRetry = 1
    MaxRestarts = 0
SPECIFICATION Spec
PROPERTIES
    CooldownIsKept
