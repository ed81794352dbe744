\* Three clients, two requests in three ticks, two ticks to a second.
CONSTANTS
    k1 = k1
    k2 = k2
    k3 = k3
    Keys = {k1, k2, k3}
    Limit = 2
    Window = 3
    Second = 2
    SweepKeys = 2
    MaxTime = 6
SPECIFICATION Spec
SYMMETRY KeySymmetry
INVARIANTS
    WindowBounded
    RetryIsEnough
    ForgetsIdle
