\* Two requests or jobs at a time, any failure.
SPECIFICATION Spec
CONSTANTS
    Follower = {f1}
    Strategy = {s1}
    SubscriptionId = {x1, x2, x3}
    Handler = {h1, h2}
    Limits = {1, 2}
    GivenCounts = {2}
    MaxPeriods = 1
    MaxDrift = 0
    None = None
SYMMETRY Symmetry
INVARIANTS TypeOK NeverOverbilled CountNearMax
PROPERTIES StatusAsRequested
CHECK_DEADLOCK FALSE
