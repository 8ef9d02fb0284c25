\* One request at a time, no failure.
SPECIFICATION FaultFreeSpec
CONSTANTS
    Follower = {f1, f2}
    Strategy = {s1}
    SubscriptionId = {x1, x2}
    Handler = {h1}
    Limits = {0}
    GivenCounts = {}
    MaxPeriods = 0
    MaxDrift = 1
    None = None
SYMMETRY Symmetry
INVARIANTS ActiveStrategyExists
CHECK_DEADLOCK FALSE
