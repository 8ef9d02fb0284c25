\* One request at a time, no failure.
SPECIFICATION MCFaultFreeSpec
CONSTANTS
    MaxMixed = 4
    MaxOverlapping = 4
    User = {u1}
    Symbol = {s1}
    TradeId = {t1, t2, t3, t4}
    PositionId = {p1, p2}
    Handler = {h1}
    MaxQuantity = 1
    CloseInput = {0}
    Triggers = {FALSE}
    None = None
INVARIANTS ExecutedTradeReachesPosition
CHECK_DEADLOCK FALSE
