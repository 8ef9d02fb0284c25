\* Two requests that may overlap, any failure.
SPECIFICATION MCSpec
CONSTANTS
    User = {u1}
    Symbol = {s1, s2}
    TradeId = {t1, t2, t3, t4}
    PositionId = {p1, p2, p3}
    Handler = {h1, h2}
    MaxQuantity = 2
    MaxMixed = 2
    MaxOverlapping = 3
    CloseInput <- MCCloseInput
    Triggers = {TRUE, FALSE}
    None = None
SYMMETRY Symmetry
INVARIANTS
    TypeOK
    OneOpenPosition
    TradesMatchPosition
    NoSilentOrphan
    NoMoreThanTraded
    QuantityIsNetAlone
    ClosingsWithinAlone
PROPERTIES
    SavesKeepOthersWork
    ImplementsBookAlone
CHECK_DEADLOCK FALSE
