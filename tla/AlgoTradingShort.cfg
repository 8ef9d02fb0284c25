\* A backtest of less than 50 days and one of 50; no failure, every call is
\* answered.
SPECIFICATION FaultFreeFairSpec
CONSTANTS
    AlgorithmId = {a1}
    BacktestId = {b1}
    Handler = {h1}
    Terms = {x}
    GivenStatus = {}
    GivenResults = {}
    Days = {49, 50}
    Deleted = Deleted
    None = None
PROPERTIES BacktestEnds
CHECK_DEADLOCK FALSE
