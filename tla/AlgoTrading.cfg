\* Two requests at a time, two backtests behind them, any failure; a body may
\* hold anything.
SPECIFICATION Spec
CONSTANTS
    AlgorithmId = {a1}
    BacktestId = {b1, b2}
    Handler = {h1, h2}
    Terms = {x, y}
    GivenStatus = {"Draft", "Testing", "Live", "Paused", "Stopped", "other"}
    GivenResults = {"none", "given"}
    Days = {49, 50}
    Deleted = Deleted
    None = None
SYMMETRY Symmetry
INVARIANTS TypeOK
PROPERTIES LiveAlgorithmKept
