\* One request at a time; bodies hold terms only, so that the way to live is
\* through updateStatus.
SPECIFICATION Spec
CONSTANTS
    AlgorithmId = {a1}
    BacktestId = {b1}
    Handler = {h1}
    Terms = {x}
    GivenStatus = {}
    GivenResults = {}
    Days = {365}
    Deleted = Deleted
    None = None
INVARIANTS LiveWasBacktested
