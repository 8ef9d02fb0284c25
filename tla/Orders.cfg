\* Two requests that may overlap, any failure.
SPECIFICATION MCSpec
CONSTANTS
    OrderId = {o1, o2, o3, o4, o5}
    Handler = {h1, h2}
    Terms = {a, b}
    None = None
SYMMETRY Symmetry
INVARIANTS TypeOK LinkedLegsComplete CancelledWithLegsAlone
PROPERTIES FinalStatusKept
CHECK_DEADLOCK FALSE
