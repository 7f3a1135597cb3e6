SPECIFICATION ShapedSpec
CONSTANTS
    Runs = {r1, r2}
    Steps = {s1}
    Attempts = {a1}
    Reservations = {b1}
    Calls = {p1}
    Effects = {e1}
    Requests = {c1, c2}
    Numbers = {1, 2}
    NoParent = NoParent
SYMMETRY Symmetry
INVARIANTS
    CancellationTruthful
PROPERTIES
    CancellationSealed
CHECK_DEADLOCK FALSE
