SPECIFICATION Spec
CONSTANTS
    Runs = {r1, r2, r3}
    Steps = {}
    Attempts = {}
    Reservations = {}
    Calls = {}
    Effects = {}
    Requests = {c1}
    Numbers = {1}
    NoParent = NoParent
SYMMETRY Symmetry
PROPERTIES
    DagCancelled
CHECK_DEADLOCK FALSE
