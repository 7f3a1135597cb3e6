SPECIFICATION FencedSpec
CONSTANTS
    Items = {i1}
    Workers = {w1, w2}
    LeaseIds = {l1, l2}
    NoLease = NoLease
    CallerLease = CallerLease
    MaxAttempts = 2
    GrantLimit = 2
    VersionLimit = 1
SYMMETRY Symmetry
INVARIANTS
    ClaimsConsistent
    AcceptedIsLatest
PROPERTIES
    FenceMonotone
    TerminalNeverRevived
CHECK_DEADLOCK FALSE
