SPECIFICATION Spec
CONSTANTS
    Items = {i1}
    Workers = {w1, w2}
    LeaseIds = {l1, l2}
    NoLease = NoLease
    CallerLease = CallerLease
    MaxAttempts = 1
    GrantLimit = 2
    VersionLimit = 1
SYMMETRY Symmetry
PROPERTY FenceMonotone
CHECK_DEADLOCK FALSE
