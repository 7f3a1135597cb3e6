SPECIFICATION LiveSpec
CONSTANTS
    Items = {i1}
    Workers = {w1}
    LeaseIds = {l1}
    NoLease = NoLease
    CallerLease = CallerLease
    MaxAttempts = 1
    GrantLimit = 2
    VersionLimit = 2
PROPERTIES
    ClaimsRecovered
CHECK_DEADLOCK FALSE
