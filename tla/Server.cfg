SPECIFICATION Spec
CONSTANTS
    c1 = c1
    c2 = c2
    c3 = c3
    Clients <- MCClients
    Keys <- MCKeys
    NoKey = NoKey
    Wants <- MCWants
    RoleOf <- MCRoleOf
    Entries <- MCEmbedded
    MaxRequests = 2
    Burst = 2
    Rate = 1
    MaxTicks = 1
    MaxSignals = 1
    MaxKeyChanges = 1
INVARIANTS
    SlotsSound
    DrainedBeforeExit
    RevokedNotServed
    KeyHandedOver
    AuditedBeforeRun
SYMMETRY Symmetry
CHECK_DEADLOCK FALSE
