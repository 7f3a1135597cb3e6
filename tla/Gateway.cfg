SPECIFICATION Spec
CONSTANTS
    t1 = t1
    t2 = t2
    Runs <- MCRuns
    Tenants <- MCTenants
    NoTenant = NoTenant
    DefaultTenant = DefaultTenant
    NoReceipt = NoReceipt
    NoRow = NoRow
    Capacities <- MCCapacities
    Workloads <- MCWorkloads
    Projects <- MCProjects
    Switches <- MCSwitches
    Compress <- MCCompress
    Providers <- MCProviders
    LocalPlan = "qwen"
    CacheSize = 1
    Leaving <- MCLeaving
    MaxFaults = 2
INVARIANTS
    LedgerSound
    AcceptedOnEvidence
    AnsweredIsDurable
    CachedAnswerOwn
    ChargedOnce
    StoppedIsUnanswered
CHECK_DEADLOCK FALSE
