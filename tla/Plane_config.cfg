SPECIFICATION PlaneSpec
CONSTANTS
    Parts = {"admin"}
    None = None
    Admins = {t1, t2}
    AdminParts <- MCConfig
    Settings = {on, off}
    NoRow = NoRow
    MaxHooks = 2
    MaxAlerts = 2
    MaxAdminOps = 3
    Requests <- MCRequests
    Pool <- MCPool
    RoutingPolicy <- MCPolicy
    Catalogue <- MCCatalogue
    Pullable <- MCPullable
    Offers <- MCOffers
    Measured <- MCMeasured
    Versions = {v1}
    Evidence <- MCEvidence
    MinRuns = 2
    MaxFleetOps = 4
    Cohorts <- MCCohorts
    Strategies = {"strict", "majority", "optimistic"}
    Budgets = {120}
    ImproveModes <- MCModes
    Suite <- MCSmallSuite
    CohortReports <- MCReports
    Services = {gw}
    MaxCycles = 2
    MaxStarts = 2
    BenchModels <- MCBenchModels
    BenchCohorts <- MCBenchCohorts
    Latencies = {1, 4}
    Models <- MCModels
    Hosts <- MCHosts
    Options <- MCOptions
    Blocks = 2
    MaxRuns = 2
    OwnKey = "own"
    Unset = Unset
    ClaimIds = {"claim1"}
    EvidenceIds = {"ev1", "ev2"}
    CriterionIds = {"k1"}
    Grades <- MCGrades
    Predictions = {0, 40, 100}
    Requires <- MCRequires
    Threshold = 50
    MinRecords = 2
    MaxEpistemic = 4
    Unasked = Unasked
    ReqIds = {r1, r2}
    ReqTests = {e1}
    Gates = {g1}
    Packages = {w1}
    ReqCommands = {c1, c2}
    MaxReqCommands = 4
    NoGate = NoGate
    NoEnvelope = NoEnvelope
    Torn = Torn
    Threads = {h1, h2}
    Projects = {p1}
    Texts = {x1, x2}
    MaxSteps = 2
    MaxCalls = 2
    MaxRequests = 4
    Nobody = Nobody
    Callers = {t1, t2}
    Conversations <- MCConversations
    Configs <- MCConfigs
    NoTool = NoTool
    Lifetime = 2
    MaxCompressions = 3
    MaxClock = 2
    ReportedRuns = {"n1", "n2", "n3", "n4"}
    Histories <- MCHistories
    FirstCosts = {900}
    Outcomes <- MCOutcomes
    Spans <- MCSpans
    DayHours = 2
    TrendDays = 30
    PeakDays = 7
    PeakRows = 1
    FirstHour = 1
    LastHour = 2
INVARIANT ConfigCurrent
CHECK_DEADLOCK FALSE
