SPECIFICATION ProtocolsSpec
CONSTANTS
    Protocols = {"authority", "idempotency", "journal", "outbox", "stream", "circuit"}
    Runs = {r1, r2}
    Costs = {1, 2}
    Limit = 2
    Replicas = {g1, g2}
    NoReceipt = NoReceipt
    Nothing = Nothing
    SnapshotLimit = 4
    Keys = {k1}
    Bindings = {b1, b2}
    Clients = {c1, c2, c3}
    NoAnswer = NoAnswer
    ClaimLimit = 5
    EffectIds = {e1, e2}
    Attempts = {a1, a2}
    Intents = {n1, n2}
    Events = {o1, o2, o3}
    Publishers = {p1, p2}
    BatchSize = 2
    StreamWorkers = {v1, v2}
    MaxToken = 3
    Durations = {0, 1, 2}
    MaxTime = 5
    MaxExpiry = 10
    NoOwner = NoOwner
    Callers = {d1, d2, d3}
    FailureThreshold = 3
    SuccessThreshold = 2
    FailureLimit = 6
INVARIANTS
    AccountStored
    AccountBalanced
    AnswerOfRecord
    EffectsAccounted
    NeverTwoOwners
    CircuitSound
PROPERTIES
    ImplementsRuntime
    ImplementsCore
    HandedInOrder
    Progress
CHECK_DEADLOCK FALSE
