CONSTANTS
    Workers = {w1, w2}
    p1 = p1
    p2 = p2
    t1 = t1
    t2 = t2
    u1 = u1
    u2 = u2
    a = a
    b = b
    Partitions = {p1, p2}
    Aggregates = {a, b}
    Topics <- SagasAndRepeated
    AlarmValue = 10
    FaultKinds = {"transient", "permanent", "commit"}
    MaxFaults = 2
    MaxRedeliveries = 2
SPECIFICATION Spec
SYMMETRY WorkerSymmetry
INVARIANTS
    TypeOK
    AggregatesMatchLogs
    CountIsExact
    CrossingsAreTold
    SagaUnwinds
    NoCircleOfWaits
PROPERTIES
    LedgerSafety
