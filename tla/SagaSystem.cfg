CONSTANTS
    Workers = {w1, w2}
    p1 = p1
    p2 = p2
    t1 = t1
    t2 = t2
    a = a
    b = b
    Partitions = {p1, p2}
    Aggregates = {a, b}
    Values <- Contents
    Topics <- Registrations
    FaultKinds = {"transient", "permanent", "commit"}
    MaxFaults = 1
    MaxRedeliveries = 1
SPECIFICATION SystemSpec
INVARIANTS
    SystemTypeOK
    CompensationFollows
    RejectedAreCompensated
    CompensatedOncePerCommit
    OnlyValidRemains
PROPERTIES
    EverySagaEnds
