CONSTANTS
    Workers = {w1, w2}
    p1 = p1
    p2 = p2
    t1 = t1
    t2 = t2
    u1 = u1
    u2 = u2
    a = a
    b = b
    Partitions = {p1, p2}
    Aggregates = {a, b}
    Topics <- AnyOrder
    AlarmValue = 10
    FaultKinds = {"permanent"}
    MaxFaults = 1
    MaxRedeliveries = 0
SPECIFICATION Spec
INVARIANT SagaUnwindsInAnyOrder
