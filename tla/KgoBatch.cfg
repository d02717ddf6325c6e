CONSTANTS
    Consumers = {c1}
    Partitions = {p1, p2}
    NoOne = NoOne
    NoPartition = NoPartition
    LogEnd = 4
    Gaps <- GapsApart
    FaultKinds = {"commit", "timeout", "crash"}
    DlqOutcomes = {"ok", "broker", "context"}
    MaxFaults = 2
    MaxMoves = 0
    MaxCallbacks = 1
SPECIFICATION Spec
INVARIANTS
    ConsumedInOrder
PROPERTIES
    SkipsOnlyAtHead
