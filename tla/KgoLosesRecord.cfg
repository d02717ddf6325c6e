CONSTANTS
    Consumers = {c1}
    Partitions = {p1}
    NoOne = NoOne
    NoPartition = NoPartition
    LogEnd = 2
    Gaps = {}
    FaultKinds = {"timeout"}
    DlqOutcomes = {"ok", "context"}
    MaxFaults = 1
    MaxMoves = 0
    MaxCallbacks = 0
SPECIFICATION Spec
INVARIANTS
    NoRecordLost
