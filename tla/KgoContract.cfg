CONSTANTS
    Consumers = {c1, c2}
    Partitions = {p1}
    NoOne = NoOne
    NoPartition = NoPartition
    LogEnd = 3
    Gaps <- GapAtOne
    FaultKinds = {"crash", "timeout"}
    DlqOutcomes = {"ok"}
    MaxFaults = 1
    MaxMoves = 2
    MaxCallbacks = 2
SPECIFICATION ResponsiveSpec
INVARIANTS
    SettledInv
    SingleProcessor
    BlockedBatchIsCancelled
PROPERTIES
    AtLeastOnceSafety
    BlockedPollEnds
    AtLeastOnceProgress
