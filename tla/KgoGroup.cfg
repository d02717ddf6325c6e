CONSTANTS
    Consumers = {c1, c2}
    Partitions = {p1}
    NoOne = NoOne
    NoPartition = NoPartition
    LogEnd = 2
    Gaps = {}
    FaultKinds = {"crash", "expire", "fetch", "commit", "shutdown"}
    DlqOutcomes = {"ok", "context"}
    MaxFaults = 1
    MaxMoves = 1
    MaxCallbacks = 1
SPECIFICATION Spec
SYMMETRY ConsumerSymmetry
INVARIANTS
    TypeOK
    CommittedAccounted
    AccountInv
    AheadOfCommitted
PROPERTIES
    CommittedNeverDecreases
