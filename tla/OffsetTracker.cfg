CONSTANTS
    Partitions = {p1, p2}
    LogEnd = 4
    MaxEpoch = 1
SPECIFICATION Spec
INVARIANTS
    TypeOK
    CommittableIsRunEnd
    CommittableEpochMatchesRecord
