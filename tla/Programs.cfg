CONSTANTS
    Consumers = {c1, c2, c3}
    Amount = 2
SPECIFICATION FairSpec
INVARIANTS
    TypeOK
    ResourcesOutliveUse
    ReleasedInReverse
    ExitCodeTells
PROPERTIES
    OneStopsAll
