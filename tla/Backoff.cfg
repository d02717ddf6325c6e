CONSTANTS
    Bases = {0, 3, 20, 200}
    Maxes = {0, 10, 500, 10000}
    Factors <- SomeFactors
    MaxWaits = 12
SPECIFICATION Spec
INVARIANTS
    DelayNeverExceedsMax
    PanicsOnlyIfMisconfigured
PROPERTIES
    DelaysGrow
