SPECIFICATION Spec
CONSTANTS
    Keys = {k1, k2}
    Values = {empty, v}
    EmptyValue = empty
    TooLargeKeys = {}
    TooLargeValues = {}
    MaxLog = 3
    RebuildStarts = {0, 2}
    EnvFaults = {}
    IOFaults = TRUE
SYMMETRY KeySymmetry
INVARIANTS
    RecoveredIndexIsExact
    AcknowledgedWriteIsVisible
PROPERTY
    EntriesBecomeNewest
