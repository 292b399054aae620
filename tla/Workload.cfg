SPECIFICATION WorkSpec
CONSTANTS
    Keys = {k1, k2}
    Values = {v, w, big}
    EmptyValue = v
    TooLargeKeys = {}
    TooLargeValues = {big}
    MaxLog = 4
    RebuildStarts = {0}
    EnvFaults = {}
    IOFaults = TRUE
    Overwrites = 1
INVARIANTS
    OnlyJustifiedFailures
    SuccessLeavesNothing
PROPERTIES
    RunsEnd
