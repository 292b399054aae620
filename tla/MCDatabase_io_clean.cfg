SPECIFICATION Spec
CONSTANTS
    Keys = {k1, k2}
    Values = {empty}
    EmptyValue = empty
    TooLargeKeys = {}
    TooLargeValues = {}
    MaxLog = 2
    RebuildStarts = {0}
    EnvFaults = {}
    IOFaults = TRUE
INVARIANT
    CleanIndexAnswersWithContents
