SPECIFICATION Spec
CONSTANTS
    Keys = {k1}
    Values = {empty}
    EmptyValue = empty
    TooLargeKeys = {}
    TooLargeValues = {}
    MaxLog = 2
    RebuildStarts = {0}
    EnvFaults = {"rm_index"}
    IOFaults = FALSE
INVARIANT
    IndexIsDisposable
