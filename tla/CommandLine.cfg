SPECIFICATION ContractSpec
CONSTANTS
    Keys = {k1, k2}
    Values = {empty, v, longValue}
    EmptyValue = empty
    TooLargeKeys = {}
    TooLargeValues = {longValue}
    MaxLog = 3
    RebuildStarts = {0}
    EnvFaults = {}
    IOFaults = TRUE
INVARIANTS
    ReportsAgree
