SPECIFICATION TestSpec
CONSTANTS
    Keys = {"team", "player"}
    Values = {"madrid", "benzema", "bellingham", ""}
    EmptyValue = ""
    TooLargeKeys = {}
    TooLargeValues = {}
    MaxLog = 3
    RebuildStarts = {0}
    EnvFaults = {}
    IOFaults = TRUE
INVARIANTS
    SoleUser
    WorkerMeetsFailpoint
    ReachedMeansPass
PROPERTIES
    TestReturns
