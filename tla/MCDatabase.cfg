SPECIFICATION FairSpec
CONSTANTS
    Keys = {k1, k2, longKey}
    Values = {empty, v, longValue}
    EmptyValue = empty
    TooLargeKeys = {longKey}
    TooLargeValues = {longValue}
    MaxLog = 4
    RebuildStarts = {0}
    EnvFaults = {"rm_index", "damage_index", "rm_db"}
    IOFaults = FALSE
INVARIANTS
    TypeOK
    IInv
    CleanIndexRepresentsLog
    UnfinishedSessionIsRecovered
    CheckpointIsTrue
    RecoveredIndexIsExact
    RefusalIsJustified
PROPERTIES
    CompleteRecordsAreKept
    ImplementsKVStore
    CallsTerminate
    ReadyOnceCrashesStop
