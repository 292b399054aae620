SPECIFICATION Spec
CONSTANTS
    Base = 3
    LengthBytes = 1
    ChecksumBytes = 2
    MAX_KEY_SIZE = 1
    MAX_VALUE_SIZE = 2
    MaxRecords = 2
    Keys <- MCKeys
    Values <- MCValues
    crc32c <- MCcrc32c
CHECK_DEADLOCK FALSE
INVARIANTS
    ScanFindsCompleteRecords
    RecordsBeforeFragmentAreFound
    DamageIsReported
