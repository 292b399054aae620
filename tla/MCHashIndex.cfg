SPECIFICATION FairSpec
CONSTANTS
    k1 = k1
    k2 = k2
    k3 = k3
    k4 = k4
    longKey = longKey
    Keys <- MCKeys
    LongKeys = {longKey}
    NumBuckets = 2
    Hash <- MCHash
    DbOffsets = {1, 2}
    MaxEntries = 3
    IOFaults = TRUE
INVARIANTS
    ChainInv
    ChainsDescend
    ChainsStayInBucket
    KeysAreLinkedOnce
    StatsCountKeys
PROPERTIES
    ImplementsIndexMap
    CallsTerminate
