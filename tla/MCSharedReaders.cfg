SPECIFICATION Spec
CONSTANTS
    Keys = {k1}
    MaxLog = 2
    Readers = {p1, p2, p3}
    BucketCounts = {1, 2}
SYMMETRY ReaderSymmetry
INVARIANTS
    ReadyReadersFind
    CleanFlagIsTrue
    OnlyLostIndexThrows
