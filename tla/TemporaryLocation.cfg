SPECIFICATION Spec
CONSTANTS
    Rebuilds = {r1, r2}
    Tests = {t1}
    Names = {n1, n2}
    MaxAttempts = 2
    Nobody = Nobody
    Foreign = Foreign
INVARIANTS
    Exclusive
    LeftoversAreExcused
PROPERTIES
    ForeignIsUntouched
    SearchEnds
