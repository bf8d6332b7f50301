SPECIFICATION FairSpec
CONSTANTS
    Goroutine = {g1, g2, g3}
    Key = {k1, k2}
    Ref = {r1, r2, r3}
    NoRef = NoRef
    Nobody = Nobody
INVARIANT RefsCountUsers
PROPERTIES ImplementsKeyLock EveryWaiterServed
