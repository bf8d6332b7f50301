SPECIFICATION MCSpec
CONSTANTS
    Second = 2
    TTL = 3
    Skew = 1
    Drift = 1
    SessionTTL = 1
    TokenTTL = 2
    Work = 1
    Key = {k1, k2}
    None = None
    MaxTime = 9
SYMMETRY Symmetry
INVARIANTS ReplayBounded FreshNeverRefused RevocationBounded
