SPECIFICATION Spec
CONSTANTS
    i1 = i1
    i2 = i2
    Request = {r1, r2, r3}
    Instance = {i1, i2}
    Skew = 2
    World <- Surroundings
    MaxTokens = 4
SYMMETRY Symmetry
INVARIANTS SingleFlight NotStranded LiveSessionServed
PROPERTIES ServedTokenAlive RefreshNeverExtends StoreNeverRegresses
