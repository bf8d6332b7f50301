SPECIFICATION FairSpec
CONSTANTS
    i1 = i1
    i2 = i2
    Request = {r1, r2}
    Instance = {i1}
    Skew = 2
    World <- Hostile
    MaxTokens = 5
PROPERTIES EveryRequestReturns
