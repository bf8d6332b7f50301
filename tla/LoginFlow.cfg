SPECIFICATION FairSpec
CONSTANTS
    Flow = {legacy, f1, f2}
    Legacy = legacy
    Plain = Plain
    None = None
    Limit = {1, 2}
    Concurrency = 2
    FaultKinds = {"ttl", "key", "deny", "exchange", "lose", "userinfo", "issue", "logout"}
    MaxFaults = 1
    MaxReloads = 1
INVARIANTS SignInsIndependent ExchangeOwnState SingleUse LoginCookiesBounded
PROPERTIES EveryCallbackAnswered
