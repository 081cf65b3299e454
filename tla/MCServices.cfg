\* Three requests, two calls, three executions and one card update.
SPECIFICATION Spec
CONSTANTS
    MaxTime = 3
    Request = {r1, r2, r3}
    r1 = r1
    r2 = r2
    r3 = r3
    operation <- MCOperation
    NoRequest = nobody
    Ttl = 2
    MaxLogins = 3
    Call = {c1, c2}
    NoCall = nobody
    Scheme = {"basic", "bearer", "key", "undeclared"}
    Usable = {"basic", "bearer", "key"}
    Header <- MCHeader
    Values <- MCValues
    Accept <- MCAccept
    NoAccept = "any"
    NoValue = "none"
    TokenTtl = 2
    Requirements <- MCRequirements
    Execution = {e1, e2, e3}
    NoExecution = nobody
    MaxUpdates = 1
INVARIANTS
    RetriedOnceWithNewToken
    AppliedGroupComplete
    BoundToOne
    CachedClientCurrent
PROPERTIES
    RenewedForCause
    LoginsShared
    EveryCallEnds
CHECK_DEADLOCK FALSE
