\* A remote that may name two tasks, in two contexts; three exchanges.
SPECIFICATION FairSpec
CONSTANTS
    t1 = t1
    t2 = t2
    c1 = c1
    c2 = c2
    Task = {t1, t2}
    NoTask = NoTask
    Context = {c1, c2}
    MaxRound = 2
    NoProposal = NoProposal
    Malformed = Malformed
    MaxExchanges = 3
INVARIANTS
    TypeOK KnownTaskCancelled OneSendPerReply RoundsAskedOnce SuccessUnspoilt
PROPERTIES
    IdentityKept Termination
