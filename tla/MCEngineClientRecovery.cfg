\* A poll that fails during recovery.
SPECIFICATION FairSpec
CONSTANTS
    t1 = t1
    t2 = t2
    c1 = c1
    c2 = c2
    Task = {t1}
    NoTask = NoTask
    Context = {c1, c2}
    MaxRound = 2
    NoProposal = NoProposal
    Malformed = Malformed
    MaxExchanges = 2
PROPERTIES
    RecoveryPersists
