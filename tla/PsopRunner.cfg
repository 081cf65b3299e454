\* Every consumer and every way an execution of up to three events ends.
SPECIFICATION FairSpec
CONSTANTS
    MaxEvents = 3
INVARIANTS
    OrderedHistory VerdictAfterClose EndedCleanly
PROPERTIES
    Ends
