\* Every step of up to three subtasks and two edges.
SPECIFICATION FairSpec
CONSTANTS
    u1 = u1
    u2 = u2
    u3 = u3
    e1 = e1
    e2 = e2
    Subtask = {u1, u2, u3}
    Edge = {e1, e2}
INVARIANTS
    VerdictMatchesResults NothingBehindVerdict LosersCancelled RoutesAllDecided
PROPERTIES
    StepSpec AllQuiet
