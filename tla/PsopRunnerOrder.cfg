\* Does close follow the verdict?
SPECIFICATION Spec
CONSTANTS
    MaxEvents = 1
INVARIANTS
    VerdictThenClose
