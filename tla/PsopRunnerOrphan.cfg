\* Does the workflow end with the generator?
SPECIFICATION Spec
CONSTANTS
    MaxEvents = 1
INVARIANTS
    NoOrphan
