\* Safety on every loop-free graph of four steps.
SPECIFICATION Spec
CONSTANTS
    s1 = s1
    s2 = s2
    s3 = s3
    s4 = s4
    end = end
    EndNode = end
    Step = {s1, s2, s3, s4}
    Workflows <- LoopFree
SYMMETRY Symmetry4
INVARIANTS
    MergeSafe WindowComplete LaunchedAsRouted SuccessIsComplete
