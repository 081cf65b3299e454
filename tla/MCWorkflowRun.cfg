\* Verdicts, refinement and termination on every graph of three steps.
SPECIFICATION FairRunSpec
CONSTANTS
    s1 = s1
    s2 = s2
    s3 = s3
    end = end
    EndNode = end
    Step = {s1, s2, s3}
    Workflows <- AllGraphs
INVARIANTS
    FailureHasCause LoopsExact
PROPERTIES
    NothingStartsAfterFailure OrderSpec StepsKeepPhase Termination
