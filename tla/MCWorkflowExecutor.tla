------------------------- MODULE MCWorkflowExecutor -------------------------
(***************************************************************************)
(* Instances of WorkflowExecutor for TLC.                                  *)
(***************************************************************************)
EXTENDS WorkflowExecutor, TLC

CONSTANTS s1, s2, s3, s4, end

Steps4 == {s1, s2, s3, s4}

Symmetry4 == Permutations(Steps4)

WorkflowOf(E, C, w) == [edges |-> E, conditional |-> C, wellFormed |-> w]

InnerEdges == {e \in Step \X Step : e[1] # e[2]}

(* Every loop-free graph, any of its edges conditional.                    *)
LoopFree ==
    UNION {{WorkflowOf(E, C, TRUE) : C \in SUBSET E} :
              E \in {E \in SUBSET InnerEdges : Acyclic(E)}}
=============================================================================
