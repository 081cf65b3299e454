---------------------------- MODULE MCWorkflowRun ----------------------------
(* Instances of WorkflowRun for TLC.                                       *)
EXTENDS WorkflowRun

CONSTANTS s1, s2, s3, end

WorkflowOf(E, C, w) == [edges |-> E, conditional |-> C, wellFormed |-> w]

(* Every graph, cycles, self-edges and terminal edges included; those       *)
(* without a cycle with all of their edges conditional too; and those       *)
(* without terminal edges with a failing local check.                      *)
AllGraphs ==
    {WorkflowOf(E, {}, TRUE) : E \in SUBSET Edges}
    \cup {WorkflowOf(E, E, TRUE) : E \in {E \in SUBSET Edges : Acyclic(E)}}
    \cup {WorkflowOf(E, E, FALSE) : E \in SUBSET (Step \X Step)}
=============================================================================
