---------------------------- MODULE WorkflowDag ----------------------------
(***************************************************************************)
(* The step graph of a workflow, as the scheduler and the validator see    *)
(* it: a set E of edges <<source, target>>.  Targets outside Step are the  *)
(* reserved terminal targets ("end", "retry", "endNode").                  *)
(*                                                                         *)
(* The transitive closure and acyclicity are stated by quantifying over    *)
(* sets of steps instead of by recursion, so that the modules built on     *)
(* this one can be proved about for every graph, finite or not.            *)
(***************************************************************************)
EXTENDS FiniteSets

CONSTANTS
    Step,       \* names of the steps of the workflow
    EndNode     \* stands for every reserved terminal target

ASSUME EndNodeAssumption == EndNode \notin Step

Edges == Step \X (Step \cup {EndNode})

(***************************************************************************)
(* ContextBuilder.get_step_predecessors: the direct predecessors of t.     *)
(* An edge from a step to itself never counts.                             *)
(***************************************************************************)
Preds(E, t) == {s \in Step : <<s, t>> \in E /\ s # t}

Roots(E) == {t \in Step : Preds(E, t) = {}}

(***************************************************************************)
(* ContextBuilder.get_all_predecessors: the breadth-first closure of       *)
(* Preds from t, i.e. the least set that holds the direct predecessors of  *)
(* t and, with every step, the direct predecessors of that step.           *)
(***************************************************************************)
ClosedFrom(E, t, S) ==
    /\ Preds(E, t) \subseteq S
    /\ \A u \in S : Preds(E, u) \subseteq S

Ancestors(E, t) ==
    {s \in Step : \A S \in SUBSET Step : ClosedFrom(E, t, S) => s \in S}

(***************************************************************************)
(* Kahn's algorithm leaves a step unprocessed exactly when some non-empty  *)
(* set of steps has all its members waiting for another member.            *)
(***************************************************************************)
Acyclic(E) ==
    \A S \in (SUBSET Step) \ {{}} : \E s \in S : Preds(E, s) \cap S = {}

=============================================================================
