-------------------------- MODULE WorkflowValidator --------------------------
(***************************************************************************)
(* core/workflow_validator.py: the loops of find_workflow_errors, one       *)
(* action per turn of a loop.                                              *)
(*                                                                         *)
(* The checks that look at one step at a time are one flag, ok; they may    *)
(* fail where the code tests them, before the loops, after the searches for *)
(* context sources or at the layers of the roots.  The searches are alike   *)
(* and each starts anew, so that there is one, for any step.  It is the     *)
(* search of ContextBuilder.get_all_predecessors too.  The deques are sets: *)
(* they are emptied in any order.                                          *)
(***************************************************************************)
EXTENDS Naturals, WorkflowDag

\* A workflow is parsed from a list of steps.
ASSUME StepFiniteAssumption == IsFiniteSet(Step)

VARIABLES
    stage,      \* the loop that the validator is in
    errors,     \* the list of errors is not empty
    target,     \* the step whose ancestors are searched, or EndNode
    found,      \* found of the search, visited of the reachability pass
    queue,      \* the deque of the loop
    remaining,  \* indegree, and its copy that Kahn's pass counts down
    processed   \* steps counted by Kahn's pass

validatorVars == <<stage, errors, target, found, queue, remaining, processed>>

Stages == {"checks", "upstream", "reachability", "topological", "over"}

(* graph[s] of the code, an edge from a step to itself left out.           *)
Successors(E, s) == {t \in Step : s \in Preds(E, t)}

ValidatorInit ==
    /\ stage = "checks" /\ errors = FALSE
    /\ target = EndNode /\ found = {} /\ queue = {}
    /\ remaining = [t \in Step |-> 0] /\ processed = 0

Refuse ==
    /\ stage' = "over" /\ errors' = TRUE
    /\ UNCHANGED <<target, found, queue, remaining, processed>>

(* Everything up to the first "if errors", the indegrees included.         *)
CheckSteps(E, ok) ==
    /\ stage = "checks"
    /\ \/ ~ok /\ Refuse
       \/ (Step = {} \/ \E s \in Step : <<s, s>> \in E) /\ Refuse
       \/ /\ Step # {} /\ \A s \in Step : <<s, s>> \notin E
          /\ stage' = "upstream"
          /\ remaining' = [t \in Step |-> Cardinality(Preds(E, t))]
          /\ UNCHANGED <<errors, target, found, queue, processed>>

(* ancestors(t): the search for one step begins.                           *)
SearchFrom(t) ==
    /\ stage = "upstream" /\ target = EndNode
    /\ target' = t /\ queue' = {t} /\ found' = {}
    /\ UNCHANGED <<stage, errors, remaining, processed>>

(* Mutant: what is found is not searched from. *)
SearchWithoutQueueing(E) ==
    /\ stage = "upstream"
    /\ \E u \in queue :
         /\ found' = found \cup Preds(E, u)
         /\ queue' = queue \ {u}
    /\ UNCHANGED <<stage, errors, target, remaining, processed>>

(* The turn for one step of the queue.                                     *)
Search(E) ==
    /\ stage = "upstream"
    /\ \E u \in queue :
         /\ found' = found \cup Preds(E, u)
         /\ queue' = (queue \ {u}) \cup (Preds(E, u) \ found)
    /\ UNCHANGED <<stage, errors, target, remaining, processed>>

SearchOver == stage = "upstream" /\ target # EndNode /\ queue = {}

(* The sources are compared with what was found; roots and their layers.   *)
FindRoots(ok) ==
    LET roots == {t \in Step : remaining[t] = 0}
    IN /\ stage = "upstream" /\ queue = {}
       /\ \/ ~ok /\ Refuse
          \/ roots = {} /\ Refuse
          \/ /\ roots # {}
             /\ stage' = "reachability" /\ errors' = ~ok
             /\ target' = EndNode /\ found' = {} /\ queue' = roots
             /\ UNCHANGED <<remaining, processed>>

Visit(E) ==
    /\ stage = "reachability"
    /\ \E u \in queue :
         /\ found' = found \cup {u}
         /\ queue' = IF u \in found THEN queue \ {u}
                                    ELSE (queue \ {u}) \cup Successors(E, u)
    /\ UNCHANGED <<stage, errors, target, remaining, processed>>

EndVisits ==
    /\ stage = "reachability" /\ queue = {}
    /\ stage' = "topological" /\ errors' = (errors \/ found # Step)
    /\ queue' = {t \in Step : remaining[t] = 0}
    /\ UNCHANGED <<target, found, remaining, processed>>

(* A turn of Kahn's pass: u is done, its successors wait for one less.     *)
Process(E) ==
    /\ stage = "topological"
    /\ \E u \in queue :
         /\ processed' = processed + 1
         /\ remaining' = [t \in Step |-> IF t \in Successors(E, u)
                                           THEN remaining[t] - 1 ELSE remaining[t]]
         /\ queue' = (queue \ {u})
                       \cup {t \in Successors(E, u) : remaining[t] = 1}
    /\ UNCHANGED <<stage, errors, target, found>>

(* Mutant: the verdict does not depend on Kahn's pass. *)
EndPassUnread ==
    /\ stage = "topological" /\ queue = {}
    /\ stage' = "over" /\ UNCHANGED errors
    /\ UNCHANGED <<target, found, queue, remaining, processed>>

EndPass ==
    /\ stage = "topological" /\ queue = {}
    /\ stage' = "over"
    /\ errors' = (errors \/ (processed # Cardinality(Step) /\ found = Step))
    /\ UNCHANGED <<target, found, queue, remaining, processed>>

ValidatorNext(E, ok) ==
    \/ CheckSteps(E, ok) \/ (\E t \in Step : SearchFrom(t)) \/ Search(E)
    \/ FindRoots(ok) \/ Visit(E) \/ EndVisits \/ Process(E) \/ EndPass

=============================================================================
