----------------------------- MODULE StepOrder -----------------------------
(***************************************************************************)
(* What a workflow execution promises its host, whatever the scheduler     *)
(* does: steps are handed out at most once; a step is handed out only as a *)
(* root or because a recorded predecessor leads to it; at that moment no   *)
(* ancestor of it is still open, and no descendant of it was handed out    *)
(* before, so the results a step is given are the results of every         *)
(* ancestor that takes part in the execution; an execution is successful   *)
(* only when nothing is left open; and once there is a verdict nothing     *)
(* moves any more.                                                         *)
(***************************************************************************)
EXTENDS WorkflowDag

VARIABLES
    edges,      \* the step graph; never changes
    launched,   \* steps handed out
    recorded,   \* those with results
    verdict     \* "open", then how the execution ended

vars == <<edges, launched, recorded, verdict>>

Verdicts == {"succeeded", "failed", "rejected", "cancelled"}

Init ==
    /\ edges \in SUBSET Edges
    /\ launched = {} /\ recorded = {}
    /\ verdict = "open"

MayLaunch(s) ==
    /\ s \notin launched
    /\ Ancestors(edges, s) \cap launched \subseteq recorded
    /\ \A t \in launched : s \notin Ancestors(edges, t)
    /\ Preds(edges, s) = {} \/ Preds(edges, s) \cap recorded # {}

Launch(S) ==
    /\ verdict = "open" /\ S # {}
    /\ \A s \in S : MayLaunch(s) /\ Ancestors(edges, s) \cap S = {}
    /\ launched' = launched \cup S
    /\ UNCHANGED <<edges, recorded, verdict>>

Record(s) ==
    /\ verdict = "open" /\ s \in launched \ recorded
    /\ recorded' = recorded \cup {s}
    /\ UNCHANGED <<edges, launched, verdict>>

Conclude(v) ==
    /\ verdict = "open"
    /\ v = "succeeded" => launched = recorded
    /\ v = "rejected" => launched = {}
    /\ verdict' = v
    /\ UNCHANGED <<edges, launched, recorded>>

Next ==
    \/ \E S \in SUBSET Step : Launch(S)
    \/ \E s \in Step : Record(s)
    \/ \E v \in Verdicts : Conclude(v)

Spec == Init /\ [][Next]_vars
=============================================================================
