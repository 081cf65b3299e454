------------------------------ MODULE StepPhase ------------------------------
(***************************************************************************)
(* What the wave scheduler relies on from one step it has handed out: the  *)
(* results of the step are recorded once, before it reports anything; a    *)
(* step that reports success has recorded results; only a step that asks   *)
(* on_route can fail over its routes; a successful step, and no other,     *)
(* hands back targets, those of the unconditional edges always among them; *)
(* a step that is stopped reports nothing more; and a step that is over    *)
(* stays over.                                                             *)
(***************************************************************************)
CONSTANT Target         \* what the step may route to

VARIABLES
    asks, sure, may,    \* some edge is conditional; targets of the other edges, of all
    stopped,            \* the scheduler was cancelled
    phase, recorded, routed

edgeVars == <<asks, sure, may>>

vars == <<edgeVars, stopped, phase, recorded, routed>>

Over == {"succeeded", "failed", "raised", "cancelled"}

Init ==
    /\ asks \in BOOLEAN /\ may \in SUBSET Target /\ sure \in SUBSET may
    /\ stopped = FALSE
    /\ phase = "queued" /\ recorded = FALSE /\ routed = {}

Start ==
    /\ phase = "queued" /\ ~stopped
    /\ phase' = "tasks"
    /\ UNCHANGED <<edgeVars, stopped, recorded, routed>>

(* Only a successful step goes on to its routing callbacks.                *)
Record ==
    /\ phase = "tasks" /\ ~stopped
    /\ phase' \in {"routing", "failed"} /\ recorded' = TRUE
    /\ UNCHANGED <<edgeVars, stopped, routed>>

Route ==
    /\ phase = "routing" /\ ~stopped
    /\ phase' = "succeeded"
    /\ sure \subseteq routed' /\ routed' \subseteq may
    /\ ~asks => routed' = may
    /\ UNCHANGED <<edgeVars, stopped, recorded>>

Fail ==
    /\ phase = "routing" /\ ~stopped /\ asks
    /\ phase' = "raised"
    /\ UNCHANGED <<edgeVars, stopped, recorded, routed>>

(* A stopped step unwinds; one that waits for a callback of the host may be *)
(* cancelled by it.                                                        *)
Cancel ==
    /\ phase \notin Over
    /\ stopped \/ phase = "tasks" \/ (phase = "routing" /\ asks)
    /\ phase' = "cancelled"
    /\ UNCHANGED <<edgeVars, stopped, recorded, routed>>

Stop ==
    /\ ~stopped /\ stopped' = TRUE
    /\ UNCHANGED <<edgeVars, phase, recorded, routed>>

Move == Start \/ Record \/ Route \/ Fail \/ Cancel

Next == Move \/ Stop

Spec == Init /\ [][Next]_vars
=============================================================================
