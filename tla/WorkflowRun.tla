----------------------------- MODULE WorkflowRun -----------------------------
(***************************************************************************)
(* run() with its validation in full: the loops of WorkflowValidator come  *)
(* first, and the execution begins with the verdict that they computed.    *)
(***************************************************************************)
EXTENDS WorkflowExecutor, WorkflowValidator

runVars == <<vars, validatorVars>>

RunInit == Init /\ ValidatorInit

Validate ==
    /\ run = "new"
    /\ ValidatorNext(workflow.edges, workflow.wellFormed)
    /\ UNCHANGED vars

BeginRun == stage = "over" /\ BeginIf(~errors) /\ UNCHANGED validatorVars

Execute == run # "new" /\ Next /\ UNCHANGED validatorVars

RunNext == Validate \/ BeginRun \/ Execute

RunSpec == RunInit /\ [][RunNext]_runVars

\* Validation does not await.
FairRunSpec == RunSpec /\ WF_runVars(Validate) /\ WF_runVars(BeginRun) /\ LoopFairness

-----------------------------------------------------------------------------
(***************************************************************************)
(* The loops compute what the scheduler relies on: the search ends with    *)
(* the ancestors of its step, and the validation with an error exactly if  *)
(* the workflow has a cycle or fails a check of a single step.             *)
(***************************************************************************)
LoopsExact ==
    /\ SearchOver => found = Anc(target)
    /\ stage = "over" => errors = ~Valid(workflow)

=============================================================================
