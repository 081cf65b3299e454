-------------------------- MODULE WorkflowExecutor --------------------------
(***************************************************************************)
(* core/executor.py: one WorkflowExecutor running one workflow.            *)
(*                                                                         *)
(* The executor is a wave scheduler.  LaunchWave takes every pending step  *)
(* whose activated ancestors have all produced output and hands them to    *)
(* one asyncio.gather; the steps of the wave then interleave; JoinWave     *)
(* runs when the last of them is over, and activates the targets the       *)
(* routing callbacks allowed.  Between JoinWave and the next LaunchWave    *)
(* the code does not await, so the task can be cancelled only while a wave *)
(* is in flight.                                                           *)
(*                                                                         *)
(* Abstracted: the order inside the pending deque, which is a bag here, and *)
(* inside the wave (results may be read in any order); what the subtasks of *)
(* a step do (they succeed, fail, or a host callback lets a CancelledError  *)
(* escape); payloads and events.                                            *)
(***************************************************************************)
EXTENDS Naturals, WorkflowDag

CONSTANT Workflows  \* the workflows an executor may be given

Workflow == [edges : SUBSET Edges, conditional : SUBSET Edges,
             wellFormed : BOOLEAN]

ASSUME WorkflowsAssumption == Workflows \subseteq Workflow

VARIABLES
    workflow,       \* the deep copy made by __init__; never changes
    run,            \* where run() is
    pending,        \* copies of each step in the pending deque
    activated,      \* roots, and targets of an allowed edge
    scheduled,      \* steps that have ever been put in pending
    executed,       \* steps handed to asyncio.gather
    launches,       \* history: how many times each of them was handed over
    wave,           \* the steps of the gather in flight ("ready")
    phase,          \* where _execute_step(s) is
    step_outputs,   \* steps whose results are recorded, failed ones included
    context,        \* ancestors whose results were in step s's input window
    routed,         \* targets returned by _determine_next_steps of step s
    failure         \* failure is not None

schedulerVars == <<pending, activated, scheduled, executed, launches, wave,
                   failure>>

stepVars == <<phase, step_outputs, context, routed>>

vars == <<workflow, run, schedulerVars, stepVars>>

RunStates == {"new", "running", "cancelling",
              "succeeded", "failed", "rejected", "cancelled"}

Phases == {"idle", "queued", "tasks", "routing",
           "succeeded", "failed", "raised", "cancelled"}

Over == {"succeeded", "failed", "raised", "cancelled"}

Final == {"succeeded", "failed", "rejected", "cancelled"}

Anc(t) == Ancestors(workflow.edges, t)

-----------------------------------------------------------------------------
(* validate_workflow.  wellFormed stands for the checks that look at one   *)
(* step at a time: names, agents, targets, layers, context_from.           *)

Valid(w) ==
    /\ Step # {}
    /\ w.wellFormed
    /\ \A s \in Step : <<s, s>> \notin w.edges
    /\ Acyclic(w.edges)

Init ==
    /\ workflow \in Workflows
    /\ run = "new"
    /\ pending = [s \in Step |-> 0]
    /\ activated = {} /\ scheduled = {} /\ executed = {} /\ wave = {}
    /\ launches = [s \in Step |-> 0]
    /\ phase = [s \in Step |-> "idle"]
    /\ step_outputs = {}
    /\ context = [s \in Step |-> {}]
    /\ routed = [s \in Step |-> {}]
    /\ failure = FALSE

(* run() binds the client and validates: an invalid workflow starts nothing. *)
BeginIf(valid) ==
    /\ run = "new"
    /\ IF valid
         THEN /\ run' = "running"
              /\ activated' = Roots(workflow.edges)
              /\ scheduled' = Roots(workflow.edges)
              /\ pending' = [s \in Step |->
                               IF s \in Roots(workflow.edges) THEN 1 ELSE 0]
         ELSE /\ run' = "rejected"
              /\ UNCHANGED <<pending, activated, scheduled>>
    /\ UNCHANGED <<workflow, executed, launches, wave, failure, stepVars>>

Begin == BeginIf(Valid(workflow))

-----------------------------------------------------------------------------
(* _collect_ready: a step already executed is dropped; the others are ready *)
(* when every activated ancestor has output, and deferred otherwise.        *)

Queued == {s \in Step : pending[s] > 0}

Fresh == Queued \ executed

(* Mutant: only direct predecessors are waited for. *)
ReadyOnDirectPreds ==
    {s \in Fresh : Preds(workflow.edges, s) \cap activated \subseteq step_outputs}

(* Mutant: nothing is waited for. *)
ReadyAtOnce == Fresh

Ready == {s \in Fresh : Anc(s) \cap activated \subseteq step_outputs}

(* Mutant: the loop does not test failure. *)
LaunchWaveDespiteFailure ==
    /\ run = "running" /\ wave = {}
    /\ Queued # {}
    /\ wave' = Ready
    /\ pending' = [s \in Step |-> IF s \in Fresh \ Ready THEN pending[s] ELSE 0]
    /\ executed' = executed \cup Ready
    /\ launches' = [s \in Step |-> IF s \in Ready THEN launches[s] + pending[s]
                                                 ELSE launches[s]]
    /\ phase' = [s \in Step |-> IF s \in Ready THEN "queued" ELSE phase[s]]
    /\ failure' = (failure \/ Ready = {})
    /\ UNCHANGED <<workflow, run, activated, scheduled, step_outputs, context,
                   routed>>

(* The top of the while loop.  Nothing ready is the "dependency deadlock"   *)
(* RuntimeError.                                                            *)
LaunchWave ==
    /\ run = "running" /\ wave = {}
    /\ Queued # {} /\ ~failure
    /\ wave' = Ready
    /\ pending' = [s \in Step |-> IF s \in Fresh \ Ready THEN pending[s] ELSE 0]
    /\ launches' = [s \in Step |-> IF s \in Ready THEN launches[s] + pending[s]
                                                 ELSE launches[s]]
    /\ executed' = executed \cup Ready
    /\ phase' = [s \in Step |-> IF s \in Ready THEN "queued" ELSE phase[s]]
    /\ failure' = (Ready = {})
    /\ UNCHANGED <<workflow, run, activated, scheduled, step_outputs, context,
                   routed>>

-----------------------------------------------------------------------------
(* _execute_step(s), one action between any two awaits.                    *)

SetPhase(s, p) == phase' = [phase EXCEPT ![s] = p]

(* STEP_START, then the input window is built from the results so far.     *)
StartStep(s) ==
    /\ run = "running" /\ phase[s] = "queued"
    /\ SetPhase(s, "tasks")
    /\ context' = [context EXCEPT ![s] = Anc(s) \cap step_outputs]
    /\ UNCHANGED <<workflow, run, schedulerVars, step_outputs, routed>>

(* The subtasks are over and their results are recorded, whether the step  *)
(* failed or not; only a successful step goes on to its routing callbacks. *)
EndSubtasks(s) ==
    /\ run = "running" /\ phase[s] = "tasks"
    /\ \E p \in {"routing", "failed"} : SetPhase(s, p)
    /\ step_outputs' = step_outputs \cup {s}
    /\ UNCHANGED <<workflow, run, schedulerVars, context, routed>>

OutEdges(s) == {e \in workflow.edges : e[1] = s}

(* Mutant: on_route is asked about unconditional edges too. *)
EndRoutingAskingAll(s) ==
    /\ run = "running" /\ phase[s] = "routing"
    /\ SetPhase(s, "succeeded")
    /\ \E denied \in SUBSET OutEdges(s) :
         routed' = [routed EXCEPT ![s] =
                      {e[2] : e \in OutEdges(s) \ denied} \ {EndNode}]
    /\ UNCHANGED <<workflow, run, schedulerVars, step_outputs, context>>

(* on_route decides every conditional edge on its own; an unconditional     *)
(* edge is allowed without asking; terminal targets lead nowhere.           *)
EndRouting(s) ==
    /\ run = "running" /\ phase[s] = "routing"
    /\ SetPhase(s, "succeeded")
    /\ \E denied \in SUBSET (OutEdges(s) \cap workflow.conditional) :
         routed' = [routed EXCEPT ![s] =
                      {e[2] : e \in OutEdges(s) \ denied} \ {EndNode}]
    /\ UNCHANGED <<workflow, run, schedulerVars, step_outputs, context>>

(* An on_route callback raised, timed out, or returned something else.     *)
RouteRaises(s) ==
    /\ run = "running" /\ phase[s] = "routing"
    /\ OutEdges(s) \cap workflow.conditional # {}
    /\ SetPhase(s, "raised")
    /\ UNCHANGED <<workflow, run, schedulerVars, step_outputs, context, routed>>

(* A host callback let a CancelledError of its own escape (tasks), or the  *)
(* step is unwound because run() was cancelled.                            *)
StepCancelled(s) ==
    /\ phase[s] \in {"queued", "tasks", "routing"}
    /\ \/ run = "cancelling"
       \/ /\ run = "running"
          /\ phase[s] = "tasks" \/ (phase[s] = "routing"
                                    /\ OutEdges(s) \cap workflow.conditional # {})
    /\ SetPhase(s, "cancelled")
    /\ UNCHANGED <<workflow, run, schedulerVars, step_outputs, context, routed>>

-----------------------------------------------------------------------------
(* The gather is over.  Results are read in order up to the first one that *)
(* is not a success; the targets of the steps read before it are activated *)
(* and those not yet scheduled become pending.                             *)

WaveOver == wave # {} /\ \A s \in wave : phase[s] \in Over

(* Mutant: every successor is activated, whatever on_route said. *)
TargetsIgnoringRoutes(S) == {t \in Step : \E s \in S : <<s, t>> \in workflow.edges}

Targets(S) == UNION {routed[s] : s \in S}

(* Mutant: no test of scheduled, a target is pushed once per edge. *)
ActivatePerEdge(S) ==
    /\ activated' = activated \cup Targets(S)
    /\ pending' = [t \in Step |-> pending[t] + Cardinality({s \in S : t \in routed[s]})]
    /\ scheduled' = scheduled \cup Targets(S)

(* Mutant: scheduled is tested after it was updated, nothing is pushed. *)
ActivateNothing(S) ==
    /\ activated' = activated \cup Targets(S)
    /\ scheduled' = scheduled \cup Targets(S)
    /\ pending' = pending

Activate(S) ==
    /\ activated' = activated \cup Targets(S)
    /\ pending' = [t \in Step |-> IF t \in Targets(S) \ scheduled
                                  THEN pending[t] + 1 ELSE pending[t]]
    /\ scheduled' = scheduled \cup Targets(S)

JoinWave ==
    /\ run = "running" /\ WaveOver
    /\ LET good == {s \in wave : phase[s] = "succeeded"}
           bad == wave \ good
       IN IF bad = {}
            THEN Activate(wave) /\ UNCHANGED <<run, failure>>
            ELSE \E first \in bad, before \in SUBSET good :
                   /\ Activate(before)
                   /\ failure' = (phase[first] # "cancelled")
                   /\ run' = IF phase[first] = "cancelled"
                               THEN "cancelled" ELSE run
    /\ wave' = {}
    /\ UNCHANGED <<workflow, executed, launches, stepVars>>

(* Mutant: a failure does not end the loop. *)
CompleteWhenDrained ==
    /\ run = "running" /\ wave = {} /\ Queued = {}
    /\ run' = IF failure THEN "failed" ELSE "succeeded"
    /\ UNCHANGED <<workflow, schedulerVars, stepVars>>

(* The loop is over: WORKFLOW_COMPLETE, and the verdict.                   *)
Complete ==
    /\ run = "running" /\ wave = {}
    /\ Queued = {} \/ failure
    /\ run' = IF failure THEN "failed" ELSE "succeeded"
    /\ UNCHANGED <<workflow, schedulerVars, stepVars>>

(* The task awaiting run() is cancelled; the gather passes that on to its  *)
(* steps and ends once all of them have.                                   *)
Cancel ==
    /\ run = "running" /\ wave # {}
    /\ run' = "cancelling"
    /\ UNCHANGED <<workflow, schedulerVars, stepVars>>

EndCancel ==
    /\ run = "cancelling" /\ WaveOver
    /\ run' = "cancelled" /\ wave' = {}
    /\ UNCHANGED <<workflow, pending, activated, scheduled, executed, launches,
                   failure, stepVars>>

Terminated == run \in Final /\ UNCHANGED vars

StepProgress(s) == StartStep(s) \/ EndSubtasks(s) \/ EndRouting(s)

Next ==
    \/ Begin \/ LaunchWave \/ JoinWave \/ Complete
    \/ \E s \in Step : \/ StepProgress(s) \/ RouteRaises(s) \/ StepCancelled(s)
    \/ Cancel \/ EndCancel
    \/ Terminated

Spec == Init /\ [][Next]_vars

(***************************************************************************)
(* The event loop runs every ready task; the callbacks of a step are under *)
(* asyncio.wait_for(callback_timeout_seconds) and a cancelled step unwinds *)
(* (its remote cleanup is bounded too).  Nothing obliges anyone to cancel. *)
(***************************************************************************)
LoopFairness ==
    /\ WF_vars(LaunchWave) /\ WF_vars(JoinWave)
    /\ WF_vars(Complete) /\ WF_vars(EndCancel)
    /\ \A s \in Step : /\ WF_vars(StepProgress(s))
                       /\ WF_vars(run = "cancelling" /\ StepCancelled(s))

FairSpec == Spec /\ WF_vars(Begin) /\ LoopFairness

-----------------------------------------------------------------------------
(* Every variable keeps to its range.                                      *)
TypeOK ==
    /\ workflow \in Workflow
    /\ run \in RunStates
    /\ pending \in [Step -> Nat]
    /\ activated \in SUBSET Step
    /\ scheduled \in SUBSET Step
    /\ executed \in SUBSET Step
    /\ launches \in [Step -> Nat]
    /\ wave \in SUBSET Step
    /\ phase \in [Step -> Phases]
    /\ step_outputs \in SUBSET Step
    /\ context \in [Step -> SUBSET Step]
    /\ routed \in [Step -> SUBSET Step]
    /\ failure \in BOOLEAN

(***************************************************************************)
(* A merge never runs before a branch that feeds it: no ancestor of a step *)
(* already handed to gather is waiting, running or yet to be activated.    *)
(* _collect_ready looks only at the ancestors activated so far, so that    *)
(* this holds depends on when the others can still be activated.           *)
(***************************************************************************)
MergeSafe ==
    \A s \in executed :
        /\ Anc(s) \cap activated \subseteq step_outputs
        /\ Anc(s) \cap (wave \cup Queued) = {}

(***************************************************************************)
(* The input window a step was given at its start never goes stale: it     *)
(* holds the results of every ancestor that takes part in the execution,   *)
(* so on_task, and later on_route of the same step (which rebuilds the     *)
(* window), see the same upstream results whatever the interleaving.       *)
(***************************************************************************)
WindowComplete ==
    \A s \in Step : phase[s] \in {"tasks", "routing", "succeeded", "failed"}
        => context[s] = Anc(s) \cap activated

(* The same step is never handed to gather twice, also when several steps  *)
(* of one wave route to it.                                                *)
LaunchedOnce == \A s \in Step : launches[s] <= 1

(* A step other than a root runs only if a successful direct predecessor   *)
(* was allowed to route to it.                                             *)
RunsOnlyIfRouted ==
    \A s \in executed \ Roots(workflow.edges) :
        \E p \in Preds(workflow.edges, s) :
            phase[p] = "succeeded" /\ s \in routed[p]

(* Steps are handed out as they were routed to: once, and not otherwise.   *)
LaunchedAsRouted == LaunchedOnce /\ RunsOnlyIfRouted

(***************************************************************************)
(* A successful verdict leaves no work behind: every root and every target *)
(* of an allowed edge ran and succeeded, and no unconditional edge leads   *)
(* out of what ran.                                                        *)
(***************************************************************************)
SuccessIsComplete ==
    run = "succeeded" =>
        /\ Roots(workflow.edges) \subseteq executed
        /\ \A s \in executed :
              /\ phase[s] = "succeeded"
              /\ routed[s] \subseteq executed
              /\ \A e \in OutEdges(s) \ workflow.conditional :
                    e[2] \in executed \cup {EndNode}

(* A failure always comes from a step: on a workflow that validation let   *)
(* through, the "dependency deadlock" error cannot occur.                  *)
FailureHasCause ==
    failure => \E s \in executed : phase[s] \in {"failed", "raised"}

(* Once a failure is on record, or run() is being cancelled, or it is over, *)
(* no step is handed out and no step already handed out begins.             *)
NothingStartsAfterFailure ==
    [][failure \/ run \notin {"new", "running"} =>
          /\ executed' = executed
          /\ \A s \in Step : phase'[s] = "tasks" => phase[s] = "tasks"]_vars

(* The execution promises what StepOrder says.                             *)
Order == INSTANCE StepOrder WITH
            edges <- workflow.edges,
            launched <- executed,
            recorded <- step_outputs,
            verdict <- IF run \in Final THEN run ELSE "open"

OrderSpec == Order!Spec

(***************************************************************************)
(* Every step keeps to StepPhase, which is what StepExecution implements:  *)
(* it is handed out in its first phase and never again, whatever its       *)
(* siblings, the join of its wave and a cancellation do meanwhile.         *)
(***************************************************************************)
Handed(s) == INSTANCE StepPhase WITH
            Target <- Step,
            asks <- OutEdges(s) \cap workflow.conditional # {},
            sure <- {e[2] : e \in OutEdges(s) \ workflow.conditional} \ {EndNode},
            may <- {e[2] : e \in OutEdges(s)} \ {EndNode},
            stopped <- run \in {"cancelling", "cancelled"},
            phase <- IF phase[s] = "idle" THEN "queued" ELSE phase[s],
            recorded <- s \in step_outputs,
            routed <- routed[s]

StepsKeepPhase ==
    /\ \A s \in Step : Handed(s)!Init
    /\ [][\A s \in Step : Handed(s)!Next \/ UNCHANGED Handed(s)!vars]_vars

(* Every execution ends, with a verdict or cancelled.                      *)
Termination == <>(run \in Final)
=============================================================================
