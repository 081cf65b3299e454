---------------------------- MODULE StepExecution ----------------------------
(***************************************************************************)
(* core/executor.py: one WorkflowExecutor._execute_step, from the moment   *)
(* the scheduler has handed it to asyncio.gather: its subtasks, which run  *)
(* concurrently under the strategy of the step, and then its on_route      *)
(* callbacks, which run concurrently too.                                  *)
(*                                                                         *)
(* A subtask is the whole of _execute_single.  Its callbacks and dispatch  *)
(* may take any time up to callback_timeout, and a host callback may let a *)
(* CancelledError of its own escape, or swallow the one it is sent.        *)
(*                                                                         *)
(* Abstracted: contents of requests and results; events; the code of a     *)
(* failure (FailureMapping); edges to terminal targets.                    *)
(***************************************************************************)
EXTENDS FiniteSets, Sequences

CONSTANTS
    Subtask,    \* indexes of subtasks a step may have
    Edge        \* outgoing edges a step may have

VARIABLES
    step_type,      \* the strategy; never changes
    subtasks, edges, conditional,   \* the step; never change
    pc,             \* where _execute_step is
    stop,           \* its asyncio task has been cancelled
    status,         \* of each subtask; "cancelling" once cancel() was called
    queue,          \* as_completed: subtasks done and not taken yet
    completed,      \* those whose results are collected
    recorded,       \* step_outputs holds the results
    route,          \* where the evaluation of each edge is
    targets         \* what _determine_next_steps returned

step == <<step_type, subtasks, edges, conditional>>

taskVars == <<status, queue, completed, recorded>>

routeVars == <<route, targets>>

vars == <<step, pc, stop, taskVars, routeVars>>

StepType == {"ALL_SUCCESS", "ANY_SUCCESS", "SELF_LOOP"}

Over == {"succeeded", "failed", "raised", "cancelled"}

PCs == {"queued", "subtasks", "settling", "routing"} \cup Over

Done == {"success", "failed", "cancelled"}

Statuses == {"new", "running", "cancelling"} \cup Done

Routes == {"none", "asking", "cancelling", "allowed", "denied", "failed", "cancelled"}

AnySuccess == step_type = "ANY_SUCCESS"

Unfinished == {s \in subtasks : status[s] \in {"running", "cancelling"}}

InFlight == {e \in edges : route[e] \in {"asking", "cancelling"}}

Init ==
    /\ step_type \in StepType
    /\ subtasks \in SUBSET Subtask
    /\ edges \in SUBSET Edge /\ conditional \in SUBSET edges
    /\ pc = "queued" /\ stop = FALSE
    /\ status = [s \in Subtask |-> "new"]
    /\ queue = <<>> /\ completed = {} /\ recorded = FALSE
    /\ route = [e \in Edge |-> "none"] /\ targets = {}

-----------------------------------------------------------------------------
(* Subtasks.                                                               *)

(* STEP_START, the input window, and every subtask begins.                 *)
Begin ==
    /\ pc = "queued" /\ ~stop
    /\ pc' = "subtasks"
    /\ status' = [s \in Subtask |-> IF s \in subtasks THEN "running" ELSE "new"]
    /\ UNCHANGED <<step, stop, queue, completed, recorded, routeVars>>

(* The coroutine was cancelled before its first step.                      *)
NeverBegun ==
    /\ pc = "queued" /\ stop
    /\ pc' = "cancelled"
    /\ UNCHANGED <<step, stop, taskVars, routeVars>>

(* _execute_single is over.  An exception or an unsuccessful answer is a    *)
(* failed result; CancelledError is let through.                           *)
EndSubtask(s) ==
    /\ s \in Unfinished
    /\ \E o \in Done : status' = [status EXCEPT ![s] = o]
    /\ queue' = IF AnySuccess /\ pc = "subtasks" THEN Append(queue, s) ELSE queue
    /\ UNCHANGED <<step, pc, stop, completed, recorded, routeVars>>

(* Task.cancel() on every subtask that is not done.                        *)
CancelUnfinished ==
    status' = [s \in Subtask |-> IF s \in Unfinished THEN "cancelling" ELSE status[s]]

(* Mutant: a failed step leaves no results. *)
RecordSuccessOnly(c, success) ==
    /\ completed' = c /\ recorded' = success
    /\ IF success THEN /\ pc' = "routing"
                       /\ route' = [e \in Edge |-> IF e \in conditional THEN "asking"
                                        ELSE IF e \in edges THEN "allowed" ELSE "none"]
                  ELSE pc' = "failed" /\ UNCHANGED route

(* step_outputs, STEP_COMPLETE or ERROR; a successful step asks on_route    *)
(* about all its conditional edges at once.                                *)
Record(c, success) ==
    /\ completed' = c /\ recorded' = TRUE
    /\ IF success THEN /\ pc' = "routing"
                       /\ route' = [e \in Edge |-> IF e \in conditional THEN "asking"
                                        ELSE IF e \in edges THEN "allowed" ELSE "none"]
                  ELSE pc' = "failed" /\ UNCHANGED route

(* Mutant: one success is enough. *)
GatherAnySubtask ==
    /\ pc = "subtasks" /\ ~AnySuccess /\ ~stop
    /\ \A s \in subtasks : status[s] \in {"success", "failed"}
    /\ Record(subtasks, \E s \in subtasks : status[s] = "success")
    /\ UNCHANGED <<step, stop, status, queue, targets>>

(* ALL_SUCCESS and SELF_LOOP: the gather has every result.                 *)
GatherSubtasks ==
    /\ pc = "subtasks" /\ ~AnySuccess /\ ~stop
    /\ \A s \in subtasks : status[s] \in {"success", "failed"}
    /\ Record(subtasks, \A s \in subtasks : status[s] = "success")
    /\ UNCHANGED <<step, stop, status, queue, targets>>

(* That gather does not return exceptions: the first CancelledError ends    *)
(* it, and with it the step, while the other subtasks go on.               *)
GatherCancelled ==
    /\ pc = "subtasks" /\ ~AnySuccess
    /\ \/ \E s \in subtasks : status[s] = "cancelled"
       \/ stop /\ Unfinished = {}
    /\ pc' = "cancelled"
    /\ UNCHANGED <<step, stop, taskVars, routeVars>>

Taking(s) ==
    /\ pc = "subtasks" /\ AnySuccess /\ ~stop
    /\ queue # <<>> /\ s = Head(queue)
    /\ queue' = Tail(queue)

(* Mutant: the losers are cancelled and not awaited. *)
TakeSuccessAtOnce(s) ==
    /\ Taking(s) /\ status[s] = "success"
    /\ Record(completed \cup {s}, TRUE) /\ CancelUnfinished
    /\ UNCHANGED <<step, stop, targets>>

(* ANY_SUCCESS: as_completed yields a subtask.  The first success cancels   *)
(* the others and waits for them.                                          *)
TakeSuccess(s) ==
    /\ Taking(s) /\ status[s] = "success"
    /\ completed' = completed \cup {s}
    /\ pc' = "settling" /\ CancelUnfinished
    /\ UNCHANGED <<step, stop, recorded, routeVars>>

(* Mutant: the last failure is not noticed. *)
TakeAnyFailure(s) ==
    /\ Taking(s) /\ status[s] = "failed"
    /\ completed' = completed \cup {s}
    /\ UNCHANGED <<step, pc, stop, status, recorded, routeVars>>

(* A failure is only collected, until there is nothing left to yield.      *)
TakeFailure(s) ==
    /\ Taking(s) /\ status[s] = "failed"
    /\ IF completed \cup {s} = subtasks
         THEN Record(subtasks, FALSE)
         ELSE completed' = completed \cup {s} /\ UNCHANGED <<pc, recorded, route>>
    /\ UNCHANGED <<step, stop, status, targets>>

(* A step without subtasks has no success to show.                         *)
TakeNone ==
    /\ pc = "subtasks" /\ AnySuccess /\ subtasks = {}
    /\ Record({}, FALSE)
    /\ UNCHANGED <<step, stop, status, queue, targets>>

(* Mutant: the finally clause is missing. *)
AbandonAny ==
    /\ pc = "subtasks" /\ AnySuccess
    /\ stop \/ (queue # <<>> /\ status[Head(queue)] = "cancelled")
    /\ pc' = "cancelled"
    /\ UNCHANGED <<step, stop, taskVars, routeVars>>

(* The step is cancelled, or a subtask's own CancelledError surfaces: the   *)
(* finally clause cancels the others and does not wait for them.           *)
UnwindAny ==
    /\ pc = "subtasks" /\ AnySuccess
    /\ stop \/ (queue # <<>> /\ status[Head(queue)] = "cancelled")
    /\ pc' = "cancelled" /\ CancelUnfinished
    /\ UNCHANGED <<step, stop, queue, completed, recorded, routeVars>>

(* The gather that waits for the losers returns their exceptions, so that   *)
(* it ends when the last of them does.                                     *)
Settle ==
    /\ pc = "settling" /\ Unfinished = {}
    /\ IF stop THEN pc' = "cancelled" /\ UNCHANGED <<completed, recorded, route>>
               ELSE Record(completed, TRUE)
    /\ UNCHANGED <<step, stop, status, queue, targets>>

-----------------------------------------------------------------------------
(* Routes.                                                                 *)

(* The host decides, or fails: it raises, takes too long or answers with   *)
(* something else.                                                         *)
EndRoute(e) ==
    /\ e \in InFlight
    /\ \E o \in {"allowed", "denied", "failed", "cancelled"} :
          route' = [route EXCEPT ![e] = o]
    /\ UNCHANGED <<step, pc, stop, taskVars, targets>>

(* Mutant: a callback that failed denies its edge. *)
GatherRoutesLeniently ==
    /\ pc = "routing" /\ ~stop
    /\ \A e \in edges : route[e] \in {"allowed", "denied", "failed"}
    /\ targets' = {e \in edges : route[e] = "allowed"}
    /\ pc' = "succeeded"
    /\ UNCHANGED <<step, stop, taskVars, route>>

(* Every edge is decided, or there is none.                                *)
GatherRoutes ==
    /\ pc = "routing" /\ ~stop
    /\ \A e \in edges : route[e] \in {"allowed", "denied"}
    /\ targets' = {e \in edges : route[e] = "allowed"}
    /\ pc' = "succeeded"
    /\ UNCHANGED <<step, stop, taskVars, route>>

(* The first exception ends the gather; the other callbacks go on.  What a  *)
(* step raises after its task was cancelled nobody reads.                  *)
RoutesRaise ==
    /\ pc = "routing"
    /\ \/ \E e \in edges : /\ route[e] \in {"failed", "cancelled"}
                           /\ pc' = IF stop \/ route[e] = "cancelled"
                                      THEN "cancelled" ELSE "raised"
       \/ stop /\ InFlight = {} /\ pc' = "cancelled"
    /\ UNCHANGED <<step, stop, taskVars, routeVars>>

-----------------------------------------------------------------------------
(* The scheduler's gather is cancelled and cancels this step, which passes  *)
(* it on to what it is waiting for; without subtasks or edges that is       *)
(* nothing.                                                                *)
Stop ==
    /\ pc \notin Over /\ ~stop
    /\ pc = "subtasks" => subtasks # {}
    /\ pc = "routing" => edges # {}
    /\ stop' = TRUE
    /\ IF pc = "subtasks" /\ AnySuccess THEN UNCHANGED status ELSE CancelUnfinished
    /\ route' = [e \in Edge |-> IF e \in InFlight THEN "cancelling" ELSE route[e]]
    /\ UNCHANGED <<step, pc, queue, completed, recorded, targets>>

(* The step is over, and so is everything it started.                      *)
Quiet == pc \in Over /\ Unfinished = {} /\ InFlight = {}

Terminated == Quiet /\ UNCHANGED vars

Progress ==
    \/ Begin \/ NeverBegun \/ GatherSubtasks \/ GatherCancelled
    \/ \E s \in Subtask : TakeSuccess(s) \/ TakeFailure(s)
    \/ TakeNone \/ UnwindAny \/ Settle
    \/ GatherRoutes \/ RoutesRaise

Next ==
    \/ Progress \/ Stop
    \/ \E s \in Subtask : EndSubtask(s)
    \/ \E e \in Edge : EndRoute(e)
    \/ Terminated

Spec == Init /\ [][Next]_vars

(* Callbacks and dispatch are under asyncio.wait_for(callback_timeout), and *)
(* a cancelled one unwinds in bounded time.                                *)
Fairness ==
    /\ WF_vars(Progress)
    /\ \A s \in Subtask : WF_vars(EndSubtask(s))
    /\ \A e \in Edge : WF_vars(EndRoute(e))

FairSpec == Spec /\ Fairness

-----------------------------------------------------------------------------
(* Every variable keeps to its range.                                      *)
TypeOK ==
    /\ step_type \in StepType
    /\ subtasks \in SUBSET Subtask
    /\ edges \in SUBSET Edge /\ conditional \in SUBSET edges
    /\ pc \in PCs /\ stop \in BOOLEAN
    /\ status \in [Subtask -> Statuses]
    /\ queue \in Seq(subtasks) /\ completed \in SUBSET subtasks
    /\ recorded \in BOOLEAN
    /\ route \in [Edge -> Routes] /\ targets \in SUBSET edges

(***************************************************************************)
(* The verdict of a step and the results it records agree: under           *)
(* ANY_SUCCESS the results of a success end with the one that won, however *)
(* many subtasks succeeded at the same time; otherwise they are the        *)
(* results of all subtasks.                                                *)
(***************************************************************************)
VerdictMatchesResults ==
    LET won == {s \in completed : status[s] = "success"}
    IN /\ pc \in {"routing", "succeeded", "raised"} =>
             IF AnySuccess THEN Cardinality(won) = 1
                           ELSE won = subtasks
       /\ pc = "failed" =>
             /\ completed = subtasks
             /\ won # subtasks \/ (AnySuccess /\ subtasks = {})
             /\ AnySuccess => won = {}

(* No subtask is at work behind a step that went on or reported, whichever  *)
(* way its siblings ended: what it sees, sends and records is final.        *)
NothingBehindVerdict ==
    pc \in {"routing", "succeeded", "failed", "raised"} => Unfinished = {}

(* An ANY_SUCCESS step that ends, in whatever way, has called cancel() for  *)
(* every sibling that was not done.                                        *)
LosersCancelled ==
    AnySuccess /\ pc \notin {"queued", "subtasks"} =>
        \A s \in subtasks : status[s] # "running"

(* All routes are decided before a successor is named; one failing on_route *)
(* suppresses every successor, the unconditional ones included.            *)
RoutesAllDecided ==
    /\ pc = "succeeded" =>
          /\ \A e \in edges : route[e] \in {"allowed", "denied"}
          /\ edges \ conditional \subseteq targets
    /\ pc # "succeeded" => targets = {}

(* The step behaves as the scheduler expects.                              *)
Phase == INSTANCE StepPhase WITH
            Target <- Edge,
            asks <- conditional # {}, sure <- edges \ conditional, may <- edges,
            stopped <- stop,
            phase <- IF pc \in {"subtasks", "settling"} THEN "tasks" ELSE pc,
            routed <- targets

StepSpec == Phase!Spec

(* Every step ends, and so does everything it leaves behind.               *)
AllQuiet == <>Quiet
=============================================================================
