# A formal model of the workflow engine SDK

TLA+ modules for `src/workflow_engine`, TLC configurations that check them on
small instances, and theorems that the TLA+ proof system checks for every value
of the constants.  Line numbers below are lines of the files under
`src/workflow_engine/`.

    tlc -workers 2 -config MCWorkflowExecutor4.cfg MCWorkflowExecutor
    tlapm WorkflowExecutorProofs.tla

`PROJECT.json` lists the runs, maps every definition to the code it models, and
gives for every property a mutation of the code that breaks it.

## 1. The system

The SDK runs a *workflow*: a graph of steps, each delegated to remote agents
over the A2A protocol, while the embedding application (the *host*) decides
through callbacks.  It is a single-threaded asyncio program: everything between
two awaits is atomic, and all that is hard happens at the awaits: other
coroutines run, a timer fires, a cancellation is delivered, an answer is lost.

| component | state it keeps | operations | what is hard | what makes it correct |
|---|---|---|---|---|
| **Workflow executor** `core/executor.py`, `context_builder.py`, `workflow_validator.py` | pending deque; activated, scheduled and executed sets; step outputs; failure | validate, collect the ready steps, gather a wave, record results, route, activate, verdict | steps of one wave interleave; merges over conditional branches; a failure or a cancellation in the middle of a wave | no merge runs before a branch that feeds it; input windows are complete; a step runs once and only if routed to; no false success; no deadlock; it ends |
| **Subtasks of a step** `executor.py:193-304` | per-step results | ALL_SUCCESS, ANY_SUCCESS and SELF_LOOP strategies | losers of ANY_SUCCESS cancelled while they finish; cancellation from outside | one verdict per step; nothing left running |
| **Engine client** `client/engine_client.py` | per dispatch: remote task id, rounds seen and answered, exchange count, abort flag | send, recover, poll, ask the host, reply, cancel the remote task | a dropped stream does not tell whether the command arrived; repeated proposals; timeouts and cancellations at every await | the command is sent once; the host is asked once per round; the identity of the remote does not change; an abandoned task is cancelled; it ends |
| **Client binding** `engine_client.py:57-77` | the execution it is bound to | begin, end, close | two executions on one client | the second is refused and the first is not disturbed |
| **PSOP runner** `runner.py` | producer task, event queue, owned client | iterate, close, `on_event`, `on_finish` | consumer and producer end independently; cancellation from both sides | ordered history; no producer runs behind an ended iterator; `on_finish` is called unless the consumer closes |
| **Notification subscription** `client/extension_sender.py`, `transport_activity.py` | acknowledgement and completion futures, idle timer | subscribe, acknowledge, listen, close | acknowledgement, timeout, rejection and close race for the same futures | resolved once; a dead stream is released, a live one is not |
| **A2A transport** `client/a2a_transport.py`, `a2at_messages.py`, `remote_error.py`, `sse_normalization.py` | reduction of a stream to one result | send, stream, get_task, cancel_task | messages, status and artifact updates in any order, incomplete streams | the result is the last word of the remote |
| **Management authentication** `registry/http_auth.py`, `registry_client.py` | a shared token and its expiry, a lock | log in, request, renew once after a 401 | concurrent 401s, logins that fail or are cancelled under the lock | a renewed token is not invalidated by a late 401; writes are sent once; no lock stays held |
| **Credentials of agents** `client/credential_service.py`, `auth_manager.py`, `auth_provider.py` | login cache per agent and scheme, a lock | walk the requirement groups, look up, log in | double-checked locking; a group given up half way | one login per scheme while its token is fresh; the headers are those of one whole group |
| **Failure mapping** `core/failure_mapping.py` | none | classify an exception | nothing over time | total |
| **Data model, control points** `core/models.py`, `control/control_points.py` | the workflow, the results | parse, snapshot, callbacks | nothing over time | seen through the other components |
| **Logging, redaction, TLS, encryption, configuration** | none of interest | pure I/O and conversion | nothing over time | not modelled |

How they interact: `execute_psop` starts a producer task that calls
`WorkflowExecutor.run`; the executor binds the engine client, asks the host
`on_task` for every step, and each subtask awaits `WorkflowEngineClient.dispatch`;
dispatch drives the transport and calls `on_negotiation`.  The executor and the
client push events into the runner's queue, which the generator drains into the
consumer.  Cancellation travels the other way: the consumer closes the
generator, the generator cancels the producer, the executor's `gather` cancels
its steps, and dispatch cancels the remote task.  Beside the workflows the host
uses the SDK for notification subscriptions, authorizations and message streams,
which share the transport and the agents' credentials with them, and for
requests to the management center, which have an account of their own.

## 2. Modules

| module | models | uses / implements |
|---|---|---|
| `WorkflowDag` | the step graph: predecessors, ancestors, roots, acyclicity | |
| `StepOrder` | *abstract*: what an execution promises about the order of steps | `WorkflowDag` |
| `WorkflowExecutor` | one `WorkflowExecutor.run`, given the verdict of the validation | `WorkflowDag`; implements `StepOrder` |
| `WorkflowValidator` | the loops of `find_workflow_errors`, and with them the search of `get_all_predecessors` | `WorkflowDag` |
| `WorkflowRun` | `run()` with its validation in full | composes `WorkflowExecutor` and `WorkflowValidator`; implements `WorkflowExecutor` |
| `StepPhase` | *abstract*: what the scheduler relies on from one step | implemented by every step of `WorkflowExecutor` and by `StepExecution` |
| `StepExecution` | one `_execute_step`: strategies, concurrent subtasks and routes | implements `StepPhase` |
| `EngineClient` | one `WorkflowEngineClient.dispatch` | |
| `PsopRunner` | `execute_psop`: producer, queue, generator, consumer | |
| `Notification` | one `NotificationSubscription` | |
| `StreamReducer` | `consume_stream` and `subscribe_to_task`, beside the remote task | |
| `Authorization` | `send_authorization` | `StreamReducer` |
| `ExtensionSender` | one of the three uses of the sender | composes `Notification`, `Authorization` |
| `Clock` | the time that cached tokens are judged by | |
| `AccountAuth` | the five registry helpers on `authenticated_request` and one account | `Clock` |
| `CredentialService` | concurrent calls of one agent in `CustomAuthInterceptor.before` | `Clock` |
| `ClientBinding` | executions that take turns on a client, its cards, its stream, `close()` | |
| `Services` | the three parts that executions share | composes the three above |
| `MC...` | instances for TLC | |
| `...Proofs` | theorems about the module they are named after | |

### WorkflowExecutor and StepExecution

A workflow is its edges, the subset of them that carries a condition, and
whether the checks that look at one step at a time pass (`wellFormed`).  The
order inside the deque is abstracted to a bag: which steps are ready does not
depend on it, and the results of a wave may be read in any order.

| action | code |
|---|---|
| `Begin` | `run`, `_run_bound` up to the loop: validation, roots |
| `LaunchWave` | `_collect_ready`, the "dependency deadlock" error, `executed.update`, the call of `gather` |
| `StartStep(s)` | `_execute_step` up to its first await: STEP_START and the input window |
| `EndSubtasks(s)` | the strategy is over and its results are recorded, failure included |
| `EndRouting(s)`, `RouteRaises(s)` | `_determine_next_steps`: any subset of the conditional edges is denied, or a callback raises |
| `StepCancelled(s)` | a step ends in `CancelledError` |
| `JoinWave` | results read up to the first one that is not a success, targets activated |
| `Complete` | the verdict |
| `Cancel`, `EndCancel` | the task that awaits `run()` is cancelled; `gather` passes it on and ends when its steps have |

In `WorkflowExecutor` ancestors are the least set closed under direct
predecessors, and an acyclic graph is one in which no set of steps has all its
members waiting for another member.  Stated this way they can be reasoned about
for every graph.  `WorkflowValidator` has the loops themselves, one action per
turn: the breadth-first search for ancestors, the reachability pass and Kahn's
pass with its counters.  The searches are alike and each starts anew, so that
one search for any step stands for all of them; a deque is a set, emptied in any
order.  `WorkflowRun` puts the loops before the executor, which then begins with
the verdict they computed instead of the definition.

The scheduler's view of a step (queued, at its subtasks, routing, over) is
`StepPhase`: results are recorded once and before anything is reported; only a
step that asks `on_route` can fail over its routes; targets come from a
successful step only, those of the unconditional edges always among them; a step
that is stopped reports nothing more; and what is over stays over.
`StepExecution` is the same step in full, and the steps of `WorkflowExecutor`
are instances of it, with the targets, conditions and results the executor keeps
for them (`StepsKeepPhase`): the contract is what the one relies on and the
other keeps. Its subtasks are asyncio tasks of their own, with a `status` each;
`status = "cancelling"` once `cancel()` was called, after which a subtask may
still succeed, fail or be cancelled, because `dispatch` and host callbacks may
swallow the `CancelledError`. `queue` is what `as_completed` has ready. The
three gathers differ and the model keeps the difference: the one of ALL_SUCCESS
and SELF_LOOP ends at the first *cancelled* child, the one that awaits the
losers of ANY_SUCCESS returns exceptions and so waits for the last child, and
the one of the routes ends at the first exception of any kind. A step whose
asyncio task was cancelled ends in phase `cancelled` whatever it raises then,
for nobody reads it.

### EngineClient and ClientBinding

Time is one flag, `expired`.  A step of the model is what the code does from
one await to the next:

| `pc` | the await |
|---|---|
| `streaming` | the response stream of a send (`_send_or_recover`) |
| `recovering` | `get_task` after a lost stream (`_await_remote_task`) |
| `working`, `repeated` | `get_task` of a task still WORKING, or one that repeats an answered round |
| `asking` | `on_negotiation` |
| `finishing`, `cleanup` | `cancel_task`, before dispatch returns or raises |

The remote and the network may do anything the transport can hand over: every
answer has any task id, context, state and proposal, a malformed one included.
`interaction_task` is `interaction["remote_task_id"]`, which the code sets
*before* it validates the identity, so it is a variable apart from
`remote_task_id`.  A poll that finds the task still working changes nothing and
is left out; the deadline then ends it.

`ClientBinding` is the client between dispatches: which execution it is bound
to and whose handlers are installed, the AgentCard an interaction captured when
it began (`card`), the version of the card the cached A2A client was built from
(`client`), and a stream that a consumer reads through `stream_message`.  A
cached client is handed out even after the transport was closed, as in the code.
An execution that ends may leave a subtask behind (`left`, see `PsopRunner`),
which goes on with its interaction on a client that may be bound to another
execution by then.

### PsopRunner

The executor emits any number of events up to `MaxEvents` and then ends in any
way.  `producer` is where `_run_and_finalize` is, `cancelAsked` a
`run_task.cancel()` that was not delivered yet.  Asyncio runs the first step of
a new task only when its creator suspends, and `drain()` hands over the `start`
event without suspending: a consumer may close the generator while the producer
is `created`, and a task cancelled then never enters its `try`.  A consumer that
goes on to the next event, closes the generator (`Close`, `GeneratorExit` at a
yield) or whose own task is cancelled while the generator awaits (`Interrupt`,
`CancelledError`) are the three things it can do.

The producer ignores every `Exception` of `on_finish`, a `CancelledError` is not
one: when the generator cancels the producer there (`CancelledLate`), or when
the host's callback ends in one of its own, because it awaited something that
was cancelled, the task ends with neither `close` nor sentinel.  In the second
case (`AfterFinish`, producer `broken`) the consumer may still be there, and
waits for ever (`Unserved`).  `on_finish` may also swallow a cancellation.
`client` tells a client that was closed from one whose `close()` failed, which
the code ignores; `EndedCleanly` and `VerdictAfterClose` ask that one of the two
has happened.

The gather of an ALL_SUCCESS step ends at the first cancelled child and leaves
the others running, as asyncio tasks that nobody awaits.  So an execution that
did not succeed may leave subtasks behind (`stray`), whose events reach the same
queue (`EmitBehind`) until the last of them has ended (`EndStray`): before the
verdict they count as `emitted`, behind it as `late`.

### Notification, Authorization, StreamReducer

In `Notification` the streaming task, its two timers, the two futures and the
host interleave freely.  `wire` is what has arrived and was not read: the
activity hook of `transport_activity.py` notices bytes only when they are read,
so that a listener at work holds up the clock of the idle timer as well.
`idle` is what the timer sees, `silence` what the remote did; the two together
say whether a release was right.  `close()` called by the task itself does not
cancel it, one called from elsewhere does, and a second call does nothing, so a
listener that closes the subscription and then hangs cannot be stopped.

`StreamReducer` keeps the task at the remote (`remote`) beside the result that
the code accumulates (`reduced`).  Parts are the numbers of the events that
brought them, so that a lost, stale or repeated part shows.  Dictionaries are
sequences in insertion order, because the text of a result depends on it.  The
differences between the two methods of the code are kept: only
`consume_stream` keys messages by id, keeps the state when a snapshot has none,
and refuses an event or a stream without content.

`Authorization` reads its stream through `StreamReducer`, then polls.  Every
answer names any task or none and the context it was asked in or another; one
deadline covers stream and polls.

### AccountAuth, CredentialService

A token is a number, given out in order; the center may revoke any of them at
any moment.  `lock` and `mutex` are the asyncio locks with their holder; a
request reads the token at hand and is sent with it in one step, as the code
does not await between the two.  `sent[r]` are the tokens a request was sent
with, so that `RetriedOnceWithNewToken` counts sends.  `expires_at` counts from
the start of the login and has the safety margin (`min(30, 0.1 * ttl)`) taken
off, which `Ttl` includes; `TokenTtl` is a `token_ttl` less the 60 seconds of
the agents' cache, 0 if nothing is left, in which case every call logs in.

A call in `CredentialService` walks the requirement groups of the card.  A
credential is the value its header is set to, prefix included, which each login
chooses among `Values`; `candidate` keeps it with its scheme, and `HeadersOf` are
the headers of the code's `candidate`, the `Accept` of each scheme included.  Two
schemes may set one header if they agree on its value; a scheme that is not
usable or one that disagrees moves the call on to the next group, a failed login
ends it even if another group is left, as in the code.  A login never returns
without a token (`_login` raises instead), so "no credential for scheme" is not
an outcome of its own.

## 3. What is checked

| run | question | bounds | states |
|---|---|---|---|
| `executor_graphs4` | merges, windows, launches, routes, success | every loop-free graph of 4 steps, every subset of its edges conditional | 151,151 (modulo symmetry of the steps) |
| `executor_graphs3` | the loops of the validation, failure, refinement of `StepOrder` and of `StepPhase`, termination | every graph of 3 steps, with cycles, self-edges and terminal edges; all edges conditional, if there is no cycle, or none | 107,191 (no symmetry: liveness) |
| `step_execution` | verdict against results, nothing behind a verdict, losers, routes, refinement of `StepPhase`, end of everything started | every step of up to 3 subtasks and 2 edges, each strategy, cancelled at any moment | 76,102 |
| `client_dispatch` | cleanup, sends, questions, identity, abort, termination | 2 tasks, 2 contexts, 2 rounds, 3 exchanges | 80,477 |
| `runner_any_consumer` | order, verdict, clean end, end | 3 events, early or late, client owned or not, `on_finish` or not, and every way it ends | 12,182 |
| `extension_sender` | futures, timers, silence after close, reduction of streams, identity under polls, release | idle timeout of 2 ticks; streams of 3 events, 2 artifacts, 2 tasks | 75,537 |
| `services` | tokens, logins, groups, binding, cache, locks | 3 requests and 3 tokens over 3 ticks; 2 calls with up to 3 groups; 3 executions and a card update | 389,206 |

Why the bounds are enough:

- *Executor.*  The case that makes merges hard is a step with an ancestor that
  is not a direct predecessor, on a longer branch than another one: the
  smallest such graph has four steps.  Two of the mutants (wait for direct
  predecessors only) are found only there.  Cycles, self-edges and terminal
  edges add nothing that three steps do not show.  The theorems below remove
  the bound altogether.
- *Step.*  Three subtasks are a winner, one that succeeds at the same time and
  one that is still at work; two edges are one that fails and one that goes on.
- *Client.*  Two tasks are the least with which the identity can change, two
  contexts and two rounds the least with which a round can be repeated, go back,
  or belong to another negotiation; three exchanges let every round be asked and
  one more message follow.
- *Runner.*  Events differ only in their place; three put `Emit` before, between
  and after the steps of the consumer.
- *Sender.*  With two ticks something can arrive between the last activity and
  the deadline.  Three events are a snapshot, an update and a snapshot that
  replaces both; two tasks are what an answer needs to name another one.
- *Services.*  Three requests are one whose 401 arrives late, one that has
  renewed meanwhile and one that does not retry; three tokens let a renewed one
  be refused again; three ticks let a token expire and be renewed.  Two calls
  meet at the lock; the groups include two schemes with one header, which come
  to the same value or not, two that ask for another `Accept`, and a scheme that
  is not usable.  Three executions are one that runs, one that is refused and
  one that follows, with what the first left behind still at work; one update
  lets an interaction, a stream and the cache be of a replaced card.

The three parts of `Services` share only the clock, so a behaviour exercises
one of them (`service`, chosen at the start) while the others rest at one
initial value; likewise `operation` in `ExtensionSender`.  Deadlock is checked
everywhere but in `services`, where everything may have ended.

The properties, and what would break them in the code, are in the comments
above them.  The ones that say most:

- `MergeSafe`, `WindowComplete`: `_collect_ready` waits for ancestors that are
  *activated so far*.  That this is enough depends on when the others may still
  be activated.
- `LaunchedAsRouted`, `SuccessIsComplete`: several steps of a wave route to one
  target; each target runs once, only if allowed, and never gets lost.
- `LoopsExact`: the search for ancestors ends with exactly the ancestors, and
  the reachability and Kahn passes together refuse exactly the workflows with a
  cycle.
- `FailureHasCause`: on a graph that passed validation, the dependency
  deadlock of `_run_bound` cannot occur.
- `NothingStartsAfterFailure` (an action property): after a failure or a
  cancellation nothing is handed out and nothing begins.
- `OrderSpec`: the wave scheduler implements `StepOrder`, with `launched` mapped
  to `executed`, `recorded` to `step_outputs` and the verdict to the final
  states of `run`.
- `StepsKeepPhase`: every step of the executor implements `StepPhase`.
- `StepSpec`: a step with its concurrent subtasks implements `StepPhase`;
  collecting and settling map to the one phase `tasks`.
- `VerdictMatchesResults`, `NothingBehindVerdict`: two subtasks may succeed at
  once, or one after it was cancelled; one result counts, and nothing is at work
  behind a verdict.
- `OneSendPerReply`, `RoundsAskedOnce`, `SuccessUnspoilt`, `IdentityKept`,
  `KnownTaskCancelled`: see the table of section 1.  `KnownTaskCancelled` is
  stated for a remote that has not named two tasks; without that it is false
  (section 5).
- `OrderedHistory`, `VerdictAfterClose`, `EndedCleanly`: what a consumer may
  rely on.  The verdict is always the execution's and `close` always the last
  event; that nothing comes between them is not so (section 5).
- `CompletionMeansExited`, `ListenerSilentAfterClose`,
  `PromptListenerNotReaped`: the completion is the end of the task and not of
  `close()`; who is closed hears nothing more; the idle timer is right as long
  as the listener keeps up.
- `MirrorsRemote`: whatever mix of snapshots and updates told of a task, the
  result is the task as it is.
- `RenewedForCause`, `RetriedOnceWithNewToken`, `LoginsShared`: no login without
  a cause, no second send with the same token.
- `BoundToOne`, `CachedClientCurrent`: a refused execution leaves the running
  one its handlers; an interaction that began before an update does not bring
  the old client back.

### Fairness

Safety is checked without fairness where the run has no liveness property.

- *Validation.*  It does not await, so its turns are taken.
- *Executor.*  Weak fairness of every step of the loop and of every step that
  is runnable: the event loop runs ready tasks, `on_task` and `on_route` are
  under `asyncio.wait_for(callback_timeout_seconds)`, and dispatch ends
  (`EngineClient!Termination`).  Nobody is obliged to cancel.  Termination is
  checked for `SELF_LOOP` steps only in so far as their subtasks end.
- *Step.*  Weak fairness of the step itself, of every subtask and of every
  route, by the same timeouts.
- *Client.*  Weak fairness of the first step, of time (`Expire`), of the
  deadline (`TimeOut`) and of `EndCancelTask`, which `wait_for(..., min(5, ...))`
  bounds.  Neither the remote nor the host owes an answer, so there is no
  fairness on `StreamEnds`, `Poll` or `Reply`.
- *Runner.*  Weak fairness of the producer and of the generator; a consumer
  that was given an event asks for the next one or closes.  A consumer that
  never starts, or is interrupted, owes nothing.  `Ends` names its exception:
  behind an `on_finish` that ended in a `CancelledError` nobody owes the consumer
  anything.
- *Notification.*  The event loop runs what is ready and the clock moves.  The
  remote need not send.  A listener must return only if it is a prompt one, was
  cancelled, or closed the subscription itself: a host's duty, without which no
  code could end the task.
- *Authorization.*  The deadline passes and `wait_for` acts on it; neither the
  remote nor the stream owes anything.
- *Services.*  The timeouts of the HTTP client end every login and every
  request, and asyncio locks are handed on in turn.  Nothing but its release
  ends a wait for a lock.

## 4. What is proved

All of these hold for every set of steps, subtasks, edges, workflows, tasks,
requests, calls, executions and cards, and for every bound, from the named
assumptions of the modules (the terminal target is no step; workflows have the
shape of `Workflow`; `None` is no task; a request is one of the five helpers;
the budget is positive, as `engine_client.py:39` enforces; and for the validator
that there are finitely many steps, for they come in a list).

**Executor** (`WorkflowExecutorProofs`).  Type correctness; then `SchedInv`,
because `MergeSafe` is not inductive: when `JoinWave` activates a target,
nothing in `MergeSafe` says that the target is not an ancestor of a step that
already ran.  `SchedInv` adds that

- what waits or runs is activated and not yet executed, and every activated
  step is executed or queued (`QueueInv`);
- no ancestor of an executed step is queued or in the wave, which is the second
  half of `MergeSafe` (an invariant only together with the rest);
- what a step routed to are targets of its edges (`RoutesFollowEdges`), so that
  a new target has a predecessor in the wave, which by the previous point is no
  ancestor of an executed step; hence neither is the target (`TargetsAreNew`).

Theorems: `MergesAreSafe`, `WindowsAreComplete`. With the facts that link
verdicts to steps (`VerdictInv`): `LaunchesFollowRoutes`,
`SuccessesAreComplete`, `FailuresHaveCauses`, `FailuresStopTheRun`.
`FailuresHaveCauses` rests on `MinimalStep`: a non-empty set of steps of an
acyclic graph has a member with no ancestor in it, so something queued is always
ready. `ExecutorImplementsStepOrder` maps the initial state and every action to
the abstract specification. `StepsKeepToTheirPhase` does so for `StepPhase`, one
instance per step; `StepActionsArePhaseMoves` says that while a wave is in
flight the steps of the executor can do to it what the moves of `StepPhase`
allow and no more. Since `PhaseCorrect` shows that a step in full keeps to the
same `StepPhase`, what is proved of the scheduler is not owed to its simple
steps.

**Validation** (`WorkflowRunProofs`).  `ValidatorInv` says of each loop what it
has done so far: what was found are ancestors, and the predecessors of what left
the queue were found; a counter is the number of predecessors not yet processed,
and zero exactly for what is in the queue or was in it.  When a queue is empty,
the found set is closed, hence all of the ancestors, and what Kahn's pass never
reached is a set whose members all wait for one another.  `RootsReachEveryStep`
shows that the reachability pass never refuses a graph without a cycle, so that
the two passes together are exact: `LoopsAreExact`.  Hence
`RunImplementsExecutor`: `run()` with its loops implements `WorkflowExecutor`,
and `RunsInherit` passes its theorems on.

**Step** (`StepExecutionProofs`).  `PhaseCorrect` is the refinement of
`StepPhase`.  `RoutesCorrect` needs that an edge without a condition is allowed
from the start (`RouteInv`).  The rest follows from `ResultInv`: what is
collected or waits to be collected is done (`Collected`), every subtask has
begun once the step has (`Begun`), and the winner of ANY_SUCCESS is the only
success collected (`Winner`), because nothing is taken once the step settles.
From it: `NothingBehind`, `LosersTold`, `VerdictCorrect`.  `StepsAreNeverStuck`
is the part of `AllQuiet` that is a matter of safety: a step whose subtasks and
routes have all ended has something to take up, for `as_completed` loses no
subtask (`NoneLost`) and every conditional edge was asked about (`AllAsked`).

**Client** (`EngineClientProofs`).  `DispatchInvariant`: what was asked is among
the answered keys and not above the round last seen in its context
(`AsksSeen`), without which `RoundsAskedOnce` is not inductive; sends follow
replies; nothing is cancelled, reported or over while the interaction is open
(`OpenUntilEnd`).  From it: `TypeCorrect`, `SendsFollowReplies`,
`RoundsAreAskedOnce`, `SuccessesAreUnspoilt`, `IdentityIsKept`.
`KnownTasksAreCancelled` has an invariant of its own about the three places a
task id is kept.

**Runner** (`PsopRunnerProofs`).  Whether a verdict or the sentinel is in the
queue is tied to where the producer is: a sentinel only when it is done
(`SentinelInv`), a verdict only past the closing of its client (`VerdictInv`),
and the calls of `on_finish` follow from where it is (`FinishCount`).  From
these: `TypeCorrect`, `VerdictsFollowClose`, `GeneratorsEndCleanly`.
`HistoriesAreOrdered` looks at the whole history, what left the queue followed by
what is in it: but for events that come late it is a prefix of one documented
line (`LineUp`), as long as the place of the producer says (`ToldInv`); no event
and no outcome changes what was already told, and a late event stands behind the
verdict.  That `close` is last all the same is `CloseInv`: the sentinel is put
right behind it, and a consumer that has taken the one finds the other next.
`ConsumersAreServed` is the part of `Ends` that is a matter of safety: as long as
a consumer has not closed the generator, nobody cancels the producer, and it is
at work or has left the sentinel in the queue, or else `on_finish` was called and
ended in a `CancelledError`.  `GeneratorsEndCleanly` uses it to
show that only a consumer that closes can keep `on_finish` from being called.

**Sender** (`NotificationProofs`, `ExtensionSenderProofs`). `CompletionCorrect`;
`SilenceCorrect`, from `ClosedIsCancelled` (a closed subscription that is still
reading has been cancelled, so it reads no more); `ReapingCorrect`, from
`KeepsUp` (while a prompt listener reads, `idle` never exceeds `silence`, but
for what has just arrived). `SubscriptionsAreWatched` is the part of `UsesEnd`
that is a matter of safety: while a subscription is open, the timer of the
acknowledgement runs until it is there and the idle timer runs unless the host
has given the completion up. `ResultsMirrorTheRemote` is all of `MirrorsRemote`,
for streams of any length: state, status and artifacts by the correspondence of
remote and result that every event preserves (`ReducedInv`); and that no part is
in the text twice, because the parts of different artifacts are different events
(`PartsInv`), by an induction over the artifacts that the flattening of a
sequence goes through, carried out as a least counterexample.
`AnswersAreOfTheOwnTask`.

**Services** (`ServicesProofs`).  `ClientTypeCorrect`, `BindingCorrect`,
`CacheCorrect`.  `GroupsCorrect` from `Walk`: the credentials of a call are those
of the schemes before its place in the group it is at, and agree on the headers
they set, which the walk re-establishes whenever it starts a group anew.
`LoginsCorrect`. `RetryCorrect` and `RenewalCorrect` from `AuthInv`: the token
at hand is the last one obtained, and there is none for cause only
(`TokenKept`); and how often a request was sent, and with which tokens, follows
from where it is (`Accounted`). `TokensAreKept` and `AccountTypeCorrect` state
what they rest on by itself. `LocksAreHeldByLogins` is the part of
`EveryCallEnds` that is a matter of safety: a lock is held by whoever logs in
under it and by nobody else, whatever fails or is cancelled.

**Only model-checked** is liveness, which is out of the prover's reach:
`Termination` of executor and client, `Ends` of the runner, `AllQuiet` of a
step, `UsesEnd` of the sender and `EveryCallEnds` of the services. What can go
wrong with them in safety terms, somebody waiting for what nobody will do, is
proved where the code makes it hard: `FailuresHaveCauses`, `ConsumersAreServed`,
`StepsAreNeverStuck`, `SubscriptionsAreWatched`, `LocksAreHeldByLogins`. The
properties of the five runs that end in a counterexample are not theorems, of
course.

## 5. Where the code and its documents disagree

Five runs end in a counterexample.

| run | the code | the document |
|---|---|---|
| `client_recovery_poll` | one `get_task` that fails while a lost stream is recovered ends the interaction, and the cleanup cancels the task, long before the deadline | docstring of `_await_remote_task`: "the task must be awaited rather than abandoned or cancelled" |
| `client_identity_change` | an answer that names another task overwrites the id that the cleanup reads before it is refused: the cleanup cancels the foreign task and leaves the known one | README and DESIGN: a bounded cancel of the known remote task |
| `runner_order` | subtasks left behind by a gather that ended at a `CancelledError` go on after `run()` has ended, and their events come between `error` and `close` | docstring of `execute_psop`: the events, "then ``complete`` (or ``error``), then ``close``" |
| `runner_orphan` | only `GeneratorExit` cancels the producer; a `CancelledError` in the generator ends it and leaves the workflow running, out of reach of a later `aclose()` | docstring of `execute_psop`: closing the iterator cancels the running workflow |
| `notification_idle` | while a listener is at work nothing is read, heartbeats included, and the idle timer counts on: a live subscription is released | CHANGELOG: "A stream that keeps receiving heartbeats is never released" |

Behaviour that the models show and no document speaks of:

- A gather that ends at its first exception leaves siblings running, after
  `end_execution()` and after the owned client is closed.  On a client that the
  host shares between executions their client events go to the callback of the
  next one.
- A producer that is cancelled before its first step, which a consumer that
  closes the iterator at the start event brings about, or while it closes its
  client, reports nothing and does not call `on_finish`, which the docstring of
  `execute_psop` announces for "after the workflow ends".  `EndedCleanly` shows
  that nothing else has this effect.
- An `on_finish` that ends in a `CancelledError` of its own (it awaits a task of
  the host that was cancelled) passes the `except Exception` around it: the
  producer ends without `close` and without the sentinel, and the consumer waits
  for ever.  `Ends` and `ConsumersAreServed` show that nothing else has this
  effect.
- An exception of the host's callback that wraps an HTTP status error passes for
  a refusal of the remote, and the remote task is not cancelled.
- `asyncio.timeout` in `stream_message` stands around a `yield`: the deadline
  cancels a consumer in its own code, where it sees `CancelledError`.
- A host whose await of `completion` is cancelled cancels the future and with it
  the idle timer; the same await of the acknowledgement removes its deadline.
- `send_authorization` does not cancel the remote task when it fails.
- A login that fails in one requirement group ends the call although a later
  group might be satisfied.
- A message that is sent again with the same id doubles the text of a result
  that has no artifacts.

Lines 269-274 of `runner.py` (cancel a producer that is not done when the
sentinel arrives) are modelled, as the second branch of `Drained`.  It is never
taken: the sentinel is the last thing the producer does.

## 6. Not modelled

- *Failure mapping* (`core/failure_mapping.py`): a function from exceptions to
  codes without state; a property could only repeat its table.
- *The rest of the transport*: conversion of protobuf messages, the building of
  requests, classification of HTTP errors, normalization of SSE bytes, httpx and
  TLS set-up.  They are conversions and I/O; what they hand over is enumerated.
- *Configuration of agents* (`AgentAuthManager`) and `AuthProviderInterceptor`:
  read once, or without state.
- `set_control_point` and `set_event_callback` of the client, which nothing in
  `src` calls: `ClientBinding` binds callbacks with `begin_execution` only, and
  `BoundToOne` says nothing of a host that repoints a running client.
- *Parsing and validation of values* (`Workflow.from_dict`, requests, URLs,
  bodies): an input that is refused is an action that fails.
- *Contents of messages and events*, snapshots, logging, redaction, encryption
  and configuration files.
- *One composition of everything.*  The path of a cancellation from the consumer
  through runner, executor and step to dispatch is covered link by link: each
  module takes the cancellation as an action of its environment and is shown to
  end.  The step actions of `WorkflowExecutor` are those of
  `StepPhase`, which `StepExecution` implements; what a subtask relies on from
  dispatch is only that it ends (`Termination`).  Subtasks that outlive their
  execution are part of `StepExecution`, `PsopRunner` and `ClientBinding`, each
  from its side.
