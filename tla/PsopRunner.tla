----------------------------- MODULE PsopRunner -----------------------------
(***************************************************************************)
(* runner.py: execute_psop, an async generator fed by a task of its own.   *)
(*                                                                         *)
(* The producer task runs the executor, closes the client it owns, reports *)
(* the verdict, calls on_finish and closes the queue; the generator drains *)
(* the queue into its consumer.  The two meet in the queue and in the      *)
(* cancellation of the producer when the consumer closes the generator.    *)
(*                                                                         *)
(* Abstracted: event contents; the executor, which emits up to MaxEvents   *)
(* events and ends in some way, at once or after a while when cancelled    *)
(* (WorkflowExecutor models it); on_event that returns a list.  A step that *)
(* was cancelled may have left subtasks behind (StepExecution): they go on *)
(* after run() has ended and their events go to the same queue.            *)
(***************************************************************************)
EXTENDS Naturals, Sequences

CONSTANT MaxEvents  \* bound on the events of one execution

ASSUME MaxEventsAssumption == MaxEvents \in Nat

VARIABLES
    ownsClient,     \* engine_client is None; never changes
    hasFinish,      \* on_finish is given; never changes
    consumer,       \* where the generator is, and with it its consumer
    holding,        \* the event in the generator's hands
    producer,       \* where run_task is
    cancelAsked,    \* run_task.cancel() was called and not yet delivered
    queue,          \* emitter._queue
    emitted,        \* events of the execution before its verdict
    late,           \* and after it
    stray,          \* subtasks that a step left behind are at work
    result,         \* holder
    client,         \* engine_client: none, open, closed, or failed to close
    finishCalls,    \* history: calls of on_finish
    seen            \* history: events that left the queue

constants == <<ownsClient, hasFinish>>

consumerVars == <<consumer, holding, seen>>

strayVars == <<emitted, late, stray>>

vars == <<constants, consumerVars, producer, cancelAsked, queue, strayVars,
          result, client, finishCalls>>

Nothing == "nothing"

Sentinel == "None"

Verdicts == {"complete", "error"}

Events == {"start", "event", "close"} \cup Verdicts

\* the generator has ended
Gone == {"returned", "closed", "interrupted"}

(* The task has ended: by itself, by a cancellation of the generator, or by *)
(* a CancelledError that on_finish ended in.                                *)
ProducerOver == producer \in {"done", "dead", "broken"}

Init ==
    /\ ownsClient \in BOOLEAN /\ hasFinish \in BOOLEAN
    /\ consumer = "idle" /\ holding = Nothing
    /\ producer = "none" /\ cancelAsked = FALSE
    /\ queue = <<>> /\ emitted = 0 /\ late = 0 /\ stray = FALSE
    /\ result = Nothing
    /\ client = "none" /\ finishCalls = 0 /\ seen = <<>>

(* The first __anext__: the client, the start event and the task are made.  *)
Start ==
    /\ consumer = "idle"
    /\ client' = "open"
    /\ queue' = <<"start">>
    /\ producer' = "created"
    /\ consumer' = "waiting"
    /\ UNCHANGED <<constants, holding, seen, cancelAsked, strayVars, result,
                   finishCalls>>

-----------------------------------------------------------------------------
(* The producer, _run_and_finalize.                                        *)

(* Mutant: the sentinel is forgotten. *)
ReportFinalWithoutSentinel(q) == queue' = q \o <<"close">> /\ producer' = "done"

(* close, and the sentinel: the last thing the producer does.               *)
ReportFinal(q) == queue' = q \o <<"close", Sentinel>> /\ producer' = "done"

(* Mutant: a workflow that failed is reported as complete. *)
ReportComplete(r) ==
    IF hasFinish
      THEN /\ finishCalls' = finishCalls + 1
           /\ queue' = Append(queue, "complete") /\ producer' = "finishing"
      ELSE ReportFinal(Append(queue, "complete")) /\ UNCHANGED finishCalls

(* on_finish is over.  Its exceptions are ignored, a CancelledError is not  *)
(* one of them: the task ends there, with neither close nor sentinel.       *)
AfterFinish(q) ==
    \/ ReportFinal(q)
    \/ queue' = q /\ producer' = "broken"

(* The verdict is queued; on_finish is called and may be awaited.           *)
Report(r) ==
    LET q == Append(queue, IF r = "success" THEN "complete" ELSE "error")
    IN IF hasFinish
         THEN /\ finishCalls' = finishCalls + 1
              /\ \/ queue' = q /\ producer' = "finishing"
                 \/ AfterFinish(q)
         ELSE ReportFinal(q) /\ UNCHANGED finishCalls

BeginRun ==
    /\ producer = "created"
    /\ IF cancelAsked THEN producer' = "dead" ELSE producer' = "running"
    /\ cancelAsked' = FALSE
    /\ UNCHANGED <<constants, consumerVars, queue, strayVars, result, client,
                   finishCalls>>

Emit ==
    /\ producer = "running" /\ emitted < MaxEvents
    /\ queue' = Append(queue, "event")
    /\ emitted' = emitted + 1
    /\ UNCHANGED <<constants, consumerVars, producer, cancelAsked, late, stray,
                   result, client, finishCalls>>

(* The verdict is in the queue, or was.                                     *)
Reported == producer \in {"finishing", "done"} \/ finishCalls > 0

(* A subtask left behind emits, whatever became of the execution meanwhile. *)
EmitBehind ==
    /\ stray /\ emitted + late < MaxEvents
    /\ queue' = Append(queue, "event")
    /\ IF Reported THEN late' = late + 1 /\ UNCHANGED emitted
                   ELSE emitted' = emitted + 1 /\ UNCHANGED late
    /\ UNCHANGED <<constants, consumerVars, producer, cancelAsked, stray, result,
                   client, finishCalls>>

EndStray ==
    /\ stray /\ stray' = FALSE
    /\ UNCHANGED <<constants, consumerVars, producer, cancelAsked, queue, emitted,
                   late, result, client, finishCalls>>

(* Only an execution whose steps all succeeded has nothing behind it.       *)
LeftBehind(r) == IF r = "success" THEN {FALSE} ELSE BOOLEAN

(* Mutant: the verdict is reported before the client is closed. *)
EndRunReportingFirst ==
    /\ producer = "running"
    /\ \E r \in IF cancelAsked THEN {"cancelled"} ELSE {"success", "failure"} :
         /\ result' = r
         /\ stray' \in LeftBehind(r)
         /\ Report(r)
    /\ cancelAsked' = FALSE
    /\ UNCHANGED <<constants, consumerVars, emitted, late, client>>

(* executor.run() returns, raises, or passes on the cancellation.           *)
EndRun ==
    /\ producer = "running"
    /\ \E r \in IF cancelAsked THEN {"cancelled"} ELSE {"success", "failure"} :
         /\ result' = r
         /\ stray' \in LeftBehind(r)
         /\ IF ownsClient
              THEN producer' = "closing" /\ UNCHANGED <<queue, finishCalls>>
              ELSE Report(r)
    /\ cancelAsked' = FALSE
    /\ UNCHANGED <<constants, consumerVars, emitted, late, client>>

(* engine_client.close() is over, its failure ignored.                      *)
EndClose ==
    /\ producer = "closing" /\ ~cancelAsked
    /\ client' \in {"closed", "failed"}
    /\ Report(result)
    /\ UNCHANGED <<constants, consumerVars, cancelAsked, strayVars, result>>

(* The host ends on_finish, a cancellation that reached it swallowed.       *)
EndFinish ==
    /\ producer = "finishing"
    /\ AfterFinish(queue)
    /\ cancelAsked' = FALSE
    /\ UNCHANGED <<constants, consumerVars, strayVars, result, client, finishCalls>>

(* A cancellation delivered inside the finally clause, or in on_finish: no  *)
(* clause catches it.  What is left of the client is then unknown.          *)
CancelledLate ==
    /\ producer \in {"closing", "finishing"} /\ cancelAsked
    /\ producer' = "dead" /\ cancelAsked' = FALSE
    /\ IF producer = "closing" THEN client' \in {"open", "closed", "failed"}
                               ELSE UNCHANGED client
    /\ UNCHANGED <<constants, consumerVars, queue, strayVars, result, finishCalls>>

-----------------------------------------------------------------------------
(* The generator.                                                          *)

(* emitter.drain() has an event: on_event may await, yield it or skip it.   *)
Take ==
    /\ consumer = "waiting" /\ queue # <<>> /\ Head(queue) # Sentinel
    /\ queue' = Tail(queue)
    /\ seen' = Append(seen, Head(queue))
    /\ holding' = Head(queue)
    /\ consumer' = "transforming"
    /\ UNCHANGED <<constants, producer, cancelAsked, strayVars, result, client,
                   finishCalls>>

(* on_event returned None, or the consumer asks for the next event.         *)
Skip ==
    /\ consumer \in {"transforming", "yielded"}
    /\ consumer' = "waiting" /\ holding' = Nothing
    /\ UNCHANGED <<constants, seen, producer, cancelAsked, queue, strayVars, result,
                   client, finishCalls>>

Yield ==
    /\ consumer = "transforming"
    /\ consumer' = "yielded"
    /\ UNCHANGED <<constants, holding, seen, producer, cancelAsked, queue,
                   strayVars, result, client, finishCalls>>

(* The sentinel ends drain(); a producer that is not done is cancelled.     *)
Drained ==
    /\ consumer = "waiting" /\ queue # <<>> /\ Head(queue) = Sentinel
    /\ queue' = Tail(queue)
    /\ IF ProducerOver THEN consumer' = "returned" /\ UNCHANGED cancelAsked
                       ELSE consumer' = "closing" /\ cancelAsked' = TRUE
    /\ UNCHANGED <<constants, holding, seen, producer, strayVars, result, client,
                   finishCalls>>

(* Mutant: the generator does not wait for the task it has cancelled. *)
CloseAtOnce ==
    /\ consumer = "yielded"
    /\ consumer' = "closed" /\ holding' = Nothing
    /\ cancelAsked' = (~ProducerOver)
    /\ UNCHANGED <<constants, seen, producer, queue, strayVars, result, client,
                   finishCalls>>

(* aclose() at a yield (the garbage collector's included): GeneratorExit.   *)
Close ==
    /\ consumer = "yielded"
    /\ consumer' = "closing" /\ holding' = Nothing
    /\ cancelAsked' = (~ProducerOver)
    /\ UNCHANGED <<constants, seen, producer, queue, strayVars, result, client,
                   finishCalls>>

EndClosing ==
    /\ consumer = "closing" /\ ProducerOver
    /\ consumer' = "closed"
    /\ UNCHANGED <<constants, holding, seen, producer, cancelAsked, queue,
                   strayVars, result, client, finishCalls>>

(* The task of the consumer is cancelled while the generator awaits: the    *)
(* queue or on_event, where no clause catches it, or the producer, to which *)
(* the cancellation is passed on.                                           *)
Interrupt ==
    \/ /\ consumer \in {"waiting", "transforming"}
       /\ consumer = "waiting" => queue = <<>>
       /\ consumer' = "interrupted" /\ holding' = Nothing
       /\ UNCHANGED <<seen, cancelAsked>>
       /\ UNCHANGED <<constants, producer, queue, strayVars, result, client,
                      finishCalls>>
    \/ /\ consumer = "closing" /\ ~ProducerOver
       /\ cancelAsked' = TRUE
       /\ UNCHANGED <<constants, consumerVars, producer, queue, strayVars, result,
                      client, finishCalls>>

Terminated == consumer \in Gone /\ ProducerOver /\ UNCHANGED vars

Produce == BeginRun \/ EndRun \/ EndClose \/ EndFinish \/ CancelledLate

Next ==
    \/ Start
    \/ Produce \/ Emit \/ EmitBehind \/ EndStray
    \/ Take \/ Skip \/ Yield \/ Drained \/ Close \/ EndClosing \/ Interrupt
    \/ Terminated

Spec == Init /\ [][Next]_vars

(* The producer runs; a consumer that has begun asks for the next event or  *)
(* closes the generator.                                                    *)
Fairness ==
    /\ WF_vars(Produce)
    /\ WF_vars(Take) /\ WF_vars(Skip \/ Close) /\ WF_vars(Drained)
    /\ WF_vars(EndClosing)

FairSpec == Spec /\ Fairness

-----------------------------------------------------------------------------
(* Every variable keeps to its range.                                      *)
TypeOK ==
    /\ ownsClient \in BOOLEAN /\ hasFinish \in BOOLEAN
    /\ consumer \in {"idle", "waiting", "transforming", "yielded", "closing"}
                    \cup Gone
    /\ holding \in Events \cup {Nothing}
    /\ producer \in {"none", "created", "running", "closing", "finishing",
                     "done", "dead", "broken"}
    /\ cancelAsked \in BOOLEAN
    /\ queue \in Seq(Events \cup {Sentinel})
    /\ emitted \in 0..MaxEvents /\ late \in 0..MaxEvents /\ stray \in BOOLEAN
    /\ result \in {Nothing, "success", "failure", "cancelled"}
    /\ client \in {"none", "open", "closed", "failed"}
    /\ finishCalls \in 0..1
    /\ seen \in Seq(Events)

(***************************************************************************)
(* What the consumer gets is a history in order: start first, then the     *)
(* events of the execution, then one verdict, which is the verdict of the  *)
(* execution, and close as the last of all.  What a subtask left behind    *)
(* still emits comes before the verdict, or between verdict and close, or  *)
(* not at all.                                                             *)
(***************************************************************************)
OrderedHistory ==
    \A i \in 1..Len(seen) :
        /\ (seen[i] = "start") = (i = 1)
        /\ seen[i] \in Verdicts =>
              /\ i = emitted + 2
              /\ (seen[i] = "complete") = (result = "success")
        /\ seen[i] = "close" =>
              /\ i = Len(seen) /\ i > emitted + 2
              /\ i = emitted + 3 \/ late > 0

(***************************************************************************)
(* The verdict reaches the consumer only when the client the runner made   *)
(* is closed, or has failed to close, so that a consumer may stop at the   *)
(* verdict.                                                                *)
(***************************************************************************)
VerdictAfterClose ==
    ownsClient /\ (\E i \in 1..Len(seen) : seen[i] \in Verdicts)
        => client # "open"

(***************************************************************************)
(* A generator that was drained to its end has no producer behind it and   *)
(* no client left to close; one that was closed has no producer behind it. *)
(* Only a consumer that closes the generator can keep on_finish from being *)
(* called.                                                                 *)
(***************************************************************************)
EndedCleanly ==
    /\ consumer = "returned" =>
          producer = "done" /\ (ownsClient => client # "open")
    /\ consumer = "closed" => ProducerOver
    /\ ProducerOver /\ consumer \notin {"closing", "closed"} =>
          finishCalls = IF hasFinish THEN 1 ELSE 0

(* The consumer waits for events, and nobody is left to end them.           *)
Unserved == consumer = "waiting" /\ queue = <<>> /\ producer = "broken"

(***************************************************************************)
(* A consumer that is not interrupted gets to the end of the generator, and *)
(* the producer ends with it or before it.  There is one way to be left     *)
(* waiting: an on_finish that ends in a CancelledError.                     *)
(***************************************************************************)
Ends ==
    consumer \in {"waiting", "yielded", "closing"}
        ~> \/ consumer \in Gone /\ (consumer # "interrupted" => ProducerOver)
           \/ Unserved

(* The verdict is followed by close.                                        *)
VerdictThenClose ==
    \A i \in 1..(Len(seen) - 1) : seen[i] \in Verdicts => seen[i + 1] = "close"

(* Once the generator is over the workflow is over too, or being cancelled. *)
NoOrphan == consumer \in Gone => ProducerOver \/ cancelAsked
=============================================================================
