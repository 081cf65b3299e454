---------------------------- MODULE Notification ----------------------------
(***************************************************************************)
(* client/extension_sender.py: one NotificationSubscription, from          *)
(* open_notification to the end of its streaming task, with the two        *)
(* timers beside it, the two futures the host waits for, and close().      *)
(*                                                                         *)
(* The stream is a slot with the next thing to be read; the activity hook  *)
(* of client/transport_activity.py sees bytes when they are read.  Time is *)
(* counted in ticks for the idle timer alone; the acknowledgement may be    *)
(* late at any moment.  Contents of events are left out.                   *)
(***************************************************************************)
EXTENDS Naturals

CONSTANT IdleTimeout        \* ticks without activity after which to let go

ASSUME IdleAssumption == IdleTimeout \in Nat \ {0}

VARIABLES
    pc,                 \* of consume(); "exited" until _on_task_done runs
    exc,                \* what passes through aclosing(stream)
    cancelling,         \* task.cancel() was called, CancelledError not yet raised
    closed,             \* _closed
    ack,                \* the future acknowledgement
    completion,         \* the future completion
    completion_error,   \* _completion_error
    ack_timer, idle_timer,
    wire,               \* what has arrived and was not read
    idle,               \* ticks since _last_activity_monotonic
    silence,            \* ticks since the remote sent something
    prompt              \* the listener returns within a tick; never changes

task == <<pc, exc, cancelling>>

futures == <<ack, completion, completion_error>>

timers == <<ack_timer, idle_timer>>

clock == <<idle, silence>>

vars == <<task, closed, futures, timers, wire, clock, prompt>>

(* An event is a task or status update with a failed state or another one,  *)
(* a message or artifact, or nothing the engine knows.                     *)
Event == {"failure", "state", "content", "unknown"}

Wire == {"nothing", "heartbeat", "eof", "error"} \cup Event

Init ==
    /\ pc = "created" /\ exc = "none" /\ cancelling = FALSE
    /\ closed = FALSE
    /\ ack = "pending" /\ completion = "pending" /\ completion_error = "none"
    /\ ack_timer = "running" /\ idle_timer = "running"
    /\ wire = "nothing" /\ idle = 0 /\ silence = 0
    /\ prompt \in BOOLEAN

Acknowledged == ack # "pending"

is_active == ~closed /\ completion = "pending"

StopTimers == ack_timer' = "over" /\ idle_timer' = "over"

-----------------------------------------------------------------------------
(* consume().                                                              *)

(* The except, else and finally clauses.                                   *)
Exit(e) ==
    /\ pc' = "exited" /\ exc' = e /\ cancelling' = FALSE
    /\ ack' = IF Acknowledged \/ e = "cancelled" THEN ack
              ELSE IF e = "error" THEN "error" ELSE "ended"
    /\ completion_error' = IF e = "error" THEN "error" ELSE completion_error
    /\ closed' = TRUE /\ StopTimers
    /\ UNCHANGED completion

Leave(e) == pc' = "leaving" /\ exc' = e

Begin ==
    /\ pc = "created" /\ ~cancelling
    /\ \/ pc' = "reading" /\ UNCHANGED <<exc, cancelling, closed, futures, timers>>
       \/ Exit("error")
    /\ UNCHANGED <<wire, clock, prompt>>

(* Cancelled before its first step: no clause of consume() runs.            *)
NeverBegun ==
    /\ pc = "created" /\ cancelling
    /\ pc' = "exited" /\ exc' = "cancelled" /\ cancelling' = FALSE
    /\ UNCHANGED <<closed, futures, timers, wire, clock, prompt>>

RemoteSends ==
    /\ pc \in {"reading", "listening"} /\ wire = "nothing"
    /\ wire' \in Wire \ {"nothing"}
    /\ silence' = 0
    /\ UNCHANGED <<task, closed, futures, timers, idle, prompt>>

Reading(w) ==
    /\ pc = "reading" /\ ~cancelling /\ wire = w
    /\ wire' = "nothing" /\ idle' = 0
    /\ UNCHANGED <<cancelling, silence, prompt>>

(* Mutant: only decoded events count as activity. *)
ReadHeartbeatUnnoticed ==
    /\ pc = "reading" /\ ~cancelling /\ wire = "heartbeat"
    /\ wire' = "nothing"
    /\ UNCHANGED <<task, idle, silence, prompt, closed, futures, timers>>

(* An SSE comment: activity, and no event.                                 *)
ReadHeartbeat ==
    /\ Reading("heartbeat")
    /\ UNCHANGED <<pc, exc, closed, futures, timers>>

(* The subscription is refused: close(), called by the task itself.         *)
ReadRejection ==
    /\ Reading("failure") /\ ~Acknowledged
    /\ ack' = "rejected" /\ closed' = TRUE /\ StopTimers
    /\ Leave("none")
    /\ UNCHANGED <<completion, completion_error>>

(* The first state acknowledges; whatever the event carries, the listener   *)
(* is called before the next one is read.                                  *)
ReadEvent ==
    /\ \/ /\ Reading("state")
          /\ ack' = IF Acknowledged THEN ack ELSE "result"
       \/ Reading("failure") /\ Acknowledged /\ UNCHANGED ack
       \/ Reading("content") /\ UNCHANGED ack
    /\ pc' = "listening"
    /\ UNCHANGED <<exc, closed, completion, completion_error, timers>>

ReadUnknown ==
    /\ Reading("unknown")
    /\ IF is_active THEN UNCHANGED <<pc, exc>> ELSE Leave("none")
    /\ UNCHANGED <<closed, futures, timers>>

ReadEnd ==
    /\ \/ Reading("eof") /\ Leave("none")
       \/ Reading("error") /\ Leave("error")
    /\ UNCHANGED <<closed, futures, timers>>

(* Mutant: a subscription closed by its listener reads on. *)
EndListeningRegardless ==
    /\ pc = "listening"
    /\ \/ ~cancelling /\ (pc' = "reading" /\ UNCHANGED exc)
       \/ Leave("error")
       \/ cancelling /\ (Leave("none") \/ Leave("cancelled"))
    /\ cancelling' = FALSE
    /\ UNCHANGED <<closed, futures, timers, wire, clock, prompt>>

(* The listener returns or raises; the CancelledError of a close() it may   *)
(* let through or swallow.                                                 *)
EndListening ==
    /\ pc = "listening"
    /\ \/ IF is_active THEN pc' = "reading" /\ UNCHANGED exc ELSE Leave("none")
       \/ Leave("error")
       \/ cancelling /\ Leave("cancelled")
    /\ cancelling' = FALSE
    /\ UNCHANGED <<closed, futures, timers, wire, clock, prompt>>

(* CancelledError at the await of the next event.                          *)
StopReading ==
    /\ pc = "reading" /\ cancelling
    /\ Leave("cancelled") /\ cancelling' = FALSE
    /\ UNCHANGED <<closed, futures, timers, wire, clock, prompt>>

(* The stream is closed, which may fail or be cancelled.                   *)
EndLeaving ==
    /\ pc = "leaving"
    /\ \E e \in {exc, "error"} \cup (IF cancelling THEN {"cancelled"} ELSE {}) : Exit(e)
    /\ UNCHANGED <<wire, clock, prompt>>

(* _on_task_done                                                           *)
TaskDone ==
    /\ pc = "exited" /\ pc' = "done"
    /\ closed' = TRUE /\ StopTimers
    /\ ack' = IF Acknowledged THEN ack ELSE "ended"
    /\ completion' = IF completion = "pending" THEN completion_error ELSE completion
    /\ UNCHANGED <<exc, cancelling, completion_error, wire, clock, prompt>>

-----------------------------------------------------------------------------
(* The timers, the host and the clock.                                     *)

(* Mutant: the futures are settled before the task has exited. *)
CloseAndComplete(byTask, a, e) ==
    /\ closed' = TRUE /\ StopTimers
    /\ cancelling' = (cancelling \/ (~byTask /\ pc \notin {"exited", "done"}))
    /\ ack' = IF Acknowledged THEN ack ELSE a
    /\ completion_error' = e
    /\ completion' = IF completion = "pending" THEN e ELSE completion
    /\ UNCHANGED <<pc, exc, wire, clock, prompt>>

(* close() of a subscription that is open; a is what becomes of a pending   *)
(* acknowledgement, e of _completion_error.                                *)
Close(byTask, a, e) ==
    /\ closed' = TRUE /\ StopTimers
    /\ cancelling' = (cancelling \/ (~byTask /\ pc \notin {"exited", "done"}))
    /\ ack' = IF Acknowledged THEN ack ELSE a
    /\ completion_error' = e
    /\ UNCHANGED <<completion, pc, exc, wire, clock, prompt>>

AckDeadline ==
    /\ ack_timer = "running" /\ ~Acknowledged /\ ~closed
    /\ Close(FALSE, "timeout", completion_error)

(* The done callback of the acknowledgement.                               *)
EndAckTimer ==
    /\ ack_timer = "running" /\ Acknowledged
    /\ ack_timer' = "over"
    /\ UNCHANGED <<task, closed, futures, idle_timer, wire, clock, prompt>>

IdleDeadline ==
    /\ idle_timer = "running" /\ is_active
    /\ idle = IdleTimeout
    /\ Close(FALSE, "cancelled", "idle")

(* The host no longer waits for the completion: the timer returns.          *)
EndIdleTimer ==
    /\ idle_timer = "running" /\ ~is_active
    /\ idle_timer' = "over"
    /\ UNCHANGED <<task, closed, futures, ack_timer, wire, clock, prompt>>

(* From outside, or in the listener, where it does not cancel.             *)
HostCloses ==
    /\ ~closed
    /\ \/ Close(FALSE, "cancelled", completion_error)
       \/ pc = "listening" /\ Close(TRUE, "cancelled", completion_error)

(* A host task that is cancelled, or times out, while it awaits one of the  *)
(* futures cancels that future.                                            *)
HostGivesUp ==
    /\ \/ ~Acknowledged /\ ack' = "abandoned" /\ UNCHANGED completion
       \/ completion = "pending" /\ completion' = "abandoned" /\ UNCHANGED ack
    /\ UNCHANGED <<task, closed, completion_error, timers, wire, clock, prompt>>

AtMost(n) == IF n < IdleTimeout THEN n ELSE IdleTimeout

(* Mutant: the clock of the idle timer stands while the host is at work. *)
TickOutsideListener ==
    /\ pc = "reading" => wire = "nothing"
    /\ pc = "listening" => ~prompt
    /\ pc # "done"
    /\ idle' = IF pc = "listening" THEN idle ELSE AtMost(idle + 1)
    /\ silence' = AtMost(silence + 1)
    /\ UNCHANGED <<task, closed, futures, timers, wire, prompt>>

(* What has arrived is read, and a prompt listener returns, before the      *)
(* clock moves.                                                            *)
Tick ==
    /\ pc = "reading" => wire = "nothing"
    /\ pc = "listening" => ~prompt
    /\ pc # "done"
    /\ idle' = AtMost(idle + 1) /\ silence' = AtMost(silence + 1)
    /\ UNCHANGED <<task, closed, futures, timers, wire, prompt>>

Consume ==
    \/ Begin \/ NeverBegun
    \/ ReadHeartbeat \/ ReadRejection \/ ReadEvent \/ ReadUnknown \/ ReadEnd
    \/ StopReading \/ EndLeaving \/ TaskDone

Timers == AckDeadline \/ EndAckTimer \/ IdleDeadline \/ EndIdleTimer

Terminated == pc = "done" /\ UNCHANGED vars

Next ==
    \/ Consume \/ EndListening
    \/ RemoteSends
    \/ Timers
    \/ HostCloses \/ HostGivesUp
    \/ Tick
    \/ Terminated

Spec == Init /\ [][Next]_vars

(* The event loop runs what is ready and the clock moves.  The remote need  *)
(* not send; a listener that is neither prompt, nor cancelled, nor the one  *)
(* who closed the subscription need not return.                            *)
Fairness ==
    /\ WF_vars(Consume) /\ WF_vars(Tick)
    /\ WF_vars(AckDeadline) /\ WF_vars(IdleDeadline)
    /\ WF_vars(EndListening /\ (prompt \/ cancelling \/ closed))

FairSpec == Spec /\ Fairness

-----------------------------------------------------------------------------
(* Every variable keeps to its range.                                      *)
TypeOK ==
    /\ pc \in {"created", "reading", "listening", "leaving", "exited", "done"}
    /\ exc \in {"none", "error", "cancelled"}
    /\ cancelling \in BOOLEAN /\ closed \in BOOLEAN /\ prompt \in BOOLEAN
    /\ ack \in {"pending", "result", "rejected", "error", "ended", "timeout",
                "cancelled", "abandoned"}
    /\ completion \in {"pending", "none", "error", "idle", "abandoned"}
    /\ completion_error \in {"none", "error", "idle"}
    /\ ack_timer \in {"running", "over"} /\ idle_timer \in {"running", "over"}
    /\ wire \in Wire
    /\ idle \in 0..IdleTimeout /\ silence \in 0..IdleTimeout

(***************************************************************************)
(* Completion means that the streaming task has exited, not merely that    *)
(* close() was called; and then nothing is left: both futures are settled, *)
(* no timer runs.                                                          *)
(***************************************************************************)
CompletionMeansExited ==
    /\ completion \in {"none", "error", "idle"} => pc = "done"
    /\ pc = "done" =>
          /\ closed /\ Acknowledged /\ completion # "pending"
          /\ ack_timer = "over" /\ idle_timer = "over"

(* No event is handed to the listener of a subscription that is closed,     *)
(* by whom and from where it may be.                                       *)
ListenerSilentAfterClose ==
    [][pc # "listening" /\ pc' = "listening" => ~closed]_vars

Reaps == completion_error # "idle" /\ completion_error' = "idle"

(* What arrives at the deadline itself may come too late.                  *)
Silent == silence = IdleTimeout \/ (silence = 0 /\ wire # "nothing")

(* The idle timer lets go only of a stream that was silent for that long,   *)
(* if the listener keeps up with it.                                       *)
PromptListenerNotReaped ==
    [][Reaps /\ prompt /\ pc \in {"reading", "listening"} => Silent]_vars

(* The idle timer lets go only of a stream that was silent for that long.   *)
LiveNotReaped == [][Reaps /\ pc \in {"reading", "listening"} => Silent]_vars

(* The host gets an answer to its subscription.                            *)
AckAnswered == <>Acknowledged

(* A closed subscription ends.                                             *)
CloseEnds == closed ~> pc = "done"

(* A stream that went silent for good is released, unless a host gave up    *)
(* waiting for the completion, which stops the idle timer.                 *)
DeadStreamReleased ==
    <>[](silence = IdleTimeout) => <>(pc = "done" \/ completion = "abandoned")

(* The subscription is answered, ends when closed and when it is dead.      *)
Released == AckAnswered /\ CloseEnds /\ DeadStreamReleased
=============================================================================
