---------------------------- MODULE EngineClient ----------------------------
(***************************************************************************)
(* client/engine_client.py: one WorkflowEngineClient.dispatch, from the    *)
(* first send to the end of the negotiation with the remote agent.         *)
(*                                                                         *)
(* The remote agent and the network are not trusted: a stream may reveal   *)
(* any task, end with any answer, be refused or be dropped, and every poll *)
(* may return any answer or fail.  One action is what the code does from   *)
(* one await to the next.                                                  *)
(*                                                                         *)
(* Abstracted: contents and events; the 0.25 s and poll-interval sleeps    *)
(* (a poll is one await); a poll that finds the task still working, which  *)
(* changes nothing; and time, of which only the interaction deadline       *)
(* counts (expired).                                                       *)
(***************************************************************************)
EXTENDS Naturals, Sequences

CONSTANTS
    Task, NoTask,   \* remote task ids, and None
    Context,        \* negotiation context ids
    MaxRound,       \* bound: the rounds a proposal may carry
    NoProposal,     \* the answer carries no Negotiation-T metadata
    Malformed,      \* it does, and _negotiation_context or the maxRounds
                    \* check refuses it
    MaxExchanges    \* max_negotiation_exchanges

ASSUME TaskAssumption == NoTask \notin Task

ASSUME ProposalAssumption ==
    /\ MaxRound \in Nat
    /\ {NoProposal, Malformed} \cap (Context \X (1..MaxRound)) = {}

\* engine_client.py:39 refuses a budget below one
ASSUME BudgetAssumption == MaxExchanges \in Nat /\ MaxExchanges > 0

Round == 1..MaxRound

Proposal == Context \X Round

(* A SendMessageResult.  "" is the state of a bare message (or of a task    *)
(* without one); WORKING is also SUBMITTED; FAILED is also CANCELED and     *)
(* REJECTED; OTHER is any state the engine cannot continue from.            *)
TaskState == {"", "WORKING", "INPUT_REQUIRED", "COMPLETED", "FAILED", "OTHER"}

Answer == [task : Task \cup {NoTask}, sameContext : BOOLEAN,
           state : TaskState, proposal : Proposal \cup {NoProposal, Malformed}]

is_terminal(a) == a.state \in {"COMPLETED", "FAILED"}

VARIABLES
    pc,
    exchange_number,
    stream_task,        \* the task the current stream has revealed
    remote_task_id,     \* the task whose identity was validated
    interaction_task,   \* interaction["remote_task_id"]
    terminal,           \* interaction["terminal"]
    contexts,           \* round last seen in each context, 0 for none
    answered,           \* <<task, context, round>> the host was asked about
    abort_sent,
    expired,            \* the deadline has passed
    reason,             \* why dispatch raised
    success,            \* _protocol_result of what dispatch returned
    sends, replies,     \* history: messages sent, replies of the host
    asks,               \* history: what the host was asked, in order
    cancelled           \* history: tasks cancel_task was called for

negotiation == <<exchange_number, contexts, answered, abort_sent, replies,
                 asks>>

remote == <<stream_task, remote_task_id, interaction_task, sends>>

ending == <<pc, terminal, reason, success, cancelled>>

vars == <<negotiation, remote, ending, expired>>

Awaiting == {"streaming", "recovering", "working", "repeated", "asking"}

Cancelling == {"finishing", "cleanup"}

Final == {"returned", "raised"}

Reasons == {"none", "local", "rejected", "transport", "protocol", "host",
            "stopped", "timeout", "cancelled"}

Init ==
    /\ pc = "new"
    /\ exchange_number = 0
    /\ stream_task = NoTask /\ remote_task_id = NoTask
    /\ interaction_task = NoTask /\ terminal = FALSE
    /\ contexts = [c \in Context |-> 0]
    /\ answered = {}
    /\ abort_sent = FALSE /\ expired = FALSE
    /\ reason = "none" /\ success = FALSE
    /\ sends = 0 /\ replies = 0 /\ asks = <<>> /\ cancelled = {}

-----------------------------------------------------------------------------
(* The ways out of dispatch.                                               *)

(* A structured remote error: the remote has refused, nothing to clean up. *)
Raise(r) ==
    /\ pc' = "raised" /\ reason' = r
    /\ UNCHANGED <<terminal, success, cancelled>>

(* Any other exception, and a cancellation: _cancel_abandoned_interaction   *)
(* is awaited first (under a shield for a cancellation).                    *)
Abandon(r, task) ==
    /\ reason' = r
    /\ IF task = NoTask \/ terminal
         THEN pc' = "raised" /\ UNCHANGED cancelled
         ELSE pc' = "cleanup" /\ cancelled' = cancelled \cup {task}
    /\ UNCHANGED <<terminal, success>>

(* Return a; stop tells that the task is left unfinished.                   *)
Return(a, task, stop, ok) ==
    /\ terminal' = is_terminal(a)
    /\ success' = ok
    /\ IF stop /\ ~is_terminal(a) /\ task # NoTask
         THEN pc' = "finishing" /\ cancelled' = cancelled \cup {task}
         ELSE pc' = "returned" /\ UNCHANGED cancelled
    /\ UNCHANGED reason

(* _protocol_result: what the executor makes of the answer.                 *)
Succeeds(a) == a.state = "COMPLETED" \/ (a.state = "" /\ a.task = NoTask)

(* _finish_remote_result *)
Finish(a, task) ==
    /\ Return(a, task, a.task # NoTask, Succeeds(a))
    /\ UNCHANGED negotiation

-----------------------------------------------------------------------------
(* What _dispatch does with an answer that is not WORKING.                 *)

Negotiates(a) ==
    \/ a.state = "INPUT_REQUIRED"
    \/ a.task = NoTask /\ a.proposal # NoProposal

(* Mutant: the budget is off by one. *)
AcceptableOnceMore(a, task) ==
    /\ exchange_number <= MaxExchanges
    /\ a.state = "INPUT_REQUIRED" => task # NoTask
    /\ a.proposal \in Proposal
    /\ a.proposal[2] >= contexts[a.proposal[1]]

Acceptable(a, task) ==
    /\ exchange_number < MaxExchanges
    /\ a.state = "INPUT_REQUIRED" => task # NoTask
    /\ a.proposal \in Proposal
    /\ a.proposal[2] >= contexts[a.proposal[1]]

SeeRound(p) == contexts' = [contexts EXCEPT ![p[1]] = p[2]]

(* Mutant: no key is ever found in answered. *)
NeverAnswered(p, task) == FALSE

IsAnswered(p, task) == <<task, p[1], p[2]>> \in answered

(* NEGOTIATION_REQUEST, and on_negotiation is awaited.                      *)
Ask(p, task) ==
    /\ answered' = answered \cup {<<task, p[1], p[2]>>}
    /\ asks' = Append(asks, <<task, p[1], p[2]>>)
    /\ pc' = "asking"
    /\ UNCHANGED <<exchange_number, abort_sent, replies, terminal, reason,
                   success, cancelled>>

(* A round already answered: without a task this is an error, with one the  *)
(* task is polled until it moves on.                                        *)
Repeat(task) ==
    /\ IF task = NoTask
         THEN Abandon("protocol", task)
         ELSE pc' = "repeated" /\ UNCHANGED <<terminal, reason, success, cancelled>>
    /\ UNCHANGED <<exchange_number, answered, abort_sent, replies, asks>>

Decide(a, task) ==
    \/ ~Negotiates(a) /\ Finish(a, task)
    \/ /\ Negotiates(a) /\ ~Acceptable(a, task)
       /\ Abandon("protocol", task)
       /\ UNCHANGED negotiation
    \/ /\ Negotiates(a) /\ Acceptable(a, task)
       /\ SeeRound(a.proposal)
       /\ IF IsAnswered(a.proposal, task) THEN Repeat(task)
                                          ELSE Ask(a.proposal, task)

(* Mutant: an answer to an Abort is taken for the task's result. *)
AfterAbortAsUsual(a, task) ==
    /\ Return(a, task, TRUE, Succeeds(a))
    /\ UNCHANGED negotiation

AfterAbort(a, task) ==
    /\ Return(a, task, TRUE, FALSE)
    /\ UNCHANGED negotiation

StillWorking(task) ==
    /\ IF task = NoTask
         THEN Abandon("protocol", task)
         ELSE pc' = "working" /\ UNCHANGED <<terminal, reason, success, cancelled>>
    /\ UNCHANGED negotiation

(* Mutant: the task id is not compared. *)
SameContextOnly(a) == a.task = NoTask \/ a.sameContext

(* _validate_remote_identity *)
SameIdentity(a) ==
    \/ a.task = NoTask
    \/ a.sameContext /\ remote_task_id \in {NoTask, a.task}

(* The answer to a send, or what recovery found instead of one.             *)
Receive(a) ==
    LET task == IF a.task = NoTask THEN remote_task_id ELSE a.task
    IN IF SameIdentity(a)
         THEN /\ remote_task_id' = task
              /\ interaction_task' = task
              /\ IF abort_sent THEN AfterAbort(a, task)
                 ELSE IF a.state = "WORKING" THEN StillWorking(task)
                 ELSE Decide(a, task)
         ELSE /\ interaction_task' = a.task
              /\ Abandon("protocol", a.task)
              /\ UNCHANGED <<remote_task_id, negotiation>>

-----------------------------------------------------------------------------
(* The first send; the agent may be unknown, the client closed, the content *)
(* refused.                                                                 *)
Start ==
    /\ pc = "new"
    /\ \/ /\ pc' = "streaming" /\ sends' = 1
          /\ UNCHANGED <<terminal, reason, success, cancelled>>
       \/ Abandon("local", NoTask) /\ UNCHANGED sends
    /\ UNCHANGED <<negotiation, stream_task, remote_task_id, interaction_task,
                   expired>>

(* Mutant: the intermediate event does not reach the interaction. *)
StreamRevealsNothing(t) ==
    /\ pc = "streaming" /\ stream_task # t
    /\ stream_task' = t
    /\ UNCHANGED <<negotiation, ending, remote_task_id, interaction_task, sends,
                   expired>>

(* A task event: its id is remembered at once, not yet validated.           *)
StreamReveals(t) ==
    /\ pc = "streaming" /\ stream_task # t
    /\ stream_task' = t /\ interaction_task' = t
    /\ UNCHANGED <<negotiation, ending, remote_task_id, sends, expired>>

StreamEnds ==
    /\ pc = "streaming" /\ ~expired
    /\ \E a \in Answer : a.task = stream_task /\ Receive(a)
    /\ UNCHANGED <<stream_task, sends, expired>>

(* A RemoteA2AError, an empty stream or an empty event.                     *)
StreamRejected ==
    /\ pc = "streaming"
    /\ Raise("rejected")
    /\ UNCHANGED <<negotiation, remote, expired>>

(* Mutant: a dropped stream is sent again. *)
StreamDropsAndResends ==
    /\ pc = "streaming" /\ ~expired
    /\ sends <= MaxExchanges + 1
    /\ sends' = sends + 1
    /\ UNCHANGED <<negotiation, stream_task, remote_task_id, interaction_task,
                   ending, expired>>

(* The connection is lost, in whatever way: with a task known its state is  *)
(* polled instead, without one the error is raised.                         *)
StreamDrops ==
    /\ pc = "streaming" /\ ~expired
    /\ IF interaction_task = NoTask \/ terminal
         THEN Abandon("transport", interaction_task)
         ELSE pc' = "recovering" /\ UNCHANGED <<terminal, reason, success, cancelled>>
    /\ UNCHANGED <<negotiation, remote, expired>>

(* _await_remote_task: get_task of interaction_task, which may be a task    *)
(* that no answer has validated.                                            *)
Recover ==
    /\ pc = "recovering" /\ ~expired
    /\ \E a \in Answer : a.task # NoTask /\ a.state # "WORKING" /\ Receive(a)
    /\ UNCHANGED <<stream_task, sends, expired>>

(* get_task of a task that was WORKING, or that repeats an answered round.  *)
Poll ==
    /\ pc \in {"working", "repeated"} /\ ~expired
    /\ \E a \in Answer :
         /\ a.task # NoTask
         /\ IF ~SameIdentity(a)
              THEN Abandon("protocol", interaction_task) /\ UNCHANGED negotiation
              ELSE a.state # "WORKING" /\ Decide(a, remote_task_id)
    /\ UNCHANGED <<remote, expired>>

(* get_task raises; only a structured remote error spares the cleanup.      *)
PollFails ==
    /\ pc \in {"recovering", "working", "repeated"}
    /\ Raise("rejected") \/ Abandon("transport", interaction_task)
    /\ UNCHANGED <<negotiation, remote, expired>>

(* NegotiationSend: the reply goes out, as an Abort or not, unless the      *)
(* local preparation of the send fails.                                     *)
Reply ==
    /\ pc = "asking" /\ ~expired
    /\ exchange_number' = exchange_number + 1
    /\ replies' = replies + 1
    /\ abort_sent' \in BOOLEAN
    /\ \/ /\ pc' = "streaming" /\ sends' = sends + 1 /\ stream_task' = NoTask
          /\ UNCHANGED <<terminal, reason, success, cancelled>>
       \/ Abandon("local", interaction_task) /\ UNCHANGED <<sends, stream_task>>
    /\ UNCHANGED <<contexts, answered, asks, remote_task_id,
                   interaction_task, expired>>

(* NegotiationStop, a reply that does not fit the proposal, or an exception *)
(* of the host.  If that one wraps an httpx.HTTPStatusError it passes for a *)
(* structured remote error.                                                 *)
HostFails ==
    /\ pc = "asking"
    /\ \/ \E r \in {"stopped", "protocol", "host"} : Abandon(r, interaction_task)
       \/ Raise("host")
    /\ UNCHANGED <<negotiation, remote, expired>>

-----------------------------------------------------------------------------
Expire ==
    /\ ~expired /\ pc \notin Final
    /\ expired' = TRUE
    /\ UNCHANGED <<negotiation, remote, ending>>

(* wait_for, or the deadline test before the next await.                    *)
TimeOut ==
    /\ expired /\ pc \in Awaiting
    /\ Abandon("timeout", interaction_task)
    /\ UNCHANGED <<negotiation, remote, expired>>

(* The task awaiting dispatch is cancelled.  While cancel_task is awaited   *)
(* that goes unnoticed: the shield keeps it off, or it is caught and logged *)
(* by _cancel_abandoned_interaction.                                        *)
Cancel ==
    /\ pc \in Awaiting
    /\ Abandon("cancelled", interaction_task)
    /\ UNCHANGED <<negotiation, remote, expired>>

(* Mutant: the bound on cancel_task is missing. *)
EndCancelTaskIfAnswered ==
    /\ pc \in Cancelling /\ ~expired
    /\ pc' = IF pc = "finishing" THEN "returned" ELSE "raised"
    /\ terminal' \in BOOLEAN
    /\ UNCHANGED <<negotiation, remote, reason, success, cancelled, expired>>

(* cancel_task answers, fails, or is given up after five seconds.           *)
EndCancelTask ==
    /\ pc \in Cancelling
    /\ pc' = IF pc = "finishing" THEN "returned" ELSE "raised"
    /\ terminal' \in BOOLEAN
    /\ UNCHANGED <<negotiation, remote, reason, success, cancelled, expired>>

Terminated == pc \in Final /\ UNCHANGED vars

Next ==
    \/ Start
    \/ \E t \in Task : StreamReveals(t)
    \/ StreamEnds \/ StreamRejected \/ StreamDrops
    \/ Recover \/ Poll \/ PollFails
    \/ Reply \/ HostFails
    \/ Expire \/ TimeOut \/ Cancel \/ EndCancelTask
    \/ Terminated

Spec == Init /\ [][Next]_vars

(* dispatch runs, the deadline passes, and every await is bounded by it, or *)
(* by five seconds.  Neither the remote nor the host owes an answer.        *)
Fairness ==
    WF_vars(Start) /\ WF_vars(Expire) /\ WF_vars(TimeOut) /\ WF_vars(EndCancelTask)

FairSpec == Spec /\ Fairness

-----------------------------------------------------------------------------
(* Every variable keeps to its range.                                      *)
TypeOK ==
    /\ pc \in {"new"} \cup Awaiting \cup Cancelling \cup Final
    /\ exchange_number \in 0..MaxExchanges
    /\ stream_task \in Task \cup {NoTask}
    /\ remote_task_id \in Task \cup {NoTask}
    /\ interaction_task \in Task \cup {NoTask}
    /\ contexts \in [Context -> 0..MaxRound]
    /\ answered \in SUBSET ((Task \cup {NoTask}) \X Context \X Round)
    /\ asks \in Seq((Task \cup {NoTask}) \X Context \X Round)
    /\ abort_sent \in BOOLEAN /\ expired \in BOOLEAN
    /\ terminal \in BOOLEAN /\ success \in BOOLEAN
    /\ reason \in Reasons
    /\ sends \in 0..(MaxExchanges + 1) /\ replies \in 0..MaxExchanges
    /\ cancelled \in SUBSET Task

(***************************************************************************)
(* At most once: the business command is sent once, and after it one       *)
(* message per reply of the host.  No drop, poll or repeated round makes   *)
(* the client send anything twice.                                         *)
(***************************************************************************)
OneSendPerReply == sends <= replies + 1

(***************************************************************************)
(* The host is asked about a round of a negotiation on a task once,        *)
(* however often the remote repeats it, and rounds never go back.          *)
(***************************************************************************)
RoundsAskedOnce ==
    \A i, j \in 1..Len(asks) :
        i < j /\ asks[i][2] = asks[j][2] =>
            /\ asks[i][3] <= asks[j][3]
            /\ asks[i][1] = asks[j][1] => asks[i][3] < asks[j][3]

(* A success is never reported for an interaction the client itself called  *)
(* off: not after an Abort, not with a cancel_task.                         *)
SuccessUnspoilt == success => ~abort_sent /\ cancelled = {} /\ reason = "none"

Local == {"local", "protocol", "stopped", "timeout", "cancelled", "transport"}

(***************************************************************************)
(* An interaction that ends for a local reason cancels the remote task it  *)
(* knows, whether an answer or only a stream event made it known; as long  *)
(* as the remote has not named two of them.                                *)
(***************************************************************************)
KnownTaskCancelled ==
    reason \in Local =>
        \A t \in Task :
            {stream_task, remote_task_id, interaction_task} \ {NoTask} = {t}
                => t \in cancelled

(* An interaction that ends for a local reason cancels the task whose       *)
(* identity was validated.                                                  *)
ValidatedTaskCancelled ==
    reason \in Local /\ remote_task_id # NoTask => remote_task_id \in cancelled

(* Once the remote's identity was accepted, no answer replaces it.          *)
IdentityKept == [][remote_task_id # NoTask => remote_task_id' = remote_task_id]_vars

(* The recovery from a lost stream goes on until the task has an answer,    *)
(* the remote refuses, the deadline passes or the host cancels.             *)
RecoveryPersists ==
    [][pc = "recovering" /\ ~expired => reason' # "transport"]_vars

(* Every interaction ends.                                                  *)
Termination == <>(pc \in Final)
=============================================================================
