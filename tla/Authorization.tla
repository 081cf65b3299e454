---------------------------- MODULE Authorization ----------------------------
(***************************************************************************)
(* client/extension_sender.py: ExtensionSender.send_authorization, one     *)
(* request whose task is polled until it leaves SUBMITTED and WORKING, all  *)
(* under one deadline.  The response stream is that of StreamReducer.      *)
(***************************************************************************)
EXTENDS StreamReducer

VARIABLES
    call,       \* where send_authorization is
    answer,     \* the last result: its task, that task's context, its state
    task_id,    \* the identity validated
    expired     \* the deadline has passed

callVars == <<call, answer, task_id, expired>>

Pending == {"WORKING"}

AnswerType ==
    [task : TaskId \cup {NoTask}, sameContext : BOOLEAN, state : State \cup {""}]

CallInit ==
    /\ call = "new"
    /\ answer = [task |-> NoTask, sameContext |-> TRUE, state |-> ""]
    /\ task_id = NoTask /\ expired = FALSE

(* Mutant: the id is not compared with the one validated before. *)
ValidAnyId(a, id) == a.task = NoTask \/ a.sameContext

(* _validate_task_identity *)
Valid(a, id) == a.task = NoTask \/ (a.sameContext /\ id \in {NoTask, a.task})

(* What the loop makes of an answer.                                       *)
Judge(a) ==
    /\ answer' = a
    /\ IF Valid(a, task_id)
         THEN LET id == IF a.task = NoTask THEN task_id ELSE a.task
              IN /\ task_id' = IF task_id = NoTask THEN id ELSE task_id
                 /\ call' = IF a.state \notin Pending THEN "returned"
                            ELSE IF id = NoTask \/ expired THEN "raised"
                            ELSE "sleeping"
         ELSE call' = "raised" /\ UNCHANGED task_id

(* The target may be unknown, the content refused, the client not built.    *)
Send ==
    /\ call = "new"
    /\ call' \in {"streaming", "raised"}
    /\ UNCHANGED <<answer, task_id, expired, streamVars>>

ReadStream ==
    /\ call = "streaming" /\ method = "consume"
    /\ StreamNext
    /\ UNCHANGED callVars

StreamOver ==
    /\ call = "streaming" /\ stream # "open"
    /\ IF stream = "ended"
         THEN \E same \in BOOLEAN :
                Judge([task |-> reduced.task, sameContext |-> same, state |-> reduced.state])
         ELSE call' = "raised" /\ UNCHANGED <<answer, task_id>>
    /\ UNCHANGED <<expired, streamVars>>

Wake ==
    /\ call = "sleeping" /\ call' = "polling"
    /\ UNCHANGED <<answer, task_id, expired, streamVars>>

(* get_task answers, with any task, or fails.                              *)
Polled ==
    /\ call = "polling"
    /\ \/ \E a \in AnswerType : a.task # NoTask /\ Judge(a)
       \/ call' = "raised" /\ UNCHANGED <<answer, task_id>>
    /\ UNCHANGED <<expired, streamVars>>

PassDeadline ==
    /\ ~expired /\ call \notin {"returned", "raised"}
    /\ expired' = TRUE
    /\ UNCHANGED <<call, answer, task_id, streamVars>>

(* Mutant: get_task is not bounded. *)
GiveUpStream ==
    /\ expired /\ call = "streaming"
    /\ call' = "raised"
    /\ UNCHANGED <<answer, task_id, expired, streamVars>>

(* wait_for.  Nothing is cancelled at the remote.                          *)
GiveUp ==
    /\ expired /\ call \in {"streaming", "polling"}
    /\ call' = "raised"
    /\ UNCHANGED <<answer, task_id, expired, streamVars>>

CallNext ==
    \/ Send \/ ReadStream \/ StreamOver \/ Wake \/ Polled
    \/ PassDeadline \/ GiveUp

(* The remote need not send nor answer.                                    *)
CallFairness ==
    /\ WF_callVars(Send) /\ WF_callVars(Wake)
    /\ WF_callVars(PassDeadline) /\ WF_callVars(GiveUp)

-----------------------------------------------------------------------------
(* Every variable keeps to its range.                                      *)
CallTypeOK ==
    /\ call \in {"new", "streaming", "sleeping", "polling", "returned", "raised"}
    /\ answer \in AnswerType
    /\ task_id \in TaskId \cup {NoTask} /\ expired \in BOOLEAN

(* The answer returned is final, and about the task that was validated      *)
(* first, whatever tasks the stream and the polls named.                   *)
ReturnsOwnTask ==
    call = "returned" =>
        /\ answer.state \notin Pending
        /\ answer.task \in {NoTask, task_id}
        /\ answer.task # NoTask => answer.sameContext
=============================================================================
