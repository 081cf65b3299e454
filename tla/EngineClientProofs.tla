-------------------------- MODULE EngineClientProofs --------------------------
(***************************************************************************)
(* Proofs about EngineClient, for every set of tasks and contexts, every   *)
(* number of rounds and every exchange budget.                             *)
(*                                                                         *)
(* One inductive invariant carries them all.  What the host was asked is   *)
(* not ordered by itself: one needs that every question is still among the *)
(* answered keys, and below the round last seen in its context.            *)
(***************************************************************************)
EXTENDS EngineClient, TLAPS

Counts ==
    /\ replies = exchange_number
    /\ sends <= replies + 1
    /\ pc = "new" => sends = 0
    /\ pc = "asking" => exchange_number < MaxExchanges

AsksSeen ==
    \A i \in 1..Len(asks) :
        asks[i] \in answered /\ asks[i][3] <= contexts[asks[i][2]]

OpenUntilEnd ==
    /\ pc \in {"new"} \cup Awaiting =>
          cancelled = {} /\ reason = "none" /\ success = FALSE
    /\ success => ~abort_sent /\ cancelled = {} /\ reason = "none" /\ pc = "returned"
    /\ pc \in {"working", "repeated", "asking"} => ~abort_sent

(* The inductive invariant. *)
DispatchInv == TypeOK /\ Counts /\ AsksSeen /\ RoundsAskedOnce /\ OpenUntilEnd

(***************************************************************************)
(* The same, split along the groups of variables the operators of          *)
(* EngineClient assign.                                                    *)
(***************************************************************************)
NegotiationOK ==
    /\ exchange_number \in 0..MaxExchanges
    /\ contexts \in [Context -> 0..MaxRound]
    /\ answered \in SUBSET ((Task \cup {NoTask}) \X Context \X Round)
    /\ asks \in Seq((Task \cup {NoTask}) \X Context \X Round)
    /\ abort_sent \in BOOLEAN
    /\ replies = exchange_number
    /\ AsksSeen
    /\ RoundsAskedOnce

EndingOK ==
    /\ pc \in Awaiting \cup Cancelling \cup Final
    /\ terminal \in BOOLEAN /\ success \in BOOLEAN
    /\ reason \in Reasons
    /\ cancelled \in SUBSET Task
    /\ pc = "asking" => exchange_number < MaxExchanges
    /\ OpenUntilEnd

-----------------------------------------------------------------------------
(* Raising, with or without cleanup, is a proper ending.                   *)
LEMMA AbandonSafe ==
    ASSUME DispatchInv, pc \in {"new"} \cup Awaiting,
           NEW r \in Reasons, NEW task \in Task \cup {NoTask},
           abort_sent' \in BOOLEAN, Abandon(r, task) \/ Raise(r)
    PROVE  EndingOK'
  BY DEF DispatchInv, TypeOK, OpenUntilEnd, EndingOK, Abandon, Raise,
         Awaiting, Cancelling, Final

(* Returning is one, when what is returned as a success is an answer of    *)
(* the remote to something else than an Abort.                             *)
LEMMA ReturnSafe ==
    ASSUME DispatchInv, pc \in Awaiting,
           NEW a \in Answer, NEW task \in Task \cup {NoTask},
           NEW stop \in BOOLEAN, NEW ok \in BOOLEAN,
           ok => ~abort_sent, ok => ~stop \/ is_terminal(a),
           UNCHANGED negotiation, Return(a, task, stop, ok)
    PROVE  EndingOK'
  <1>1. is_terminal(a) \in BOOLEAN
    BY DEF is_terminal
  <1> QED
    BY <1>1 DEF DispatchInv, TypeOK, OpenUntilEnd, EndingOK, Return,
                Awaiting, Cancelling, Final, negotiation

LEMMA NegotiationKept ==
    ASSUME DispatchInv, UNCHANGED negotiation PROVE NegotiationOK'
  BY DEF DispatchInv, TypeOK, Counts, NegotiationOK, negotiation, AsksSeen,
         RoundsAskedOnce

(* A round that is seen keeps contexts ahead of every question asked.      *)
LEMMA SeeRoundSafe ==
    ASSUME DispatchInv, NEW a \in Answer, NEW task \in Task \cup {NoTask},
           Acceptable(a, task), SeeRound(a.proposal)
    PROVE  /\ contexts' \in [Context -> 0..MaxRound]
           /\ contexts'[a.proposal[1]] = a.proposal[2]
           /\ \A i \in 1..Len(asks) : asks[i][3] <= contexts'[asks[i][2]]
           /\ \A i \in 1..Len(asks) :
                asks[i][2] = a.proposal[1] => asks[i][3] <= a.proposal[2]
  <1>1. a.proposal \in Context \X (1..MaxRound)
        /\ a.proposal[2] >= contexts[a.proposal[1]]
    BY DEF Acceptable, Proposal, Round
  <1>2. contexts \in [Context -> 0..MaxRound] /\ MaxRound \in Nat
    BY ProposalAssumption DEF DispatchInv, TypeOK
  <1>3. \A i \in 1..Len(asks) :
            asks[i] \in (Task \cup {NoTask}) \X Context \X (1..MaxRound)
    BY DEF DispatchInv, TypeOK, Round
  <1>4. \A i \in 1..Len(asks) : asks[i][3] <= contexts[asks[i][2]]
    BY DEF DispatchInv, AsksSeen
  <1>5. contexts' = [contexts EXCEPT ![a.proposal[1]] = a.proposal[2]]
    BY DEF SeeRound
  <1> QED
    BY <1>1, <1>2, <1>3, <1>4, <1>5

(* A question is asked at most once, and in the order of its rounds.       *)
LEMMA AskSafe ==
    ASSUME DispatchInv, pc \in Awaiting, ~abort_sent,
           NEW a \in Answer, NEW task \in Task \cup {NoTask},
           Acceptable(a, task), SeeRound(a.proposal),
           ~IsAnswered(a.proposal, task), Ask(a.proposal, task)
    PROVE  NegotiationOK' /\ EndingOK'
  <1> DEFINE key == <<task, a.proposal[1], a.proposal[2]>>
             Keys == (Task \cup {NoTask}) \X Context \X Round
  <1>1. a.proposal \in Context \X Round /\ exchange_number < MaxExchanges
    BY DEF Acceptable, Proposal
  <1>2. key \in Keys
    BY <1>1
  <1>3. asks \in Seq(Keys) /\ answered \in SUBSET Keys
    BY DEF DispatchInv, TypeOK
  <1>4. asks' = Append(asks, key) /\ answered' = answered \cup {key}
    BY DEF Ask
  <1>5. /\ asks' \in Seq(Keys) /\ Len(asks') = Len(asks) + 1
        /\ \A i \in 1..Len(asks) : asks'[i] = asks[i]
        /\ asks'[Len(asks')] = key
        /\ Len(asks) \in Nat
    BY <1>2, <1>3, <1>4
  <1>6. /\ contexts' \in [Context -> 0..MaxRound]
        /\ contexts'[a.proposal[1]] = a.proposal[2]
        /\ \A i \in 1..Len(asks) : asks[i][3] <= contexts'[asks[i][2]]
        /\ \A i \in 1..Len(asks) :
             asks[i][2] = a.proposal[1] => asks[i][3] <= a.proposal[2]
    BY SeeRoundSafe
  <1>7. \A i \in 1..Len(asks) : asks[i] \in answered /\ asks[i] # key
    BY DEF DispatchInv, AsksSeen, IsAnswered
  <1>8. AsksSeen'
    <2> SUFFICES ASSUME NEW i \in 1..Len(asks')
                 PROVE  asks'[i] \in answered' /\ asks'[i][3] <= contexts'[asks'[i][2]]
      BY DEF AsksSeen
    <2>1. CASE i = Len(asks')
      <3>1. asks'[i] = key /\ key[2] = a.proposal[1] /\ key[3] = a.proposal[2]
        BY <2>1, <1>5
      <3>2. a.proposal[2] \in Nat
        BY <1>1, ProposalAssumption DEF Round
      <3> QED
        BY <3>1, <3>2, <1>4, <1>6
    <2>2. CASE i \in 1..Len(asks)
      BY <2>2, <1>4, <1>5, <1>6, <1>7
    <2> QED
      BY <2>1, <2>2, <1>5
  <1>9. RoundsAskedOnce'
    <2> SUFFICES ASSUME NEW i \in 1..Len(asks'), NEW j \in 1..Len(asks'),
                        i < j, asks'[i][2] = asks'[j][2]
                 PROVE  /\ asks'[i][3] <= asks'[j][3]
                        /\ asks'[i][1] = asks'[j][1] => asks'[i][3] < asks'[j][3]
      BY DEF RoundsAskedOnce
    <2>1. i \in 1..Len(asks) /\ asks'[i] = asks[i] /\ asks[i] \in Keys
      BY <1>3, <1>5
    <2>2. CASE j \in 1..Len(asks)
      BY <2>1, <2>2, <1>5 DEF DispatchInv, RoundsAskedOnce
    <2>3. CASE j = Len(asks')
      <3>1. asks'[j] = key /\ key[1] = task /\ key[2] = a.proposal[1]
            /\ key[3] = a.proposal[2]
        BY <2>3, <1>5
      <3>2. asks[i][3] <= key[3]
        BY <2>1, <3>1, <1>6
      <3>3. asks[i] # key
        BY <2>1, <1>7
      <3>4. asks[i] = <<asks[i][1], asks[i][2], asks[i][3]>>
        BY <2>1
      <3>5. asks[i][3] \in Nat /\ key[3] \in Nat
        BY <2>1, <1>2, ProposalAssumption DEF Round
      <3> QED
        BY <2>1, <3>1, <3>2, <3>3, <3>4, <3>5
    <2> QED
      BY <2>2, <2>3, <1>5
  <1>10. EndingOK'
    BY <1>1 DEF DispatchInv, TypeOK, OpenUntilEnd, EndingOK, Ask,
                Awaiting, Cancelling, Final
  <1> QED
    BY <1>2, <1>3, <1>4, <1>5, <1>6, <1>8, <1>9, <1>10
    DEF NegotiationOK, DispatchInv, TypeOK, Counts, Ask

(* Seeing a round again asks nothing.                                      *)
LEMMA RepeatSafe ==
    ASSUME DispatchInv, pc \in Awaiting, ~abort_sent,
           NEW a \in Answer, NEW task \in Task \cup {NoTask},
           Acceptable(a, task), SeeRound(a.proposal), Repeat(task)
    PROVE  NegotiationOK' /\ EndingOK'
  <1>1. /\ contexts' \in [Context -> 0..MaxRound]
        /\ \A i \in 1..Len(asks) : asks[i][3] <= contexts'[asks[i][2]]
    BY SeeRoundSafe
  <1>2. NegotiationOK'
    BY <1>1 DEF DispatchInv, TypeOK, Counts, NegotiationOK, AsksSeen,
                RoundsAskedOnce, Repeat
  <1>3. CASE task = NoTask
    <2>1. abort_sent' \in BOOLEAN
      BY DEF Repeat, DispatchInv, TypeOK
    <2>2. Abandon("protocol", task) /\ pc \in {"new"} \cup Awaiting
      BY <1>3 DEF Repeat
    <2> QED
      BY <1>2, <2>1, <2>2, AbandonSafe DEF Reasons
  <1>4. CASE task # NoTask
    BY <1>2, <1>4 DEF DispatchInv, TypeOK, OpenUntilEnd, EndingOK, Repeat,
                      Awaiting, Cancelling, Final
  <1> QED
    BY <1>3, <1>4

LEMMA DecideSafe ==
    ASSUME DispatchInv, pc \in Awaiting, ~abort_sent,
           NEW a \in Answer, NEW task \in Task \cup {NoTask}, Decide(a, task)
    PROVE  NegotiationOK' /\ EndingOK'
  <1>1. CASE ~Negotiates(a) /\ Finish(a, task)
    <2>1. Succeeds(a) \in BOOLEAN /\ (a.task # NoTask) \in BOOLEAN
      BY DEF Succeeds
    <2>2. Succeeds(a) => ~(a.task # NoTask) \/ is_terminal(a)
      BY DEF Succeeds, is_terminal
    <2>3. UNCHANGED negotiation /\ Return(a, task, a.task # NoTask, Succeeds(a))
      BY <1>1 DEF Finish
    <2>4. EndingOK'
      BY <2>1, <2>2, <2>3, ReturnSafe
    <2> QED
      BY <2>3, <2>4, NegotiationKept
  <1>2. CASE Negotiates(a) /\ ~Acceptable(a, task)
             /\ Abandon("protocol", task) /\ UNCHANGED negotiation
    <2>1. abort_sent' \in BOOLEAN
      BY <1>2 DEF negotiation, DispatchInv, TypeOK
    <2>2. EndingOK'
      BY <1>2, <2>1, AbandonSafe DEF Reasons
    <2> QED
      BY <1>2, <2>2, NegotiationKept
  <1>3. CASE /\ Acceptable(a, task) /\ SeeRound(a.proposal)
             /\ IF IsAnswered(a.proposal, task) THEN Repeat(task)
                                                ELSE Ask(a.proposal, task)
    BY <1>3, AskSafe, RepeatSafe
  <1> QED
    BY <1>1, <1>2, <1>3 DEF Decide

(* What Receive does to the two remote identities and the rest.            *)
LEMMA ReceiveSafe ==
    ASSUME DispatchInv, pc \in {"streaming", "recovering"},
           NEW a \in Answer, Receive(a)
    PROVE  /\ NegotiationOK' /\ EndingOK'
           /\ remote_task_id' \in Task \cup {NoTask}
           /\ interaction_task' \in Task \cup {NoTask}
           /\ remote_task_id # NoTask => remote_task_id' = remote_task_id
  <1> DEFINE task == IF a.task = NoTask THEN remote_task_id ELSE a.task
  <1>1. task \in Task \cup {NoTask} /\ a.task \in Task \cup {NoTask}
    BY DEF DispatchInv, TypeOK, Answer
  <1>2. pc \in Awaiting /\ abort_sent \in BOOLEAN
    BY DEF Awaiting, DispatchInv, TypeOK
  <1>3. CASE ~SameIdentity(a)
    <2>1. /\ interaction_task' = a.task /\ Abandon("protocol", a.task)
          /\ UNCHANGED remote_task_id /\ UNCHANGED negotiation
      BY <1>3 DEF Receive
    <2>2. EndingOK'
      BY <2>1, <1>1, <1>2, AbandonSafe DEF Reasons, negotiation
    <2> QED
      BY <2>1, <2>2, <1>1, NegotiationKept DEF DispatchInv, TypeOK
  <1>4. CASE SameIdentity(a)
    <2>1. /\ remote_task_id' = task /\ interaction_task' = task
          /\ IF abort_sent THEN AfterAbort(a, task)
             ELSE IF a.state = "WORKING" THEN StillWorking(task)
             ELSE Decide(a, task)
      BY <1>4 DEF Receive
    <2>2. remote_task_id # NoTask => task = remote_task_id
      BY <1>4 DEF SameIdentity
    <2>3. CASE abort_sent
      <3>1. Return(a, task, TRUE, FALSE) /\ UNCHANGED negotiation
        BY <2>1, <2>3 DEF AfterAbort
      <3>2. EndingOK'
        BY <3>1, <1>1, <1>2, ReturnSafe
      <3> QED
        BY <3>1, <3>2, <2>1, <2>2, <1>1, NegotiationKept
    <2>4. CASE ~abort_sent /\ a.state = "WORKING"
      <3>1. StillWorking(task) /\ UNCHANGED negotiation
        BY <2>1, <2>4 DEF StillWorking
      <3>2. CASE task = NoTask
        <4>1. EndingOK'
          BY <3>1, <3>2, <1>1, <1>2, AbandonSafe
          DEF StillWorking, Reasons, negotiation
        <4> QED
          BY <4>1, <3>1, <2>1, <2>2, <1>1, NegotiationKept
      <3>3. CASE task # NoTask
        <4>1. EndingOK'
          BY <3>1, <3>3, <2>4
          DEF StillWorking, negotiation, DispatchInv, TypeOK, OpenUntilEnd,
              EndingOK, Awaiting, Cancelling, Final
        <4> QED
          BY <4>1, <3>1, <2>1, <2>2, <1>1, NegotiationKept
      <3> QED
        BY <3>2, <3>3
    <2>5. CASE ~abort_sent /\ a.state # "WORKING"
      <3>1. Decide(a, task)
        BY <2>1, <2>5
      <3> QED
        BY <3>1, <2>1, <2>2, <2>5, <1>1, <1>2, DecideSafe
    <2> QED
      BY <2>3, <2>4, <2>5, <1>2
  <1> QED
    BY <1>3, <1>4

-----------------------------------------------------------------------------
LEMMA SendBound ==
    ASSUME NEW s \in Nat, NEW r \in 0..MaxExchanges, s <= r + 1
    PROVE  s \in 0..(MaxExchanges + 1)
  BY BudgetAssumption

(* The pieces make up the invariant.                                       *)
LEMMA Reassemble ==
    ASSUME NegotiationOK', EndingOK',
           stream_task' \in Task \cup {NoTask},
           remote_task_id' \in Task \cup {NoTask},
           interaction_task' \in Task \cup {NoTask},
           expired' \in BOOLEAN,
           sends' \in Nat, sends' <= replies' + 1
    PROVE  DispatchInv'
  <1>1. replies' \in 0..MaxExchanges
    BY DEF NegotiationOK
  <1>3. sends' \in 0..(MaxExchanges + 1)
    BY <1>1, SendBound
  <1>2. pc' # "new"
    BY DEF EndingOK, Awaiting, Cancelling, Final
  <1> QED
    BY <1>1, <1>2, <1>3 DEF DispatchInv, TypeOK, Counts, NegotiationOK, EndingOK

LEMMA DispatchInvStep == DispatchInv /\ [Next]_vars => DispatchInv'
  <1> SUFFICES ASSUME DispatchInv, [Next]_vars PROVE DispatchInv'
    OBVIOUS
  <1> USE DEF Reasons
  <1>0. /\ TypeOK /\ sends \in Nat /\ replies \in Nat /\ sends <= replies + 1
        /\ replies = exchange_number
    BY BudgetAssumption DEF DispatchInv, TypeOK, Counts
  <1>1. CASE Start
    <2>1. pc = "new" /\ sends = 0 /\ exchange_number \in 0..MaxExchanges
          /\ UNCHANGED <<negotiation, stream_task, remote_task_id,
                         interaction_task, expired>>
      BY <1>1, <1>0 DEF Start, DispatchInv, Counts, TypeOK
    <2>2. NegotiationOK' /\ UNCHANGED <<abort_sent, replies>>
      BY <2>1, NegotiationKept DEF negotiation
    <2>3. CASE pc' = "streaming" /\ sends' = 1
               /\ UNCHANGED <<terminal, reason, success, cancelled>>
      <3>1. EndingOK'
        BY <2>1, <2>2, <2>3 DEF EndingOK, DispatchInv, TypeOK, OpenUntilEnd,
                                Awaiting, Cancelling, Final
      <3> QED
        BY <3>1, <2>1, <2>2, <2>3, <1>0, Reassemble DEF TypeOK
    <2>4. CASE Abandon("local", NoTask) /\ UNCHANGED sends
      <3>1. EndingOK'
        BY <2>1, <2>2, <2>4, <1>0, AbandonSafe DEF TypeOK
      <3> QED
        BY <3>1, <2>1, <2>2, <2>4, <1>0, Reassemble DEF TypeOK
    <2> QED
      BY <2>3, <2>4, <1>1 DEF Start
  <1>2. ASSUME NEW t \in Task, StreamReveals(t) PROVE DispatchInv'
    <2>1. pc = "streaming" /\ UNCHANGED <<negotiation, ending>>
          /\ stream_task' \in Task /\ interaction_task' \in Task
          /\ UNCHANGED <<remote_task_id, sends, expired>>
      BY <1>2 DEF StreamReveals
    <2>2. NegotiationOK' /\ UNCHANGED <<abort_sent, replies>>
      BY <2>1, NegotiationKept DEF negotiation
    <2>3. EndingOK'
      BY <2>1, <2>2 DEF ending, negotiation, EndingOK, DispatchInv, TypeOK,
                        OpenUntilEnd, Awaiting, Cancelling, Final
    <2> QED
      BY <2>1, <2>2, <2>3, <1>0, Reassemble DEF TypeOK
  <1>3. CASE StreamEnds
    <2>1. PICK a \in Answer : Receive(a)
      BY <1>3 DEF StreamEnds
    <2>2. pc = "streaming" /\ UNCHANGED <<stream_task, sends, expired>>
      BY <1>3 DEF StreamEnds
    <2>3. UNCHANGED replies
      BY <2>1 DEF Receive, AfterAbort, StillWorking, Decide, Finish, Repeat, Ask,
                  negotiation
    <2> QED
      BY <2>1, <2>2, <2>3, <1>0, ReceiveSafe, Reassemble DEF TypeOK
  <1>4. CASE Recover
    <2>1. PICK a \in Answer : Receive(a)
      BY <1>4 DEF Recover
    <2>2. pc = "recovering" /\ UNCHANGED <<stream_task, sends, expired>>
      BY <1>4 DEF Recover
    <2>3. UNCHANGED replies
      BY <2>1 DEF Receive, AfterAbort, StillWorking, Decide, Finish, Repeat, Ask,
                  negotiation
    <2> QED
      BY <2>1, <2>2, <2>3, <1>0, ReceiveSafe, Reassemble DEF TypeOK
  <1>5. CASE \/ StreamRejected \/ StreamDrops \/ PollFails \/ HostFails
             \/ TimeOut \/ Cancel
    <2>1. pc \in Awaiting /\ UNCHANGED <<negotiation, remote, expired>>
      BY <1>5 DEF StreamRejected, StreamDrops, PollFails, HostFails, TimeOut,
                  Cancel, Awaiting
    <2>2. NegotiationOK' /\ abort_sent' \in BOOLEAN
      BY <2>1, <1>0, NegotiationKept DEF negotiation, TypeOK
    <2>3. CASE \E r \in Reasons : Abandon(r, interaction_task) \/ Raise(r)
      <3>1. EndingOK'
        BY <2>1, <2>2, <2>3, <1>0, AbandonSafe DEF TypeOK
      <3> QED
        BY <3>1, <2>1, <2>2, <1>0, Reassemble DEF TypeOK, remote, negotiation
    <2>4. CASE pc = "streaming" /\ pc' = "recovering"
               /\ UNCHANGED <<terminal, reason, success, cancelled>>
      <3>1. EndingOK'
        BY <2>1, <2>2, <2>4 DEF EndingOK, DispatchInv, TypeOK, OpenUntilEnd,
                                Awaiting, Cancelling, Final, negotiation
      <3> QED
        BY <3>1, <2>1, <2>2, <1>0, Reassemble DEF TypeOK, remote, negotiation
    <2> QED
      BY <1>5, <2>3, <2>4 DEF StreamRejected, StreamDrops, PollFails, HostFails,
                              TimeOut, Cancel
  <1>6. CASE Poll
    <2>1. PICK a \in Answer :
            IF ~SameIdentity(a)
              THEN Abandon("protocol", interaction_task) /\ UNCHANGED negotiation
              ELSE a.state # "WORKING" /\ Decide(a, remote_task_id)
      BY <1>6 DEF Poll
    <2>2. pc \in {"working", "repeated"} /\ UNCHANGED <<remote, expired>>
      BY <1>6 DEF Poll
    <2>3. pc \in Awaiting /\ ~abort_sent
      BY <2>2 DEF Awaiting, DispatchInv, OpenUntilEnd
    <2>4. UNCHANGED replies /\ abort_sent' \in BOOLEAN
      BY <2>1, <1>0 DEF Decide, Finish, Repeat, Ask, negotiation, TypeOK
    <2>5. NegotiationOK' /\ EndingOK'
      BY <2>1, <2>3, <2>4, <1>0, DecideSafe, AbandonSafe, NegotiationKept DEF TypeOK
    <2> QED
      BY <2>2, <2>4, <2>5, <1>0, Reassemble DEF TypeOK, remote
  <1>7. CASE Reply
    <2>1. /\ pc = "asking" /\ exchange_number' = exchange_number + 1
          /\ replies' = replies + 1 /\ abort_sent' \in BOOLEAN
          /\ UNCHANGED <<contexts, answered, asks, remote_task_id,
                         interaction_task, expired>>
      BY <1>7 DEF Reply
    <2>2. exchange_number < MaxExchanges
      BY <2>1 DEF DispatchInv, Counts
    <2>3. NegotiationOK'
      BY <2>1, <2>2, <1>0, BudgetAssumption
      DEF NegotiationOK, DispatchInv, TypeOK, AsksSeen, RoundsAskedOnce
    <2>4. CASE pc' = "streaming" /\ sends' = sends + 1 /\ stream_task' = NoTask
               /\ UNCHANGED <<terminal, reason, success, cancelled>>
      <3>1. EndingOK'
        BY <2>1, <2>4 DEF EndingOK, DispatchInv, TypeOK, OpenUntilEnd,
                          Awaiting, Cancelling, Final
      <3> QED
        BY <3>1, <2>1, <2>3, <2>4, <1>0, Reassemble DEF TypeOK
    <2>5. CASE Abandon("local", interaction_task) /\ UNCHANGED <<sends, stream_task>>
      <3>1. EndingOK'
        BY <2>1, <2>5, <1>0, AbandonSafe DEF TypeOK, Awaiting
      <3> QED
        BY <3>1, <2>1, <2>3, <2>5, <1>0, Reassemble DEF TypeOK
    <2> QED
      BY <2>4, <2>5, <1>7 DEF Reply
  <1>8. CASE Expire
    BY <1>8 DEF Expire, DispatchInv, TypeOK, Counts, AsksSeen, RoundsAskedOnce,
                OpenUntilEnd, negotiation, remote, ending
  <1>10. CASE EndCancelTask
    <2>1. /\ pc \in {"finishing", "cleanup"} /\ pc' \in {"returned", "raised"}
          /\ terminal' \in BOOLEAN
          /\ UNCHANGED <<negotiation, remote, reason, success, cancelled, expired>>
      BY <1>10 DEF EndCancelTask, Cancelling
    <2>2. NegotiationOK' /\ UNCHANGED abort_sent
      BY <2>1, NegotiationKept DEF negotiation
    <2>3. EndingOK'
      BY <2>1, <2>2 DEF EndingOK, DispatchInv, TypeOK, OpenUntilEnd, Awaiting,
                        Cancelling, Final
    <2> QED
      BY <2>1, <2>2, <2>3, <1>0, Reassemble DEF TypeOK, remote, negotiation
  <1>9. CASE UNCHANGED vars
    BY <1>9 DEF vars, DispatchInv, TypeOK, Counts, AsksSeen, RoundsAskedOnce,
                OpenUntilEnd, negotiation, remote, ending
  <1> QED
    BY <1>1, <1>2, <1>3, <1>4, <1>5, <1>6, <1>7, <1>8, <1>9, <1>10
    DEF Next, Terminated

(* The invariant holds of every dispatch.                                  *)
THEOREM DispatchInvariant == Spec => []DispatchInv
  <1>1. Init => DispatchInv
    <2> SUFFICES ASSUME Init PROVE DispatchInv
      OBVIOUS
    <2>1. TypeOK
      <3>1. 0 \in 0..MaxExchanges /\ 0 \in 0..(MaxExchanges + 1)
            /\ 0 \in 0..MaxRound
        BY ProposalAssumption, BudgetAssumption
      <3>2. <<>> \in Seq((Task \cup {NoTask}) \X Context \X Round)
        OBVIOUS
      <3> QED
        BY <3>1, <3>2 DEF Init, TypeOK, Reasons
    <2>2. Counts /\ OpenUntilEnd
      BY DEF Init, Counts, OpenUntilEnd
    <2>3. AsksSeen /\ RoundsAskedOnce
      BY DEF Init, AsksSeen, RoundsAskedOnce
    <2> QED
      BY <2>1, <2>2, <2>3 DEF DispatchInv
  <1> QED
    BY <1>1, DispatchInvStep, PTL DEF Spec

-----------------------------------------------------------------------------
(* Every variable of the dispatch keeps to its range: in particular the    *)
(* loop never goes beyond the exchange budget.                             *)
THEOREM TypeCorrect == Spec => []TypeOK
  <1>1. DispatchInv => TypeOK
    BY DEF DispatchInv
  <1> QED
    BY <1>1, DispatchInvariant, PTL

(* The business command is sent at most once, and each reply of the host   *)
(* at most once, whatever the network loses.                               *)
THEOREM SendsFollowReplies == Spec => []OneSendPerReply
  <1>1. DispatchInv => OneSendPerReply
    BY DEF DispatchInv, Counts, OneSendPerReply
  <1> QED
    BY <1>1, DispatchInvariant, PTL

(* on_negotiation is asked about a round of a task once, in round order.    *)
THEOREM RoundsAreAskedOnce == Spec => []RoundsAskedOnce
  <1>1. DispatchInv => RoundsAskedOnce
    BY DEF DispatchInv
  <1> QED
    BY <1>1, DispatchInvariant, PTL

(* What dispatch returns as a success was neither aborted nor cancelled.    *)
THEOREM SuccessesAreUnspoilt == Spec => []SuccessUnspoilt
  <1>1. DispatchInv => SuccessUnspoilt
    BY DEF DispatchInv, OpenUntilEnd, SuccessUnspoilt
  <1> QED
    BY <1>1, DispatchInvariant, PTL

(* The remote identity that was validated is never replaced.                *)
THEOREM IdentityIsKept == Spec => IdentityKept
  <1>1. DispatchInv /\ [Next]_vars
          => (remote_task_id # NoTask => remote_task_id' = remote_task_id)
    <2> SUFFICES ASSUME DispatchInv, Next
                 PROVE  remote_task_id # NoTask => remote_task_id' = remote_task_id
      BY DEF vars, remote
    <2>1. CASE StreamEnds \/ Recover
      BY <2>1, ReceiveSafe DEF StreamEnds, Recover
    <2>2. CASE ~(StreamEnds \/ Recover)
      BY <2>2 DEF Next, Start, StreamReveals, StreamRejected, StreamDrops, Poll,
                  PollFails, Reply, HostFails, Expire, TimeOut, Cancel,
                  EndCancelTask, Terminated, remote, vars
    <2> QED
      BY <2>1, <2>2
  <1> QED
    BY <1>1, DispatchInvariant, PTL DEF Spec, IdentityKept

-----------------------------------------------------------------------------
(***************************************************************************)
(* Cleanup.  Whatever task was revealed or validated, interaction_task is  *)
(* set; it is the task an abandoned interaction cancels.                   *)
(***************************************************************************)
CleanupInv ==
    /\ pc = "new" => interaction_task = NoTask
    /\ pc \in {"new"} \cup Awaiting => terminal = FALSE
    /\ stream_task # NoTask \/ remote_task_id # NoTask => interaction_task # NoTask
    /\ pc \in {"working", "repeated", "asking"} => interaction_task = remote_task_id
    /\ reason \in Local /\ interaction_task # NoTask => interaction_task \in cancelled

(* What an operator that ends or continues the interaction over a task     *)
(* leaves behind.                                                          *)
Clean(task) ==
    /\ pc' \in {"new"} \cup Awaiting => terminal' = FALSE
    /\ reason' \in Local /\ task # NoTask => task \in cancelled'

LEMMA AbandonClean ==
    ASSUME terminal = FALSE, NEW r, NEW task, Abandon(r, task)
    PROVE  Clean(task) /\ pc' \in {"raised", "cleanup"} /\ pc' # "new"
  BY DEF Abandon, Clean, Awaiting

LEMMA ReturnClean ==
    ASSUME reason = "none", NEW a, NEW task, NEW stop, NEW ok,
           Return(a, task, stop, ok)
    PROVE  Clean(task) /\ pc' \in {"returned", "finishing"}
  BY DEF Return, Clean, Awaiting, Local

LEMMA DecideClean ==
    ASSUME terminal = FALSE, reason = "none", NEW a, NEW task, Decide(a, task)
    PROVE  Clean(task) /\ pc' # "new"
  <1>1. CASE Finish(a, task)
    BY <1>1, ReturnClean DEF Finish
  <1>2. CASE Abandon("protocol", task)
    BY <1>2, AbandonClean
  <1>3. CASE Repeat(task)
    BY <1>3, AbandonClean DEF Repeat, Clean, Local
  <1>4. CASE Ask(a.proposal, task)
    BY <1>4 DEF Ask, Clean, Local
  <1> QED
    BY <1>1, <1>2, <1>3, <1>4 DEF Decide

LEMMA ReceiveClean ==
    ASSUME terminal = FALSE, reason = "none", NEW a, Receive(a)
    PROVE  /\ Clean(interaction_task') /\ pc' # "new"
           /\ remote_task_id' # NoTask => interaction_task' # NoTask
           /\ a.task # NoTask => interaction_task' # NoTask
           /\ pc' \in {"working", "repeated", "asking"}
                => interaction_task' = remote_task_id'
  <1> DEFINE task == IF a.task = NoTask THEN remote_task_id ELSE a.task
  <1>1. CASE ~SameIdentity(a)
    BY <1>1, AbandonClean DEF Receive, SameIdentity
  <1>2. CASE SameIdentity(a)
    <2>1. /\ remote_task_id' = task /\ interaction_task' = task
          /\ AfterAbort(a, task) \/ StillWorking(task) \/ Decide(a, task)
      BY <1>2 DEF Receive
    <2>2. CASE AfterAbort(a, task)
      BY <2>1, <2>2, ReturnClean DEF AfterAbort
    <2>3. CASE StillWorking(task)
      BY <2>1, <2>3, AbandonClean DEF StillWorking, Clean, Local
    <2>4. CASE Decide(a, task)
      BY <2>1, <2>4, DecideClean
    <2> QED
      BY <2>1, <2>2, <2>3, <2>4
  <1> QED
    BY <1>1, <1>2

LEMMA CleanupInvStep ==
    DispatchInv /\ CleanupInv /\ [Next]_vars => CleanupInv'
  <1> SUFFICES ASSUME DispatchInv, CleanupInv, [Next]_vars PROVE CleanupInv'
    OBVIOUS
  <1>0. pc \in {"new"} \cup Awaiting => terminal = FALSE /\ reason = "none"
    BY DEF CleanupInv, DispatchInv, OpenUntilEnd
  <1>1. CASE Start
    <2>1. terminal = FALSE /\ reason = "none"
          /\ UNCHANGED <<stream_task, remote_task_id, interaction_task>>
      BY <1>0, <1>1 DEF Start
    <2>2. CASE Abandon("local", NoTask)
      BY <2>1, <2>2, <1>1 DEF Abandon, CleanupInv, Start, Awaiting
    <2>3. CASE pc' = "streaming" /\ UNCHANGED <<terminal, reason, success, cancelled>>
      BY <2>1, <2>3 DEF CleanupInv, Local, Awaiting
    <2> QED
      BY <2>2, <2>3, <1>1 DEF Start
  <1>2. ASSUME NEW t \in Task, StreamReveals(t) PROVE CleanupInv'
    BY <1>2, <1>0, TaskAssumption
    DEF StreamReveals, CleanupInv, ending, Awaiting, Local
  <1>3. CASE StreamEnds
    <2>1. PICK a \in Answer : a.task = stream_task /\ Receive(a)
      BY <1>3 DEF StreamEnds
    <2>2. pc \in Awaiting /\ UNCHANGED stream_task
      BY <1>3 DEF StreamEnds, Awaiting
    <2> QED
      BY <2>1, <2>2, <1>0, ReceiveClean DEF CleanupInv, Clean
  <1>4. CASE Recover
    <2>1. PICK a \in Answer : a.task # NoTask /\ Receive(a)
      BY <1>4 DEF Recover
    <2>2. pc \in Awaiting /\ UNCHANGED stream_task
      BY <1>4 DEF Recover, Awaiting
    <2> QED
      BY <2>1, <2>2, <1>0, ReceiveClean DEF CleanupInv, Clean
  <1>5. CASE \/ StreamRejected \/ StreamDrops \/ PollFails \/ HostFails
             \/ TimeOut \/ Cancel
    <2>1. pc \in Awaiting /\ UNCHANGED remote
      BY <1>5 DEF StreamRejected, StreamDrops, PollFails, HostFails, TimeOut,
                  Cancel, Awaiting
    <2>2. \/ \E r \in Reasons : Abandon(r, interaction_task)
          \/ Raise("rejected") \/ Raise("host")
          \/ pc' = "recovering" /\ UNCHANGED <<terminal, reason, cancelled>>
      BY <1>5 DEF StreamRejected, StreamDrops, PollFails, HostFails, TimeOut,
                  Cancel, Reasons
    <2>3. CASE \E r \in Reasons : Abandon(r, interaction_task)
      BY <2>1, <2>3, <1>0, AbandonClean DEF CleanupInv, Clean, remote
    <2>4. CASE Raise("rejected") \/ Raise("host")
      BY <2>1, <2>4, <1>0 DEF CleanupInv, Raise, remote, Local, Awaiting
    <2>5. CASE pc' = "recovering" /\ UNCHANGED <<terminal, reason, cancelled>>
      BY <2>1, <2>5, <1>0 DEF CleanupInv, remote, Local, Awaiting
    <2> QED
      BY <2>2, <2>3, <2>4, <2>5
  <1>6. CASE Poll
    <2>1. PICK a \in Answer :
            \/ Abandon("protocol", interaction_task)
            \/ Decide(a, remote_task_id)
      BY <1>6 DEF Poll
    <2>2. pc \in Awaiting /\ interaction_task = remote_task_id /\ UNCHANGED remote
      BY <1>6 DEF Poll, Awaiting, CleanupInv
    <2> QED
      BY <2>1, <2>2, <1>0, AbandonClean, DecideClean DEF CleanupInv, Clean, remote
  <1>7. CASE Reply
    <2>1. /\ pc = "asking" /\ pc \in Awaiting
          /\ UNCHANGED <<remote_task_id, interaction_task>>
          /\ stream_task' \in {stream_task, NoTask}
      BY <1>7 DEF Reply, Awaiting
    <2>2. CASE Abandon("local", interaction_task)
      BY <2>1, <2>2, <1>0, AbandonClean DEF CleanupInv, Clean
    <2>3. CASE pc' = "streaming" /\ UNCHANGED <<terminal, reason, success, cancelled>>
      BY <2>1, <2>3, <1>0 DEF CleanupInv, Local, Awaiting
    <2> QED
      BY <2>2, <2>3, <1>7 DEF Reply
  <1>8. CASE Expire \/ EndCancelTask
    BY <1>8 DEF Expire, EndCancelTask, CleanupInv, Awaiting, Cancelling,
                remote, ending
  <1>9. CASE UNCHANGED vars
    BY <1>9 DEF vars, CleanupInv, remote, ending
  <1> QED
    BY <1>1, <1>2, <1>3, <1>4, <1>5, <1>6, <1>7, <1>8, <1>9
    DEF Next, Terminated

(***************************************************************************)
(* As long as the remote has named one task, every interaction that ends   *)
(* for a local reason has called cancel_task for it.                       *)
(***************************************************************************)
THEOREM KnownTasksAreCancelled == Spec => []KnownTaskCancelled
  <1>1. Init => CleanupInv
    BY DEF Init, CleanupInv, Local
  <1>2. DispatchInv /\ CleanupInv => KnownTaskCancelled
    BY TaskAssumption DEF DispatchInv, TypeOK, CleanupInv, KnownTaskCancelled
  <1> QED
    BY <1>1, <1>2, CleanupInvStep, DispatchInvariant, PTL DEF Spec
=============================================================================
