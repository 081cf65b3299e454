------------------------- MODULE StepExecutionProofs -------------------------
(***************************************************************************)
(* Theorems about StepExecution, for steps of any number of subtasks and    *)
(* edges, under every strategy.                                            *)
(***************************************************************************)
EXTENDS StepExecution, FiniteSetTheorems, TLAPS

Elements(q) == {q[i] : i \in 1..Len(q)}

LEMMA ElementsAppend ==
    ASSUME NEW T, NEW q \in Seq(T), NEW s \in T
    PROVE  /\ Append(q, s) \in Seq(T)
           /\ Elements(Append(q, s)) \subseteq Elements(q) \cup {s}
  BY DEF Elements

LEMMA ElementsTail ==
    ASSUME NEW T, NEW q \in Seq(T), q # <<>>
    PROVE  /\ Tail(q) \in Seq(T) /\ Head(q) \in T /\ Head(q) \in Elements(q)
           /\ Elements(Tail(q)) \subseteq Elements(q)
<1>1. Tail(q) \in Seq(T) /\ Head(q) = q[1] /\ 1 \in 1..Len(q) /\ q[1] \in T
  OBVIOUS
<1>2. \A i \in 1..Len(Tail(q)) : i + 1 \in 1..Len(q) /\ Tail(q)[i] = q[i + 1]
  OBVIOUS
<1>3. QED  BY <1>1, <1>2 DEF Elements

-----------------------------------------------------------------------------
LEMMA RecordType ==
    ASSUME TypeOK, NEW c \in SUBSET subtasks, NEW b \in BOOLEAN, Record(c, b)
    PROVE  /\ completed' \in SUBSET subtasks /\ recorded' = TRUE
           /\ pc' \in {"routing", "failed"}
           /\ route' \in [Edge -> Routes]
  BY DEF TypeOK, Record, Routes

LEMMA CancelType ==
    ASSUME TypeOK, CancelUnfinished
    PROVE  status' \in [Subtask -> Statuses]
  BY DEF TypeOK, CancelUnfinished, Statuses, Done

LEMMA TakingType ==
    ASSUME TypeOK, NEW s, Taking(s)
    PROVE  /\ s \in subtasks /\ s \in Elements(queue)
           /\ queue' \in Seq(subtasks)
           /\ Elements(queue') \subseteq Elements(queue)
<1>1. queue \in Seq(subtasks) /\ queue # <<>> /\ s = Head(queue) /\ queue' = Tail(queue)
  BY DEF TypeOK, Taking
<1>2. QED  BY <1>1, ElementsTail

LEMMA TypeStep == TypeOK /\ [Next]_vars => TypeOK'
<1> SUFFICES ASSUME TypeOK, [Next]_vars PROVE TypeOK'
  OBVIOUS
<1>1. CASE Begin
  BY <1>1 DEF Begin, TypeOK, PCs, Statuses, step, routeVars
<1>2. CASE NeverBegun
  BY <1>2 DEF NeverBegun, TypeOK, PCs, Over, step, taskVars, routeVars
<1>3. CASE GatherSubtasks
  <2>1. PICK b \in BOOLEAN : Record(subtasks, b)
    BY <1>3 DEF GatherSubtasks
  <2>2. QED
    BY <1>3, <2>1, RecordType DEF GatherSubtasks, TypeOK, PCs, Over, step
<1>4. CASE GatherCancelled
  BY <1>4 DEF GatherCancelled, TypeOK, PCs, Over, step, taskVars, routeVars
<1>5. ASSUME NEW s \in Subtask, TakeSuccess(s) PROVE TypeOK'
  <2>1. s \in subtasks /\ queue' \in Seq(subtasks)
    BY <1>5, TakingType DEF TakeSuccess
  <2>2. status' \in [Subtask -> Statuses]
    BY <1>5, CancelType DEF TakeSuccess
  <2>3. QED
    BY <1>5, <2>1, <2>2 DEF TakeSuccess, TypeOK, PCs, step, routeVars
<1>6. ASSUME NEW s \in Subtask, TakeFailure(s) PROVE TypeOK'
  <2>1. s \in subtasks /\ queue' \in Seq(subtasks)
    BY <1>6, TakingType DEF TakeFailure
  <2>2. /\ completed' \in SUBSET subtasks /\ recorded' \in BOOLEAN
        /\ pc' \in PCs /\ route' \in [Edge -> Routes]
    <3>1. CASE completed \cup {s} = subtasks
      BY <1>6, <3>1, RecordType DEF TakeFailure, PCs, Over
    <3>2. CASE completed \cup {s} # subtasks
      BY <1>6, <2>1, <3>2 DEF TakeFailure, TypeOK
    <3>3. QED  BY <3>1, <3>2
  <2>3. QED
    BY <1>6, <2>1, <2>2 DEF TakeFailure, TypeOK, step
<1>7. CASE TakeNone
  BY <1>7, RecordType DEF TakeNone, TypeOK, PCs, Over, step
<1>8. CASE UnwindAny
  BY <1>8, CancelType DEF UnwindAny, TypeOK, PCs, Over, step, routeVars
<1>9. CASE Settle
  <2>1. CASE stop
    BY <1>9, <2>1 DEF Settle, TypeOK, PCs, Over, step
  <2>2. CASE ~stop
    <3>1. Record(completed, TRUE) /\ completed \in SUBSET subtasks
      BY <1>9, <2>2 DEF Settle, TypeOK
    <3>2. QED
      BY <1>9, <3>1, RecordType DEF Settle, TypeOK, PCs, Over, step
  <2>3. QED  BY <2>1, <2>2
<1>10. CASE GatherRoutes
  BY <1>10 DEF GatherRoutes, TypeOK, PCs, Over, step, taskVars
<1>11. CASE RoutesRaise
  BY <1>11 DEF RoutesRaise, TypeOK, PCs, Over, step, taskVars, routeVars
<1>12. CASE Stop
  <2>1. status' \in [Subtask -> Statuses]
    BY <1>12, CancelType DEF Stop, TypeOK
  <2>2. route' \in [Edge -> Routes]
    BY <1>12 DEF Stop, TypeOK, Routes
  <2>3. QED  BY <1>12, <2>1, <2>2 DEF Stop, TypeOK, step
<1>13. ASSUME NEW s \in Subtask, EndSubtask(s) PROVE TypeOK'
  <2>1. status' \in [Subtask -> Statuses]
    BY <1>13 DEF EndSubtask, TypeOK, Statuses
  <2>2. queue' \in Seq(subtasks)
    BY <1>13, ElementsAppend DEF EndSubtask, TypeOK, Unfinished
  <2>3. QED  BY <1>13, <2>1, <2>2 DEF EndSubtask, TypeOK, step, routeVars
<1>14. ASSUME NEW e \in Edge, EndRoute(e) PROVE TypeOK'
  BY <1>14 DEF EndRoute, TypeOK, Routes, step, taskVars
<1>15. CASE UNCHANGED vars
  BY <1>15 DEF vars, step, taskVars, routeVars, TypeOK
<1>16. QED
  BY <1>1, <1>2, <1>3, <1>4, <1>5, <1>6, <1>7, <1>8, <1>9, <1>10, <1>11, <1>12,
     <1>13, <1>14, <1>15 DEF Next, Progress, Terminated

LEMMA TypeInit == Init => TypeOK
<1> SUFFICES ASSUME Init PROVE TypeOK
  OBVIOUS
<1>1. queue \in Seq(subtasks)  BY DEF Init
<1>2. status \in [Subtask -> Statuses]  BY DEF Init, Statuses
<1>3. route \in [Edge -> Routes]  BY DEF Init, Routes
<1>4. recorded \in BOOLEAN /\ stop \in BOOLEAN  BY DEF Init
<1>5. pc \in PCs /\ completed \in SUBSET subtasks /\ targets \in SUBSET edges
  BY DEF Init, PCs
<1>6. step_type \in StepType /\ subtasks \in SUBSET Subtask /\ edges \in SUBSET Edge
         /\ conditional \in SUBSET edges
  BY DEF Init
<1>7. QED  BY <1>1, <1>2, <1>3, <1>4, <1>5, <1>6 DEF TypeOK

(* Every variable of a step keeps to its range, for every step.             *)
THEOREM TypeCorrect == Spec => []TypeOK
  BY TypeInit, TypeStep, PTL DEF Spec

-----------------------------------------------------------------------------
(* Routes.  An edge without a condition is allowed from the start, and what *)
(* is decided stays decided.                                               *)
RouteInv ==
    /\ TypeOK
    /\ pc \in {"routing", "succeeded"} =>
          \A e \in edges \ conditional : route[e] = "allowed"
    /\ RoutesAllDecided

LEMMA RecordRoutes ==
    ASSUME TypeOK, NEW c, NEW b \in BOOLEAN, Record(c, b)
    PROVE  /\ pc' \in {"routing", "failed"}
           /\ pc' = "routing" => \A e \in edges \ conditional : route'[e] = "allowed"
  BY DEF TypeOK, Record

LEMMA RouteStep == RouteInv /\ [Next]_vars => RouteInv'
<1> SUFFICES ASSUME RouteInv, [Next]_vars PROVE RouteInv'
  OBVIOUS
<1>0. TypeOK /\ TypeOK'  BY TypeStep DEF RouteInv
<1> USE DEF RoutesAllDecided
<1>1. ASSUME UNCHANGED <<edges, conditional, targets>>, pc # "succeeded",
             \/ pc' \notin {"routing", "succeeded"}
             \/ /\ pc' = "routing"
                /\ \A e \in edges \ conditional : route'[e] = "allowed"
      PROVE  RouteInv'
  BY <1>0, <1>1 DEF RouteInv
<1>2. ASSUME UNCHANGED <<edges, conditional, targets, route, pc>>
      PROVE  RouteInv'
  BY <1>0, <1>2 DEF RouteInv
<1>3. CASE Begin \/ NeverBegun \/ GatherCancelled \/ UnwindAny \/ RoutesRaise
  <2>1. UNCHANGED <<edges, conditional, targets>> /\ pc # "succeeded"
           /\ pc' \notin {"routing", "succeeded"}
    BY <1>3 DEF Begin, NeverBegun, GatherCancelled, UnwindAny, RoutesRaise, step,
                routeVars
  <2>2. QED  BY <1>1, <2>1
<1>4. CASE GatherSubtasks \/ TakeNone \/ Settle
  <2>1. UNCHANGED <<edges, conditional, targets>> /\ pc \in {"subtasks", "settling"}
    BY <1>4 DEF GatherSubtasks, TakeNone, Settle, step
  <2>2. pc' = "cancelled" \/ \E c : \E b \in BOOLEAN : Record(c, b)
    BY <1>4 DEF GatherSubtasks, TakeNone, Settle
  <2>3. QED  BY <1>0, <1>1, <2>1, <2>2, RecordRoutes
<1>5. ASSUME NEW s \in Subtask, TakeSuccess(s) \/ TakeFailure(s) PROVE RouteInv'
  <2>1. UNCHANGED <<edges, conditional, targets>> /\ pc = "subtasks"
    BY <1>5 DEF TakeSuccess, TakeFailure, Taking, step, routeVars
  <2>2. pc' \in {"subtasks", "settling"} \/ \E c : \E b \in BOOLEAN : Record(c, b)
    BY <1>5, <2>1 DEF TakeSuccess, TakeFailure
  <2>3. QED  BY <1>0, <1>1, <2>1, <2>2, RecordRoutes
<1>6. CASE GatherRoutes
  <2>1. \A e \in edges : route[e] \in {"allowed", "denied"}
    BY <1>6 DEF GatherRoutes
  <2>2. \A e \in edges \ conditional : route[e] = "allowed"
    BY <1>6 DEF GatherRoutes, RouteInv
  <2>3. UNCHANGED <<edges, conditional, route>> /\ pc' = "succeeded"
           /\ targets' = {e \in edges : route[e] = "allowed"}
    BY <1>6 DEF GatherRoutes, step
  <2>4. QED  BY <1>0, <2>1, <2>2, <2>3 DEF RouteInv
<1>7. CASE Stop
  <2>1. UNCHANGED <<edges, conditional, targets, pc>> /\ pc \notin Over
           /\ route' = [e \in Edge |-> IF e \in InFlight THEN "cancelling" ELSE route[e]]
    BY <1>7 DEF Stop, step
  <2>2. \A e \in edges \ conditional : route[e] = "allowed" => route'[e] = "allowed"
    BY <1>0, <2>1 DEF TypeOK, InFlight
  <2>3. QED  BY <1>0, <2>1, <2>2 DEF RouteInv, Over
<1>8. ASSUME NEW s \in Subtask, EndSubtask(s) PROVE RouteInv'
  BY <1>2, <1>8 DEF EndSubtask, step, routeVars
<1>9. ASSUME NEW e \in Edge, EndRoute(e) PROVE RouteInv'
  <2>1. e \in edges /\ route[e] \in {"asking", "cancelling"}
           /\ UNCHANGED <<edges, conditional, targets, pc>>
    BY <1>9 DEF EndRoute, InFlight, step
  <2>2. \A f \in Edge \ {e} : route'[f] = route[f]
    BY <1>0, <1>9 DEF EndRoute, TypeOK
  <2>3. pc # "succeeded"  BY <2>1 DEF RouteInv
  <2>4. QED  BY <1>0, <2>1, <2>2, <2>3 DEF RouteInv, TypeOK
<1>10. CASE UNCHANGED vars
  BY <1>2, <1>10 DEF vars, step, routeVars
<1>11. QED
  BY <1>3, <1>4, <1>5, <1>6, <1>7, <1>8, <1>9, <1>10 DEF Next, Progress, Terminated

(* No successor is named before every route is decided, and one that has no *)
(* condition is always named.                                              *)
THEOREM RoutesCorrect == Spec => []RoutesAllDecided
<1>1. Init => RouteInv
  BY TypeInit DEF Init, RouteInv, RoutesAllDecided
<1>2. RouteInv => RoutesAllDecided
  BY DEF RouteInv
<1>3. QED  BY <1>1, <1>2, RouteStep, PTL DEF Spec

-----------------------------------------------------------------------------
(* What StepPhase leaves open, the step fills in; what it forbids, the step *)
(* does not do.  A step without subtasks does not wait for them, so that   *)
(* no cancellation finds it there.                                         *)
PhaseInv == RouteInv /\ (stop /\ pc = "subtasks" => subtasks # {})

LEMMA PhaseInvStep == PhaseInv /\ [Next]_vars => PhaseInv'
<1> SUFFICES ASSUME PhaseInv, [Next]_vars PROVE PhaseInv'
  OBVIOUS
<1>1. RouteInv'  BY RouteStep DEF PhaseInv
<1>2. UNCHANGED subtasks
  BY DEF Next, Progress, Begin, NeverBegun, GatherSubtasks, GatherCancelled, TakeSuccess,
         TakeFailure, TakeNone, UnwindAny, Settle, GatherRoutes, RoutesRaise, Stop, EndSubtask,
         EndRoute, Terminated, vars, step
<1>3. stop' /\ pc' = "subtasks" => Stop \/ (stop /\ pc = "subtasks")
  BY DEF Next, Progress, Begin, NeverBegun, GatherSubtasks, GatherCancelled, TakeSuccess,
         TakeFailure, Taking, TakeNone, UnwindAny, Settle, GatherRoutes, RoutesRaise,
         EndSubtask, EndRoute, Terminated, vars, Record
<1>4. QED  BY <1>1, <1>2, <1>3 DEF PhaseInv, Stop

LEMMA PhaseStep == PhaseInv /\ [Next]_vars => [Phase!Next]_(Phase!vars)
<1> SUFFICES ASSUME PhaseInv, [Next]_vars PROVE [Phase!Next]_(Phase!vars)
  OBVIOUS
<1> USE DEF Phase!edgeVars, step
<1>1. CASE Begin
  <2>1. Phase!Start  BY <1>1 DEF Begin, Phase!Start, routeVars
  <2>2. QED  BY <2>1 DEF Phase!Next, Phase!Move
<1>2. CASE NeverBegun \/ GatherCancelled \/ UnwindAny
  <2>1. Phase!Cancel
    BY <1>2 DEF NeverBegun, GatherCancelled, UnwindAny, Phase!Cancel, Phase!Over,
                taskVars, routeVars
  <2>2. QED  BY <2>1 DEF Phase!Next, Phase!Move
<1>3. CASE GatherSubtasks \/ TakeNone
  <2>1. ~stop  BY <1>3 DEF GatherSubtasks, TakeNone, PhaseInv
  <2>2. Phase!Record
    BY <1>3, <2>1 DEF GatherSubtasks, TakeNone, Record, Phase!Record
  <2>3. QED  BY <2>2 DEF Phase!Next, Phase!Move
<1>4. ASSUME NEW s \in Subtask, TakeSuccess(s) PROVE UNCHANGED Phase!vars
  BY <1>4 DEF TakeSuccess, Taking, Phase!vars, routeVars
<1>5. ASSUME NEW s \in Subtask, TakeFailure(s) PROVE Phase!Record \/ UNCHANGED Phase!vars
  BY <1>5 DEF TakeFailure, Taking, Record, Phase!Record, Phase!vars
<1>6. CASE Settle
  <2>1. Phase!Record \/ Phase!Cancel
    BY <1>6 DEF Settle, Record, Phase!Record, Phase!Cancel, Phase!Over
  <2>2. QED  BY <2>1 DEF Phase!Next, Phase!Move
<1>7. CASE GatherRoutes
  <2>1. /\ pc = "routing" /\ ~stop /\ pc' = "succeeded"
        /\ targets' = {e \in edges : route[e] = "allowed"}
        /\ UNCHANGED <<step, stop, taskVars>>
    BY <1>7 DEF GatherRoutes
  <2>2. edges \ conditional \subseteq targets' /\ targets' \subseteq edges
    BY <2>1 DEF PhaseInv, RouteInv
  <2>3. conditional = {} => targets' = edges
    BY <2>2
  <2>4. Phase!Route
    BY <2>1, <2>2, <2>3 DEF Phase!Route, taskVars
  <2>5. QED  BY <2>4 DEF Phase!Next, Phase!Move
<1>8. CASE RoutesRaise
  <2>1. /\ pc = "routing" /\ UNCHANGED <<step, stop, taskVars, routeVars>>
        /\ \/ pc' = "cancelled" /\ stop
           \/ \E e \in edges : /\ route[e] \in {"failed", "cancelled"}
                               /\ ~stop /\ pc' \in {"cancelled", "raised"}
    BY <1>8 DEF RoutesRaise
  <2>2. ~stop => conditional # {}
    BY <2>1 DEF PhaseInv, RouteInv
  <2>3. Phase!Fail \/ Phase!Cancel
    BY <2>1, <2>2 DEF Phase!Fail, Phase!Cancel, Phase!Over, taskVars, routeVars
  <2>4. QED  BY <2>3 DEF Phase!Next, Phase!Move
<1>9. CASE Stop
  <2>1. Phase!Stop  BY <1>9 DEF Stop, Phase!Stop
  <2>2. QED  BY <2>1 DEF Phase!Next
<1>10. CASE UNCHANGED vars
  BY <1>10 DEF vars, taskVars, routeVars, Phase!vars
<1>11. ASSUME NEW s \in Subtask, EndSubtask(s) PROVE UNCHANGED Phase!vars
  BY <1>11 DEF EndSubtask, Phase!vars, routeVars
<1>12. ASSUME NEW e \in Edge, EndRoute(e) PROVE UNCHANGED Phase!vars
  BY <1>12 DEF EndRoute, Phase!vars, taskVars
<1>13. QED
  BY <1>1, <1>2, <1>3, <1>4, <1>5, <1>6, <1>7, <1>8, <1>9, <1>10, <1>11, <1>12
     DEF Next, Progress, Terminated, Phase!Next, Phase!Move

(* The step that asyncio runs is the step the scheduler reckons with.       *)
THEOREM PhaseCorrect == Spec => StepSpec
<1>1. Init => Phase!Init
  BY DEF Init, Phase!Init
<1>2. Init => PhaseInv
  BY TypeInit DEF Init, PhaseInv, RouteInv, RoutesAllDecided
<1>3. QED
  BY <1>1, <1>2, PhaseInvStep, PhaseStep, PTL DEF Spec, StepSpec, Phase!Spec

-----------------------------------------------------------------------------
(* Results.  What is collected or waits to be collected is done, and what   *)
(* is done stays as it is.                                                 *)
Won == {s \in completed : status[s] = "success"}

Collected ==
    /\ pc = "queued" =>
          completed = {} /\ Elements(queue) = {} /\ \A s \in Subtask : status[s] = "new"
    /\ \A s \in completed \cup Elements(queue) : s \in Subtask /\ status[s] \in Done

Begun ==
    pc \notin {"queued", "cancelled"} => \A s \in subtasks : status[s] # "new"

(* The winner of ANY_SUCCESS is the only success that is collected.         *)
Winner ==
    /\ pc = "settling" => AnySuccess
    /\ AnySuccess /\ pc = "subtasks" => Won = {}
    /\ AnySuccess /\ pc \in {"settling", "routing", "succeeded", "raised"} =>
          \E w \in completed : Won = {w}
    /\ ~AnySuccess /\ pc \in {"routing", "succeeded", "raised"} => Won = subtasks
    /\ pc = "failed" => /\ completed = subtasks
                        /\ Won # subtasks \/ (AnySuccess /\ subtasks = {})
                        /\ AnySuccess => Won = {}

ResultInv ==
    /\ TypeOK /\ Collected /\ Begun /\ Winner
    /\ NothingBehindVerdict /\ LosersCancelled

LEMMA CancelKeeps ==
    ASSUME TypeOK, CancelUnfinished
    PROVE  /\ \A s \in Subtask : status[s] \in Done \cup {"new"} => status'[s] = status[s]
           /\ \A s \in subtasks : status'[s] # "running"
  BY DEF TypeOK, CancelUnfinished, Unfinished, Done

(* A step that leaves the collection alone and what is in it as it was.     *)
LEMMA SameResults ==
    ASSUME ResultInv, TypeOK', UNCHANGED step,
           \A s \in Subtask : status[s] \in Done => status'[s] = status[s],
           completed' = completed
    PROVE  Won' = Won
  BY DEF ResultInv, Collected, Won, TypeOK

LEMMA ResultInit == Init => ResultInv
<1> SUFFICES ASSUME Init PROVE ResultInv
  OBVIOUS
<1>1. Elements(queue) = {}  BY DEF Init, Elements
<1>2. QED
  BY <1>1, TypeInit DEF Init, ResultInv, Collected, Begun, Winner, NothingBehindVerdict,
     LosersCancelled

LEMMA SameState ==
    ASSUME ResultInv, TypeOK', UNCHANGED step, UNCHANGED pc,
           UNCHANGED <<status, queue, completed>>
    PROVE  ResultInv'
<1>1. UNCHANGED <<step_type, subtasks>>  BY DEF step
<1>2. (Won' = Won) /\ (AnySuccess' <=> AnySuccess) /\ (Unfinished' = Unfinished)
  BY <1>1 DEF Won, AnySuccess, Unfinished
<1>3. Collected' /\ Begun'  BY <1>1 DEF ResultInv, Collected, Begun
<1>4. Winner'  BY <1>1, <1>2 DEF ResultInv, Winner
<1>5. NothingBehindVerdict' /\ LosersCancelled'
  BY <1>1, <1>2 DEF ResultInv, NothingBehindVerdict, LosersCancelled
<1>6. QED  BY <1>3, <1>4, <1>5 DEF ResultInv

(* A step that ends the collection with the results c.                      *)
LEMMA RecordStep ==
    ASSUME ResultInv, TypeOK', UNCHANGED step, pc # "queued",
           NEW c \in SUBSET subtasks, NEW b \in BOOLEAN, Record(c, b),
           UNCHANGED status, Elements(queue') \subseteq Elements(queue),
           \A s \in c : status[s] \in Done,
           \A s \in subtasks : status[s] \in Done,
           b /\ AnySuccess =>
              \E w \in c : {s \in c : status[s] = "success"} = {w},
           b /\ ~AnySuccess => {s \in c : status[s] = "success"} = subtasks,
           ~b => /\ c = subtasks
                 /\ \/ {s \in c : status[s] = "success"} # subtasks
                    \/ AnySuccess /\ subtasks = {}
                 /\ AnySuccess => {s \in c : status[s] = "success"} = {}
    PROVE  ResultInv'
<1>1. /\ completed' = c /\ pc' = (IF b THEN "routing" ELSE "failed")
      /\ step_type' = step_type /\ subtasks' = subtasks /\ status' = status
  BY DEF Record, step
<1>2. c \subseteq Subtask /\ Unfinished' = {}
  BY <1>1 DEF ResultInv, TypeOK, Unfinished, Done
<1>3. Collected'  BY <1>1, <1>2 DEF ResultInv, Collected
<1>4. Won' = {s \in c : status[s] = "success"}  BY <1>1 DEF Won
<1>5. AnySuccess' <=> AnySuccess  BY <1>1 DEF AnySuccess
<1>6. Winner'
  <2>1. CASE b  BY <1>1, <1>4, <1>5, <2>1 DEF Winner
  <2>2. CASE ~b  BY <1>1, <1>4, <1>5, <2>2 DEF Winner
  <2>3. QED  BY <2>1, <2>2
<1>7. NothingBehindVerdict'  BY <1>2 DEF NothingBehindVerdict
<1>8. LosersCancelled'
  BY <1>1 DEF LosersCancelled, Done
<1>9. Begun'  BY <1>1 DEF Begun, Done
<1>10. QED  BY <1>3, <1>6, <1>7, <1>8, <1>9 DEF ResultInv

(* A step that collects nothing and does not reach a verdict.               *)
LEMMA OtherStep ==
    ASSUME ResultInv, TypeOK', UNCHANGED step, completed' = completed,
           \A s \in Subtask : status[s] \in Done => status'[s] = status[s],
           \A s \in Elements(queue') : s \in Elements(queue)
                                       \/ (s \in Subtask /\ status'[s] \in Done),
           pc' # "queued",
           \/ pc' = pc
           \/ pc = "routing" /\ pc' \in {"succeeded", "raised", "cancelled"}
           \/ pc = "settling" /\ pc' = "cancelled"
           \/ pc = "subtasks" /\ pc' = "cancelled"
           \/ pc = "queued" /\ pc' \in {"subtasks", "cancelled"},
           \A s \in subtasks : status'[s] = "new" =>
              pc' = "cancelled" \/ (pc # "queued" /\ status[s] = "new"),
           NothingBehindVerdict', LosersCancelled'
    PROVE  ResultInv'
<1>1. Won' = Won  BY SameResults
<1>2. (AnySuccess' <=> AnySuccess) /\ subtasks' = subtasks
  BY DEF AnySuccess, step
<1>3. Collected'  BY DEF ResultInv, Collected
<1>4. pc = "queued" => Won = {}  BY DEF ResultInv, Collected, Won
<1>5. Winner'  BY <1>1, <1>2, <1>4 DEF ResultInv, Winner
<1>6. Begun'  BY <1>2 DEF ResultInv, Begun
<1>7. QED  BY <1>3, <1>5, <1>6 DEF ResultInv

LEMMA ResultStep == ResultInv /\ [Next]_vars => ResultInv'
<1> SUFFICES ASSUME ResultInv, [Next]_vars PROVE ResultInv'
  OBVIOUS
<1>0. TypeOK /\ TypeOK'  BY TypeStep DEF ResultInv
<1>a. \A s \in completed \cup Elements(queue) : s \in Subtask /\ status[s] \in Done
  BY DEF ResultInv, Collected
<1>1. CASE Begin
  <2>1. /\ pc = "queued" /\ pc' = "subtasks"
        /\ UNCHANGED <<queue, completed>> /\ UNCHANGED step
    BY <1>1 DEF Begin
  <2>2. \A s \in Subtask : status[s] \notin Done
    BY <2>1 DEF ResultInv, Collected, Done
  <2>3. \A s \in subtasks : status'[s] = "running"
    BY <1>0, <1>1 DEF Begin, TypeOK
  <2>4. QED
    BY <1>0, <2>1, <2>2, <2>3, OtherStep DEF NothingBehindVerdict, LosersCancelled
<1>2. CASE NeverBegun
  <2>1. /\ pc = "queued" /\ pc' = "cancelled"
        /\ UNCHANGED <<queue, completed, status>> /\ UNCHANGED step
    BY <1>2 DEF NeverBegun, taskVars
  <2>2. \A s \in subtasks : status[s] = "new"
    BY <1>0, <2>1 DEF ResultInv, Collected, TypeOK
  <2>3. LosersCancelled'  BY <2>1, <2>2 DEF LosersCancelled, step
  <2>4. QED  BY <1>0, <2>1, <2>3, OtherStep DEF NothingBehindVerdict
<1>3. CASE GatherSubtasks
  <2>1. /\ pc = "subtasks" /\ ~AnySuccess
        /\ \A s \in subtasks : status[s] \in {"success", "failed"}
        /\ UNCHANGED <<status, queue>> /\ UNCHANGED step
    BY <1>3 DEF GatherSubtasks
  <2> DEFINE b == \A s \in subtasks : status[s] = "success"
             won == {s \in subtasks : status[s] = "success"}
  <2>2. Record(subtasks, b) /\ b \in BOOLEAN  BY <1>3 DEF GatherSubtasks
  <2>3. \A s \in subtasks : status[s] \in Done  BY <2>1 DEF Done
  <2>4. (b => won = subtasks) /\ (~b => won # subtasks)  OBVIOUS
  <2> HIDE DEF b
  <2>5. QED  BY <1>0, <2>1, <2>2, <2>3, <2>4, RecordStep
<1>4. CASE GatherCancelled
  <2>1. /\ pc = "subtasks" /\ ~AnySuccess /\ pc' = "cancelled"
        /\ UNCHANGED <<queue, completed, status>> /\ UNCHANGED step
    BY <1>4 DEF GatherCancelled, taskVars
  <2>2. LosersCancelled'  BY <2>1 DEF LosersCancelled, AnySuccess, step
  <2>3. QED  BY <1>0, <2>1, <2>2, OtherStep DEF NothingBehindVerdict
<1>5. ASSUME NEW s \in Subtask, TakeSuccess(s) PROVE ResultInv'
  <2>1. /\ pc = "subtasks" /\ AnySuccess /\ pc' = "settling" /\ status[s] = "success"
        /\ completed' = completed \cup {s} /\ CancelUnfinished /\ UNCHANGED step
    BY <1>5 DEF TakeSuccess, Taking
  <2>2. s \in subtasks /\ s \in Elements(queue) /\ Elements(queue') \subseteq Elements(queue)
    BY <1>0, <1>5, TakingType DEF TakeSuccess
  <2>3. /\ \A u \in Subtask : status[u] \in Done => status'[u] = status[u]
        /\ \A u \in subtasks : status'[u] # "running"
    BY <1>0, <2>1, CancelKeeps
  <2>4. Won = {}  BY <2>1 DEF ResultInv, Winner
  <2>5. Won' = {s}
    <3>1. \A u \in completed' : status'[u] = status[u]
      BY <1>a, <2>1, <2>2, <2>3
    <3>2. QED  BY <2>1, <2>4, <3>1 DEF Won
  <2>6. AnySuccess' /\ s \in completed'  BY <2>1 DEF AnySuccess, step
  <2>7. Winner'  BY <2>1, <2>5, <2>6 DEF Winner
  <2>8. Collected'  BY <1>a, <2>1, <2>2, <2>3 DEF Collected
  <2>9. LosersCancelled'  BY <2>1, <2>3 DEF LosersCancelled, step
  <2>10. Begun'
    BY <1>0, <2>1 DEF ResultInv, Begun, CancelUnfinished, TypeOK, step
  <2>11. QED
    BY <1>0, <2>1, <2>7, <2>8, <2>9, <2>10 DEF ResultInv, NothingBehindVerdict
<1>6. ASSUME NEW s \in Subtask, TakeFailure(s) PROVE ResultInv'
  <2>1. /\ pc = "subtasks" /\ AnySuccess /\ status[s] = "failed"
        /\ UNCHANGED status /\ UNCHANGED step
    BY <1>6 DEF TakeFailure, Taking
  <2>2. s \in subtasks /\ s \in Elements(queue) /\ Elements(queue') \subseteq Elements(queue)
    BY <1>0, <1>6, TakingType DEF TakeFailure
  <2>3. Won = {}  BY <2>1 DEF ResultInv, Winner
  <2>4. \A u \in completed \cup {s} : status[u] \in Done /\ status[u] # "success"
    BY <1>a, <2>1, <2>2, <2>3 DEF Won
  <2>5. CASE completed \cup {s} = subtasks
    <3>1. Record(subtasks, FALSE)  BY <1>6, <2>5 DEF TakeFailure
    <3>2. {u \in subtasks : status[u] = "success"} = {}  BY <2>4, <2>5
    <3>3. subtasks # {}  BY <2>2
    <3>4. QED
      BY <1>0, <2>1, <2>2, <2>4, <2>5, <3>1, <3>2, <3>3, RecordStep
  <2>6. CASE completed \cup {s} # subtasks
    <3>1. completed' = completed \cup {s} /\ UNCHANGED pc
      BY <1>6, <2>6 DEF TakeFailure
    <3>2. Won' = {}  BY <2>1, <2>4, <3>1 DEF Won
    <3>3. Winner'  BY <2>1, <3>1, <3>2 DEF Winner, AnySuccess, step
    <3>4. Collected'  BY <1>a, <2>1, <2>2, <3>1 DEF Collected
    <3>5. Begun'  BY <2>1, <3>1 DEF ResultInv, Begun, step
    <3>6. QED
      BY <1>0, <2>1, <3>1, <3>3, <3>4, <3>5
         DEF ResultInv, NothingBehindVerdict, LosersCancelled
  <2>7. QED  BY <2>5, <2>6
<1>7. CASE TakeNone
  <2>1. /\ pc = "subtasks" /\ AnySuccess /\ subtasks = {} /\ Record({}, FALSE)
        /\ UNCHANGED <<status, queue>> /\ UNCHANGED step
    BY <1>7 DEF TakeNone
  <2>2. /\ \A s \in subtasks : status[s] \in Done
        /\ {s \in subtasks : status[s] = "success"} = {}
        /\ Elements(queue') \subseteq Elements(queue)
    BY <2>1
  <2>3. Record(subtasks, FALSE)  BY <2>1
  <2>4. QED  BY <1>0, <2>1, <2>2, <2>3, RecordStep
<1>8. CASE UnwindAny
  <2>1. /\ pc = "subtasks" /\ pc' = "cancelled" /\ CancelUnfinished
        /\ UNCHANGED <<queue, completed>> /\ UNCHANGED step
    BY <1>8 DEF UnwindAny
  <2>2. /\ \A u \in Subtask : status[u] \in Done => status'[u] = status[u]
        /\ \A u \in subtasks : status'[u] # "running"
    BY <1>0, <2>1, CancelKeeps
  <2>3. LosersCancelled'  BY <2>1, <2>2 DEF LosersCancelled, step
  <2>4. QED  BY <1>0, <2>1, <2>2, <2>3, OtherStep DEF NothingBehindVerdict
<1>9. CASE Settle
  <2>1. pc = "settling" /\ Unfinished = {} /\ UNCHANGED <<status, queue>> /\ UNCHANGED step
    BY <1>9 DEF Settle
  <2>2. AnySuccess /\ (\E w \in completed : Won = {w})
           /\ \A u \in subtasks : status[u] # "running"
    BY <2>1 DEF ResultInv, Winner, LosersCancelled
  <2>3. CASE stop
    <3>1. pc' = "cancelled" /\ UNCHANGED completed  BY <1>9, <2>3 DEF Settle
    <3>2. LosersCancelled'  BY <2>1, <2>2 DEF LosersCancelled, step
    <3>3. QED  BY <1>0, <2>1, <3>1, <3>2, OtherStep DEF NothingBehindVerdict
  <2>4. CASE ~stop
    <3>1. Record(completed, TRUE) /\ completed \in SUBSET subtasks
      BY <1>0, <1>9, <2>4 DEF Settle, TypeOK
    <3>2. \A u \in subtasks : status[u] \in Done
      <4>1. \A u \in subtasks : status[u] \in Statuses /\ status[u] # "new"
        BY <1>0, <2>1, <2>2 DEF TypeOK, ResultInv, Begun
      <4>2. QED  BY <2>1, <4>1 DEF Statuses, Unfinished
    <3>3. QED  BY <1>0, <1>a, <2>1, <2>2, <3>1, <3>2, RecordStep DEF Won
  <2>5. QED  BY <2>3, <2>4
<1>10. CASE GatherRoutes \/ RoutesRaise
  <2>1. /\ pc = "routing" /\ pc' \in {"succeeded", "raised", "cancelled"}
        /\ UNCHANGED <<queue, completed, status>> /\ UNCHANGED step
    BY <1>10 DEF GatherRoutes, RoutesRaise, taskVars
  <2>2. Unfinished' = {}
    BY <2>1 DEF ResultInv, NothingBehindVerdict, Unfinished, step
  <2>3. NothingBehindVerdict' /\ LosersCancelled'
    BY <2>1, <2>2 DEF ResultInv, NothingBehindVerdict, LosersCancelled, AnySuccess, step
  <2>4. QED  BY <1>0, <2>1, <2>3, OtherStep
<1>11. CASE Stop
  <2>1. /\ UNCHANGED <<pc, queue, completed>> /\ UNCHANGED step
        /\ UNCHANGED status \/ CancelUnfinished
    BY <1>11 DEF Stop
  <2>2. \A u \in Subtask : status[u] \in Done \cup {"new"} => status'[u] = status[u]
    BY <1>0, <2>1, CancelKeeps
  <2>3. \A u \in subtasks : status'[u] = "running" => status[u] = "running"
    BY <1>0, <2>1, CancelKeeps
  <2>4. LosersCancelled'
    BY <2>1, <2>3 DEF ResultInv, LosersCancelled, AnySuccess, step
  <2>5. Unfinished = {} => Unfinished' = {}
    BY <1>0, <2>1 DEF Unfinished, CancelUnfinished, TypeOK, step
  <2>6. NothingBehindVerdict'
    BY <2>1, <2>5 DEF ResultInv, NothingBehindVerdict
  <2>7. CASE pc = "queued"
    <3>1. \A u \in Subtask : status'[u] = "new"
      BY <2>2, <2>7 DEF ResultInv, Collected
    <3>2. Collected'  BY <2>1, <2>7, <3>1 DEF ResultInv, Collected
    <3>3. Winner'  BY <2>1, <2>7 DEF Winner
    <3>4. Begun'  BY <2>1, <2>7 DEF Begun
    <3>5. QED  BY <1>0, <2>4, <2>6, <3>2, <3>3, <3>4 DEF ResultInv
  <2>8. CASE pc # "queued"
    <3>1. \A u \in subtasks : status'[u] = "new" => status[u] = "new"
      BY <1>0, <2>1 DEF CancelUnfinished, TypeOK
    <3>2. QED  BY <1>0, <2>1, <2>2, <2>4, <2>6, <2>8, <3>1, OtherStep
  <2>9. QED  BY <2>7, <2>8
<1>12. ASSUME NEW s \in Subtask, EndSubtask(s) PROVE ResultInv'
  <2>1. /\ s \in subtasks /\ status[s] \in {"running", "cancelling"}
        /\ \E o \in Done : status' = [status EXCEPT ![s] = o]
        /\ UNCHANGED <<pc, completed>> /\ UNCHANGED step
    BY <1>12 DEF EndSubtask, Unfinished
  <2>2. status'[s] \in Done /\ \A u \in Subtask \ {s} : status'[u] = status[u]
    BY <1>0, <2>1 DEF TypeOK
  <2>3. Elements(queue') \subseteq Elements(queue) \cup {s}
    BY <1>0, <1>12, <2>1, ElementsAppend DEF EndSubtask, TypeOK
  <2>4. pc # "queued"  BY <2>1 DEF ResultInv, Collected
  <2>5. s \in Unfinished  BY <2>1 DEF Unfinished
  <2>6. NothingBehindVerdict'
    BY <2>1, <2>5 DEF ResultInv, NothingBehindVerdict
  <2>7. LosersCancelled'
    BY <1>0, <2>1, <2>2 DEF ResultInv, LosersCancelled, AnySuccess, step, TypeOK, Done
  <2>8. \A u \in Subtask : status[u] \in Done => status'[u] = status[u]
    BY <2>1, <2>2 DEF Done
  <2>9. \A u \in subtasks : status'[u] = "new" => status[u] = "new"
    BY <1>0, <2>1, <2>2 DEF Done, TypeOK
  <2>10. \A u \in Elements(queue') : u \in Elements(queue)
                                      \/ (u \in Subtask /\ status'[u] \in Done)
    BY <2>2, <2>3
  <2>11. QED  BY <1>0, <2>1, <2>4, <2>6, <2>7, <2>8, <2>9, <2>10, OtherStep
<1>13. ASSUME NEW e \in Edge, EndRoute(e) PROVE ResultInv'
  BY <1>0, <1>13, SameState DEF EndRoute, taskVars
<1>14. CASE UNCHANGED vars
  BY <1>0, <1>14, SameState DEF vars, taskVars
<1>15. QED
  BY <1>1, <1>2, <1>3, <1>4, <1>5, <1>6, <1>7, <1>8, <1>9, <1>10, <1>11, <1>12,
     <1>13, <1>14 DEF Next, Progress, Terminated

(* However the subtasks end, no subtask is at work behind the step's verdict. *)
THEOREM NothingBehind == Spec => []NothingBehindVerdict
<1>1. ResultInv => NothingBehindVerdict
  BY DEF ResultInv
<1>2. QED  BY <1>1, ResultInit, ResultStep, PTL DEF Spec

(* Whatever ends an ANY_SUCCESS step, its losers have been told.            *)
THEOREM LosersTold == Spec => []LosersCancelled
<1>1. ResultInv => LosersCancelled
  BY DEF ResultInv
<1>2. QED  BY <1>1, ResultInit, ResultStep, PTL DEF Spec

LEMMA OneWinner == ResultInv => VerdictMatchesResults
<1> SUFFICES ASSUME ResultInv PROVE VerdictMatchesResults
  OBVIOUS
<1>1. \A w : Cardinality({w}) = 1
  BY FS_Singleton
<1>2. QED  BY <1>1 DEF ResultInv, Winner, Won, VerdictMatchesResults

(* The verdict is that of the recorded results, under every strategy.       *)
THEOREM VerdictCorrect == Spec => []VerdictMatchesResults
  BY OneWinner, ResultInit, ResultStep, PTL DEF Spec

-----------------------------------------------------------------------------
(***************************************************************************)
(* Nothing keeps a step from going on once its subtasks and callbacks have *)
(* ended: what it waits for is never lost, however they end.               *)
(***************************************************************************)
Stalled == pc \notin Over /\ Unfinished = {} /\ InFlight = {}

(* The waits of _execute_step, each with what ends it.                      *)
GoesOn ==
    \/ pc \in {"queued", "settling"} \/ stop
    \/ /\ pc = "subtasks" /\ ~AnySuccess
       /\ \/ \A s \in subtasks : status[s] \in {"success", "failed"}
          \/ \E s \in subtasks : status[s] = "cancelled"
    \/ /\ pc = "subtasks" /\ AnySuccess
       /\ queue # <<>> \/ subtasks = {}
    \/ /\ pc = "routing"
       /\ \/ \A e \in edges : route[e] \in {"allowed", "denied"}
          \/ \E e \in edges : route[e] \in {"failed", "cancelled"}

NeverStuck == Stalled => GoesOn

(* as_completed loses no subtask and the collection ends with the last one. *)
NoneLost ==
    AnySuccess /\ pc = "subtasks" =>
       /\ \A s \in subtasks :
             status[s] \in Done => s \in completed \/ s \in Elements(queue)
       /\ subtasks # {} => completed # subtasks

AllAsked == pc = "routing" => \A e \in edges : route[e] # "none"

WaitInv == NoneLost /\ AllAsked

LEMMA AppendKeepsAll ==
    ASSUME NEW T, NEW q \in Seq(T), NEW s \in T
    PROVE  Elements(q) \cup {s} \subseteq Elements(Append(q, s))
<1>1. /\ Len(Append(q, s)) = Len(q) + 1 /\ Append(q, s)[Len(q) + 1] = s
      /\ \A i \in 1..Len(q) : Append(q, s)[i] = q[i] /\ i \in 1..(Len(q) + 1)
      /\ Len(q) + 1 \in 1..(Len(q) + 1)
  OBVIOUS
<1>2. QED  BY <1>1 DEF Elements

LEMMA TailLosesTheHead ==
    ASSUME NEW T, NEW q \in Seq(T), q # <<>>
    PROVE  Elements(q) \subseteq Elements(Tail(q)) \cup {Head(q)}
<1>1. Head(q) = q[1] /\ Len(Tail(q)) = Len(q) - 1  OBVIOUS
<1>2. ASSUME NEW i \in 1..Len(q), i # 1
      PROVE  i - 1 \in 1..Len(Tail(q)) /\ Tail(q)[i - 1] = q[i]
  BY <1>1, <1>2
<1>3. QED  BY <1>1, <1>2 DEF Elements

LEMMA RecordAsks ==
    ASSUME TypeOK, TypeOK', UNCHANGED step, NEW c, NEW b, Record(c, b)
    PROVE  WaitInv'
<1>1. pc' # "subtasks"  BY DEF Record
<1>2. pc' = "routing" =>
         route' = [e \in Edge |-> IF e \in conditional THEN "asking"
                                  ELSE IF e \in edges THEN "allowed" ELSE "none"]
  BY DEF Record
<1>3. AllAsked'  BY <1>2 DEF AllAsked, TypeOK, step
<1>4. QED  BY <1>1, <1>3 DEF WaitInv, NoneLost

LEMMA WaitStep == ResultInv /\ WaitInv /\ [Next]_vars => WaitInv'
<1> SUFFICES ASSUME ResultInv, WaitInv, [Next]_vars PROVE WaitInv'
  OBVIOUS
<1>0. TypeOK /\ TypeOK'  BY TypeStep DEF ResultInv
<1>1. CASE Begin
  <2>1. \A s \in subtasks' : status'[s] \notin Done
    BY <1>0, <1>1 DEF Begin, step, TypeOK, Done
  <2>2. completed' = {} /\ pc' = "subtasks"
    BY <1>1 DEF Begin, ResultInv, Collected
  <2>3. QED  BY <2>1, <2>2 DEF WaitInv, NoneLost, AllAsked
<1>2. CASE NeverBegun \/ GatherCancelled \/ UnwindAny \/ RoutesRaise \/ GatherRoutes
  <2>1. pc' \notin {"subtasks", "routing"}
    BY <1>2 DEF NeverBegun, GatherCancelled, UnwindAny, RoutesRaise, GatherRoutes
  <2>2. QED  BY <2>1 DEF WaitInv, NoneLost, AllAsked
<1>3. CASE GatherSubtasks \/ TakeNone
  <2>1. UNCHANGED step /\ \E c, b : Record(c, b)
    BY <1>3 DEF GatherSubtasks, TakeNone
  <2>2. QED  BY <1>0, <2>1, RecordAsks
<1>4. ASSUME NEW s \in Subtask, TakeSuccess(s) PROVE WaitInv'
  BY <1>4 DEF TakeSuccess, WaitInv, NoneLost, AllAsked
<1>5. ASSUME NEW s \in Subtask, TakeFailure(s) PROVE WaitInv'
  <2>1. CASE completed \cup {s} = subtasks
    <3>1. UNCHANGED step /\ Record(subtasks, FALSE)
      BY <1>5, <2>1 DEF TakeFailure
    <3>2. QED  BY <1>0, <3>1, RecordAsks
  <2>2. CASE completed \cup {s} # subtasks
    <3>1. /\ completed' = completed \cup {s} /\ UNCHANGED status /\ UNCHANGED step
          /\ pc = "subtasks" /\ pc' = "subtasks" /\ AnySuccess
          /\ queue # <<>> /\ s = Head(queue) /\ queue' = Tail(queue)
      BY <1>5, <2>2 DEF TakeFailure, Taking
    <3>2. Elements(queue) \subseteq Elements(queue') \cup {s}
      BY <1>0, <3>1, TailLosesTheHead DEF TypeOK
    <3>3. NoneLost'
      BY <2>2, <3>1, <3>2 DEF WaitInv, NoneLost, AnySuccess, step
    <3>4. QED  BY <3>1, <3>3 DEF WaitInv, AllAsked
  <2>3. QED  BY <2>1, <2>2
<1>6. CASE Settle
  <2>1. CASE stop
    BY <1>6, <2>1 DEF Settle, WaitInv, NoneLost, AllAsked
  <2>2. CASE ~stop
    <3>1. UNCHANGED step /\ Record(completed, TRUE)  BY <1>6, <2>2 DEF Settle
    <3>2. QED  BY <1>0, <3>1, RecordAsks
  <2>3. QED  BY <2>1, <2>2
<1>7. CASE Stop
  <2>1. /\ UNCHANGED <<pc, queue, completed>> /\ UNCHANGED step
        /\ AnySuccess /\ pc = "subtasks" => UNCHANGED status
        /\ route' = [e \in Edge |-> IF e \in InFlight THEN "cancelling" ELSE route[e]]
    BY <1>7 DEF Stop
  <2>2. NoneLost'
    BY <2>1 DEF WaitInv, NoneLost, AnySuccess, step
  <2>3. AllAsked'
    BY <1>0, <2>1 DEF WaitInv, AllAsked, TypeOK, step
  <2>4. QED  BY <2>2, <2>3 DEF WaitInv
<1>8. ASSUME NEW s \in Subtask, EndSubtask(s) PROVE WaitInv'
  <2>1. /\ s \in subtasks
        /\ \E o \in Done : status' = [status EXCEPT ![s] = o]
        /\ UNCHANGED <<pc, completed, route>> /\ UNCHANGED step
        /\ AnySuccess /\ pc = "subtasks" => queue' = Append(queue, s)
    BY <1>8 DEF EndSubtask, Unfinished, routeVars
  <2>2. \A u \in subtasks \ {s} : status'[u] = status[u]
    BY <1>0, <2>1 DEF TypeOK
  <2>3. AnySuccess /\ pc = "subtasks" =>
           Elements(queue) \cup {s} \subseteq Elements(queue')
    BY <1>0, <2>1, AppendKeepsAll DEF TypeOK
  <2>4. NoneLost'
    BY <2>1, <2>2, <2>3 DEF WaitInv, NoneLost, AnySuccess, step
  <2>5. AllAsked'  BY <2>1 DEF WaitInv, AllAsked, step
  <2>6. QED  BY <2>4, <2>5 DEF WaitInv
<1>9. ASSUME NEW e \in Edge, EndRoute(e) PROVE WaitInv'
  <2>1. /\ UNCHANGED <<pc, status, queue, completed>> /\ UNCHANGED step
        /\ \E o \in {"allowed", "denied", "failed", "cancelled"} :
              route' = [route EXCEPT ![e] = o]
    BY <1>9 DEF EndRoute, taskVars
  <2>2. NoneLost'  BY <2>1 DEF WaitInv, NoneLost, AnySuccess, Elements, step
  <2>3. AllAsked'
    BY <1>0, <2>1 DEF WaitInv, AllAsked, TypeOK, step
  <2>4. QED  BY <2>2, <2>3 DEF WaitInv
<1>10. CASE UNCHANGED vars
  BY <1>10 DEF WaitInv, NoneLost, AllAsked, AnySuccess, Elements, vars, step, taskVars,
               routeVars
<1>11. QED
  BY <1>1, <1>2, <1>3, <1>4, <1>5, <1>6, <1>7, <1>8, <1>9, <1>10
     DEF Next, Progress, Terminated

LEMMA WaitsEnd == ResultInv /\ WaitInv => NeverStuck
<1> SUFFICES ASSUME ResultInv, WaitInv, Stalled PROVE GoesOn
  BY DEF NeverStuck
<1>1. \A s \in subtasks : status[s] \in Done \/ pc \in {"queued", "cancelled"}
  BY DEF ResultInv, TypeOK, Begun, Stalled, Unfinished, Statuses
<1>2. pc \in {"queued", "settling", "subtasks", "routing"}
  BY DEF ResultInv, TypeOK, PCs, Stalled
<1>3. CASE pc = "subtasks" /\ ~AnySuccess
  BY <1>1, <1>3 DEF GoesOn, Done
<1>4. CASE pc = "subtasks" /\ AnySuccess
  <2>1. SUFFICES ASSUME queue = <<>>, subtasks # {} PROVE FALSE
    BY <1>4 DEF GoesOn
  <2>2. Elements(queue) = {}  BY <2>1 DEF Elements
  <2>3. subtasks \subseteq completed
    BY <1>1, <1>4, <2>2 DEF WaitInv, NoneLost
  <2>4. QED  BY <1>4, <2>1, <2>3 DEF WaitInv, NoneLost, ResultInv, TypeOK
<1>5. CASE pc = "routing"
  <2>1. \A e \in edges : route[e] \in Routes \ {"none", "asking", "cancelling"}
    BY <1>5 DEF WaitInv, AllAsked, Stalled, InFlight, ResultInv, TypeOK
  <2>2. QED  BY <1>5, <2>1 DEF GoesOn, Routes
<1>6. QED  BY <1>2, <1>3, <1>4, <1>5 DEF GoesOn

(* A step whose subtasks and callbacks have all ended has what it waits for *)
(* and goes on.  What AllQuiet adds to this is that the steps are taken.    *)
THEOREM StepsAreNeverStuck == Spec => []NeverStuck
<1>1. Init => WaitInv  BY DEF Init, WaitInv, NoneLost, AllAsked
<1>2. ResultInv /\ WaitInv /\ [Next]_vars => ResultInv' /\ WaitInv'
  BY ResultStep, WaitStep
<1>3. QED  BY <1>1, <1>2, ResultInit, WaitsEnd, PTL DEF Spec
=============================================================================
