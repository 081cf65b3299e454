----------------------- MODULE WorkflowExecutorProofs -----------------------
(***************************************************************************)
(* Theorems about WorkflowExecutor for every set of steps and every graph. *)
(***************************************************************************)
EXTENDS WorkflowExecutor, TLAPS

(* An ancestor's predecessor is an ancestor.                               *)
LEMMA AncestorClosed ==
    ASSUME NEW E, NEW t \in Step, NEW s \in Ancestors(E, t),
           NEW p \in Preds(E, s)
    PROVE  p \in Ancestors(E, t)
  BY DEF Ancestors, ClosedFrom, Preds

(* A predecessor is an ancestor.                                           *)
LEMMA PredIsAncestor ==
    ASSUME NEW E, NEW t \in Step, NEW p \in Preds(E, t)
    PROVE  p \in Ancestors(E, t)
  BY DEF Ancestors, ClosedFrom, Preds

(* Every ancestor is a predecessor, or an ancestor of a predecessor.       *)
LEMMA AncestorCases ==
    ASSUME NEW E, NEW t \in Step, NEW s \in Ancestors(E, t)
    PROVE  s \in Preds(E, t) \/ \E u \in Preds(E, t) : s \in Ancestors(E, u)
<1> DEFINE S == Preds(E, t) \cup UNION {Ancestors(E, u) : u \in Preds(E, t)}
<1>1. S \in SUBSET Step
  BY DEF Preds, Ancestors
<1>2. ASSUME NEW u \in S, NEW p \in Preds(E, u)
      PROVE  p \in S
  <2>1. CASE u \in Preds(E, t)
    <3>1. u \in Step
      BY <2>1 DEF Preds
    <3>2. p \in Ancestors(E, u)
      BY <3>1, <1>2, PredIsAncestor
    <3>3. QED
      BY <3>2, <2>1
  <2>2. CASE \E v \in Preds(E, t) : u \in Ancestors(E, v)
    <3>1. PICK v \in Preds(E, t) : u \in Ancestors(E, v)
      BY <2>2
    <3>2. v \in Step
      BY DEF Preds
    <3>3. p \in Ancestors(E, v)
      BY <3>1, <3>2, <1>2, AncestorClosed
    <3>4. QED
      BY <3>3
  <2>3. QED
    BY <1>2, <2>1, <2>2
<1>3. ClosedFrom(E, t, S)
  BY <1>2 DEF ClosedFrom
<1>4. s \in S
  BY <1>1, <1>3 DEF Ancestors
<1>5. QED
  BY <1>4

(***************************************************************************)
(* In an acyclic graph every non-empty set of steps has a member none of   *)
(* whose ancestors is in the set.                                          *)
(***************************************************************************)
LEMMA MinimalStep ==
    ASSUME NEW E, Acyclic(E), NEW P \in SUBSET Step, P # {}
    PROVE  \E s \in P : Ancestors(E, s) \cap P = {}
<1>1. SUFFICES ASSUME \A s \in P : Ancestors(E, s) \cap P # {}
               PROVE  FALSE
  OBVIOUS
<1> DEFINE S == {x \in Step : Ancestors(E, x) \cap P # {}}
<1>2. S \in (SUBSET Step) \ {{}}
  BY <1>1
<1>3. PICK x \in S : Preds(E, x) \cap S = {}
  BY <1>2 DEF Acyclic
<1>4. PICK a \in P : a \in Ancestors(E, x)
  BY <1>3
<1>5. CASE a \in Preds(E, x)
  BY <1>5, <1>3, <1>1
<1>6. CASE \E u \in Preds(E, x) : a \in Ancestors(E, u)
  <2>1. PICK u \in Preds(E, x) : a \in Ancestors(E, u)
    BY <1>6
  <2>2. u \in S
    BY <2>1, <1>4 DEF Preds
  <2>3. QED
    BY <2>1, <2>2, <1>3
<1>7. QED
  BY <1>4, <1>5, <1>6, AncestorCases

-----------------------------------------------------------------------------

LEMMA RootsType == ASSUME NEW E PROVE Roots(E) \in SUBSET Step
  BY DEF Roots

LEMMA ReadyType == Ready \in SUBSET Step
  BY DEF Ready, Fresh, Queued

(* Every variable keeps to its range.                                      *)
THEOREM TypeCorrect == Spec => []TypeOK
<1>1. Init => TypeOK
  <2> SUFFICES ASSUME Init
               PROVE  TypeOK
    OBVIOUS
  <2>1. workflow \in Workflow
    BY WorkflowsAssumption DEF Init
  <2>2. QED
    BY <2>1 DEF Init, TypeOK, RunStates, Phases
<1>2. TypeOK /\ [Next]_vars => TypeOK'
  <2> SUFFICES ASSUME TypeOK, [Next]_vars
               PROVE  TypeOK'
    OBVIOUS
  <2>1. CASE Begin
    BY <2>1, RootsType DEF TypeOK, Begin, BeginIf, stepVars, RunStates
  <2>2. CASE LaunchWave
    BY <2>2, ReadyType DEF TypeOK, LaunchWave, Phases
  <2>3. ASSUME NEW s \in Step, StartStep(s)
        PROVE  TypeOK'
    <3>1. Anc(s) \cap step_outputs \in SUBSET Step
      BY DEF TypeOK
    <3>2. QED
      BY <2>3, <3>1 DEF TypeOK, StartStep, SetPhase, schedulerVars, Phases
  <2>4. ASSUME NEW s \in Step, EndSubtasks(s)
        PROVE  TypeOK'
    BY <2>4 DEF TypeOK, EndSubtasks, SetPhase, schedulerVars, Phases
  <2>5. ASSUME NEW s \in Step, EndRouting(s)
        PROVE  TypeOK'
    <3>1. PICK denied \in SUBSET (OutEdges(s) \cap workflow.conditional) :
            routed' = [routed EXCEPT ![s] =
                          {e[2] : e \in OutEdges(s) \ denied} \ {EndNode}]
      BY <2>5 DEF EndRouting
    <3>2. {e[2] : e \in OutEdges(s) \ denied} \ {EndNode} \in SUBSET Step
      BY DEF OutEdges, TypeOK, Workflow, Edges
    <3>3. routed' \in [Step -> SUBSET Step]
      BY <3>1, <3>2 DEF TypeOK
    <3>4. QED
      BY <2>5, <3>3 DEF TypeOK, EndRouting, SetPhase, schedulerVars, Phases
  <2>6. ASSUME NEW s \in Step, RouteRaises(s)
        PROVE  TypeOK'
    BY <2>6 DEF TypeOK, RouteRaises, SetPhase, schedulerVars, Phases
  <2>7. ASSUME NEW s \in Step, StepCancelled(s)
        PROVE  TypeOK'
    BY <2>7 DEF TypeOK, StepCancelled, SetPhase, schedulerVars, Phases
  <2>8. CASE JoinWave
    <3>1. ASSUME NEW S \in SUBSET wave, Activate(S)
          PROVE  /\ activated' \in SUBSET Step
                 /\ scheduled' \in SUBSET Step
                 /\ pending' \in [Step -> Nat]
      BY <3>1 DEF Activate, Targets, TypeOK
    <3>2. \E S \in SUBSET wave : Activate(S)
      BY <2>8 DEF JoinWave
    <3>3. run' \in RunStates /\ failure' \in BOOLEAN
      BY <2>8 DEF JoinWave, TypeOK, RunStates
    <3>4. QED
      BY <2>8, <3>1, <3>2, <3>3 DEF JoinWave, TypeOK, stepVars
  <2>9. CASE Complete
    BY <2>9 DEF TypeOK, Complete, schedulerVars, stepVars, RunStates
  <2>10. CASE Cancel
    BY <2>10 DEF TypeOK, Cancel, schedulerVars, stepVars, RunStates
  <2>11. CASE EndCancel
    BY <2>11 DEF TypeOK, EndCancel, stepVars, RunStates
  <2>12. CASE Terminated
    BY <2>12 DEF TypeOK, Terminated, vars, schedulerVars, stepVars
  <2>13. CASE UNCHANGED vars
    BY <2>13 DEF TypeOK, vars, schedulerVars, stepVars
  <2>14. QED
    BY <2>1, <2>2, <2>3, <2>4, <2>5, <2>6, <2>7, <2>8, <2>9, <2>10, <2>11,
       <2>12, <2>13 DEF Next, StepProgress
<1>3. QED
  BY <1>1, <1>2, PTL DEF Spec

-----------------------------------------------------------------------------
(***************************************************************************)
(* The scheduler's inductive invariant.  MergeSafe alone is not inductive: *)
(* that an activated target is no ancestor of an executed step follows     *)
(* from who can route (wave members, by RoutesFollowEdges) and from where  *)
(* they are (no ancestor of an executed step is in the wave).              *)
(***************************************************************************)
QueueInv ==
    /\ scheduled = activated
    /\ activated = executed \cup Queued
    /\ executed \cap Queued = {}
    /\ wave \subseteq executed
    /\ step_outputs \subseteq executed
    /\ run \in {"new", "rejected"} => executed = {}

CopiesInv ==
    \A s \in Step : /\ pending[s] <= 1
                    /\ launches[s] = IF s \in executed THEN 1 ELSE 0

PhaseInv ==
    \A s \in Step :
        /\ s \notin executed => phase[s] = "idle"
        /\ phase[s] \in {"routing", "succeeded", "failed", "raised"}
             => s \in step_outputs

RoutesFollowEdges ==
    \A s \in Step : \A t \in routed[s] :
        <<s, t>> \in workflow.edges /\ phase[s] = "succeeded"

SchedInv ==
    /\ QueueInv /\ CopiesInv /\ PhaseInv /\ RoutesFollowEdges
    /\ MergeSafe /\ WindowComplete

(* What the steps of a joined wave activate is no ancestor of anything     *)
(* executed.                                                               *)
LEMMA TargetsAreNew ==
    ASSUME TypeOK, SchedInv, NEW S \in SUBSET wave, NEW s \in executed
    PROVE  Anc(s) \cap Targets(S) = {}
<1>1. SUFFICES ASSUME NEW p \in S, NEW t \in routed[p], t \in Anc(s)
               PROVE  FALSE
  BY DEF Targets
<1>2. p \in Step /\ s \in Step /\ <<p, t>> \in workflow.edges
  BY DEF TypeOK, SchedInv, RoutesFollowEdges
<1>3. CASE p = t
  BY <1>1, <1>3 DEF SchedInv, MergeSafe
<1>4. CASE p # t
  <2>1. p \in Preds(workflow.edges, t)
    BY <1>2, <1>4 DEF Preds
  <2>2. p \in Anc(s)
    BY <1>1, <1>2, <2>1, AncestorClosed DEF Anc
  <2>3. QED
    BY <2>2 DEF SchedInv, MergeSafe
<1>5. QED
  BY <1>3, <1>4

(* Activation keeps the queue, and everything said of ancestors, in order. *)
LEMMA ActivateSafe ==
    ASSUME TypeOK, SchedInv, NEW S \in SUBSET wave, Activate(S), wave' = {},
           UNCHANGED <<workflow, executed, launches, stepVars>>,
           run = "running", run' \in {"running", "cancelled"}
    PROVE  SchedInv'
<1> USE DEF stepVars
<1>1. Targets(S) \in SUBSET Step
  BY DEF Targets, TypeOK
<1>2. Queued' = Queued \cup (Targets(S) \ scheduled)
  BY <1>1 DEF Activate, Queued, TypeOK
<1>3. QueueInv'
  BY <1>2 DEF SchedInv, QueueInv, Activate
<1>4. CopiesInv'
  BY <1>1 DEF SchedInv, QueueInv, CopiesInv, Activate, Queued, TypeOK
<1>5. PhaseInv' /\ RoutesFollowEdges'
  BY DEF SchedInv, PhaseInv, RoutesFollowEdges
<1>6. ASSUME NEW s \in executed
      PROVE  Anc(s)' \cap activated' = Anc(s) \cap activated
  BY <1>6, TargetsAreNew DEF Activate, Anc
<1>7. MergeSafe'
  <2>1. ASSUME NEW s \in executed
        PROVE  Anc(s)' \cap Queued' = {}
    BY <2>1, <1>2, TargetsAreNew DEF SchedInv, MergeSafe, Anc
  <2>2. QED
    BY <1>6, <2>1 DEF SchedInv, MergeSafe, Anc
<1>8. WindowComplete'
  BY <1>6 DEF SchedInv, WindowComplete, PhaseInv
<1>9. QED
  BY <1>3, <1>4, <1>5, <1>7, <1>8 DEF SchedInv

(* A step's own progress leaves the queue and the wave alone.              *)
LEMMA StepSafe ==
    ASSUME TypeOK, SchedInv, NEW s \in Step,
           StartStep(s) \/ EndSubtasks(s) \/ EndRouting(s)
             \/ RouteRaises(s) \/ StepCancelled(s)
    PROVE  SchedInv'
<1> USE DEF schedulerVars, SetPhase
<1>1. /\ UNCHANGED <<workflow, run, schedulerVars>>
      /\ phase[s] \in {"queued", "tasks", "routing"}
      /\ \E p \in Phases : phase' = [phase EXCEPT ![s] = p]
  BY DEF StartStep, EndSubtasks, EndRouting, RouteRaises, StepCancelled, Phases
<1>2. s \in executed
  BY <1>1 DEF SchedInv, PhaseInv
<1>3. /\ step_outputs \subseteq step_outputs'
      /\ step_outputs' \subseteq step_outputs \cup {s}
  BY DEF StartStep, EndSubtasks, EndRouting, RouteRaises, StepCancelled
<1>4. Queued' = Queued /\ \A t \in Step : Anc(t)' = Anc(t)
  BY <1>1 DEF Queued, Anc
<1>5. QueueInv'
  BY <1>1, <1>2, <1>3, <1>4 DEF SchedInv, QueueInv
<1>6. CopiesInv'
  BY <1>1 DEF SchedInv, CopiesInv
<1>7. PhaseInv'
  <2>1. ASSUME NEW t \in Step, t # s
        PROVE  phase'[t] = phase[t]
    BY <1>1, <2>1 DEF TypeOK
  <2>2. phase'[s] \in {"routing", "succeeded", "failed", "raised"}
          => s \in step_outputs'
    BY DEF StartStep, EndSubtasks, EndRouting, RouteRaises, StepCancelled,
           TypeOK, SchedInv, PhaseInv
  <2>3. QED
    BY <1>1, <1>2, <1>3, <2>1, <2>2 DEF SchedInv, PhaseInv
<1>8. RoutesFollowEdges'
  <2>1. CASE EndRouting(s)
    <3>1. PICK denied \in SUBSET (OutEdges(s) \cap workflow.conditional) :
            routed' = [routed EXCEPT ![s] =
                          {e[2] : e \in OutEdges(s) \ denied} \ {EndNode}]
      BY <2>1 DEF EndRouting
    <3>2. ASSUME NEW t \in routed'[s]
          PROVE  <<s, t>> \in workflow.edges
      <4>1. PICK e \in OutEdges(s) : t = e[2]
        BY <3>1, <3>2 DEF TypeOK
      <4>2. e \in Edges /\ e[1] = s
        BY <4>1 DEF OutEdges, TypeOK, Workflow
      <4>3. e = <<s, t>>
        BY <4>1, <4>2 DEF Edges
      <4>4. QED
        BY <4>1, <4>3 DEF OutEdges
    <3>3. phase'[s] = "succeeded"
      BY <2>1 DEF EndRouting, TypeOK
    <3>4. ASSUME NEW t \in Step, t # s
          PROVE  phase'[t] = phase[t] /\ routed'[t] = routed[t]
      BY <1>1, <3>1, <3>4 DEF TypeOK
    <3>5. QED
      BY <1>1, <3>2, <3>3, <3>4 DEF SchedInv, RoutesFollowEdges
  <2>2. CASE ~EndRouting(s)
    <3>1. routed' = routed
      BY <2>2 DEF StartStep, EndSubtasks, RouteRaises, StepCancelled
    <3>2. routed[s] = {}
      BY <1>1 DEF SchedInv, RoutesFollowEdges
    <3>3. QED
      BY <1>1, <3>1, <3>2 DEF SchedInv, RoutesFollowEdges, TypeOK
  <2>3. QED
    BY <2>1, <2>2
<1>9. MergeSafe'
  BY <1>1, <1>3, <1>4 DEF SchedInv, MergeSafe, TypeOK
<1>10. WindowComplete'
  <2>1. CASE StartStep(s)
    <3>1. context' = [context EXCEPT ![s] = Anc(s) \cap step_outputs]
      BY <2>1 DEF StartStep
    <3>2. Anc(s) \cap step_outputs = Anc(s) \cap activated
      BY <1>2 DEF SchedInv, MergeSafe, QueueInv
    <3>3. QED
      BY <1>1, <1>4, <3>1, <3>2 DEF SchedInv, WindowComplete, TypeOK
  <2>2. CASE ~StartStep(s)
    <3>1. context' = context
      BY <2>2 DEF EndSubtasks, EndRouting, RouteRaises, StepCancelled
    <3>2. \/ phase[s] \in {"tasks", "routing"}
          \/ phase'[s] = "cancelled"
      BY <2>2 DEF EndSubtasks, EndRouting, RouteRaises, StepCancelled, TypeOK
    <3>3. QED
      BY <1>1, <1>4, <3>1, <3>2 DEF SchedInv, WindowComplete, TypeOK
  <2>3. QED
    BY <2>1, <2>2
<1>11. QED
  BY <1>5, <1>6, <1>7, <1>8, <1>9, <1>10 DEF SchedInv

LEMMA LaunchSafe ==
    ASSUME TypeOK, SchedInv, LaunchWave
    PROVE  SchedInv'
<1> USE DEF LaunchWave
<1>1. Fresh = Queued
  BY DEF Fresh, SchedInv, QueueInv
<1>2. Queued' = Queued \ Ready
  BY <1>1, ReadyType DEF Queued, TypeOK
<1>3. Ready \subseteq Queued
  BY <1>1 DEF Ready
<1>4. QueueInv'
  BY <1>2, <1>3 DEF SchedInv, QueueInv
<1>5. CopiesInv'
  <2>1. ASSUME NEW s \in Step
        PROVE  /\ pending'[s] <= 1
               /\ launches'[s] = IF s \in executed' THEN 1 ELSE 0
    <3>1. CASE s \in Ready
      <4>1. pending[s] = 1 /\ launches[s] = 0
        BY <3>1, <1>3 DEF Queued, SchedInv, QueueInv, CopiesInv, TypeOK
      <4>2. QED
        BY <4>1, <3>1
    <3>2. CASE s \notin Ready
      BY <3>2 DEF SchedInv, CopiesInv, TypeOK
    <3>3. QED
      BY <3>1, <3>2
  <2>2. QED
    BY <2>1 DEF CopiesInv
<1>6. PhaseInv'
  BY <1>3 DEF SchedInv, QueueInv, PhaseInv, TypeOK
<1>7. RoutesFollowEdges'
  <2>1. ASSUME NEW s \in Ready
        PROVE  routed[s] = {}
    BY <2>1, <1>3, ReadyType DEF SchedInv, QueueInv, PhaseInv, RoutesFollowEdges
  <2>2. QED
    BY <2>1 DEF SchedInv, RoutesFollowEdges
<1>8. MergeSafe'
  <2>1. ASSUME NEW s \in executed
        PROVE  /\ Anc(s) \cap activated \subseteq step_outputs
               /\ Anc(s) \cap Queued = {}
    BY DEF SchedInv, MergeSafe
  <2>2. ASSUME NEW s \in Ready
        PROVE  /\ Anc(s) \cap activated \subseteq step_outputs
               /\ Anc(s) \cap Queued = {}
    BY <2>2 DEF Ready, SchedInv, QueueInv
  <2>3. QED
    BY <1>2, <1>3, <2>1, <2>2 DEF MergeSafe, Anc
<1>9. WindowComplete'
  BY DEF SchedInv, WindowComplete, Anc, TypeOK
<1>10. QED
  BY <1>4, <1>5, <1>6, <1>7, <1>8, <1>9 DEF SchedInv

LEMMA SchedInvStep == TypeOK /\ SchedInv /\ [Next]_vars => SchedInv'
<1> SUFFICES ASSUME TypeOK, SchedInv, [Next]_vars
             PROVE  SchedInv'
  OBVIOUS
<1>1. CASE Begin
  <2>1. Queued' = IF Valid(workflow) THEN Roots(workflow.edges) ELSE Queued
    BY <1>1, RootsType DEF Begin, BeginIf, Queued
  <2>2. executed = {} /\ executed' = {} /\ wave' = {} /\ step_outputs' = {}
    BY <1>1 DEF Begin, BeginIf, stepVars, SchedInv, QueueInv
  <2>3. QueueInv'
    BY <1>1, <2>1, <2>2 DEF Begin, BeginIf, SchedInv, QueueInv
  <2>4. CopiesInv'
    BY <1>1, <2>2 DEF Begin, BeginIf, SchedInv, CopiesInv
  <2>5. PhaseInv' /\ RoutesFollowEdges' /\ MergeSafe' /\ WindowComplete'
    BY <1>1, <2>2 DEF Begin, BeginIf, stepVars, SchedInv, PhaseInv, RoutesFollowEdges,
       MergeSafe, WindowComplete
  <2>6. QED
    BY <2>3, <2>4, <2>5 DEF SchedInv
<1>2. CASE LaunchWave
  BY <1>2, LaunchSafe
<1>3. ASSUME NEW s \in Step,
             StepProgress(s) \/ RouteRaises(s) \/ StepCancelled(s)
      PROVE  SchedInv'
  BY <1>3, StepSafe DEF StepProgress
<1>4. CASE JoinWave
  <2>1. PICK S \in SUBSET wave : Activate(S)
    BY <1>4 DEF JoinWave
  <2>2. /\ wave' = {} /\ run = "running" /\ run' \in {"running", "cancelled"}
        /\ UNCHANGED <<workflow, executed, launches, stepVars>>
    BY <1>4 DEF JoinWave
  <2>3. QED
    BY <2>1, <2>2, ActivateSafe
<1>5. CASE Complete \/ Cancel \/ EndCancel \/ Terminated \/ UNCHANGED vars
  <2>1. /\ UNCHANGED <<workflow, pending, activated, scheduled, executed,
                       launches, stepVars>>
        /\ wave' \subseteq wave
        /\ run' \in {"new", "rejected"} => run \in {"new", "rejected"}
    BY <1>5 DEF Complete, Cancel, EndCancel, Terminated, vars, schedulerVars
  <2>2. Queued' = Queued /\ \A s \in Step : Anc(s)' = Anc(s)
    BY <2>1 DEF Queued, Anc
  <2>3. QueueInv' /\ CopiesInv' /\ PhaseInv' /\ RoutesFollowEdges'
    BY <2>1, <2>2 DEF SchedInv, QueueInv, CopiesInv, PhaseInv,
       RoutesFollowEdges, stepVars
  <2>4. MergeSafe' /\ WindowComplete'
    BY <2>1, <2>2 DEF SchedInv, MergeSafe, WindowComplete, stepVars, TypeOK
  <2>5. QED
    BY <2>3, <2>4 DEF SchedInv
<1>6. QED
  BY <1>1, <1>2, <1>3, <1>4, <1>5 DEF Next

(* The scheduler's invariant holds throughout.                             *)
THEOREM Scheduling == Spec => []SchedInv
<1>1. Init => SchedInv
  BY DEF Init, SchedInv, QueueInv, CopiesInv, PhaseInv, RoutesFollowEdges,
     MergeSafe, WindowComplete, Queued
<1>2. QED
  BY <1>1, SchedInvStep, TypeCorrect, PTL DEF Spec

(* A merge never runs before a branch that feeds it, in any graph.         *)
THEOREM MergesAreSafe == Spec => []MergeSafe
<1>1. SchedInv => MergeSafe
  BY DEF SchedInv
<1>2. QED
  BY <1>1, Scheduling, PTL

(* The input window a step is given is complete and never goes stale.      *)
THEOREM WindowsAreComplete == Spec => []WindowComplete
<1>1. SchedInv => WindowComplete
  BY DEF SchedInv
<1>2. QED
  BY <1>1, Scheduling, PTL

(* No step is handed to gather twice.                                      *)
THEOREM StepsLaunchOnce == Spec => []LaunchedOnce
<1>1. SchedInv => LaunchedOnce
  BY DEF SchedInv, CopiesInv, LaunchedOnce
<1>2. QED
  BY <1>1, Scheduling, PTL

-----------------------------------------------------------------------------
(***************************************************************************)
(* What a verdict rests on.  While the loop runs, a step that left the     *)
(* wave succeeded and its targets are activated; activation has a cause;   *)
(* and a failure comes from a step, since an acyclic graph always leaves   *)
(* some queued step ready.                                                 *)
(***************************************************************************)
ValidInv ==
    run \notin {"new", "rejected"} =>
        Valid(workflow) /\ Roots(workflow.edges) \subseteq activated

CauseInv ==
    \A t \in activated \ Roots(workflow.edges) :
        \E p \in Preds(workflow.edges, t) :
            phase[p] = "succeeded" /\ t \in routed[p]

UnconditionalInv ==
    \A s \in Step : phase[s] = "succeeded" =>
        \A e \in OutEdges(s) \ workflow.conditional :
            e[2] \in routed[s] \cup {EndNode}

JoinedInv ==
    (run = "running" /\ ~failure) \/ run = "succeeded" =>
        \A s \in executed \ wave :
            phase[s] = "succeeded" /\ routed[s] \subseteq activated

VerdictInv ==
    /\ ValidInv /\ CauseInv /\ UnconditionalInv /\ JoinedInv
    /\ FailureHasCause
    /\ run \in {"new", "rejected"} => activated = {}
    /\ run = "succeeded" => wave = {} /\ Queued = {}

(* With an acyclic graph, something queued is ready when no wave is out.   *)
LEMMA SomethingIsReady ==
    ASSUME TypeOK, SchedInv, VerdictInv, run = "running", wave = {},
           ~failure, Queued # {}
    PROVE  Ready # {}
<1>1. Acyclic(workflow.edges)
  BY DEF VerdictInv, ValidInv, Valid
<1>2. PICK s \in Queued : Anc(s) \cap Queued = {}
  <2>1. Queued \in SUBSET Step
    BY DEF Queued
  <2>2. QED
    BY <1>1, <2>1, MinimalStep DEF Anc
<1>3. executed \subseteq step_outputs
  BY DEF VerdictInv, JoinedInv, SchedInv, PhaseInv, TypeOK
<1>4. Anc(s) \cap activated \subseteq step_outputs
  BY <1>2, <1>3 DEF SchedInv, QueueInv
<1>5. s \in Ready
  BY <1>4 DEF Ready, Fresh, SchedInv, QueueInv
<1>6. QED
  BY <1>5

(* A step's own progress.                                                  *)
LEMMA StepVerdict ==
    ASSUME TypeOK, SchedInv, VerdictInv, NEW s \in Step,
           StartStep(s) \/ EndSubtasks(s) \/ EndRouting(s)
             \/ RouteRaises(s) \/ StepCancelled(s)
    PROVE  VerdictInv'
<1> USE DEF schedulerVars, SetPhase
<1>1. /\ UNCHANGED <<workflow, run, schedulerVars>>
      /\ phase[s] \in {"queued", "tasks", "routing"}
      /\ run \in {"running", "cancelling"}
      /\ \E p \in Phases : phase' = [phase EXCEPT ![s] = p]
  BY DEF StartStep, EndSubtasks, EndRouting, RouteRaises, StepCancelled, Phases
<1>2. \A t \in Step : t # s => phase'[t] = phase[t] /\ routed'[t] = routed[t]
  BY DEF StartStep, EndSubtasks, EndRouting, RouteRaises, StepCancelled, TypeOK
<1>3. ValidInv'
  BY <1>1 DEF VerdictInv, ValidInv
<1>4. CauseInv'
  BY <1>1, <1>2 DEF VerdictInv, CauseInv, Preds
<1>5. UnconditionalInv'
  <2>1. CASE EndRouting(s)
    <3>1. PICK denied \in SUBSET (OutEdges(s) \cap workflow.conditional) :
            routed' = [routed EXCEPT ![s] =
                          {e[2] : e \in OutEdges(s) \ denied} \ {EndNode}]
      BY <2>1 DEF EndRouting
    <3>2. routed'[s] = {e[2] : e \in OutEdges(s) \ denied} \ {EndNode}
      BY <3>1 DEF TypeOK
    <3>3. \A e \in OutEdges(s) \ workflow.conditional :
             e[2] \in routed'[s] \cup {EndNode}
      BY <3>2
    <3>4. \A t \in Step : OutEdges(t)' = OutEdges(t)
      BY <1>1 DEF OutEdges
    <3>5. QED
      BY <1>1, <1>2, <3>3, <3>4 DEF VerdictInv, UnconditionalInv
  <2>2. CASE ~EndRouting(s)
    <3>1. phase'[s] # "succeeded"
      BY <2>2 DEF StartStep, EndSubtasks, RouteRaises, StepCancelled, TypeOK
    <3>2. \A t \in Step : OutEdges(t)' = OutEdges(t)
      BY <1>1 DEF OutEdges
    <3>3. QED
      BY <1>1, <1>2, <3>1, <3>2 DEF VerdictInv, UnconditionalInv
  <2>3. QED
    BY <2>1, <2>2
<1>6. JoinedInv'
  BY <1>1, <1>2 DEF VerdictInv, JoinedInv, TypeOK
<1>7. FailureHasCause'
  BY <1>1, <1>2 DEF VerdictInv, FailureHasCause, TypeOK
<1>8. QED
  BY <1>1, <1>3, <1>4, <1>5, <1>6, <1>7 DEF VerdictInv, Queued

LEMMA JoinVerdict ==
    ASSUME TypeOK, SchedInv, VerdictInv, JoinWave
    PROVE  VerdictInv'
<1> DEFINE good == {s \in wave : phase[s] = "succeeded"}
<1>1. /\ run = "running" /\ WaveOver /\ wave' = {}
      /\ UNCHANGED <<workflow, executed, launches, stepVars>>
      /\ run' \in {"running", "cancelled"}
  BY DEF JoinWave
<1>2. PICK S \in SUBSET good : Activate(S)
  BY DEF JoinWave
<1>3. \A s \in Step : OutEdges(s)' = OutEdges(s)
  BY <1>1 DEF OutEdges
<1>4. ValidInv'
  BY <1>1, <1>2 DEF VerdictInv, ValidInv, Activate
<1>5. CauseInv'
  <2>1. ASSUME NEW t \in Targets(S)
        PROVE  \E p \in Preds(workflow.edges, t) :
                  phase[p] = "succeeded" /\ t \in routed[p]
    <3>1. PICK p \in S : t \in routed[p]
      BY <2>1 DEF Targets
    <3>2. p \in Step /\ <<p, t>> \in workflow.edges
      BY <3>1 DEF TypeOK, SchedInv, RoutesFollowEdges
    <3>3. p # t
      BY <1>1, <3>2 DEF VerdictInv, ValidInv, Valid
    <3>4. QED
      BY <3>1, <3>2, <3>3 DEF Preds
  <2>2. QED
    BY <1>1, <1>2, <2>1 DEF VerdictInv, CauseInv, Activate, stepVars
<1>6. UnconditionalInv'
  BY <1>1, <1>3 DEF VerdictInv, UnconditionalInv, stepVars
<1>7. CASE wave = good
  <2>1. Activate(wave) /\ run' = run /\ failure' = failure
    BY <1>7 DEF JoinWave
  <2>2. JoinedInv'
    BY <1>1, <1>7, <2>1
    DEF VerdictInv, JoinedInv, Activate, Targets, stepVars
  <2>3. FailureHasCause'
    BY <1>1, <2>1 DEF VerdictInv, FailureHasCause, stepVars
  <2>4. QED
    BY <1>1, <1>4, <1>5, <1>6, <2>2, <2>3 DEF VerdictInv
<1>8. CASE wave # good
  <2>1. PICK first \in wave \ good :
           /\ failure' = (phase[first] # "cancelled")
           /\ run' = IF phase[first] = "cancelled" THEN "cancelled" ELSE run
    BY <1>8 DEF JoinWave
  <2>2. phase[first] \in {"failed", "raised", "cancelled"}
    BY <1>1, <2>1 DEF WaveOver, Over
  <2>3. first \in executed
    BY <2>1 DEF SchedInv, QueueInv
  <2>4. JoinedInv' /\ FailureHasCause'
    BY <1>1, <2>1, <2>2, <2>3 DEF JoinedInv, FailureHasCause, stepVars
  <2>5. QED
    BY <1>1, <1>4, <1>5, <1>6, <2>4 DEF VerdictInv
<1>9. QED
  BY <1>7, <1>8

LEMMA VerdictInvStep ==
    TypeOK /\ SchedInv /\ VerdictInv /\ [Next]_vars => VerdictInv'
<1> SUFFICES ASSUME TypeOK, SchedInv, VerdictInv, [Next]_vars
             PROVE  VerdictInv'
  OBVIOUS
<1>1. CASE Begin
  <2>1. CASE Valid(workflow)
    <3>1. /\ run' = "running" /\ activated' = Roots(workflow.edges)
          /\ UNCHANGED <<workflow, executed, wave, failure, stepVars>>
      BY <1>1, <2>1 DEF Begin, BeginIf
    <3>2. executed = {}
      BY <1>1 DEF Begin, BeginIf, SchedInv, QueueInv
    <3>3. \A s \in Step : OutEdges(s)' = OutEdges(s)
      BY <3>1 DEF OutEdges
    <3>4. QED
      BY <2>1, <3>1, <3>2, <3>3 DEF VerdictInv, ValidInv, CauseInv,
         UnconditionalInv, JoinedInv, FailureHasCause, stepVars
  <2>2. CASE ~Valid(workflow)
    <3>1. /\ run' = "rejected" /\ run = "new"
          /\ UNCHANGED <<workflow, schedulerVars, stepVars>>
      BY <1>1, <2>2 DEF Begin, BeginIf, schedulerVars
    <3>2. \A s \in Step : OutEdges(s)' = OutEdges(s)
      BY <3>1 DEF OutEdges
    <3>3. QED
      BY <3>1, <3>2 DEF VerdictInv, ValidInv, CauseInv, UnconditionalInv,
         JoinedInv, FailureHasCause, stepVars, schedulerVars
  <2>3. QED
    BY <2>1, <2>2
<1>2. CASE LaunchWave
  <2>1. Ready # {}
    BY <1>2, SomethingIsReady DEF LaunchWave
  <2>2. /\ run = "running" /\ run' = "running" /\ wave = {} /\ wave' = Ready
        /\ ~failure /\ failure' = FALSE
        /\ executed' = executed \cup Ready
        /\ UNCHANGED <<workflow, activated, routed>>
        /\ \A s \in Step \ Ready : phase'[s] = phase[s]
        /\ \A s \in Ready : phase'[s] = "queued"
    BY <1>2, <2>1, ReadyType DEF LaunchWave
  <2>3. \A s \in Ready : phase[s] = "idle"
    BY ReadyType DEF Ready, Fresh, SchedInv, PhaseInv
  <2>4. \A s \in Step : OutEdges(s)' = OutEdges(s)
    BY <2>2 DEF OutEdges
  <2>5. ValidInv' /\ FailureHasCause'
    BY <2>2 DEF VerdictInv, ValidInv, FailureHasCause
  <2>6. CauseInv'
    BY <2>2, <2>3 DEF VerdictInv, CauseInv, Preds
  <2>7. UnconditionalInv'
    BY <2>2, <2>4 DEF VerdictInv, UnconditionalInv
  <2>8. JoinedInv'
    BY <2>2 DEF VerdictInv, JoinedInv, TypeOK
  <2>9. QED
    BY <2>2, <2>5, <2>6, <2>7, <2>8 DEF VerdictInv
<1>3. ASSUME NEW s \in Step,
             StepProgress(s) \/ RouteRaises(s) \/ StepCancelled(s)
      PROVE  VerdictInv'
  BY <1>3, StepVerdict DEF StepProgress
<1>4. CASE JoinWave
  BY <1>4, JoinVerdict
<1>5. CASE Complete \/ Cancel \/ EndCancel \/ Terminated \/ UNCHANGED vars
  <2>1. /\ UNCHANGED <<workflow, pending, activated, executed, failure, stepVars>>
        /\ run' # run => run' \in {"succeeded", "failed", "cancelling", "cancelled"}
        /\ run' # run => run \in {"running", "cancelling"}
        /\ run' = "running" => wave' = wave
    BY <1>5 DEF Complete, Cancel, EndCancel, Terminated, vars, schedulerVars
  <2>2. run' = "succeeded" =>
           /\ wave' = wave
           /\ run # "succeeded" => run = "running" /\ ~failure /\ wave = {}
                                   /\ Queued = {}
    BY <1>5 DEF Complete, Cancel, EndCancel, Terminated, vars, schedulerVars,
       TypeOK
  <2>3. Queued' = Queued /\ \A s \in Step : OutEdges(s)' = OutEdges(s)
    BY <2>1 DEF Queued, OutEdges
  <2>4. ValidInv' /\ CauseInv' /\ UnconditionalInv' /\ FailureHasCause'
    BY <2>1, <2>3 DEF VerdictInv, ValidInv, CauseInv, UnconditionalInv,
       FailureHasCause, stepVars
  <2>5. JoinedInv'
    BY <2>1, <2>2 DEF VerdictInv, JoinedInv, stepVars
  <2>6. QED
    BY <2>1, <2>2, <2>3, <2>4, <2>5 DEF VerdictInv
<1>6. QED
  BY <1>1, <1>2, <1>3, <1>4, <1>5 DEF Next

LEMMA Verdicts == Spec => []VerdictInv
<1>1. Init => VerdictInv
  BY DEF Init, VerdictInv, ValidInv, CauseInv, UnconditionalInv, JoinedInv,
     FailureHasCause, Queued
<1>2. QED
  BY <1>1, VerdictInvStep, TypeCorrect, Scheduling, PTL DEF Spec

(***************************************************************************)
(* A failure always comes from a step: on a valid workflow, of any size,   *)
(* the scheduler never reports a dependency deadlock.                      *)
(***************************************************************************)
THEOREM FailuresHaveCauses == Spec => []FailureHasCause
<1>1. VerdictInv => FailureHasCause
  BY DEF VerdictInv
<1>2. QED
  BY <1>1, Verdicts, PTL

(* A step other than a root runs only if it was routed to.                 *)
THEOREM StepsRunOnlyIfRouted == Spec => []RunsOnlyIfRouted
<1>1. SchedInv /\ VerdictInv => RunsOnlyIfRouted
  BY DEF SchedInv, QueueInv, VerdictInv, CauseInv, RunsOnlyIfRouted
<1>2. QED
  BY <1>1, Verdicts, Scheduling, PTL

(* Steps are handed out as they were routed to, and once.                  *)
THEOREM LaunchesFollowRoutes == Spec => []LaunchedAsRouted
  BY StepsLaunchOnce, StepsRunOnlyIfRouted, PTL DEF LaunchedAsRouted

(* A successful verdict leaves no work behind.                             *)
THEOREM SuccessesAreComplete == Spec => []SuccessIsComplete
<1>1. ASSUME TypeOK, SchedInv, VerdictInv, run = "succeeded"
      PROVE  SuccessIsComplete
  <2>1. activated = executed /\ wave = {}
    BY <1>1 DEF SchedInv, QueueInv, VerdictInv
  <2>2. Roots(workflow.edges) \subseteq executed
    BY <1>1, <2>1 DEF VerdictInv, ValidInv
  <2>3. ASSUME NEW s \in executed
        PROVE  /\ phase[s] = "succeeded"
               /\ routed[s] \subseteq executed
               /\ \A e \in OutEdges(s) \ workflow.conditional :
                     e[2] \in executed \cup {EndNode}
    <3>1. phase[s] = "succeeded" /\ routed[s] \subseteq executed
      BY <1>1, <2>1 DEF VerdictInv, JoinedInv
    <3>2. QED
      BY <1>1, <3>1 DEF VerdictInv, UnconditionalInv, TypeOK
  <2>4. QED
    BY <2>2, <2>3 DEF SuccessIsComplete
<1>2. TypeOK /\ SchedInv /\ VerdictInv => SuccessIsComplete
  BY <1>1 DEF SuccessIsComplete
<1>3. QED
  BY <1>2, Verdicts, Scheduling, TypeCorrect, PTL

-----------------------------------------------------------------------------
(* Once a failure is on record, or the run is over, nothing starts.        *)
THEOREM FailuresStopTheRun == Spec => NothingStartsAfterFailure
<1> DEFINE Quiet ==
      failure \/ run \notin {"new", "running"} =>
          /\ executed' = executed
          /\ \A s \in Step : phase'[s] = "tasks" => phase[s] = "tasks"
    Quieted == run \in {"new", "running"} => (failure => wave = {})
    QueuedInWave == \A s \in Step :
      phase[s] = "queued" /\ run \in {"new", "running"} => s \in wave
    Inv == TypeOK /\ SchedInv /\ Quieted /\ QueuedInWave
<1>1. Init => Quieted /\ QueuedInWave
  BY DEF Init
<1>2. Inv /\ [Next]_vars => Quieted' /\ QueuedInWave'
  <2> SUFFICES ASSUME Inv, [Next]_vars
               PROVE  Quieted' /\ QueuedInWave'
    OBVIOUS
  <2>1. CASE Begin
    BY <2>1 DEF Begin, BeginIf, stepVars
  <2>2. CASE LaunchWave
    BY <2>2 DEF LaunchWave, TypeOK
  <2>3. ASSUME NEW s \in Step,
               StepProgress(s) \/ RouteRaises(s) \/ StepCancelled(s)
        PROVE  Quieted' /\ QueuedInWave'
    <3>1. /\ UNCHANGED <<run, wave, failure>>
          /\ \A t \in Step : phase'[t] = "queued" => phase[t] = "queued"
      BY <2>3 DEF StepProgress, StartStep, EndSubtasks, EndRouting, RouteRaises,
         StepCancelled, SetPhase, schedulerVars, TypeOK
    <3>2. QED
      BY <3>1
  <2>4. CASE JoinWave
    <3>1. wave' = {} /\ phase' = phase /\ run = "running"
      BY <2>4 DEF JoinWave, stepVars
    <3>2. \A s \in Step : phase[s] # "queued"
      BY <2>4, <3>1 DEF JoinWave, WaveOver, Over
    <3>3. QED
      BY <3>1, <3>2
  <2>5. CASE Complete \/ Cancel \/ EndCancel \/ Terminated \/ UNCHANGED vars
    BY <2>5 DEF Complete, Cancel, EndCancel, Terminated, vars, schedulerVars,
       stepVars
  <2>6. QED
    BY <2>1, <2>2, <2>3, <2>4, <2>5 DEF Next
<1>3. Inv /\ [Next]_vars => [Quiet]_vars
  <2> SUFFICES ASSUME Inv, Next, failure \/ run \notin {"new", "running"}
               PROVE  /\ executed' = executed
                      /\ \A s \in Step : phase'[s] = "tasks" => phase[s] = "tasks"
    OBVIOUS
  <2>1. CASE Begin
    BY <2>1 DEF Begin, BeginIf, stepVars
  <2>2. CASE LaunchWave
    BY <2>2 DEF LaunchWave
  <2>3. ASSUME NEW s \in Step,
               StepProgress(s) \/ RouteRaises(s) \/ StepCancelled(s)
        PROVE  /\ executed' = executed
               /\ \A t \in Step : phase'[t] = "tasks" => phase[t] = "tasks"
    <3>1. ~StartStep(s)
      BY DEF StartStep
    <3>2. QED
      BY <2>3, <3>1 DEF StepProgress, EndSubtasks, EndRouting, RouteRaises,
         StepCancelled, SetPhase, schedulerVars, TypeOK
  <2>4. CASE JoinWave
    BY <2>4 DEF JoinWave, stepVars
  <2>5. CASE Complete \/ Cancel \/ EndCancel \/ Terminated
    BY <2>5 DEF Complete, Cancel, EndCancel, Terminated, vars, schedulerVars,
       stepVars
  <2>6. QED
    BY <2>1, <2>2, <2>3, <2>4, <2>5 DEF Next
<1>4. QED
  BY <1>1, <1>2, <1>3, TypeCorrect, Scheduling, PTL
  DEF Spec, NothingStartsAfterFailure

-----------------------------------------------------------------------------
(* The instance reads the graph as the executor does.                      *)
LEMMA SameGraph ==
    ASSUME NEW E, NEW t
    PROVE  /\ Order!Preds(E, t) = Preds(E, t)
           /\ Order!Ancestors(E, t) = Ancestors(E, t)
<1>1. \A x : Order!Preds(E, x) = Preds(E, x)
  BY DEF Preds, Order!Preds
<1>2. \A S : Order!ClosedFrom(E, t, S) <=> ClosedFrom(E, t, S)
  BY <1>1 DEF ClosedFrom, Order!ClosedFrom
<1>3. QED
  BY <1>1, <1>2 DEF Ancestors, Order!Ancestors

(* Every step of the executor is a step of StepOrder, or none.             *)
LEMMA StepRefines ==
    ASSUME TypeOK, SchedInv, VerdictInv, [Next]_vars
    PROVE  [Order!Next]_(Order!vars)
<1> USE DEF Final, Order!vars
<1>1. CASE Begin
  <2>1. CASE Valid(workflow)
    BY <1>1, <2>1 DEF Begin, BeginIf, stepVars
  <2>2. CASE ~Valid(workflow)
    <3>1. Order!Conclude("rejected")
      BY <1>1, <2>2 DEF Begin, BeginIf, stepVars, Order!Conclude, SchedInv, QueueInv
    <3>2. QED
      BY <3>1 DEF Order!Next, Order!Verdicts
  <2>3. QED
    BY <2>1, <2>2
<1>2. CASE LaunchWave
  <2>1. Ready # {}
    BY <1>2, SomethingIsReady DEF LaunchWave
  <2>2. ASSUME NEW s \in Ready
        PROVE  /\ Order!MayLaunch(s)
               /\ Ancestors(workflow.edges, s) \cap Ready = {}
    <3>1. /\ s \in Step /\ s \in Queued /\ s \notin executed
          /\ Anc(s) \cap activated \subseteq step_outputs
      BY ReadyType DEF Ready, Fresh
    <3>2. Ancestors(workflow.edges, s) \cap executed \subseteq step_outputs
      BY <3>1 DEF SchedInv, QueueInv, Anc
    <3>3. \A t \in executed : s \notin Ancestors(workflow.edges, t)
      BY <3>1 DEF SchedInv, MergeSafe, Anc
    <3>4. Preds(workflow.edges, s) = {}
            \/ Preds(workflow.edges, s) \cap step_outputs # {}
      <4>1. CASE s \in Roots(workflow.edges)
        BY <4>1 DEF Roots
      <4>2. CASE s \notin Roots(workflow.edges)
        <5>1. PICK p \in Preds(workflow.edges, s) : phase[p] = "succeeded"
          BY <3>1, <4>2 DEF VerdictInv, CauseInv, SchedInv, QueueInv
        <5>2. p \in step_outputs
          BY <5>1 DEF SchedInv, PhaseInv, Preds
        <5>3. QED
          BY <5>2
      <4>3. QED
        BY <4>1, <4>2
    <3>5. Ancestors(workflow.edges, s) \cap Ready = {}
      BY <3>1 DEF Ready, Fresh, Anc, SchedInv, QueueInv
    <3>6. QED
      BY <3>1, <3>2, <3>3, <3>4, <3>5, SameGraph DEF Order!MayLaunch
  <2>3. Order!Launch(Ready)
    BY <1>2, <2>1, <2>2, SameGraph DEF LaunchWave, Order!Launch
  <2>4. QED
    BY <2>3, ReadyType DEF Order!Next
<1>3. ASSUME NEW s \in Step, EndSubtasks(s)
      PROVE  [Order!Next]_(Order!vars)
  <2>1. CASE s \in step_outputs
    BY <1>3, <2>1 DEF EndSubtasks, schedulerVars
  <2>2. CASE s \notin step_outputs
    <3>1. s \in executed
      BY <1>3 DEF EndSubtasks, SchedInv, PhaseInv
    <3>2. Order!Record(s)
      BY <1>3, <2>2, <3>1 DEF EndSubtasks, schedulerVars, Order!Record
    <3>3. QED
      BY <3>2 DEF Order!Next
  <2>3. QED
    BY <2>1, <2>2
<1>4. ASSUME NEW s \in Step,
             StartStep(s) \/ EndRouting(s) \/ RouteRaises(s) \/ StepCancelled(s)
      PROVE  [Order!Next]_(Order!vars)
  BY <1>4 DEF StartStep, EndRouting, RouteRaises, StepCancelled, schedulerVars
<1>5. CASE JoinWave
  <2>1. /\ run = "running" /\ run' \in {"running", "cancelled"}
        /\ UNCHANGED <<workflow, executed, stepVars>>
    BY <1>5 DEF JoinWave
  <2>2. CASE run' = "running"
    BY <2>1, <2>2 DEF stepVars
  <2>3. CASE run' = "cancelled"
    <3>1. Order!Conclude("cancelled")
      BY <2>1, <2>3 DEF stepVars, Order!Conclude
    <3>2. QED
      BY <3>1 DEF Order!Next, Order!Verdicts
  <2>4. QED
    BY <2>1, <2>2, <2>3
<1>6. CASE Complete
  <2>1. run' \in {"failed", "succeeded"}
        /\ UNCHANGED <<workflow, executed, step_outputs>> /\ run = "running"
    BY <1>6 DEF Complete, schedulerVars, stepVars
  <2>2. run' = "succeeded" => executed = step_outputs
    BY <1>6 DEF Complete, VerdictInv, JoinedInv, SchedInv, QueueInv, PhaseInv,
       TypeOK
  <2>3. Order!Conclude(run')
    BY <2>1, <2>2 DEF Order!Conclude
  <2>4. QED
    BY <2>1, <2>3 DEF Order!Next, Order!Verdicts
<1>7. CASE EndCancel
  <2>1. Order!Conclude("cancelled")
    BY <1>7 DEF EndCancel, stepVars, Order!Conclude
  <2>2. QED
    BY <2>1 DEF Order!Next, Order!Verdicts
<1>8. CASE Cancel \/ Terminated \/ UNCHANGED vars
  BY <1>8 DEF Cancel, Terminated, vars, schedulerVars, stepVars
<1>9. QED
  BY <1>1, <1>2, <1>3, <1>4, <1>5, <1>6, <1>7, <1>8 DEF Next, StepProgress

(* The wave scheduler implements the ordered execution StepOrder.          *)
THEOREM ExecutorImplementsStepOrder == Spec => OrderSpec
<1>1. ASSUME Init
      PROVE  Order!Init
  <2>1. workflow \in Workflow
    BY <1>1, WorkflowsAssumption DEF Init
  <2>2. workflow.edges \in SUBSET Order!Edges
    BY <2>1 DEF Workflow, Edges, Order!Edges
  <2>3. QED
    BY <1>1, <2>2 DEF Init, Order!Init, Final
<1>2. QED
  BY <1>1, StepRefines, TypeCorrect, Scheduling, Verdicts, PTL
  DEF Spec, OrderSpec, Order!Spec

-----------------------------------------------------------------------------
(***************************************************************************)
(* StepPhase is the contract between the scheduler and its steps, which    *)
(* StepExecution implements.                                               *)
(***************************************************************************)

(* What one step of the executor may do, seen through StepPhase.            *)
StepAction(s) == StepProgress(s) \/ RouteRaises(s) \/ StepCancelled(s)

(* A step of s alone: the rest of the executor waits, and s is given its    *)
(* input window when it begins.                                            *)
Alone(s) ==
    /\ UNCHANGED <<workflow, run, schedulerVars>>
    /\ \E p \in Phases : phase' = [phase EXCEPT ![s] = p]
    /\ step_outputs' \in {step_outputs, step_outputs \cup {s}}
    /\ \E R \in SUBSET Step : routed' = [routed EXCEPT ![s] = R]
    /\ context' = IF phase[s] = "queued" /\ phase'[s] = "tasks"
                    THEN [context EXCEPT ![s] = Anc(s) \cap step_outputs] ELSE context

LEMMA EdgesLeadOn ==
    ASSUME TypeOK, NEW s \in Step
    PROVE  \A e \in OutEdges(s) : e[2] \in Step \cup {EndNode}
  BY DEF OutEdges, TypeOK, Workflow, Edges

LEMMA StepActionMoves ==
    ASSUME TypeOK, NEW s \in Step, StepAction(s)
    PROVE  Handed(s)!Move /\ Alone(s)
<1> USE DEF Handed!edgeVars, Handed!Move, SetPhase, Phases
<1>0. /\ phase \in [Step -> Phases] /\ routed \in [Step -> SUBSET Step]
      /\ \A p : [phase EXCEPT ![s] = p][s] = p
      /\ [routed EXCEPT ![s] = routed[s]] = routed
      /\ UNCHANGED routed => \E R \in SUBSET Step : routed' = [routed EXCEPT ![s] = R]
  BY DEF TypeOK
<1>1. CASE StartStep(s)
  <2>1. phase' = [phase EXCEPT ![s] = "tasks"] /\ phase'[s] = "tasks" /\ phase[s] = "queued"
    BY <1>0, <1>1 DEF StartStep
  <2>2. Handed(s)!Start
    BY <2>1, <1>1 DEF StartStep, Handed!Start, OutEdges
  <2>3. Alone(s)  BY <1>0, <1>1, <2>1 DEF StartStep, Alone
  <2>4. QED  BY <2>2, <2>3
<1>2. CASE EndSubtasks(s)
  <2>1. PICK p \in {"routing", "failed"} : phase' = [phase EXCEPT ![s] = p]
    BY <1>2 DEF EndSubtasks
  <2>2. phase'[s] = p  BY <1>0, <2>1
  <2>3. Handed(s)!Record
    BY <2>1, <2>2, <1>2 DEF EndSubtasks, Handed!Record, OutEdges
  <2>4. Alone(s)  BY <1>0, <1>2, <2>1, <2>2 DEF EndSubtasks, Alone
  <2>5. QED  BY <2>3, <2>4
<1>3. CASE EndRouting(s)
  <2>1. PICK denied \in SUBSET (OutEdges(s) \cap workflow.conditional) :
          routed' = [routed EXCEPT ![s] = {e[2] : e \in OutEdges(s) \ denied} \ {EndNode}]
    BY <1>3 DEF EndRouting
  <2> DEFINE R == {e[2] : e \in OutEdges(s) \ denied} \ {EndNode}
  <2>2. routed' = [routed EXCEPT ![s] = R] /\ routed'[s] = R
    BY <1>0, <2>1
  <2>r. R = {e[2] : e \in OutEdges(s) \ denied} \ {EndNode}
    OBVIOUS
  <2> HIDE DEF R
  <2>3. /\ R \in SUBSET Step
        /\ {e[2] : e \in OutEdges(s) \ workflow.conditional} \ {EndNode} \subseteq R
        /\ R \subseteq {e[2] : e \in OutEdges(s)} \ {EndNode}
        /\ OutEdges(s) \cap workflow.conditional = {} =>
              R = {e[2] : e \in OutEdges(s)} \ {EndNode}
    <3>1. \A e \in OutEdges(s) : e[2] \in Step \cup {EndNode}
      BY EdgesLeadOn
    <3>2. QED  BY <2>r, <3>1
  <2>4. phase' = [phase EXCEPT ![s] = "succeeded"] /\ phase'[s] = "succeeded"
    BY <1>0, <1>3 DEF EndRouting
  <2>5. Handed(s)!Route
    <3>1. /\ run = "running" /\ phase[s] = "routing"
          /\ UNCHANGED <<workflow, run, schedulerVars, step_outputs, context>>
      BY <1>3 DEF EndRouting
    <3>2. UNCHANGED OutEdges(s)  BY <3>1 DEF OutEdges
    <3>3. QED  BY <2>2, <2>3, <2>4, <3>1, <3>2 DEF Handed!Route
  <2>6. Alone(s)  BY <1>3, <2>2, <2>3, <2>4 DEF EndRouting, Alone
  <2>7. QED  BY <2>5, <2>6
<1>4. CASE RouteRaises(s)
  <2>1. phase' = [phase EXCEPT ![s] = "raised"] /\ phase'[s] = "raised"
    BY <1>0, <1>4 DEF RouteRaises
  <2>2. Handed(s)!Fail
    BY <2>1, <1>4 DEF RouteRaises, Handed!Fail, OutEdges
  <2>3. Alone(s)  BY <1>0, <1>4, <2>1 DEF RouteRaises, Alone
  <2>4. QED  BY <2>2, <2>3
<1>5. CASE StepCancelled(s)
  <2>1. phase' = [phase EXCEPT ![s] = "cancelled"] /\ phase'[s] = "cancelled"
    BY <1>0, <1>5 DEF StepCancelled
  <2>2. Handed(s)!Cancel
    BY <2>1, <1>5 DEF StepCancelled, Handed!Cancel, Handed!Over, OutEdges
  <2>3. Alone(s)  BY <1>0, <1>5, <2>1 DEF StepCancelled, Alone
  <2>4. QED  BY <2>2, <2>3
<1>6. QED  BY <1>1, <1>2, <1>3, <1>4, <1>5 DEF StepAction, StepProgress

LEMMA MovesAreStepActions ==
    ASSUME TypeOK, NEW s \in Step, phase[s] # "idle", run \in {"running", "cancelling"},
           Handed(s)!Move, Alone(s)
    PROVE  StepAction(s)
<1> USE DEF Handed!edgeVars, SetPhase
<1>0. PICK p \in Phases, R \in SUBSET Step :
          phase' = [phase EXCEPT ![s] = p] /\ routed' = [routed EXCEPT ![s] = R]
  BY DEF Alone
<1>1. /\ phase'[s] = p /\ routed'[s] = R /\ phase[s] \in Phases
      /\ [routed EXCEPT ![s] = routed[s]] = routed
  BY <1>0 DEF TypeOK
<1>2. /\ UNCHANGED <<workflow, run, schedulerVars>> /\ UNCHANGED OutEdges(s)
      /\ step_outputs' \in {step_outputs, step_outputs \cup {s}}
      /\ context' = IF phase[s] = "queued" /\ p = "tasks"
                      THEN [context EXCEPT ![s] = Anc(s) \cap step_outputs] ELSE context
  BY <1>1 DEF Alone, OutEdges
<1>3. (s \in step_outputs)' = (s \in step_outputs) => UNCHANGED step_outputs
  BY <1>2
<1>4. UNCHANGED routed[s] => UNCHANGED routed
  BY <1>0, <1>1
<1>5. CASE Handed(s)!Start
  <2>1. run = "running" /\ phase[s] = "queued" /\ p = "tasks" /\ UNCHANGED <<step_outputs, routed>>
    BY <1>1, <1>2, <1>3, <1>4, <1>5 DEF Handed!Start
  <2>2. StartStep(s)  BY <1>0, <1>2, <2>1 DEF StartStep
  <2>3. QED  BY <2>2 DEF StepAction, StepProgress
<1>6. CASE Handed(s)!Record
  <2>1. /\ run = "running" /\ phase[s] = "tasks" /\ p \in {"routing", "failed"}
        /\ UNCHANGED routed /\ s \in step_outputs'
    BY <1>1, <1>2, <1>4, <1>6 DEF Handed!Record
  <2>2. step_outputs' = step_outputs \cup {s} /\ UNCHANGED context
    BY <1>2, <2>1
  <2>3. EndSubtasks(s)  BY <1>0, <1>2, <2>1, <2>2 DEF EndSubtasks
  <2>4. QED  BY <2>3 DEF StepAction, StepProgress
<1>7. CASE Handed(s)!Route
  <2>1. /\ run = "running" /\ phase[s] = "routing" /\ p = "succeeded"
        /\ UNCHANGED <<step_outputs, context>>
    BY <1>1, <1>2, <1>3, <1>7 DEF Handed!Route
  <2>2. /\ {e[2] : e \in OutEdges(s) \ workflow.conditional} \ {EndNode} \subseteq R
        /\ R \subseteq {e[2] : e \in OutEdges(s)} \ {EndNode}
    BY <1>1, <1>7 DEF Handed!Route
  <2> DEFINE denied == {e \in OutEdges(s) \cap workflow.conditional : e[2] \notin R}
  <2>3. R = {e[2] : e \in OutEdges(s) \ denied} \ {EndNode}
    <3>1. \A t \in R : \E e \in OutEdges(s) \ denied : t = e[2]  BY <2>2
    <3>2. \A e \in OutEdges(s) \ denied : e[2] \in R \/ e[2] = EndNode  BY <2>2
    <3>3. EndNode \notin R  BY EndNodeAssumption
    <3>4. QED  BY <3>1, <3>2, <3>3
  <2>4. denied \in SUBSET (OutEdges(s) \cap workflow.conditional)
    OBVIOUS
  <2> HIDE DEF denied
  <2>5. EndRouting(s)  BY <1>0, <1>2, <2>1, <2>3, <2>4 DEF EndRouting
  <2>6. QED  BY <2>5 DEF StepAction, StepProgress
<1>8. CASE Handed(s)!Fail
  <2>1. /\ run = "running" /\ phase[s] = "routing" /\ p = "raised"
        /\ UNCHANGED <<step_outputs, context, routed>>
        /\ OutEdges(s) \cap workflow.conditional # {}
    BY <1>1, <1>2, <1>3, <1>4, <1>8 DEF Handed!Fail
  <2>2. RouteRaises(s)  BY <1>0, <1>2, <2>1 DEF RouteRaises
  <2>3. QED  BY <2>2 DEF StepAction
<1>9. CASE Handed(s)!Cancel
  <2>1. /\ phase[s] \in {"queued", "tasks", "routing"} /\ p = "cancelled"
        /\ run = "cancelling" \/ phase[s] = "tasks"
             \/ (phase[s] = "routing" /\ OutEdges(s) \cap workflow.conditional # {})
        /\ UNCHANGED <<step_outputs, context, routed>>
    BY <1>1, <1>2, <1>3, <1>4, <1>9 DEF Handed!Cancel, Handed!Over, Phases
  <2>2. StepCancelled(s)  BY <1>0, <1>2, <2>1 DEF StepCancelled
  <2>3. QED  BY <2>2 DEF StepAction
<1>10. QED  BY <1>5, <1>6, <1>7, <1>8, <1>9 DEF Handed!Move

(***************************************************************************)
(* While a wave is in flight, what a step may do to the executor is what   *)
(* StepPhase allows, neither less nor more.                                *)
(***************************************************************************)
THEOREM StepActionsArePhaseMoves ==
    ASSUME TypeOK, NEW s \in Step, phase[s] # "idle", run \in {"running", "cancelling"}
    PROVE  StepAction(s) <=> Handed(s)!Move /\ Alone(s)
  BY StepActionMoves, MovesAreStepActions

-----------------------------------------------------------------------------
LEMMA OthersPause ==
    ASSUME TypeOK, NEW s \in Step, NEW t \in Step, s # t, Alone(t)
    PROVE  UNCHANGED Handed(s)!vars
<1>1. PICK p \in Phases, R \in SUBSET Step :
          phase' = [phase EXCEPT ![t] = p] /\ routed' = [routed EXCEPT ![t] = R]
  BY DEF Alone
<1>2. UNCHANGED <<phase[s], routed[s], workflow, run>>
  BY <1>1 DEF TypeOK, Alone
<1>3. (s \in step_outputs)' = (s \in step_outputs)
  BY DEF Alone
<1>4. QED  BY <1>2, <1>3 DEF Handed!vars, Handed!edgeVars, OutEdges

LEMMA HandedStep ==
    ASSUME TypeOK, SchedInv, [Next]_vars, NEW s \in Step
    PROVE  Handed(s)!Next \/ UNCHANGED Handed(s)!vars
<1> USE DEF Handed!vars, Handed!edgeVars
<1>1. CASE Begin
  BY <1>1 DEF Begin, BeginIf, stepVars, OutEdges
<1>2. CASE LaunchWave
  <2>1. phase'[s] = phase[s] \/ (phase[s] = "idle" /\ phase'[s] = "queued")
    BY <1>2 DEF LaunchWave, Ready, Fresh, SchedInv, PhaseInv, TypeOK
  <2>2. QED  BY <1>2, <2>1 DEF LaunchWave, OutEdges
<1>3. ASSUME NEW t \in Step, StepAction(t)
      PROVE  Handed(s)!Next \/ UNCHANGED Handed(s)!vars
  <2>1. CASE t = s  BY <1>3, <2>1, StepActionMoves DEF Handed!Next
  <2>2. CASE t # s  BY <1>3, <2>2, StepActionMoves, OthersPause
  <2>3. QED  BY <2>1, <2>2
<1>4. CASE JoinWave
  <2>1. /\ run = "running" /\ run' \in {"running", "cancelled"}
        /\ UNCHANGED <<workflow, stepVars>>
    BY <1>4 DEF JoinWave
  <2>2. UNCHANGED OutEdges(s)  BY <2>1 DEF OutEdges
  <2>3. CASE run' = "cancelled"
    BY <2>1, <2>2, <2>3 DEF stepVars, Handed!Next, Handed!Stop
  <2>4. QED  BY <2>1, <2>2, <2>3 DEF stepVars
<1>5. CASE Cancel
  <2>1. UNCHANGED OutEdges(s)  BY <1>5 DEF Cancel, OutEdges
  <2>2. QED  BY <1>5, <2>1 DEF Cancel, stepVars, Handed!Next, Handed!Stop
<1>6. CASE Complete \/ EndCancel \/ Terminated \/ UNCHANGED vars
  BY <1>6 DEF Complete, EndCancel, Terminated, vars, schedulerVars, stepVars, OutEdges
<1>7. QED
  BY <1>1, <1>2, <1>3, <1>4, <1>5, <1>6 DEF Next, StepAction

(* Every step of every workflow keeps to StepPhase: none is handed out a   *)
(* second time, and none reports after it was told to stop.                *)
THEOREM StepsKeepToTheirPhase == Spec => StepsKeepPhase
<1>1. Init => \A s \in Step : Handed(s)!Init
  <2> SUFFICES ASSUME Init, NEW s \in Step PROVE Handed(s)!Init
    OBVIOUS
  <2>1. workflow \in Workflow  BY WorkflowsAssumption DEF Init
  <2>2. \A e \in OutEdges(s) : e[2] \in Step \cup {EndNode}
    BY <2>1 DEF OutEdges, Workflow, Edges
  <2>3. QED  BY <2>2 DEF Init, Handed!Init
<1>2. TypeOK /\ SchedInv /\ [Next]_vars =>
         [\A s \in Step : Handed(s)!Next \/ UNCHANGED Handed(s)!vars]_vars
  BY HandedStep
<1>3. QED
  BY <1>1, <1>2, TypeCorrect, Scheduling, PTL DEF Spec, StepsKeepPhase
=============================================================================
