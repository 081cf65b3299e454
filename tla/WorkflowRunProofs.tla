-------------------------- MODULE WorkflowRunProofs --------------------------
(***************************************************************************)
(* Theorems about WorkflowRun for every finite set of steps and every      *)
(* graph: the loops of the validator compute what WorkflowDag defines.     *)
(***************************************************************************)
EXTENDS WorkflowRun, WorkflowExecutorProofs, FiniteSetTheorems

(***************************************************************************)
(* Lemmas about WorkflowDag.                                               *)
(***************************************************************************)

(* A set that the predecessors of t cannot leave holds the ancestors of t.  *)
LEMMA AncestorsAreLeast ==
    ASSUME NEW E, NEW t \in Step, NEW S \in SUBSET Step, ClosedFrom(E, t, S)
    PROVE  Ancestors(E, t) \subseteq S
  BY DEF Ancestors

(***************************************************************************)
(* Of a workflow without a cycle every step is reached from the roots: the *)
(* reachability pass finds an error only where there is a cycle.           *)
(***************************************************************************)
THEOREM RootsReachEveryStep ==
    ASSUME NEW E, Acyclic(E), NEW R \in SUBSET Step, Roots(E) \subseteq R,
           \A s \in R : Successors(E, s) \subseteq R
    PROVE  R = Step
<1>1. SUFFICES ASSUME Step \ R # {} PROVE FALSE
  OBVIOUS
<1>2. PICK s \in Step \ R : Preds(E, s) \cap (Step \ R) = {}
  BY <1>1 DEF Acyclic
<1>3. Preds(E, s) # {}
  BY <1>2 DEF Roots
<1>4. PICK p \in Preds(E, s) : p \in R
  BY <1>2, <1>3 DEF Preds
<1>5. s \in Successors(E, p)
  BY <1>2, <1>4 DEF Successors
<1> QED  BY <1>2, <1>4, <1>5

(* Every non-empty part of D has a member that waits for no other.         *)
Sourced(E, D) ==
    \A S \in (SUBSET D) \ {{}} : \E s \in S : Preds(E, s) \cap S = {}

(* A step whose predecessors are all in D, none of which waits for it.     *)
LEMMA SourcedGrows ==
    ASSUME NEW E, NEW D \in SUBSET Step, NEW u \in Step \ D,
           Sourced(E, D), \A s \in D : Preds(E, s) \subseteq D
    PROVE  Sourced(E, D \cup {u})
<1> SUFFICES ASSUME NEW S \in (SUBSET (D \cup {u})) \ {{}}
             PROVE  \E s \in S : Preds(E, s) \cap S = {}
  BY DEF Sourced
<1>1. CASE S = {u}
  BY <1>1 DEF Preds
<1>2. CASE S # {u}
  <2>1. S \ {u} \in (SUBSET D) \ {{}}
    BY <1>2
  <2>2. PICK s \in S \ {u} : Preds(E, s) \cap (S \ {u}) = {}
    BY <2>1 DEF Sourced
  <2>3. u \notin Preds(E, s)
    BY <2>1, <2>2
  <2> QED  BY <2>2, <2>3
<1> QED  BY <1>1, <1>2

LEMMA PredsFinite ==
    ASSUME NEW E, NEW t \in Step, NEW D
    PROVE  /\ Preds(E, t) \in SUBSET Step
           /\ IsFiniteSet(Preds(E, t) \ D)
           /\ Cardinality(Preds(E, t) \ D) \in Nat
           /\ Cardinality(Preds(E, t) \ D) = 0 <=> Preds(E, t) \subseteq D
<1>1. Preds(E, t) \in SUBSET Step  BY DEF Preds
<1>2. Preds(E, t) \ D \in SUBSET Step  BY <1>1
<1>3. IsFiniteSet(Preds(E, t) \ D)
  BY <1>2, StepFiniteAssumption, FS_Subset
<1>4. Cardinality(Preds(E, t) \ D) = 0 <=> Preds(E, t) \ D = {}
  BY <1>3, FS_EmptySet
<1> QED  BY <1>1, <1>3, <1>4, FS_CardinalityType

(***************************************************************************)
(* The inductive invariant.                                                *)
(***************************************************************************)
ValidatorTypeOK ==
    /\ stage \in Stages
    /\ errors \in BOOLEAN
    /\ target \in Step \cup {EndNode}
    /\ found \in SUBSET Step
    /\ queue \in SUBSET Step
    /\ remaining \in [Step -> Nat]
    /\ processed \in Nat

Unlooped(E) == Step # {} /\ \A s \in Step : <<s, s>> \notin E

(* The search: what was found is an ancestor, and the predecessors of what *)
(* has left the queue were found.                                          *)
SearchInv(E) ==
    /\ target = EndNode => queue = {}
    /\ target # EndNode =>
         /\ found \subseteq Ancestors(E, target)
         /\ queue \subseteq found \cup {target}
         /\ \A u \in (found \cup {target}) \ queue : Preds(E, u) \subseteq found

(* The reachability pass: a step follows a visited one or is on its way.   *)
VisitInv(E) ==
    /\ Roots(E) \subseteq found \cup queue
    /\ \A s \in found : Successors(E, s) \subseteq found \cup queue

(* What Kahn's pass is done with: all that waits for nothing and has left  *)
(* the queue.                                                              *)
Done == {t \in Step : remaining[t] = 0} \ queue

PassInv(E) ==
    /\ \A t \in queue : remaining[t] = 0
    /\ \A t \in Step : remaining[t] = Cardinality(Preds(E, t) \ Done)
    /\ processed = Cardinality(Done)
    /\ Sourced(E, Done)

LoopsInv(E, ok) ==
    /\ stage = "checks" => ~errors /\ processed = 0 /\ target = EndNode /\ queue = {}
    /\ stage = "upstream" =>
         /\ Unlooped(E) /\ ~errors
         /\ remaining = [t \in Step |-> Cardinality(Preds(E, t))]
         /\ processed = 0
         /\ SearchInv(E)
    /\ stage = "reachability" =>
         /\ Unlooped(E) /\ errors = ~ok
         /\ remaining = [t \in Step |-> Cardinality(Preds(E, t))]
         /\ processed = 0
         /\ VisitInv(E)
    /\ stage = "topological" =>
         /\ Unlooped(E) /\ errors = (~ok \/ found # Step)
         /\ found # Step => ~Acyclic(E)
         /\ PassInv(E)
    /\ stage = "over" => errors = ~(ok /\ Unlooped(E) /\ Acyclic(E))

ValidatorInv ==
    /\ workflow.wellFormed \in BOOLEAN
    /\ ValidatorTypeOK
    /\ LoopsInv(workflow.edges, workflow.wellFormed)

LEMMA IndegreeType ==
    ASSUME NEW E
    PROVE  /\ [t \in Step |-> Cardinality(Preds(E, t))] \in [Step -> Nat]
           /\ \A t \in Step : Cardinality(Preds(E, t)) = 0 <=> Preds(E, t) = {}
<1>1. ASSUME NEW t \in Step
      PROVE  /\ Cardinality(Preds(E, t)) \in Nat
             /\ Cardinality(Preds(E, t)) = 0 <=> Preds(E, t) = {}
  <2>1. Preds(E, t) \in SUBSET Step
    BY DEF Preds
  <2>2. IsFiniteSet(Preds(E, t))
    BY <2>1, StepFiniteAssumption, FS_Subset
  <2> QED  BY <2>2, FS_CardinalityType, FS_EmptySet
<1> QED  BY <1>1

LEMMA ValidatorTypeStep ==
    ASSUME NEW E, NEW ok \in BOOLEAN, ValidatorTypeOK, LoopsInv(E, ok),
           ValidatorNext(E, ok)
    PROVE  ValidatorTypeOK'
<1>1. CASE CheckSteps(E, ok)
  BY <1>1, IndegreeType DEF ValidatorTypeOK, CheckSteps, Refuse, Stages
<1>2. CASE \E t \in Step : SearchFrom(t)
  BY <1>2 DEF ValidatorTypeOK, SearchFrom, Stages
<1>3. CASE Search(E)
  BY <1>3 DEF ValidatorTypeOK, Search, Preds, Stages
<1>4. CASE FindRoots(ok)
  BY <1>4 DEF ValidatorTypeOK, FindRoots, Refuse, Stages
<1>5. CASE Visit(E)
  BY <1>5 DEF ValidatorTypeOK, Visit, Successors, Stages
<1>6. CASE EndVisits
  BY <1>6 DEF ValidatorTypeOK, EndVisits, Stages
<1>7. CASE Process(E)
  <2>1. PassInv(E)
    BY <1>7 DEF Process, LoopsInv
  <2>2. PICK u \in queue :
          /\ processed' = processed + 1
          /\ remaining' = [t \in Step |-> IF t \in Successors(E, u)
                                            THEN remaining[t] - 1 ELSE remaining[t]]
          /\ queue' = (queue \ {u})
                        \cup {t \in Successors(E, u) : remaining[t] = 1}
    BY <1>7 DEF Process
  <2>3. \A t \in Successors(E, u) : remaining[t] \in Nat \ {0}
    <3> SUFFICES ASSUME NEW t \in Successors(E, u)
                 PROVE  remaining[t] \in Nat \ {0}
      OBVIOUS
    <3>1. t \in Step /\ u \in Preds(E, t) /\ u \notin Done
      BY DEF Successors, Done
    <3>2. remaining[t] = Cardinality(Preds(E, t) \ Done)
      BY <2>1, <3>1 DEF PassInv
    <3> QED  BY <3>1, <3>2, PredsFinite
  <2>4. remaining' \in [Step -> Nat]
    BY <2>2, <2>3 DEF ValidatorTypeOK
  <2> QED  BY <1>7, <2>2, <2>4 DEF ValidatorTypeOK, Process, Successors, Stages
<1>8. CASE EndPass
  BY <1>8 DEF ValidatorTypeOK, EndPass, Stages
<1> QED  BY <1>1, <1>2, <1>3, <1>4, <1>5, <1>6, <1>7, <1>8 DEF ValidatorNext

(* A turn of the search.                                                   *)
LEMMA SearchStep ==
    ASSUME NEW E, ValidatorTypeOK, SearchInv(E), Search(E)
    PROVE  SearchInv(E)'
<1>1. PICK u \in queue : /\ found' = found \cup Preds(E, u)
                         /\ queue' = (queue \ {u}) \cup (Preds(E, u) \ found)
  BY DEF Search
<1>2. target # EndNode /\ target \in Step /\ target' = target
  BY <1>1 DEF SearchInv, Search, ValidatorTypeOK
<1>3. Preds(E, u) \subseteq Ancestors(E, target)
  <2>1. CASE u = target
    BY <1>2, <2>1, PredIsAncestor
  <2>2. CASE u # target
    <3>1. u \in Ancestors(E, target)
      BY <1>2, <2>2 DEF SearchInv
    <3> QED  BY <1>2, <3>1, AncestorClosed
  <2> QED  BY <2>1, <2>2
<1>4. found' \subseteq Ancestors(E, target)
  BY <1>1, <1>2, <1>3 DEF SearchInv
<1>5. queue' \subseteq found' \cup {target}
  BY <1>1, <1>2 DEF SearchInv
<1>6. ASSUME NEW x \in (found' \cup {target}) \ queue'
      PROVE  Preds(E, x) \subseteq found'
  <2>1. CASE x = u
    BY <1>1, <2>1
  <2>2. CASE x # u
    <3>1. x \in (found \cup {target}) \ queue
      BY <1>1, <1>6, <2>2
    <3> QED  BY <1>1, <1>2, <3>1 DEF SearchInv
  <2> QED  BY <2>1, <2>2
<1> QED  BY <1>2, <1>4, <1>5, <1>6 DEF SearchInv

(* A turn of the reachability pass.                                        *)
LEMMA VisitStep ==
    ASSUME NEW E, VisitInv(E), Visit(E)
    PROVE  VisitInv(E)'
  BY DEF VisitInv, Visit

(* A turn of Kahn's pass: u is done, and nothing else.                     *)
LEMMA ProcessStep ==
    ASSUME NEW E, ValidatorTypeOK, PassInv(E), Process(E)
    PROVE  PassInv(E)'
<1>1. PICK u \in queue :
          /\ processed' = processed + 1
          /\ remaining' = [t \in Step |-> IF t \in Successors(E, u)
                                            THEN remaining[t] - 1 ELSE remaining[t]]
          /\ queue' = (queue \ {u})
                        \cup {t \in Successors(E, u) : remaining[t] = 1}
  BY DEF Process
<1>2. /\ u \in Step \ Done /\ remaining[u] = 0
      /\ Done \in SUBSET Step
  BY DEF ValidatorTypeOK, PassInv, Done
<1>3. \A t \in Step : remaining[t] \in Nat
  BY DEF ValidatorTypeOK
<1>4. \A t \in Step :
         /\ t \in Successors(E, u) => /\ u \in Preds(E, t) \ Done
                                      /\ remaining[t] # 0
         /\ t \notin Successors(E, u) => u \notin Preds(E, t)
  <2> SUFFICES ASSUME NEW t \in Step, t \in Successors(E, u)
               PROVE  u \in Preds(E, t) \ Done /\ remaining[t] # 0
    BY DEF Successors
  <2>1. u \in Preds(E, t) \ Done
    BY <1>2 DEF Successors
  <2>2. remaining[t] = Cardinality(Preds(E, t) \ Done)
    BY DEF PassInv
  <2> QED  BY <2>1, <2>2, PredsFinite
<1>5. \A t \in Step : remaining'[t] = IF t \in Successors(E, u)
                                        THEN remaining[t] - 1 ELSE remaining[t]
  BY <1>1
<1>6. Done' = Done \cup {u}
  <2>1. \A t \in Step : remaining'[t] = 0 <=>
            remaining[t] = 0 \/ (t \in Successors(E, u) /\ remaining[t] = 1)
    BY <1>3, <1>4, <1>5
  <2>2. Done' = {t \in Step : remaining'[t] = 0} \ queue'
    BY DEF Done
  <2>3. \A t \in Step : t \in Done' <=> t \in Done \/ t = u
    <3> SUFFICES ASSUME NEW t \in Step PROVE t \in Done' <=> t \in Done \/ t = u
      OBVIOUS
    <3>1. CASE remaining[t] = 0
      BY <1>1, <1>2, <2>1, <2>2, <3>1 DEF Done
    <3>2. CASE remaining[t] # 0
      BY <1>1, <1>2, <2>1, <2>2, <3>2 DEF Done
    <3> QED  BY <3>1, <3>2
  <2> QED  BY <1>2, <2>2, <2>3
<1>7. \A t \in queue' : remaining'[t] = 0
  <2> SUFFICES ASSUME NEW t \in queue' PROVE remaining'[t] = 0
    OBVIOUS
  <2>1. CASE t \in queue \ {u}
    <3>1. t \in Step /\ remaining[t] = 0
      BY <2>1 DEF ValidatorTypeOK, PassInv
    <3> QED  BY <1>4, <1>5, <3>1
  <2>2. CASE t \in Successors(E, u) /\ remaining[t] = 1
    <3>1. t \in Step  BY <2>2 DEF Successors
    <3> QED  BY <1>5, <2>2, <3>1
  <2> QED  BY <1>1, <2>1, <2>2
<1>8. ASSUME NEW t \in Step
      PROVE  remaining'[t] = Cardinality(Preds(E, t) \ Done')
  <2>1. remaining[t] = Cardinality(Preds(E, t) \ Done)
    BY DEF PassInv
  <2>2. CASE t \in Successors(E, u)
    <3>1. Preds(E, t) \ Done' = (Preds(E, t) \ Done) \ {u}
      BY <1>6
    <3>2. u \in Preds(E, t) \ Done /\ IsFiniteSet(Preds(E, t) \ Done)
      BY <1>4, <2>2, PredsFinite
    <3>3. Cardinality((Preds(E, t) \ Done) \ {u})
            = Cardinality(Preds(E, t) \ Done) - 1
      BY <3>2, FS_RemoveElement
    <3> QED  BY <1>5, <2>1, <2>2, <3>1, <3>3
  <2>3. CASE t \notin Successors(E, u)
    <3>1. Preds(E, t) \ Done' = Preds(E, t) \ Done
      BY <1>4, <1>6, <2>3
    <3> QED  BY <1>5, <2>1, <2>3, <3>1
  <2> QED  BY <2>2, <2>3
<1>9. processed' = Cardinality(Done')
  <2>1. IsFiniteSet(Done)
    BY <1>2, StepFiniteAssumption, FS_Subset
  <2>2. Cardinality(Done \cup {u}) = Cardinality(Done) + 1
    BY <1>2, <2>1, FS_AddElement
  <2> QED  BY <1>1, <1>6, <2>2 DEF PassInv
<1>10. Sourced(E, Done')
  <2>1. \A s \in Done : Preds(E, s) \subseteq Done
    <3> SUFFICES ASSUME NEW s \in Done PROVE Preds(E, s) \subseteq Done
      OBVIOUS
    <3>1. s \in Step /\ remaining[s] = 0
      BY DEF Done
    <3>2. Cardinality(Preds(E, s) \ Done) = 0
      BY <3>1 DEF PassInv
    <3> QED  BY <3>1, <3>2, PredsFinite
  <2> QED  BY <1>2, <1>6, <2>1, SourcedGrows DEF PassInv
<1> QED  BY <1>7, <1>8, <1>9, <1>10 DEF PassInv

(* Where a loop begins, and where the last one ends.                       *)
LEMMA PassBegins ==
    ASSUME NEW E, ValidatorTypeOK, EndVisits,
           remaining = [t \in Step |-> Cardinality(Preds(E, t))],
           processed = 0
    PROVE  PassInv(E)'
<1>1. /\ queue' = {t \in Step : remaining[t] = 0}
      /\ remaining' = remaining /\ processed' = 0
  BY DEF EndVisits
<1>2. Done' = {}
  BY <1>1 DEF Done
<1>3. \A t \in Step : remaining'[t] = Cardinality(Preds(E, t) \ Done')
  <2>1. \A t \in Step : Preds(E, t) \ Done' = Preds(E, t)
    BY <1>2
  <2> QED  BY <1>1, <2>1
<1>4. processed' = Cardinality(Done')
  BY <1>1, <1>2, FS_EmptySet
<1> QED  BY <1>1, <1>2, <1>3, <1>4 DEF PassInv, Sourced

LEMMA PassDecides ==
    ASSUME NEW E, ValidatorTypeOK, PassInv(E), queue = {}
    PROVE  processed = Cardinality(Step) <=> Acyclic(E)
<1>1. Done = {t \in Step : remaining[t] = 0} /\ Done \in SUBSET Step
  BY DEF Done
<1>2. CASE Done = Step
  BY <1>2 DEF PassInv, Sourced, Acyclic
<1>3. CASE Done # Step
  <2>1. processed # Cardinality(Step)
    BY <1>1, <1>3, StepFiniteAssumption, FS_Subset DEF PassInv
  <2>2. ASSUME Acyclic(E) PROVE FALSE
    <3>1. Step \ Done \in (SUBSET Step) \ {{}}
      BY <1>1, <1>3
    <3>2. PICK s \in Step \ Done : Preds(E, s) \cap (Step \ Done) = {}
      BY <2>2, <3>1 DEF Acyclic
    <3>3. Preds(E, s) \subseteq Done
      BY <3>2 DEF Preds
    <3>4. remaining[s] = 0
      BY <3>2, <3>3, PredsFinite DEF PassInv
    <3> QED  BY <1>1, <3>2, <3>4
  <2> QED  BY <2>1, <2>2
<1> QED  BY <1>2, <1>3

LEMMA LoopsStep ==
    ASSUME NEW E, NEW ok \in BOOLEAN, ValidatorTypeOK, LoopsInv(E, ok),
           ValidatorNext(E, ok)
    PROVE  LoopsInv(E, ok)'
<1> USE DEF Stages
<1>1. CASE CheckSteps(E, ok)
  <2>1. CASE Refuse /\ (~ok \/ ~Unlooped(E))
    BY <2>1 DEF Refuse, LoopsInv, Unlooped
  <2>2. CASE stage' = "upstream"
    <3>1. UNCHANGED <<errors, target, queue, processed>>
      BY <1>1, <2>2 DEF CheckSteps, Refuse
    <3>2. SearchInv(E)'
      BY <1>1, <3>1 DEF CheckSteps, LoopsInv, SearchInv
    <3>3. /\ Unlooped(E)
          /\ remaining' = [t \in Step |-> Cardinality(Preds(E, t))]
      BY <1>1, <2>2 DEF CheckSteps, Refuse, Unlooped
    <3> QED  BY <1>1, <2>2, <3>1, <3>2, <3>3 DEF CheckSteps, LoopsInv
  <2> QED  BY <1>1, <2>1, <2>2 DEF CheckSteps, Unlooped
<1>2. CASE \E t \in Step : SearchFrom(t)
  <2>1. PICK t \in Step : SearchFrom(t)  BY <1>2
  <2>2. SearchInv(E)'
    BY <2>1, EndNodeAssumption DEF SearchFrom, SearchInv
  <2> QED  BY <2>1, <2>2 DEF SearchFrom, LoopsInv
<1>3. CASE Search(E)
  <2>1. SearchInv(E)'  BY <1>3, SearchStep DEF Search, LoopsInv
  <2> QED  BY <1>3, <2>1 DEF Search, LoopsInv
<1>4. CASE FindRoots(ok)
  <2>1. {t \in Step : remaining[t] = 0} = Roots(E)
    BY <1>4, IndegreeType DEF FindRoots, LoopsInv, Roots
  <2>2. Acyclic(E) => Roots(E) # {}
    <3>1. Step # {}  BY <1>4 DEF FindRoots, LoopsInv, Unlooped
    <3>2. Acyclic(E) => \E s \in Step : Preds(E, s) \cap Step = {}
      BY <3>1 DEF Acyclic
    <3> QED  BY <3>2 DEF Preds, Roots
  <2>3. CASE Refuse /\ (~ok \/ Roots(E) = {})
    BY <2>2, <2>3 DEF Refuse, LoopsInv
  <2>4. CASE stage' = "reachability"
    <3>1. VisitInv(E)'
      BY <1>4, <2>1, <2>4 DEF FindRoots, Refuse, VisitInv
    <3> QED  BY <1>4, <2>4, <3>1 DEF FindRoots, Refuse, LoopsInv
  <2> QED  BY <1>4, <2>1, <2>3, <2>4 DEF FindRoots
<1>5. CASE Visit(E)
  <2>1. VisitInv(E)'  BY <1>5, VisitStep DEF Visit, LoopsInv
  <2> QED  BY <1>5, <2>1 DEF Visit, LoopsInv
<1>6. CASE EndVisits
  <2>1. PassInv(E)'
    BY <1>6, PassBegins DEF EndVisits, LoopsInv
  <2>2. Acyclic(E) => found = Step
    <3>1. /\ Roots(E) \subseteq found
          /\ \A s \in found : Successors(E, s) \subseteq found
      BY <1>6 DEF EndVisits, LoopsInv, VisitInv
    <3> QED  BY <3>1, RootsReachEveryStep DEF ValidatorTypeOK
  <2> QED  BY <1>6, <2>1, <2>2 DEF EndVisits, LoopsInv
<1>7. CASE Process(E)
  <2>1. PassInv(E)'  BY <1>7, ProcessStep DEF Process, LoopsInv
  <2> QED  BY <1>7, <2>1 DEF Process, LoopsInv
<1>8. CASE EndPass
  <2>1. processed = Cardinality(Step) <=> Acyclic(E)
    BY <1>8, PassDecides DEF EndPass, LoopsInv
  <2> QED  BY <1>8, <2>1 DEF EndPass, LoopsInv
<1> QED  BY <1>1, <1>2, <1>3, <1>4, <1>5, <1>6, <1>7, <1>8 DEF ValidatorNext

LEMMA WorkflowStays == [Next]_vars => workflow' = workflow
  BY DEF Next, vars, Begin, BeginIf, LaunchWave, JoinWave, Complete, StepProgress,
         StartStep, EndSubtasks, EndRouting, RouteRaises, StepCancelled, Cancel,
         EndCancel, Terminated

LEMMA Validation == RunSpec => []ValidatorInv
<1>1. RunInit => ValidatorInv
  <2> SUFFICES ASSUME RunInit PROVE ValidatorInv
    OBVIOUS
  <2>1. workflow.wellFormed \in BOOLEAN
    BY WorkflowsAssumption DEF RunInit, Init, Workflow
  <2> QED  BY <2>1 DEF RunInit, ValidatorInit, ValidatorInv, ValidatorTypeOK,
                       LoopsInv, Stages
<1>2. ValidatorInv /\ [RunNext]_runVars => ValidatorInv'
  <2> SUFFICES ASSUME ValidatorInv, [RunNext]_runVars PROVE ValidatorInv'
    OBVIOUS
  <2>1. CASE Validate
    <3>1. workflow' = workflow
      BY <2>1 DEF Validate, vars
    <3>2. ValidatorTypeOK'
      BY <2>1, ValidatorTypeStep DEF Validate, ValidatorInv
    <3>3. LoopsInv(workflow.edges, workflow.wellFormed)'
      BY <2>1, <3>1, LoopsStep DEF Validate, ValidatorInv
    <3> QED  BY <3>1, <3>2, <3>3 DEF ValidatorInv
  <2>2. ASSUME workflow' = workflow, UNCHANGED validatorVars
        PROVE  ValidatorInv'
    BY <2>2 DEF validatorVars, ValidatorInv, ValidatorTypeOK, LoopsInv, SearchInv,
                VisitInv, PassInv, Done
  <2>3. CASE BeginRun
    BY <2>2, <2>3 DEF BeginRun, BeginIf
  <2>4. CASE Execute
    BY <2>2, <2>4, WorkflowStays DEF Execute
  <2>5. CASE UNCHANGED runVars
    BY <2>2, <2>5 DEF runVars, vars, validatorVars
  <2> QED  BY <2>1, <2>3, <2>4, <2>5 DEF RunNext
<1> QED  BY <1>1, <1>2, PTL DEF RunSpec

LEMMA VerdictIsValid ==
    ValidatorInv /\ stage = "over" => errors = ~Valid(workflow)
  BY DEF ValidatorInv, LoopsInv, Unlooped, Valid

(***************************************************************************)
(* The search of get_all_predecessors and of the validator ends with the   *)
(* ancestors of its step, and find_workflow_errors finds an error exactly   *)
(* in the workflows that Valid excludes.                                   *)
(***************************************************************************)
THEOREM LoopsAreExact == RunSpec => []LoopsExact
<1>1. ValidatorInv => LoopsExact
  <2> SUFFICES ASSUME ValidatorInv PROVE LoopsExact
    OBVIOUS
  <2>1. ASSUME SearchOver PROVE found = Anc(target)
    <3> DEFINE E == workflow.edges
    <3>1. SearchInv(E) /\ target # EndNode /\ queue = {}
      BY <2>1 DEF SearchOver, ValidatorInv, LoopsInv
    <3>2. target \in Step /\ found \in SUBSET Step
      BY <3>1 DEF ValidatorInv, ValidatorTypeOK
    <3>3. ClosedFrom(E, target, found)
      BY <3>1 DEF SearchInv, ClosedFrom
    <3> QED  BY <3>1, <3>2, <3>3, AncestorsAreLeast DEF SearchInv, Anc
  <2> QED  BY <2>1, VerdictIsValid DEF LoopsExact
<1> QED  BY <1>1, Validation, PTL

(***************************************************************************)
(* run() with its loops does what WorkflowExecutor says of it, where the   *)
(* verdict of the validation is given.                                     *)
(***************************************************************************)
THEOREM RunImplementsExecutor == RunSpec => Spec
<1>1. ValidatorInv /\ [RunNext]_runVars => [Next]_vars
  <2> SUFFICES ASSUME ValidatorInv, [RunNext]_runVars PROVE [Next]_vars
    OBVIOUS
  <2>1. CASE Validate
    BY <2>1 DEF Validate
  <2>2. CASE BeginRun
    <3>1. Begin
      BY <2>2, VerdictIsValid DEF BeginRun, Begin, BeginIf, Valid
    <3> QED  BY <3>1 DEF Next
  <2>3. CASE Execute
    BY <2>3 DEF Execute
  <2>4. CASE UNCHANGED runVars
    BY <2>4 DEF runVars
  <2> QED  BY <2>1, <2>2, <2>3, <2>4 DEF RunNext
<1> QED  BY <1>1, Validation, PTL DEF RunSpec, RunInit, Spec

(* What is proved of the executor holds of run() with its loops.           *)
THEOREM RunsInherit ==
    RunSpec => /\ [](MergeSafe /\ WindowComplete /\ LaunchedAsRouted)
               /\ [](SuccessIsComplete /\ FailureHasCause)
               /\ NothingStartsAfterFailure /\ OrderSpec /\ StepsKeepPhase
  BY RunImplementsExecutor, MergesAreSafe, WindowsAreComplete, LaunchesFollowRoutes,
     SuccessesAreComplete, FailuresHaveCauses, FailuresStopTheRun,
     ExecutorImplementsStepOrder, StepsKeepToTheirPhase, PTL

=============================================================================
