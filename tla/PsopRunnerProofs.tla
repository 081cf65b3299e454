-------------------------- MODULE PsopRunnerProofs --------------------------
(***************************************************************************)
(* Theorems about PsopRunner, for executions of any number of events.      *)
(***************************************************************************)
EXTENDS PsopRunner, TLAPS

Has(q, S) == \E i \in 1..Len(q) : q[i] \in S

LEMMA HasAppend ==
    ASSUME NEW T, NEW q \in Seq(T), NEW e \in T, NEW S,
           Has(Append(q, e), S)
    PROVE  Has(q, S) \/ e \in S
  BY DEF Has

LEMMA HasTail ==
    ASSUME NEW T, NEW q \in Seq(T), q # <<>>, NEW S, Has(Tail(q), S)
    PROVE  Has(q, S)
<1>1. PICK i \in 1..Len(Tail(q)) : Tail(q)[i] \in S  BY DEF Has
<1>2. i + 1 \in 1..Len(q) /\ q[i + 1] = Tail(q)[i]  OBVIOUS
<1>3. QED  BY <1>1, <1>2 DEF Has

-----------------------------------------------------------------------------
Q == Events \cup {Sentinel}

LEMMA Distinct ==
    /\ Verdicts \subseteq Events /\ "start" \in Events /\ "event" \in Events
    /\ "close" \in Events /\ Sentinel \notin Events
    /\ "close" \notin Verdicts /\ Sentinel \notin Verdicts
    /\ "start" \notin Verdicts /\ "event" \notin Verdicts
  BY DEF Verdicts, Events, Sentinel

(* Reporting keeps the queue and the count in their ranges. *)
LEMMA ReportFinalType ==
    ASSUME NEW q \in Seq(Q), ReportFinal(q)
    PROVE  queue' \in Seq(Q) /\ producer' = "done"
  BY Distinct DEF ReportFinal, Q

LEMMA AfterFinishType ==
    ASSUME NEW q \in Seq(Q), AfterFinish(q)
    PROVE  queue' \in Seq(Q) /\ producer' \in {"done", "broken"}
  BY ReportFinalType DEF AfterFinish

LEMMA ReportType ==
    ASSUME NEW r, queue \in Seq(Q), finishCalls = 0, Report(r)
    PROVE  /\ queue' \in Seq(Q)
           /\ producer' \in {"finishing", "done", "broken"}
           /\ producer' \in {"finishing", "broken"} => hasFinish
           /\ finishCalls' = IF hasFinish THEN 1 ELSE 0
<1> DEFINE v == IF r = "success" THEN "complete" ELSE "error"
           q == Append(queue, v)
<1>1. v \in Verdicts  BY DEF Verdicts
<1>2. q \in Seq(Q)  BY <1>1, Distinct DEF Q
<1>3. ReportFinal(q) => queue' \in Seq(Q) /\ producer' = "done"
  BY <1>2, ReportFinalType
<1>4. AfterFinish(q) => queue' \in Seq(Q) /\ producer' \in {"done", "broken"}
  BY <1>2, AfterFinishType
<1>5. QED  BY <1>2, <1>3, <1>4 DEF Report

LEMMA ZeroOrOne == {0, 1} = 0..1
  OBVIOUS

(* How often on_finish was called follows from where the producer is; once  *)
(* the producer is dead it was called at most once.                         *)
FinishCount ==
    /\ producer \in {"none", "created", "running", "closing"} => finishCalls = 0
    /\ producer \in {"finishing", "broken"} => hasFinish
    /\ producer \in {"finishing", "done", "broken"} =>
          finishCalls = IF hasFinish THEN 1 ELSE 0

Beginning == consumer = "idle" => producer = "none" /\ seen = <<>>

(* Nothing is left behind by an execution that is under way.                *)
Strays == stray => producer \notin {"none", "created", "running"}

TypeInv == TypeOK /\ FinishCount /\ Beginning /\ Strays

LEMMA TypeInvStep == TypeInv /\ [Next]_vars => TypeInv'
<1> SUFFICES ASSUME TypeInv, [Next]_vars PROVE TypeInv'
  OBVIOUS
<1> USE Distinct, MaxEventsAssumption
<1>0. queue \in Seq(Q)  BY DEF TypeInv, TypeOK, Q
<1>1. CASE Start
  BY <1>1 DEF Start, TypeInv, TypeOK, FinishCount, Beginning, Strays,
              strayVars, constants
<1>2. CASE BeginRun
  BY <1>2 DEF BeginRun, TypeInv, TypeOK, FinishCount, Beginning, Strays,
              strayVars, constants,
              consumerVars
<1>3. CASE Emit
  BY <1>3 DEF Emit, TypeInv, TypeOK, FinishCount, Beginning, Strays,
              strayVars, constants,
              consumerVars
<1>4. CASE EndRun
  <2>1. PICK r \in {"success", "failure", "cancelled"} :
           /\ result' = r
           /\ stray' \in BOOLEAN
           /\ IF ownsClient
                THEN producer' = "closing" /\ UNCHANGED <<queue, finishCalls>>
                ELSE Report(r)
    BY <1>4 DEF EndRun, LeftBehind
  <2>2. finishCalls = 0  BY <1>4 DEF EndRun, TypeInv, FinishCount
  <2>3. ~ownsClient => /\ queue' \in Seq(Q)
                       /\ producer' \in {"finishing", "done", "broken"}
                       /\ producer' \in {"finishing", "broken"} => hasFinish
                       /\ finishCalls' = IF hasFinish THEN 1 ELSE 0
    BY <2>1, <2>2, <1>0, ReportType
  <2>4. UNCHANGED <<constants, consumerVars, emitted, late, client>>
           /\ cancelAsked' = FALSE /\ producer = "running"
    BY <1>4 DEF EndRun
  <2>5. /\ queue' \in Seq(Q)
        /\ producer' \in {"closing", "finishing", "done", "broken"}
        /\ finishCalls' \in 0..1
    BY <1>0, <2>1, <2>2, <2>3
  <2>6. TypeOK'
    BY <2>1, <2>4, <2>5 DEF TypeInv, TypeOK, strayVars, constants,
                            consumerVars, Q
  <2>7. FinishCount' /\ Beginning' /\ Strays'
    BY <2>1, <2>2, <2>3, <2>4
       DEF TypeInv, FinishCount, Beginning, Strays, strayVars, constants,
           consumerVars
  <2>8. QED  BY <2>6, <2>7 DEF TypeInv
<1>5. CASE EndClose
  <2>1. finishCalls = 0 /\ Report(result)
    BY <1>5 DEF EndClose, TypeInv, FinishCount
  <2>2. /\ queue' \in Seq(Q)
        /\ producer' \in {"finishing", "done", "broken"}
        /\ producer' \in {"finishing", "broken"} => hasFinish
        /\ finishCalls' = IF hasFinish THEN 1 ELSE 0
    BY <2>1, <1>0, ReportType
  <2>3. TypeOK'
    <3>1. finishCalls' \in 0..1 /\ client' \in {"closed", "failed"}
      <4>1. finishCalls' \in {0, 1}  BY <2>2
      <4>2. QED  BY <4>1, ZeroOrOne, <1>5 DEF EndClose
    <3>2. UNCHANGED <<constants, consumerVars, cancelAsked, strayVars, result>>
      BY <1>5 DEF EndClose
    <3>3. producer' \in {"none", "created", "running", "closing", "finishing",
                         "done", "dead", "broken"}
      BY <2>2
    <3>4. QED
      BY <2>2, <3>1, <3>2, <3>3 DEF TypeInv, TypeOK, strayVars, constants,
          consumerVars, Q
  <2>4. FinishCount' /\ Beginning' /\ Strays'
    BY <1>5, <2>2
       DEF EndClose, TypeInv, FinishCount, Beginning, Strays, strayVars,
           constants, consumerVars
  <2>5. QED  BY <2>3, <2>4 DEF TypeInv
<1>6. CASE EndFinish
  <2>1. queue' \in Seq(Q) /\ producer' \in {"done", "broken"}
    BY <1>6, <1>0, AfterFinishType DEF EndFinish
  <2>2. QED
    BY <1>6, <2>1
       DEF EndFinish, TypeInv, TypeOK, FinishCount, Beginning, Strays,
           strayVars, constants,
           consumerVars, Q
<1>7. CASE CancelledLate
  BY <1>7 DEF CancelledLate, TypeInv, TypeOK, FinishCount, Beginning, Strays,
              strayVars, constants,
              consumerVars
<1>8. CASE Take
  <2>1. Head(queue) \in Events /\ Tail(queue) \in Seq(Q)
    BY <1>8, <1>0 DEF Take, Q
  <2>2. QED
    BY <1>8, <2>1 DEF Take, TypeInv, TypeOK, FinishCount, Beginning, Strays,
                      strayVars, constants, Q
<1>9. CASE Skip
  BY <1>9 DEF Skip, TypeInv, TypeOK, FinishCount, Beginning, Strays,
              strayVars, constants
<1>10. CASE Yield
  BY <1>10 DEF Yield, TypeInv, TypeOK, FinishCount, Beginning, Strays,
               strayVars, constants
<1>11. CASE Drained
  <2>1. Tail(queue) \in Seq(Q)  BY <1>0, <1>11 DEF Drained
  <2>2. consumer' \in {"returned", "closing"} /\ cancelAsked' \in BOOLEAN
    BY <1>11 DEF Drained, TypeInv, TypeOK
  <2>3. QED
    BY <1>11, <2>1, <2>2
       DEF Drained, TypeInv, TypeOK, FinishCount, Beginning, Strays,
           strayVars, constants, strayVars, Gone, Q
<1>12. CASE Close
  BY <1>12 DEF Close, TypeInv, TypeOK, FinishCount, Beginning, Strays,
               strayVars, constants,
               ProducerOver
<1>13. CASE EndClosing
  BY <1>13 DEF EndClosing, TypeInv, TypeOK, FinishCount, Beginning, Strays,
               strayVars, constants,
               Gone
<1>14. CASE Interrupt
  <2>1. /\ consumer' \in {consumer, "interrupted"} /\ consumer' # "idle"
        /\ cancelAsked' \in BOOLEAN /\ holding' \in Events \cup {Nothing}
    BY <1>14 DEF Interrupt, TypeInv, TypeOK, consumerVars
  <2>2. UNCHANGED <<constants, seen, producer, queue, strayVars, result, client,
                    finishCalls>>
    BY <1>14 DEF Interrupt, constants, consumerVars
  <2>3. QED
    BY <2>1, <2>2
       DEF TypeInv, TypeOK, FinishCount, Beginning, Strays, strayVars,
           constants, Gone
<1>15. CASE UNCHANGED vars
  <2>1. UNCHANGED <<constants, consumerVars, producer, cancelAsked, queue, strayVars,
                    result, client, finishCalls>>
    BY <1>15 DEF vars
  <2>2. TypeOK'
    BY <2>1 DEF TypeInv, TypeOK, constants, consumerVars, strayVars
  <2>3. (FinishCount /\ Beginning /\ Strays)'
    BY <2>1 DEF TypeInv, FinishCount, Beginning, Strays, constants,
                consumerVars,
                strayVars
  <2>4. QED  BY <2>2, <2>3 DEF TypeInv
<1>16. CASE EmitBehind
  <2>1. queue' \in Seq(Q)  BY <1>0, <1>16 DEF EmitBehind, Q
  <2>2. emitted' \in 0..MaxEvents /\ late' \in 0..MaxEvents
    BY <1>16 DEF EmitBehind, TypeInv, TypeOK
  <2>3. UNCHANGED <<constants, consumerVars, producer, cancelAsked, stray, result,
                    client, finishCalls>>
    BY <1>16 DEF EmitBehind
  <2>4. TypeOK'
    BY <2>1, <2>2, <2>3 DEF TypeInv, TypeOK, constants, consumerVars, Q
  <2>5. (FinishCount /\ Beginning /\ Strays)'
    BY <2>3 DEF TypeInv, FinishCount, Beginning, Strays, constants, consumerVars
  <2>6. QED  BY <2>4, <2>5 DEF TypeInv
<1>17. CASE EndStray
  <2>1. /\ stray' \in BOOLEAN /\ (stray' => stray)
        /\ UNCHANGED <<constants, consumerVars, producer, cancelAsked, queue, emitted,
                       late, result, client, finishCalls>>
    BY <1>17 DEF EndStray
  <2>2. TypeOK'  BY <2>1 DEF TypeInv, TypeOK, constants, consumerVars
  <2>3. (FinishCount /\ Beginning /\ Strays)'
    BY <2>1 DEF TypeInv, FinishCount, Beginning, Strays, constants, consumerVars
  <2>4. QED  BY <2>2, <2>3 DEF TypeInv
<1>18. CASE Produce
  BY <1>2, <1>4, <1>5, <1>6, <1>7, <1>18 DEF Produce
<1>19. QED
  BY <1>1, <1>3, <1>8, <1>9, <1>10, <1>11, <1>12, <1>13, <1>14, <1>15, <1>16,
      <1>17,
     <1>18 DEF Next, Terminated

(* The conjunction of types and counts holds of every execution.           *)
LEMMA TypeInvariant == Spec => []TypeInv
<1>1. Init => TypeInv
  <2> SUFFICES ASSUME Init PROVE TypeInv
    OBVIOUS
  <2>1. <<>> \in Seq(Q) /\ <<>> \in Seq(Events)  OBVIOUS
  <2>2. emitted \in 0..MaxEvents /\ late \in 0..MaxEvents /\ finishCalls \in 0..1
    BY MaxEventsAssumption DEF Init
  <2>3. TypeOK  BY <2>1, <2>2 DEF Init, TypeOK, Q
  <2>4. QED  BY <2>3 DEF Init, TypeInv, FinishCount, Beginning, Strays
<1>2. QED  BY <1>1, TypeInvStep, PTL DEF Spec

(* Every variable keeps to its range; on_finish is called at most once.    *)
THEOREM TypeCorrect == Spec => []TypeOK
<1>1. TypeInv => TypeOK  BY DEF TypeInv
<1>2. QED  BY <1>1, TypeInvariant, PTL
-----------------------------------------------------------------------------
(***************************************************************************)
(* The sentinel is the last thing the producer does, and a verdict is      *)
(* queued only by a producer past the closing of its client.               *)
(***************************************************************************)
SentinelInv ==
    /\ Has(queue, {Sentinel}) => producer = "done"
    /\ consumer = "returned" => producer = "done"
    /\ consumer = "closed" => ProducerOver

VerdictInv ==
    /\ producer \in {"none", "created", "running", "closing"} =>
          ~Has(queue, Verdicts) /\ ~Has(seen, Verdicts)
    /\ ownsClient =>
          /\ producer \in {"finishing", "done", "broken"} => client # "open"
          /\ Has(queue, Verdicts) \/ Has(seen, Verdicts) => client # "open"

EndInv == SentinelInv /\ VerdictInv

(* Reporting adds a sentinel only when the producer is done.               *)
LEMMA ReportSentinel ==
    ASSUME NEW r, queue \in Seq(Q), Report(r), Has(queue', {Sentinel})
    PROVE  Has(queue, {Sentinel}) \/ producer' = "done"
<1> DEFINE v == IF r = "success" THEN "complete" ELSE "error"
           q == Append(queue, v)
<1>1. v \in Q /\ v # Sentinel  BY Distinct DEF Verdicts, Q
<1>2. CASE queue' = q
  BY <1>1, <1>2, HasAppend
<1>3. CASE ReportFinal(q)
  BY <1>3 DEF ReportFinal
<1>4. QED  BY <1>2, <1>3 DEF Report, AfterFinish

LEMMA EndInvStep == TypeInv /\ EndInv /\ [Next]_vars => EndInv'
<1> SUFFICES ASSUME TypeInv, EndInv, [Next]_vars PROVE EndInv'
  OBVIOUS
<1> USE Distinct
<1>0. queue \in Seq(Q) /\ seen \in Seq(Events)  BY DEF TypeInv, TypeOK, Q
<1>1. CASE Start
  <2>1. producer = "none" /\ seen = <<>>
    BY <1>1 DEF Start, TypeInv, Beginning
  <2>2. ~Has(queue', {Sentinel}) /\ ~Has(queue', Verdicts)
    BY <1>1 DEF Start, Has
  <2>3. ~Has(seen', Verdicts)  BY <1>1, <2>1 DEF Start, Has
  <2>4. QED
    BY <1>1, <2>2, <2>3 DEF Start, EndInv, SentinelInv, VerdictInv
<1>2. CASE BeginRun
  BY <1>2 DEF BeginRun, EndInv, SentinelInv, VerdictInv, Has, ProducerOver,
              constants, consumerVars
<1>3. CASE Emit
  <2>1. "event" \in Q  BY DEF Q
  <2>2. Has(queue', {Sentinel}) => Has(queue, {Sentinel})
    BY <1>0, <1>3, <2>1, HasAppend DEF Emit
  <2>3. Has(queue', Verdicts) => Has(queue, Verdicts)
    BY <1>0, <1>3, <2>1, HasAppend DEF Emit
  <2>4. seen' = seen /\ producer = "running"
    BY <1>3 DEF Emit, consumerVars
  <2>5. QED
    BY <1>3, <2>2, <2>3, <2>4
       DEF Emit, EndInv, SentinelInv, VerdictInv, Has, ProducerOver, constants,
           consumerVars
<1>4. CASE EndRun
  <2>1. PICK r \in {"success", "failure", "cancelled"} :
           IF ownsClient
             THEN producer' = "closing" /\ UNCHANGED <<queue, finishCalls>>
             ELSE Report(r)
    BY <1>4 DEF EndRun
  <2>2. finishCalls = 0 /\ producer = "running"
    BY <1>4 DEF EndRun, TypeInv, FinishCount
  <2>3. UNCHANGED <<ownsClient, consumer, seen, client>>
    BY <1>4 DEF EndRun, constants, consumerVars
  <2>4. ~Has(queue, {Sentinel}) /\ consumer # "returned" /\ consumer # "closed"
    BY <2>2 DEF EndInv, SentinelInv, ProducerOver
  <2>5. CASE ownsClient
    BY <2>1, <2>2, <2>3, <2>4, <2>5 DEF EndInv, SentinelInv, VerdictInv, Has
  <2>6. CASE ~ownsClient
    <3>1. /\ Has(queue', {Sentinel}) => producer' = "done"
          /\ producer' \in {"finishing", "done", "broken"}
      BY <2>1, <2>2, <2>4, <2>6, <1>0, ReportSentinel, ReportType
    <3>2. QED
      BY <2>3, <2>4, <2>6, <3>1 DEF EndInv, SentinelInv, VerdictInv
  <2>7. QED  BY <2>5, <2>6
<1>5. CASE EndClose
  <2>1. finishCalls = 0 /\ producer = "closing"
    BY <1>5 DEF EndClose, TypeInv, FinishCount
  <2>2. Report(result) /\ client' \in {"closed", "failed"}
        /\ UNCHANGED <<ownsClient, consumer, seen>>
    BY <1>5 DEF EndClose, constants, consumerVars
  <2>3. ~Has(queue, {Sentinel}) /\ consumer # "returned" /\ consumer # "closed"
    BY <2>1 DEF EndInv, SentinelInv, ProducerOver
  <2>4. /\ Has(queue', {Sentinel}) => producer' = "done"
        /\ producer' \in {"finishing", "done", "broken"}
    BY <2>1, <2>2, <2>3, <1>0, ReportSentinel, ReportType
  <2>5. QED
    BY <2>2, <2>3, <2>4 DEF EndInv, SentinelInv, VerdictInv
<1>6. CASE EndFinish
  <2>1. /\ producer' = "done" \/ (producer' = "broken" /\ queue' = queue)
        /\ UNCHANGED <<ownsClient, consumer, seen, client>>
    BY <1>6 DEF EndFinish, AfterFinish, ReportFinal, constants, consumerVars
  <2>2. ownsClient => client # "open"
    BY <1>6 DEF EndFinish, EndInv, VerdictInv
  <2>3. producer = "finishing"  BY <1>6 DEF EndFinish
  <2>4. UNCHANGED Has(seen, Verdicts) /\ (queue' = queue => UNCHANGED Has(queue, {Sentinel}))
    BY <2>1 DEF Has
  <2>5. QED
    BY <2>1, <2>2, <2>3, <2>4 DEF EndInv, SentinelInv, VerdictInv, ProducerOver
<1>7. CASE CancelledLate
  <2>1. /\ producer \in {"closing", "finishing"} /\ producer' = "dead"
        /\ UNCHANGED <<ownsClient, consumer, seen, queue>>
        /\ producer = "finishing" => client' = client
    BY <1>7 DEF CancelledLate, constants, consumerVars
  <2>2. UNCHANGED <<Has(queue, {Sentinel}), Has(queue, Verdicts), Has(seen, Verdicts)>>
    BY <2>1 DEF Has
  <2>3. QED
    BY <2>1, <2>2 DEF EndInv, SentinelInv, VerdictInv, ProducerOver
<1>8. CASE Take
  <2>1. /\ queue # <<>> /\ queue' = Tail(queue)
        /\ seen' = Append(seen, Head(queue)) /\ consumer' = "transforming"
        /\ UNCHANGED <<ownsClient, producer, client>>
    BY <1>8 DEF Take, constants
  <2>2. Head(queue) \in Events  BY <1>0, <1>8 DEF Take, Q
  <2>3. Has(queue', {Sentinel}) => Has(queue, {Sentinel})
    BY <1>0, <2>1, HasTail
  <2>4. Has(queue', Verdicts) => Has(queue, Verdicts)
    BY <1>0, <2>1, HasTail
  <2>5. Has(seen', Verdicts) => Has(seen, Verdicts) \/ Has(queue, Verdicts)
    <3>1. Has(seen', Verdicts) => Has(seen, Verdicts) \/ Head(queue) \in Verdicts
      BY <1>0, <2>1, <2>2, HasAppend
    <3>2. Head(queue) = queue[1] /\ 1 \in 1..Len(queue)  BY <1>0, <2>1
    <3>3. QED  BY <3>1, <3>2 DEF Has
  <2>6. QED
    BY <2>1, <2>3, <2>4, <2>5 DEF EndInv, SentinelInv, VerdictInv
<1>9. CASE Skip
  BY <1>9 DEF Skip, EndInv, SentinelInv, VerdictInv, Has, constants
<1>10. CASE Yield
  BY <1>10 DEF Yield, EndInv, SentinelInv, VerdictInv, Has, constants
<1>11. CASE Drained
  <2>1. /\ queue # <<>> /\ queue' = Tail(queue) /\ Head(queue) = Sentinel
        /\ UNCHANGED <<ownsClient, producer, client, seen>>
        /\ consumer' \in {"returned", "closing"}
    BY <1>11 DEF Drained, constants
  <2>2. Has(queue, {Sentinel})
    <3>1. Head(queue) = queue[1] /\ 1 \in 1..Len(queue)  BY <1>0, <2>1
    <3>2. QED  BY <2>1, <3>1 DEF Has
  <2>3. producer = "done"  BY <2>2 DEF EndInv, SentinelInv
  <2>4. Has(queue', Verdicts) => Has(queue, Verdicts)
    BY <1>0, <2>1, HasTail
  <2>5. Has(seen', Verdicts) => Has(seen, Verdicts)  BY <2>1 DEF Has
  <2>6. QED
    BY <2>1, <2>3, <2>4, <2>5 DEF EndInv, SentinelInv, VerdictInv, ProducerOver
<1>12. CASE Close
  BY <1>12 DEF Close, EndInv, SentinelInv, VerdictInv, Has, constants
<1>13. CASE EndClosing
  BY <1>13 DEF EndClosing, EndInv, SentinelInv, VerdictInv, Has, constants,
               ProducerOver
<1>14. CASE Interrupt
  BY <1>14 DEF Interrupt, EndInv, SentinelInv, VerdictInv, Has, constants,
               consumerVars, ProducerOver
<1>15. CASE UNCHANGED vars
  BY <1>15 DEF EndInv, SentinelInv, VerdictInv, Has, vars, constants,
               consumerVars, ProducerOver
<1>16. CASE EmitBehind
  <2>1. "event" \in Q /\ "event" \notin Verdicts \cup {Sentinel}
    BY DEF Q, Sentinel, Verdicts
  <2>2. /\ queue' = Append(queue, "event")
        /\ UNCHANGED <<ownsClient, consumer, seen, producer, client>>
    BY <1>16 DEF EmitBehind, constants, consumerVars
  <2>3. Has(queue', {Sentinel}) => Has(queue, {Sentinel})
    BY <1>0, <2>1, <2>2, HasAppend
  <2>4. Has(queue', Verdicts) => Has(queue, Verdicts)
    BY <1>0, <2>1, <2>2, HasAppend
  <2>5. Has(seen', Verdicts) = Has(seen, Verdicts)  BY <2>2 DEF Has
  <2>6. QED
    BY <2>2, <2>3, <2>4, <2>5 DEF EndInv, SentinelInv, VerdictInv, ProducerOver
<1>17. CASE EndStray
  BY <1>17 DEF EndStray, EndInv, SentinelInv, VerdictInv, Has, constants,
               consumerVars, ProducerOver
<1>18. QED
  BY <1>1, <1>2, <1>3, <1>4, <1>5, <1>6, <1>7, <1>8, <1>9, <1>10, <1>11, <1>12,
     <1>13, <1>14, <1>15, <1>16, <1>17 DEF Next, Produce, Terminated

LEMMA EndInvariant == Spec => []EndInv
<1>1. Init => EndInv
  BY DEF Init, EndInv, SentinelInv, VerdictInv, Has, ProducerOver
<1>2. QED  BY <1>1, EndInvStep, TypeInvariant, PTL DEF Spec

(* The verdict reaches the consumer only when the owned client is closed.  *)
THEOREM VerdictsFollowClose == Spec => []VerdictAfterClose
<1>1. EndInv => VerdictAfterClose
  BY DEF EndInv, VerdictInv, Has, VerdictAfterClose
<1>2. QED  BY <1>1, EndInvariant, PTL

-----------------------------------------------------------------------------
(***************************************************************************)
(* The history as a whole, what left the queue followed by what is in it,  *)
(* is a prefix of one line: start, the events, the verdict of r, close and *)
(* the sentinel.  How long that prefix is follows from where the producer  *)
(* is.  Events that come late leave the line, but only behind the verdict. *)
(***************************************************************************)
Line(e, r, i) ==
    IF i = 1 THEN "start"
    ELSE IF i <= e + 1 THEN "event"
    ELSE IF i = e + 2 THEN (IF r = "success" THEN "complete" ELSE "error")
    ELSE IF i = e + 3 THEN "close" ELSE Sentinel

Fits(x, e, r, l, i) ==
    \/ x = Line(e, r, i)
    \/ l > 0 /\ i > e + 2 /\ x \in {"event", "close", Sentinel}

LineUp(s, q, e, r, l) ==
    /\ \A i \in 1..Len(s) : Fits(s[i], e, r, l, i)
    /\ \A i \in 1..Len(q) : Fits(q[i], e, r, l, Len(s) + i)

Told == Len(seen) + Len(queue)

ToldInv ==
    /\ producer \in {"none", "created"} => emitted = 0
    /\ producer = "none" => Told = 0
    /\ producer \in {"created", "running", "closing"} => Told = emitted + 1
    /\ producer \in {"none", "created", "running", "closing"} => late = 0
    /\ producer = "finishing" =>
          Told >= emitted + 2 /\ (late = 0 => Told = emitted + 2)
    /\ producer = "broken" => Told >= emitted + 2
    /\ producer = "done" =>
          Told >= emitted + 2 /\ (late = 0 => Told \in {emitted + 3, emitted + 4})
    /\ producer = "dead" => IF finishCalls = 0 THEN Told = emitted + 1 /\ late = 0
                                               ELSE Told >= emitted + 2

HistoryInv == LineUp(seen, queue, emitted, result, late) /\ ToldInv

(* What comes next in the line may be put into the queue.                  *)
LEMMA LineUpAppend ==
    ASSUME NEW s \in Seq(Q), NEW q \in Seq(Q), NEW e \in Nat, NEW r, NEW l \in Nat,
           LineUp(s, q, e, r, l),
           NEW x \in Q, Fits(x, e, r, l, Len(s) + Len(q) + 1)
    PROVE  LineUp(s, Append(q, x), e, r, l) /\ Len(Append(q, x)) = Len(q) + 1
<1>1. Len(Append(q, x)) = Len(q) + 1  OBVIOUS
<1>2. ASSUME NEW i \in 1..Len(Append(q, x))
      PROVE  Fits(Append(q, x)[i], e, r, l, Len(s) + i)
  <2>1. CASE i \in 1..Len(q)
    <3>1. Append(q, x)[i] = q[i]  BY <2>1
    <3>2. QED  BY <2>1, <3>1 DEF LineUp
  <2>2. CASE i = Len(q) + 1
    <3>1. Len(s) + i = Len(s) + Len(q) + 1  BY <2>2
    <3>2. Append(q, x)[i] = x  BY <2>2
    <3>3. QED  BY <3>1, <3>2
  <2>3. QED  BY <1>1, <2>1, <2>2
<1>3. QED  BY <1>1, <1>2 DEF LineUp

(* Before the verdict is queued neither one more event nor the outcome      *)
(* changes what was told.                                                  *)
LEMMA LineUpShift ==
    ASSUME NEW s \in Seq(Q), NEW q \in Seq(Q), NEW e \in Nat, NEW r, NEW r2,
           LineUp(s, q, e, r, 0), Len(s) + Len(q) = e + 1, NEW f \in {e, e + 1}
    PROVE  LineUp(s, q, f, r2, 0)
<1>1. ASSUME NEW i \in 1..(e + 1), NEW x, Fits(x, e, r, 0, i)
      PROVE  Fits(x, f, r2, 0, i)
  BY <1>1 DEF Fits, Line
<1>2. \A i \in 1..Len(s) : i \in 1..(e + 1)  OBVIOUS
<1>3. \A i \in 1..Len(q) : Len(s) + i \in 1..(e + 1)  OBVIOUS
<1>4. QED  BY <1>1, <1>2, <1>3 DEF LineUp

(* One more event, while there is no verdict yet.                          *)
LEMMA LineUpEmit ==
    ASSUME NEW s \in Seq(Q), NEW q \in Seq(Q), NEW e \in Nat, NEW r,
           LineUp(s, q, e, r, 0), Len(s) + Len(q) = e + 1
    PROVE  /\ LineUp(s, Append(q, "event"), e + 1, r, 0)
           /\ Len(s) + Len(Append(q, "event")) = e + 2
<1>1. LineUp(s, q, e + 1, r, 0)  BY LineUpShift
<1>2. "event" \in Q  BY Distinct DEF Q
<1>3. Fits("event", e + 1, r, 0, Len(s) + Len(q) + 1)  BY DEF Fits, Line
<1>4. e + 1 \in Nat /\ 0 \in Nat  OBVIOUS
<1>5. /\ LineUp(s, Append(q, "event"), e + 1, r, 0)
      /\ Len(Append(q, "event")) = Len(q) + 1
  BY <1>1, <1>2, <1>3, <1>4, LineUpAppend
<1>6. QED  BY <1>5

(* One more event behind the verdict.                                      *)
LEMMA LineUpLate ==
    ASSUME NEW s \in Seq(Q), NEW q \in Seq(Q), NEW e \in Nat, NEW r, NEW l \in Nat,
           LineUp(s, q, e, r, l), Len(s) + Len(q) >= e + 2
    PROVE  /\ LineUp(s, Append(q, "event"), e, r, l + 1)
           /\ Len(s) + Len(Append(q, "event")) = Len(s) + Len(q) + 1
<1>1. \A x, i : Fits(x, e, r, l, i) => Fits(x, e, r, l + 1, i)  BY DEF Fits
<1>2. LineUp(s, q, e, r, l + 1)  BY <1>1 DEF LineUp
<1>3. "event" \in Q /\ l + 1 \in Nat  BY Distinct DEF Q
<1>4. Fits("event", e, r, l + 1, Len(s) + Len(q) + 1)  BY DEF Fits
<1>5. /\ LineUp(s, Append(q, "event"), e, r, l + 1)
      /\ Len(Append(q, "event")) = Len(q) + 1
  BY <1>2, <1>3, <1>4, LineUpAppend
<1>6. QED  BY <1>5

LEMMA LineUpTake ==
    ASSUME NEW s \in Seq(Q), NEW q \in Seq(Q), NEW e \in Nat, NEW r, NEW l \in Nat,
           LineUp(s, q, e, r, l), q # <<>>
    PROVE  /\ LineUp(Append(s, Head(q)), Tail(q), e, r, l)
           /\ Len(Append(s, Head(q))) + Len(Tail(q)) = Len(s) + Len(q)
<1> DEFINE t == Append(s, Head(q))
<1>1. /\ Head(q) = q[1] /\ Head(q) \in Q
      /\ Len(Tail(q)) = Len(q) - 1 /\ Len(t) = Len(s) + 1
      /\ \A i \in 1..Len(Tail(q)) : Tail(q)[i] = q[i + 1] /\ i + 1 \in 1..Len(q)
  OBVIOUS
<1>2. ASSUME NEW i \in 1..Len(t) PROVE Fits(t[i], e, r, l, i)
  <2>1. CASE i \in 1..Len(s)
    <3>1. t[i] = s[i]  BY <2>1, <1>1
    <3>2. QED  BY <2>1, <3>1 DEF LineUp
  <2>2. CASE i = Len(s) + 1
    <3>1. Fits(q[1], e, r, l, Len(s) + 1)  BY DEF LineUp
    <3>2. t[i] = Head(q)  BY <2>2, <1>1
    <3>3. QED  BY <3>1, <3>2, <1>1, <2>2
  <2>3. QED  BY <1>1, <2>1, <2>2
<1>3. ASSUME NEW i \in 1..Len(Tail(q))
      PROVE  Fits(Tail(q)[i], e, r, l, Len(t) + i)
  <2>1. Fits(q[i + 1], e, r, l, Len(s) + (i + 1))  BY <1>1 DEF LineUp
  <2>2. Len(s) + (i + 1) = Len(t) + i  BY <1>1
  <2>3. QED  BY <1>1, <2>1, <2>2
<1>4. QED  BY <1>1, <1>2, <1>3 DEF LineUp

(* Close and sentinel come right behind the verdict if nothing came late.  *)
LEMMA LineUpReportFinal ==
    ASSUME NEW s \in Seq(Q), NEW q \in Seq(Q), NEW e \in Nat, NEW r, NEW l \in Nat,
           LineUp(s, q, e, r, l), Len(s) + Len(q) >= e + 2,
           l = 0 => Len(s) + Len(q) = e + 2, ReportFinal(q)
    PROVE  /\ LineUp(s, queue', e, r, l)
           /\ Len(s) + Len(queue') = Len(s) + Len(q) + 2
           /\ producer' = "done"
<1> DEFINE c == Append(q, "close")
<1>1. "close" \in Q /\ Sentinel \in Q  BY Distinct DEF Q
<1>2. Fits("close", e, r, l, Len(s) + Len(q) + 1)  BY DEF Fits, Line
<1>3. LineUp(s, c, e, r, l) /\ Len(c) = Len(q) + 1  BY <1>1, <1>2, LineUpAppend
<1>4. c \in Seq(Q)  BY <1>1
<1>5. Fits(Sentinel, e, r, l, Len(s) + Len(c) + 1)  BY <1>3 DEF Fits, Line
<1>6. LineUp(s, Append(c, Sentinel), e, r, l)
      /\ Len(Append(c, Sentinel)) = Len(c) + 1
  <2> HIDE DEF c
  <2>1. LineUp(s, c, e, r, l)  BY <1>3
  <2>2. QED  BY <1>1, <2>1, <1>4, <1>5, LineUpAppend
<1>7. queue' = Append(c, Sentinel) /\ producer' = "done"
  BY <1>1 DEF ReportFinal
<1>8. QED  BY <1>3, <1>6, <1>7

(* A report takes the line past the verdict, or to its end.                *)
LEMMA LineUpReport ==
    ASSUME NEW s \in Seq(Q), queue \in Seq(Q), NEW e \in Nat, NEW r,
           LineUp(s, queue, e, r, 0), Len(s) + Len(queue) = e + 1, Report(r)
    PROVE  /\ LineUp(s, queue', e, r, 0)
           /\ \/ /\ producer' \in {"finishing", "broken"}
                 /\ Len(s) + Len(queue') = e + 2
              \/ producer' = "done" /\ Len(s) + Len(queue') = e + 4
<1> DEFINE v == IF r = "success" THEN "complete" ELSE "error"
           q == Append(queue, v)
<1>1. v \in Q /\ 0 \in Nat  BY Distinct DEF Verdicts, Q
<1>2. Fits(v, e, r, 0, Len(s) + Len(queue) + 1)  BY DEF Fits, Line
<1>3. LineUp(s, q, e, r, 0) /\ Len(q) = Len(queue) + 1
  BY <1>1, <1>2, LineUpAppend
<1>4. q \in Seq(Q) /\ Len(s) + Len(q) = e + 2  BY <1>1, <1>3
<1>5. ReportFinal(q) => /\ LineUp(s, queue', e, r, 0)
                        /\ Len(s) + Len(queue') = e + 4
                        /\ producer' = "done"
  <2> HIDE DEF q
  <2>1. e + 2 + 2 = e + 4 /\ Len(s) + Len(q) >= e + 2  BY <1>4
  <2>2. LineUp(s, q, e, r, 0)  BY <1>3
  <2>3. QED  BY <1>1, <1>4, <2>1, <2>2, LineUpReportFinal
<1>6. CASE queue' = q /\ producer' \in {"finishing", "broken"}
  BY <1>3, <1>4, <1>6
<1>7. QED  BY <1>5, <1>6 DEF Report, AfterFinish

LEMMA HistoryInvStep == TypeInv /\ EndInv /\ HistoryInv /\ [Next]_vars => HistoryInv'
<1> SUFFICES ASSUME TypeInv, EndInv, HistoryInv, [Next]_vars PROVE HistoryInv'
  OBVIOUS
<1>0. /\ queue \in Seq(Q) /\ seen \in Seq(Q) /\ seen \in Seq(Events)
      /\ emitted \in Nat /\ late \in Nat
  BY MaxEventsAssumption DEF TypeInv, TypeOK, Q
<1>1. CASE Start
  <2>1. producer = "none" /\ seen = <<>> /\ emitted = 0 /\ late = 0
    BY <1>1 DEF Start, TypeInv, Beginning, HistoryInv, ToldInv
  <2>2. queue' = <<"start">> /\ seen' = <<>> /\ emitted' = 0 /\ late' = 0
        /\ result' = result /\ producer' = "created"
    BY <1>1, <2>1 DEF Start, strayVars
  <2>3. LineUp(<<>>, <<"start">>, 0, result, 0)  BY DEF LineUp, Fits, Line
  <2>4. Told' = 1  BY <2>2 DEF Told
  <2>5. QED  BY <2>2, <2>3, <2>4 DEF HistoryInv, ToldInv
<1>2. CASE BeginRun
  <2>1. UNCHANGED <<seen, queue, emitted, late, result>> /\ finishCalls' = 0
        /\ producer = "created" /\ producer' \in {"running", "dead"}
    BY <1>2 DEF BeginRun, consumerVars, strayVars, TypeInv, FinishCount
  <2>2. QED  BY <2>1 DEF HistoryInv, ToldInv, Told
<1>3. CASE Emit
  <2>1. /\ queue' = Append(queue, "event") /\ emitted' = emitted + 1
        /\ UNCHANGED <<seen, result, producer, late>> /\ producer = "running"
    BY <1>3 DEF Emit, consumerVars
  <2>2. Len(seen) + Len(queue) = emitted + 1 /\ late = 0
    BY <2>1 DEF HistoryInv, ToldInv, Told
  <2>3. /\ LineUp(seen, queue', emitted', result, 0)
        /\ Len(seen) + Len(queue') = emitted + 2
    BY <1>0, <2>1, <2>2, LineUpEmit DEF HistoryInv
  <2>4. Told' = emitted' + 1  BY <1>0, <2>1, <2>3 DEF Told
  <2>5. QED  BY <2>1, <2>2, <2>3, <2>4 DEF HistoryInv, ToldInv
<1>4. CASE EndRun
  <2>1. PICK r \in {"success", "failure", "cancelled"} :
           /\ result' = r
           /\ IF ownsClient
                THEN producer' = "closing" /\ UNCHANGED <<queue, finishCalls>>
                ELSE Report(r)
    BY <1>4 DEF EndRun
  <2>2. UNCHANGED <<seen, emitted, late>> /\ producer = "running"
    BY <1>4 DEF EndRun, consumerVars
  <2>3. Len(seen) + Len(queue) = emitted + 1 /\ late = 0
    BY <2>2 DEF HistoryInv, ToldInv, Told
  <2>4. LineUp(seen, queue, emitted, r, 0)
    BY <1>0, <2>3, LineUpShift DEF HistoryInv
  <2>5. CASE ownsClient
    BY <2>1, <2>2, <2>3, <2>4, <2>5 DEF HistoryInv, ToldInv, Told
  <2>6. CASE ~ownsClient
    <3>1. /\ LineUp(seen, queue', emitted, r, 0)
          /\ \/ /\ producer' \in {"finishing", "broken"}
                /\ Len(seen) + Len(queue') = emitted + 2
             \/ producer' = "done" /\ Len(seen) + Len(queue') = emitted + 4
      BY <1>0, <2>1, <2>3, <2>4, <2>6, LineUpReport
    <3>2. QED  BY <1>0, <2>1, <2>2, <2>3, <3>1 DEF HistoryInv, ToldInv, Told
  <2>7. QED  BY <2>5, <2>6
<1>5. CASE EndClose
  <2>1. UNCHANGED <<seen, emitted, late, result>> /\ producer = "closing"
        /\ Report(result)
    BY <1>5 DEF EndClose, consumerVars, strayVars
  <2>2. Len(seen) + Len(queue) = emitted + 1 /\ late = 0
    BY <2>1 DEF HistoryInv, ToldInv, Told
  <2>3. /\ LineUp(seen, queue', emitted, result, 0)
        /\ \/ /\ producer' \in {"finishing", "broken"}
              /\ Len(seen) + Len(queue') = emitted + 2
           \/ producer' = "done" /\ Len(seen) + Len(queue') = emitted + 4
    BY <1>0, <2>1, <2>2, LineUpReport DEF HistoryInv
  <2>4. QED  BY <1>0, <2>1, <2>2, <2>3 DEF HistoryInv, ToldInv, Told
<1>6. CASE EndFinish
  <2>1. UNCHANGED <<seen, emitted, late, result>> /\ producer = "finishing"
        /\ AfterFinish(queue)
    BY <1>6 DEF EndFinish, consumerVars, strayVars
  <2>2. /\ Len(seen) + Len(queue) >= emitted + 2
        /\ late = 0 => Len(seen) + Len(queue) = emitted + 2
    BY <2>1 DEF HistoryInv, ToldInv, Told
  <2>3. CASE ReportFinal(queue)
    <3>1. /\ LineUp(seen, queue', emitted, result, late)
          /\ producer' = "done"
          /\ Len(seen) + Len(queue') = Len(seen) + Len(queue) + 2
      BY <1>0, <2>1, <2>2, <2>3, LineUpReportFinal DEF HistoryInv
    <3>2. QED  BY <1>0, <2>1, <2>2, <3>1 DEF HistoryInv, ToldInv, Told
  <2>4. CASE queue' = queue /\ producer' = "broken"
    BY <2>1, <2>2, <2>4 DEF HistoryInv, ToldInv, Told
  <2>5. QED  BY <2>1, <2>3, <2>4 DEF AfterFinish
<1>7. CASE CancelledLate
  <2>1. UNCHANGED <<seen, queue, emitted, late, result, finishCalls>>
        /\ producer' = "dead" /\ producer \in {"closing", "finishing"}
    BY <1>7 DEF CancelledLate, consumerVars, strayVars
  <2>2. producer = "closing" => finishCalls = 0  BY DEF TypeInv, FinishCount
  <2>3. producer = "finishing" => finishCalls = 1  BY DEF TypeInv, FinishCount
  <2>4. QED  BY <2>1, <2>2, <2>3 DEF HistoryInv, ToldInv, Told
<1>8. CASE Take
  <2>1. /\ queue # <<>> /\ queue' = Tail(queue)
        /\ seen' = Append(seen, Head(queue))
        /\ UNCHANGED <<producer, emitted, late, result, finishCalls>>
    BY <1>8 DEF Take, strayVars
  <2>2. LineUp(seen', queue', emitted, result, late) /\ Told' = Told
    BY <1>0, <2>1, LineUpTake DEF HistoryInv, Told
  <2>3. QED  BY <2>1, <2>2 DEF HistoryInv, ToldInv
<1>9. CASE Drained
  <2>1. /\ queue # <<>> /\ queue' = Tail(queue) /\ Head(queue) = Sentinel
        /\ UNCHANGED <<seen, producer, emitted, late, result>>
    BY <1>9 DEF Drained, strayVars
  <2>2. /\ Len(queue) \in Nat \ {0} /\ Len(queue') = Len(queue) - 1
        /\ queue[1] = Sentinel /\ 1 \in 1..Len(queue)
    BY <1>0, <2>1
  <2>3. producer = "done"  BY <2>2 DEF EndInv, SentinelInv, Has
  <2>4. Fits(Sentinel, emitted, result, late, Len(seen) + 1)
    BY <2>2 DEF HistoryInv, LineUp
  <2>5. Line(emitted, result, Len(seen) + 1) = Sentinel => Len(seen) + 1 > emitted + 3
    <3>1. SUFFICES ASSUME Len(seen) + 1 <= emitted + 3
                   PROVE  Line(emitted, result, Len(seen) + 1) # Sentinel
      BY <1>0
    <3>2. Line(emitted, result, Len(seen) + 1) \in Events
      BY <1>0, <3>1 DEF Line, Events, Verdicts
    <3>3. QED  BY <3>2, Distinct
  <2>6. CASE late = 0
    <3>1. Len(seen) + 1 > emitted + 3  BY <2>4, <2>5, <2>6 DEF Fits
    <3>2. Told = emitted + 4 /\ Len(queue) = 1
      BY <1>0, <2>2, <2>3, <2>6, <3>1 DEF HistoryInv, ToldInv, Told
    <3>3. Len(queue') = 0 /\ Told' = emitted' + 3
      BY <1>0, <2>1, <2>2, <3>2 DEF Told
    <3>4. LineUp(seen', queue', emitted', result', late')
      BY <1>0, <2>1, <3>3 DEF HistoryInv, LineUp
    <3>5. QED  BY <1>0, <2>1, <2>3, <2>6, <3>3, <3>4 DEF HistoryInv, ToldInv
  <2>7. CASE late # 0
    <3>1. Len(seen) >= emitted + 2  BY <1>0, <2>4, <2>5 DEF Fits
    <3>2. Told' >= emitted' + 2  BY <1>0, <2>1, <2>2, <3>1 DEF Told
    <3>3. ASSUME NEW i \in 1..Len(queue')
          PROVE  Fits(queue'[i], emitted, result, late, Len(seen) + i)
      <4>1. queue'[i] = queue[i + 1] /\ i + 1 \in 1..Len(queue)
        BY <1>0, <2>1, <2>2
      <4>2. Fits(queue[i + 1], emitted, result, late, Len(seen) + (i + 1))
        BY <4>1 DEF HistoryInv, LineUp
      <4>3. queue[i + 1] \in {"event", "close", Sentinel}
        <5>1. Len(seen) + (i + 1) >= emitted + 3  BY <1>0, <3>1
        <5>2. Line(emitted, result, Len(seen) + (i + 1)) \in {"close", Sentinel}
          BY <1>0, <5>1 DEF Line
        <5>3. QED  BY <4>2, <5>2 DEF Fits
      <4>4. Len(seen) + i > emitted + 2 /\ late > 0  BY <1>0, <2>7, <3>1
      <4>5. QED  BY <4>1, <4>3, <4>4 DEF Fits
    <3>4. LineUp(seen', queue', emitted', result', late')
      BY <2>1, <3>3 DEF HistoryInv, LineUp
    <3>5. QED  BY <2>1, <2>3, <2>7, <3>2, <3>4 DEF HistoryInv, ToldInv
  <2>8. QED  BY <2>6, <2>7
<1>10. CASE EmitBehind
  <2>1. /\ queue' = Append(queue, "event") /\ stray
        /\ UNCHANGED <<seen, result, producer, finishCalls>>
        /\ IF Reported THEN late' = late + 1 /\ emitted' = emitted
                       ELSE emitted' = emitted + 1 /\ late' = late
    BY <1>10 DEF EmitBehind, consumerVars
  <2>2. producer \in {"closing", "finishing", "done", "dead", "broken"}
           /\ finishCalls \in {0, 1}
    BY <2>1, ZeroOrOne DEF TypeInv, TypeOK, Strays
  <2>3. CASE Reported
    <3>1. producer # "closing" /\ (producer = "dead" => finishCalls # 0)
      BY <2>3 DEF Reported, TypeInv, FinishCount
    <3>2. Len(seen) + Len(queue) >= emitted + 2
      BY <2>2, <3>1 DEF HistoryInv, ToldInv, Told
    <3>3. /\ LineUp(seen, queue', emitted, result, late + 1)
          /\ Len(seen) + Len(queue') = Len(seen) + Len(queue) + 1
      BY <1>0, <2>1, <3>2, LineUpLate DEF HistoryInv
    <3>4. Told' >= emitted' + 2 /\ late' # 0 /\ late' = late + 1 /\ emitted' = emitted
      BY <1>0, <2>1, <2>3, <3>2, <3>3 DEF Told
    <3>5. QED
      BY <2>1, <2>2, <3>1, <3>3, <3>4 DEF HistoryInv, ToldInv
  <2>4. CASE ~Reported
    <3>1. producer \in {"closing", "dead"} /\ finishCalls = 0
      BY <2>2, <2>4 DEF Reported, TypeInv, FinishCount
    <3>2. Len(seen) + Len(queue) = emitted + 1 /\ late = 0
      BY <3>1 DEF HistoryInv, ToldInv, Told
    <3>3. /\ LineUp(seen, queue', emitted + 1, result, 0)
          /\ Len(seen) + Len(queue') = emitted + 2
      BY <1>0, <2>1, <3>2, LineUpEmit DEF HistoryInv
    <3>4. Told' = emitted' + 1 /\ emitted' = emitted + 1 /\ late' = 0
      BY <1>0, <2>1, <2>4, <3>2, <3>3 DEF Told
    <3>5. QED  BY <2>1, <3>1, <3>3, <3>4 DEF HistoryInv, ToldInv
  <2>5. QED  BY <2>3, <2>4
<1>11. CASE Skip \/ Yield \/ Close \/ EndClosing \/ Interrupt \/ EndStray
            \/ UNCHANGED vars
  <2>1. UNCHANGED <<seen, queue, emitted, late, result, producer, finishCalls>>
    BY <1>11 DEF Skip, Yield, Close, EndClosing, Interrupt, EndStray, vars,
                 consumerVars, strayVars
  <2>2. QED  BY <2>1 DEF HistoryInv, ToldInv, Told
<1>12. QED
  BY <1>1, <1>2, <1>3, <1>4, <1>5, <1>6, <1>7, <1>8, <1>9, <1>10, <1>11
     DEF Next, Produce, Terminated

LEMMA HistoryInvariant == Spec => []HistoryInv
<1>1. Init => HistoryInv
  BY DEF Init, HistoryInv, LineUp, ToldInv, Told
<1>2. QED
  BY <1>1, HistoryInvStep, TypeInvariant, EndInvariant, PTL DEF Spec

-----------------------------------------------------------------------------
(***************************************************************************)
(* A consumer at the generator is served: as long as it has not closed the *)
(* generator, no cancellation is on its way to the producer, which is still *)
(* at work or has left the sentinel in the queue; only a producer whose    *)
(* on_finish was called and ended in a CancelledError leaves it waiting.   *)
(***************************************************************************)
AtWork == producer \in {"created", "running", "closing", "finishing"}

Sealed(q) == Has(q, {Sentinel})

Attended == consumer \in {"waiting", "transforming", "yielded"}

ConsumerServed ==
    Attended =>
       /\ ~cancelAsked
       /\ \/ AtWork
          \/ producer = "done" /\ Sealed(queue)
          \/ producer = "broken" /\ hasFinish /\ finishCalls = 1

(* A cancellation stands only between a generator that is closing and a    *)
(* producer that is at work.                                               *)
ServedInv ==
    /\ ConsumerServed
    /\ cancelAsked => consumer = "closing" /\ AtWork
    /\ consumer \in {"closing", "closed"} => producer # "none"
    /\ producer = "dead" => consumer \in {"closing", "closed"}

LEMMA ReportFinalSeals ==
    ASSUME NEW q \in Seq(Q), ReportFinal(q)
    PROVE  producer' = "done" /\ Sealed(queue')
<1>1. <<"close", Sentinel>> \in Seq(Q)  BY Distinct DEF Q
<1>2. Len(q) + 2 \in 1..Len(q \o <<"close", Sentinel>>)
      /\ (q \o <<"close", Sentinel>>)[Len(q) + 2] = Sentinel
  BY <1>1
<1>3. QED  BY <1>2 DEF ReportFinal, Sealed, Has

LEMMA ReportSeals ==
    ASSUME NEW r, queue \in Seq(Q), Report(r)
    PROVE  \/ producer' \in {"finishing", "broken"}
           \/ producer' = "done" /\ Sealed(queue')
<1> DEFINE v == IF r = "success" THEN "complete" ELSE "error"
           q == Append(queue, v)
<1>1. v \in Q  BY Distinct DEF Verdicts, Q
<1>2. q \in Seq(Q)  BY <1>1
<1>3. CASE ReportFinal(q)
  BY <1>2, <1>3, ReportFinalSeals
<1>4. QED  BY <1>3 DEF Report, AfterFinish

LEMMA SealedStays ==
    ASSUME NEW q \in Seq(Q), Sealed(q)
    PROVE  /\ Sealed(Append(q, "event"))
           /\ Head(q) # Sentinel => Sealed(Tail(q))
<1>1. PICK i \in 1..Len(q) : q[i] = Sentinel  BY DEF Sealed, Has
<1>2. i \in 1..Len(Append(q, "event")) /\ Append(q, "event")[i] = Sentinel
  BY <1>1
<1>3. ASSUME Head(q) # Sentinel
      PROVE  i - 1 \in 1..Len(Tail(q)) /\ Tail(q)[i - 1] = Sentinel
  <2>1. q # <<>> /\ Head(q) = q[1]  BY <1>1
  <2>2. i # 1  BY <1>1, <1>3, <2>1
  <2>3. Len(Tail(q)) = Len(q) - 1
        /\ \A j \in 1..Len(Tail(q)) : Tail(q)[j] = q[j + 1]
    BY <2>1
  <2>4. QED  BY <1>1, <2>2, <2>3
<1>4. QED  BY <1>2, <1>3 DEF Sealed, Has

LEMMA ServedInvStep == TypeInv /\ ServedInv /\ [Next]_vars => ServedInv'
<1> SUFFICES ASSUME TypeInv, ServedInv, [Next]_vars PROVE ServedInv'
  OBVIOUS
<1>a. TypeInv'  BY TypeInvStep
<1>b. producer' = "broken" => (hasFinish /\ finishCalls = 1)'
  BY <1>a DEF TypeInv, FinishCount
<1> USE DEF ServedInv, ConsumerServed, Attended, AtWork
<1>0. queue \in Seq(Q)  BY DEF TypeInv, TypeOK, Q
<1>1. CASE Start
  <2>1. ~cancelAsked  BY <1>1 DEF Start
  <2>2. QED  BY <1>1, <2>1 DEF Start
<1>2. CASE BeginRun
  BY <1>2 DEF BeginRun, consumerVars
<1>3. CASE Emit
  BY <1>3 DEF Emit, consumerVars
<1>4. CASE EndRun
  <2>1. PICK r \in {"success", "failure", "cancelled"} :
           IF ownsClient
             THEN producer' = "closing" /\ UNCHANGED <<queue, finishCalls>>
             ELSE Report(r)
    BY <1>4 DEF EndRun
  <2>2. \/ producer' \in {"closing", "finishing", "broken"}
        \/ producer' = "done" /\ Sealed(queue')
    BY <1>0, <2>1, ReportSeals
  <2>3. QED  BY <1>b, <1>4, <2>2 DEF EndRun, consumerVars
<1>5. CASE EndClose
  <2>1. \/ producer' \in {"finishing", "broken"}
        \/ producer' = "done" /\ Sealed(queue')
    BY <1>0, <1>5, ReportSeals DEF EndClose
  <2>2. QED  BY <1>b, <1>5, <2>1 DEF EndClose, consumerVars
<1>6. CASE EndFinish
  <2>1. producer' = "broken" \/ (producer' = "done" /\ Sealed(queue'))
    BY <1>0, <1>6, ReportFinalSeals DEF EndFinish, AfterFinish
  <2>2. QED  BY <1>b, <1>6, <2>1 DEF EndFinish, consumerVars
<1>7. CASE CancelledLate
  BY <1>7 DEF CancelledLate, consumerVars
<1>8. CASE Take
  <2>1. Sealed(queue) => Sealed(queue')
    BY <1>0, <1>8, SealedStays DEF Take
  <2>2. QED  BY <1>b, <1>8, <2>1 DEF Take
<1>9. CASE Skip \/ Yield
  <2>1. Sealed(queue') = Sealed(queue)  BY <1>9 DEF Skip, Yield, Sealed
  <2>2. QED  BY <1>b, <1>9, <2>1 DEF Skip, Yield
<1>10. CASE Drained
  BY <1>10 DEF Drained, ProducerOver
<1>11. CASE Close
  BY <1>11 DEF Close, ProducerOver
<1>12. CASE EndClosing
  BY <1>12 DEF EndClosing, ProducerOver
<1>13. CASE Interrupt
  <2>1. producer \in {"none", "created", "running", "closing", "finishing",
                      "done", "dead", "broken"}
    BY DEF TypeInv, TypeOK
  <2>2. QED  BY <1>b, <1>13, <2>1 DEF Interrupt, ProducerOver, consumerVars
<1>14. CASE UNCHANGED vars
  <2>1. Sealed(queue') = Sealed(queue)  BY <1>14 DEF vars, Sealed
  <2>2. QED  BY <1>b, <1>14, <2>1 DEF vars, consumerVars
<1>15. CASE EmitBehind
  <2>1. Sealed(queue) => Sealed(queue')
    BY <1>0, <1>15, SealedStays DEF EmitBehind
  <2>2. QED  BY <1>b, <1>15, <2>1 DEF EmitBehind, consumerVars
<1>16. CASE EndStray
  <2>1. Sealed(queue') = Sealed(queue)  BY <1>16 DEF EndStray, Sealed
  <2>2. QED  BY <1>b, <1>16, <2>1 DEF EndStray, consumerVars
<1>17. QED
  BY <1>1, <1>2, <1>3, <1>4, <1>5, <1>6, <1>7, <1>8, <1>9, <1>10, <1>11, <1>12,
     <1>13, <1>14, <1>15, <1>16 DEF Next, Produce, Terminated

LEMMA ServedInvariant == Spec => []ServedInv
<1>1. Init => ServedInv
  BY DEF Init, ServedInv, ConsumerServed, Attended
<1>2. QED  BY <1>1, ServedInvStep, TypeInvariant, PTL DEF Spec

(* A consumer that has not closed the generator is left waiting by nothing  *)
(* but an on_finish that ended in a CancelledError: otherwise the producer  *)
(* is at work, or done with the sentinel in the queue.  An execution        *)
(* without on_finish thus always serves its consumer.  What Ends adds to    *)
(* this is that the steps are taken.                                       *)
THEOREM ConsumersAreServed == Spec => []ConsumerServed
<1>1. ServedInv => ConsumerServed  BY DEF ServedInv
<1>2. QED  BY <1>1, ServedInvariant, PTL

(* A generator drained to its end leaves a producer that is done, with its  *)
(* client closed or failed to close; a closed one leaves no producer; and on_finish is called  *)
(* once but for a generator that is closed.                                *)
THEOREM GeneratorsEndCleanly == Spec => []EndedCleanly
<1>1. TypeInv /\ EndInv /\ ServedInv => EndedCleanly
  BY DEF TypeInv, FinishCount, EndInv, SentinelInv, VerdictInv, ServedInv,
         EndedCleanly, ProducerOver
<1>2. QED  BY <1>1, TypeInvariant, EndInvariant, ServedInvariant, PTL
-----------------------------------------------------------------------------
(***************************************************************************)
(* close is the last event of all: in the queue the sentinel is right      *)
(* behind it, and a consumer that has taken it finds the sentinel next.    *)
(***************************************************************************)
CloseEnds(q) ==
    \A i \in 1..Len(q) :
        q[i] = "close" => i + 1 \in 1..Len(q) /\ q[i + 1] = Sentinel

SentinelNext(q) == q # <<>> /\ Head(q) = Sentinel

CloseInv ==
    /\ CloseEnds(queue)
    /\ \A i \in 1..Len(seen) :
          seen[i] = "close" =>
             i = Len(seen) /\ (Attended => SentinelNext(queue))

LEMMA CloseAppend ==
    ASSUME NEW q \in Seq(Q), CloseEnds(q), NEW x \in Q, x # "close"
    PROVE  CloseEnds(Append(q, x)) /\ (SentinelNext(q) => SentinelNext(Append(q, x)))
<1>1. Len(Append(q, x)) = Len(q) + 1 /\ Append(q, x)[Len(q) + 1] = x
  OBVIOUS
<1>2. \A i \in 1..Len(q) : Append(q, x)[i] = q[i]  OBVIOUS
<1>3. CloseEnds(Append(q, x))
  <2>1. SUFFICES ASSUME NEW i \in 1..(Len(q) + 1), Append(q, x)[i] = "close"
                 PROVE  /\ i + 1 \in 1..(Len(q) + 1)
                        /\ Append(q, x)[i + 1] = Sentinel
    BY <1>1 DEF CloseEnds
  <2>2. i \in 1..Len(q)  BY <1>1, <2>1
  <2>3. i + 1 \in 1..Len(q) /\ q[i + 1] = Sentinel
    BY <1>2, <2>1, <2>2 DEF CloseEnds
  <2>4. QED  BY <1>2, <2>3
<1>4. ASSUME SentinelNext(q) PROVE SentinelNext(Append(q, x))
  <2>1. Head(Append(q, x)) = Head(q) /\ Append(q, x) # <<>>
    BY <1>4 DEF SentinelNext
  <2>2. QED  BY <1>4, <2>1 DEF SentinelNext
<1>5. QED  BY <1>3, <1>4

LEMMA CloseReportFinal ==
    ASSUME NEW q \in Seq(Q), CloseEnds(q), ReportFinal(q)
    PROVE  CloseEnds(queue') /\ (SentinelNext(q) => SentinelNext(queue'))
<1> DEFINE p == q \o <<"close", Sentinel>>
<1>1. queue' = p  BY DEF ReportFinal
<1>2. <<"close", Sentinel>> \in Seq(Q) /\ "close" # Sentinel
  BY Distinct DEF Q
<1>3. /\ Len(p) = Len(q) + 2
      /\ p[Len(q) + 1] = "close" /\ p[Len(q) + 2] = Sentinel
      /\ \A i \in 1..Len(q) : p[i] = q[i]
  BY <1>2
<1>4. CloseEnds(p)
  <2> HIDE DEF p
  <2>1. SUFFICES ASSUME NEW i \in 1..(Len(q) + 2), p[i] = "close"
                 PROVE  i + 1 \in 1..(Len(q) + 2) /\ p[i + 1] = Sentinel
    BY <1>3 DEF CloseEnds
  <2>2. CASE i \in 1..Len(q)
    <3>1. i + 1 \in 1..Len(q) /\ q[i + 1] = Sentinel
      BY <1>3, <2>1, <2>2 DEF CloseEnds
    <3>2. QED  BY <1>3, <3>1
  <2>3. CASE i = Len(q) + 1
    <3>1. i + 1 = Len(q) + 2  BY <2>3
    <3>2. QED  BY <1>3, <3>1
  <2>4. i # Len(q) + 2  BY <1>2, <1>3, <2>1
  <2>5. QED  BY <2>2, <2>3, <2>4
<1>5. ASSUME SentinelNext(q) PROVE SentinelNext(p)
  <2>1. q[1] = Sentinel /\ 1 \in 1..Len(q)  BY <1>5 DEF SentinelNext
  <2>2. p \in Seq(Q) /\ p # <<>> /\ Head(p) = p[1]  BY <1>2
  <2>3. QED  BY <1>3, <2>1, <2>2 DEF SentinelNext
<1>6. QED  BY <1>1, <1>4, <1>5

LEMMA CloseReport ==
    ASSUME NEW r, queue \in Seq(Q), CloseEnds(queue), Report(r)
    PROVE  CloseEnds(queue') /\ (SentinelNext(queue) => SentinelNext(queue'))
<1> DEFINE v == IF r = "success" THEN "complete" ELSE "error"
           q == Append(queue, v)
<1>1. v \in Q /\ v # "close"  BY Distinct DEF Verdicts, Q
<1>2. q \in Seq(Q)  BY <1>1
<1>3. CloseEnds(q) /\ (SentinelNext(queue) => SentinelNext(q))
  <2> HIDE DEF v
  <2>1. QED  BY <1>1, CloseAppend
<1>4. CASE ReportFinal(q)
  <2> HIDE DEF q
  <2>1. QED  BY <1>2, <1>3, <1>4, CloseReportFinal
<1>5. QED  BY <1>3, <1>4 DEF Report, AfterFinish

LEMMA CloseTail ==
    ASSUME NEW q \in Seq(Q), CloseEnds(q), q # <<>>
    PROVE  /\ CloseEnds(Tail(q))
           /\ Head(q) = "close" => SentinelNext(Tail(q))
<1>1. /\ Len(Tail(q)) = Len(q) - 1 /\ Len(q) \in Nat \ {0}
      /\ Head(q) = q[1] /\ Tail(q) \in Seq(Q)
      /\ \A i \in 1..Len(Tail(q)) : Tail(q)[i] = q[i + 1]
  OBVIOUS
<1>2. CloseEnds(Tail(q))
  <2>1. SUFFICES ASSUME NEW i \in 1..(Len(q) - 1), Tail(q)[i] = "close"
                 PROVE  /\ i + 1 \in 1..(Len(q) - 1)
                        /\ Tail(q)[i + 1] = Sentinel
    BY <1>1 DEF CloseEnds
  <2>2. i + 1 \in 1..Len(q) /\ q[i + 1] = "close"  BY <1>1, <2>1
  <2>3. (i + 1) + 1 \in 1..Len(q) /\ q[(i + 1) + 1] = Sentinel
    BY <2>2 DEF CloseEnds
  <2>4. i + 1 \in 1..Len(Tail(q))  BY <1>1, <2>3
  <2>5. QED  BY <1>1, <2>3, <2>4
<1>3. ASSUME Head(q) = "close" PROVE SentinelNext(Tail(q))
  <2>1. 2 \in 1..Len(q) /\ q[2] = Sentinel  BY <1>1, <1>3 DEF CloseEnds
  <2>2. 1 \in 1..Len(Tail(q)) /\ Tail(q)[1] = q[2]
    <3>1. 1 \in 1..Len(Tail(q))  BY <1>1, <2>1
    <3>2. Tail(q)[1] = q[1 + 1]  BY <1>1, <3>1
    <3>3. QED  BY <3>1, <3>2
  <2>3. Len(<<>>) = 0  OBVIOUS
  <2>4. Tail(q) # <<>>
    <3>1. Len(Tail(q)) # 0  BY <1>1, <2>1
    <3>2. QED  BY <2>3, <3>1
  <2>5. \A p \in Seq(Q) : p # <<>> => Head(p) = p[1]  OBVIOUS
  <2>6. QED  BY <2>1, <2>2, <2>4, <2>5, <1>1 DEF SentinelNext
<1>4. QED  BY <1>2, <1>3

LEMMA CloseInvStep == TypeInv /\ CloseInv /\ [Next]_vars => CloseInv'
<1> SUFFICES ASSUME TypeInv, CloseInv, [Next]_vars PROVE CloseInv'
  OBVIOUS
<1>0. queue \in Seq(Q) /\ seen \in Seq(Q)
  BY DEF TypeInv, TypeOK, Q
<1>1. CASE Start
  <2>1. seen' = <<>> /\ queue' = <<"start">>
    BY <1>1 DEF Start, TypeInv, Beginning
  <2>2. QED  BY <2>1 DEF CloseInv, CloseEnds
<1>2. ASSUME UNCHANGED <<queue, seen>>, Attended' => Attended
      PROVE  CloseInv'
  BY <1>2 DEF CloseInv, CloseEnds, SentinelNext
<1>3. ASSUME CloseEnds(queue'), SentinelNext(queue) => SentinelNext(queue'),
             UNCHANGED <<seen, consumer>>
      PROVE  CloseInv'
  BY <1>3 DEF CloseInv, Attended
<1>4. CASE BeginRun
  BY <1>2, <1>4 DEF BeginRun, consumerVars, Attended
<1>5. CASE Emit \/ EmitBehind
  <2>1. queue' = Append(queue, "event") /\ UNCHANGED <<seen, consumer>>
    BY <1>5 DEF Emit, EmitBehind, consumerVars
  <2>2. "event" \in Q /\ "event" # "close"  BY Distinct DEF Q
  <2>3. QED  BY <1>0, <1>3, <2>1, <2>2, CloseAppend DEF CloseInv
<1>6. CASE EndRun
  <2>1. PICK r \in {"success", "failure", "cancelled"} :
           IF ownsClient
             THEN producer' = "closing" /\ UNCHANGED <<queue, finishCalls>>
             ELSE Report(r)
    BY <1>6 DEF EndRun
  <2>2. UNCHANGED <<seen, consumer>>  BY <1>6 DEF EndRun, consumerVars
  <2>3. CASE ownsClient
    BY <1>2, <2>1, <2>2, <2>3 DEF Attended
  <2>4. CASE ~ownsClient
    BY <1>0, <1>3, <2>1, <2>2, <2>4, CloseReport DEF CloseInv
  <2>5. QED  BY <2>3, <2>4
<1>7. CASE EndClose
  <2>1. Report(result) /\ UNCHANGED <<seen, consumer>>
    BY <1>7 DEF EndClose, consumerVars
  <2>2. QED  BY <1>0, <1>3, <2>1, CloseReport DEF CloseInv
<1>8. CASE EndFinish
  <2>1. UNCHANGED <<seen, consumer>>  BY <1>8 DEF EndFinish, consumerVars
  <2>2. CASE ReportFinal(queue)
    BY <1>0, <1>3, <2>1, <2>2, CloseReportFinal DEF CloseInv
  <2>3. CASE queue' = queue
    BY <1>2, <2>1, <2>3 DEF Attended
  <2>4. QED  BY <1>8, <2>2, <2>3 DEF EndFinish, AfterFinish
<1>9. CASE Take
  <2>1. /\ consumer = "waiting" /\ queue # <<>> /\ Head(queue) # Sentinel
        /\ queue' = Tail(queue) /\ seen' = Append(seen, Head(queue))
    BY <1>9 DEF Take
  <2>2. CloseEnds(queue') /\ (Head(queue) = "close" => SentinelNext(queue'))
    BY <1>0, <2>1, CloseTail DEF CloseInv
  <2>3. \A i \in 1..Len(seen) : seen[i] # "close"
    BY <2>1 DEF CloseInv, Attended, SentinelNext
  <2>4. ASSUME NEW i \in 1..Len(seen'), seen'[i] = "close"
        PROVE  i = Len(seen') /\ Head(queue) = "close"
    <3>1. Head(queue) \in Q  BY <1>0, <2>1
    <3>2. /\ Len(seen') = Len(seen) + 1 /\ seen'[Len(seen) + 1] = Head(queue)
          /\ \A j \in 1..Len(seen) : seen'[j] = seen[j]
      BY <1>0, <2>1, <3>1
    <3>3. i \notin 1..Len(seen)  BY <2>3, <2>4, <3>2
    <3>4. i = Len(seen) + 1  BY <1>0, <3>2, <3>3
    <3>5. QED  BY <2>4, <3>2, <3>4
  <2>5. QED  BY <2>2, <2>4 DEF CloseInv
<1>10. CASE Drained
  <2>1. /\ queue # <<>> /\ queue' = Tail(queue) /\ seen' = seen
        /\ consumer' \in {"returned", "closing"}
    BY <1>10 DEF Drained
  <2>2. CloseEnds(queue')  BY <1>0, <2>1, CloseTail DEF CloseInv
  <2>3. QED  BY <2>1, <2>2 DEF CloseInv, Attended
<1>11. CASE Skip \/ Yield \/ Close \/ EndClosing \/ Interrupt \/ EndStray
            \/ CancelledLate \/ UNCHANGED vars
  <2>1. UNCHANGED <<seen, queue>> /\ (Attended' => Attended)
    BY <1>11 DEF Skip, Yield, Close, EndClosing, Interrupt, EndStray,
                 CancelledLate, vars, consumerVars, Attended
  <2>2. QED  BY <1>2, <2>1
<1>12. QED
  BY <1>1, <1>4, <1>5, <1>6, <1>7, <1>8, <1>9, <1>10, <1>11
     DEF Next, Produce, Terminated

LEMMA CloseInvariant == Spec => []CloseInv
<1>1. Init => CloseInv  BY DEF Init, CloseInv, CloseEnds
<1>2. QED  BY <1>1, CloseInvStep, TypeInvariant, PTL DEF Spec

(* Start first, the events, one verdict that is the execution's, and close *)
(* last: what the consumer gets is in this order, whatever comes late.     *)
THEOREM HistoriesAreOrdered == Spec => []OrderedHistory
<1>1. TypeInv /\ HistoryInv /\ CloseInv => OrderedHistory
  <2>1. SUFFICES ASSUME TypeInv, HistoryInv, CloseInv, NEW i \in 1..Len(seen)
                 PROVE  /\ (seen[i] = "start") = (i = 1)
                        /\ seen[i] \in Verdicts =>
                              /\ i = emitted + 2
                              /\ (seen[i] = "complete") = (result = "success")
                        /\ seen[i] = "close" =>
                              /\ i = Len(seen) /\ i > emitted + 2
                              /\ i = emitted + 3 \/ late > 0
    BY DEF OrderedHistory
  <2>2. emitted \in Nat /\ late \in Nat /\ seen \in Seq(Events) /\ i \in Nat \ {0}
    <3>1. emitted \in 0..MaxEvents /\ late \in 0..MaxEvents /\ seen \in Seq(Events)
      BY <2>1 DEF TypeInv, TypeOK
    <3>2. QED  BY <2>1, <3>1, MaxEventsAssumption
  <2>3. Fits(seen[i], emitted, result, late, i)
    BY <2>1 DEF HistoryInv, LineUp
  <2>4. seen[i] \in Events  BY <2>2
  <2>5. CASE seen[i] = Line(emitted, result, i)
    <3>1. (seen[i] = "start") = (i = 1)
      BY <2>2, <2>4, <2>5 DEF Line, Sentinel, Events, Verdicts
    <3>2. ASSUME seen[i] \in Verdicts
          PROVE  /\ i = emitted + 2
                 /\ (seen[i] = "complete") = (result = "success")
      BY <2>2, <2>5, <3>2 DEF Line, Sentinel, Verdicts
    <3>3. ASSUME seen[i] = "close"
          PROVE  i = Len(seen) /\ i = emitted + 3
      BY <2>1, <2>2, <2>5, <3>3 DEF Line, Sentinel, CloseInv
    <3>4. QED  BY <2>2, <3>1, <3>2, <3>3
  <2>6. CASE /\ late > 0 /\ i > emitted + 2
             /\ seen[i] \in {"event", "close", Sentinel}
    BY <2>1, <2>2, <2>6 DEF Verdicts, Sentinel, CloseInv
  <2>7. QED  BY <2>3, <2>5, <2>6 DEF Fits
<1>2. QED  BY <1>1, TypeInvariant, HistoryInvariant, CloseInvariant, PTL
=============================================================================
