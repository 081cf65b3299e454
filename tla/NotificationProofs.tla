------------------------- MODULE NotificationProofs -------------------------
(***************************************************************************)
(* Theorems about Notification, for every idle timeout.                    *)
(***************************************************************************)
EXTENDS Notification, TLAPS

LEMMA AtMostType ==
    ASSUME NEW n \in 0..IdleTimeout
    PROVE  AtMost(n + 1) \in 0..IdleTimeout
  BY IdleAssumption DEF AtMost

LEMMA AtMostMonotone ==
    ASSUME NEW m \in 0..IdleTimeout, NEW n \in 0..IdleTimeout, m <= n
    PROVE  AtMost(m + 1) <= AtMost(n + 1)
  BY IdleAssumption DEF AtMost

LEMMA ClockBounds == 0 \in 0..IdleTimeout /\ IdleTimeout \in 0..IdleTimeout
  BY IdleAssumption

LEMMA WireType == "nothing" \in Wire
  BY DEF Wire

-----------------------------------------------------------------------------
(* What close() does to the types and the futures, from whatever program    *)
(* point it is called.                                                     *)
LEMMA CloseType ==
    ASSUME TypeOK, NEW b \in BOOLEAN,
           NEW a \in {"timeout", "cancelled"},
           NEW e \in {"none", "error", "idle"},
           Close(b, a, e)
    PROVE  TypeOK'
  BY DEF TypeOK, Close, StopTimers, clock

LEMMA ExitType ==
    ASSUME TypeOK, NEW e \in {"none", "error", "cancelled"}, Exit(e),
           UNCHANGED <<wire, clock, prompt>>
    PROVE  TypeOK'
  BY DEF TypeOK, Exit, StopTimers, clock

LEMMA TypeStep == TypeOK /\ [Next]_vars => TypeOK'
<1> SUFFICES ASSUME TypeOK, [Next]_vars PROVE TypeOK'
  OBVIOUS
<1> USE ClockBounds, WireType
<1>1. CASE Consume
  <2>1. CASE Begin
    <3>1. CASE Exit("error")  BY <2>1, <3>1, ExitType DEF Begin
    <3>2. CASE pc' = "reading" /\ UNCHANGED <<exc, cancelling, closed, futures, timers>>
      BY <2>1, <3>2 DEF Begin, TypeOK, futures, timers, clock
    <3>3. QED  BY <2>1, <3>1, <3>2 DEF Begin
  <2>2. CASE NeverBegun
    BY <2>2 DEF NeverBegun, TypeOK, futures, timers, clock
  <2>3. CASE ReadHeartbeat
    BY <2>3 DEF ReadHeartbeat, Reading, TypeOK, futures, timers
  <2>4. CASE ReadRejection
    BY <2>4 DEF ReadRejection, Reading, Leave, StopTimers, TypeOK
  <2>5. CASE ReadEvent
    BY <2>5 DEF ReadEvent, Reading, TypeOK, timers
  <2>6. CASE ReadUnknown
    BY <2>6 DEF ReadUnknown, Reading, Leave, TypeOK, futures, timers
  <2>7. CASE ReadEnd
    BY <2>7 DEF ReadEnd, Reading, Leave, TypeOK, futures, timers
  <2>8. CASE StopReading
    BY <2>8 DEF StopReading, Leave, TypeOK, futures, timers, clock
  <2>9. CASE EndLeaving
    <3>1. PICK e \in {"none", "error", "cancelled"} : Exit(e)
      BY <2>9 DEF EndLeaving, TypeOK
    <3>2. QED  BY <2>9, <3>1, ExitType DEF EndLeaving
  <2>10. CASE TaskDone
    BY <2>10 DEF TaskDone, StopTimers, TypeOK, clock
  <2>11. QED
    BY <1>1, <2>1, <2>2, <2>3, <2>4, <2>5, <2>6, <2>7, <2>8, <2>9, <2>10
       DEF Consume
<1>2. CASE EndListening
  <2>1. pc' \in {"reading", "leaving"} /\ exc' \in {"none", "error", "cancelled"}
    <3>1. CASE pc' = "reading" /\ UNCHANGED exc  BY <3>1 DEF TypeOK
    <3>2. CASE \E e \in {"none", "error", "cancelled"} : Leave(e)  BY <3>2 DEF Leave
    <3>3. QED  BY <1>2, <3>1, <3>2 DEF EndListening
  <2>2. cancelling' = FALSE /\ UNCHANGED <<closed, futures, timers, wire, clock, prompt>>
    BY <1>2 DEF EndListening
  <2>3. UNCHANGED <<closed, ack, completion, completion_error, ack_timer, idle_timer,
                    wire, idle, silence, prompt>>
    BY <2>2 DEF futures, timers, clock
  <2>4. cancelling' \in BOOLEAN  BY <2>2
  <2>5. pc' \in {"created", "reading", "listening", "leaving", "exited", "done"}
    BY <2>1
  <2>6. QED  BY <2>1, <2>3, <2>4, <2>5 DEF TypeOK
<1>3. CASE RemoteSends
  BY <1>3 DEF RemoteSends, TypeOK, task, futures, timers
<1>4. CASE Timers
  <2>1. CASE AckDeadline
    BY <2>1, CloseType DEF AckDeadline, TypeOK
  <2>2. CASE EndAckTimer
    BY <2>2 DEF EndAckTimer, TypeOK, task, futures, clock
  <2>3. CASE IdleDeadline
    BY <2>3, CloseType DEF IdleDeadline
  <2>4. CASE EndIdleTimer
    BY <2>4 DEF EndIdleTimer, TypeOK, task, futures, clock
  <2>5. QED  BY <1>4, <2>1, <2>2, <2>3, <2>4 DEF Timers
<1>5. CASE HostCloses
  BY <1>5, CloseType DEF HostCloses, TypeOK
<1>6. CASE HostGivesUp
  BY <1>6 DEF HostGivesUp, TypeOK, task, timers, clock
<1>7. CASE Tick
  <2>1. AtMost(idle + 1) \in 0..IdleTimeout /\ AtMost(silence + 1) \in 0..IdleTimeout
    BY AtMostType DEF TypeOK
  <2>2. idle' \in 0..IdleTimeout /\ silence' \in 0..IdleTimeout
    BY <1>7, <2>1 DEF Tick
  <2>3. UNCHANGED <<task, closed, futures, timers, wire, prompt>>
    BY <1>7 DEF Tick
  <2>4. QED  BY <2>2, <2>3 DEF TypeOK, task, futures, timers
<1>8. CASE UNCHANGED vars
  BY <1>8 DEF vars, TypeOK, task, futures, timers, clock
<1>9. QED
  BY <1>1, <1>2, <1>3, <1>4, <1>5, <1>6, <1>7, <1>8 DEF Next, Terminated

LEMMA TypeInit == Init => TypeOK
  BY ClockBounds, WireType DEF Init, TypeOK

(* Every variable of a subscription keeps to its range, whatever the remote *)
(* sends and whenever it is closed.                                        *)
THEOREM TypeCorrect == Spec => []TypeOK
  BY TypeInit, TypeStep, PTL DEF Spec

-----------------------------------------------------------------------------
(* An invariant of the futures and timers: what completes does so in        *)
(* _on_task_done, and that leaves nothing open.                            *)
LEMMA CompletionInit == Init => CompletionMeansExited
  BY DEF Init, CompletionMeansExited

LEMMA CompletionStep ==
    ASSUME TypeOK, CompletionMeansExited, [Next]_vars
    PROVE  CompletionMeansExited'
<1> USE DEF CompletionMeansExited
<1>1. CASE Consume
  <2>1. CASE Begin \/ EndLeaving
    <3>1. pc' \in {"reading", "exited"} /\ UNCHANGED completion
             /\ pc \in {"created", "leaving"}
      BY <2>1 DEF Begin, EndLeaving, Exit, futures
    <3>2. QED  BY <3>1
  <2>2. CASE NeverBegun
    BY <2>2 DEF NeverBegun, futures
  <2>3. CASE ReadHeartbeat \/ ReadRejection \/ ReadEvent \/ ReadUnknown \/ ReadEnd
    <3>1. pc = "reading" /\ pc' \in {"reading", "listening", "leaving"}
             /\ UNCHANGED completion
      BY <2>3 DEF ReadHeartbeat, ReadRejection, ReadEvent, ReadUnknown, ReadEnd,
                  Reading, Leave, futures
    <3>2. QED  BY <3>1
  <2>4. CASE StopReading
    BY <2>4 DEF StopReading, Leave, futures
  <2>5. CASE TaskDone
    BY <2>5 DEF TaskDone, StopTimers, Acknowledged, TypeOK
  <2>6. QED  BY <1>1, <2>1, <2>2, <2>3, <2>4, <2>5 DEF Consume
<1>2. CASE EndListening
  <2>1. pc = "listening" /\ pc' \in {"reading", "leaving"} /\ UNCHANGED completion
    BY <1>2 DEF EndListening, Leave, futures
  <2>2. QED  BY <2>1
<1>3. CASE RemoteSends
  BY <1>3 DEF RemoteSends, task, futures
<1>4. CASE Timers
  <2>1. CASE AckDeadline
    BY <2>1 DEF AckDeadline, Close, Acknowledged
  <2>2. CASE EndAckTimer
    BY <2>2 DEF EndAckTimer, Acknowledged, task, futures
  <2>3. CASE IdleDeadline
    BY <2>3 DEF IdleDeadline, is_active, Close, Acknowledged
  <2>4. CASE EndIdleTimer
    BY <2>4 DEF EndIdleTimer, Acknowledged, task, futures
  <2>5. QED  BY <1>4, <2>1, <2>2, <2>3, <2>4 DEF Timers
<1>5. CASE HostCloses
  BY <1>5 DEF HostCloses, Close
<1>6. CASE HostGivesUp
  BY <1>6 DEF HostGivesUp, Acknowledged, task, timers
<1>7. CASE Tick
  BY <1>7 DEF Tick, Acknowledged, task, futures, timers
<1>8. CASE UNCHANGED vars
  BY <1>8 DEF vars, Acknowledged, task, futures, timers
<1>9. QED
  BY <1>1, <1>2, <1>3, <1>4, <1>5, <1>6, <1>7, <1>8 DEF Next, Terminated

(* The host that awaits the completion of a subscription knows that the     *)
(* streaming task is gone with its timers and both futures are settled.     *)
THEOREM CompletionCorrect == Spec => []CompletionMeansExited
<1>1. TypeOK /\ CompletionMeansExited /\ [Next]_vars
         => (TypeOK /\ CompletionMeansExited)'
  BY TypeStep, CompletionStep
<1>2. QED  BY <1>1, TypeInit, CompletionInit, PTL DEF Spec

-----------------------------------------------------------------------------
(* A closed subscription whose task is at work and may still hand an event  *)
(* to the listener is about to be cancelled.                               *)
ClosedIsCancelled ==
    pc \in {"created", "reading"} /\ closed => cancelling

LEMMA ClosedInit == Init => ClosedIsCancelled
  BY DEF Init, ClosedIsCancelled

LEMMA ClosedStep ==
    ASSUME TypeOK, ClosedIsCancelled, [Next]_vars
    PROVE  ClosedIsCancelled'
<1> USE DEF ClosedIsCancelled
<1>1. CASE Consume
  <2>1. CASE Begin
    BY <2>1 DEF Begin, Exit
  <2>2. CASE NeverBegun \/ EndLeaving \/ TaskDone
    BY <2>2 DEF NeverBegun, EndLeaving, Exit, TaskDone
  <2>3. CASE ReadHeartbeat
    BY <2>3 DEF ReadHeartbeat, Reading
  <2>4. CASE ReadRejection \/ ReadEnd \/ StopReading
    BY <2>4 DEF ReadRejection, ReadEnd, StopReading, Leave
  <2>5. CASE ReadEvent
    BY <2>5 DEF ReadEvent
  <2>6. CASE ReadUnknown
    BY <2>6 DEF ReadUnknown, Reading, Leave
  <2>7. QED  BY <1>1, <2>1, <2>2, <2>3, <2>4, <2>5, <2>6 DEF Consume
<1>2. CASE EndListening
  BY <1>2 DEF EndListening, Leave, is_active
<1>3. CASE RemoteSends
  BY <1>3 DEF RemoteSends, task
<1>4. CASE Timers
  BY <1>4 DEF Timers, AckDeadline, EndAckTimer, IdleDeadline, EndIdleTimer, Close,
              task
<1>5. CASE HostCloses
  BY <1>5 DEF HostCloses, Close
<1>6. CASE HostGivesUp
  BY <1>6 DEF HostGivesUp, task
<1>7. CASE Tick
  BY <1>7 DEF Tick, task
<1>8. CASE UNCHANGED vars
  BY <1>8 DEF vars, task
<1>9. QED
  BY <1>1, <1>2, <1>3, <1>4, <1>5, <1>6, <1>7, <1>8 DEF Next, Terminated

(* Only ReadEvent hands an event over, and it runs before the CancelledError. *)
LEMMA ListenStep ==
    ASSUME TypeOK, ClosedIsCancelled, [Next]_vars
    PROVE  [pc # "listening" /\ pc' = "listening" => ~closed]_vars
<1> SUFFICES ASSUME pc # "listening", pc' = "listening" PROVE ~closed
  OBVIOUS
<1>1. ReadEvent
  BY DEF Next, Terminated, Consume, Begin, NeverBegun, ReadHeartbeat,
         ReadRejection, ReadUnknown, ReadEnd, Reading, StopReading, EndLeaving,
         TaskDone, EndListening, RemoteSends, Timers, AckDeadline, EndAckTimer,
         IdleDeadline, EndIdleTimer, HostCloses, HostGivesUp, Tick, Close, Exit,
         Leave, vars, task
<1>2. pc = "reading" /\ ~cancelling  BY <1>1 DEF ReadEvent, Reading
<1>3. QED  BY <1>2 DEF ClosedIsCancelled

(* Whoever closes a subscription hears nothing more of it.                  *)
THEOREM SilenceCorrect == Spec => ListenerSilentAfterClose
<1>1. TypeOK /\ ClosedIsCancelled /\ [Next]_vars => (TypeOK /\ ClosedIsCancelled)'
  BY TypeStep, ClosedStep
<1>2. TypeOK /\ ClosedIsCancelled /\ [Next]_vars
         => [pc # "listening" /\ pc' = "listening" => ~closed]_vars
  BY ListenStep
<1>3. QED
  BY <1>1, <1>2, TypeInit, ClosedInit, PTL DEF Spec, ListenerSilentAfterClose

-----------------------------------------------------------------------------
(***************************************************************************)
(* Somebody sees to it that a subscription does not wait for ever: while   *)
(* it is open, the timer of the acknowledgement runs until it is there, and *)
(* the idle timer runs unless the host has given the completion up; and if *)
(* it is closed before its task reads or while it does, the task has been  *)
(* cancelled.                                                              *)
(***************************************************************************)
TimersStand ==
    ~closed =>
       /\ Acknowledged \/ ack_timer = "running"
       /\ completion = "abandoned" \/ idle_timer = "running"

Watched == TimersStand /\ ClosedIsCancelled

LEMMA TimersInit == Init => TimersStand
  BY DEF Init, TimersStand

LEMMA TimersStep ==
    ASSUME TypeOK, CompletionMeansExited, TimersStand, [Next]_vars
    PROVE  TimersStand'
<1> USE DEF TimersStand
<1>1. CASE Consume
  <2>1. CASE NeverBegun \/ StopReading \/ ReadHeartbeat \/ ReadUnknown \/ ReadEnd
    BY <2>1 DEF NeverBegun, StopReading, ReadHeartbeat, ReadUnknown, ReadEnd,
                Acknowledged, futures, timers
  <2>2. CASE Begin \/ EndLeaving
    BY <2>2 DEF Begin, EndLeaving, Exit, Acknowledged, futures, timers
  <2>3. CASE ReadRejection \/ TaskDone
    BY <2>3 DEF ReadRejection, TaskDone
  <2>4. CASE ReadEvent
    BY <2>4 DEF ReadEvent, Acknowledged, timers
  <2>5. QED  BY <1>1, <2>1, <2>2, <2>3, <2>4 DEF Consume
<1>2. CASE EndListening
  BY <1>2 DEF EndListening, Acknowledged, futures, timers
<1>3. CASE RemoteSends
  BY <1>3 DEF RemoteSends, Acknowledged, futures, timers
<1>4. CASE AckDeadline \/ IdleDeadline \/ HostCloses
  BY <1>4 DEF AckDeadline, IdleDeadline, HostCloses, Close
<1>5. CASE EndAckTimer
  BY <1>5 DEF EndAckTimer, Acknowledged, futures
<1>6. CASE EndIdleTimer
  <2>1. ~closed => completion # "pending"  BY <1>6 DEF EndIdleTimer, is_active
  <2>2. ~closed => completion = "abandoned"
    BY <2>1 DEF TypeOK, CompletionMeansExited
  <2>3. QED  BY <1>6, <2>2 DEF EndIdleTimer, Acknowledged, futures
<1>7. CASE HostGivesUp
  BY <1>7 DEF HostGivesUp, Acknowledged, timers
<1>8. CASE Tick
  BY <1>8 DEF Tick, Acknowledged, futures, timers
<1>9. CASE UNCHANGED vars
  BY <1>9 DEF vars, Acknowledged, futures, timers
<1>10. QED
  BY <1>1, <1>2, <1>3, <1>4, <1>5, <1>6, <1>7, <1>8, <1>9
     DEF Next, Timers, Terminated

(* An open subscription has its timers, and a closed one that would wait    *)
(* for the remote is cancelled.  What UsesEnd adds is that the timers fire  *)
(* and the task goes on.                                                   *)
THEOREM SubscriptionsAreWatched == Spec => []Watched
<1>1. TypeOK /\ CompletionMeansExited /\ TimersStand /\ [Next]_vars => TimersStand'
  BY TimersStep
<1>2. TypeOK /\ ClosedIsCancelled /\ [Next]_vars => ClosedIsCancelled'
  BY ClosedStep
<1>3. Spec => []TimersStand
  BY <1>1, TimersInit, TypeCorrect, CompletionCorrect, PTL DEF Spec
<1>4. Spec => []ClosedIsCancelled
  BY <1>2, ClosedInit, TypeCorrect, PTL DEF Spec
<1>5. TimersStand /\ ClosedIsCancelled => Watched  BY DEF Watched
<1>6. QED  BY <1>3, <1>4, <1>5, PTL

-----------------------------------------------------------------------------
(* While a prompt listener reads, the idle timer has not seen less activity *)
(* than there was: what was sent and not read was sent within the tick.     *)
Before == pc = "created" => wire = "nothing" /\ idle <= silence

Reception ==
    pc \in {"reading", "listening"} =>
        IF wire = "nothing" THEN idle <= silence ELSE silence = 0

KeepsUp == prompt => Before /\ Reception

LEMMA KeepsUpInit == Init => KeepsUp
  BY ClockBounds DEF Init, KeepsUp, Before, Reception

LEMMA KeepsUpStep ==
    ASSUME TypeOK, KeepsUp, [Next]_vars
    PROVE  KeepsUp'
<1>0. UNCHANGED prompt
  BY DEF Next, Terminated, Consume, Begin, NeverBegun, ReadHeartbeat,
         ReadRejection, ReadEvent, ReadUnknown, ReadEnd, Reading, StopReading,
         EndLeaving, TaskDone, EndListening, RemoteSends, Timers, AckDeadline,
         EndAckTimer, IdleDeadline, EndIdleTimer, HostCloses, HostGivesUp, Tick,
         Close, vars
<1> SUFFICES ASSUME prompt PROVE (Before /\ Reception)'
  BY <1>0 DEF KeepsUp
<1>a. Before /\ Reception  BY DEF KeepsUp
<1>b. idle \in 0..IdleTimeout /\ silence \in 0..IdleTimeout  BY DEF TypeOK
<1> USE DEF Before, Reception
<1> DEFINE kept == UNCHANGED <<wire, idle, silence>>
<1>1. ASSUME kept, pc' = pc PROVE (Before /\ Reception)'
  BY <1>1, <1>a
<1>2. ASSUME kept, pc' \notin {"created", "reading", "listening"}
      PROVE  (Before /\ Reception)'
  BY <1>2
<1>3. ASSUME pc' # "created", wire' = "nothing", idle' = 0, UNCHANGED silence
      PROVE  (Before /\ Reception)'
  BY <1>3, <1>b
<1>4. CASE Consume
  <2>1. CASE Begin
    <3>1. kept /\ pc = "created" /\ pc' \in {"reading", "exited"}
      BY <2>1 DEF Begin, Exit, clock
    <3>2. QED  BY <3>1, <1>a
  <2>2. CASE NeverBegun \/ EndLeaving \/ TaskDone \/ StopReading
    <3>1. kept /\ pc' \in {"exited", "done", "leaving"}
      BY <2>2 DEF NeverBegun, EndLeaving, TaskDone, StopReading, Exit, Leave, clock
    <3>2. QED  BY <1>2, <3>1
  <2>3. CASE ReadHeartbeat \/ ReadRejection \/ ReadEvent \/ ReadUnknown \/ ReadEnd
    <3>1. /\ pc' # "created" /\ wire' = "nothing" /\ idle' = 0
          /\ UNCHANGED silence
      BY <2>3 DEF ReadHeartbeat, ReadRejection, ReadEvent, ReadUnknown, ReadEnd,
                  Reading, Leave
    <3>2. QED  BY <1>3, <3>1
  <2>4. QED  BY <1>4, <2>1, <2>2, <2>3 DEF Consume
<1>5. CASE EndListening
  <2>1. kept /\ pc = "listening" /\ pc' \in {"reading", "leaving"}
    BY <1>5 DEF EndListening, Leave, clock
  <2>2. QED  BY <2>1, <1>a
<1>6. CASE RemoteSends
  <2>1. pc \in {"reading", "listening"} /\ pc' = pc /\ wire' # "nothing" /\ silence' = 0
    BY <1>6 DEF RemoteSends, task
  <2>2. QED  BY <2>1
<1>7. CASE Timers \/ HostCloses \/ HostGivesUp \/ UNCHANGED vars
  <2>1. kept /\ pc' = pc
    BY <1>7 DEF Timers, AckDeadline, EndAckTimer, IdleDeadline, EndIdleTimer,
                HostCloses, HostGivesUp, Close, vars, task, clock
  <2>2. QED  BY <1>1, <2>1
<1>8. CASE Tick
  <2>1. /\ pc' = pc /\ wire' = wire
        /\ idle' = AtMost(idle + 1) /\ silence' = AtMost(silence + 1)
        /\ pc \in {"created", "reading"} => wire = "nothing"
        /\ pc # "listening"
    BY <1>8, <1>a DEF Tick, task
  <2>2. pc \in {"created", "reading"} => idle <= silence  BY <2>1, <1>a
  <2>3. pc \in {"created", "reading"} => AtMost(idle + 1) <= AtMost(silence + 1)
    BY <2>2, <1>b, AtMostMonotone
  <2>4. pc \in {"created", "reading"} => idle' <= silence'
    BY <2>1, <2>3
  <2>5. QED  BY <2>1, <2>4
<1>9. QED
  BY <1>4, <1>5, <1>6, <1>7, <1>8 DEF Next, Terminated

LEMMA ReapStep ==
    ASSUME TypeOK, KeepsUp, [Next]_vars
    PROVE  [Reaps /\ prompt /\ pc \in {"reading", "listening"} => Silent]_vars
<1> SUFFICES ASSUME Reaps, prompt, pc \in {"reading", "listening"} PROVE Silent
  OBVIOUS
<1>1. IdleDeadline
  BY DEF Reaps, Next, Terminated, Consume, Begin, NeverBegun, ReadHeartbeat,
         ReadRejection, ReadEvent, ReadUnknown, ReadEnd, Reading, StopReading,
         EndLeaving, TaskDone, EndListening, RemoteSends, Timers, AckDeadline,
         EndAckTimer, IdleDeadline, EndIdleTimer, HostCloses, HostGivesUp, Tick,
         Close, Exit, vars, futures
<1>2. idle = IdleTimeout  BY <1>1 DEF IdleDeadline
<1>3. silence \in 0..IdleTimeout  BY DEF TypeOK
<1>4. IF wire = "nothing" THEN idle <= silence ELSE silence = 0
  BY DEF KeepsUp, Reception
<1>5. QED  BY <1>2, <1>3, <1>4, IdleAssumption DEF Silent

(* With a listener that keeps up, the idle timer lets go only of a stream   *)
(* that was silent for the whole idle timeout.                             *)
THEOREM ReapingCorrect == Spec => PromptListenerNotReaped
<1>1. TypeOK /\ KeepsUp /\ [Next]_vars => (TypeOK /\ KeepsUp)'
  BY TypeStep, KeepsUpStep
<1>2. TypeOK /\ KeepsUp /\ [Next]_vars
         => [Reaps /\ prompt /\ pc \in {"reading", "listening"} => Silent]_vars
  BY ReapStep
<1>3. QED
  BY <1>1, <1>2, TypeInit, KeepsUpInit, PTL DEF Spec, PromptListenerNotReaped
=============================================================================
