-------------------------------- MODULE Clock --------------------------------
(* The clock that cached tokens are judged by, in ticks.                   *)
EXTENDS Naturals

CONSTANT MaxTime        \* bound on time

ASSUME ClockAssumption == MaxTime \in Nat

VARIABLE now

ClockInit == now = 0

Tick == now < MaxTime /\ now' = now + 1
=============================================================================
