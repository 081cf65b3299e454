--------------------------- MODULE MCStepExecution ---------------------------
(***************************************************************************)
(* An instance of StepExecution for TLC: every step of up to three         *)
(* subtasks and two outgoing edges, under each strategy.                 *)
(***************************************************************************)
EXTENDS StepExecution, TLC

CONSTANTS u1, u2, u3, e1, e2
=============================================================================
