--------------------------- MODULE MCEngineClient ---------------------------
(***************************************************************************)
(* Instances of EngineClient for TLC.                                      *)
(***************************************************************************)
EXTENDS EngineClient

CONSTANTS t1, t2, c1, c2
=============================================================================
