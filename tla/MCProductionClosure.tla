-------------------------- MODULE MCProductionClosure --------------------------
(* Instances of ProductionClosure for TLC. *)
EXTENDS ProductionClosure, TLC

CONSTANTS k1, w1, c1, e1, e2
=============================================================================
