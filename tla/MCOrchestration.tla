--------------------------- MODULE MCOrchestration ---------------------------
(* Instances of Orchestration for TLC. *)
EXTENDS Orchestration

\* The second subtask waits for the first; the replacement waits for none.
Dependencies == [s \in Subtask |-> IF s = 1 THEN {0} ELSE {}]
=============================================================================
