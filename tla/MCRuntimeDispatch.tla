-------------------------- MODULE MCRuntimeDispatch --------------------------
(* Instances of RuntimeDispatch for TLC: which operations the callers use. *)
EXTENDS RuntimeDispatch, TLC

EveryOp == DOMAIN Program

\* What the worker daemon and the operator scripts use: jobs are claimed by id.
ById == EveryOp \ {"postToken", "postJob", "claim"}

\* Callers, workers and plans are interchangeable.
Symmetry == Permutations(Call) \cup Permutations(Worker) \cup Permutations(Key)
=============================================================================
