----------------------------- MODULE MCToolRuns -----------------------------
(* Instances of ToolRuns for TLC: the tools of the registry a run may have. *)
EXTENDS ToolRuns, TLC

T(category, valid, sideEffects, command) ==
  [category |-> category, valid |-> valid, sideEffects |-> sideEffects,
   command |-> command]

\* A no-op whose input names a command, one with an invalid input, and the
\* sandbox write.
Registry == { T("internal_noop", TRUE, FALSE, TRUE),
              T("internal_noop", FALSE, FALSE, FALSE),
              T("write_sandbox", TRUE, FALSE, FALSE) }

\* Any of them when requests follow one another; the first when they overlap.
Cases == (Registry \X {FALSE})
           \cup {<<T("internal_noop", TRUE, FALSE, TRUE), TRUE>>}

\* When requests overlap, those that take a run from its plan to its execution.
Ops(overlapping) ==
  IF overlapping THEN {"planCall", "submit", "rejectPlan", "approve", "cancelRun",
                       "execute", "command"}
  ELSE DOMAIN Program

Symmetry == Permutations(Request) \cup Permutations(Run) \cup Permutations(Plan)
=============================================================================
