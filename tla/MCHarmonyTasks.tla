--------------------------- MODULE MCHarmonyTasks ---------------------------
(* Instances of HarmonyTasks for TLC. *)
EXTENDS HarmonyTasks

CONSTANTS t1, r1, r2, r3

\* Overlapping requests: three beside each other, one beside the loop.
RequestsOf(m) == IF m = "overlap" THEN 3 ELSE IF m = "loop" THEN 1 ELSE 0

\* The task is still to be routed, or was routed before.
RoutedTasks == {<<>>, <<t1>>}
=============================================================================
