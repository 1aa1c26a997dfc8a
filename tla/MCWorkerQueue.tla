---------------------------- MODULE MCWorkerQueue ----------------------------
(***************************************************************************)
(* Instances of WorkerQueue for TLC.                                        *)
(***************************************************************************)
EXTENDS WorkerQueue, TLC

CONSTANTS j1, j2, j3, w1, w2, s1, s2

NoKeys      == [j \in Job |-> None]
KeyForTwo   == [j \in Job |-> IF j = j3 THEN None ELSE "key"]
SamePrio    == [j \in Job |-> 2]
NoNeeds     == [j \in Job |-> {}]
SandboxOnly == [w \in Worker |-> {"sandbox"}]
OneRetry    == [j \in Job |-> 1]

\* Only w2 can do what j1 and j2 need.
GitNeeds    == [j \in Job |-> IF j = j3 THEN {} ELSE {"git"}]
GitOnW2     == [w \in Worker |-> IF w = w2 THEN {"git"} ELSE {"sandbox"}]

\* j1 and j2 come first and need what no worker has; j3 needs nothing.
DeployFirst == [j \in Job |-> IF j = j3 THEN 2 ELSE 0]
DeployNeeds == [j \in Job |-> IF j = j3 THEN {} ELSE {"deploy"}]
=============================================================================
