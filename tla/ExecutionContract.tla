-------------------------- MODULE ExecutionContract --------------------------
(***************************************************************************)
(* What the execution of controlled tool runs promises, whoever asks for it *)
(* and whenever a request ends: a plan is confirmed before it is executed,  *)
(* a receipt is about an execution that was begun, and a run is reported    *)
(* successful on the strength of a receipt that says so.  Requests that     *)
(* come one after the other get more: each run is executed and answered     *)
(* once, and by either executor only under a confirmed plan.                *)
(***************************************************************************)
EXTENDS Naturals

CONSTANTS Run, Plan, Executor,
          Careful      \* the executors that look at the plan themselves

VARIABLES alone,       \* do requests come one after the other?
          confirmed,   \* plans that were approved
          begun,       \* executions: [run, plan, by, n]
          answered,    \* receipts: [run, plan, by, ok]
          succeeded    \* runs reported successful

vars == <<alone, confirmed, begun, answered, succeeded>>

Of(records, r) == {x \in records : x.run = r}

Init ==
  /\ alone \in BOOLEAN
  /\ confirmed = {} /\ begun = {} /\ answered = {} /\ succeeded = {}

Confirm(p) ==
  /\ confirmed' = confirmed \cup {p}
  /\ UNCHANGED <<alone, begun, answered, succeeded>>

\* A second execution of a run is told from the first.
Begin(r, p, by) ==
  /\ alone \/ by \in Careful => p \in confirmed
  /\ alone => Of(begun, r) = {}
  /\ begun' = begun \cup
       {[run |-> r, plan |-> p, by |-> by, n |-> IF Of(begun, r) = {} THEN 1 ELSE 2]}
  /\ succeeded' = succeeded \ {r}
  /\ UNCHANGED <<alone, confirmed, answered>>

\* The receipt, with the report of success or before it.
Answer(r, p, by, ok) ==
  /\ \E x \in Of(begun, r) : x.plan = p /\ x.by = by
  /\ alone => Of(answered, r) = {}
  /\ answered' = answered \cup {[run |-> r, plan |-> p, by |-> by, ok |-> ok]}
  /\ \/ succeeded' = succeeded
     \/ ok /\ succeeded' = succeeded \cup {r}
  /\ UNCHANGED <<alone, confirmed, begun>>

Report(r) ==
  /\ \E x \in Of(answered, r) : x.ok
  /\ succeeded' = succeeded \cup {r}
  /\ UNCHANGED <<alone, confirmed, begun, answered>>

\* The run is cancelled, or an overlapping request writes its status.
Withdraw(r) ==
  /\ succeeded' = succeeded \ {r}
  /\ UNCHANGED <<alone, confirmed, begun, answered>>

Next ==
  \/ \E p \in Plan : Confirm(p)
  \/ \E r \in Run : Report(r) \/ Withdraw(r)
  \/ \E r \in Run, p \in Plan, by \in Executor :
       Begin(r, p, by) \/ \E ok \in BOOLEAN : Answer(r, p, by, ok)

Spec == Init /\ [][Next]_vars
=============================================================================
