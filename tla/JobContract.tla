---------------------------- MODULE JobContract ----------------------------
(***************************************************************************)
(* What the task queue promises of a job: it is held by at most one worker *)
(* at a time, is held at most MaxRetries + 1 times, and once settled is     *)
(* never touched again.  One idempotency key names one job.  Leases,        *)
(* polling, processes and the order of the queue are left to WorkerQueue.   *)
(***************************************************************************)
EXTENDS Naturals

CONSTANTS Job, Worker, None, JobKey, MaxRetries

VARIABLES
  state,    \* "absent", "ready", "held" or "settled"
  holder,   \* the worker that holds a held job
  tries     \* how often a job has been held

vars == <<state, holder, tries>>

Init ==
  /\ state = [j \in Job |-> "absent"]
  /\ holder = [j \in Job |-> None]
  /\ tries = [j \in Job |-> 0]

Submit(j) ==
  /\ state[j] = "absent"
  /\ \A i \in Job : state[i] # "absent" /\ JobKey[i] = JobKey[j]
                      => JobKey[j] = None
  /\ state' = [state EXCEPT ![j] = "ready"]
  /\ UNCHANGED <<holder, tries>>

Take(j, w) ==
  /\ state[j] = "ready"
  /\ tries[j] <= MaxRetries[j]
  /\ state' = [state EXCEPT ![j] = "held"]
  /\ holder' = [holder EXCEPT ![j] = w]
  /\ tries' = [tries EXCEPT ![j] = @ + 1]

Release(j) ==
  /\ state[j] = "held"
  /\ tries[j] <= MaxRetries[j]
  /\ state' = [state EXCEPT ![j] = "ready"]
  /\ holder' = [holder EXCEPT ![j] = None]
  /\ UNCHANGED tries

Settle(j) ==
  /\ state[j] = "held"
  /\ state' = [state EXCEPT ![j] = "settled"]
  /\ holder' = [holder EXCEPT ![j] = None]
  /\ UNCHANGED tries

Next ==
  \E j \in Job : \/ Submit(j) \/ Release(j) \/ Settle(j)
                  \/ \E w \in Worker : Take(j, w)

Spec == Init /\ [][Next]_vars
=============================================================================
