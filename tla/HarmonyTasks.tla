----------------------------- MODULE HarmonyTasks -----------------------------
(***************************************************************************)
(* Harmony tasks: routed messages (src/lib/harmony/repository.ts,            *)
(* route-to-task.ts, state-machine.ts), their analysis by an agent           *)
(* (agent-runtime/repository.ts) and the loop that drives queued tasks       *)
(* through analysis and review (workflow/loop-engine.ts, loop-state.ts).     *)
(*                                                                          *)
(* A request is an HTTP call: its todo list holds the awaits it has still to *)
(* make.  What it read may be stale when it writes, for the writes name the  *)
(* row by id alone; the statements of one prisma.$transaction are one step.  *)
(* The loop runs an analysis in a race with a timer, and the analysis goes   *)
(* on when the timer wins.  Steps and audit events of a task are left out:   *)
(* nothing here reads them.                                                 *)
(***************************************************************************)
EXTENDS Naturals, Sequences, FiniteSets, Functions

CONSTANTS
  Request,       \* requests, and analyses begun by the loop, in flight at once
  Task,          \* tasks, each named by the idempotency key of its message
  None,
  Routed,        \* sequences of the tasks that may have been routed at the start
  Mode,          \* who may act: "serial", "overlap" or "loop" (below)
  MaxRequests(_), \* requests of a behaviour in which they overlap (a bound), by mode
  MaxRuns,       \* analyses of a task begun one after the other (a bound)
  MaxIterations, MaxConcurrent \* LoopConfig

ASSUME HarmonyAssumption ==
  /\ Mode \subseteq {"serial", "overlap", "loop"}
  /\ \A m \in Mode : MaxRequests(m) \in Nat
  /\ MaxRuns \in Nat
  /\ Routed \subseteq Seq(Task)
  /\ MaxIterations \in Nat /\ MaxConcurrent \in Nat \ {0}
  /\ None \notin Request

VARIABLES
  mode,          \* "serial": one request at a time; "overlap": requests overlap;
                 \* "loop": requests overlap the loop
  budget,        \* overlapping requests still to come
  status,        \* HarmonyTask.status
  created,       \* tasks in the order of createdAt
  confirmations, \* statuses of the confirmations of a task, oldest first
  runs,          \* AgentRun rows of a task: [result, keyed]
  request,       \* requests in flight
  loop,          \* the run of the loop (LoopState and where runIteration stands)
  bornPending,   \* history: tasks created waiting for a confirmation
  approved       \* history: tasks with a confirmation approved at some time

taskVars == <<status, created, confirmations, runs, bornPending, approved>>
vars == <<mode, budget, taskVars, request, loop>>

Status == {"queued", "pending_confirmation", "blocked", "assigned", "completed",
           "cancelled", "failed"}

\* AgentResult as the rest of the system reads it: "human" needs a confirmation;
\* "failed" is a result whose status says failed or blocked and that asks for none.
Result == {"completed", "failed", "human"}

\* transitions of state-machine.ts; no task is ever stored as a draft.
transitions ==
  { <<"pending_confirmation", "APPROVE_CONFIRMATION", "queued">>,
    <<"pending_confirmation", "REJECT_CONFIRMATION", "blocked">>,
    <<"queued", "ASSIGN_PLACEHOLDER", "assigned">>,
    <<"queued", "BLOCK", "blocked">>, <<"assigned", "BLOCK", "blocked">>,
    <<"assigned", "REQUEST_CONFIRMATION_FROM_ANALYSIS", "pending_confirmation">>,
    <<"assigned", "MARK_COMPLETED", "completed">> }
  \cup {<<s, "CANCEL", "cancelled">> : s \in {"pending_confirmation", "queued", "assigned"}}
  \cup {<<s, "FAIL", "failed">> :
          s \in {"pending_confirmation", "queued", "assigned", "blocked"}}

Allowed(s, e)    == \E t \in transitions : t[1] = s /\ t[2] = e
transition(s, e) == (CHOOSE t \in transitions : t[1] = s /\ t[2] = e)[3]

\* loopTransitions, as far as runLoop uses them
loopTransition(e) ==
  IF e \in {"FAIL", "CONSECUTIVE_FAILURES"} THEN "failed" ELSE "completed"

-----------------------------------------------------------------------------
(* Requests, as the awaits they make one after the other *)

Analysis == <<"findRun", "readEligible", "produce", "commit", "reread">>

Program == [
  route        |-> <<"findTask", "insertTask">>,
  approve      |-> <<"readApprovable", "approve">>,
  reject       |-> <<"readRejectable", "reject">>,
  cancel       |-> <<"readCancellable", "cancel">>,
  analyse      |-> Analysis,
  analyseKeyed |-> Analysis ]

\* idx is the confirmation decided; result, what the model answered.
Idle == [op |-> "none", task |-> None, idx |-> 0, result |-> "none", todo |-> <<>>]

NoLoop == [status |-> "idle", step |-> "done", iteration |-> 0, failures |-> 0,
           failed |-> 0, ready |-> <<>>, child |-> None, outcome |-> "none",
           decision |-> "none", saw |-> "none"]

TypeOK ==
  /\ mode \in Mode /\ budget \in 0..MaxRequests(mode)
  /\ status \in [Task -> {"absent"} \cup Status]
  /\ created \in Seq(Task)
  /\ confirmations \in [Task -> Seq({"pending", "approved", "rejected"})]
  /\ runs \in [Task -> Seq([result : Result, keyed : BOOLEAN])]
  /\ bornPending \subseteq Task /\ approved \subseteq Task
  /\ DOMAIN request = Request
  /\ loop.child \in Request \cup {None}

\* The tasks routed by now, in the order of their creation, each as it was created.
Init ==
  /\ mode \in Mode /\ budget = MaxRequests(mode)
  /\ created \in Routed
  /\ \E b \in SUBSET Range(created) :
       /\ bornPending = b
       /\ status = [t \in Task |->
            IF t \notin Range(created) THEN "absent"
            ELSE IF t \in b THEN "pending_confirmation" ELSE "queued"]
       /\ confirmations = [t \in Task |-> IF t \in b THEN <<"pending">> ELSE <<>>]
  /\ runs = [t \in Task |-> <<>>] /\ approved = {}
  /\ request = [c \in Request |-> Idle] /\ loop = NoLoop

-----------------------------------------------------------------------------
(* A request advances *)

At(c, step) == request[c].todo # <<>> /\ Head(request[c].todo) = step

\* Where the next call is kept: the slots are interchangeable.
Free(c) == request[c] = Idle /\ c = CHOOSE d \in Request : request[d] = Idle

Go(c, q) == request' = [request EXCEPT ![c] = [q EXCEPT !.todo = Tail(@)]]

\* A request ends; the loop that awaits this analysis gets the outcome.
End(c, outcome) ==
  /\ request' = [request EXCEPT ![c] = Idle]
  /\ loop' = IF loop.child # c THEN loop
             ELSE [loop EXCEPT !.child = None, !.outcome = outcome,
                     !.step = IF outcome = "error" THEN "readAdvance" ELSE "review"]

\* A read and its checks: go on, or throw (or return what is there).
Check(c, step, ok) ==
  /\ At(c, step)
  /\ \/ ok /\ Go(c, request[c]) /\ UNCHANGED loop
     \/ ~ok /\ End(c, "error")
  /\ UNCHANGED <<mode, budget, taskVars>>

Begin(c) ==
  /\ Free(c)
  /\ \/ mode = "serial" /\ (\A d \in Request : request[d] = Idle) /\ UNCHANGED budget
     \/ mode # "serial" /\ budget > 0 /\ budget' = budget - 1
  /\ \E op \in DOMAIN Program, t \in Task : \E i \in 0..Len(confirmations[t]) :
       /\ IF op \in {"approve", "reject"} THEN i > 0 ELSE i = 0
       /\ op = "route" \/ status[t] # "absent"
       /\ op \in {"analyse", "analyseKeyed"} => Len(runs[t]) < MaxRuns
       /\ request' = [request EXCEPT ![c] =
            [op |-> op, task |-> t, idx |-> i, result |-> "none", todo |-> Program[op]]]
  /\ UNCHANGED <<mode, taskVars, loop>>

\* The call fails at any await: a query throws, or the process dies.
Abandon(c) ==
  /\ request[c] # Idle /\ End(c, "error")
  /\ UNCHANGED <<mode, budget, taskVars>>

-----------------------------------------------------------------------------
(* Routing and the human decisions *)

FindTask(c) == Check(c, "findTask", status[request[c].task] = "absent")

\* resolveInitialStatus: the status a route decision gives its task
InitialStatus == {"queued", "pending_confirmation", "blocked"}

\* createTaskFromRoute: the task and its confirmation in one transaction, which
\* the unique idempotency key makes fail when the task is there already.
InsertTask(c) ==
  LET t == request[c].task IN
  /\ At(c, "insertTask") /\ End(c, "done")
  /\ \/ /\ status[t] # "absent"
        /\ UNCHANGED taskVars
     \/ /\ status[t] = "absent"
        /\ \E s \in InitialStatus :
             /\ status' = [status EXCEPT ![t] = s]
             /\ confirmations' = [confirmations EXCEPT ![t] =
                  IF s = "pending_confirmation" THEN <<"pending">> ELSE <<>>]
             /\ bornPending' = IF s = "pending_confirmation" THEN bornPending \cup {t}
                               ELSE bornPending
        /\ created' = Append(created, t)
        /\ UNCHANGED <<runs, approved>>
  /\ UNCHANGED <<mode, budget>>

Decidable(c, event) ==
  /\ confirmations[request[c].task][request[c].idx] = "pending"
  /\ Allowed(status[request[c].task], event)

ReadApprovable(c) == Check(c, "readApprovable", Decidable(c, "APPROVE_CONFIRMATION"))
ReadRejectable(c) == Check(c, "readRejectable", Decidable(c, "REJECT_CONFIRMATION"))

\* The task was pending when it was read, which fixes the status written.
Approve(c) ==
  LET t == request[c].task IN
  /\ At(c, "approve") /\ End(c, "done")
  /\ confirmations' = [confirmations EXCEPT ![t] = [@ EXCEPT ![request[c].idx] = "approved"]]
  /\ status' = [status EXCEPT ![t] = "queued"]
  /\ approved' = approved \cup {t}
  /\ UNCHANGED <<mode, budget, created, runs, bornPending>>

Reject(c) ==
  LET t == request[c].task IN
  /\ At(c, "reject") /\ End(c, "done")
  /\ confirmations' = [confirmations EXCEPT ![t] = [@ EXCEPT ![request[c].idx] = "rejected"]]
  /\ status' = [status EXCEPT ![t] = "blocked"]
  /\ UNCHANGED <<mode, budget, created, runs, bornPending, approved>>

ReadCancellable(c) ==
  Check(c, "readCancellable", Allowed(status[request[c].task], "CANCEL"))

Cancel(c) ==
  /\ At(c, "cancel") /\ End(c, "done")
  /\ status' = [status EXCEPT ![request[c].task] = "cancelled"]
  /\ UNCHANGED <<mode, budget, created, confirmations, runs, bornPending, approved>>

-----------------------------------------------------------------------------
(* Analysis: startAgentRunFromTask *)

KeyTaken(c) ==
  /\ request[c].op = "analyseKeyed"
  /\ \E i \in 1..Len(runs[request[c].task]) : runs[request[c].task][i].keyed

FindRun(c) == Check(c, "findRun", ~KeyTaken(c))

\* A plausible defect: only a pending confirmation stops an analysis.
NoPendingConfirmation(t) ==
  \A i \in 1..Len(confirmations[t]) : confirmations[t][i] # "pending"
\* assertTaskEligible
Eligible(t) ==
  /\ status[t] = "queued"
  /\ \A i \in 1..Len(confirmations[t]) : confirmations[t][i] # "pending"

ReadEligible(c) == Check(c, "readEligible", Eligible(request[c].task))

\* The answer of the model, or a result that validateAgentResult refuses.  An
\* answer may never come.
Produce(c) ==
  /\ At(c, "produce")
  /\ \/ /\ \E r \in Result : Go(c, [request[c] EXCEPT !.result = r])
        /\ UNCHANGED loop
     \/ End(c, "error")
  /\ UNCHANGED <<mode, budget, taskVars>>

\* A plausible defect: the unique key of agent_runs is gone.
CommitAnyKey(c) == TRUE
KeyIsFree(c) == ~KeyTaken(c)

\* A plausible defect: the confirmation of the analysis is forgotten.
NoConfirmation(s) == s
AddConfirmation(s) == Append(s, "pending")

\* The transaction: the run, and the task assigned or, when the result asks for
\* it, pending with a confirmation, whatever the task's status is by now.
Commit(c) ==
  LET t == request[c].task
      human == request[c].result = "human" IN
  /\ At(c, "commit")
  /\ \/ /\ KeyIsFree(c)
        /\ Go(c, request[c]) /\ UNCHANGED loop
        /\ runs' = [runs EXCEPT ![t] =
             Append(@, [result |-> request[c].result,
                        keyed |-> request[c].op = "analyseKeyed"])]
        /\ status' = [status EXCEPT ![t] =
             IF human THEN "pending_confirmation" ELSE "assigned"]
        /\ confirmations' = [confirmations EXCEPT ![t] =
             IF human THEN AddConfirmation(@) ELSE @]
        /\ UNCHANGED <<created, bornPending, approved>>
     \/ ~KeyIsFree(c) /\ End(c, "error") /\ UNCHANGED taskVars
  /\ UNCHANGED <<mode, budget>>

\* The run is read back for the caller.
Reread(c) ==
  /\ At(c, "reread") /\ End(c, request[c].result)
  /\ UNCHANGED <<mode, budget, taskVars>>

-----------------------------------------------------------------------------
(* The loop engine *)

LoopAt(step) == loop.status = "running" /\ loop.step = step

StartLoop ==
  /\ mode = "loop" /\ loop = NoLoop
  /\ loop' = [loop EXCEPT !.status = "running", !.iteration = 1, !.step = "scan"]
  /\ UNCHANGED <<mode, budget, taskVars, request>>

StopLoop(reason) ==
  loop' = [NoLoop EXCEPT !.status = loopTransition(reason), !.iteration = loop.iteration]

\* scanReadyTasks: where the oldest queued tasks stand in the order of creation.
Oldest ==
  LET queued == {i \in DOMAIN created : status[created[i]] = "queued"} IN
  {i \in queued : Cardinality({j \in queued : j <= i}) <= MaxConcurrent}

Scan ==
  /\ LoopAt("scan")
  /\ \/ Oldest = {} /\ StopLoop("NO_READY_TASKS")
     \/ /\ Oldest # {}
        /\ \E list \in [1..Cardinality(Oldest) -> Oldest] :
             /\ \A i, j \in DOMAIN list : i < j => list[i] < list[j]
             /\ loop' = [loop EXCEPT !.step = "execute", !.failed = 0,
                           !.ready = [i \in DOMAIN list |-> created[list[i]]]]
  /\ UNCHANGED <<mode, budget, taskVars, request>>

\* executeTask starts the analysis and a timer.
Execute(c) ==
  /\ LoopAt("execute") /\ Free(c)
  /\ request' = [request EXCEPT ![c] =
       [op |-> "analyse", task |-> Head(loop.ready), idx |-> 0, result |-> "none",
        todo |-> Analysis]]
  /\ loop' = [loop EXCEPT !.step = "await", !.child = c]
  /\ UNCHANGED <<mode, budget, taskVars>>

\* A plausible defect: the timer is armed for the first iteration only.
ArmedOnce == loop.iteration = 1
Armed == loop.child # None

\* The timer wins the race; the analysis goes on.
Timeout ==
  /\ LoopAt("await") /\ Armed
  /\ loop' = [loop EXCEPT !.child = None, !.outcome = "error", !.step = "readAdvance"]
  /\ UNCHANGED <<mode, budget, taskVars, request>>

\* produceDeterministicEval of a stored result: its side effects are empty, its
\* status a string and its boundary check at most asks for a review, so that no
\* check is ever blocked or failed and the gate says pass.
Review ==
  /\ LoopAt("review")
  /\ loop' = [loop EXCEPT !.decision = "pass", !.step = "readAdvance"]
  /\ UNCHANGED <<mode, budget, taskVars, request>>

ReadAdvance ==
  /\ LoopAt("readAdvance")
  /\ loop' = [loop EXCEPT !.saw = status[Head(loop.ready)], !.step = "advance"]
  /\ UNCHANGED <<mode, budget, taskVars, request>>

\* advanceTask: the event an outcome and a review send to the task
eventOf(outcome, decision) ==
  IF outcome = "error" THEN "FAIL"
  ELSE IF outcome = "human" THEN "REQUEST_CONFIRMATION_FROM_ANALYSIS"
  ELSE IF decision = "blocked" THEN "BLOCK"
  ELSE IF decision = "fail" THEN "FAIL" ELSE "MARK_COMPLETED"

\* Does the loop count this task as failed?
CountsAsFailed(event, moved) ==
  event = "FAIL" \/ (event = "MARK_COMPLETED" /\ ~moved)

shouldTerminate(iteration, failures) ==
  IF iteration >= MaxIterations THEN "MAX_ITERATIONS_REACHED"
  ELSE IF failures >= 3 THEN "CONSECUTIVE_FAILURES" ELSE "none"

\* The end of an iteration: whether to go on is decided by the next iteration's
\* number and by the failures before this one.
FinishTask(failed) ==
  LET clean == [loop EXCEPT !.outcome = "none", !.decision = "none", !.saw = "none"]
      next == [clean EXCEPT !.ready = Tail(@), !.failed = failed]
      reason == shouldTerminate(loop.iteration + 1, loop.failures) IN
  IF next.ready # <<>> THEN loop' = [next EXCEPT !.step = "execute"]
  ELSE IF reason # "none" THEN StopLoop(reason)
  ELSE loop' = [next EXCEPT !.step = "scan", !.iteration = @ + 1, !.failed = 0,
                  !.failures = IF failed > 0 THEN @ + failed ELSE 0]

\* The status seen decides; an event it forbids, or a failing write, is swallowed.
Advance ==
  LET t == Head(loop.ready)
      e == eventOf(loop.outcome, loop.decision) IN
  /\ LoopAt("advance")
  /\ \/ /\ Allowed(loop.saw, e)
        /\ status' = [status EXCEPT ![t] = transition(loop.saw, e)]
        /\ FinishTask(loop.failed + (IF CountsAsFailed(e, TRUE) THEN 1 ELSE 0))
     \/ /\ FinishTask(loop.failed + (IF CountsAsFailed(e, FALSE) THEN 1 ELSE 0))
        /\ UNCHANGED status
  /\ UNCHANGED <<mode, budget, created, confirmations, runs, bornPending, approved, request>>

\* A query of the loop throws outside the handlers of executeTask and advanceTask.
LoopFails ==
  /\ loop.status = "running" /\ loop.step \in {"scan", "execute", "review", "readAdvance"}
  /\ StopLoop("FAIL")
  /\ UNCHANGED <<mode, budget, taskVars, request>>

-----------------------------------------------------------------------------
RequestStep(c) ==
  \/ FindTask(c) \/ InsertTask(c)
  \/ ReadApprovable(c) \/ Approve(c) \/ ReadRejectable(c) \/ Reject(c)
  \/ ReadCancellable(c) \/ Cancel(c)
  \/ FindRun(c) \/ ReadEligible(c) \/ Produce(c) \/ Commit(c) \/ Reread(c)

LoopStep == StartLoop \/ Scan \/ (\E c \in Request : Execute(c)) \/ Review \/ ReadAdvance
            \/ Advance \/ LoopFails

Next ==
  \/ \E c \in Request : Begin(c) \/ Abandon(c) \/ RequestStep(c)
  \/ LoopStep \/ Timeout

\* Node runs the loop's continuations and its timers; a request, and the model it
\* waits for, may take for ever.
Fairness == WF_vars(LoopStep) /\ WF_vars(Timeout)

Spec == Init /\ [][Next]_vars /\ Fairness

-----------------------------------------------------------------------------
(* Properties *)

\* A task that waits for a confirmation has one to decide, however requests
\* overlap: otherwise nothing but cancelling it would ever move it.  One request
\* at a time, a confirmation waits only beside a waiting or a cancelled task.
WaitsForDecision ==
  \A t \in Task :
    LET pending == {i \in 1..Len(confirmations[t]) : confirmations[t][i] = "pending"} IN
    /\ mode # "loop" /\ status[t] = "pending_confirmation" => pending # {}
    /\ mode = "serial" /\ pending # {} =>
         status[t] \in {"pending_confirmation", "cancelled"}

\* A task that was routed to Kelvin first is analysed only after a confirmation of
\* it was approved, whatever approvals, refusals, analyses and the loop interleave.
AnalysedAfterApproval ==
  \A t \in bornPending : runs[t] # <<>> => t \in approved

\* The analysis of one idempotency key is stored once, though two requests with
\* that key both find nothing and both ask the model.
KeyedAnalysisOnce ==
  \A t \in Task : \A i, j \in 1..Len(runs[t]) :
    runs[t][i].keyed /\ runs[t][j].keyed => i = j

\* One request at a time, a task moves as the table says, an analysis passing
\* through assigned; a task that is cancelled moves no more.
TaskFollowsTable ==
  [][mode = "serial" => \A t \in Task : status'[t] # status[t] =>
       \/ status[t] = "absent"
       \/ \E e \in transitions : e[1] = status[t] /\ e[3] = status'[t]
       \/ status[t] = "queued" /\ status'[t] = "pending_confirmation"]_vars

\* Every run of the loop ends, even when no model ever answers: a bounded number
\* of iterations, each bounded by the timer.
LoopEnds == loop.status = "running" ~> loop.status \in {"completed", "failed"}

-----------------------------------------------------------------------------
(* What the code does not keep *)

\* An analysis that says it failed does not complete its task: the review that
\* should stop it passes every stored result.
FailedIsNotCompleted ==
  \A t \in Task : status[t] = "completed" =>
    \E i \in 1..Len(runs[t]) : runs[t][i].result = "completed"

\* A finished task stays as it is: the analysis the loop gave up on writes its
\* task when it ends, and so does a decision that read the task before.
FinishedStays ==
  [][\A t \in Task :
       status[t] \in {"cancelled", "failed", "completed"} => status'[t] = status[t]]_vars

\* A confirmation that is still pending can be decided or its task is over: two
\* analyses leave a queued task with a confirmation that nothing can decide.
PendingCanBeDecided ==
  \A t \in Task : (\E i \in 1..Len(confirmations[t]) : confirmations[t][i] = "pending") =>
    status[t] \in {"pending_confirmation", "cancelled", "failed"}

\* A waiting task has a confirmation to decide, even beside the loop.
LoopLeavesDecision ==
  \A t \in Task : status[t] = "pending_confirmation" =>
    \E i \in 1..Len(confirmations[t]) : confirmations[t][i] = "pending"
=============================================================================
