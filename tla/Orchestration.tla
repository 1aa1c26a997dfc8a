----------------------------- MODULE Orchestration -----------------------------
(***************************************************************************)
(* The multi-agent orchestrator (src/lib/agent-runtime/orchestrator.ts) and  *)
(* its subtasks (subtask-manager.ts): a task is decomposed, its subtasks are *)
(* created as Harmony tasks and executed in batches, failed ones are planned *)
(* anew, and the results are collected.                                     *)
(*                                                                          *)
(* Subtasks of a batch run side by side (Promise.all), each through its own  *)
(* awaits; the batch ends with the last of them.  Requests may cancel the    *)
(* Harmony task of a subtask meanwhile.  What the summary says is left out,  *)
(* and so is the plan's content: a replan may replace the failed subtasks by *)
(* the ones kept for it, or by none.                                        *)
(***************************************************************************)
EXTENDS Naturals, FiniteSets

CONSTANTS
  First, Second,  \* indices of the subtasks of the decomposition and of the replan
  dependsOn,      \* SubtaskDefinition.dependsOn
  maxParallel, maxRetries

Subtask == First \cup Second

VARIABLES
  phase,    \* where runOrchestration stands
  plan,     \* the records executeBatch was given
  record,   \* SubtaskRecord.status
  batch,    \* subtasks of the batch in flight
  step,     \* the await a subtask of the batch has reached
  attempt,  \* executions tried for it in this batch
  status,   \* HarmonyTask.status of a subtask
  taskRuns  \* HarmonyTaskRun rows of a subtask's task

vars == <<phase, plan, record, batch, step, attempt, status, taskRuns>>

Init ==
  /\ phase = "create" /\ plan = First
  /\ record = [s \in Subtask |-> "none"]
  /\ batch = {} /\ step = [s \in Subtask |-> "idle"]
  /\ attempt = [s \in Subtask |-> 0]
  /\ status = [s \in Subtask |-> "absent"]
  /\ taskRuns = [s \in Subtask |-> 0]

\* The transitions of state-machine.ts that updateSubtaskStatus asks for
Moves(s, e) ==
  CASE e = "ASSIGN_PLACEHOLDER" -> s = "queued"
    [] e = "MARK_COMPLETED"     -> s = "assigned"
    [] e = "FAIL" -> s \in {"pending_confirmation", "queued", "assigned", "blocked"}
    [] e = "CANCEL" -> s \in {"pending_confirmation", "queued", "assigned"}

-----------------------------------------------------------------------------
\* createSubtask: a queued Harmony task, and no TaskRun row beside it.
CreateSubtask(s) ==
  /\ phase = "create" /\ s \in plan /\ status[s] = "absent"
  /\ \A r \in plan : r < s => status[r] # "absent"
  /\ status' = [status EXCEPT ![s] = "queued"]
  /\ record' = [record EXCEPT ![s] = "pending"]
  /\ phase' = IF \A r \in plan \ {s} : status[r] # "absent" THEN "execute" ELSE "create"
  /\ UNCHANGED <<plan, batch, step, attempt, taskRuns>>

\* canExecute
canExecute(s) ==
  /\ record[s] \notin {"running", "completed", "cancelled"}
  /\ \A d \in dependsOn[s] : d \in plan /\ record[d] = "completed"

getExecutableSubtasks == {s \in plan : canExecute(s)}

\* executeBatch takes the first maxParallel executable records.
StartBatch ==
  /\ phase = "execute" /\ batch = {} /\ getExecutableSubtasks # {}
  /\ batch' = {s \in getExecutableSubtasks :
       Cardinality({r \in getExecutableSubtasks : r < s}) < maxParallel}
  /\ step' = [s \in Subtask |-> IF s \in batch' THEN "running" ELSE "idle"]
  /\ attempt' = [s \in Subtask |-> 0]
  /\ UNCHANGED <<phase, plan, record, status, taskRuns>>

\* Nothing is executable: a failed record blocks the pending ones.
EndBatches ==
  /\ phase = "execute" /\ batch = {} /\ getExecutableSubtasks = {}
  /\ record' = [s \in Subtask |->
       IF /\ s \in plan /\ record[s] = "pending"
          /\ \E r \in plan : record[r] = "failed"
       THEN "blocked" ELSE record[s]]
  /\ phase' = IF plan = First /\ \E s \in plan : record[s] = "failed"
              THEN "replan" ELSE "done"
  /\ UNCHANGED <<plan, batch, step, attempt, status, taskRuns>>

\* replanFailedSubtasks: the replacements, or none.
Replan ==
  /\ phase = "replan"
  /\ \/ phase' = "done" /\ UNCHANGED plan
     \/ phase' = "create" /\ plan' = Second /\ Second # {}
  /\ UNCHANGED <<record, batch, step, attempt, status, taskRuns>>

-----------------------------------------------------------------------------
(* executeSubtask *)

\* updateSubtaskStatus: the Harmony task follows when its table allows it; a
\* refused transition is logged and swallowed.
Sync(s, e, to) ==
  status' = IF Moves(status[s], e) THEN [status EXCEPT ![s] = to] ELSE status

MarkRunning(s) ==
  /\ s \in batch /\ step[s] = "running"
  /\ Sync(s, "ASSIGN_PLACEHOLDER", "assigned")
  /\ record' = [record EXCEPT ![s] = "running"]
  /\ step' = [step EXCEPT ![s] = "analyse"]
  /\ UNCHANGED <<phase, plan, batch, attempt, taskRuns>>

\* What startAgentRunFromTask requires before it asks a model
Startable(s) == status[s] = "queued" /\ taskRuns[s] > 0

\* One attempt: an analysis that succeeds, or an error that is tried again.
Analyse(s) ==
  /\ s \in batch /\ step[s] = "analyse"
  /\ \/ /\ Startable(s)
        /\ \E to \in {"assigned", "pending_confirmation"} :
             status' = [status EXCEPT ![s] = to]
        /\ step' = [step EXCEPT ![s] = "complete"]
        /\ UNCHANGED attempt
     \/ /\ step' = [step EXCEPT ![s] = IF attempt[s] < maxRetries THEN "analyse" ELSE "fail"]
        /\ attempt' = [attempt EXCEPT ![s] = @ + 1]
        /\ UNCHANGED status
  /\ UNCHANGED <<phase, plan, record, batch, taskRuns>>

Settle(s, e, to) ==
  /\ Sync(s, e, to)
  /\ record' = [record EXCEPT ![s] = to]
  /\ step' = [step EXCEPT ![s] = "idle"]
  /\ batch' = batch \ {s}
  /\ UNCHANGED <<phase, plan, attempt, taskRuns>>

Complete(s) == s \in batch /\ step[s] = "complete" /\ Settle(s, "MARK_COMPLETED", "completed")
Fail(s)     == s \in batch /\ step[s] = "fail" /\ Settle(s, "FAIL", "failed")

\* A user cancels the Harmony task of a subtask (harmony/repository.ts).
CancelTask(s) ==
  /\ Moves(status[s], "CANCEL")
  /\ status' = [status EXCEPT ![s] = "cancelled"]
  /\ UNCHANGED <<phase, plan, record, batch, step, attempt, taskRuns>>

-----------------------------------------------------------------------------
SubtaskStep(s) == MarkRunning(s) \/ Analyse(s) \/ Complete(s) \/ Fail(s)
Orchestrate == (\E s \in Subtask : CreateSubtask(s)) \/ StartBatch \/ EndBatches \/ Replan

Next == Orchestrate \/ \E s \in Subtask : SubtaskStep(s) \/ CancelTask(s)

\* runOrchestration is one promise: every await of it is answered.
Fairness == WF_vars(Orchestrate) /\ \A s \in Subtask : WF_vars(SubtaskStep(s))

Spec == Init /\ [][Next]_vars /\ Fairness

\* Every orchestration ends, its failed subtasks retried or escalated.  It does not:
\* a subtask is assigned before startAgentRunFromTask, which takes queued tasks
\* with a TaskRun only, so that it fails; and a failed record is executable again.
OrchestrationEnds == <>(phase = "done")
=============================================================================
