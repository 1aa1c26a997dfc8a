--------------------------- MODULE ChatDelegation ---------------------------
(***************************************************************************)
(* How a chat message is delegated to agents: scheduleSubTasks runs the    *)
(* subtasks round by round (src/src/lib/agents/task-scheduler.ts), each    *)
(* through executeRecordedAgentTask (recorded-task-executor.ts), which     *)
(* keeps a record of the run, turns blocked tool requests into an intent   *)
(* and a plan (execution-gateway/tool-request-intent.ts) and writes audit  *)
(* events.  Every statement of the database may fail.                      *)
(***************************************************************************)
EXTENDS Integers, FiniteSets

CONSTANTS Subtask,    \* the numbers of the subtasks the router proposed
          Limit,      \* those above it are dropped
          MaxTurns,   \* questions of one turn loop to the model
          MaxDbFailures  \* a bound of the model

ASSUME DelegationBounds ==
  /\ Subtask \subseteq Nat /\ Limit \in Nat
  /\ MaxTurns \in Nat \ {0} /\ MaxDbFailures \in Nat

Limited == {i \in Subtask : i <= Limit}

VARIABLES dependsOn, \* Limited -> SUBSET Subtask, as the router proposed
          recorded,  \* the request has a correlationId
          run,       \* Limited -> where its execution is and what it has made
          result,    \* Limited -> "none", "completed" or "failed"
          answer,    \* "none", then "returned"; "lost" when the process stops
          dbFailures

delegationVars == <<dependsOn, recorded, run, result, answer, dbFailures>>

NotRun == [step |-> "waiting", turn |-> 0, record |-> "none", status |-> "none",
           blocked |-> FALSE, intent |-> FALSE, plan |-> FALSE]

DelegationInit ==
  /\ dependsOn \in [Limited -> SUBSET Subtask] /\ recorded \in BOOLEAN
  /\ run = [i \in Limited |-> NotRun] /\ result = [i \in Limited |-> "none"]
  /\ answer = "none" /\ dbFailures = 0

InStep(i, step) == answer = "none" /\ run[i].step = step
Step(i, to) == run' = [run EXCEPT ![i].step = to]

-----------------------------------------------------------------------------
(* scheduleSubTasks *)

InRound == {i \in Limited : run[i].step \notin {"waiting", "over"}}

\* A failed subtask counts as completed for those that depend on it.
ReadySubtasks == {i \in Limited : run[i].step = "waiting" /\
                    \A d \in dependsOn[i] : d \in Limited /\ run[d].step = "over"}

StartRound ==
  /\ answer = "none" /\ InRound = {} /\ ReadySubtasks # {}
  /\ run' = [i \in Limited |-> IF i \in ReadySubtasks
               THEN [NotRun EXCEPT !.step = IF recorded THEN "create" ELSE "agent"] ELSE run[i]]
  /\ UNCHANGED <<dependsOn, recorded, result, answer, dbFailures>>

\* A loop that goes on until every subtask has run.
ReturnWhenAllRan ==
  /\ answer = "none" /\ \A i \in Limited : run[i].step = "over"
  /\ answer' = "returned"
  /\ UNCHANGED <<dependsOn, recorded, run, result, dbFailures>>

\* What no round could start is answered as failed.
ReturnResults ==
  /\ answer = "none" /\ InRound = {} /\ ReadySubtasks = {}
  /\ result' = [i \in Limited |-> IF result[i] = "none" THEN "failed" ELSE result[i]]
  /\ answer' = "returned"
  /\ UNCHANGED <<dependsOn, recorded, run, dbFailures>>

Resolve(i, outcome) == Step(i, "over") /\ result' = [result EXCEPT ![i] = outcome]

-----------------------------------------------------------------------------
(* executeAgentTask never throws.  It asks the model turn by turn; tools are  *)
(* withheld, whatever allowDirectToolExecution says.                         *)

\* An intent only for a run that failed.
IntentIfFailed(status, blocked) == IF blocked /\ status = "failed" THEN "intent" ELSE "close"

AfterAgent(status, blocked) == IF blocked THEN "intent" ELSE "close"

\* Once a tool was withheld the task counts as completed, however it ends.
TaskStatus(success, blocked) == IF success \/ blocked THEN "completed" ELSE "failed"

AgentReturns(i, success, blocked) ==
  LET status == TaskStatus(success, blocked) IN
  IF recorded
  THEN /\ run' = [run EXCEPT ![i].step = AfterAgent(status, blocked),
                              ![i].status = status, ![i].blocked = blocked]
       /\ UNCHANGED result
  ELSE Resolve(i, status)

\* The model asks for a tool and is told that it is blocked.
ToolWithheld(i) ==
  /\ InStep(i, "agent")
  /\ IF run[i].turn + 1 < MaxTurns
     THEN /\ run' = [run EXCEPT ![i].turn = @ + 1, ![i].blocked = TRUE]
          /\ UNCHANGED result
     ELSE AgentReturns(i, FALSE, TRUE)
  /\ UNCHANGED <<dependsOn, recorded, answer, dbFailures>>

\* The model answers in text, or fails, or is late.
ModelAnswers(i) ==
  /\ InStep(i, "agent")
  /\ \E success \in BOOLEAN : AgentReturns(i, success, run[i].blocked)
  /\ UNCHANGED <<dependsOn, recorded, answer, dbFailures>>

(* The statements of executeRecordedAgentTask *)

\* What the next statement of subtask i leaves in run[i].
AfterStatement(i) ==
  LET r == run[i] IN
  CASE r.step = "create" -> [r EXCEPT !.step = "audit_started", !.record = "started"]
    [] r.step = "audit_started" -> [r EXCEPT !.step = "agent"]
    [] r.step = "intent" -> [r EXCEPT !.step = "plan", !.intent = TRUE]
    [] r.step = "plan" -> [r EXCEPT !.step = "close", !.plan = TRUE]
    [] r.step = "close" -> [r EXCEPT !.step = IF r.blocked THEN "audit_blocked" ELSE "audit_ended",
                                     !.record = r.status]
    [] r.step = "audit_blocked" -> [r EXCEPT !.step = "audit_ended"]
    [] r.step = "mark_failed" -> [r EXCEPT !.step = "audit_failed", !.record = "failed"]
    [] OTHER -> [r EXCEPT !.step = "over"]   \* audit_ended, audit_failed

InStatement(i) == answer = "none" /\ run[i].step \notin {"waiting", "agent", "over"}

Statement(i) ==
  /\ InStatement(i)
  /\ run' = [run EXCEPT ![i] = AfterStatement(i)]
  /\ result' = IF run'[i].step = "over"
               THEN [result EXCEPT ![i] = IF run[i].step = "audit_ended" THEN run[i].status ELSE "failed"]
               ELSE result
  /\ UNCHANGED <<dependsOn, recorded, answer, dbFailures>>

\* Before the try block and in its catch block an error goes to the scheduler,
\* inside the try block to the catch block.
StatementFails(i) ==
  /\ InStatement(i) /\ dbFailures < MaxDbFailures
  /\ dbFailures' = dbFailures + 1
  /\ IF run[i].step \in {"create", "audit_started", "mark_failed", "audit_failed"}
     THEN Resolve(i, "failed")
     ELSE Step(i, "mark_failed") /\ UNCHANGED result
  /\ UNCHANGED <<dependsOn, recorded, answer>>

ProcessStops ==
  /\ answer = "none" /\ answer' = "lost"
  /\ UNCHANGED <<dependsOn, recorded, run, result, dbFailures>>

\* The steps of the running process; nothing obliges a statement to fail.
DelegationStep ==
  \/ StartRound \/ ReturnResults
  \/ \E i \in Limited :
       \/ ToolWithheld(i) \/ ModelAnswers(i) \/ Statement(i)

DelegationBreaks == ProcessStops \/ \E i \in Limited : StatementFails(i)

-----------------------------------------------------------------------------
(* Properties *)

\* A run recorded as completed whose tools were withheld has the intent and the
\* plan by which they can be approved, at any moment another request, or the
\* next process, can read it; and a subtask answered as completed is recorded so.
CompletedRunIsWhole ==
  \A i \in Limited :
    /\ run[i].record = "completed" /\ run[i].blocked => run[i].intent /\ run[i].plan
    /\ result[i] = "completed" /\ recorded => run[i].record = "completed"

-----------------------------------------------------------------------------
(* Statements that the code does not keep *)

\* A run that was recorded as completed stays so.
CompletedRunStays ==
  [][\A i \in Limited : run[i].record = "completed" => run'[i].record = "completed"]_delegationVars

\* When the results are returned no run is left as started.
NoRunLeftStarted == answer = "returned" => \A i \in Limited : run[i].record # "started"

\* A subtask whose dependency failed is not executed.
FailureStopsDependents ==
  [][\A i \in Limited : run[i].step = "waiting" /\ run'[i].step # "waiting"
       => \A d \in dependsOn[i] : result[d] # "failed"]_delegationVars
=============================================================================
