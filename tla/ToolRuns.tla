------------------------------ MODULE ToolRuns ------------------------------
(***************************************************************************)
(* Tool calls and controlled tool runs (src/lib/tools/repository.ts,         *)
(* execution.ts, policy.ts, state-machine.ts) and the second executor of an  *)
(* approved run (human-gated-execution.ts).                                  *)
(*                                                                          *)
(* One tool call, proposed by an agent, gets a permission and any number of  *)
(* runs; a run gets a plan, the plan a confirmation that Kelvin approves or  *)
(* rejects, and an approved run is executed.  A request is an HTTP call: its  *)
(* todo list holds the awaits it has still to make.  It reads and checks, and *)
(* then writes by id alone, so that what it checked may be stale; only the    *)
(* statements of one prisma.$transaction are one step.                        *)
(*                                                                          *)
(* The recovery point and the observability events of a run are inserted     *)
(* beside these writes and read by nothing here: they are left out, as is a  *)
(* failed validation of a result, which buildSuccessResult never produces.   *)
(***************************************************************************)
EXTENDS Naturals, Sequences, FiniteSets

CONSTANTS
  Request,    \* requests that may be in flight at once
  Run, Plan,  \* ids of tool_runs and tool_execution_plans rows (a bound on both)
  None,       \* SQL NULL
  Case,       \* <<what the call proposes, may requests overlap?>>
  Op(_),      \* the operations used, given whether requests overlap
  MaxRequests \* overlapping requests of a behaviour (a bound)

Tool == [category : {"internal_noop", "read_simulated", "write_sandbox"},
         valid : BOOLEAN, sideEffects : BOOLEAN, command : BOOLEAN]

ASSUME CaseAssumption == Case \subseteq Tool \X BOOLEAN /\ MaxRequests \in Nat
ASSUME NullAssumption == None \notin Run \cup Plan

VARIABLES
  tool,        \* the tool of the call, chosen once
  overlap,     \* do requests overlap in this behaviour?
  budget,      \* requests that may still overlap
  callStatus,  \* ToolCall.status
  callArt,     \* ToolCall.confirmationArtifactId, an index of artifacts; 0 is NULL
  artifacts,   \* status of the confirmations that evaluations created
  permissions, \* decisions of the ToolPermission rows, oldest first
  runStatus,   \* ToolRun.status
  runPlan,     \* ToolRun.executionPlanId
  planStatus,  \* ToolExecutionPlan.status
  planRun,     \* ToolExecutionPlan.toolRunId
  planArt,     \* status of the plan's confirmation
  expired,     \* plans whose expiresAt has passed
  receipts,    \* ToolExecutionReceipt rows: [run, plan, by, ok]
  request,     \* requests in flight
  started,     \* history: executions begun, [run, plan, by, n]
  confirmed    \* history: plans whose confirmation was approved at some time

callVars == <<callStatus, callArt, artifacts>>
runVars  == <<runStatus, runPlan>>
planVars == <<planStatus, planRun, planArt, expired, confirmed>>
fixed    == <<tool, overlap, budget>>
vars == <<tool, overlap, budget, callStatus, callArt, artifacts, permissions, runStatus,
          runPlan, planStatus, planRun, planArt, expired, receipts, request,
          started, confirmed>>

CallStatus == {"proposed", "pending_confirmation", "approved_record", "rejected",
               "permission_denied", "blocked", "cancelled"}
RunStatus  == {"created", "awaiting_permission", "awaiting_confirmation",
               "approved_for_execution", "executing", "succeeded", "failed",
               "rejected", "cancelled"}
Decision   == {"allow_record_only", "allow_controlled_execution", "requires_human",
               "deny"}
Executor   == {"repository", "human_gated"}

\* toolCallTransitions
callTransitions ==
  { <<"proposed", "EVALUATE_PERMISSION", "proposed">>,
    <<"proposed", "DENY_PERMISSION", "permission_denied">>,
    <<"proposed", "REQUIRE_CONFIRMATION", "pending_confirmation">>,
    <<"pending_confirmation", "APPROVE_RECORD", "approved_record">>,
    <<"pending_confirmation", "REJECT_TOOL_CALL", "rejected">> }
  \cup {<<s, "CANCEL_TOOL_CALL", "cancelled">> :
          s \in {"proposed", "pending_confirmation", "approved_record", "blocked"}}

\* toolRunTransitions of a controlled run
runTransitions ==
  { <<"created", "REQUEST_PERMISSION", "awaiting_permission">>,
    <<"awaiting_permission", "REQUIRE_EXECUTION_CONFIRMATION", "awaiting_confirmation">>,
    <<"awaiting_confirmation", "APPROVE_FOR_EXECUTION", "approved_for_execution">>,
    <<"awaiting_confirmation", "REJECT_EXECUTION", "rejected">>,
    <<"approved_for_execution", "START_APPROVED_EXECUTION", "executing">>,
    <<"executing", "SUCCEED_EXECUTION", "succeeded">>,
    <<"executing", "FAIL_EXECUTION", "failed">>,
    <<"executing", "CANCEL_EXECUTION", "cancelled">> }

Allowed(table, s, e) == \E t \in table : t[1] = s /\ t[2] = e

-----------------------------------------------------------------------------
(* The policy *)

\* deniedToolCategories of the default-deny profile names the categories of both
\* tools below but the no-op, so that the branch that would allow the sandbox
\* write is never reached.
evaluateToolPermission(t) ==
  IF ~t.valid THEN "deny"
  ELSE IF t.sideEffects \/ t.category = "write_sandbox" THEN "requires_human"
  ELSE IF t.category = "read_simulated" THEN "deny"
  ELSE "allow_record_only"

eventForPermission(d) ==
  IF d = "requires_human" THEN "REQUIRE_CONFIRMATION"
  ELSE IF d = "deny" THEN "DENY_PERMISSION" ELSE "EVALUATE_PERMISSION"

\* getLatestPermission
Latest == IF permissions = <<>> THEN "none" ELSE permissions[Len(permissions)]

-----------------------------------------------------------------------------
(* The requests, as the awaits they make one after the other *)

RequestPermission ==
  <<"readCreated", "readPermission", "insertPermission", "rereadPermission",
    "awaitPermission">>

PlanExecution ==
  <<"readPlannable", "findPlan", "readAllowed", "createArtifact", "insertPlan">>

CreateRun == <<"findRun", "insertRun">>

ApproveExecution ==
  <<"readRun", "readPlan", "recallPermission", "readConfirmed", "approve">>

\* A plausible defect: the plan and its confirmation are not read again.
ExecuteUnchecked == <<"readRun", "start", "receipt">>
\* A plausible defect: the receipt is written before the run starts.
ExecuteReceiptFirst ==
  <<"readRun", "readPlan", "recallPermission", "readExecutable", "receipt", "start">>
ExecuteApproved ==
  <<"readRun", "readPlan", "recallPermission", "readExecutable", "start", "receipt">>

ExecuteCommand == <<"readCommand", "startCommand", "receiptCommand", "settleCommand">>

\* A plausible defect: the call's status is written before its confirmation.
ApproveCallFirst == <<"readPending", "approveCall", "approveArtifact">>
ApproveCall == <<"readPending", "approveArtifact", "approveCall">>

RejectPlan ==
  <<"readSubmitted", "rejectPlanArtifact", "planRejected", "readAwaiting", "rejectRun">>

Program == [
  evaluate    |-> <<"readCall", "readLatest", "evaluate">>,
  cancelCall  |-> <<"readCancellable", "cancelCall">>,
  approveCall |-> ApproveCall,
  rejectCall  |-> <<"readPending", "rejectArtifact", "rejectCall">>,
  createRun   |-> CreateRun,
  permit      |-> RequestPermission,
  plan        |-> PlanExecution,
  planCall    |-> CreateRun \o PlanExecution,
  submit      |-> <<"readSubmitted", "approvePlanArtifact", "planReady">>,
  rejectPlan  |-> RejectPlan,
  approve     |-> ApproveExecution,
  cancelRun   |-> <<"readRun", "cancelRun">>,
  execute     |-> ExecuteApproved,
  command     |-> ExecuteCommand ]

ASSUME OpAssumption == \A b \in BOOLEAN : Op(b) \subseteq DOMAIN Program

\* saw is the status read (of the call or the run); was, the decision or the plan
\* status read; idx, the confirmation of the call.
Idle == [op |-> "none", run |-> None, plan |-> None, saw |-> "none",
         was |-> "none", idx |-> 0, todo |-> <<>>]

TypeOK ==
  /\ tool \in Tool /\ overlap \in BOOLEAN /\ budget \in 0..MaxRequests
  /\ callStatus \in CallStatus
  /\ callArt \in 0..Len(artifacts)
  /\ \A i \in 1..Len(artifacts) : artifacts[i] \in {"pending", "approved", "rejected"}
  /\ \A i \in 1..Len(permissions) : permissions[i] \in Decision
  /\ runStatus \in [Run -> {"absent"} \cup RunStatus]
  /\ runPlan \in [Run -> Plan \cup {None}]
  /\ planStatus \in [Plan -> {"absent", "ready_for_confirmation", "approved_record",
                              "rejected"}]
  /\ planRun \in [Plan -> Run \cup {None}]
  /\ planArt \in [Plan -> {"none", "pending", "approved", "rejected"}]
  /\ expired \subseteq Plan /\ confirmed \subseteq Plan
  /\ receipts \subseteq [run : Run, plan : Plan, by : Executor, ok : BOOLEAN]
  /\ DOMAIN request = Request

Init ==
  /\ \E k \in Case : tool = k[1] /\ overlap = k[2]
  /\ budget = MaxRequests
  /\ callStatus = "proposed" /\ callArt = 0
  /\ artifacts = <<>> /\ permissions = <<>>
  /\ runStatus = [r \in Run |-> "absent"]
  /\ runPlan = [r \in Run |-> None]
  /\ planStatus = [p \in Plan |-> "absent"]
  /\ planRun = [p \in Plan |-> None]
  /\ planArt = [p \in Plan |-> "none"]
  /\ expired = {} /\ receipts = {}
  /\ request = [c \in Request |-> Idle]
  /\ started = {} /\ confirmed = {}

-----------------------------------------------------------------------------
(* A request advances *)

At(c, step) == request[c].todo # <<>> /\ Head(request[c].todo) = step

\* The next await; n is the number of awaits skipped.
Proceed(c, q, n) ==
  request' = [request EXCEPT ![c] =
    IF n + 1 >= Len(q.todo) THEN Idle
    ELSE [q EXCEPT !.todo = SubSeq(@, n + 2, Len(@))]]

Go(c)   == Proceed(c, request[c], 0)
Quit(c) == request' = [request EXCEPT ![c] = Idle]

\* A read and its checks: go on with what was read, or throw (or return).
Check(c, step, ok, q) ==
  /\ At(c, step)
  /\ \/ ok /\ Proceed(c, q, 0)
     \/ ~ok /\ Quit(c)
  /\ UNCHANGED <<fixed, callVars, permissions, runVars, planVars, receipts, started>>

RunOps  == {"permit", "plan", "approve", "cancelRun", "execute", "command"}
PlanOps == {"submit", "rejectPlan"}

Begin(c) ==
  /\ request[c] = Idle
  /\ \/ overlap /\ budget > 0 /\ budget' = budget - 1
     \/ ~overlap /\ (\A d \in Request : request[d] = Idle) /\ UNCHANGED budget
  /\ \E op \in Op(overlap), r \in Run \cup {None}, p \in Plan \cup {None} :
       /\ IF op \in RunOps THEN r # None /\ runStatus[r] # "absent" ELSE r = None
       /\ IF op \in PlanOps THEN p # None /\ planStatus[p] # "absent" ELSE p = None
       /\ request' = [request EXCEPT ![c] =
            [Idle EXCEPT !.op = op, !.run = r, !.plan = p, !.todo = Program[op]]]
  /\ UNCHANGED <<tool, overlap, callVars, permissions, runVars, planVars, receipts, started>>

-----------------------------------------------------------------------------
(* The tool call: evaluation and review *)

ReadCall(c) == Check(c, "readCall", TRUE, [request[c] EXCEPT !.saw = callStatus])

\* A permission that is there is returned as it is; a call that is no longer
\* proposed cannot be evaluated.
ReadLatest(c) ==
  Check(c, "readLatest",
        /\ permissions = <<>>
        /\ Allowed(callTransitions, request[c].saw,
                   eventForPermission(evaluateToolPermission(tool))),
        request[c])

NewArtifact  == Len(artifacts) + 1

\* evaluatePermissionForToolCall: one transaction.
Evaluate(c) ==
  LET d == evaluateToolPermission(tool)
      e == eventForPermission(d)
      human == e = "REQUIRE_CONFIRMATION" IN
  /\ At(c, "evaluate") /\ Go(c)
  /\ permissions' = Append(permissions, d)
  /\ artifacts' = IF human THEN Append(artifacts, "pending") ELSE artifacts
  /\ callArt' = IF human THEN NewArtifact ELSE 0
  /\ \E t \in callTransitions :
       t[1] = request[c].saw /\ t[2] = e /\ callStatus' = t[3]
  /\ UNCHANGED <<fixed, runVars, planVars, receipts, started>>

ReadCancellable(c) ==
  Check(c, "readCancellable", Allowed(callTransitions, callStatus, "CANCEL_TOOL_CALL"),
        request[c])

\* findToolCallByConfirmationId finds the call of its latest confirmation only.
ReadPending(c) ==
  Check(c, "readPending", callArt # 0 /\ callStatus = "pending_confirmation",
        [request[c] EXCEPT !.idx = callArt])

ReviewArtifact(c) ==
  /\ \/ /\ At(c, "approveArtifact")
        /\ artifacts' = [artifacts EXCEPT ![request[c].idx] = "approved"]
     \/ /\ At(c, "rejectArtifact")
        /\ artifacts' = [artifacts EXCEPT ![request[c].idx] = "rejected"]
  /\ Go(c)
  /\ UNCHANGED <<fixed, callStatus, callArt, permissions, runVars, planVars,
                 receipts, started>>

\* updateToolCallStatus
UpdateCall(c) ==
  /\ \/ At(c, "approveCall") /\ callStatus' = "approved_record"
     \/ At(c, "rejectCall") /\ callStatus' = "rejected"
     \/ At(c, "cancelCall") /\ callStatus' = "cancelled"
  /\ Go(c)
  /\ UNCHANGED <<fixed, callArt, artifacts, permissions, runVars, planVars,
                 receipts, started>>

-----------------------------------------------------------------------------
(* Creating a run and asking for its permission *)

\* A plausible defect: every request makes a run of its own.
NoRunFound == TRUE
NoRunOfKey == \A r \in Run : runStatus[r] = "absent"

\* The key controlled-tool-run:<call> is looked up and not unique.
FindRun(c) ==
  /\ At(c, "findRun")
  /\ \/ NoRunOfKey /\ Go(c)
     \/ /\ ~NoRunOfKey
        /\ \E r \in Run : /\ runStatus[r] # "absent"
                          /\ Proceed(c, [request[c] EXCEPT !.run = r], 1)
  /\ UNCHANGED <<fixed, callVars, permissions, runVars, planVars, receipts, started>>

InsertRun(c) ==
  /\ At(c, "insertRun")
  /\ \E r \in Run :
       /\ runStatus[r] = "absent"
       /\ runStatus' = [runStatus EXCEPT ![r] = "created"]
       /\ Proceed(c, [request[c] EXCEPT !.run = r], 0)
  /\ UNCHANGED <<fixed, callVars, permissions, runPlan, planVars, receipts, started>>

ReadCreated(c) ==
  Check(c, "readCreated", runStatus[request[c].run] = "created", request[c])

\* A plausible defect: a refusal is superseded too.
GrantsAll == Latest # "allow_controlled_execution"
Grants == Latest \in {"none", "allow_record_only"}

\* getOrCreateControlledPermission: a record-only permission is superseded, a
\* refusal is returned, and refuses.
ReadPermission(c) ==
  /\ At(c, "readPermission")
  /\ \/ Latest = "allow_controlled_execution" /\ Proceed(c, request[c], 2)
     \/ Grants /\ Go(c)
     \/ Latest # "allow_controlled_execution" /\ ~Grants /\ Quit(c)
  /\ UNCHANGED <<fixed, callVars, permissions, runVars, planVars, receipts, started>>

InsertPermission(c) ==
  /\ At(c, "insertPermission") /\ Go(c)
  /\ permissions' = Append(permissions, "allow_controlled_execution")
  /\ UNCHANGED <<fixed, callVars, runVars, planVars, receipts, started>>

RereadPermission(c) ==
  Check(c, "rereadPermission", Latest = "allow_controlled_execution", request[c])

\* updateToolRunStatus: by id, whatever the status has become.
SetRun(c, step, s) ==
  /\ At(c, step) /\ Go(c)
  /\ runStatus' = [runStatus EXCEPT ![request[c].run] = s]
  /\ UNCHANGED <<fixed, callVars, permissions, runPlan, planVars, receipts>>

AwaitPermission(c) ==
  SetRun(c, "awaitPermission", "awaiting_permission") /\ UNCHANGED started

-----------------------------------------------------------------------------
(* Planning an execution *)

\* A created run first asks for its permission and is read again.
ReadPlannable(c) ==
  LET q == request[c]  s == runStatus[q.run] IN
  /\ At(c, "readPlannable") \/ At(c, "readPlannableAgain")
  /\ \/ s \in {"awaiting_permission", "awaiting_confirmation"}
        /\ Proceed(c, [q EXCEPT !.saw = s], 0)
     \/ /\ s = "created" /\ At(c, "readPlannable")
        /\ request' = [request EXCEPT ![c].todo =
             RequestPermission \o <<"readPlannableAgain">> \o Tail(@)]
     \/ /\ s \notin {"awaiting_permission", "awaiting_confirmation"}
        /\ s # "created" \/ At(c, "readPlannableAgain")
        /\ Quit(c)
  /\ UNCHANGED <<fixed, callVars, permissions, runVars, planVars, receipts, started>>

\* The existing plan is the answer.
FindPlan(c) ==
  Check(c, "findPlan", \A p \in Plan : planStatus[p] # "absent" => planRun[p] # request[c].run,
        request[c])

ReadAllowed(c) ==
  Check(c, "readAllowed",
        /\ Latest = "allow_controlled_execution"
        /\ Allowed(runTransitions, request[c].saw, "REQUIRE_EXECUTION_CONFIRMATION"),
        request[c])

\* The confirmation is inserted before, and outside, the plan's transaction.
CreateArtifact(c) ==
  /\ At(c, "createArtifact")
  /\ \E p \in Plan :
       /\ planArt[p] = "none"
       /\ planArt' = [planArt EXCEPT ![p] = "pending"]
       /\ Proceed(c, [request[c] EXCEPT !.plan = p], 0)
  /\ UNCHANGED <<fixed, callVars, permissions, runVars, planStatus, planRun, expired,
                 confirmed, receipts, started>>

InsertPlan(c) ==
  LET q == request[c] IN
  /\ At(c, "insertPlan") /\ Go(c)
  /\ planStatus' = [planStatus EXCEPT ![q.plan] = "ready_for_confirmation"]
  /\ planRun' = [planRun EXCEPT ![q.plan] = q.run]
  /\ runStatus' = [runStatus EXCEPT ![q.run] = "awaiting_confirmation"]
  /\ runPlan' = [runPlan EXCEPT ![q.run] = q.plan]
  /\ UNCHANGED <<fixed, callVars, permissions, planArt, expired, confirmed, receipts,
                 started>>

-----------------------------------------------------------------------------
(* Review of a plan and approval of its run *)

ReadSubmitted(c) ==
  Check(c, "readSubmitted", TRUE, [request[c] EXCEPT !.run = planRun[request[c].plan]])

\* Nothing looks at the status that the confirmation or the plan already has.
ReviewPlan(c) ==
  LET p == request[c].plan IN
  /\ \/ /\ At(c, "approvePlanArtifact")
        /\ planArt' = [planArt EXCEPT ![p] = "approved"]
        /\ confirmed' = confirmed \cup {p}
     \/ /\ At(c, "rejectPlanArtifact")
        /\ planArt' = [planArt EXCEPT ![p] = "rejected"]
        /\ UNCHANGED confirmed
  /\ Go(c)
  /\ UNCHANGED <<fixed, callVars, permissions, runVars, planStatus, planRun, expired,
                 receipts, started>>

\* updateExecutionPlanStatus
UpdatePlan(c) ==
  LET p == request[c].plan IN
  /\ \/ /\ At(c, "planReady")
        /\ planStatus' = [planStatus EXCEPT ![p] = "ready_for_confirmation"]
     \/ /\ At(c, "planRejected")
        /\ planStatus' = [planStatus EXCEPT ![p] = "rejected"]
  /\ Go(c)
  /\ UNCHANGED <<fixed, callVars, permissions, runVars, planRun, planArt, expired,
                 confirmed, receipts, started>>

\* An approved run cannot be rejected: the call throws after it rejected the plan.
ReadAwaiting(c) ==
  Check(c, "readAwaiting",
        Allowed(runTransitions, runStatus[request[c].run], "REJECT_EXECUTION"), request[c])

RejectRun(c) == SetRun(c, "rejectRun", "rejected") /\ UNCHANGED started

\* requireToolRun; what follows needs the plan of the run, except the cancellation.
ReadRun(c) ==
  LET q == request[c] IN
  Check(c, "readRun", q.op = "cancelRun" \/ runPlan[q.run] # None,
        [q EXCEPT !.saw = runStatus[q.run], !.plan = runPlan[q.run]])

ReadPlan(c) ==
  Check(c, "readPlan", TRUE, [request[c] EXCEPT !.was = planStatus[request[c].plan]])

RecallPermission(c) ==
  Check(c, "recallPermission", Latest = "allow_controlled_execution", request[c])

\* validateExecutionPreconditions, after the last of its reads.
Preconditions(c, runIs, planIs) ==
  LET q == request[c] IN
  /\ runIs = "approved_for_execution" /\ planIs = "approved_record"
  /\ q.plan \notin expired
  /\ planArt[q.plan] = "approved"

\* The approval is validated as if the run and the plan were approved already.
ReadConfirmed(c) ==
  Check(c, "readConfirmed",
        /\ Preconditions(c, "approved_for_execution", "approved_record")
        /\ Allowed(runTransitions, request[c].saw, "APPROVE_FOR_EXECUTION"),
        request[c])

\* approveToolRunExecution: one transaction.
Approve(c) ==
  LET q == request[c] IN
  /\ At(c, "approve") /\ Go(c)
  /\ planStatus' = [planStatus EXCEPT ![q.plan] = "approved_record"]
  /\ runStatus' = [runStatus EXCEPT ![q.run] = "approved_for_execution"]
  /\ UNCHANGED <<fixed, callVars, permissions, runPlan, planRun, planArt, expired,
                 confirmed, receipts, started>>

\* cancelToolExecution: any run, a finished one too, becomes cancelled.
CancelRun(c) == SetRun(c, "cancelRun", "cancelled") /\ UNCHANGED started

-----------------------------------------------------------------------------
(* Execution *)

ReadExecutable(c) ==
  Check(c, "readExecutable", Preconditions(c, request[c].saw, request[c].was), request[c])

\* History: the n-th start of the run (a third is not told from a second).
Starts(r) == {s \in started : s.run = r}
RecordStart(c, by) ==
  LET q == request[c]  n == IF Starts(q.run) = {} THEN 1 ELSE 2 IN
  started' = started \cup {[run |-> q.run, plan |-> q.plan, by |-> by, n |-> n]}

Start(c) ==
  SetRun(c, "start", "executing") /\ RecordStart(c, "repository")

\* The tool has run; one transaction inserts the receipt and settles the run.  A
\* sandbox write that throws leaves the run executing: see Abandon.
Receipt(c) ==
  LET q == request[c] IN
  /\ At(c, "receipt") /\ Go(c)
  /\ runStatus' = [runStatus EXCEPT ![q.run] = "succeeded"]
  /\ receipts' = receipts \cup
       {[run |-> q.run, plan |-> q.plan, by |-> "repository", ok |-> TRUE]}
  /\ UNCHANGED <<fixed, callVars, permissions, runPlan, planVars, started>>

\* human-gated-execution.ts: the run's status is all it looks at, beside the
\* command in the input, which must be on the whitelist.
ReadCommand(c) ==
  LET q == request[c] IN
  Check(c, "readCommand",
        runStatus[q.run] = "approved_for_execution" /\ tool.command,
        [q EXCEPT !.plan = runPlan[q.run]])

StartCommand(c) ==
  SetRun(c, "startCommand", "executing") /\ RecordStart(c, "human_gated")

\* The command has ended, well or not; its outcome decides the run's status.
CommandEnds(c) ==
  LET q == request[c] IN
  /\ At(c, "receiptCommand")
  /\ \E ok \in BOOLEAN :
       /\ receipts' = receipts \cup
            {[run |-> q.run, plan |-> q.plan, by |-> "human_gated", ok |-> ok]}
       /\ Proceed(c, [q EXCEPT !.was = IF ok THEN "succeeded" ELSE "failed"], 0)
  /\ UNCHANGED <<fixed, callVars, permissions, runVars, planVars, started>>

SettleCommand(c) ==
  LET s == IF request[c].was = "none" THEN "succeeded" ELSE request[c].was IN
  SetRun(c, "settleCommand", s) /\ UNCHANGED started

-----------------------------------------------------------------------------
(* Faults and time *)

\* The database refuses the next statement, the sandbox write throws, or the
\* process stops: the request ends where it is.
Abandon(c) ==
  /\ request[c] # Idle /\ Quit(c)
  /\ UNCHANGED <<fixed, callVars, permissions, runVars, planVars, receipts, started>>

\* One hour after it was made, a plan can no longer be approved or executed.
PlanExpires(p) ==
  /\ planStatus[p] # "absent" /\ p \notin expired
  /\ expired' = expired \cup {p}
  /\ UNCHANGED <<fixed, callVars, permissions, runVars, planStatus, planRun, planArt,
                 confirmed, receipts, started, request>>

Step(c) ==
  \/ ReadCall(c) \/ ReadLatest(c) \/ Evaluate(c) \/ ReadCancellable(c)
  \/ ReadPending(c) \/ ReviewArtifact(c) \/ UpdateCall(c)
  \/ FindRun(c) \/ InsertRun(c) \/ ReadCreated(c) \/ ReadPermission(c)
  \/ InsertPermission(c) \/ RereadPermission(c) \/ AwaitPermission(c)
  \/ ReadPlannable(c) \/ FindPlan(c) \/ ReadAllowed(c) \/ CreateArtifact(c)
  \/ InsertPlan(c) \/ ReadSubmitted(c) \/ ReviewPlan(c) \/ UpdatePlan(c)
  \/ ReadAwaiting(c) \/ RejectRun(c) \/ ReadRun(c) \/ ReadPlan(c)
  \/ RecallPermission(c) \/ ReadConfirmed(c) \/ Approve(c) \/ CancelRun(c)
  \/ ReadExecutable(c) \/ Start(c) \/ Receipt(c) \/ ReadCommand(c)
  \/ StartCommand(c) \/ CommandEnds(c) \/ SettleCommand(c)

Next ==
  \/ \E c \in Request : Begin(c) \/ Step(c) \/ Abandon(c)
  \/ \E p \in Plan : PlanExpires(p)

Spec == Init /\ [][Next]_vars

-----------------------------------------------------------------------------
(* Properties *)

\* What executes was confirmed: an execution through the repository begins only
\* for a plan whose own confirmation Kelvin approved, however approvals,
\* rejections, plans and executions overlap; one through the human-gated executor,
\* which looks at the run alone, as long as requests follow one another.
ConfirmedBeforeStart ==
  \A s \in started : s.by = "repository" \/ ~overlap => s.plan \in confirmed

\* A run that is reported succeeded has a receipt that says so, wherever a request
\* was cut off and whichever executor settled it.
SuccessHasReceipt ==
  \A r \in Run : runStatus[r] = "succeeded" => \E x \in receipts : x.run = r /\ x.ok

\* When requests follow one another, repeating them after a failure at any await
\* makes one run of a call, one plan of a run, and executes it at most once.
RepeatedRequestsActOnce ==
  ~overlap =>
    /\ Cardinality({r \in Run : runStatus[r] # "absent"}) <= 1
    /\ \A r \in Run :
         /\ Cardinality({p \in Plan : planRun[p] = r}) <= 1
         /\ Cardinality(Starts(r)) <= 1

\* When requests follow one another, a run moves along the table of
\* state-machine.ts or is cancelled, although no write compares the status.
RunFollowsTable ==
  [][~overlap => \A r \in Run :
       runStatus'[r] \in {runStatus[r], "cancelled"}
       \/ <<runStatus[r], runStatus'[r]>> = <<"absent", "created">>
       \/ \E t \in runTransitions : t[1] = runStatus[r] /\ t[3] = runStatus'[r]]_vars

\* When requests follow one another, no run of a call that the policy refused gets
\* as far as waiting for a permission, whichever was asked first.
RefusalHolds ==
  ~overlap /\ (\E i \in 1..Len(permissions) : permissions[i] \in {"requires_human", "deny"}) =>
    \A r \in Run : runStatus[r] \in {"absent", "created", "cancelled"}

\* When requests follow one another, a reviewed call agrees with its confirmation,
\* wherever a review was cut off and repeated.
ReviewIsCoherent ==
  ~overlap =>
    /\ callStatus = "approved_record" => artifacts[callArt] = "approved"
    /\ callStatus = "rejected" => artifacts[callArt] = "rejected"

\* Both executors, with all that is asked of runs and plans beside them, implement
\* the contract of an execution.
Contract == INSTANCE ExecutionContract
  WITH Careful <- {"repository"}, alone <- ~overlap, begun <- started,
       answered <- receipts, succeeded <- {r \in Run : runStatus[r] = "succeeded"}
ImplementsExecution == Contract!Spec

-----------------------------------------------------------------------------
(* What the code does not keep *)

\* A valid sandbox write that was evaluated may be executed (policy.ts:94 means to
\* allow it: the denied categories are looked at first).
EvaluatedWriteMayRun ==
  tool.category = "write_sandbox" /\ tool.valid /\ ~tool.sideEffects =>
    Latest \in {"none", "allow_controlled_execution"}

\* No plan that was rejected is executed.  A rejection after the approval throws
\* once it has rejected the plan, and the human-gated executor does not look at it.
RejectedPlanNotExecuted ==
  [][\A s \in started' \ started : planStatus[s.plan] # "rejected"]_vars

\* A run is executed once also when requests overlap.
ExecutedOnce == \A r \in Run : Cardinality(Starts(r)) <= 1

\* A finished run keeps its status.
FinishedStays ==
  [][\A r \in Run : runStatus[r] \in {"succeeded", "failed", "cancelled"}
                      => runStatus'[r] = runStatus[r]]_vars
=============================================================================
