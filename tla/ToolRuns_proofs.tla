--------------------------- MODULE ToolRuns_proofs ---------------------------
(***************************************************************************)
(* Proofs about ToolRuns, for any number of requests, runs and plans, any    *)
(* tool and any requests cut off at any await.  A request reads, checks, and  *)
(* writes by id alone: the proofs say what a request knows at each await,     *)
(* whatever else runs, and what more it knows when requests follow one        *)
(* another.  The last part maps each step to ExecutionContract.               *)
(***************************************************************************)
EXTENDS ToolRuns, SequenceTheorems, FiniteSetTheorems, TLAPS

-----------------------------------------------------------------------------
(* The order of the awaits *)

CallAwaits ==
  {"readCall", "readLatest", "evaluate", "readCancellable", "cancelCall", "readPending",
   "approveArtifact", "approveCall", "rejectArtifact", "rejectCall"}

\* Awaits of a request that has a run, and of one that reviews a plan.
RunAwaits ==
  {"readCreated", "readPermission", "insertPermission", "rereadPermission",
   "awaitPermission", "readPlannable", "readPlannableAgain", "findPlan", "readAllowed",
   "createArtifact", "insertPlan", "readRun", "readPlan", "recallPermission",
   "readConfirmed", "approve", "cancelRun", "readExecutable", "start", "receipt",
   "readCommand", "startCommand", "receiptCommand", "settleCommand"}

PlanAwaits ==
  {"readSubmitted", "approvePlanArtifact", "planReady", "rejectPlanArtifact",
   "planRejected", "readAwaiting", "rejectRun"}

Await == {"findRun", "insertRun"} \cup CallAwaits \cup RunAwaits \cup PlanAwaits

\* Which await may come right after which, in any operation.
Follows ==
  { <<"readCall", "readLatest">>, <<"readLatest", "evaluate">>,
    <<"readCancellable", "cancelCall">>,
    <<"readPending", "approveArtifact">>, <<"approveArtifact", "approveCall">>,
    <<"readPending", "rejectArtifact">>, <<"rejectArtifact", "rejectCall">>,
    <<"findRun", "insertRun">>, <<"insertRun", "readPlannable">>,
    <<"readCreated", "readPermission">>, <<"readPermission", "insertPermission">>,
    <<"insertPermission", "rereadPermission">>, <<"rereadPermission", "awaitPermission">>,
    <<"awaitPermission", "readPlannableAgain">>, <<"readPlannableAgain", "findPlan">>,
    <<"readPlannable", "findPlan">>, <<"findPlan", "readAllowed">>,
    <<"readAllowed", "createArtifact">>, <<"createArtifact", "insertPlan">>,
    <<"readSubmitted", "approvePlanArtifact">>, <<"approvePlanArtifact", "planReady">>,
    <<"readSubmitted", "rejectPlanArtifact">>, <<"rejectPlanArtifact", "planRejected">>,
    <<"planRejected", "readAwaiting">>, <<"readAwaiting", "rejectRun">>,
    <<"readRun", "readPlan">>, <<"readRun", "cancelRun">>, <<"readPlan", "recallPermission">>,
    <<"recallPermission", "readConfirmed">>, <<"readConfirmed", "approve">>,
    <<"recallPermission", "readExecutable">>, <<"readExecutable", "start">>,
    <<"start", "receipt">>,
    <<"readCommand", "startCommand">>, <<"startCommand", "receiptCommand">>,
    <<"receiptCommand", "settleCommand">> }

Firsts == {"readCall", "readCancellable", "readPending", "findRun", "readCreated",
           "readPlannable", "readSubmitted", "readRun", "readCommand"}

Chained(s) == \A i \in 1 .. Len(s) - 1 : <<s[i], s[i + 1]>> \in Follows

\* A part of an operation, with its first and its last await.
Part(s, first, last) ==
  /\ s \in Seq(Await) /\ Len(s) >= 1 /\ Chained(s)
  /\ s[1] = first /\ s[Len(s)] = last

LEMMA PartsJoin ==
  ASSUME NEW s, NEW t, NEW a, NEW b, NEW c, NEW d,
         Part(s, a, b), Part(t, c, d), <<b, c>> \in Follows
  PROVE  Part(s \o t, a, d)
<1> DEFINE u == s \o t
           m == Len(s)
           n == Len(t)
<1>1. /\ u \in Seq(Await) /\ Len(u) = m + n /\ m \in Nat /\ n \in Nat /\ m >= 1 /\ n >= 1
      /\ \A i \in 1 .. m + n : u[i] = IF i <= m THEN s[i] ELSE t[i - m]
  BY ConcatProperties, LenProperties DEF Part
<1> HIDE DEF u
<1>2. u[1] = a /\ u[Len(u)] = d
  BY <1>1 DEF Part
<1>3. ASSUME NEW i \in 1 .. Len(u) - 1 PROVE <<u[i], u[i + 1]>> \in Follows
  <2>1. CASE i < m
    <3>1. u[i] = s[i] /\ u[i + 1] = s[i + 1] /\ i \in 1 .. Len(s) - 1
      BY <1>1, <2>1
    <3> QED BY <3>1 DEF Part, Chained
  <2>2. CASE i = m
    <3>1. u[i] = b /\ u[i + 1] = c
      BY <1>1, <2>2 DEF Part
    <3> QED BY <3>1
  <2>3. CASE i > m
    <3> DEFINE j == i - m
    <3>1. u[i] = t[j] /\ u[i + 1] = t[j + 1] /\ j \in 1 .. Len(t) - 1
      BY <1>1, <2>3
    <3> HIDE DEF j
    <3> QED BY <3>1 DEF Part, Chained
  <2> QED BY <1>1, <2>1, <2>2, <2>3
<1>4. Part(u, a, d)
  BY <1>1, <1>2, <1>3 DEF Part, Chained
<1> QED BY <1>4 DEF u

LEMMA TwoAwaits ==
  ASSUME NEW a \in Await, NEW b \in Await, <<a, b>> \in Follows
  PROVE  Part(<<a, b>>, a, b)
<1> DEFINE s == <<a, b>>
<1>1. s \in Seq(Await) /\ Len(s) = 2 /\ s[1] = a /\ s[2] = b
  OBVIOUS
<1> HIDE DEF s
<1>2. ASSUME NEW i \in 1 .. Len(s) - 1 PROVE <<s[i], s[i + 1]>> \in Follows
  <2>1. i = 1
    BY <1>1
  <2> QED BY <1>1, <2>1
<1>3. Part(s, a, b)
  BY <1>1, <1>2 DEF Part, Chained
<1> QED BY <1>3 DEF s

LEMMA ThreeAwaits ==
  ASSUME NEW a \in Await, NEW b \in Await, NEW c \in Await,
         <<a, b>> \in Follows, <<b, c>> \in Follows
  PROVE  Part(<<a, b, c>>, a, c)
<1> DEFINE s == <<a, b, c>>
<1>1. s \in Seq(Await) /\ Len(s) = 3 /\ s[1] = a /\ s[2] = b /\ s[3] = c
  OBVIOUS
<1> HIDE DEF s
<1>2. ASSUME NEW i \in 1 .. Len(s) - 1 PROVE <<s[i], s[i + 1]>> \in Follows
  <2>1. i = 1 \/ i = 2
    BY <1>1
  <2>2. 1 + 1 = 2 /\ 2 + 1 = 3
    OBVIOUS
  <2> QED BY <1>1, <2>1, <2>2
<1>3. Part(s, a, c)
  BY <1>1, <1>2 DEF Part, Chained
<1> QED BY <1>3 DEF s

\* The awaits left after the next one are a part of the same operation.
LEMMA RestIsChained ==
  ASSUME NEW s \in Seq(Await), Chained(s), NEW k \in 2..Len(s)
  PROVE  LET t == SubSeq(s, k, Len(s)) IN
         /\ t \in Seq(Await) /\ t # <<>> /\ Chained(t)
         /\ Head(t) = s[k] /\ Len(t) = Len(s) - k + 1
<1> DEFINE t == SubSeq(s, k, Len(s))
           m == Len(s)
<1>1. m \in Nat /\ k \in 1 .. m /\ k \in Nat /\ k >= 2 /\ \A i \in 1 .. m : s[i] \in Await
  BY LenProperties, ElementOfSeq
<1>2. t \in Seq(Await) /\ Len(t) = m - k + 1
      /\ \A i \in 1 .. Len(t) : t[i] = s[k + i - 1]
  BY <1>1, SubSeqProperties
<1> HIDE DEF t
<1>3. t # <<>> /\ Head(t) = s[k]
  <2>1. Len(t) >= 1
    BY <1>1, <1>2
  <2> QED BY <1>1, <1>2, <2>1
<1>4. ASSUME NEW i \in 1 .. Len(t) - 1 PROVE <<t[i], t[i + 1]>> \in Follows
  <2> DEFINE j == k + i - 1
  <2>1. t[i] = s[j] /\ t[i + 1] = s[j + 1] /\ j \in 1 .. Len(s) - 1
    BY <1>1, <1>2
  <2> HIDE DEF j
  <2> QED BY <2>1 DEF Chained
<1> QED BY <1>2, <1>3, <1>4 DEF Chained, t

\* The pairs of Follows, as the operations use them.
LEMMA Pairs ==
  /\ <<"readCall", "readLatest">> \in Follows /\ <<"readLatest", "evaluate">> \in Follows
  /\ <<"readCancellable", "cancelCall">> \in Follows
  /\ <<"readPending", "approveArtifact">> \in Follows /\ <<"approveArtifact", "approveCall">> \in Follows
  /\ <<"readPending", "rejectArtifact">> \in Follows /\ <<"rejectArtifact", "rejectCall">> \in Follows
  /\ <<"findRun", "insertRun">> \in Follows /\ <<"insertRun", "readPlannable">> \in Follows
  /\ <<"readCreated", "readPermission">> \in Follows
  /\ <<"readPermission", "insertPermission">> \in Follows
  /\ <<"insertPermission", "rereadPermission">> \in Follows
  /\ <<"rereadPermission", "awaitPermission">> \in Follows
  /\ <<"awaitPermission", "readPlannableAgain">> \in Follows
  /\ <<"readPlannableAgain", "findPlan">> \in Follows /\ <<"readPlannable", "findPlan">> \in Follows
  /\ <<"findPlan", "readAllowed">> \in Follows /\ <<"readAllowed", "createArtifact">> \in Follows
  /\ <<"createArtifact", "insertPlan">> \in Follows
  /\ <<"readSubmitted", "approvePlanArtifact">> \in Follows
  /\ <<"approvePlanArtifact", "planReady">> \in Follows
  /\ <<"readSubmitted", "rejectPlanArtifact">> \in Follows
  /\ <<"rejectPlanArtifact", "planRejected">> \in Follows
  /\ <<"planRejected", "readAwaiting">> \in Follows /\ <<"readAwaiting", "rejectRun">> \in Follows
  /\ <<"readRun", "readPlan">> \in Follows /\ <<"readRun", "cancelRun">> \in Follows
  /\ <<"readPlan", "recallPermission">> \in Follows
  /\ <<"recallPermission", "readConfirmed">> \in Follows /\ <<"readConfirmed", "approve">> \in Follows
  /\ <<"recallPermission", "readExecutable">> \in Follows /\ <<"readExecutable", "start">> \in Follows
  /\ <<"start", "receipt">> \in Follows
  /\ <<"readCommand", "startCommand">> \in Follows /\ <<"startCommand", "receiptCommand">> \in Follows
  /\ <<"receiptCommand", "settleCommand">> \in Follows
BY DEF Follows

LEMMA PairsAreAwaits == \A a, b : <<a, b>> \in Follows => a \in Await /\ b \in Await
BY DEF Follows, Await, CallAwaits, RunAwaits, PlanAwaits

LEMMA PermissionIsChained ==
  Part(RequestPermission \o <<"readPlannableAgain">>, "readCreated", "readPlannableAgain")
<1>1. /\ Part(<<"readCreated", "readPermission", "insertPermission">>, "readCreated", "insertPermission")
      /\ Part(<<"rereadPermission", "awaitPermission">>, "rereadPermission", "awaitPermission")
      /\ Part(<<"rereadPermission", "awaitPermission", "readPlannableAgain">>, "rereadPermission", "readPlannableAgain")
  BY Pairs, PairsAreAwaits, TwoAwaits, ThreeAwaits
<1>2. /\ RequestPermission \o <<"readPlannableAgain">>
           = <<"readCreated", "readPermission", "insertPermission">>
               \o <<"rereadPermission", "awaitPermission", "readPlannableAgain">>
  BY DEF RequestPermission
<1> QED BY <1>1, <1>2, Pairs, PartsJoin

LEMMA OperationsChained ==
  ASSUME NEW op \in DOMAIN Program
  PROVE  /\ Program[op] \in Seq(Await) /\ Program[op] # <<>> /\ Chained(Program[op])
         /\ Head(Program[op]) \in Firsts
         /\ Head(Program[op]) \in RunAwaits => op \in RunOps
         /\ Head(Program[op]) \in PlanAwaits => op \in PlanOps
         /\ op = "cancelRun" => Program[op] = <<"readRun", "cancelRun">>
<1> DEFINE Good(s, a) == \E b \in Await : Part(s, a, b)
<1>0. ASSUME NEW s, NEW a, NEW b, Part(s, a, b) PROVE Good(s, a)
  <2>1. s \in Seq(Await) /\ Len(s) >= 1 /\ s[Len(s)] = b
    BY <1>0 DEF Part
  <2>2. b \in Await
    BY <2>1, LenProperties, ElementOfSeq
  <2> QED BY <1>0, <2>2
<1>1. Part(<<"readCall", "readLatest", "evaluate">>, "readCall", "evaluate")
  BY Pairs, PairsAreAwaits, ThreeAwaits
<1>2. Part(<<"readCancellable", "cancelCall">>, "readCancellable", "cancelCall")
  BY Pairs, PairsAreAwaits, TwoAwaits
<1>3. /\ Part(<<"readPending", "approveArtifact", "approveCall">>, "readPending", "approveCall")
      /\ Part(<<"readPending", "rejectArtifact", "rejectCall">>, "readPending", "rejectCall")
  BY Pairs, PairsAreAwaits, ThreeAwaits
<1>4. /\ Part(CreateRun, "findRun", "insertRun")
      /\ Part(<<"readRun", "cancelRun">>, "readRun", "cancelRun")
  BY Pairs, PairsAreAwaits, TwoAwaits DEF CreateRun
<1>5. Part(RequestPermission, "readCreated", "awaitPermission")
  <2>1. /\ Part(<<"readCreated", "readPermission", "insertPermission">>, "readCreated", "insertPermission")
        /\ Part(<<"rereadPermission", "awaitPermission">>, "rereadPermission", "awaitPermission")
    BY Pairs, PairsAreAwaits, TwoAwaits, ThreeAwaits
  <2>2. RequestPermission = <<"readCreated", "readPermission", "insertPermission">>
                              \o <<"rereadPermission", "awaitPermission">>
    BY DEF RequestPermission
  <2> QED BY <2>1, <2>2, Pairs, PartsJoin
<1>6. Part(PlanExecution, "readPlannable", "insertPlan")
  <2>1. /\ Part(<<"readPlannable", "findPlan", "readAllowed">>, "readPlannable", "readAllowed")
        /\ Part(<<"createArtifact", "insertPlan">>, "createArtifact", "insertPlan")
    BY Pairs, PairsAreAwaits, TwoAwaits, ThreeAwaits
  <2>2. PlanExecution = <<"readPlannable", "findPlan", "readAllowed">>
                          \o <<"createArtifact", "insertPlan">>
    BY DEF PlanExecution
  <2> QED BY <2>1, <2>2, Pairs, PartsJoin
<1>7. Part(CreateRun \o PlanExecution, "findRun", "insertPlan")
  BY <1>4, <1>6, Pairs, PartsJoin
<1>8. Part(<<"readSubmitted", "approvePlanArtifact", "planReady">>, "readSubmitted", "planReady")
  BY Pairs, PairsAreAwaits, ThreeAwaits
<1>9. Part(RejectPlan, "readSubmitted", "rejectRun")
  <2>1. /\ Part(<<"readSubmitted", "rejectPlanArtifact", "planRejected">>, "readSubmitted", "planRejected")
        /\ Part(<<"readAwaiting", "rejectRun">>, "readAwaiting", "rejectRun")
    BY Pairs, PairsAreAwaits, TwoAwaits, ThreeAwaits
  <2>2. RejectPlan = <<"readSubmitted", "rejectPlanArtifact", "planRejected">>
                       \o <<"readAwaiting", "rejectRun">>
    BY DEF RejectPlan
  <2> QED BY <2>1, <2>2, Pairs, PartsJoin
<1>10. /\ Part(ApproveExecution, "readRun", "approve")
       /\ Part(ExecuteApproved, "readRun", "receipt")
  <2>1. /\ Part(<<"readRun", "readPlan", "recallPermission">>, "readRun", "recallPermission")
        /\ Part(<<"readConfirmed", "approve">>, "readConfirmed", "approve")
        /\ Part(<<"readExecutable", "start", "receipt">>, "readExecutable", "receipt")
    BY Pairs, PairsAreAwaits, TwoAwaits, ThreeAwaits
  <2>2. /\ ApproveExecution = <<"readRun", "readPlan", "recallPermission">>
                                \o <<"readConfirmed", "approve">>
        /\ ExecuteApproved = <<"readRun", "readPlan", "recallPermission">>
                               \o <<"readExecutable", "start", "receipt">>
    BY DEF ApproveExecution, ExecuteApproved
  <2> QED BY <2>1, <2>2, Pairs, PartsJoin
<1>11. Part(ExecuteCommand, "readCommand", "settleCommand")
  <2>1. /\ Part(<<"readCommand", "startCommand">>, "readCommand", "startCommand")
        /\ Part(<<"receiptCommand", "settleCommand">>, "receiptCommand", "settleCommand")
    BY Pairs, PairsAreAwaits, TwoAwaits
  <2>2. ExecuteCommand = <<"readCommand", "startCommand">> \o <<"receiptCommand", "settleCommand">>
    BY DEF ExecuteCommand
  <2> QED BY <2>1, <2>2, Pairs, PartsJoin
<1>12. /\ DOMAIN Program = {"evaluate", "cancelCall", "approveCall", "rejectCall", "createRun", "permit",
                           "plan", "planCall", "submit", "rejectPlan", "approve", "cancelRun", "execute", "command"}
       /\ Program["evaluate"] = <<"readCall", "readLatest", "evaluate">>
       /\ Program["cancelCall"] = <<"readCancellable", "cancelCall">>
       /\ Program["approveCall"] = <<"readPending", "approveArtifact", "approveCall">>
       /\ Program["rejectCall"] = <<"readPending", "rejectArtifact", "rejectCall">>
       /\ Program["createRun"] = CreateRun /\ Program["permit"] = RequestPermission
       /\ Program["plan"] = PlanExecution /\ Program["planCall"] = CreateRun \o PlanExecution
       /\ Program["submit"] = <<"readSubmitted", "approvePlanArtifact", "planReady">>
       /\ Program["rejectPlan"] = RejectPlan /\ Program["approve"] = ApproveExecution
       /\ Program["cancelRun"] = <<"readRun", "cancelRun">>
       /\ Program["execute"] = ExecuteApproved /\ Program["command"] = ExecuteCommand
  BY DEF Program, ApproveCall
<1> HIDE DEF Good
<1>13. /\ op = "evaluate" => Good(Program[op], "readCall")
       /\ op = "cancelCall" => Good(Program[op], "readCancellable")
       /\ op \in {"approveCall", "rejectCall"} => Good(Program[op], "readPending")
       /\ op \in {"createRun", "planCall"} => Good(Program[op], "findRun")
       /\ op = "permit" => Good(Program[op], "readCreated")
       /\ op = "plan" => Good(Program[op], "readPlannable")
       /\ op \in {"submit", "rejectPlan"} => Good(Program[op], "readSubmitted")
       /\ op \in {"approve", "cancelRun", "execute"} => Good(Program[op], "readRun")
       /\ op = "command" => Good(Program[op], "readCommand")
  BY <1>0, <1>1, <1>2, <1>3, <1>4, <1>5, <1>6, <1>7, <1>8, <1>9, <1>10, <1>11, <1>12
<1>14. PICK a \in Firsts :
         /\ Good(Program[op], a)
         /\ a \in RunAwaits => op \in RunOps
         /\ a \in PlanAwaits => op \in PlanOps
  BY <1>12, <1>13 DEF Firsts, RunAwaits, PlanAwaits, RunOps, PlanOps
<1>15. Program[op] \in Seq(Await) /\ Len(Program[op]) >= 1 /\ Chained(Program[op])
       /\ Program[op][1] = a
  BY <1>14 DEF Good, Part
<1>16. Program[op] # <<>> /\ Head(Program[op]) = a
  <2> DEFINE s == Program[op]
  <2> HIDE DEF s
  <2>1. s \in Seq(Await) /\ Len(s) >= 1 /\ s[1] = a
    BY <1>15 DEF s
  <2>2. s # <<>> /\ Head(s) = a
    BY <2>1
  <2> QED BY <2>2 DEF s
<1> QED BY <1>12, <1>14, <1>15, <1>16

-----------------------------------------------------------------------------
(* The invariant *)

RowsOK ==
  /\ tool \in Tool /\ overlap \in BOOLEAN /\ budget \in 0..MaxRequests
  /\ callStatus \in CallStatus
  /\ artifacts \in Seq({"pending", "approved", "rejected"})
  /\ callArt \in 0..Len(artifacts)
  /\ permissions \in Seq(Decision)
  /\ runStatus \in [Run -> {"absent"} \cup RunStatus]
  /\ runPlan \in [Run -> Plan \cup {None}]
  /\ planStatus \in [Plan -> {"absent", "ready_for_confirmation", "approved_record", "rejected"}]
  /\ planRun \in [Plan -> Run \cup {None}]
  /\ planArt \in [Plan -> {"none", "pending", "approved", "rejected"}]
  /\ expired \subseteq Plan /\ confirmed \subseteq Plan
  /\ receipts \subseteq [run : Run, plan : Plan, by : Executor, ok : BOOLEAN]

\* An executor has begun plan p of run r.
Begun(r, p, by) == \E s \in started : s.run = r /\ s.plan = p /\ s.by = by

\* What the rows and the history keep however requests overlap.
Kept ==
  /\ \A p \in Plan : planArt[p] = "approved" => p \in confirmed
  /\ \A r \in Run : runStatus[r] = "approved_for_execution" => runPlan[r] \in Plan
  /\ \A s \in started : s.by = "repository" => s.plan \in confirmed
  /\ \A x \in receipts : Begun(x.run, x.plan, x.by)
  /\ SuccessHasReceipt

Unstarted == {"absent", "created", "awaiting_permission", "awaiting_confirmation",
              "approved_for_execution"}

\* No plan was made of run r.
NoPlanOf(r) == \A p \in Plan : planRun[p] # r

Unpermitted == {"absent", "created", "cancelled"}

\* A refusal is the only decision; a run that goes on was permitted.
RefusedForGood ==
  \A i \in 1..Len(permissions) : permissions[i] \in {"requires_human", "deny"}
                                   => Len(permissions) = 1
Permitted ==
  \A r \in Run : runStatus[r] \in Unpermitted \/ Latest = "allow_controlled_execution"

\* What they keep besides when requests follow one another.
KeptAlone ==
  /\ \A r \in Run : runStatus[r] = "approved_for_execution" => runPlan[r] \in confirmed
  /\ \A r \in Run : runStatus[r] \in Unstarted => Starts(r) = {}
  /\ \A r, s \in Run : runStatus[r] # "absent" /\ runStatus[s] # "absent" => r = s
  /\ \A p, q \in Plan : planRun[p] = planRun[q] /\ planRun[p] \in Run => p = q
  /\ \A p \in Plan : planStatus[p] = "absent" => planRun[p] = None
  /\ \A s, t \in started : s.run = t.run => s = t
  /\ \A s \in started : s.plan \in confirmed
  /\ callStatus = "approved_record" => artifacts[callArt] = "approved"
  /\ callStatus = "rejected" => artifacts[callArt] = "rejected"
  /\ RefusedForGood /\ Permitted

Rows == RowsOK /\ Kept /\ (~overlap => KeptAlone)

\* Awaits whose request has read the plan of its run.
PlannedAwaits == {"insertPlan", "readPlan", "recallPermission", "readConfirmed", "approve",
                  "readExecutable", "start", "receipt", "startCommand", "receiptCommand"}

\* A request whose next await is a knows this, whatever else runs: a run, a plan or
\* a confirmation is never taken back.
Knows(a, r, p, was) ==
  /\ a \in RunAwaits => r \in Run
  /\ a \in PlanAwaits \cup PlannedAwaits => p \in Plan
  /\ a \in {"readPlan", "recallPermission", "readConfirmed", "approve"} => runPlan[r] \in Plan
  /\ a \in {"approve", "start"} => p \in confirmed
  /\ a = "settleCommand" => /\ was \in {"succeeded", "failed"}
                            /\ was = "succeeded" => \E x \in receipts : x.run = r /\ x.ok
  /\ a = "receipt" => Begun(r, p, "repository")
  /\ a = "receiptCommand" => Begun(r, p, "human_gated")

\* What it knows when nothing else runs.
KnowsAlone(a, r, p, saw, was, i) ==
  /\ a \in {"approveArtifact", "rejectArtifact"} =>
       callStatus = "pending_confirmation" /\ i = callArt /\ callArt \in 1..Len(artifacts)
  /\ a = "approveCall" => artifacts[callArt] = "approved"
  /\ a = "rejectCall" => artifacts[callArt] = "rejected"
  /\ a = "evaluate" => permissions = <<>>
  /\ a = "insertPermission" => Grants
  /\ a = "awaitPermission" => Latest = "allow_controlled_execution"
  /\ a = "insertRun" => NoRunOfKey
  /\ a \in {"readPermission", "insertPermission", "rereadPermission", "awaitPermission"} =>
       runStatus[r] = "created"
  /\ a \in {"readRun", "cancelRun"} => runStatus[r] # "absent"
  /\ a \in {"findPlan", "readAllowed"} =>
       saw = runStatus[r] /\ saw \in {"awaiting_permission", "awaiting_confirmation"}
  /\ a \in {"createArtifact", "insertPlan"} => runStatus[r] = "awaiting_permission"
  /\ a \in {"readAllowed", "createArtifact", "insertPlan"} => NoPlanOf(r)
  /\ a \in {"readPlan", "recallPermission", "readConfirmed", "readExecutable"} =>
       saw = runStatus[r] /\ p = runPlan[r]
  /\ a = "approve" => runStatus[r] = "awaiting_confirmation" /\ p = runPlan[r]
  /\ a \in {"start", "startCommand"} => runStatus[r] = "approved_for_execution" /\ p = runPlan[r]
  /\ a \in {"receipt", "receiptCommand", "settleCommand"} => runStatus[r] = "executing"
  /\ a \in {"receipt", "receiptCommand"} => \A x \in receipts : x.run # r
  /\ a = "rejectRun" /\ r \in Run => runStatus[r] = "awaiting_confirmation"

RequestRecord ==
  [op : DOMAIN Program \cup {"none"}, run : Run \cup {None}, plan : Plan \cup {None},
   saw : {"none", "absent"} \cup CallStatus \cup RunStatus,
   was : {"none", "absent", "ready_for_confirmation", "approved_record", "rejected",
          "succeeded", "failed"},
   idx : Nat, todo : Seq(Await)]

InProgress(q) ==
  /\ q.todo # <<>> /\ Chained(q.todo)
  /\ q.op = "cancelRun" => q.todo \in {<<"readRun", "cancelRun">>, <<"cancelRun">>}

Informed(q) ==
  InProgress(q) /\ Knows(Head(q.todo), q.run, q.plan, q.was)
InformedAlone(q) ==
  ~overlap => KnowsAlone(Head(q.todo), q.run, q.plan, q.saw, q.was, q.idx)

Requests ==
  /\ request \in [Request -> RequestRecord]
  /\ \A c \in Request : request[c] = Idle \/ Informed(request[c])
  /\ \A c \in Request : request[c] = Idle \/ InformedAlone(request[c])
  /\ ~overlap => \A c, d \in Request : request[c] # Idle /\ request[d] # Idle => c = d

ToolInv == Rows /\ Requests

-----------------------------------------------------------------------------
(* One request takes a step *)

rowVars == <<fixed, callVars, permissions, runVars, planVars, receipts, started>>

\* What a step may not take back.
Grows ==
  /\ overlap' = overlap /\ confirmed \subseteq confirmed' /\ receipts \subseteq receipts'
  /\ started \subseteq started'
  /\ \A r \in Run : runPlan[r] \in Plan => runPlan'[r] \in Plan

LEMMA PermittedRun ==
  ASSUME ToolInv, ~overlap, NEW r \in Run, runStatus[r] \notin Unpermitted
  PROVE  Latest = "allow_controlled_execution"
BY DEF ToolInv, Rows, KeptAlone, Permitted

\* A step that leaves the decisions and the runs alone.
LEMMA PermissionsStay ==
  ASSUME ToolInv, UNCHANGED <<permissions, runStatus>>, ~overlap
  PROVE  RefusedForGood' /\ Permitted'
BY DEF ToolInv, Rows, KeptAlone, RefusedForGood, Permitted, Latest

LEMMA IdleIsFree == Idle \in RequestRecord /\ Idle.todo = <<>> /\ Idle.op = "none"
BY NullAssumption DEF Idle, RequestRecord

LEMMA RequestKnows ==
  ASSUME ToolInv, NEW c \in Request, NEW step, At(c, step)
  PROVE  /\ request[c] # Idle /\ request[c] \in RequestRecord /\ InProgress(request[c])
         /\ step = Head(request[c].todo)
         /\ Knows(step, request[c].run, request[c].plan, request[c].was)
         /\ ~overlap => KnowsAlone(step, request[c].run, request[c].plan, request[c].saw,
                                   request[c].was, request[c].idx)
<1>1. request[c] # Idle /\ step = Head(request[c].todo)
  BY IdleIsFree DEF At
<1> QED BY <1>1 DEF ToolInv, Requests, Informed, InformedAlone

LEMMA KnowsGrows ==
  ASSUME NEW a, NEW r, NEW p, NEW was, Knows(a, r, p, was), Grows
  PROVE  Knows(a, r, p, was)'
BY DEF Knows, Grows, RunAwaits, Begun

LEMMA OneRequest ==
  ASSUME ToolInv, Rows', Grows, NEW c \in Request, NEW n \in RequestRecord,
         request' = [request EXCEPT ![c] = n],
         n = Idle \/ (Informed(n)' /\ InformedAlone(n)'),
         overlap \/ request[c] # Idle \/ \A d \in Request : request[d] = Idle
  PROVE  ToolInv'
<1>1. /\ request' \in [Request -> RequestRecord] /\ request'[c] = n
      /\ \A d \in Request \ {c} : request'[d] = request[d]
  BY DEF ToolInv, Requests
<1>2. ASSUME NEW d \in Request, request'[d] # Idle PROVE Informed(request[d])'
  <2>1. CASE d = c
    BY <1>1, <1>2, <2>1 DEF Informed, InProgress
  <2>2. CASE d # c
    <3> PICK q : q = request[d]
      OBVIOUS
    <3>1. request'[d] = q /\ InProgress(q) /\ Knows(Head(q.todo), q.run, q.plan, q.was)
      BY <1>1, <1>2, <2>2 DEF ToolInv, Requests, Informed
    <3> PICK a, r, p, was : a = Head(q.todo) /\ r = q.run /\ p = q.plan /\ was = q.was
      OBVIOUS
    <3>2. Knows(a, r, p, was)'
      BY <3>1, KnowsGrows
    <3> QED BY <3>1, <3>2 DEF Informed, InProgress
  <2> QED BY <2>1, <2>2
<1>3. ~overlap' => \A d, e \in Request : request'[d] # Idle /\ request'[e] # Idle => d = e
  BY <1>1 DEF Grows, ToolInv, Requests
<1>4. ASSUME NEW d \in Request, request'[d] # Idle PROVE InformedAlone(request[d])'
  <2>1. CASE overlap
    BY <2>1 DEF Grows, InformedAlone
  <2>2. CASE ~overlap /\ d = c
    BY <1>1, <1>4, <2>2 DEF InformedAlone
  <2>3. CASE ~overlap /\ d # c
    BY <1>1, <1>4, <2>3 DEF ToolInv, Requests
  <2> QED BY <2>1, <2>2, <2>3
<1> QED BY <1>1, <1>2, <1>3, <1>4 DEF ToolInv, Requests

\* A request goes on with q for what it knows, n awaits skipped.
LEMMA LandsOn ==
  ASSUME ToolInv, Rows', Grows, NEW c \in Request, request[c] # Idle,
         NEW q \in RequestRecord, q.todo = request[c].todo, q.op = request[c].op,
         NEW n \in Nat, Proceed(c, q, n), q.op = "cancelRun" => n = 0,
         n + 2 \in 2..Len(q.todo) =>
           /\ Knows(q.todo[n + 2], q.run, q.plan, q.was)'
           /\ ~overlap => KnowsAlone(q.todo[n + 2], q.run, q.plan, q.saw, q.was, q.idx)'
  PROVE  ToolInv'
<1> DEFINE s == q.todo
           t == SubSeq(s, n + 2, Len(s))
           left == [q EXCEPT !.todo = t]
<1>1. /\ s \in Seq(Await) /\ s # <<>> /\ Chained(s)
      /\ q.op = "cancelRun" => s \in {<<"readRun", "cancelRun">>, <<"cancelRun">>}
  BY DEF ToolInv, Requests, Informed, InProgress, RequestRecord
<1>2. Len(s) \in Nat /\ Len(s) >= 1
  <2> HIDE DEF s
  <2> QED BY <1>1
<1>3. CASE n + 1 >= Len(s)
  <2>1. request' = [request EXCEPT ![c] = Idle]
    BY <1>3 DEF Proceed
  <2> QED BY <2>1, IdleIsFree, OneRequest
<1>4. CASE ~(n + 1 >= Len(s))
  <2>1. request' = [request EXCEPT ![c] = left]
    BY <1>4 DEF Proceed
  <2>2. /\ t \in Seq(Await) /\ t # <<>> /\ Chained(t) /\ Head(t) = s[n + 2]
        /\ Len(t) = Len(s) - (n + 2) + 1 /\ n + 2 \in 2..Len(s)
    <3> HIDE DEF s
    <3>1. n + 2 \in 2..Len(s)
      BY <1>4, <1>2
    <3> QED BY <1>1, <3>1, RestIsChained
  <2>4. q.op = "cancelRun" => t = <<"cancelRun">>
    <3> HIDE DEF s, t
    <3>1. ASSUME q.op = "cancelRun" PROVE n = 0 /\ Len(s) = 2 /\ s[2] = "cancelRun"
      <4>1. n = 0 /\ s = <<"readRun", "cancelRun">>
        <5>1. CASE s = <<"cancelRun">>
          BY <1>4, <3>1, <5>1
        <5> QED BY <1>1, <3>1, <5>1
      <4> QED BY <4>1
    <3>2. ASSUME q.op = "cancelRun" PROVE Len(t) = 1 /\ t[1] = "cancelRun"
      <4>1. n = 0 /\ Len(s) = 2 /\ s[2] = "cancelRun"
        BY <3>1, <3>2
      <4>2. Len(t) = 1 /\ Head(t) = t[1]
        BY <2>2, <4>1
      <4> QED BY <2>2, <4>1, <4>2
    <3>3. ASSUME Len(t) = 1, t[1] = "cancelRun" PROVE t = <<"cancelRun">>
      BY <2>2, <3>3
    <3> QED BY <3>2, <3>3
  <2>5. /\ left \in RequestRecord /\ left.todo = t /\ left.run = q.run /\ left.plan = q.plan
        /\ left.was = q.was /\ left.saw = q.saw /\ left.idx = q.idx /\ left.op = q.op
    <3> HIDE DEF t
    <3> QED BY <2>2 DEF RequestRecord
  <2>6. PICK a : a = s[n + 2]
    OBVIOUS
  <2>7. /\ Knows(a, q.run, q.plan, q.was)'
        /\ ~overlap => KnowsAlone(a, q.run, q.plan, q.saw, q.was, q.idx)'
    BY <2>2, <2>6
  <2> HIDE DEF left, t, s
  <2> PICK m : m = left
    OBVIOUS
  <2>8. InProgress(m) /\ Head(m.todo) = a
    BY <2>2, <2>4, <2>5, <2>6 DEF InProgress
  <2>9. Informed(m)' /\ InformedAlone(m)'
    BY <2>5, <2>7, <2>8 DEF Informed, InformedAlone, InProgress, Grows
  <2> QED BY <2>1, <2>5, <2>9, OneRequest
<1> QED BY <1>3, <1>4

\* A request that has done its await, with q for what it knows now.
LEMMA GoesOn ==
  ASSUME ToolInv, Rows', Grows, NEW c \in Request, NEW step, At(c, step),
         NEW q \in RequestRecord, q.todo = request[c].todo, q.op = request[c].op,
         Proceed(c, q, 0),
         \A a \in Await : <<step, a>> \in Follows /\ (q.op = "cancelRun" => a = "cancelRun")
           => /\ Knows(a, q.run, q.plan, q.was)'
              /\ (~overlap => KnowsAlone(a, q.run, q.plan, q.saw, q.was, q.idx)')
  PROVE  ToolInv'
<1> DEFINE s == q.todo
<1>1. /\ request[c] # Idle /\ s \in Seq(Await) /\ s # <<>> /\ Chained(s) /\ step = Head(s)
      /\ q.op = "cancelRun" => s \in {<<"readRun", "cancelRun">>, <<"cancelRun">>}
  BY RequestKnows DEF InProgress, RequestRecord
<1> HIDE DEF s
<1>2. ASSUME 0 + 2 \in 2..Len(s) PROVE <<step, s[0 + 2]>> \in Follows /\ s[0 + 2] \in Await
  <2>1. 1 \in 1 .. Len(s) - 1 /\ 1 + 1 = 0 + 2 /\ step = s[1]
    BY <1>1, <1>2
  <2>2. <<s[1], s[1 + 1]>> \in Follows
    BY <1>1, <2>1 DEF Chained
  <2> QED BY <2>1, <2>2, PairsAreAwaits
<1>3. ASSUME 0 + 2 \in 2..Len(s), q.op = "cancelRun" PROVE s[0 + 2] = "cancelRun"
  <2>1. s = <<"readRun", "cancelRun">>
    <3>1. CASE s = <<"cancelRun">>
      BY <1>3, <3>1
    <3> QED BY <1>1, <1>3, <3>1
  <2> QED BY <2>1
<1>4. PICK a : a = s[0 + 2]
  OBVIOUS
<1>5. 0 + 2 \in 2..Len(s) =>
        /\ Knows(a, q.run, q.plan, q.was)'
        /\ ~overlap => KnowsAlone(a, q.run, q.plan, q.saw, q.was, q.idx)'
  BY <1>2, <1>3, <1>4
<1>6. 0 + 2 \in 2..Len(q.todo) =>
        /\ Knows(q.todo[0 + 2], q.run, q.plan, q.was)'
        /\ ~overlap => KnowsAlone(q.todo[0 + 2], q.run, q.plan, q.saw, q.was, q.idx)'
  BY <1>4, <1>5 DEF s
<1> QED BY <1>1, <1>6, LandsOn DEF s

LEMMA QuitKeeps ==
  ASSUME ToolInv, Rows', Grows, NEW c \in Request, request[c] # Idle, Quit(c)
  PROVE  ToolInv'
BY IdleIsFree, OneRequest DEF Quit

LEMMA RowsStay ==
  ASSUME ToolInv, UNCHANGED rowVars
  PROVE  Rows' /\ Grows
<1>1. /\ UNCHANGED <<tool, overlap, budget, callStatus, callArt, artifacts, permissions>>
      /\ UNCHANGED <<runStatus, runPlan, planStatus, planRun, planArt, expired, confirmed>>
      /\ UNCHANGED <<receipts, started>>
  BY DEF rowVars, fixed, callVars, runVars, planVars
<1>2. RowsOK'
  BY <1>1 DEF ToolInv, Rows, RowsOK
<1>3. Kept' /\ (~overlap' => KeptAlone')
  BY <1>1, PermissionsStay DEF ToolInv, Rows, Kept, KeptAlone, SuccessHasReceipt, Begun, Starts
<1> QED BY <1>1, <1>2, <1>3 DEF Rows, Grows

\* A read: what the request knows now is about rows that stay as they are.
LEMMA ReadGoesOn ==
  ASSUME ToolInv, UNCHANGED rowVars, NEW c \in Request, NEW step, At(c, step),
         NEW q \in RequestRecord, q.todo = request[c].todo, q.op = request[c].op,
         Proceed(c, q, 0),
         \A a \in Await : <<step, a>> \in Follows /\ (q.op = "cancelRun" => a = "cancelRun")
           => /\ Knows(a, q.run, q.plan, q.was)
              /\ (~overlap => KnowsAlone(a, q.run, q.plan, q.saw, q.was, q.idx))
  PROVE  ToolInv'
<1>1. Rows' /\ Grows
  BY RowsStay
<1>2. ASSUME NEW a, NEW r, NEW p, NEW saw, NEW was, NEW i
      PROVE  /\ Knows(a, r, p, was) => Knows(a, r, p, was)'
             /\ KnowsAlone(a, r, p, saw, was, i) => KnowsAlone(a, r, p, saw, was, i)'
  <2>1. Knows(a, r, p, was) => Knows(a, r, p, was)'
    BY <1>1, KnowsGrows
  <2>2. /\ UNCHANGED <<callStatus, callArt, artifacts, permissions>>
        /\ UNCHANGED <<runStatus, runPlan, planRun, receipts>>
    BY DEF rowVars, callVars, runVars, planVars
  <2>3. KnowsAlone(a, r, p, saw, was, i) => KnowsAlone(a, r, p, saw, was, i)'
    BY <2>2 DEF KnowsAlone, NoRunOfKey, NoPlanOf, Grants, Latest
  <2> QED BY <2>1, <2>3
<1> QED BY <1>1, <1>2, GoesOn

LEMMA ReadQuits ==
  ASSUME ToolInv, UNCHANGED rowVars, NEW c \in Request, request[c] # Idle, Quit(c)
  PROVE  ToolInv'
BY RowsStay, QuitKeeps

LEMMA WhatFollows ==
  \A a :
  /\ <<"readCall", a>> \in Follows => a = "readLatest"
  /\ <<"readLatest", a>> \in Follows => a = "evaluate"
  /\ <<"readCancellable", a>> \in Follows => a = "cancelCall"
  /\ <<"readPending", a>> \in Follows => a \in {"approveArtifact", "rejectArtifact"}
  /\ <<"approveArtifact", a>> \in Follows => a = "approveCall"
  /\ <<"rejectArtifact", a>> \in Follows => a = "rejectCall"
  /\ <<"findRun", a>> \in Follows => a = "insertRun"
  /\ <<"insertRun", a>> \in Follows => a = "readPlannable"
  /\ <<"readCreated", a>> \in Follows => a = "readPermission"
  /\ <<"readPermission", a>> \in Follows => a = "insertPermission"
  /\ <<"insertPermission", a>> \in Follows => a = "rereadPermission"
  /\ <<"rereadPermission", a>> \in Follows => a = "awaitPermission"
  /\ <<"awaitPermission", a>> \in Follows => a = "readPlannableAgain"
  /\ <<"readPlannable", a>> \in Follows => a = "findPlan"
  /\ <<"readPlannableAgain", a>> \in Follows => a = "findPlan"
  /\ <<"findPlan", a>> \in Follows => a = "readAllowed"
  /\ <<"readAllowed", a>> \in Follows => a = "createArtifact"
  /\ <<"createArtifact", a>> \in Follows => a = "insertPlan"
  /\ <<"readSubmitted", a>> \in Follows => a \in {"approvePlanArtifact", "rejectPlanArtifact"}
  /\ <<"approvePlanArtifact", a>> \in Follows => a = "planReady"
  /\ <<"rejectPlanArtifact", a>> \in Follows => a = "planRejected"
  /\ <<"planRejected", a>> \in Follows => a = "readAwaiting"
  /\ <<"readAwaiting", a>> \in Follows => a = "rejectRun"
  /\ <<"readRun", a>> \in Follows => a \in {"readPlan", "cancelRun"}
  /\ <<"readPlan", a>> \in Follows => a = "recallPermission"
  /\ <<"recallPermission", a>> \in Follows => a \in {"readConfirmed", "readExecutable"}
  /\ <<"readConfirmed", a>> \in Follows => a = "approve"
  /\ <<"readExecutable", a>> \in Follows => a = "start"
  /\ <<"start", a>> \in Follows => a = "receipt"
  /\ <<"readCommand", a>> \in Follows => a = "startCommand"
  /\ <<"startCommand", a>> \in Follows => a = "receiptCommand"
  /\ <<"receiptCommand", a>> \in Follows => a = "settleCommand"
  /\ \A z \in {"evaluate", "cancelCall", "approveCall", "rejectCall", "insertPlan", "planReady",
               "rejectRun", "approve", "cancelRun", "receipt", "settleCommand"} :
       <<z, a>> \notin Follows
BY DEF Follows

-----------------------------------------------------------------------------
(* Reads *)

\* A read that tells the request nothing new, and what it has checked.
LEMMA PlainRead ==
  ASSUME ToolInv, UNCHANGED rowVars, NEW c \in Request, NEW step, At(c, step),
         \/ Quit(c)
         \/ /\ Proceed(c, request[c], 0)
            /\ \A a \in Await : <<step, a>> \in Follows =>
                 /\ Knows(a, request[c].run, request[c].plan, request[c].was)
                 /\ ~overlap => KnowsAlone(a, request[c].run, request[c].plan, request[c].saw,
                                           request[c].was, request[c].idx)
  PROVE  ToolInv'
<1>1. request[c] # Idle /\ request[c] \in RequestRecord
  BY RequestKnows
<1>2. CASE Quit(c)
  BY <1>1, <1>2, ReadQuits
<1>3. CASE ~Quit(c)
  <2> PICK q : q = request[c]
    OBVIOUS
  <2>1. q \in RequestRecord /\ Proceed(c, q, 0)
    BY <1>1, <1>3
  <2> QED BY <1>3, <2>1, ReadGoesOn
<1> QED BY <1>2, <1>3

LEMMA ChecksKeep ==
  ASSUME ToolInv, NEW c \in Request,
         \/ ReadLatest(c) \/ ReadCancellable(c) \/ ReadCreated(c) \/ RereadPermission(c)
         \/ FindPlan(c) \/ ReadAllowed(c) \/ ReadAwaiting(c) \/ RecallPermission(c)
         \/ ReadConfirmed(c) \/ ReadExecutable(c)
  PROVE  ToolInv'
<1> DEFINE q == request[c]
           Knowing(a) == /\ Knows(a, q.run, q.plan, q.was)
                         /\ ~overlap => KnowsAlone(a, q.run, q.plan, q.saw, q.was, q.idx)
<1>0. UNCHANGED rowVars
  BY DEF ReadLatest, ReadCancellable, ReadCreated, RereadPermission, FindPlan, ReadAllowed,
         ReadAwaiting, RecallPermission, ReadConfirmed, ReadExecutable, Check, rowVars
<1>a. ASSUME NEW step, At(c, step) PROVE Knowing(step)
  BY <1>a, RequestKnows
<1>1. CASE ReadLatest(c) \/ ReadCancellable(c)
  <2>1. ASSUME NEW step \in {"readLatest", "readCancellable"}, At(c, step),
               \/ Quit(c)
               \/ /\ step = "readLatest" => permissions = <<>>
                  /\ Proceed(c, request[c], 0)
        PROVE  ToolInv'
    <3>1. ASSUME step = "readLatest" => permissions = <<>>
          PROVE  \A a \in Await : <<step, a>> \in Follows => Knowing(a)
      <4>1. \A a : <<step, a>> \in Follows =>
                a = "cancelCall" \/ (a = "evaluate" /\ permissions = <<>>)
        BY <2>1, <3>1, WhatFollows
      <4> QED BY <4>1 DEF Knows, KnowsAlone, RunAwaits, PlanAwaits, PlannedAwaits
    <3> QED BY <1>0, <2>1, <3>1, PlainRead
  <2> QED BY <1>1, <2>1 DEF ReadLatest, ReadCancellable, Check
<1>2. CASE ReadCreated(c)
  <2>1. At(c, "readCreated") /\ (Quit(c) \/ (runStatus[q.run] = "created" /\ Proceed(c, q, 0)))
    BY <1>2 DEF ReadCreated, Check
  <2>2. runStatus[q.run] = "created" => Knowing("readPermission")
    BY <1>a, <2>1 DEF Knows, KnowsAlone, RunAwaits, PlanAwaits, PlannedAwaits
  <2> QED BY <1>0, <2>1, <2>2, WhatFollows, PlainRead
<1>3. CASE RereadPermission(c)
  <2>1. /\ At(c, "rereadPermission")
        /\ Quit(c) \/ (Latest = "allow_controlled_execution" /\ Proceed(c, q, 0))
    BY <1>3 DEF RereadPermission, Check
  <2>2. Latest = "allow_controlled_execution" => Knowing("awaitPermission")
    BY <1>a, <2>1 DEF Knows, KnowsAlone, RunAwaits, PlanAwaits, PlannedAwaits
  <2> QED BY <1>0, <2>1, <2>2, WhatFollows, PlainRead
<1>4. CASE FindPlan(c)
  <2>1. /\ At(c, "findPlan")
        /\ \/ Quit(c)
           \/ /\ \A p \in Plan : planStatus[p] # "absent" => planRun[p] # q.run
              /\ Proceed(c, q, 0)
    BY <1>4 DEF FindPlan, Check
  <2>2. ASSUME \A p \in Plan : planStatus[p] # "absent" => planRun[p] # q.run
        PROVE  Knowing("readAllowed")
    <3>1. Knowing("findPlan") /\ q.run \in Run /\ None \notin Run
      BY <1>a, <2>1, NullAssumption DEF Knows, RunAwaits
    <3>2. ~overlap => NoPlanOf(q.run)
      BY <2>2, <3>1 DEF ToolInv, Rows, KeptAlone, NoPlanOf
    <3> QED BY <3>1, <3>2 DEF Knows, KnowsAlone, RunAwaits, PlanAwaits, PlannedAwaits
  <2> QED BY <1>0, <2>1, <2>2, WhatFollows, PlainRead
<1>5. CASE ReadAllowed(c)
  <2>1. /\ At(c, "readAllowed")
        /\ \/ Quit(c)
           \/ /\ Allowed(runTransitions, q.saw, "REQUIRE_EXECUTION_CONFIRMATION")
              /\ Proceed(c, q, 0)
    BY <1>5 DEF ReadAllowed, Check
  <2>2. ASSUME Allowed(runTransitions, q.saw, "REQUIRE_EXECUTION_CONFIRMATION")
        PROVE  Knowing("createArtifact")
    <3>1. q.saw = "awaiting_permission"
      BY <2>2 DEF Allowed, runTransitions
    <3> QED BY <1>a, <2>1, <3>1 DEF Knows, KnowsAlone, RunAwaits, PlanAwaits, PlannedAwaits
  <2> QED BY <1>0, <2>1, <2>2, WhatFollows, PlainRead
<1>6. CASE ReadAwaiting(c)
  <2>1. /\ At(c, "readAwaiting")
        /\ \/ Quit(c)
           \/ /\ Allowed(runTransitions, runStatus[q.run], "REJECT_EXECUTION")
              /\ Proceed(c, q, 0)
    BY <1>6 DEF ReadAwaiting, Check
  <2>2. ASSUME Allowed(runTransitions, runStatus[q.run], "REJECT_EXECUTION")
        PROVE  Knowing("rejectRun")
    <3>1. runStatus[q.run] = "awaiting_confirmation"
      BY <2>2 DEF Allowed, runTransitions
    <3> QED BY <1>a, <2>1, <3>1 DEF Knows, KnowsAlone, RunAwaits, PlanAwaits, PlannedAwaits
  <2> QED BY <1>0, <2>1, <2>2, WhatFollows, PlainRead
<1>7. CASE RecallPermission(c)
  <2>1. At(c, "recallPermission") /\ (Quit(c) \/ Proceed(c, q, 0))
    BY <1>7 DEF RecallPermission, Check
  <2>2. Knowing("readConfirmed") /\ Knowing("readExecutable")
    BY <1>a, <2>1 DEF Knows, KnowsAlone, RunAwaits, PlanAwaits, PlannedAwaits
  <2> QED BY <1>0, <2>1, <2>2, WhatFollows, PlainRead
<1>8. ASSUME NEW runIs, NEW planIs, Preconditions(c, runIs, planIs), q.plan \in Plan PROVE q.plan \in confirmed
  BY <1>8 DEF Preconditions, ToolInv, Rows, Kept
<1>9. CASE ReadConfirmed(c)
  <2>1. /\ At(c, "readConfirmed")
        /\ \/ Quit(c)
           \/ /\ Preconditions(c, "approved_for_execution", "approved_record")
              /\ Allowed(runTransitions, q.saw, "APPROVE_FOR_EXECUTION")
              /\ Proceed(c, q, 0)
    BY <1>9 DEF ReadConfirmed, Check
  <2>2. ASSUME Preconditions(c, "approved_for_execution", "approved_record"),
               Allowed(runTransitions, q.saw, "APPROVE_FOR_EXECUTION")
        PROVE  Knowing("approve")
    <3>1. q.saw = "awaiting_confirmation"
      BY <2>2 DEF Allowed, runTransitions
    <3>2. Knowing("readConfirmed") /\ q.plan \in Plan
      BY <1>a, <2>1 DEF Knows, PlannedAwaits
    <3>3. q.plan \in confirmed
      BY <1>8, <2>2, <3>2
    <3> QED BY <3>1, <3>2, <3>3 DEF Knows, KnowsAlone, RunAwaits, PlanAwaits, PlannedAwaits
  <2> QED BY <1>0, <2>1, <2>2, WhatFollows, PlainRead
<1>10. CASE ReadExecutable(c)
  <2>1. /\ At(c, "readExecutable")
        /\ \/ Quit(c)
           \/ /\ Preconditions(c, q.saw, q.was)
              /\ Proceed(c, q, 0)
    BY <1>10 DEF ReadExecutable, Check
  <2>2. ASSUME Preconditions(c, q.saw, q.was) PROVE Knowing("start")
    <3>1. q.saw = "approved_for_execution"
      BY <2>2 DEF Preconditions
    <3>2. Knowing("readExecutable") /\ q.plan \in Plan
      BY <1>a, <2>1 DEF Knows, PlannedAwaits
    <3>3. q.plan \in confirmed
      BY <1>8, <2>2, <3>2
    <3> QED BY <3>1, <3>2, <3>3 DEF Knows, KnowsAlone, RunAwaits, PlanAwaits, PlannedAwaits
  <2> QED BY <1>0, <2>1, <2>2, WhatFollows, PlainRead
<1> QED BY <1>1, <1>2, <1>3, <1>4, <1>5, <1>6, <1>7, <1>9, <1>10

LEMMA ReadsKeep ==
  ASSUME ToolInv, NEW c \in Request,
         \/ ReadCall(c) \/ ReadPending(c) \/ ReadSubmitted(c) \/ ReadRun(c) \/ ReadPlan(c)
         \/ ReadCommand(c) \/ Abandon(c)
  PROVE  ToolInv'
<1> DEFINE o == request[c]
<1>0. UNCHANGED rowVars
  BY DEF ReadCall, ReadPending, ReadSubmitted, ReadRun, ReadPlan, ReadCommand, Abandon,
         Check, rowVars
<1>a. ASSUME NEW step, At(c, step)
      PROVE  /\ o # Idle /\ o \in RequestRecord
             /\ Knows(step, o.run, o.plan, o.was)
             /\ ~overlap => KnowsAlone(step, o.run, o.plan, o.saw, o.was, o.idx)
  BY <1>a, RequestKnows
<1>b. RowsOK /\ Kept
  BY DEF ToolInv, Rows
<1>1. CASE ReadCall(c)
  <2> PICK q : q = [request[c] EXCEPT !.saw = callStatus]
    OBVIOUS
  <2>1. At(c, "readCall") /\ (Quit(c) \/ Proceed(c, q, 0))
    BY <1>1 DEF ReadCall, Check
  <2>2. q \in RequestRecord /\ q.todo = o.todo /\ q.op = o.op
    BY <1>a, <1>b, <2>1 DEF RequestRecord, RowsOK
  <2>3. \A a : <<"readCall", a>> \in Follows =>
          Knows(a, q.run, q.plan, q.was) /\ KnowsAlone(a, q.run, q.plan, q.saw, q.was, q.idx)
    <3>1. /\ Knows("readLatest", q.run, q.plan, q.was)
          /\ KnowsAlone("readLatest", q.run, q.plan, q.saw, q.was, q.idx)
      BY DEF Knows, KnowsAlone, RunAwaits, PlanAwaits, PlannedAwaits
    <3> QED BY <3>1, WhatFollows
  <2> QED BY <1>0, <1>a, <2>1, <2>2, <2>3, ReadGoesOn, ReadQuits
<1>2. CASE ReadPending(c)
  <2> PICK q : q = [request[c] EXCEPT !.idx = callArt]
    OBVIOUS
  <2>1. /\ At(c, "readPending")
        /\ Quit(c) \/ (callArt # 0 /\ callStatus = "pending_confirmation" /\ Proceed(c, q, 0))
    BY <1>2 DEF ReadPending, Check
  <2>2. callArt \in 0..Len(artifacts) /\ Len(artifacts) \in Nat /\ callArt \in Nat
    BY <1>b DEF RowsOK
  <2>3. q \in RequestRecord /\ q.todo = o.todo /\ q.op = o.op /\ q.idx = callArt
    BY <1>a, <2>1, <2>2 DEF RequestRecord
  <2>4. ASSUME callArt # 0, callStatus = "pending_confirmation",
               NEW a, <<"readPending", a>> \in Follows
        PROVE  /\ Knows(a, q.run, q.plan, q.was)
               /\ KnowsAlone(a, q.run, q.plan, q.saw, q.was, q.idx)
    <3>1. a \in {"approveArtifact", "rejectArtifact"} /\ callArt \in 1..Len(artifacts)
      <4>1. a \in {"approveArtifact", "rejectArtifact"}
        BY <2>4, WhatFollows
      <4>2. callArt \in 1..Len(artifacts)
        BY <2>2, <2>4
      <4> QED BY <4>1, <4>2
    <3>2. Knows(a, q.run, q.plan, q.was)
      BY <3>1 DEF Knows, RunAwaits, PlanAwaits, PlannedAwaits
    <3>3. KnowsAlone(a, q.run, q.plan, q.saw, q.was, q.idx)
      BY <2>3, <2>4, <3>1 DEF KnowsAlone
    <3> QED BY <3>2, <3>3
  <2> QED BY <1>0, <1>a, <2>1, <2>3, <2>4, ReadGoesOn, ReadQuits
<1>3. CASE ReadSubmitted(c)
  <2> PICK q : q = [request[c] EXCEPT !.run = planRun[request[c].plan]]
    OBVIOUS
  <2>1. At(c, "readSubmitted") /\ (Quit(c) \/ Proceed(c, q, 0))
    BY <1>3 DEF ReadSubmitted, Check
  <2>2. o.plan \in Plan /\ planRun[o.plan] \in Run \cup {None}
    BY <1>a, <1>b, <2>1 DEF Knows, PlanAwaits, RowsOK
  <2>3. q \in RequestRecord /\ q.todo = o.todo /\ q.op = o.op /\ q.plan = o.plan
    BY <1>a, <2>1, <2>2 DEF RequestRecord
  <2>4. \A a : <<"readSubmitted", a>> \in Follows =>
          Knows(a, q.run, q.plan, q.was) /\ KnowsAlone(a, q.run, q.plan, q.saw, q.was, q.idx)
    <3>1. /\ Knows("approvePlanArtifact", q.run, q.plan, q.was)
          /\ KnowsAlone("approvePlanArtifact", q.run, q.plan, q.saw, q.was, q.idx)
      BY <2>2, <2>3 DEF Knows, KnowsAlone, RunAwaits, PlanAwaits, PlannedAwaits
    <3>2. /\ Knows("rejectPlanArtifact", q.run, q.plan, q.was)
          /\ KnowsAlone("rejectPlanArtifact", q.run, q.plan, q.saw, q.was, q.idx)
      BY <2>2, <2>3 DEF Knows, KnowsAlone, RunAwaits, PlanAwaits, PlannedAwaits
    <3> QED BY <3>1, <3>2, WhatFollows
  <2> QED BY <1>0, <1>a, <2>1, <2>3, <2>4, ReadGoesOn, ReadQuits
<1>4. CASE ReadRun(c)
  <2>0. PICK q : q = [request[c] EXCEPT !.saw = runStatus[request[c].run],
                                      !.plan = runPlan[request[c].run]]
    OBVIOUS
  <2>1. /\ At(c, "readRun")
        /\ Quit(c) \/ ((o.op = "cancelRun" \/ runPlan[o.run] # None) /\ Proceed(c, q, 0))
    BY <1>4, <2>0 DEF ReadRun, Check
  <2>2. /\ o.run \in Run /\ (~overlap => runStatus[o.run] # "absent")
        /\ runPlan[o.run] \in Plan \cup {None}
        /\ runStatus[o.run] \in {"absent"} \cup RunStatus
    BY <1>a, <1>b, <2>1 DEF Knows, KnowsAlone, RunAwaits, RowsOK
  <2>3. /\ q \in RequestRecord /\ q.todo = o.todo /\ q.op = o.op /\ q.run = o.run
        /\ q.saw = runStatus[o.run] /\ q.plan = runPlan[o.run]
    BY <1>a, <2>0, <2>1, <2>2 DEF RequestRecord
  <2>4. ASSUME o.op = "cancelRun" \/ runPlan[o.run] # None,
               NEW a, <<"readRun", a>> \in Follows, q.op = "cancelRun" => a = "cancelRun"
        PROVE  /\ Knows(a, q.run, q.plan, q.was)
               /\ ~overlap => KnowsAlone(a, q.run, q.plan, q.saw, q.was, q.idx)
    <3>1. a = "cancelRun" \/ (a = "readPlan" /\ runPlan[o.run] \in Plan)
      BY <2>2, <2>3, <2>4, WhatFollows
    <3>2. CASE a = "cancelRun"
      <4>1. Knows("cancelRun", q.run, q.plan, q.was)
        BY <2>2, <2>3, <3>2 DEF Knows, RunAwaits, PlanAwaits, PlannedAwaits
      <4>2. ~overlap => KnowsAlone("cancelRun", q.run, q.plan, q.saw, q.was, q.idx)
        BY <2>2, <2>3 DEF KnowsAlone
      <4> QED BY <3>2, <4>1, <4>2
    <3>3. CASE a = "readPlan" /\ runPlan[o.run] \in Plan
      <4>1. Knows("readPlan", q.run, q.plan, q.was)
        BY <2>2, <2>3, <3>3 DEF Knows, RunAwaits, PlanAwaits, PlannedAwaits
      <4>2. ~overlap => KnowsAlone("readPlan", q.run, q.plan, q.saw, q.was, q.idx)
        BY <2>2, <2>3 DEF KnowsAlone
      <4> QED BY <3>3, <4>1, <4>2
    <3> QED BY <3>1, <3>2, <3>3
  <2> QED BY <1>0, <1>a, <2>1, <2>3, <2>4, ReadGoesOn, ReadQuits
<1>5. CASE ReadPlan(c)
  <2> PICK q : q = [request[c] EXCEPT !.was = planStatus[request[c].plan]]
    OBVIOUS
  <2>1. At(c, "readPlan") /\ (Quit(c) \/ Proceed(c, q, 0))
    BY <1>5 DEF ReadPlan, Check
  <2>2. /\ o.plan \in Plan
        /\ planStatus[o.plan] \in {"absent", "ready_for_confirmation", "approved_record", "rejected"}
    BY <1>a, <1>b, <2>1 DEF Knows, PlannedAwaits, RowsOK
  <2>3. /\ q \in RequestRecord /\ q.todo = o.todo /\ q.op = o.op /\ q.run = o.run
        /\ q.saw = o.saw /\ q.plan = o.plan
    BY <1>a, <2>1, <2>2 DEF RequestRecord
  <2>4. \A a : <<"readPlan", a>> \in Follows =>
          /\ Knows(a, q.run, q.plan, q.was)
          /\ ~overlap => KnowsAlone(a, q.run, q.plan, q.saw, q.was, q.idx)
    <3>1. /\ Knows("readPlan", o.run, o.plan, o.was)
          /\ ~overlap => KnowsAlone("readPlan", o.run, o.plan, o.saw, o.was, o.idx)
      BY <1>a, <2>1
    <3>2. Knows("recallPermission", q.run, q.plan, q.was)
      BY <2>3, <3>1 DEF Knows, RunAwaits, PlanAwaits, PlannedAwaits
    <3>3. ~overlap => KnowsAlone("recallPermission", q.run, q.plan, q.saw, q.was, q.idx)
      BY <2>3, <3>1 DEF KnowsAlone
    <3> QED BY <3>2, <3>3, WhatFollows
  <2> QED BY <1>0, <1>a, <2>1, <2>3, <2>4, ReadGoesOn, ReadQuits
<1>6. CASE ReadCommand(c)
  <2> PICK q : q = [request[c] EXCEPT !.plan = runPlan[request[c].run]]
    OBVIOUS
  <2>1. /\ At(c, "readCommand")
        /\ Quit(c) \/ (runStatus[o.run] = "approved_for_execution" /\ Proceed(c, q, 0))
    BY <1>6 DEF ReadCommand, Check
  <2>2. o.run \in Run /\ runPlan[o.run] \in Plan \cup {None}
    BY <1>a, <1>b, <2>1 DEF Knows, RunAwaits, RowsOK
  <2>3. /\ q \in RequestRecord /\ q.todo = o.todo /\ q.op = o.op /\ q.run = o.run
        /\ q.plan = runPlan[o.run]
    BY <1>a, <2>1, <2>2 DEF RequestRecord
  <2>4. ASSUME runStatus[o.run] = "approved_for_execution", NEW a, <<"readCommand", a>> \in Follows
        PROVE  /\ Knows(a, q.run, q.plan, q.was)
               /\ KnowsAlone(a, q.run, q.plan, q.saw, q.was, q.idx)
    <3>1. a = "startCommand" /\ q.plan \in Plan
      BY <1>b, <2>2, <2>3, <2>4, WhatFollows DEF Kept
    <3> QED BY <2>2, <2>3, <2>4, <3>1 DEF Knows, KnowsAlone, RunAwaits, PlanAwaits, PlannedAwaits
  <2> QED BY <1>0, <1>a, <2>1, <2>3, <2>4, ReadGoesOn, ReadQuits
<1>7. CASE Abandon(c)
  BY <1>0, <1>7, ReadQuits DEF Abandon
<1> QED BY <1>1, <1>2, <1>3, <1>4, <1>5, <1>6, <1>7

\* The reads that skip awaits, or put some before those that are left.
LEMMA BranchesKeep ==
  ASSUME ToolInv, NEW c \in Request, FindRun(c) \/ ReadPermission(c) \/ ReadPlannable(c)
  PROVE  ToolInv'
<1> DEFINE o == request[c]
           s == o.todo
<1>0. UNCHANGED rowVars /\ Rows' /\ Grows
  <2>1. UNCHANGED rowVars
    BY DEF FindRun, ReadPermission, ReadPlannable, rowVars
  <2> QED BY <2>1, RowsStay
<1>a. ASSUME NEW step, At(c, step)
      PROVE  /\ o # Idle /\ o \in RequestRecord
             /\ Knows(step, o.run, o.plan, o.was)
             /\ ~overlap => KnowsAlone(step, o.run, o.plan, o.saw, o.was, o.idx)
             /\ s \in Seq(Await) /\ s # <<>> /\ Chained(s) /\ step = Head(s)
             /\ o.op = "cancelRun" => s \in {<<"readRun", "cancelRun">>, <<"cancelRun">>}
  BY <1>a, RequestKnows DEF InProgress, RequestRecord
<1>b. ASSUME NEW step \in {"findRun", "readPermission", "readPlannable", "readPlannableAgain"}, At(c, step)
      PROVE  o.op # "cancelRun"
  BY <1>a, <1>b
<1>c. ASSUME NEW step, At(c, step), NEW n \in 1..2, n + 2 \in 2..Len(s)
      PROVE  \E m : <<step, m>> \in Follows /\ s[3] \in Await /\ <<m, s[3]>> \in Follows
                    /\ (n = 2 => <<s[3], s[4]>> \in Follows)
  <2> HIDE DEF s
  <2>1. s \in Seq(Await) /\ s # <<>> /\ Chained(s) /\ step = Head(s) /\ Len(s) \in Nat /\ Len(s) >= 3
    BY <1>a, <1>c
  <2>2. step = s[1] /\ 1 \in 1 .. Len(s) - 1 /\ 2 \in 1 .. Len(s) - 1 /\ 1 + 1 = 2 /\ 2 + 1 = 3
    BY <2>1
  <2>3. <<s[1], s[2]>> \in Follows /\ <<s[2], s[3]>> \in Follows
    BY <2>1, <2>2 DEF Chained
  <2>4. n = 2 => <<s[3], s[4]>> \in Follows
    <3>1. ASSUME n = 2 PROVE 3 \in 1 .. Len(s) - 1 /\ 3 + 1 = 4
      BY <1>c, <2>1, <3>1
    <3> QED BY <2>1, <3>1 DEF Chained
  <2> QED BY <2>2, <2>3, <2>4, PairsAreAwaits
<1>1. CASE FindRun(c)
  <2>1. At(c, "findRun")
    BY <1>1 DEF FindRun
  <2>2. CASE NoRunOfKey /\ Go(c)
    <3>1. \A a \in Await : <<"findRun", a>> \in Follows =>
            Knows(a, o.run, o.plan, o.was) /\ KnowsAlone(a, o.run, o.plan, o.saw, o.was, o.idx)
      <4>1. /\ Knows("insertRun", o.run, o.plan, o.was)
            /\ KnowsAlone("insertRun", o.run, o.plan, o.saw, o.was, o.idx)
        BY <2>2 DEF Knows, KnowsAlone, RunAwaits, PlanAwaits, PlannedAwaits
      <4> QED BY <4>1, WhatFollows
    <3> QED BY <1>0, <2>1, <2>2, <3>1, PlainRead DEF Go
  <2>3. ASSUME NEW r \in Run, Proceed(c, [request[c] EXCEPT !.run = r], 1) PROVE ToolInv'
    <3> PICK q : q = [request[c] EXCEPT !.run = r]
      OBVIOUS
    <3>1. q \in RequestRecord /\ q.todo = s /\ q.op = o.op /\ q.run = r
      BY <1>a, <2>1 DEF RequestRecord
    <3>2. PICK a : a = s[1 + 2]
      OBVIOUS
    <3>3. 1 + 2 \in 2..Len(s) => a = "readPlannable"
      <4>1. 1 \in 1..2 /\ 1 + 2 = 3
        OBVIOUS
      <4> HIDE DEF s
      <4>2. ASSUME 1 + 2 \in 2..Len(s) PROVE \E m : <<"findRun", m>> \in Follows /\ <<m, a>> \in Follows
        BY <1>c, <2>1, <3>2, <4>1, <4>2
      <4> QED BY <4>2, WhatFollows
    <3>4. /\ Knows("readPlannable", q.run, q.plan, q.was)'
          /\ KnowsAlone("readPlannable", q.run, q.plan, q.saw, q.was, q.idx)'
      BY <3>1 DEF Knows, KnowsAlone, RunAwaits, PlanAwaits, PlannedAwaits
    <3>5. 1 + 2 \in 2..Len(q.todo) =>
            /\ Knows(q.todo[1 + 2], q.run, q.plan, q.was)'
            /\ ~overlap => KnowsAlone(q.todo[1 + 2], q.run, q.plan, q.saw, q.was, q.idx)'
      BY <3>1, <3>2, <3>3, <3>4
    <3>6. Proceed(c, q, 1) /\ 1 \in Nat /\ q.op # "cancelRun" /\ request[c] # Idle
      BY <1>a, <1>b, <2>1, <2>3, <3>1
    <3> QED BY <1>0, <3>1, <3>5, <3>6, LandsOn
  <2> QED BY <1>1, <2>2, <2>3 DEF FindRun
<1>2. CASE ReadPermission(c)
  <2>1. At(c, "readPermission") /\ o.run \in Run /\ (~overlap => runStatus[o.run] = "created")
    BY <1>2, <1>a DEF ReadPermission, Knows, KnowsAlone, RunAwaits
  <2>2. CASE Quit(c) \/ (Grants /\ Go(c))
    <3>1. Grants => \A a \in Await : <<"readPermission", a>> \in Follows =>
            /\ Knows(a, o.run, o.plan, o.was)
            /\ ~overlap => KnowsAlone(a, o.run, o.plan, o.saw, o.was, o.idx)
      BY <2>1, WhatFollows DEF Knows, KnowsAlone, RunAwaits, PlanAwaits, PlannedAwaits
    <3> QED BY <1>0, <2>1, <2>2, <3>1, PlainRead DEF Go
  <2>3. CASE Latest = "allow_controlled_execution" /\ Proceed(c, request[c], 2)
    <3> PICK q : q = request[c]
      OBVIOUS
    <3>1. q \in RequestRecord /\ q.todo = s /\ q.op = o.op /\ q.run = o.run
      BY <1>a, <2>1
    <3>2. PICK a : a = s[2 + 2]
      OBVIOUS
    <3>3. 2 + 2 \in 2..Len(s) => a = "awaitPermission"
      <4>1. 2 \in 1..2 /\ 2 + 2 = 4
        OBVIOUS
      <4> HIDE DEF s
      <4>2. ASSUME 2 + 2 \in 2..Len(s)
            PROVE  \E m, k : <<"readPermission", m>> \in Follows /\ <<m, k>> \in Follows /\ <<k, a>> \in Follows
        BY <1>c, <2>1, <3>2, <4>1, <4>2
      <4> QED BY <4>2, WhatFollows
    <3>4. UNCHANGED runStatus /\ (Latest = "allow_controlled_execution")'
      BY <1>0, <2>3 DEF rowVars, runVars, Latest
    <3>5. /\ Knows("awaitPermission", q.run, q.plan, q.was)'
          /\ ~overlap => KnowsAlone("awaitPermission", q.run, q.plan, q.saw, q.was, q.idx)'
      BY <2>1, <3>1, <3>4 DEF Knows, KnowsAlone, RunAwaits, PlanAwaits, PlannedAwaits
    <3>6. 2 + 2 \in 2..Len(q.todo) =>
            /\ Knows(q.todo[2 + 2], q.run, q.plan, q.was)'
            /\ ~overlap => KnowsAlone(q.todo[2 + 2], q.run, q.plan, q.saw, q.was, q.idx)'
      BY <3>1, <3>2, <3>3, <3>5
    <3>7. Proceed(c, q, 2) /\ 2 \in Nat /\ q.op # "cancelRun" /\ request[c] # Idle
      BY <1>a, <1>b, <2>1, <2>3, <3>1
    <3> QED BY <1>0, <3>1, <3>6, <3>7, LandsOn
  <2> QED BY <1>2, <2>2, <2>3 DEF ReadPermission
<1>3. ASSUME NEW step \in {"readPlannable", "readPlannableAgain"}, At(c, step), ReadPlannable(c) PROVE ToolInv'
  <2>1. o.run \in Run /\ runStatus[o.run] \in {"absent"} \cup RunStatus
    BY <1>3, <1>a DEF Knows, RunAwaits, ToolInv, Rows, RowsOK
  <2>2. CASE Quit(c)
    BY <1>0, <1>a, <1>3, <2>2, ReadQuits
  <2>3. CASE /\ runStatus[o.run] \in {"awaiting_permission", "awaiting_confirmation"}
             /\ Proceed(c, [request[c] EXCEPT !.saw = runStatus[o.run]], 0)
    <3> PICK q : q = [request[c] EXCEPT !.saw = runStatus[o.run]]
      OBVIOUS
    <3>1. /\ q \in RequestRecord /\ q.todo = s /\ q.op = o.op /\ q.run = o.run
          /\ q.saw = runStatus[o.run]
      BY <1>a, <1>3, <2>1 DEF RequestRecord
    <3>2. \A a : <<step, a>> \in Follows =>
            Knows(a, q.run, q.plan, q.was) /\ KnowsAlone(a, q.run, q.plan, q.saw, q.was, q.idx)
      <4>1. /\ Knows("findPlan", q.run, q.plan, q.was)
            /\ KnowsAlone("findPlan", q.run, q.plan, q.saw, q.was, q.idx)
        BY <2>1, <2>3, <3>1 DEF Knows, KnowsAlone, RunAwaits, PlanAwaits, PlannedAwaits
      <4> QED BY <1>3, <4>1, WhatFollows
    <3> QED BY <1>0, <1>3, <2>3, <3>1, <3>2, ReadGoesOn
  <2>4. CASE /\ At(c, "readPlannable")
             /\ request' = [request EXCEPT ![c].todo =
                  RequestPermission \o <<"readPlannableAgain">> \o Tail(@)]
    <3> DEFINE first == RequestPermission \o <<"readPlannableAgain">>
               t == first \o Tail(s)
               left == [o EXCEPT !.todo = t]
    <3>1. s \in Seq(Await) /\ s # <<>> /\ Chained(s) /\ Head(s) = "readPlannable"
      BY <1>a, <2>4
    <3>2. Part(first, "readCreated", "readPlannableAgain")
      BY PermissionIsChained
    <3>3. \E z : Part(t, "readCreated", z)
      <4> HIDE DEF s, first
      <4>1. CASE Tail(s) = <<>>
        <5>1. first \o <<>> = first
          BY <3>2 DEF Part
        <5> QED BY <3>2, <4>1, <5>1
      <4>2. CASE Tail(s) # <<>>
        <5>1. Len(s) >= 2 /\ Len(s) \in Nat
          BY <3>1, <4>2
        <5> DEFINE u == SubSeq(s, 2, Len(s))
        <5>2. u \in Seq(Await) /\ u # <<>> /\ Chained(u) /\ Head(u) = s[2]
          <6>1. 2 \in 2..Len(s)
            BY <5>1
          <6> QED BY <3>1, <6>1, RestIsChained
        <5>3. Tail(s) = u
          BY <3>1
        <5>4. s[2] = "findPlan"
          <6>1. 1 \in 1 .. Len(s) - 1 /\ 1 + 1 = 2 /\ s[1] = "readPlannable"
            BY <3>1, <5>1
          <6>2. <<s[1], s[2]>> \in Follows
            BY <3>1, <6>1 DEF Chained
          <6> QED BY <6>1, <6>2, WhatFollows
        <5> HIDE DEF u
        <5>5. Len(u) >= 1 /\ u[1] = "findPlan"
          BY <5>2, <5>4
        <5>6. Part(u, "findPlan", u[Len(u)])
          BY <5>2, <5>5 DEF Part
        <5> QED BY <3>2, <5>3, <5>6, Pairs, PartsJoin
      <4> QED BY <4>1, <4>2
    <3>4. t \in Seq(Await) /\ t # <<>> /\ Chained(t) /\ Head(t) = "readCreated"
      <4> HIDE DEF t
      <4> QED BY <3>3 DEF Part
    <3>5. request' = [request EXCEPT ![c] = left]
      BY <2>4
    <3>6. /\ left \in RequestRecord /\ left.todo = t /\ left.run = o.run /\ left.op = o.op
      <4> HIDE DEF t
      <4> QED BY <1>a, <2>4, <3>4 DEF RequestRecord
    <3> HIDE DEF left, t, s
    <3> PICK m : m = left
      OBVIOUS
    <3>7. InProgress(m) /\ Head(m.todo) = "readCreated"
      BY <1>3, <1>b, <3>4, <3>6 DEF InProgress
    <3>8. Informed(m)' /\ InformedAlone(m)'
      BY <2>1, <3>6, <3>7
      DEF Informed, InformedAlone, InProgress, Knows, KnowsAlone, RunAwaits, PlanAwaits, PlannedAwaits
    <3> QED BY <1>0, <1>a, <1>3, <3>5, <3>6, <3>8, OneRequest
  <2> QED BY <1>3, <2>2, <2>3, <2>4 DEF ReadPlannable
<1> QED BY <1>1, <1>2, <1>3 DEF ReadPlannable

-----------------------------------------------------------------------------
(* Writes *)

\* A write after which the request knows what it knew.
LEMMA WriteGoesOn ==
  ASSUME ToolInv, Rows', Grows, NEW c \in Request, NEW step, At(c, step), Go(c),
         NEW q, q = request[c], step # "readRun",
         \A a \in Await : <<step, a>> \in Follows
           => /\ Knows(a, q.run, q.plan, q.was)'
              /\ (~overlap => KnowsAlone(a, q.run, q.plan, q.saw, q.was, q.idx)')
  PROVE  ToolInv'
<1>1. q \in RequestRecord /\ q.todo = request[c].todo /\ q.op = request[c].op /\ Proceed(c, q, 0)
  BY RequestKnows DEF Go
<1> QED BY <1>1, GoesOn

\* The last write of a request.
LEMMA LastWrite ==
  ASSUME ToolInv, Rows', Grows, NEW c \in Request, Go(c),
         NEW step \in {"evaluate", "cancelCall", "approveCall", "rejectCall", "insertPlan",
                       "planReady", "rejectRun", "approve", "cancelRun", "receipt",
                       "settleCommand"},
         At(c, step)
  PROVE  ToolInv'
<1>1. \A a \in Await : <<step, a>> \notin Follows
  BY WhatFollows
<1> PICK q : q = request[c]
  OBVIOUS
<1> QED BY <1>1, WriteGoesOn

\* A write to the call or its confirmations.
CallRowsKept ==
  UNCHANGED <<fixed, runVars, planVars, receipts, started>>

LEMMA CallWrite ==
  ASSUME ToolInv, CallRowsKept,
         callStatus' \in CallStatus, artifacts' \in Seq({"pending", "approved", "rejected"}),
         callArt' \in 0..Len(artifacts'), permissions' \in Seq(Decision),
         ~overlap => /\ callStatus' = "approved_record" => artifacts'[callArt'] = "approved"
                     /\ callStatus' = "rejected" => artifacts'[callArt'] = "rejected"
                     /\ RefusedForGood' /\ Permitted'
  PROVE  Rows' /\ Grows
<1>1. /\ UNCHANGED <<tool, overlap, budget>>
      /\ UNCHANGED <<runStatus, runPlan, planStatus, planRun, planArt, expired, confirmed>>
      /\ UNCHANGED <<receipts, started>>
  BY DEF CallRowsKept, fixed, runVars, planVars
<1>2. RowsOK'
  BY <1>1 DEF ToolInv, Rows, RowsOK
<1>3. Kept' /\ (~overlap' => KeptAlone')
  BY <1>1 DEF ToolInv, Rows, Kept, KeptAlone, SuccessHasReceipt, Begun, Starts
<1> QED BY <1>1, <1>2, <1>3 DEF Rows, Grows

LEMMA EvaluateKeeps ==
  ASSUME ToolInv, NEW c \in Request, Evaluate(c)
  PROVE  ToolInv'
<1>1. At(c, "evaluate") /\ Go(c) /\ CallRowsKept
  BY DEF Evaluate, CallRowsKept
<1>2. RowsOK
  BY DEF ToolInv, Rows
<1>3. permissions' \in Seq(Decision)
  <2>1. evaluateToolPermission(tool) \in Decision
    BY DEF evaluateToolPermission, Decision
  <2> QED BY <1>2, <2>1, AppendProperties DEF Evaluate, RowsOK
<1>4. artifacts' \in Seq({"pending", "approved", "rejected"}) /\ callArt' \in 0..Len(artifacts')
  <2>1. /\ artifacts \in Seq({"pending", "approved", "rejected"})
        /\ \/ artifacts' = artifacts /\ callArt' = 0
           \/ artifacts' = Append(artifacts, "pending") /\ callArt' = Len(artifacts) + 1
    BY <1>2 DEF Evaluate, NewArtifact, RowsOK
  <2> QED BY <2>1, AppendProperties, LenProperties
<1>5. callStatus' \in {"proposed", "permission_denied", "pending_confirmation"}
  <2>1. eventForPermission(evaluateToolPermission(tool))
          \in {"REQUIRE_CONFIRMATION", "DENY_PERMISSION", "EVALUATE_PERMISSION"}
    BY DEF eventForPermission
  <2>2. \E t \in callTransitions :
          t[2] = eventForPermission(evaluateToolPermission(tool)) /\ callStatus' = t[3]
    BY DEF Evaluate
  <2> QED BY <2>1, <2>2 DEF callTransitions
<1>6. ASSUME ~overlap PROVE RefusedForGood' /\ Permitted'
  <2>1. permissions = <<>>
    BY <1>1, <1>6, RequestKnows DEF KnowsAlone
  <2>2. Len(permissions') = 1
    BY <2>1 DEF Evaluate
  <2>3. \A r \in Run : runStatus[r] \in Unpermitted
    BY <2>1, <1>6, PermittedRun DEF Latest
  <2>4. UNCHANGED runStatus
    BY <1>1 DEF CallRowsKept, runVars
  <2> QED BY <2>2, <2>3, <2>4 DEF RefusedForGood, Permitted
<1>7. Rows' /\ Grows
  BY <1>1, <1>3, <1>4, <1>5, <1>6, CallWrite DEF CallStatus
<1> QED BY <1>1, <1>7, LastWrite

LEMMA ReviewArtifactKeeps ==
  ASSUME ToolInv, NEW c \in Request, ReviewArtifact(c)
  PROVE  ToolInv'
<1> PICK q : q = request[c]
  OBVIOUS
<1>1. PICK step \in {"approveArtifact", "rejectArtifact"} :
        /\ At(c, step) /\ Go(c) /\ CallRowsKept /\ UNCHANGED <<callStatus, callArt, permissions>>
        /\ artifacts' = [artifacts EXCEPT ![q.idx] =
                           IF step = "approveArtifact" THEN "approved" ELSE "rejected"]
  BY DEF ReviewArtifact, CallRowsKept
<1>2. /\ ~overlap => /\ callStatus = "pending_confirmation" /\ q.idx = callArt
                     /\ callArt \in 1..Len(artifacts)
  BY <1>1, RequestKnows DEF KnowsAlone
<1>3. RowsOK
  BY DEF ToolInv, Rows
<1>4. /\ artifacts' \in Seq({"pending", "approved", "rejected"}) /\ Len(artifacts') = Len(artifacts)
      /\ q.idx \in 1..Len(artifacts) =>
           artifacts'[q.idx] = IF step = "approveArtifact" THEN "approved" ELSE "rejected"
  <2>1. artifacts \in Seq({"pending", "approved", "rejected"})
    BY <1>3 DEF RowsOK
  <2>2. CASE q.idx \in 1..Len(artifacts)
    BY <1>1, <2>1, <2>2, ExceptSeq
  <2>3. CASE q.idx \notin 1..Len(artifacts)
    <3>1. artifacts' = artifacts
      BY <1>1, <2>1, <2>3
    <3> QED BY <2>1, <2>3, <3>1
  <2> QED BY <2>2, <2>3
<1>5. Rows' /\ Grows
  <2>1. callStatus' \in CallStatus /\ callArt' \in 0..Len(artifacts') /\ permissions' \in Seq(Decision)
    BY <1>1, <1>3, <1>4 DEF RowsOK
  <2> QED BY <1>1, <1>2, <1>4, <2>1, CallWrite, PermissionsStay DEF CallRowsKept, runVars
<1>6. CASE step = "approveArtifact"
  <2>1. /\ Knows("approveCall", q.run, q.plan, q.was)'
        /\ ~overlap => KnowsAlone("approveCall", q.run, q.plan, q.saw, q.was, q.idx)'
    BY <1>1, <1>2, <1>4, <1>6 DEF Knows, KnowsAlone, RunAwaits, PlanAwaits, PlannedAwaits
  <2>2. \A a : <<step, a>> \in Follows => a = "approveCall"
    BY <1>6, WhatFollows
  <2> QED BY <1>1, <1>5, <2>1, <2>2, WriteGoesOn
<1>7. CASE step = "rejectArtifact"
  <2>1. /\ Knows("rejectCall", q.run, q.plan, q.was)'
        /\ ~overlap => KnowsAlone("rejectCall", q.run, q.plan, q.saw, q.was, q.idx)'
    BY <1>1, <1>2, <1>4, <1>7 DEF Knows, KnowsAlone, RunAwaits, PlanAwaits, PlannedAwaits
  <2>2. \A a : <<step, a>> \in Follows => a = "rejectCall"
    BY <1>7, WhatFollows
  <2> QED BY <1>1, <1>5, <2>1, <2>2, WriteGoesOn
<1> QED BY <1>1, <1>6, <1>7

LEMMA UpdateCallKeeps ==
  ASSUME ToolInv, NEW c \in Request, UpdateCall(c)
  PROVE  ToolInv'
<1>1. PICK step \in {"approveCall", "rejectCall", "cancelCall"} :
        /\ At(c, step) /\ Go(c) /\ CallRowsKept /\ UNCHANGED <<callArt, artifacts, permissions>>
        /\ callStatus' = IF step = "approveCall" THEN "approved_record"
                         ELSE IF step = "rejectCall" THEN "rejected" ELSE "cancelled"
  BY DEF UpdateCall, CallRowsKept
<1>2. ~overlap => /\ step = "approveCall" => artifacts[callArt] = "approved"
                  /\ step = "rejectCall" => artifacts[callArt] = "rejected"
  BY <1>1, RequestKnows DEF KnowsAlone
<1>3. RowsOK
  BY DEF ToolInv, Rows
<1>4. Rows' /\ Grows
  <2>1. /\ callStatus' \in CallStatus /\ artifacts' \in Seq({"pending", "approved", "rejected"})
        /\ callArt' \in 0..Len(artifacts') /\ permissions' \in Seq(Decision)
    BY <1>1, <1>3 DEF RowsOK, CallStatus
  <2>2. UNCHANGED <<permissions, runStatus>>
    BY <1>1 DEF CallRowsKept, runVars
  <2> QED BY <1>1, <1>2, <2>1, <2>2, CallWrite, PermissionsStay
<1> QED BY <1>1, <1>4, LastWrite

LEMMA InsertPermissionKeeps ==
  ASSUME ToolInv, NEW c \in Request, InsertPermission(c)
  PROVE  ToolInv'
<1> PICK q : q = request[c]
  OBVIOUS
<1>1. /\ At(c, "insertPermission") /\ Go(c) /\ CallRowsKept /\ UNCHANGED callVars
      /\ permissions' = Append(permissions, "allow_controlled_execution")
  BY DEF InsertPermission, CallRowsKept
<1>2. RowsOK /\ (~overlap => KeptAlone)
  BY DEF ToolInv, Rows
<1>3. Rows' /\ Grows
  <2>1. permissions' \in Seq(Decision)
    BY <1>1, <1>2, AppendProperties DEF RowsOK, Decision
  <2>2. ASSUME ~overlap PROVE RefusedForGood' /\ Permitted'
    <3>1. Grants /\ permissions \in Seq(Decision)
      BY <1>1, <1>2, <2>2, RequestKnows DEF KnowsAlone, RowsOK
    <3>2. \A i \in 1..Len(permissions) : permissions[i] \notin {"requires_human", "deny"}
      BY <1>2, <2>2, <3>1 DEF KeptAlone, RefusedForGood, Grants, Latest
    <3>3. /\ Len(permissions') = Len(permissions) + 1 /\ Len(permissions) \in Nat
          /\ \A i \in 1..Len(permissions') : permissions'[i] =
               IF i <= Len(permissions) THEN permissions[i] ELSE "allow_controlled_execution"
      BY <1>1, <3>1, AppendProperties, LenProperties DEF Decision
    <3>4. (Latest = "allow_controlled_execution")'
      BY <2>1, <3>3 DEF Latest
    <3>5. RefusedForGood'
      BY <3>2, <3>3 DEF RefusedForGood
    <3> QED BY <3>4, <3>5 DEF Permitted
  <2> QED BY <1>1, <1>2, <2>1, <2>2, CallWrite DEF RowsOK, KeptAlone, callVars
<1>4. q.run \in Run /\ (~overlap => runStatus[q.run] = "created")
  BY <1>1, RequestKnows DEF Knows, KnowsAlone, RunAwaits
<1>5. /\ Knows("rereadPermission", q.run, q.plan, q.was)'
      /\ ~overlap => KnowsAlone("rereadPermission", q.run, q.plan, q.saw, q.was, q.idx)'
  <2>1. UNCHANGED runStatus
    BY <1>1 DEF CallRowsKept, runVars
  <2> QED BY <1>4, <2>1 DEF Knows, KnowsAlone, RunAwaits, PlanAwaits, PlannedAwaits
<1>6. \A a : <<"insertPermission", a>> \in Follows => a = "rereadPermission"
  BY WhatFollows
<1> QED BY <1>1, <1>3, <1>5, <1>6, WriteGoesOn

\* A write to the status of one run, whose plan, receipts and starts stay.
LEMMA RunWrite ==
  ASSUME ToolInv, NEW r, NEW s \in RunStatus \ {"approved_for_execution"},
         runStatus' = [runStatus EXCEPT ![r] = s],
         UNCHANGED <<fixed, callVars, permissions, runPlan, planVars, receipts, started>>,
         s = "succeeded" => \E x \in receipts : x.run = r /\ x.ok,
         ~overlap /\ r \in Run =>
           /\ runStatus[r] = "absent" => NoRunOfKey
           /\ s \in Unstarted => runStatus[r] \in Unstarted
           /\ s \in Unpermitted \/ Latest = "allow_controlled_execution"
  PROVE  Rows' /\ Grows
<1>1. /\ UNCHANGED <<tool, overlap, budget, callStatus, callArt, artifacts, permissions>>
      /\ UNCHANGED <<runPlan, planStatus, planRun, planArt, expired, confirmed>>
      /\ UNCHANGED <<receipts, started>>
  BY DEF fixed, callVars, planVars
<1>2. RowsOK /\ Kept /\ (~overlap => KeptAlone)
  BY DEF ToolInv, Rows
<1>3. /\ runStatus' \in [Run -> {"absent"} \cup RunStatus]
      /\ \A u \in Run : runStatus'[u] = IF u = r THEN s ELSE runStatus[u]
  BY <1>2 DEF RowsOK
<1>4. RowsOK'
  BY <1>1, <1>2, <1>3 DEF RowsOK
<1>5. Kept'
  BY <1>1, <1>2, <1>3 DEF Kept, SuccessHasReceipt, Begun
<1>6. ASSUME ~overlap PROVE KeptAlone'
  <2>1. \A u \in Run : runStatus'[u] = "approved_for_execution" => runPlan'[u] \in confirmed'
    BY <1>1, <1>2, <1>3, <1>6 DEF KeptAlone
  <2>2. \A u \in Run : runStatus'[u] \in Unstarted => Starts(u)' = {}
    BY <1>1, <1>2, <1>3, <1>6 DEF KeptAlone, Starts
  <2>3. \A u, v \in Run : runStatus'[u] # "absent" /\ runStatus'[v] # "absent" => u = v
    BY <1>2, <1>3, <1>6 DEF KeptAlone, NoRunOfKey
  <2>4. RefusedForGood' /\ Permitted'
    BY <1>1, <1>2, <1>3, <1>6 DEF KeptAlone, RefusedForGood, Permitted, Latest
  <2> QED BY <1>1, <1>2, <1>6, <2>1, <2>2, <2>3, <2>4 DEF KeptAlone
<1> QED BY <1>1, <1>4, <1>5, <1>6 DEF Rows, Grows

LEMMA InsertRunKeeps ==
  ASSUME ToolInv, NEW c \in Request, InsertRun(c)
  PROVE  ToolInv'
<1>1. PICK r \in Run :
        /\ runStatus[r] = "absent" /\ runStatus' = [runStatus EXCEPT ![r] = "created"]
        /\ Proceed(c, [request[c] EXCEPT !.run = r], 0)
  BY DEF InsertRun
<1> PICK q : q = [request[c] EXCEPT !.run = r]
  OBVIOUS
<1>2. At(c, "insertRun") /\ Proceed(c, q, 0)
  BY <1>1 DEF InsertRun
<1>3. request[c] \in RequestRecord /\ (~overlap => NoRunOfKey)
  BY <1>2, RequestKnows DEF KnowsAlone
<1>4. Rows' /\ Grows
  <2>1. UNCHANGED <<fixed, callVars, permissions, runPlan, planVars, receipts, started>>
    BY DEF InsertRun
  <2>2. /\ "created" \in RunStatus \ {"approved_for_execution"} /\ "absent" \in Unstarted
        /\ "created" \in Unpermitted
    BY DEF RunStatus, Unstarted, Unpermitted
  <2> QED BY <1>1, <1>3, <2>1, <2>2, RunWrite
<1>5. q \in RequestRecord /\ q.todo = request[c].todo /\ q.op = request[c].op /\ q.run = r
  BY <1>3 DEF RequestRecord
<1>6. /\ Knows("readPlannable", q.run, q.plan, q.was)'
      /\ KnowsAlone("readPlannable", q.run, q.plan, q.saw, q.was, q.idx)'
  BY <1>5 DEF Knows, KnowsAlone, RunAwaits, PlanAwaits, PlannedAwaits
<1>7. \A a : <<"insertRun", a>> \in Follows => a = "readPlannable"
  BY WhatFollows
<1> QED BY <1>2, <1>4, <1>5, <1>6, <1>7, GoesOn

LEMMA SetRunKeeps ==
  ASSUME ToolInv, NEW c \in Request,
         AwaitPermission(c) \/ RejectRun(c) \/ CancelRun(c) \/ SettleCommand(c)
  PROVE  ToolInv'
<1> DEFINE r == request[c].run
           Sets(step, s) == SetRun(c, step, s) /\ UNCHANGED started
<1>1. ASSUME NEW step, NEW s \in RunStatus \ {"approved_for_execution"}, Sets(step, s),
             s = "succeeded" => \E x \in receipts : x.run = r /\ x.ok,
             ~overlap /\ r \in Run =>
               /\ runStatus[r] # "absent" /\ (s \in Unstarted => runStatus[r] \in Unstarted)
               /\ s \in Unpermitted \/ Latest = "allow_controlled_execution"
      PROVE  Rows' /\ Grows
  BY <1>1, RunWrite DEF SetRun
<1>2. ASSUME NEW step, At(c, step)
      PROVE  /\ Knows(step, r, request[c].plan, request[c].was)
             /\ ~overlap => KnowsAlone(step, r, request[c].plan, request[c].saw,
                                       request[c].was, request[c].idx)
  BY <1>2, RequestKnows
<1>3. CASE AwaitPermission(c)
  <2>1. At(c, "awaitPermission") /\ Go(c) /\ Sets("awaitPermission", "awaiting_permission")
    BY <1>3 DEF AwaitPermission, SetRun
  <2>2. /\ r \in Run
        /\ ~overlap => runStatus[r] = "created" /\ Latest = "allow_controlled_execution"
    BY <1>2, <2>1 DEF Knows, KnowsAlone, RunAwaits
  <2>3. Rows' /\ Grows
    <3>1. "awaiting_permission" \in RunStatus \ {"approved_for_execution"} /\ "created" \in Unstarted
      BY DEF RunStatus, Unstarted
    <3> HIDE DEF Sets
    <3> QED BY <1>1, <2>1, <2>2, <3>1
  <2> PICK q : q = request[c]
    OBVIOUS
  <2>4. /\ Knows("readPlannableAgain", q.run, q.plan, q.was)'
        /\ KnowsAlone("readPlannableAgain", q.run, q.plan, q.saw, q.was, q.idx)'
    BY <2>2 DEF Knows, KnowsAlone, RunAwaits, PlanAwaits, PlannedAwaits
  <2>5. \A a : <<"awaitPermission", a>> \in Follows => a = "readPlannableAgain"
    BY WhatFollows
  <2> QED BY <2>1, <2>3, <2>4, <2>5, WriteGoesOn
<1>4. CASE RejectRun(c)
  <2>1. At(c, "rejectRun") /\ Go(c) /\ Sets("rejectRun", "rejected")
    BY <1>4 DEF RejectRun, SetRun
  <2>2. ~overlap /\ r \in Run =>
          runStatus[r] = "awaiting_confirmation" /\ Latest = "allow_controlled_execution"
    BY <1>2, <2>1, PermittedRun DEF KnowsAlone, Unpermitted
  <2>3. Rows' /\ Grows
    <3>1. "rejected" \in RunStatus \ {"approved_for_execution"} /\ "rejected" \notin Unstarted
      BY DEF RunStatus, Unstarted
    <3> HIDE DEF Sets
    <3> QED BY <1>1, <2>1, <2>2, <3>1
  <2> QED BY <2>1, <2>3, LastWrite
<1>5. CASE CancelRun(c)
  <2>1. At(c, "cancelRun") /\ Go(c) /\ Sets("cancelRun", "cancelled")
    BY <1>5 DEF CancelRun, SetRun
  <2>2. ~overlap => runStatus[r] # "absent"
    BY <1>2, <2>1 DEF KnowsAlone
  <2>3. Rows' /\ Grows
    <3>1. /\ "cancelled" \in RunStatus \ {"approved_for_execution"} /\ "cancelled" \notin Unstarted
          /\ "cancelled" \in Unpermitted
      BY DEF RunStatus, Unstarted, Unpermitted
    <3> HIDE DEF Sets
    <3> QED BY <1>1, <2>1, <2>2, <3>1
  <2> QED BY <2>1, <2>3, LastWrite
<1>6. CASE SettleCommand(c)
  <2> DEFINE was == request[c].was
  <2>1. At(c, "settleCommand") /\ Go(c)
        /\ Sets("settleCommand", IF was = "none" THEN "succeeded" ELSE was)
    BY <1>6 DEF SettleCommand, SetRun
  <2>2. /\ was \in {"succeeded", "failed"}
        /\ was = "succeeded" => \E x \in receipts : x.run = r /\ x.ok
        /\ ~overlap => runStatus[r] = "executing"
        /\ ~overlap /\ r \in Run => Latest = "allow_controlled_execution"
    BY <1>2, <2>1, PermittedRun DEF Knows, KnowsAlone, Unpermitted
  <2>3. Rows' /\ Grows
    <3>1. was \in RunStatus \ {"approved_for_execution"} /\ was \notin Unstarted
      BY <2>2 DEF RunStatus, Unstarted
    <3>2. Sets("settleCommand", was)
      BY <2>1, <2>2
    <3> HIDE DEF Sets, was
    <3> QED BY <1>1, <2>2, <3>1, <3>2
  <2> QED BY <2>1, <2>3, LastWrite
<1> QED BY <1>3, <1>4, <1>5, <1>6

\* A write to the plans: the rows and history of the runs stay.
RunRowsKept == UNCHANGED <<fixed, callVars, permissions, runVars, receipts, started>>

LEMMA PlanWrite ==
  ASSUME ToolInv, RunRowsKept, UNCHANGED <<planRun, expired>>,
         planStatus' \in [Plan -> {"absent", "ready_for_confirmation", "approved_record", "rejected"}],
         planArt' \in [Plan -> {"none", "pending", "approved", "rejected"}],
         confirmed' \subseteq Plan, confirmed \subseteq confirmed',
         \A p \in Plan : planArt'[p] = "approved" => planArt[p] = "approved" \/ p \in confirmed',
         \A p \in Plan : planStatus'[p] = "absent" => planStatus[p] = "absent"
  PROVE  Rows' /\ Grows
<1>1. /\ UNCHANGED <<tool, overlap, budget, callStatus, callArt, artifacts, permissions>>
      /\ UNCHANGED <<runStatus, runPlan, receipts, started>>
  BY DEF RunRowsKept, fixed, callVars, runVars
<1>2. RowsOK /\ Kept /\ (~overlap => KeptAlone)
  BY DEF ToolInv, Rows
<1>3. RowsOK'
  BY <1>1, <1>2 DEF RowsOK
<1>4. Kept'
  BY <1>1, <1>2 DEF Kept, SuccessHasReceipt, Begun
<1>5. ~overlap => KeptAlone'
  BY <1>1, <1>2, PermissionsStay DEF KeptAlone, Starts
<1> QED BY <1>1, <1>3, <1>4, <1>5 DEF Rows, Grows

LEMMA CreateArtifactKeeps ==
  ASSUME ToolInv, NEW c \in Request, CreateArtifact(c)
  PROVE  ToolInv'
<1>1. PICK p \in Plan :
        /\ planArt' = [planArt EXCEPT ![p] = "pending"]
        /\ Proceed(c, [request[c] EXCEPT !.plan = p], 0)
  BY DEF CreateArtifact
<1>2. PICK q : q = [request[c] EXCEPT !.plan = p]
  OBVIOUS
<1>3. At(c, "createArtifact") /\ Proceed(c, q, 0)
  BY <1>1, <1>2 DEF CreateArtifact
<1>4. /\ request[c] \in RequestRecord /\ request[c].run \in Run
      /\ ~overlap => runStatus[request[c].run] = "awaiting_permission" /\ NoPlanOf(request[c].run)
  BY <1>3, RequestKnows DEF Knows, KnowsAlone, RunAwaits
<1>5. Rows' /\ Grows
  <2>1. RunRowsKept /\ UNCHANGED <<planRun, expired, planStatus, confirmed>>
    BY DEF CreateArtifact, RunRowsKept
  <2>2. RowsOK
    BY DEF ToolInv, Rows
  <2>3. /\ planArt' \in [Plan -> {"none", "pending", "approved", "rejected"}]
        /\ \A u \in Plan : planArt'[u] = "approved" => planArt[u] = "approved"
    BY <1>1, <2>2 DEF RowsOK
  <2> QED BY <2>1, <2>2, <2>3, PlanWrite DEF RowsOK
<1>6. /\ q \in RequestRecord /\ q.todo = request[c].todo /\ q.op = request[c].op
      /\ q.run = request[c].run /\ q.plan = p
  BY <1>2, <1>4 DEF RequestRecord
<1>7. PICK r : r = request[c].run
  OBVIOUS
<1>8. UNCHANGED <<runStatus, planRun>>
  BY DEF CreateArtifact, runVars
<1>9. /\ Knows("insertPlan", r, p, q.was)'
      /\ ~overlap => KnowsAlone("insertPlan", r, p, q.saw, q.was, q.idx)'
  <2>1. Knows("insertPlan", r, p, q.was)'
    BY <1>4, <1>7 DEF Knows, RunAwaits
  <2>2. ~overlap => KnowsAlone("insertPlan", r, p, q.saw, q.was, q.idx)'
    BY <1>4, <1>7, <1>8 DEF KnowsAlone, NoPlanOf
  <2> QED BY <2>1, <2>2
<1>10. \A a : <<"createArtifact", a>> \in Follows => a = "insertPlan"
  BY WhatFollows
<1> QED BY <1>3, <1>5, <1>6, <1>7, <1>9, <1>10, GoesOn

LEMMA InsertPlanKeeps ==
  ASSUME ToolInv, NEW c \in Request, InsertPlan(c)
  PROVE  ToolInv'
<1>1. PICK r, p : r = request[c].run /\ p = request[c].plan
  OBVIOUS
<1>2. /\ At(c, "insertPlan") /\ Go(c)
      /\ planStatus' = [planStatus EXCEPT ![p] = "ready_for_confirmation"]
      /\ planRun' = [planRun EXCEPT ![p] = r]
      /\ runStatus' = [runStatus EXCEPT ![r] = "awaiting_confirmation"]
      /\ runPlan' = [runPlan EXCEPT ![r] = p]
      /\ UNCHANGED <<tool, overlap, budget, callStatus, callArt, artifacts, permissions>>
      /\ UNCHANGED <<planArt, expired, confirmed, receipts, started>>
  BY <1>1 DEF InsertPlan, fixed, callVars
<1>3. r \in Run /\ p \in Plan
      /\ (~overlap => runStatus[r] = "awaiting_permission" /\ NoPlanOf(r))
  BY <1>1, <1>2, RequestKnows DEF Knows, KnowsAlone, RunAwaits, PlannedAwaits
<1>4. RowsOK /\ Kept /\ (~overlap => KeptAlone)
  BY DEF ToolInv, Rows
<1>5. /\ \A u \in Run : /\ runStatus'[u] = IF u = r THEN "awaiting_confirmation" ELSE runStatus[u]
                        /\ runPlan'[u] = IF u = r THEN p ELSE runPlan[u]
      /\ \A u \in Plan : /\ planStatus'[u] = IF u = p THEN "ready_for_confirmation" ELSE planStatus[u]
                         /\ planRun'[u] = IF u = p THEN r ELSE planRun[u]
  BY <1>2, <1>3, <1>4 DEF RowsOK
<1>6. RowsOK'
  <2>1. /\ runStatus' \in [Run -> {"absent"} \cup RunStatus] /\ runPlan' \in [Run -> Plan \cup {None}]
        /\ planStatus' \in [Plan -> {"absent", "ready_for_confirmation", "approved_record", "rejected"}]
        /\ planRun' \in [Plan -> Run \cup {None}]
    BY <1>2, <1>3, <1>4 DEF RowsOK, RunStatus
  <2> QED BY <1>2, <1>4, <2>1 DEF RowsOK
<1>7. Kept'
  BY <1>2, <1>3, <1>4, <1>5 DEF Kept, SuccessHasReceipt, Begun
<1>8. ASSUME ~overlap PROVE KeptAlone'
  <2>1. \A u \in Run : runStatus'[u] = "approved_for_execution" => runPlan'[u] \in confirmed'
    BY <1>2, <1>4, <1>5, <1>8 DEF KeptAlone
  <2>2. \A u \in Run : runStatus'[u] \in Unstarted => Starts(u)' = {}
    BY <1>2, <1>3, <1>4, <1>5, <1>8 DEF KeptAlone, Starts, Unstarted
  <2>3. \A u, v \in Run : runStatus'[u] # "absent" /\ runStatus'[v] # "absent" => u = v
    BY <1>3, <1>4, <1>5, <1>8 DEF KeptAlone
  <2>4. \A u, v \in Plan : planRun'[u] = planRun'[v] /\ planRun'[u] \in Run => u = v
    BY <1>3, <1>4, <1>5, <1>8 DEF KeptAlone, NoPlanOf
  <2>5. \A u \in Plan : planStatus'[u] = "absent" => planRun'[u] = None
    BY <1>3, <1>4, <1>5, <1>8 DEF KeptAlone
  <2>6. RefusedForGood' /\ Permitted'
    <3>1. Latest = "allow_controlled_execution"
      BY <1>3, <1>8, PermittedRun DEF Unpermitted
    <3> QED BY <1>2, <1>4, <1>8, <3>1 DEF KeptAlone, RefusedForGood, Permitted, Latest
  <2> QED BY <1>2, <1>4, <1>8, <2>1, <2>2, <2>3, <2>4, <2>5, <2>6 DEF KeptAlone
<1>9. Rows' /\ Grows
  BY <1>2, <1>3, <1>4, <1>5, <1>6, <1>7, <1>8 DEF Rows, Grows
<1> QED BY <1>2, <1>9, LastWrite

LEMMA ReviewPlanKeeps ==
  ASSUME ToolInv, NEW c \in Request, ReviewPlan(c)
  PROVE  ToolInv'
<1>1. PICK q : q = request[c]
  OBVIOUS
<1>2. PICK step \in {"approvePlanArtifact", "rejectPlanArtifact"} :
        /\ At(c, step) /\ Go(c) /\ RunRowsKept /\ UNCHANGED <<planRun, expired, planStatus>>
        /\ step = "approvePlanArtifact" =>
             planArt' = [planArt EXCEPT ![q.plan] = "approved"] /\ confirmed' = confirmed \cup {q.plan}
        /\ step = "rejectPlanArtifact" =>
             planArt' = [planArt EXCEPT ![q.plan] = "rejected"] /\ confirmed' = confirmed
  BY <1>1 DEF ReviewPlan, RunRowsKept
<1>3. q.plan \in Plan /\ RowsOK
  BY <1>1, <1>2, RequestKnows DEF Knows, PlanAwaits, ToolInv, Rows
<1>4. /\ planArt' \in [Plan -> {"none", "pending", "approved", "rejected"}]
      /\ confirmed' \subseteq Plan /\ confirmed \subseteq confirmed'
      /\ \A u \in Plan : planArt'[u] = "approved" => planArt[u] = "approved" \/ u \in confirmed'
  BY <1>2, <1>3 DEF RowsOK
<1>5. Rows' /\ Grows
  BY <1>2, <1>3, <1>4, PlanWrite DEF RowsOK
<1>6. \A a : <<step, a>> \in Follows => a \in {"planReady", "planRejected"}
  BY <1>2, WhatFollows
<1>7. ASSUME NEW a \in {"planReady", "planRejected"}
      PROVE  Knows(a, q.run, q.plan, q.was)' /\ KnowsAlone(a, q.run, q.plan, q.saw, q.was, q.idx)'
  BY <1>3, <1>7 DEF Knows, KnowsAlone, RunAwaits
<1> QED BY <1>1, <1>2, <1>5, <1>6, <1>7, WriteGoesOn

LEMMA UpdatePlanKeeps ==
  ASSUME ToolInv, NEW c \in Request, UpdatePlan(c)
  PROVE  ToolInv'
<1>1. PICK q : q = request[c]
  OBVIOUS
<1>2. PICK step \in {"planReady", "planRejected"} :
        /\ At(c, step) /\ Go(c) /\ RunRowsKept /\ UNCHANGED <<planRun, expired, planArt, confirmed>>
        /\ planStatus' = [planStatus EXCEPT ![q.plan] =
                            IF step = "planReady" THEN "ready_for_confirmation" ELSE "rejected"]
  BY <1>1 DEF UpdatePlan, RunRowsKept
<1>3. q.plan \in Plan /\ RowsOK
  BY <1>1, <1>2, RequestKnows DEF Knows, PlanAwaits, ToolInv, Rows
<1>4. /\ planStatus' \in [Plan -> {"absent", "ready_for_confirmation", "approved_record", "rejected"}]
      /\ \A u \in Plan : planStatus'[u] = "absent" => planStatus[u] = "absent"
  BY <1>2, <1>3 DEF RowsOK
<1>5. Rows' /\ Grows
  BY <1>2, <1>3, <1>4, PlanWrite DEF RowsOK
<1>6. \A a : <<step, a>> \in Follows => a = "readAwaiting"
  BY <1>2, WhatFollows
<1>7. /\ Knows("readAwaiting", q.run, q.plan, q.was)'
      /\ KnowsAlone("readAwaiting", q.run, q.plan, q.saw, q.was, q.idx)'
  BY <1>3 DEF Knows, KnowsAlone, RunAwaits
<1> QED BY <1>1, <1>2, <1>5, <1>6, <1>7, WriteGoesOn

LEMMA ApproveKeeps ==
  ASSUME ToolInv, NEW c \in Request, Approve(c)
  PROVE  ToolInv'
<1>1. PICK r, p : r = request[c].run /\ p = request[c].plan
  OBVIOUS
<1>2. /\ At(c, "approve") /\ Go(c)
      /\ planStatus' = [planStatus EXCEPT ![p] = "approved_record"]
      /\ runStatus' = [runStatus EXCEPT ![r] = "approved_for_execution"]
      /\ UNCHANGED <<tool, overlap, budget, callStatus, callArt, artifacts, permissions>>
      /\ UNCHANGED <<runPlan, planRun, planArt, expired, confirmed, receipts, started>>
  BY <1>1 DEF Approve, fixed, callVars
<1>3. /\ r \in Run /\ p \in confirmed /\ runPlan[r] \in Plan
      /\ ~overlap => runStatus[r] = "awaiting_confirmation" /\ p = runPlan[r]
  BY <1>1, <1>2, RequestKnows DEF Knows, KnowsAlone, RunAwaits
<1>4. RowsOK /\ Kept /\ (~overlap => KeptAlone)
  BY DEF ToolInv, Rows
<1>5. /\ \A u \in Run : runStatus'[u] = IF u = r THEN "approved_for_execution" ELSE runStatus[u]
      /\ \A u \in Plan : planStatus'[u] = IF u = p THEN "approved_record" ELSE planStatus[u]
      /\ runStatus' \in [Run -> {"absent"} \cup RunStatus]
      /\ planStatus' \in [Plan -> {"absent", "ready_for_confirmation", "approved_record", "rejected"}]
  BY <1>2, <1>3, <1>4 DEF RowsOK, RunStatus
<1>6. RowsOK'
  BY <1>2, <1>4, <1>5 DEF RowsOK
<1>7. Kept'
  BY <1>2, <1>3, <1>4, <1>5 DEF Kept, SuccessHasReceipt, Begun
<1>8. ASSUME ~overlap PROVE KeptAlone'
  <2>1. \A u \in Run : runStatus'[u] = "approved_for_execution" => runPlan'[u] \in confirmed'
    BY <1>2, <1>3, <1>4, <1>5, <1>8 DEF KeptAlone
  <2>2. \A u \in Run : runStatus'[u] \in Unstarted => Starts(u)' = {}
    BY <1>2, <1>3, <1>4, <1>5, <1>8 DEF KeptAlone, Starts, Unstarted
  <2>3. \A u, v \in Run : runStatus'[u] # "absent" /\ runStatus'[v] # "absent" => u = v
    BY <1>3, <1>4, <1>5, <1>8 DEF KeptAlone
  <2>4. \A u \in Plan : planStatus'[u] = "absent" => planRun'[u] = None
    BY <1>2, <1>4, <1>5, <1>8 DEF KeptAlone
  <2>5. RefusedForGood' /\ Permitted'
    <3>1. Latest = "allow_controlled_execution"
      BY <1>3, <1>8, PermittedRun DEF Unpermitted
    <3> QED BY <1>2, <1>4, <1>8, <3>1 DEF KeptAlone, RefusedForGood, Permitted, Latest
  <2> QED BY <1>2, <1>4, <1>8, <2>1, <2>2, <2>3, <2>4, <2>5 DEF KeptAlone
<1>9. Rows' /\ Grows
  BY <1>2, <1>6, <1>7, <1>8 DEF Rows, Grows
<1> QED BY <1>2, <1>9, LastWrite

\* An execution begins, through either executor.
LEMMA StartKeeps ==
  ASSUME ToolInv, NEW c \in Request, Start(c) \/ StartCommand(c)
  PROVE  ToolInv'
<1>1. PICK q : q = request[c]
  OBVIOUS
<1>2. PICK r, p : r = q.run /\ p = q.plan
  OBVIOUS
<1>3. PICK step \in {"start", "startCommand"}, by \in Executor, n \in 1..2 :
        /\ At(c, step) /\ Go(c) /\ by = (IF step = "start" THEN "repository" ELSE "human_gated")
        /\ runStatus' = [runStatus EXCEPT ![r] = "executing"]
        /\ Starts(r) = {} => n = 1
        /\ started' = started \cup {[run |-> r, plan |-> p, by |-> by, n |-> n]}
  <2>1. PICK n \in 1..2 : n = IF Starts(r) = {} THEN 1 ELSE 2
    OBVIOUS
  <2>2. CASE Start(c)
    BY <1>1, <1>2, <2>1, <2>2 DEF Start, SetRun, RecordStart, Executor
  <2>3. CASE StartCommand(c)
    BY <1>1, <1>2, <2>1, <2>3 DEF StartCommand, SetRun, RecordStart, Executor
  <2> QED BY <2>2, <2>3
<1>4. /\ UNCHANGED <<tool, overlap, budget, callStatus, callArt, artifacts, permissions>>
      /\ UNCHANGED <<runPlan, planStatus, planRun, planArt, expired, confirmed, receipts>>
  BY DEF Start, StartCommand, SetRun, fixed, callVars, planVars
<1>5. /\ r \in Run /\ p \in Plan /\ (step = "start" => p \in confirmed)
      /\ (~overlap => runStatus[r] = "approved_for_execution" /\ p = runPlan[r])
  BY <1>1, <1>2, <1>3, RequestKnows DEF Knows, KnowsAlone, RunAwaits, PlannedAwaits
<1>6. RowsOK /\ Kept /\ (~overlap => KeptAlone)
  BY DEF ToolInv, Rows
<1>7. /\ \A u \in Run : runStatus'[u] = IF u = r THEN "executing" ELSE runStatus[u]
      /\ runStatus' \in [Run -> {"absent"} \cup RunStatus]
  BY <1>3, <1>5, <1>6 DEF RowsOK, RunStatus
<1>8. PICK x : x = [run |-> r, plan |-> p, by |-> by, n |-> n]
  OBVIOUS
<1>9. started' = started \cup {x} /\ x.run = r /\ x.plan = p /\ x.by = by
  BY <1>3, <1>8
<1>10. RowsOK'
  BY <1>4, <1>6, <1>7 DEF RowsOK
<1>11. Kept'
  <2>1. \A s \in started' : s.by = "repository" => s.plan \in confirmed'
    BY <1>3, <1>4, <1>5, <1>6, <1>9 DEF Kept
  <2>2. \A y \in receipts' : Begun(y.run, y.plan, y.by)'
    BY <1>4, <1>6, <1>9 DEF Kept, Begun
  <2> QED BY <1>4, <1>6, <1>7, <2>1, <2>2 DEF Kept, SuccessHasReceipt
<1>12. ASSUME ~overlap PROVE KeptAlone'
  <2>1. p \in confirmed /\ Starts(r) = {}
    BY <1>5, <1>6, <1>12 DEF KeptAlone, Unstarted
  <2>2. \A u \in Run : runStatus'[u] = "approved_for_execution" => runPlan'[u] \in confirmed'
    BY <1>4, <1>6, <1>7, <1>12 DEF KeptAlone
  <2>3. \A u \in Run : runStatus'[u] \in Unstarted => u # r /\ Starts(u) = {}
    BY <1>6, <1>7, <1>12 DEF KeptAlone, Unstarted
  <2>4. \A u \in Run : runStatus'[u] \in Unstarted => Starts(u)' = {}
    BY <1>9, <2>3 DEF Starts
  <2>5. \A u, v \in Run : runStatus'[u] # "absent" /\ runStatus'[v] # "absent" => u = v
    BY <1>5, <1>6, <1>7, <1>12 DEF KeptAlone
  <2>6. \A s, t \in started' : s.run = t.run => s = t
    BY <1>6, <1>9, <1>12, <2>1 DEF KeptAlone, Starts
  <2>7. \A s \in started' : s.plan \in confirmed'
    BY <1>4, <1>6, <1>9, <1>12, <2>1 DEF KeptAlone
  <2>8. RefusedForGood' /\ Permitted'
    <3>1. Latest = "allow_controlled_execution"
      BY <1>5, <1>12, PermittedRun DEF Unpermitted
    <3> QED BY <1>4, <1>6, <1>12, <3>1 DEF KeptAlone, RefusedForGood, Permitted, Latest
  <2> QED BY <1>4, <1>6, <1>12, <2>2, <2>4, <2>5, <2>6, <2>7, <2>8 DEF KeptAlone
<1>13. Rows' /\ Grows
  BY <1>4, <1>9, <1>10, <1>11, <1>12 DEF Rows, Grows
<1>14. \A a : <<step, a>> \in Follows => a = IF step = "start" THEN "receipt" ELSE "receiptCommand"
  BY <1>3, WhatFollows
<1>15. runStatus'[r] = "executing"
  BY <1>5, <1>7
<1>16. ASSUME NEW a, a = IF step = "start" THEN "receipt" ELSE "receiptCommand"
       PROVE  Knows(a, r, p, q.was)' /\ (~overlap => KnowsAlone(a, r, p, q.saw, q.was, q.idx)')
  <2>1. Knows(a, r, p, q.was)'
    <3>1. Begun(r, p, by)'
      BY <1>9 DEF Begun
    <3> QED BY <1>3, <1>5, <1>16, <3>1 DEF Knows, PlanAwaits
  <2>2. ASSUME ~overlap PROVE KnowsAlone(a, r, p, q.saw, q.was, q.idx)'
    <3>1. Starts(r) = {}
      BY <1>5, <1>6, <2>2 DEF KeptAlone, Unstarted
    <3>2. \A y \in receipts' : y.run # r
      BY <1>4, <1>6, <3>1 DEF Kept, Begun, Starts
    <3> QED BY <1>15, <1>16, <3>2 DEF KnowsAlone
  <2> QED BY <2>1, <2>2
<1> QED BY <1>1, <1>2, <1>3, <1>13, <1>14, <1>16, WriteGoesOn

\* A receipt is inserted, and the run of a repository execution settled with it.
LEMMA ReceiptKeeps ==
  ASSUME ToolInv, NEW c \in Request, Receipt(c)
  PROVE  ToolInv'
<1>1. PICK r, p : r = request[c].run /\ p = request[c].plan
  OBVIOUS
<1>2. PICK x : x = [run |-> r, plan |-> p, by |-> "repository", ok |-> TRUE]
  OBVIOUS
<1>3. /\ At(c, "receipt") /\ Go(c)
      /\ runStatus' = [runStatus EXCEPT ![r] = "succeeded"] /\ receipts' = receipts \cup {x}
      /\ UNCHANGED <<tool, overlap, budget, callStatus, callArt, artifacts, permissions>>
      /\ UNCHANGED <<runPlan, planStatus, planRun, planArt, expired, confirmed, started>>
  BY <1>1, <1>2 DEF Receipt, fixed, callVars, planVars
<1>4. r \in Run /\ p \in Plan
  BY <1>1, <1>3, RequestKnows DEF Knows, RunAwaits, PlannedAwaits
<1>5. RowsOK /\ Kept /\ (~overlap => KeptAlone)
  BY DEF ToolInv, Rows
<1>6. /\ \A u \in Run : runStatus'[u] = IF u = r THEN "succeeded" ELSE runStatus[u]
      /\ runStatus' \in [Run -> {"absent"} \cup RunStatus]
  BY <1>3, <1>4, <1>5 DEF RowsOK, RunStatus
<1>7. x \in [run : Run, plan : Plan, by : Executor, ok : BOOLEAN] /\ x.run = r /\ x.ok
  BY <1>2, <1>4 DEF Executor
<1>8. RowsOK'
  BY <1>3, <1>5, <1>6, <1>7 DEF RowsOK
<1>9. Kept'
  <2>1. ASSUME NEW u \in Run, runStatus'[u] = "succeeded" PROVE \E y \in receipts' : y.run = u /\ y.ok
    <3>1. CASE u = r
      BY <1>3, <1>7, <3>1
    <3>2. CASE u # r
      BY <1>3, <1>5, <1>6, <2>1, <3>2 DEF Kept, SuccessHasReceipt
    <3> QED BY <3>1, <3>2
  <2>2. \A y \in receipts' : Begun(y.run, y.plan, y.by)'
    <3>1. Begun(x.run, x.plan, x.by)
      BY <1>1, <1>2, <1>3, RequestKnows DEF Knows
    <3> QED BY <1>3, <1>5, <3>1 DEF Kept, Begun
  <2> QED BY <1>3, <1>5, <1>6, <2>1, <2>2 DEF Kept, SuccessHasReceipt
<1>10. ASSUME ~overlap PROVE KeptAlone'
  <2>1. /\ \A u \in Run : runStatus'[u] = "approved_for_execution" => runPlan'[u] \in confirmed'
        /\ \A u \in Run : runStatus'[u] \in Unstarted => Starts(u)' = {}
    BY <1>3, <1>5, <1>6, <1>10 DEF KeptAlone, Starts, Unstarted
  <2>2. runStatus[r] = "executing"
    BY <1>1, <1>3, <1>10, RequestKnows DEF KnowsAlone
  <2>3. \A u, v \in Run : runStatus'[u] # "absent" /\ runStatus'[v] # "absent" => u = v
    BY <1>4, <1>5, <1>6, <1>10, <2>2 DEF KeptAlone
  <2>4. RefusedForGood' /\ Permitted'
    <3>1. Latest = "allow_controlled_execution"
      BY <1>4, <1>10, <2>2, PermittedRun DEF Unpermitted
    <3> QED BY <1>3, <1>5, <1>10, <3>1 DEF KeptAlone, RefusedForGood, Permitted, Latest
  <2> QED BY <1>3, <1>5, <1>10, <2>1, <2>3, <2>4 DEF KeptAlone
<1>11. Rows' /\ Grows
  BY <1>3, <1>8, <1>9, <1>10 DEF Rows, Grows
<1> QED BY <1>3, <1>11, LastWrite

LEMMA CommandEndsKeeps ==
  ASSUME ToolInv, NEW c \in Request, CommandEnds(c)
  PROVE  ToolInv'
<1>1. PICK r, p : r = request[c].run /\ p = request[c].plan
  OBVIOUS
<1>2. PICK ok \in BOOLEAN :
        /\ receipts' = receipts \cup {[run |-> r, plan |-> p, by |-> "human_gated", ok |-> ok]}
        /\ Proceed(c, [request[c] EXCEPT !.was = IF ok THEN "succeeded" ELSE "failed"], 0)
  BY <1>1 DEF CommandEnds
<1>3. PICK x : x = [run |-> r, plan |-> p, by |-> "human_gated", ok |-> ok]
  OBVIOUS
<1>4. PICK q : q = [request[c] EXCEPT !.was = IF ok THEN "succeeded" ELSE "failed"]
  OBVIOUS
<1>5. /\ At(c, "receiptCommand") /\ Proceed(c, q, 0) /\ receipts' = receipts \cup {x}
      /\ UNCHANGED <<tool, overlap, budget, callStatus, callArt, artifacts, permissions>>
      /\ UNCHANGED <<runStatus, runPlan, planStatus, planRun, planArt, expired, confirmed, started>>
  BY <1>2, <1>3, <1>4 DEF CommandEnds, fixed, callVars, runVars, planVars
<1>6. /\ r \in Run /\ p \in Plan /\ (~overlap => runStatus[r] = "executing")
      /\ request[c] \in RequestRecord
  BY <1>1, <1>5, RequestKnows DEF Knows, KnowsAlone, RunAwaits, PlannedAwaits
<1>7. x \in [run : Run, plan : Plan, by : Executor, ok : BOOLEAN] /\ x.run = r /\ x.ok = ok
  BY <1>3, <1>6 DEF Executor
<1>8. Rows' /\ Grows
  <2>1. RowsOK /\ Kept /\ (~overlap => KeptAlone)
    BY DEF ToolInv, Rows
  <2>2. RowsOK'
    BY <1>5, <1>7, <2>1 DEF RowsOK
  <2>3. \A y \in receipts' : Begun(y.run, y.plan, y.by)'
    <3>1. Begun(x.run, x.plan, x.by)
      BY <1>1, <1>3, <1>5, RequestKnows DEF Knows
    <3> QED BY <1>5, <2>1, <3>1 DEF Kept, Begun
  <2>4. Kept' /\ (~overlap => KeptAlone')
    BY <1>5, <2>1, <2>3, PermissionsStay DEF Kept, KeptAlone, SuccessHasReceipt, Starts
  <2> QED BY <1>5, <2>2, <2>4 DEF Rows, Grows
<1>9. /\ q \in RequestRecord /\ q.todo = request[c].todo /\ q.op = request[c].op /\ q.run = r
      /\ q.was = IF ok THEN "succeeded" ELSE "failed"
  BY <1>1, <1>4, <1>6 DEF RequestRecord
<1>10. PICK w : w = IF ok THEN "succeeded" ELSE "failed"
  OBVIOUS
<1>11. Knows("settleCommand", r, q.plan, w)'
  <2>1. w = "succeeded" => \E y \in receipts' : y.run = r /\ y.ok
    BY <1>5, <1>7, <1>10
  <2> QED BY <1>6, <1>10, <2>1 DEF Knows, PlanAwaits, PlannedAwaits
<1>12. ~overlap => KnowsAlone("settleCommand", r, q.plan, q.saw, w, q.idx)'
  BY <1>5, <1>6 DEF KnowsAlone
<1>13. \A a : <<"receiptCommand", a>> \in Follows => a = "settleCommand"
  BY WhatFollows
<1>14. q.was = w
  BY <1>9, <1>10
<1> QED BY <1>5, <1>8, <1>9, <1>11, <1>12, <1>13, <1>14, GoesOn

-----------------------------------------------------------------------------
(* Every step keeps the invariant *)

LEMMA BeginKeeps ==
  ASSUME ToolInv, NEW c \in Request, Begin(c)
  PROVE  ToolInv'
<1>1. PICK op \in Op(overlap), r \in Run \cup {None}, p \in Plan \cup {None} :
        /\ IF op \in RunOps THEN r # None /\ runStatus[r] # "absent" ELSE r = None
        /\ IF op \in PlanOps THEN p # None /\ planStatus[p] # "absent" ELSE p = None
        /\ request' = [request EXCEPT ![c] =
             [Idle EXCEPT !.op = op, !.run = r, !.plan = p, !.todo = Program[op]]]
  BY Zenon DEF Begin
<1>2. PICK q : q = [Idle EXCEPT !.op = op, !.run = r, !.plan = p, !.todo = Program[op]]
  OBVIOUS
<1>3. /\ op \in DOMAIN Program /\ Program[op] \in Seq(Await) /\ Program[op] # <<>>
      /\ Chained(Program[op]) /\ Head(Program[op]) \in Firsts
      /\ Head(Program[op]) \in RunAwaits => op \in RunOps
      /\ Head(Program[op]) \in PlanAwaits => op \in PlanOps
      /\ op = "cancelRun" => Program[op] = <<"readRun", "cancelRun">>
  <2>1. op \in DOMAIN Program
    BY <1>1, OpAssumption DEF ToolInv, Rows, RowsOK
  <2> QED BY <2>1, OperationsChained
<1>4. /\ q \in RequestRecord /\ q.op = op /\ q.run = r /\ q.plan = p /\ q.todo = Program[op]
      /\ request' = [request EXCEPT ![c] = q]
  BY <1>1, <1>2, <1>3 DEF Idle, RequestRecord
<1>5. /\ UNCHANGED <<tool, overlap, callStatus, callArt, artifacts, permissions>>
      /\ UNCHANGED <<runStatus, runPlan, planStatus, planRun, planArt, expired, confirmed>>
      /\ UNCHANGED <<receipts, started>>
      /\ budget' = budget \/ (budget > 0 /\ budget' = budget - 1)
      /\ overlap \/ \A d \in Request : request[d] = Idle
  BY DEF Begin, callVars, runVars, planVars
<1>6. Rows' /\ Grows
  <2>1. RowsOK /\ Kept /\ (~overlap => KeptAlone) /\ MaxRequests \in Nat
    BY CaseAssumption DEF ToolInv, Rows
  <2>2. budget' \in 0..MaxRequests
    BY <1>5, <2>1 DEF RowsOK
  <2>3. RowsOK'
    BY <1>5, <2>1, <2>2 DEF RowsOK
  <2>4. Kept' /\ (~overlap => KeptAlone')
    BY <1>5, <2>1, PermissionsStay DEF Kept, KeptAlone, SuccessHasReceipt, Begun, Starts
  <2> QED BY <1>5, <2>3, <2>4 DEF Rows, Grows
<1>7. PICK a, s : a = Head(Program[op]) /\ s = Program[op]
  OBVIOUS
<1>8. a \in Firsts /\ (a \in RunAwaits => r \in Run /\ runStatus[r] # "absent")
      /\ (a \in PlanAwaits => p \in Plan)
  BY <1>1, <1>3, <1>7
<1>9. Knows(a, r, p, q.was)' /\ KnowsAlone(a, r, p, q.saw, q.was, q.idx)'
  <2>1. Knows(a, r, p, q.was)'
    BY <1>8 DEF Knows, PlannedAwaits, Firsts
  <2>2. KnowsAlone(a, r, p, q.saw, q.was, q.idx)'
    BY <1>5, <1>8 DEF KnowsAlone, Firsts, RunAwaits
  <2> QED BY <2>1, <2>2
<1>10. InProgress(q) /\ Head(q.todo) = a
  BY <1>3, <1>4, <1>7 DEF InProgress
<1>11. Informed(q)' /\ InformedAlone(q)'
  BY <1>4, <1>9, <1>10 DEF Informed, InformedAlone, InProgress
<1> QED BY <1>4, <1>5, <1>6, <1>11, OneRequest

LEMMA TimeKeeps ==
  ASSUME ToolInv, (\E p \in Plan : PlanExpires(p)) \/ UNCHANGED vars
  PROVE  ToolInv'
<1>1. /\ UNCHANGED <<tool, overlap, budget, callStatus, callArt, artifacts, permissions>>
      /\ UNCHANGED <<runStatus, runPlan, planStatus, planRun, planArt, confirmed>>
      /\ UNCHANGED <<receipts, started, request>>
      /\ expired \subseteq Plan => expired' \subseteq Plan
  BY DEF PlanExpires, fixed, callVars, runVars, vars
<1>2. RowsOK'
  BY <1>1 DEF ToolInv, Rows, RowsOK
<1>3. Kept' /\ (~overlap => KeptAlone')
  BY <1>1, PermissionsStay DEF ToolInv, Rows, Kept, KeptAlone, SuccessHasReceipt, Begun, Starts
<1>4. Rows' /\ Grows
  BY <1>1, <1>2, <1>3 DEF Rows, Grows
<1>5. ASSUME NEW c \in Request, request[c] # Idle
      PROVE  Informed(request[c])' /\ InformedAlone(request[c])'
  <2>1. PICK q : q = request[c]
    OBVIOUS
  <2>2. PICK a, r, p, was, saw, i : /\ a = Head(q.todo) /\ r = q.run /\ p = q.plan
                                    /\ was = q.was /\ saw = q.saw /\ i = q.idx
    OBVIOUS
  <2>3. InProgress(q) /\ Knows(a, r, p, was) /\ (~overlap => KnowsAlone(a, r, p, saw, was, i))
    BY <1>5, <2>1, <2>2 DEF ToolInv, Requests, Informed, InformedAlone
  <2>4. Knows(a, r, p, was)'
    BY <1>4, <2>3, KnowsGrows
  <2>5. ~overlap => KnowsAlone(a, r, p, saw, was, i)'
    BY <1>1, <2>3 DEF KnowsAlone, NoRunOfKey, NoPlanOf, Grants, Latest
  <2>6. Informed(q)' /\ InformedAlone(q)'
    BY <1>1, <2>2, <2>3, <2>4, <2>5 DEF Informed, InformedAlone, InProgress
  <2> QED BY <1>1, <2>1, <2>6 DEF Informed, InformedAlone, InProgress
<1> QED BY <1>1, <1>4, <1>5 DEF ToolInv, Requests

LEMMA NextKeeps ==
  ASSUME ToolInv, [Next]_vars
  PROVE  ToolInv'
<1>1. ASSUME NEW c \in Request, Step(c)
      PROVE  ToolInv'
  BY <1>1, ChecksKeep, ReadsKeep, BranchesKeep, EvaluateKeeps, ReviewArtifactKeeps,
     UpdateCallKeeps, InsertRunKeeps, InsertPermissionKeeps, SetRunKeeps,
     CreateArtifactKeeps, InsertPlanKeeps, ReviewPlanKeeps, UpdatePlanKeeps, ApproveKeeps,
     StartKeeps, ReceiptKeeps, CommandEndsKeeps DEF Step
<1>2. ASSUME NEW c \in Request, Begin(c) \/ Abandon(c)
      PROVE  ToolInv'
  BY <1>2, BeginKeeps, ReadsKeep
<1> QED BY <1>1, <1>2, TimeKeeps DEF Next

LEMMA InvHolds == Spec => []ToolInv
<1>1. Init => ToolInv
  <2> SUFFICES ASSUME Init PROVE ToolInv
    OBVIOUS
  <2>1. RowsOK
    BY CaseAssumption DEF Init, RowsOK, CallStatus, Tool
  <2>2. Kept /\ KeptAlone
    BY NullAssumption
    DEF Init, Kept, KeptAlone, SuccessHasReceipt, Starts, RefusedForGood, Permitted, Unpermitted
  <2>3. Requests
    BY IdleIsFree DEF Init, Requests
  <2> QED BY <2>1, <2>2, <2>3 DEF ToolInv, Rows
<1>2. ToolInv /\ [Next]_vars => ToolInv'
  BY NextKeeps
<1> QED BY <1>1, <1>2, PTL DEF Spec

-----------------------------------------------------------------------------
(* Theorems *)

\* When requests follow one another, no run of a call that the policy refused gets as
\* far as waiting for a permission (getOrCreateControlledPermission, execution.ts),
\* whether the call was evaluated or the run asked for first.
THEOREM RefusalsHold == Spec => []RefusalHolds
<1>1. ToolInv => RefusalHolds
  <2> SUFFICES ASSUME ToolInv, ~overlap, NEW i \in 1..Len(permissions),
                      permissions[i] \in {"requires_human", "deny"}, NEW r \in Run
               PROVE  runStatus[r] \in Unpermitted
    BY DEF RefusalHolds, Unpermitted
  <2>1. permissions \in Seq(Decision) /\ Len(permissions) = 1
    BY DEF ToolInv, Rows, RowsOK, KeptAlone, RefusedForGood
  <2>2. Latest # "allow_controlled_execution"
    BY <2>1 DEF Latest
  <2> QED BY <2>2, PermittedRun
<1> QED BY <1>1, InvHolds, PTL

\* The rows and the requests keep their types.
THEOREM ToolRunsType == Spec => []TypeOK
<1>1. ToolInv => TypeOK
  <2> SUFFICES ASSUME ToolInv PROVE TypeOK
    OBVIOUS
  <2>1. RowsOK /\ DOMAIN request = Request
    BY DEF ToolInv, Rows, Requests
  <2>2. /\ \A i \in 1..Len(artifacts) : artifacts[i] \in {"pending", "approved", "rejected"}
        /\ \A i \in 1..Len(permissions) : permissions[i] \in Decision
    BY <2>1, ElementOfSeq DEF RowsOK
  <2> QED BY <2>1, <2>2 DEF RowsOK, TypeOK
<1> QED BY <1>1, InvHolds, PTL

\* What executes was confirmed (execution.ts, human-gated-execution.ts): an execution
\* through the repository begins only for a plan whose confirmation Kelvin approved,
\* whatever overlaps; one through the human-gated executor, when requests follow one
\* another.
THEOREM StartsAreConfirmed == Spec => []ConfirmedBeforeStart
<1>1. ToolInv => ConfirmedBeforeStart
  BY DEF ToolInv, Rows, Kept, KeptAlone, ConfirmedBeforeStart
<1> QED BY <1>1, InvHolds, PTL

\* A run reported succeeded has a receipt that says so, whichever executor settled
\* it, wherever requests are cut off and however they overlap.
THEOREM SuccessIsReceipted == Spec => []SuccessHasReceipt
<1>1. ToolInv => SuccessHasReceipt
  BY DEF ToolInv, Rows, Kept
<1> QED BY <1>1, InvHolds, PTL

LEMMA AtMostOne ==
  ASSUME NEW S, \A x, y \in S : x = y
  PROVE  Cardinality(S) <= 1
<1>1. CASE S = {}
  BY <1>1, FS_EmptySet
<1>2. CASE S # {}
  <2>1. PICK x : S = {x}
    BY <1>2
  <2> QED BY <2>1, FS_Singleton
<1> QED BY <1>1, <1>2

\* Requests that follow one another, repeated after a failure at any await, make one
\* run of the call and one plan of the run, and begin its execution once.
THEOREM RepeatsActOnce == Spec => []RepeatedRequestsActOnce
<1>1. ToolInv => RepeatedRequestsActOnce
  <2> SUFFICES ASSUME ToolInv, ~overlap
               PROVE  /\ Cardinality({r \in Run : runStatus[r] # "absent"}) <= 1
                      /\ \A r \in Run :
                           /\ Cardinality({p \in Plan : planRun[p] = r}) <= 1
                           /\ Cardinality(Starts(r)) <= 1
    BY DEF RepeatedRequestsActOnce
  <2>1. KeptAlone
    BY DEF ToolInv, Rows
  <2>2. \A x, y \in {r \in Run : runStatus[r] # "absent"} : x = y
    BY <2>1 DEF KeptAlone
  <2>3. ASSUME NEW r \in Run
        PROVE  /\ \A x, y \in {p \in Plan : planRun[p] = r} : x = y
               /\ \A x, y \in Starts(r) : x = y
    BY <2>1 DEF KeptAlone, Starts
  <2>4. Cardinality({r \in Run : runStatus[r] # "absent"}) <= 1
    BY <2>2, AtMostOne
  <2>5. ASSUME NEW r \in Run
        PROVE  Cardinality({p \in Plan : planRun[p] = r}) <= 1 /\ Cardinality(Starts(r)) <= 1
    <3>1. PICK S, T : S = {p \in Plan : planRun[p] = r} /\ T = Starts(r)
      OBVIOUS
    <3>2. (\A x, y \in S : x = y) /\ (\A x, y \in T : x = y)
      BY <2>3, <3>1
    <3>3. Cardinality(S) <= 1 /\ Cardinality(T) <= 1
      BY <3>2, AtMostOne
    <3> QED BY <3>1, <3>3
  <2> QED BY <2>4, <2>5
<1> QED BY <1>1, InvHolds, PTL

\* A reviewed call agrees with its confirmation when requests follow one another,
\* wherever a review is cut off and repeated.
THEOREM ReviewsAreCoherent == Spec => []ReviewIsCoherent
<1>1. ToolInv => ReviewIsCoherent
  BY DEF ToolInv, Rows, KeptAlone, ReviewIsCoherent
<1> QED BY <1>1, InvHolds, PTL

\* A row of the table of state-machine.ts leads from s to t.
Moves(s, t) == \E m \in runTransitions : m[1] = s /\ m[3] = t

\* When requests follow one another, a run moves along the table of state-machine.ts
\* or is cancelled, although each write is by id and compares nothing.
THEOREM RunsFollowTable == Spec => RunFollowsTable
<1>1. ToolInv /\ [Next]_vars =>
        [~overlap => \A r \in Run :
           runStatus'[r] \in {runStatus[r], "cancelled"}
           \/ <<runStatus[r], runStatus'[r]>> = <<"absent", "created">>
           \/ \E t \in runTransitions : t[1] = runStatus[r] /\ t[3] = runStatus'[r]]_vars
  <2> SUFFICES ASSUME ToolInv, [Next]_vars, ~overlap
               PROVE  \A r \in Run :
                        \/ runStatus'[r] \in {runStatus[r], "cancelled"}
                        \/ <<runStatus[r], runStatus'[r]>> = <<"absent", "created">>
                        \/ Moves(runStatus[r], runStatus'[r])
    BY DEF Moves
  <2>1. runStatus \in [Run -> {"absent"} \cup RunStatus]
    BY DEF ToolInv, Rows, RowsOK
  <2>2. /\ Moves("created", "awaiting_permission")
        /\ Moves("awaiting_permission", "awaiting_confirmation")
        /\ Moves("awaiting_confirmation", "approved_for_execution")
        /\ Moves("awaiting_confirmation", "rejected")
        /\ Moves("approved_for_execution", "executing")
        /\ Moves("executing", "succeeded") /\ Moves("executing", "failed")
    BY DEF Moves, runTransitions
  <2>3. ASSUME NEW c \in Request, NEW step, At(c, step)
        PROVE  /\ Knows(step, request[c].run, request[c].plan, request[c].was)
               /\ KnowsAlone(step, request[c].run, request[c].plan, request[c].saw,
                             request[c].was, request[c].idx)
    BY <2>3, RequestKnows
  <2>4. CASE UNCHANGED runStatus
    BY <2>4
  <2>5. CASE runStatus' # runStatus
    <3>1. PICK c \in Request : Step(c)
      BY <2>5 DEF Next, Begin, Abandon, PlanExpires, runVars, vars
    <3>2. \/ InsertRun(c) \/ AwaitPermission(c) \/ InsertPlan(c) \/ RejectRun(c) \/ Approve(c)
          \/ CancelRun(c) \/ Start(c) \/ Receipt(c) \/ StartCommand(c) \/ SettleCommand(c)
      BY <2>5, <3>1
      DEF Step, ReadCall, ReadLatest, Evaluate, ReadCancellable, ReadPending, ReviewArtifact,
          UpdateCall, FindRun, ReadCreated, ReadPermission, InsertPermission, RereadPermission,
          ReadPlannable, FindPlan, ReadAllowed, CreateArtifact, ReadSubmitted, ReviewPlan,
          UpdatePlan, ReadAwaiting, ReadRun, ReadPlan, RecallPermission, ReadConfirmed,
          ReadExecutable, ReadCommand, CommandEnds, Check, runVars
    <3> DEFINE q == request[c].run
    <3>3. CASE InsertRun(c)
      BY <2>1, <3>3 DEF InsertRun
    <3>4. CASE AwaitPermission(c)
      <4>1. runStatus[q] = "created" /\ runStatus' = [runStatus EXCEPT ![q] = "awaiting_permission"]
        BY <2>3, <3>4 DEF AwaitPermission, SetRun, KnowsAlone
      <4> QED BY <2>1, <2>2, <4>1
    <3>5. CASE InsertPlan(c)
      <4>1. /\ runStatus[q] = "awaiting_permission"
            /\ runStatus' = [runStatus EXCEPT ![q] = "awaiting_confirmation"]
        BY <2>3, <3>5 DEF InsertPlan, KnowsAlone
      <4> QED BY <2>1, <2>2, <4>1
    <3>6. CASE RejectRun(c)
      <4>1. /\ q \in Run => runStatus[q] = "awaiting_confirmation"
            /\ runStatus' = [runStatus EXCEPT ![q] = "rejected"]
        BY <2>3, <3>6 DEF RejectRun, SetRun, KnowsAlone
      <4> QED BY <2>1, <2>2, <4>1
    <3>7. CASE Approve(c)
      <4>1. /\ runStatus[q] = "awaiting_confirmation"
            /\ runStatus' = [runStatus EXCEPT ![q] = "approved_for_execution"]
        BY <2>3, <3>7 DEF Approve, KnowsAlone
      <4> QED BY <2>1, <2>2, <4>1
    <3>8. CASE CancelRun(c)
      BY <2>1, <3>8 DEF CancelRun, SetRun
    <3>9. CASE Start(c) \/ StartCommand(c)
      <4>1. /\ runStatus[q] = "approved_for_execution"
            /\ runStatus' = [runStatus EXCEPT ![q] = "executing"]
        BY <2>3, <3>9 DEF Start, StartCommand, SetRun, KnowsAlone
      <4> QED BY <2>1, <2>2, <4>1
    <3>10. CASE Receipt(c)
      <4>1. /\ runStatus[q] = "executing" /\ runStatus' = [runStatus EXCEPT ![q] = "succeeded"]
        BY <2>3, <3>10 DEF Receipt, KnowsAlone
      <4> QED BY <2>1, <2>2, <4>1
    <3>11. CASE SettleCommand(c)
      <4>1. PICK s \in {"succeeded", "failed"} : runStatus' = [runStatus EXCEPT ![q] = s]
        BY <2>3, <3>11 DEF SettleCommand, SetRun, Knows
      <4>2. runStatus[q] = "executing"
        BY <2>3, <3>11 DEF SettleCommand, SetRun, KnowsAlone
      <4> QED BY <2>1, <2>2, <4>1, <4>2
    <3> QED BY <3>2, <3>3, <3>4, <3>5, <3>6, <3>7, <3>8, <3>9, <3>10, <3>11
  <2> QED BY <2>4, <2>5
<1> QED BY <1>1, InvHolds, PTL DEF Spec, RunFollowsTable

-----------------------------------------------------------------------------
(* The contract of an execution *)

Succeeded == {r \in Run : runStatus[r] = "succeeded"}

\* updateToolRunStatus writes status s of run r.
Written(r, s) == runStatus' = [runStatus EXCEPT ![r] = s]

LEMMA StatusWritten ==
  ASSUME ToolInv, NEW r, NEW s, Written(r, s)
  PROVE  Succeeded' = IF s # "succeeded" THEN Succeeded \ {r} ELSE Succeeded \cup ({r} \cap Run)
<1>1. runStatus \in [Run -> {"absent"} \cup RunStatus]
  BY DEF ToolInv, Rows, RowsOK
<1>2. \A u \in Run : runStatus'[u] = IF u = r THEN s ELSE runStatus[u]
  BY <1>1 DEF Written
<1> QED BY <1>2 DEF Succeeded

\* What the contract sees stays, but for a run that is no longer reported.
LEMMA OnlyWithdraws ==
  ASSUME UNCHANGED <<overlap, confirmed, started, receipts>>,
         NEW r, Succeeded' = Succeeded \/ Succeeded' = Succeeded \ {r}
  PROVE  [Contract!Next]_(Contract!vars)
<1>1. CASE Succeeded' = Succeeded
  BY <1>1 DEF Succeeded, Contract!vars
<1>2. CASE Succeeded' # Succeeded
  <2>1. r \in Run /\ Succeeded' = Succeeded \ {r}
    BY <1>2 DEF Succeeded
  <2>2. Contract!Withdraw(r)
    BY <2>1 DEF Contract!Withdraw, Succeeded
  <2> QED BY <2>1, <2>2 DEF Contract!Next
<1> QED BY <1>1, <1>2

LEMMA StartIsBegin ==
  ASSUME ToolInv, NEW c \in Request, Start(c) \/ StartCommand(c)
  PROVE  Contract!Next
<1>1. PICK r, p : r = request[c].run /\ p = request[c].plan
  OBVIOUS
<1>2. PICK by \in Executor : by = IF Start(c) THEN "repository" ELSE "human_gated"
  BY DEF Executor
<1>3. PICK n : n = IF Starts(r) = {} THEN 1 ELSE 2
  OBVIOUS
<1>4. /\ IF by = "repository" THEN At(c, "start") ELSE At(c, "startCommand")
      /\ runStatus' = [runStatus EXCEPT ![r] = "executing"]
      /\ started' = started \cup {[run |-> r, plan |-> p, by |-> by, n |-> n]}
      /\ UNCHANGED <<overlap, confirmed, receipts>>
  <2>1. CASE Start(c)
    BY <1>1, <1>2, <1>3, <2>1 DEF Start, SetRun, RecordStart, fixed, planVars
  <2>2. CASE ~Start(c)
    BY <1>1, <1>2, <1>3, <2>2 DEF StartCommand, SetRun, RecordStart, fixed, planVars
  <2> QED BY <2>1, <2>2
<1>5. /\ r \in Run /\ p \in Plan /\ (by = "repository" => p \in confirmed)
      /\ ~overlap => runStatus[r] = "approved_for_execution" /\ p = runPlan[r]
  BY <1>1, <1>4, RequestKnows DEF Knows, KnowsAlone, RunAwaits, PlannedAwaits
<1>6. ~overlap => p \in confirmed /\ Starts(r) = {}
  BY <1>5 DEF ToolInv, Rows, KeptAlone, Unstarted
<1>7. Succeeded' = Succeeded \ {r}
  <2>1. PICK s : s = "executing"
    OBVIOUS
  <2>2. s # "succeeded" /\ Written(r, s)
    BY <1>4, <2>1 DEF Written
  <2> QED BY <2>2, StatusWritten
<1>8. Contract!Begin(r, p, by)
  <2>1. Contract!Of(started, r) = Starts(r)
    BY DEF Contract!Of, Starts
  <2>2. (~overlap \/ by \in {"repository"} => p \in confirmed) /\ (~overlap => Contract!Of(started, r) = {})
    BY <1>5, <1>6, <2>1
  <2>3. started' = started \cup
          {[run |-> r, plan |-> p, by |-> by, n |-> IF Contract!Of(started, r) = {} THEN 1 ELSE 2]}
    BY <1>3, <1>4, <2>1
  <2> QED BY <1>4, <1>7, <2>2, <2>3 DEF Contract!Begin, Succeeded
<1> QED BY <1>5, <1>8 DEF Contract!Next

LEMMA ReceiptIsAnswer ==
  ASSUME ToolInv, NEW c \in Request, Receipt(c) \/ CommandEnds(c)
  PROVE  Contract!Next
<1>1. PICK r, p : r = request[c].run /\ p = request[c].plan
  OBVIOUS
<1>2. PICK by \in Executor : by = IF Receipt(c) THEN "repository" ELSE "human_gated"
  BY DEF Executor
<1>3. PICK ok \in BOOLEAN :
        /\ IF by = "repository" THEN At(c, "receipt") ELSE At(c, "receiptCommand")
        /\ receipts' = receipts \cup {[run |-> r, plan |-> p, by |-> by, ok |-> ok]}
        /\ \/ UNCHANGED runStatus
           \/ ok /\ Written(r, "succeeded")
        /\ UNCHANGED <<overlap, confirmed, started>>
  <2>1. CASE Receipt(c)
    BY <1>1, <1>2, <2>1 DEF Receipt, Written, fixed, planVars
  <2>2. CASE ~Receipt(c)
    BY <1>1, <1>2, <2>2 DEF CommandEnds, fixed, planVars, runVars
  <2> QED BY <2>1, <2>2
<1>4. /\ r \in Run /\ p \in Plan /\ Begun(r, p, by)
      /\ ~overlap => \A x \in receipts : x.run # r
  <2>1. CASE by = "repository"
    BY <1>1, <1>3, <2>1, RequestKnows DEF Knows, KnowsAlone, RunAwaits, PlannedAwaits
  <2>2. CASE by # "repository"
    <3>1. by = "human_gated"
      BY <2>2 DEF Executor
    <3> QED BY <1>1, <1>3, <2>2, <3>1, RequestKnows DEF Knows, KnowsAlone, RunAwaits, PlannedAwaits
  <2> QED BY <2>1, <2>2
<1>5. Succeeded' = Succeeded \/ (ok /\ Succeeded' = Succeeded \cup {r})
  BY <1>3, <1>4, StatusWritten DEF Succeeded
<1>6. Contract!Answer(r, p, by, ok)
  BY <1>3, <1>4, <1>5 DEF Contract!Answer, Contract!Of, Begun, Succeeded
<1> QED BY <1>4, <1>6 DEF Contract!Next

\* The human-gated executor settles a run as its receipt says.
LEMMA SettleIsReport ==
  ASSUME ToolInv, NEW c \in Request, SettleCommand(c)
  PROVE  [Contract!Next]_(Contract!vars)
<1>1. PICK r, was : r = request[c].run /\ was = request[c].was
  OBVIOUS
<1>2. /\ At(c, "settleCommand") /\ UNCHANGED <<overlap, confirmed, started, receipts>>
      /\ runStatus' = [runStatus EXCEPT ![r] = IF was = "none" THEN "succeeded" ELSE was]
  BY <1>1 DEF SettleCommand, SetRun, fixed, planVars
<1>3. /\ r \in Run /\ was \in {"succeeded", "failed"}
      /\ was = "succeeded" => \E x \in receipts : x.run = r /\ x.ok
  BY <1>1, <1>2, RequestKnows DEF Knows, RunAwaits
<1>4. Written(r, was)
  BY <1>2, <1>3 DEF Written
<1>5. CASE was = "succeeded"
  <2>1. Succeeded' = Succeeded \cup {r}
    BY <1>3, <1>4, <1>5, StatusWritten
  <2>2. Contract!Report(r)
    BY <1>2, <1>3, <1>5, <2>1 DEF Contract!Report, Contract!Of, Succeeded
  <2> QED BY <1>3, <2>2 DEF Contract!Next
<1>6. CASE was = "failed"
  <2>1. Succeeded' = Succeeded \ {r}
    <3>1. was # "succeeded"
      BY <1>6
    <3> QED BY <1>4, <3>1, StatusWritten
  <2> QED BY <1>2, <2>1, OnlyWithdraws
<1> QED BY <1>3, <1>5, <1>6

LEMMA ReviewIsConfirm ==
  ASSUME ToolInv, NEW c \in Request, ReviewPlan(c)
  PROVE  [Contract!Next]_(Contract!vars)
<1>1. PICK p : p = request[c].plan
  OBVIOUS
<1>2. /\ UNCHANGED <<overlap, started, receipts, runStatus>>
      /\ \/ confirmed' = confirmed \cup {p} /\ At(c, "approvePlanArtifact")
         \/ UNCHANGED confirmed
  BY <1>1 DEF ReviewPlan, fixed, runVars
<1>3. CASE confirmed' = confirmed \cup {p} /\ At(c, "approvePlanArtifact")
  <2>1. p \in Plan
    BY <1>1, <1>3, RequestKnows DEF Knows, PlanAwaits
  <2>2. Contract!Confirm(p)
    BY <1>2, <1>3 DEF Contract!Confirm
  <2> QED BY <2>1, <2>2 DEF Contract!Next
<1>4. CASE UNCHANGED confirmed
  BY <1>2, <1>4 DEF Contract!vars
<1> QED BY <1>2, <1>3, <1>4

LEMMA StepIsContracted ==
  ASSUME ToolInv, [Next]_vars
  PROVE  [Contract!Next]_(Contract!vars)
<1>1. ASSUME NEW c \in Request, Step(c), UNCHANGED <<overlap, confirmed, started, receipts, runStatus>>
      PROVE  [Contract!Next]_(Contract!vars)
  BY <1>1 DEF Contract!vars
<1>2. CASE \/ \E c \in Request : Begin(c) \/ Abandon(c)
           \/ \E p \in Plan : PlanExpires(p)
           \/ UNCHANGED vars
  <2>1. UNCHANGED <<overlap, confirmed, started, receipts, runStatus>>
    BY <1>2 DEF Begin, Abandon, PlanExpires, fixed, callVars, runVars, planVars, vars
  <2> QED BY <2>1 DEF Contract!vars
<1>3. ASSUME NEW c \in Request, Step(c) PROVE [Contract!Next]_(Contract!vars)
  <2>1. CASE Start(c) \/ StartCommand(c)
    BY <2>1, StartIsBegin
  <2>2. CASE Receipt(c) \/ CommandEnds(c)
    BY <2>2, ReceiptIsAnswer
  <2>3. CASE SettleCommand(c)
    BY <2>3, SettleIsReport
  <2>4. CASE ReviewPlan(c)
    BY <2>4, ReviewIsConfirm
  <2>5. CASE InsertRun(c) \/ AwaitPermission(c) \/ InsertPlan(c) \/ RejectRun(c) \/ Approve(c) \/ CancelRun(c)
    <3>1. UNCHANGED <<overlap, confirmed, started, receipts>>
      BY <2>5 DEF InsertRun, AwaitPermission, InsertPlan, RejectRun, Approve, CancelRun, SetRun,
                  fixed, planVars
    <3>2. PICK r : \E s \in RunStatus \ {"succeeded"} : Written(r, s)
      <4>1. InsertRun(c) => \E r \in Run : Written(r, "created")
        BY Zenon DEF InsertRun, Written
      <4>2. PICK q : q = request[c].run
        OBVIOUS
      <4>3. /\ AwaitPermission(c) => Written(q, "awaiting_permission")
            /\ InsertPlan(c) => Written(q, "awaiting_confirmation")
            /\ RejectRun(c) => Written(q, "rejected")
            /\ Approve(c) => Written(q, "approved_for_execution")
            /\ CancelRun(c) => Written(q, "cancelled")
        BY <4>2 DEF AwaitPermission, InsertPlan, RejectRun, Approve, CancelRun, SetRun, Written
      <4> QED BY <2>5, <4>1, <4>3 DEF RunStatus
    <3> PICK s : s # "succeeded" /\ Written(r, s)
      BY <3>2
    <3>3. Succeeded' = Succeeded \ {r}
      BY StatusWritten
    <3> QED BY <3>1, <3>3, OnlyWithdraws
  <2>6. CASE \/ ReadCall(c) \/ ReadLatest(c) \/ Evaluate(c) \/ ReadCancellable(c)
             \/ ReadPending(c) \/ ReviewArtifact(c) \/ UpdateCall(c)
             \/ FindRun(c) \/ ReadCreated(c) \/ ReadPermission(c)
             \/ InsertPermission(c) \/ RereadPermission(c)
             \/ ReadPlannable(c) \/ FindPlan(c) \/ ReadAllowed(c) \/ CreateArtifact(c)
             \/ ReadSubmitted(c) \/ UpdatePlan(c)
             \/ ReadAwaiting(c) \/ ReadRun(c) \/ ReadPlan(c)
             \/ RecallPermission(c) \/ ReadConfirmed(c) \/ ReadExecutable(c) \/ ReadCommand(c)
    <3>1. UNCHANGED <<overlap, confirmed, started, receipts, runStatus>>
      BY <2>6
      DEF ReadCall, ReadLatest, Evaluate, ReadCancellable, ReadPending, ReviewArtifact,
          UpdateCall, FindRun, ReadCreated, ReadPermission, InsertPermission, RereadPermission,
          ReadPlannable, FindPlan, ReadAllowed, CreateArtifact, ReadSubmitted, UpdatePlan,
          ReadAwaiting, ReadRun, ReadPlan, RecallPermission, ReadConfirmed, ReadExecutable,
          ReadCommand, Check, fixed, runVars, planVars
    <3> QED BY <1>1, <1>3, <3>1
  <2> QED BY <1>3, <2>1, <2>2, <2>3, <2>4, <2>5, <2>6 DEF Step
<1> QED BY <1>2, <1>3 DEF Next

\* Both executors implement ExecutionContract: a plan is confirmed before it is
\* executed, a receipt is about an execution that was begun, a run is reported
\* successful on a receipt that says so; and of requests that follow one another
\* each run is begun and answered once.
THEOREM ToolRunsImplementContract == Spec => ImplementsExecution
<1>1. Init => Contract!Init
  BY DEF Init, Contract!Init
<1>2. ToolInv /\ [Next]_vars => [Contract!Next]_(Contract!vars)
  BY StepIsContracted
<1> QED BY <1>1, <1>2, InvHolds, PTL DEF Spec, ImplementsExecution, Contract!Spec
=============================================================================
