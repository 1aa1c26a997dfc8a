----------------------- MODULE GovernanceRepositories -----------------------
(***************************************************************************)
(* The await programs of the record repositories of src/src/lib: one       *)
(* definition per function, under the function's name.  Observability      *)
(* events are logging and are left out, and so are reads that only build   *)
(* the answer.                                                             *)
(***************************************************************************)
EXTENDS GovernedRecords

\* the statuses a record may move to, as most repositories write them
recordTable == ("draft" :> {"review", "archived"}) @@ ("review" :> {"approved_record", "rejected", "archived"})
               @@ ("approved_record" :> {"superseded", "archived"}) @@ ("rejected" :> {"archived"})
               @@ ("superseded" :> {"archived"}) @@ ("archived" :> {})
-----------------------------------------------------------------------------
(* execution-gateway                                                        *)
createExecutionIntent ==
    Creates("intent", {{}}, TRUE, "draft", <<Insert("insert", "intent", {}), Do("audit", "intent")>>)
createExecutionPlan ==
    Creates("plan", {{"intent"}}, TRUE, "draft",
        <<Find("intent"), Insert("insert", "plan", {"intent"})>> \o List("intent") \o <<Do("audit", "plan")>>)
\* the gate's parents are checked by their foreign keys
createExecutionGate ==
    Creates("gate", Optional({"intent", "plan"}), TRUE, "draft",
        <<Insert("insert", "gate", {"intent", "plan"})>> \o List("intent") \o List("plan") \o <<Do("audit", "gate")>>)
createExecutionApproval ==
    LET targets == {"intent", "plan", "gate", "receipt"} IN
    Creates("approval", OneOf(targets), TRUE, "draft",
        <<Find("intent"), Find("plan"), Find("gate"), Find("receipt"), Insert("insert", "approval", targets)>>
        \o List("intent") \o List("plan") \o List("gate") \o List("receipt") \o <<Do("audit", "approval")>>)
createExecutionReceipt ==
    Creates("receipt", Optional({"intent", "plan", "gate"}), TRUE, "draft",
        <<Insert("insert", "receipt", {"intent", "plan", "gate"})>>
        \o List("intent") \o List("plan") \o List("gate") \o <<Do("audit", "receipt")>>)
transitionExecutionGatewayRecord(k) ==
    Moves(<<Do("readStatus", k), Do("writeStatus", k), Do("audit", k)>>, recordTable, {"approved_record"}, "keep")
gateway ==
    [creates |-> [intent |-> createExecutionIntent, plan |-> createExecutionPlan, gate |-> createExecutionGate,
                  approval |-> createExecutionApproval, receipt |-> createExecutionReceipt],
     moves |-> [k \in {"intent", "plan", "gate", "approval", "receipt"} |-> transitionExecutionGatewayRecord(k)]]
-----------------------------------------------------------------------------
(* evidence                                                                 *)
ensureDefaultEvidenceRedactionPolicy == Do("ensure", "policy")
createEvidenceSourceProfile ==
    Creates("profile", {{}}, TRUE, "active", <<Insert("insert", "profile", {}), Do("audit", "profile")>>)
ensureEvidenceSourceProfile == Do("ensureAudited", "profile")
createSanitizedEvidenceSnapshot == <<Insert("insert", "snapshot", {"import"}), Do("audit", "snapshot")>>
createEvidenceImportRecord ==
    Creates("import", Optional({"profile", "policy"}), TRUE, "draft",
        <<ensureEvidenceSourceProfile, ensureDefaultEvidenceRedactionPolicy,
          Insert("insert", "import", {"profile", "policy"})>>
        \o createSanitizedEvidenceSnapshot \o <<Do("setRefs", "snapshot"), Do("audit", "import")>>)
createEvidenceReviewRecord ==
    LET targets == {"profile", "import", "snapshot", "policy"} IN
    Creates("review", OneOf(targets), TRUE, "draft",
        <<Find("profile"), Find("import"), Find("snapshot"), Find("policy"),
          Insert("insert", "review", targets), Do("audit", "review")>>)
evidenceTable == [recordTable EXCEPT !["approved_record"] = {"archived"}]
\* only an import has a reviewer
transitionEvidenceRecordStatus(k) ==
    Moves(<<Do("readStatus", k), Do("writeStatus", k), Do("audit", k)>>, evidenceTable,
          IF k = "import" THEN {"approved_record"} ELSE {}, IF k = "import" THEN "keep" ELSE "none")
evidence ==
    [creates |-> [profile |-> createEvidenceSourceProfile, import |-> createEvidenceImportRecord,
                  review |-> createEvidenceReviewRecord],
     moves |-> [k \in {"import", "review"} |-> transitionEvidenceRecordStatus(k)]]
-----------------------------------------------------------------------------
(* department-mapping                                                       *)
createEvidenceToDepartmentMapping ==
    Creates("mapping", {{}}, TRUE, "draft", <<Insert("insert", "mapping", {}), Do("audit", "mapping")>>)
createDepartmentEvidenceCoverage ==
    Creates("coverage", Optional({"mapping"}), TRUE, "draft",
        <<Find("mapping"), Insert("insert", "coverage", {"mapping"})>> \o List("mapping") \o <<Do("audit", "coverage")>>)
createDepartmentReviewGap ==
    Creates("gap", Optional({"mapping"}), TRUE, "draft",
        <<Find("mapping"), Insert("insert", "gap", {"mapping"})>> \o List("mapping") \o <<Do("audit", "gap")>>)
createDepartmentMappingReviewRecord ==
    Creates("review", OneOf({"mapping", "coverage", "gap"}), TRUE, "draft",
        <<Find("mapping"), Find("coverage"), Find("gap"), Insert("insert", "review", {"mapping", "coverage", "gap"})>>
        \o List("mapping") \o List("coverage") \o List("gap") \o <<Do("audit", "review")>>)
transitionDepartmentMappingRecord(k) ==
    Moves(<<Do("readStatus", k), Do("writeStatus", k), Do("audit", k)>>, recordTable, {"approved_record"}, "keep")
mapping ==
    [creates |-> [mapping |-> createEvidenceToDepartmentMapping, coverage |-> createDepartmentEvidenceCoverage,
                  gap |-> createDepartmentReviewGap, review |-> createDepartmentMappingReviewRecord],
     moves |-> [k \in {"mapping", "coverage", "gap", "review"} |-> transitionDepartmentMappingRecord(k)]]
-----------------------------------------------------------------------------
(* department-assignment                                                    *)
createDepartmentTaskIntake ==
    Creates("intake", {{}}, TRUE, "draft", <<Insert("insert", "intake", {}), Do("audit", "intake")>>)
createDepartmentAssignmentProposal ==
    Creates("proposal", {{"intake"}}, TRUE, "draft",
        <<Find("intake"), Insert("insert", "proposal", {"intake"})>> \o List("intake") \o <<Do("audit", "proposal")>>)
\* listed in its proposal and in the intake of its proposal
createDepartmentRoleFitReview ==
    Creates("fit", {{"proposal"}}, TRUE, "draft",
        <<Find("proposal"), Insert("insert", "fit", {"proposal"})>>
        \o List("proposal") \o ListThrough("proposal", "intake") \o <<Do("audit", "fit")>>)
\* an audit record has no list of approvals
createDepartmentAssignmentApproval ==
    LET targets == {"intake", "proposal", "fit", "auditRecord"} IN
    Creates("approval", OneOf(targets), TRUE, "draft",
        <<Find("intake"), Find("proposal"), Find("fit"), Find("auditRecord"), Insert("insert", "approval", targets)>>
        \o List("intake") \o List("proposal") \o List("fit") \o <<Do("audit", "approval")>>)
createDepartmentAssignmentAudit ==
    LET targets == {"intake", "proposal", "fit", "approval"} IN
    Creates("auditRecord", OneOf(targets), TRUE, "draft",
        <<Find("intake"), Find("proposal"), Find("fit"), Find("approval"), Insert("insert", "auditRecord", targets)>>
        \o List("intake") \o List("proposal") \o List("fit") \o List("approval") \o <<Do("audit", "auditRecord")>>)
transitionDepartmentAssignmentRecord(k) ==
    Moves(<<Do("readStatus", k), Do("writeStatus", k), Do("audit", k)>>, recordTable, {"approved_record"}, "keep")
assignment ==
    [creates |-> [intake |-> createDepartmentTaskIntake, proposal |-> createDepartmentAssignmentProposal,
                  fit |-> createDepartmentRoleFitReview, approval |-> createDepartmentAssignmentApproval,
                  auditRecord |-> createDepartmentAssignmentAudit],
     moves |-> [k \in {"intake", "proposal", "fit", "approval", "auditRecord"} |-> transitionDepartmentAssignmentRecord(k)]]
-----------------------------------------------------------------------------
(* department                                                               *)
createDepartmentProfile ==
    Creates("profile", {{}}, TRUE, "draft", <<Insert("insert", "profile", {}), Do("audit", "profile")>>)
OfProfile(k) ==
    Creates(k, {{"profile"}}, TRUE, "draft",
        <<Find("profile"), Insert("insert", k, {"profile"})>> \o List("profile") \o <<Do("audit", k)>>)
createDepartmentAgentRole == OfProfile("role")
createDepartmentResponsibilityMatrix == OfProfile("matrix")
createDepartmentEscalationPolicy == OfProfile("escalation")
createDepartmentPermissionBoundary == OfProfile("boundary")
createDepartmentReviewRecord ==
    LET targets == {"profile", "role", "matrix", "escalation", "boundary"} IN
    Creates("review", OneOf(targets), TRUE, "draft",
        <<Find("profile"), Find("role"), Find("matrix"), Find("escalation"), Find("boundary"),
          Insert("insert", "review", targets)>>
        \o List("profile") \o List("role") \o List("matrix") \o List("escalation") \o List("boundary")
        \o <<Do("audit", "review")>>)
transitionDepartmentRecord(k) ==
    Moves(<<Do("readStatus", k), Do("writeStatus", k), Do("audit", k)>>, recordTable, {"approved_record"}, "keep")
department ==
    [creates |-> [profile |-> createDepartmentProfile, role |-> createDepartmentAgentRole,
                  matrix |-> createDepartmentResponsibilityMatrix, escalation |-> createDepartmentEscalationPolicy,
                  boundary |-> createDepartmentPermissionBoundary, review |-> createDepartmentReviewRecord],
     moves |-> [k \in {"profile", "role", "matrix", "escalation", "boundary", "review"} |-> transitionDepartmentRecord(k)]]
-----------------------------------------------------------------------------
(* file-git-pr: raw SQL without foreign keys, and no parent lists its rows  *)
fileTable == ("proposal" :> {"draft", "review", "rejected", "superseded"})
             @@ ("draft" :> {"review", "rejected", "superseded"})
             @@ ("review" :> {"approved_record", "rejected", "superseded"})
             @@ ("approved_record" :> {"archived", "superseded"})
             @@ ("rejected" :> {"archived"}) @@ ("superseded" :> {"archived"}) @@ ("archived" :> {})
createFileChangeProposal ==
    Creates("proposal", {{}}, TRUE, "proposal",
        <<Do("lookUp", "proposal"), Insert("insert", "proposal", {}), Do("audit", "proposal")>>)
\* from an agent result, a tool result, a tool receipt or a decision
createFileChangeProposalFrom ==
    [createFileChangeProposal EXCEPT !.todo = <<Do("findSource", "proposal")>> \o @]
createPatchDraft ==
    Creates("patch", {{"proposal"}}, FALSE, "draft",
        <<Find("proposal"), Insert("insert", "patch", {"proposal"}), Do("audit", "patch")>>)
createGitChangePlan ==
    Creates("gitPlan", Optional({"proposal"}), FALSE, "draft",
        <<Find("proposal"), Insert("insert", "gitPlan", {"proposal"}), Do("audit", "gitPlan")>>)
createPullRequestPlan ==
    Creates("prPlan", Optional({"proposal"}), FALSE, "draft",
        <<Find("proposal"), Insert("insert", "prPlan", {"proposal"}), Do("audit", "prPlan")>>)
\* what it reviews is not looked at
createReviewPatchRecord ==
    Creates("review", {{}}, FALSE, "review", <<Insert("insert", "review", {}), Do("audit", "review")>>)
updateSimpleStatus(k) ==
    Moves(<<Do("readStatus", k), Do("writeStatus", k), Do("audit", k)>>, fileTable,
          {"approved_record", "rejected"}, "writeBack")
updateReviewPatchRecordStatus == [updateSimpleStatus("review") EXCEPT !.signed = {}, !.others = "none"]
files ==
    [creates |-> [proposal |-> createFileChangeProposal, proposalFrom |-> createFileChangeProposalFrom,
                  patch |-> createPatchDraft, gitPlan |-> createGitChangePlan,
                  prPlan |-> createPullRequestPlan, review |-> createReviewPatchRecord],
     moves |-> [k \in {"proposal", "patch", "gitPlan", "prPlan"} |-> updateSimpleStatus(k)]
               @@ ("review" :> updateReviewPatchRecordStatus)]
-----------------------------------------------------------------------------
(* external-mcp-governance                                                  *)
externalTable == [fileTable EXCEPT !["approved_record"] = {"archived"}]
createExternalIntegrationProfile ==
    Creates("integration", {{}}, FALSE, "proposal",
        <<Insert("insert", "integration", {}), Do("audit", "integration")>>)
createMcpConnectionProfile ==
    Creates("connection", {{}}, FALSE, "proposal",
        <<Insert("insert", "connection", {}), Do("audit", "connection")>>)
createExternalActionProposal ==
    Creates("action", {{}}, FALSE, "proposal", <<Insert("insert", "action", {}), Do("audit", "action")>>)
createExternalActionProposalFrom ==
    [createExternalActionProposal EXCEPT !.todo = <<Do("findSource", "action")>> \o @]
createIntegrationRiskAssessment ==
    Creates("risk", {{}}, FALSE, "draft", <<Insert("insert", "risk", {}), Do("audit", "risk")>>)
createExternalActionReviewRecord ==
    Creates("review", {{"action"}}, FALSE, "review",
        <<Find("action"), Insert("insert", "review", {"action"}), Do("audit", "review")>>)
\* one fixed id: a second insert of the policy is refused by the primary key
getIntegrationAuditPolicy ==
    Creates("auditPolicy", {{}}, FALSE, "active", <<Do("lookUpAny", "auditPolicy"), Insert("insertOnce", "auditPolicy", {})>>)
\* every move that is neither an approval nor a rejection clears reviewedBy
updateExternalStatus(k) ==
    Moves(<<Do("readStatus", k), Do("writeStatus", k), Do("audit", k)>>, externalTable,
          {"approved_record", "rejected"}, "clear")
updateExternalActionReviewRecordStatus ==
    [updateExternalStatus("review") EXCEPT !.signed = {}, !.others = "none",
        !.table = [s \in DOMAIN externalTable |-> externalTable[s] \cap {"approved_record", "rejected", "archived"}]]
external ==
    [creates |-> [integration |-> createExternalIntegrationProfile, connection |-> createMcpConnectionProfile,
                  action |-> createExternalActionProposal, actionFrom |-> createExternalActionProposalFrom,
                  risk |-> createIntegrationRiskAssessment, review |-> createExternalActionReviewRecord,
                  auditPolicy |-> getIntegrationAuditPolicy],
     moves |-> [k \in {"integration", "connection", "action"} |-> updateExternalStatus(k)]
               @@ ("review" :> updateExternalActionReviewRecordStatus)]
-----------------------------------------------------------------------------
(* collaboration: every write is audited and then journalled                *)
sessionTransitions ==
    ("draft" :> {"queued_for_review", "active", "cancelled"})
    @@ ("queued_for_review" :> {"active", "rejected", "cancelled"})
    @@ ("active" :> {"paused", "waiting_human", "completed_record", "blocked", "cancelled", "superseded"})
    @@ ("paused" :> {"active", "cancelled"}) @@ ("waiting_human" :> {"active", "blocked"})
    @@ ("completed_record" :> {"archived", "superseded"})
    @@ [s \in {"superseded", "blocked", "rejected", "cancelled"} |-> {"archived"}] @@ ("archived" :> {})
threadTransitions ==
    ("draft" :> {"open", "cancelled"}) @@ ("open" :> {"waiting_human", "closed_record", "blocked", "cancelled"})
    @@ ("waiting_human" :> {"open", "blocked"})
    @@ [s \in {"closed_record", "blocked", "cancelled"} |-> {"archived"}] @@ ("archived" :> {})
turnTransitions ==
    ("draft" :> {"recorded", "queued_for_review", "archived"})
    @@ ("recorded" :> {"queued_for_review", "approved_record"})
    @@ ("queued_for_review" :> {"approved_record", "rejected"}) @@ ("approved_record" :> {"superseded", "archived"})
    @@ [s \in {"rejected", "superseded"} |-> {"archived"}] @@ ("archived" :> {})
handoffTransitions ==
    ("draft" :> {"queued_for_review", "approved_record", "cancelled"})
    @@ ("queued_for_review" :> {"approved_record", "rejected"}) @@ ("approved_record" :> {"superseded", "archived"})
    @@ [s \in {"rejected", "cancelled", "superseded"} |-> {"archived"}] @@ ("archived" :> {})
decisionTransitions ==
    ("draft" :> {"queued_for_review", "approved_record", "archived"})
    @@ ("queued_for_review" :> {"approved_record", "rejected"}) @@ ("approved_record" :> {"superseded", "archived"})
    @@ [s \in {"rejected", "superseded"} |-> {"archived"}] @@ ("archived" :> {})
createSession == <<Insert("insert", "session", {}), Do("audit", "session")>> \o Journal("session")
\* from a task or from an A2A message: both are looked up
createCollaborationSession ==
    Creates("session", {{}}, TRUE, "draft", <<Do("lookUp", "session"), Do("findSource", "session")>> \o createSession)
createA2AThread ==
    Creates("thread", {{"session"}}, TRUE, "draft",
        <<Do("lookUp", "thread"), Find("session"), Insert("insert", "thread", {"session"}), Do("audit", "thread")>>
        \o Journal("thread"))
createA2ATurn ==
    Creates("turn", {{"session", "thread"}}, TRUE, "draft",
        <<Do("lookUp", "turn"), Find("session"), FindUnder("thread", "session"), Do("readNumbers", "turn"),
          Insert("insertNumbered", "turn", {"session", "thread"}), Do("audit", "turn")>> \o Journal("turn"))
createHandoffRequest ==
    Creates("handoff", {{"session"}}, TRUE, "draft",
        <<Do("lookUp", "handoff"), Find("session"), Insert("insert", "handoff", {"session"}), Do("audit", "handoff")>>
        \o Journal("handoff"))
createCollaborationDecision ==
    Creates("decision", {{"session"}}, TRUE, "draft",
        <<Do("lookUp", "decision"), Find("session"), Insert("insert", "decision", {"session"}), Do("audit", "decision")>>
        \o Journal("decision"))
updateStatus(k, table) ==
    Moves(<<Do("readStatus", k), Do("writeStatus", k), Do("audit", k)>> \o Journal(k), table, {}, "none")
updateHandoffRequestStatus ==
    [updateStatus("handoff", handoffTransitions) EXCEPT !.signed = {"approved_record", "rejected"}, !.others = "writeBack"]
updateCollaborationDecisionStatus ==
    [updateStatus("decision", decisionTransitions) EXCEPT !.signed = {"approved_record", "rejected"}, !.others = "writeBack"]
collaboration ==
    [creates |-> [session |-> createCollaborationSession, thread |-> createA2AThread, turn |-> createA2ATurn,
                  handoff |-> createHandoffRequest, decision |-> createCollaborationDecision],
     moves |-> [session |-> updateStatus("session", sessionTransitions),
                thread |-> updateStatus("thread", threadTransitions), turn |-> updateStatus("turn", turnTransitions),
                handoff |-> updateHandoffRequestStatus, decision |-> updateCollaborationDecisionStatus]]
-----------------------------------------------------------------------------
(* memory: a write and its audit row are one transaction                    *)
memoryTransitions ==
    ("candidate" :> {"approved", "rejected", "archived"}) @@ ("approved" :> {"superseded", "archived"})
    @@ [s \in {"rejected", "superseded"} |-> {"archived"}] @@ ("archived" :> {})
knowledgeTransitions ==
    ("draft" :> {"approved", "rejected", "archived"}) @@ ("approved" :> {"superseded", "archived"})
    @@ [s \in {"rejected", "superseded"} |-> {"archived"}] @@ ("archived" :> {})
a2aTransitions ==
    ("draft" :> {"queued_for_review", "archived"}) @@ ("queued_for_review" :> {"approved_record", "rejected"})
    @@ ("approved_record" :> {"superseded", "archived"})
    @@ [s \in {"rejected", "superseded"} |-> {"archived"}] @@ ("archived" :> {})
createContextPacketFromTask ==
    Creates("packet", {{}}, TRUE, "draft",
        <<Do("lookUp", "packet"), Do("findSource", "packet"), Insert("insertAudited", "packet", {})>>)
\* a packet that its key already names is attached again, whatever its status
createContextPacketFromAgentRun(status) ==
    Creates("packet", {{}}, TRUE, "draft",
        <<Do("findSource", "packet"), Do("reuse", "packet"), Insert("insertAudited", "packet", {}),
          Write("writeAudited", "packet", status)>>)
\* with a key, any candidate of the run is the answer
createMemoryCandidatesFromAgentResult ==
    Creates("memory", {{}}, TRUE, "candidate",
        <<Do("lookUpAny", "memory"), Do("findSource", "memory"), Insert("insertAudited", "memory", {})>>)
createKnowledgeItem ==
    Creates("knowledge", {{}}, TRUE, "draft", <<Do("lookUp", "knowledge"), Insert("insertAudited", "knowledge", {})>>)
createA2AMessage ==
    Creates("message", {{}}, TRUE, "draft", <<Do("lookUp", "message"), Insert("insertAudited", "message", {})>>)
Reviews(k, table) ==
    Moves(<<Do("readStatus", k), Do("writeAudited", k)>>, table, UNION Range(table), "none")
reviewMemoryEntry == Reviews("memory", memoryTransitions)
reviewKnowledgeItem == Reviews("knowledge", knowledgeTransitions)
reviewA2AMessage == Reviews("message", a2aTransitions)
memory ==
    [creates |-> [packet |-> createContextPacketFromTask, packetOfRun |-> createContextPacketFromAgentRun("attached"),
                  packetOfDoneRun |-> createContextPacketFromAgentRun("audit_only"),
                  memory |-> createMemoryCandidatesFromAgentResult, knowledge |-> createKnowledgeItem,
                  message |-> createA2AMessage],
     moves |-> [memory |-> reviewMemoryEntry, knowledge |-> reviewKnowledgeItem, message |-> reviewA2AMessage]]
-----------------------------------------------------------------------------
(* eval                                                                     *)
createEvalTarget ==
    Creates("target", {{}}, TRUE, "active",
        <<Do("lookUp", "target"), Do("findSource", "target"), Insert("insertAudited", "target", {})>>)
\* the run is stored finished, together with its findings
createEvalRunFromTarget(status) ==
    Creates("evalRun", {{"target"}}, TRUE, status,
        <<Do("lookUp", "evalRun"), Find("target"),
          [Insert("insertAudited", "evalRun", {"target"}) EXCEPT !.arg = "finding"]>>)
cancelEvalRun ==
    Moves(<<Do("readStatus", "evalRun"), Do("writeAudited", "evalRun")>>,
          [s \in {"completed", "blocked"} |-> {}] @@ ("running" :> {"cancelled"}), {}, "none")
\* neither a review nor a decision asks what the finding's status is
findingStatuses == {"open", "reviewed", "review_requested", "dismissed"}
reviewFinding ==
    Moves(<<Do("readStatus", "finding"), Do("writeAudited", "finding")>>,
          [s \in findingStatuses |-> findingStatuses \ {"open"}], {"reviewed", "dismissed"}, "keep")
eval ==
    [creates |-> [target |-> createEvalTarget, completedRun |-> createEvalRunFromTarget("completed"),
                  blockedRun |-> createEvalRunFromTarget("blocked")],
     moves |-> [evalRun |-> cancelEvalRun, finding |-> reviewFinding]]
-----------------------------------------------------------------------------
(* observability and run-requests                                           *)
createResumeToken == Creates("token", {{}}, FALSE, "active", <<Insert("insert", "token", {})>>)
useResumeToken == Moves(<<Do("readUses", "token"), Do("writeUses", "token")>>, "active" :> {"active"}, {}, "none")
observability == [creates |-> [token |-> createResumeToken], moves |-> [token |-> useResumeToken]]

runStatuses == {"received", "running", "succeeded", "failed", "withheld"}
\* correlationId is unique and plays the key
createRunRequestRecord ==
    Creates("runRequest", {{}}, TRUE, "received", <<Insert("insert", "runRequest", {}), Do("audit", "runRequest")>>)
\* no status is read
updateRunRequestRecordStatus ==
    Moves(<<Do("writeStatus", "runRequest"), Do("audit", "runRequest")>>, [s \in runStatuses |-> runStatuses], {}, "none")
runRequests == [creates |-> [runRequest |-> createRunRequestRecord],
                moves |-> [runRequest |-> updateRunRequestRecordStatus]]
-----------------------------------------------------------------------------
AllRepositories ==
    [gateway |-> gateway, evidence |-> evidence, mapping |-> mapping, assignment |-> assignment,
     department |-> department, files |-> files, external |-> external, collaboration |-> collaboration,
     memory |-> memory, eval |-> eval, observability |-> observability, runRequests |-> runRequests]
=============================================================================
