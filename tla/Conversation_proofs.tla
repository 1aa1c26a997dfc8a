------------------------- MODULE Conversation_proofs --------------------------
(***************************************************************************)
(* Proofs about a chat request with the agents it delegates to, for any    *)
(* number of subtasks, dependencies between them, turns and failures, and  *)
(* about the collaboration threads, for any number of threads, calls and   *)
(* turns.                                                                  *)
(***************************************************************************)
EXTENDS ChatRequest, AgentThreads, TLAPS

-----------------------------------------------------------------------------
(* Chat request: what a record says of an agent's run is there when it says so; a
   catch block is entered only after something went wrong, and left for good
   without the record only after something else did. *)

AgentSteps == {"waiting", "create", "audit_started", "agent", "intent", "plan", "close",
               "audit_blocked", "audit_ended", "mark_failed", "audit_failed", "over"}

Run == [step: AgentSteps, turn: Int, record: {"none", "started", "completed", "failed"},
        status: {"none", "completed", "failed"}, blocked: BOOLEAN, intent: BOOLEAN, plan: BOOLEAN]

DelegationTypeOK ==
  /\ recorded \in BOOLEAN
  /\ run \in [Limited -> Run]
  /\ result \in [Limited -> {"none", "completed", "failed"}]
  /\ answer \in {"none", "returned", "lost"}
  /\ dbFailures \in Nat

\* What the step of a run says of its record.
RunKnown(r) ==
  /\ r.step \in {"create", "audit_started", "agent"} => r.record # "completed"
  /\ r.step \in {"intent", "plan", "close"} => r.record # "completed" /\ r.status # "none"
  /\ r.step = "plan" => r.intent
  /\ r.step = "close" /\ r.blocked => r.intent /\ r.plan
  /\ r.step \in {"audit_blocked", "audit_ended"} => r.record = r.status
  /\ r.record = "completed" /\ r.blocked => r.intent /\ r.plan

RunsKnown ==
  \A i \in Limited :
    /\ RunKnown(run[i])
    /\ run[i].step = "waiting" => run[i].record = "none"
    /\ result[i] = "completed" => run[i].step = "over"
    /\ result[i] = "completed" /\ recorded => run[i].record = "completed"

DelegationInv == DelegationTypeOK /\ RunsKnown

-----------------------------------------------------------------------------
(* The runs *)

LEMMA DelegationStarts == ASSUME DelegationInit PROVE DelegationInv
<1>1. NotRun \in Run /\ RunKnown(NotRun)
  BY DEF NotRun, Run, AgentSteps, RunKnown
<1>2. DelegationTypeOK
  BY <1>1 DEF DelegationInit, DelegationTypeOK
<1>3. RunsKnown
  BY <1>1 DEF DelegationInit, RunsKnown, NotRun
<1> QED
  BY <1>2, <1>3 DEF DelegationInv

\* A step of one run that leaves it known keeps the invariant.
LEMMA OneRun ==
  ASSUME DelegationInv, NEW i \in Limited, NEW r \in Run, NEW o \in {"none", "completed", "failed"},
         run' = [run EXCEPT ![i] = r], result' = [result EXCEPT ![i] = o],
         RunKnown(r), r.step # "waiting",
         o = "completed" => r.step = "over" /\ (recorded => r.record = "completed"),
         UNCHANGED <<recorded, answer>>, dbFailures' \in Nat
  PROVE  DelegationInv'
<1>1. DelegationTypeOK'
  BY DEF DelegationInv, DelegationTypeOK
<1>2. RunsKnown'
  <2> SUFFICES ASSUME NEW j \in Limited
               PROVE  /\ RunKnown(run'[j])
                      /\ run'[j].step = "waiting" => run'[j].record = "none"
                      /\ result'[j] = "completed" => run'[j].step = "over"
                      /\ result'[j] = "completed" /\ recorded' => run'[j].record = "completed"
    BY DEF RunsKnown
  <2>1. CASE j = i
    BY <2>1 DEF DelegationInv, DelegationTypeOK
  <2>2. CASE j # i
    BY <2>2 DEF DelegationInv, DelegationTypeOK, RunsKnown
  <2> QED
    BY <2>1, <2>2
<1> QED
  BY <1>1, <1>2 DEF DelegationInv

LEMMA RoundStarts ==
  ASSUME DelegationInv, StartRound
  PROVE  DelegationInv'
<1> DEFINE r == [NotRun EXCEPT !.step = IF recorded THEN "create" ELSE "agent"]
<1>1. r \in Run /\ RunKnown(r) /\ r.step \notin {"waiting", "over"}
  <2>1. NotRun \in Run /\ NotRun.record = "none"
    BY DEF NotRun, Run, AgentSteps
  <2>2. ASSUME NEW s \in {"create", "agent"}, r = [NotRun EXCEPT !.step = s]
        PROVE  r \in Run /\ r.step = s /\ r.record = "none"
    <3> HIDE DEF r
    <3> QED
      BY <2>1, <2>2 DEF Run, AgentSteps
  <2>3. r = [NotRun EXCEPT !.step = "create"] \/ r = [NotRun EXCEPT !.step = "agent"]
    OBVIOUS
  <2> HIDE DEF r
  <2>4. r \in Run /\ r.step \in {"create", "agent"} /\ r.record = "none"
    BY <2>2, <2>3
  <2> QED
    BY <2>4 DEF RunKnown
<1> HIDE DEF r
<1>2. run' = [i \in Limited |-> IF i \in ReadySubtasks THEN r ELSE run[i]]
  BY DEF StartRound, r
<1>3. UNCHANGED <<recorded, result, answer, dbFailures>>
  BY DEF StartRound
<1>4. DelegationTypeOK'
  BY <1>1, <1>2, <1>3 DEF DelegationInv, DelegationTypeOK
<1>5. \A i \in ReadySubtasks : run[i].step = "waiting" /\ result[i] # "completed"
  BY DEF ReadySubtasks, DelegationInv, RunsKnown
<1>6. RunsKnown'
  BY <1>1, <1>2, <1>3, <1>5 DEF DelegationInv, RunsKnown
<1> QED
  BY <1>4, <1>6 DEF DelegationInv

LEMMA ResultsReturned ==
  ASSUME DelegationInv, ReturnResults
  PROVE  DelegationInv'
<1>1. DelegationTypeOK'
  BY DEF DelegationInv, DelegationTypeOK, ReturnResults
<1>2. RunsKnown'
  BY DEF DelegationInv, DelegationTypeOK, RunsKnown, ReturnResults
<1> QED
  BY <1>1, <1>2 DEF DelegationInv

\* What executeAgentTask returns, as the next step or as the answer.
LEMMA AgentReturned ==
  ASSUME DelegationInv, NEW i \in Limited, InStep(i, "agent"), NEW success \in BOOLEAN, NEW blocked \in BOOLEAN,
         AgentReturns(i, success, blocked), UNCHANGED <<recorded, answer, dbFailures>>
  PROVE  DelegationInv'
<1> DEFINE status == TaskStatus(success, blocked)
<1>1. status \in {"completed", "failed"}
  BY DEF TaskStatus
<1>2. run[i] \in Run /\ run[i].step = "agent" /\ RunKnown(run[i]) /\ result[i] # "completed"
       /\ result[i] \in {"none", "completed", "failed"} /\ dbFailures' \in Nat
  BY DEF DelegationInv, DelegationTypeOK, RunsKnown, InStep
<1> HIDE DEF status
<1>3. CASE recorded
  <2> DEFINE r == [run[i] EXCEPT !.step = AfterAgent(status, blocked), !.status = status, !.blocked = blocked]
  <2>1. r \in Run /\ RunKnown(r) /\ r.step # "waiting"
    BY <1>1, <1>2 DEF Run, AgentSteps, RunKnown, AfterAgent
  <2>2. run' = [run EXCEPT ![i] = r] /\ UNCHANGED result
    BY <1>3 DEF AgentReturns, DelegationInv, DelegationTypeOK, status
  <2>3. result' = [result EXCEPT ![i] = result[i]]
    BY <2>2 DEF DelegationInv, DelegationTypeOK
  <2> HIDE DEF r
  <2> QED
    BY <1>2, <2>1, <2>2, <2>3, OneRun
<1>4. CASE ~recorded
  <2> DEFINE r == [run[i] EXCEPT !.step = "over"]
  <2>1. r \in Run /\ RunKnown(r) /\ r.step = "over"
    BY <1>2 DEF Run, AgentSteps, RunKnown
  <2>2. run' = [run EXCEPT ![i] = r] /\ result' = [result EXCEPT ![i] = status]
    BY <1>4 DEF AgentReturns, Resolve, Step, DelegationInv, DelegationTypeOK, status
  <2> HIDE DEF r
  <2> QED
    BY <1>1, <1>2, <1>4, <2>1, <2>2, OneRun
<1> QED
  BY <1>3, <1>4

LEMMA AgentTurns ==
  ASSUME DelegationInv, NEW i \in Limited, ToolWithheld(i) \/ ModelAnswers(i)
  PROVE  DelegationInv'
<1>1. run[i] \in Run /\ InStep(i, "agent") /\ RunKnown(run[i]) /\ result[i] # "completed"
       /\ result[i] \in {"none", "completed", "failed"} /\ dbFailures' \in Nat
       /\ UNCHANGED <<recorded, answer, dbFailures>>
  BY DEF DelegationInv, DelegationTypeOK, RunsKnown, InStep, ToolWithheld, ModelAnswers
<1>2. CASE \E success \in BOOLEAN, blocked \in BOOLEAN : AgentReturns(i, success, blocked)
  BY <1>1, <1>2, AgentReturned
<1>3. CASE run' = [run EXCEPT ![i].turn = @ + 1, ![i].blocked = TRUE] /\ UNCHANGED result
  <2> DEFINE r == [run[i] EXCEPT !.turn = @ + 1, !.blocked = TRUE]
  <2>0. r \in Run /\ r.step = "agent" /\ r.record = run[i].record
    <3>1. run[i].turn + 1 \in Int /\ run[i].step = "agent"
      BY <1>1 DEF Run, InStep
    <3> QED
      BY <1>1, <3>1 DEF Run
  <2>1. r \in Run /\ RunKnown(r) /\ r.step # "waiting"
    BY <1>1, <2>0 DEF RunKnown, InStep
  <2>2. run' = [run EXCEPT ![i] = r] /\ result' = [result EXCEPT ![i] = result[i]]
    BY <1>3 DEF DelegationInv, DelegationTypeOK
  <2> HIDE DEF r
  <2> QED
    BY <1>1, <2>1, <2>2, OneRun
<1>4. run[i].blocked \in BOOLEAN
  BY <1>1 DEF Run
<1> QED
  BY <1>2, <1>3, <1>4 DEF ToolWithheld, ModelAnswers

LEMMA StatementEnds ==
  ASSUME DelegationInv, NEW i \in Limited, Statement(i)
  PROVE  DelegationInv'
<1> DEFINE r == AfterStatement(i)
           o == IF r.step = "over" THEN IF run[i].step = "audit_ended" THEN run[i].status ELSE "failed"
                ELSE result[i]
<1>1. run[i] \in Run /\ RunKnown(run[i]) /\ result[i] # "completed"
       /\ result[i] \in {"none", "completed", "failed"} /\ dbFailures' \in Nat
       /\ UNCHANGED <<recorded, answer>> /\ run[i].step \notin {"waiting", "agent", "over"}
  BY DEF DelegationInv, DelegationTypeOK, RunsKnown, Statement, InStatement
<1>2. r \in Run /\ RunKnown(r) /\ r.step # "waiting"
  <2>1. CASE run[i].step \in {"create", "audit_started"}
    BY <1>1, <2>1 DEF AfterStatement, Run, AgentSteps, RunKnown
  <2>2. CASE run[i].step \in {"intent", "plan"}
    BY <1>1, <2>2 DEF AfterStatement, Run, AgentSteps, RunKnown
  <2>3. CASE run[i].step = "close"
    <3>1. run[i].status \in {"completed", "failed"}
      BY <1>1, <2>3 DEF Run, RunKnown
    <3> QED
      BY <1>1, <2>3, <3>1 DEF AfterStatement, Run, AgentSteps, RunKnown
  <2>4. CASE run[i].step \in {"audit_blocked", "mark_failed"}
    BY <1>1, <2>4 DEF AfterStatement, Run, AgentSteps, RunKnown
  <2>5. CASE run[i].step \in {"audit_ended", "audit_failed"}
    BY <1>1, <2>5 DEF AfterStatement, Run, AgentSteps, RunKnown
  <2> QED
    BY <1>1, <2>1, <2>2, <2>3, <2>4, <2>5 DEF Run, AgentSteps
<1>3. run[i].step = "audit_ended" => r.record = run[i].status
  BY <1>1 DEF AfterStatement, Run, RunKnown
<1>4. o \in {"none", "completed", "failed"}
  BY <1>1 DEF Run
<1>5. run' = [run EXCEPT ![i] = r] /\ run'[i] = r
  BY DEF Statement, DelegationInv, DelegationTypeOK
<1>6. result' = [result EXCEPT ![i] = o]
  BY <1>5 DEF Statement, DelegationInv, DelegationTypeOK
<1> HIDE DEF r
<1> QED
  BY <1>1, <1>2, <1>3, <1>4, <1>5, <1>6, OneRun

LEMMA StatementBreaks ==
  ASSUME DelegationInv, NEW i \in Limited, StatementFails(i)
  PROVE  DelegationInv'
<1>1. run[i] \in Run /\ RunKnown(run[i]) /\ result[i] # "completed"
       /\ result[i] \in {"none", "completed", "failed"} /\ dbFailures' \in Nat
       /\ UNCHANGED <<recorded, answer>> /\ run[i].step \notin {"waiting", "agent", "over"}
  BY DEF DelegationInv, DelegationTypeOK, RunsKnown, StatementFails, InStatement
<1> DEFINE over == [run[i] EXCEPT !.step = "over"]
           caught == [run[i] EXCEPT !.step = "mark_failed"]
<1>2. over \in Run /\ RunKnown(over) /\ over.step = "over"
  BY <1>1 DEF Run, AgentSteps, RunKnown
<1>3. caught \in Run /\ RunKnown(caught) /\ caught.step = "mark_failed"
  BY <1>1 DEF Run, AgentSteps, RunKnown
<1>4. \/ run' = [run EXCEPT ![i] = over] /\ result' = [result EXCEPT ![i] = "failed"]
      \/ run' = [run EXCEPT ![i] = caught] /\ result' = [result EXCEPT ![i] = result[i]]
  BY DEF StatementFails, Resolve, Step, DelegationInv, DelegationTypeOK
<1> HIDE DEF over, caught
<1> QED
  BY <1>1, <1>2, <1>3, <1>4, OneRun

-----------------------------------------------------------------------------
(* The request *)

CatchSteps == {"recordFailed", "auditFailed", "auditOuter",
               "storeIncomplete", "recordBroken", "auditBroken", "auditResponse", "doneBroken"}

Request ==
  [at: BeforeStream \cup InStream \cup CatchSteps \cup {"over"},
   mode: {"agents", "agent", "model"},
   record: {"absent", "received", "running", "succeeded", "failed"},
   audit: SUBSET {"run_request.received", "chathub.request_received", "run_request.running",
                  "chathub.route_decided", "run_request.succeeded", "chathub.response_completed",
                  "run_request.failed", "chathub.response_failed"},
   content: BOOLEAN, broken: BOOLEAN, stored: SUBSET {"complete", "incomplete"}, gone: BOOLEAN]

Failed(r) == r.record = "failed" /\ "run_request.failed" \in r.audit

\* What the step of a request says of its record and its trail; wrong is how many
\* things went wrong.
RequestKnown(r, wrong) ==
  /\ r.at = "createRecord" => r.record = "absent"
  /\ r.at \in CatchSteps => wrong >= 1
  /\ r.record = "absent" => r.at \in {"createRecord", "recordFailed", "over"}
  /\ r.at \in {"auditMissing", "auditBroken", "auditFailed"} => r.record = "failed"
  /\ r.at \in {"auditResponse", "doneBroken", "auditOuter"} => Failed(r)
  /\ r.at \in {"auditSucceeded", "auditCompleted", "done"} => r.record = "succeeded"
  /\ r.at \in {"auditCompleted", "done"} => "run_request.succeeded" \in r.audit
  /\ r.at = "done" => "chathub.response_completed" \in r.audit
  /\ "incomplete" \in r.stored => r.at \in {"recordBroken", "auditBroken", "auditResponse", "doneBroken", "over"}
  /\ r.at = "over" /\ wrong <= 1 =>
       \/ r.record = "absent" \/ Failed(r)
       \/ /\ r.record = "succeeded" /\ r.stored \subseteq {"complete"}
          /\ {"run_request.succeeded", "chathub.response_completed"} \subseteq r.audit

RequestInv == DelegationInv /\ request \in Request /\ RequestKnown(request, WentWrong)

LEMMA WrongIsCounted == ASSUME RequestInv PROVE WentWrong \in Nat /\ dbFailures \in Nat
BY DEF RequestInv, DelegationInv, DelegationTypeOK, WentWrong

LEMMA RequestStarts == ASSUME RequestInit PROVE RequestInv
<1>1. DelegationInv
  BY DelegationStarts DEF RequestInit
<1>2. PICK mode \in {"agents", "agent", "model"} : request = NewRequest(mode)
  BY DEF RequestInit
<1>3. request \in Request
  BY <1>2 DEF NewRequest, Request, BeforeStream, Creating
<1>4. RequestKnown(request, WentWrong)
  BY <1>2 DEF NewRequest, RequestKnown, CatchSteps
<1> QED
  BY <1>1, <1>3, <1>4 DEF RequestInv

LEMMA UpdatesAre ==
  /\ DOMAIN Updates = {"createRecord", "recordRunning", "recordSucceeded", "recordMissing", "recordBroken", "recordFailed"}
  /\ Updates["createRecord"] = <<"received", "auditReceived">>
  /\ Updates["recordRunning"] = <<"running", "auditRunning">>
  /\ Updates["recordSucceeded"] = <<"succeeded", "auditSucceeded">>
  /\ Updates["recordMissing"] = <<"failed", "auditMissing">>
  /\ Updates["recordBroken"] = <<"failed", "auditBroken">>
  /\ Updates["recordFailed"] = <<"failed", "auditFailed">>
BY DEF Updates

LEMMA AuditsAre ==
  /\ DOMAIN Audits = {"auditReceived", "auditRequest", "auditRunning", "auditDecided", "auditSucceeded", "auditCompleted",
                      "auditMissing", "auditBroken", "auditResponse", "auditFailed", "auditOuter"}
  /\ Audits["auditReceived"] = <<"run_request.received", "auditRequest">>
  /\ Audits["auditRequest"] = <<"chathub.request_received", "conversation">>
  /\ Audits["auditRunning"] = <<"run_request.running", "auditDecided">>
  /\ Audits["auditDecided"] = <<"chathub.route_decided", "start">>
  /\ Audits["auditSucceeded"] = <<"run_request.succeeded", "auditCompleted">>
  /\ Audits["auditCompleted"] = <<"chathub.response_completed", "done">>
  /\ Audits["auditMissing"] = <<"run_request.failed", "over">>
  /\ Audits["auditBroken"] = <<"run_request.failed", "auditResponse">>
  /\ Audits["auditResponse"] = <<"chathub.response_failed", "doneBroken">>
  /\ Audits["auditFailed"] = <<"run_request.failed", "auditOuter">>
  /\ Audits["auditOuter"] = <<"chathub.response_failed", "over">>
BY DEF Audits

LEMMA MessagesAre ==
  /\ DOMAIN Messages = {"userMessage", "history", "storeAnswer", "storeIncomplete"}
  /\ Messages["userMessage"] = <<{}, "history">>
  /\ Messages["history"] = <<{}, "recordRunning">>
  /\ Messages["storeAnswer"] = <<{"complete"}, "recordSucceeded">>
  /\ Messages["storeIncomplete"] = <<{"incomplete"}, "recordBroken">>
BY DEF Messages

\* A step of the request alone.
LEMMA RequestMoves ==
  ASSUME RequestInv, NEW r \in Request, request' = r, RequestKnown(r, WentWrong'),
         UNCHANGED <<recorded, run, result, answer>>, dbFailures' \in Nat
  PROVE  RequestInv'
<1>1. DelegationInv'
  BY DEF RequestInv, DelegationInv, DelegationTypeOK, RunsKnown
<1> QED
  BY <1>1 DEF RequestInv

LEMMA WrongIsKept ==
  ASSUME RequestInv, UNCHANGED dbFailures, request'.gone = request.gone
  PROVE  WentWrong' = WentWrong
BY DEF WentWrong

LEMMA RecordUpdated ==
  ASSUME RequestInv, UpdateRecord
  PROVE  RequestInv'
<1> DEFINE r == request
           to == Updates[r.at]
           d == [[r EXCEPT !.record = to[1]] EXCEPT !.at = to[2]]
           over == [r EXCEPT !.at = "over"]
<1>1. /\ r \in Request /\ RequestKnown(r, WentWrong) /\ r.at \in DOMAIN Updates
      /\ UNCHANGED <<recorded, run, result, answer, dbFailures>> /\ WentWrong \in Nat /\ dbFailures' \in Nat
  BY WrongIsCounted DEF RequestInv, UpdateRecord, delegationVars
<1>2. CASE r.record = "absent" /\ r.at # "createRecord"
  <2>1. r.at = "recordFailed"
    BY <1>1, <1>2, UpdatesAre DEF RequestKnown
  <2>2. request' = over
    BY <1>2, <2>1 DEF UpdateRecord, Continues, Caught, CaughtInStream, BeforeStream, Creating, InStream
  <2>3. over \in Request /\ over.at = "over" /\ over.record = "absent" /\ over.gone = r.gone /\ over.stored = r.stored
    BY <1>1, <1>2 DEF Request
  <2> HIDE DEF over
  <2>4. WentWrong' = WentWrong
    BY <1>1, <2>2, <2>3, WrongIsKept
  <2>5. RequestKnown(over, WentWrong)
    BY <1>1, <2>1, <2>3 DEF RequestKnown, CatchSteps
  <2> QED
    BY <1>1, <2>2, <2>3, <2>4, <2>5, RequestMoves
<1>3. CASE ~(r.record = "absent" /\ r.at # "createRecord")
  <2>1. request' = d
    BY <1>3 DEF UpdateRecord, Continues
  <2>2. \/ r.at = "createRecord" /\ to[1] = "received" /\ to[2] = "auditReceived"
        \/ r.at = "recordRunning" /\ to[1] = "running" /\ to[2] = "auditRunning"
        \/ r.at = "recordSucceeded" /\ to[1] = "succeeded" /\ to[2] = "auditSucceeded"
        \/ r.at = "recordMissing" /\ to[1] = "failed" /\ to[2] = "auditMissing"
        \/ r.at = "recordBroken" /\ to[1] = "failed" /\ to[2] = "auditBroken"
        \/ r.at = "recordFailed" /\ to[1] = "failed" /\ to[2] = "auditFailed"
    BY <1>1, UpdatesAre
  <2> HIDE DEF to
  <2>3. /\ d \in Request /\ d.at = to[2] /\ d.record = to[1]
        /\ d.audit = r.audit /\ d.stored = r.stored /\ d.gone = r.gone
    BY <1>1, <2>2 DEF Request, BeforeStream, Creating, InStream, CatchSteps
  <2> HIDE DEF d
  <2>4. WentWrong' = WentWrong
    BY <1>1, <2>1, <2>3, WrongIsKept
  <2>5. RequestKnown(d, WentWrong)
    BY <1>1, <2>2, <2>3 DEF RequestKnown, CatchSteps
  <2> QED
    BY <1>1, <2>1, <2>3, <2>4, <2>5, RequestMoves
<1> QED
  BY <1>2, <1>3

LEMMA EventWritten ==
  ASSUME RequestInv, AuditRequest
  PROVE  RequestInv'
<1> DEFINE r == request
           to == Audits[r.at]
           d == [[r EXCEPT !.audit = @ \cup {to[1]}] EXCEPT !.at = to[2]]
<1>1. /\ r \in Request /\ RequestKnown(r, WentWrong) /\ r.at \in DOMAIN Audits /\ request' = d
      /\ UNCHANGED <<recorded, run, result, answer, dbFailures>> /\ WentWrong \in Nat /\ dbFailures' \in Nat
  BY WrongIsCounted DEF RequestInv, AuditRequest, delegationVars, Continues
<1>2. \/ r.at = "auditReceived" /\ to[1] = "run_request.received" /\ to[2] = "auditRequest"
      \/ r.at = "auditRequest" /\ to[1] = "chathub.request_received" /\ to[2] = "conversation"
      \/ r.at = "auditRunning" /\ to[1] = "run_request.running" /\ to[2] = "auditDecided"
      \/ r.at = "auditDecided" /\ to[1] = "chathub.route_decided" /\ to[2] = "start"
      \/ r.at = "auditSucceeded" /\ to[1] = "run_request.succeeded" /\ to[2] = "auditCompleted"
      \/ r.at = "auditCompleted" /\ to[1] = "chathub.response_completed" /\ to[2] = "done"
      \/ r.at = "auditMissing" /\ to[1] = "run_request.failed" /\ to[2] = "over"
      \/ r.at = "auditBroken" /\ to[1] = "run_request.failed" /\ to[2] = "auditResponse"
      \/ r.at = "auditResponse" /\ to[1] = "chathub.response_failed" /\ to[2] = "doneBroken"
      \/ r.at = "auditFailed" /\ to[1] = "run_request.failed" /\ to[2] = "auditOuter"
      \/ r.at = "auditOuter" /\ to[1] = "chathub.response_failed" /\ to[2] = "over"
  BY <1>1, AuditsAre
<1> HIDE DEF to
<1>3. /\ d \in Request /\ d.at = to[2] /\ d.record = r.record
      /\ d.audit = r.audit \cup {to[1]} /\ d.stored = r.stored /\ d.gone = r.gone
  BY <1>1, <1>2 DEF Request, BeforeStream, Creating, InStream, CatchSteps
<1> HIDE DEF d
<1>4. WentWrong' = WentWrong
  BY <1>1, <1>3, WrongIsKept
<1>5. RequestKnown(d, WentWrong)
  BY <1>1, <1>2, <1>3 DEF RequestKnown, CatchSteps, Failed
<1> QED
  BY <1>1, <1>3, <1>4, <1>5, RequestMoves

LEMMA MessageStored ==
  ASSUME RequestInv, StoreMessage
  PROVE  RequestInv'
<1> DEFINE r == request
           to == Messages[r.at]
           d == [[r EXCEPT !.stored = @ \cup to[1]] EXCEPT !.at = to[2]]
<1>1. /\ r \in Request /\ RequestKnown(r, WentWrong) /\ r.at \in DOMAIN Messages /\ request' = d
      /\ UNCHANGED <<recorded, run, result, answer, dbFailures>> /\ WentWrong \in Nat /\ dbFailures' \in Nat
  BY WrongIsCounted DEF RequestInv, StoreMessage, delegationVars, Continues
<1>2. \/ r.at = "userMessage" /\ to[1] = {} /\ to[2] = "history"
      \/ r.at = "history" /\ to[1] = {} /\ to[2] = "recordRunning"
      \/ r.at = "storeAnswer" /\ to[1] = {"complete"} /\ to[2] = "recordSucceeded"
      \/ r.at = "storeIncomplete" /\ to[1] = {"incomplete"} /\ to[2] = "recordBroken"
  BY <1>1, MessagesAre
<1> HIDE DEF to
<1>3. /\ d \in Request /\ d.at = to[2] /\ d.record = r.record
      /\ d.audit = r.audit /\ d.stored = r.stored \cup to[1] /\ d.gone = r.gone
  BY <1>1, <1>2 DEF Request, BeforeStream, Creating, InStream, CatchSteps
<1> HIDE DEF d
<1>4. WentWrong' = WentWrong
  BY <1>1, <1>3, WrongIsKept
<1>5. RequestKnown(d, WentWrong)
  BY <1>1, <1>2, <1>3 DEF RequestKnown, CatchSteps
<1> QED
  BY <1>1, <1>3, <1>4, <1>5, RequestMoves

\* An error goes to where RequestKnown allows it: only a second one leaves a catch
\* block, or the last event, after the record is written.
LEMMA ErrorIsCaught ==
  ASSUME RequestInv, NEW r \in Request, NEW wrong \in Nat, wrong >= 1,
         r.at = request.at, r.record = request.record, r.audit = request.audit,
         r.stored = request.stored, r.at # "over",
         r.at \in CatchSteps => wrong >= 2 \/ r.at = "doneBroken"
  PROVE  [r EXCEPT !.at = Caught(r)] \in Request /\ RequestKnown([r EXCEPT !.at = Caught(r)], wrong)
<1> DEFINE e == [r EXCEPT !.at = Caught(r)]
<1>1. \/ r.at \in BeforeStream /\ Caught(r) = "recordFailed"
      \/ r.at \in InStream /\ Caught(r) \in {"storeIncomplete", "recordBroken"}
      \/ r.at \in CatchSteps /\ Caught(r) = "over"
  BY DEF Request, Caught, CaughtInStream, BeforeStream, Creating, InStream, CatchSteps
<1> DEFINE c == Caught(r)
<1>2. c \in {"recordFailed", "storeIncomplete", "recordBroken", "over"}
  BY <1>1
<1>3. RequestKnown(request, WentWrong)
  BY DEF RequestInv
<1> HIDE DEF c
<1>4. [r EXCEPT !.at = c] \in Request
  BY <1>2 DEF Request, BeforeStream, Creating, InStream, CatchSteps
<1>5. /\ e \in Request /\ e.at = c /\ e.record = r.record
      /\ e.audit = r.audit /\ e.stored = r.stored
  BY <1>4 DEF c, Request
<1> SUFFICES RequestKnown(e, wrong)
  BY <1>5
<1> HIDE DEF e
<1>6. CASE r.at \in BeforeStream /\ c = "recordFailed"
  BY <1>3, <1>5, <1>6 DEF RequestKnown, BeforeStream, Creating, CatchSteps
<1>7. CASE r.at \in InStream /\ c \in {"storeIncomplete", "recordBroken"}
  BY <1>3, <1>5, <1>7 DEF RequestKnown, InStream, CatchSteps
<1>8. CASE r.at \in CatchSteps /\ c = "over"
  BY <1>3, <1>5, <1>8 DEF RequestKnown, CatchSteps, Failed
<1> QED
  BY <1>1, <1>6, <1>7, <1>8 DEF c

LEMMA ConversationFound ==
  ASSUME RequestInv, FindConversation
  PROVE  RequestInv'
<1>1. PICK step \in {"userMessage", "recordMissing"} : request' = [request EXCEPT !.at = step]
  BY DEF FindConversation, Continues
<1> DEFINE d == [request EXCEPT !.at = step]
<1>2. /\ request \in Request /\ RequestKnown(request, WentWrong) /\ request.at = "conversation"
      /\ UNCHANGED <<recorded, run, result, answer, dbFailures>> /\ WentWrong \in Nat /\ dbFailures' \in Nat
  BY WrongIsCounted DEF RequestInv, FindConversation, Doing, delegationVars
<1>3. /\ d \in Request /\ d.at = step /\ d.record = request.record
      /\ d.audit = request.audit /\ d.stored = request.stored /\ d.gone = request.gone
  BY <1>2 DEF Request, BeforeStream, Creating
<1>4. request' = d
  BY <1>1
<1> HIDE DEF d
<1>5. WentWrong' = WentWrong
  BY <1>2, <1>3, <1>4, WrongIsKept
<1>6. RequestKnown(d, WentWrong)
  BY <1>2, <1>3 DEF RequestKnown, CatchSteps
<1> QED
  BY <1>2, <1>3, <1>4, <1>5, <1>6, RequestMoves

LEMMA FailureCaught ==
  ASSUME RequestInv, RequestFails
  PROVE  RequestInv'
<1> DEFINE d == [request EXCEPT !.at = Caught(request)]
<1>1. /\ request \in Request /\ RequestKnown(request, WentWrong) /\ request' = d
      /\ UNCHANGED <<recorded, run, result, answer>> /\ dbFailures' = dbFailures + 1
      /\ WentWrong \in Nat /\ dbFailures \in Nat
  BY WrongIsCounted DEF RequestInv, RequestFails, Continues
<1>2. request.at \notin {"over", "doneBroken"}
  BY UpdatesAre, AuditsAre, MessagesAre DEF RequestFails, InRequestStatement, Doing
<1>3. d.gone = request.gone
  BY <1>1 DEF Request
<1>4. WentWrong' = WentWrong + 1
  BY <1>1, <1>3 DEF WentWrong
<1>5. request.at \in CatchSteps => WentWrong' >= 2
  BY <1>1, <1>4 DEF RequestKnown
<1>6. WentWrong' \in Nat /\ WentWrong' >= 1
  BY <1>1, <1>4
<1>7. d \in Request /\ RequestKnown(d, WentWrong')
  BY <1>1, <1>2, <1>5, <1>6, ErrorIsCaught
<1> HIDE DEF d
<1> QED
  BY <1>1, <1>7, RequestMoves

\* What is sent arrives, or the client has gone.
LEMMA EventSent ==
  ASSUME RequestInv, NEW r \in Request, NEW step, Send(r, step), UNCHANGED delegationVars,
         r.at = request.at, r.record = request.record, r.audit = request.audit,
         r.stored = request.stored, r.gone = request.gone, r.at # "over",
         r.at \in CatchSteps => r.at = "doneBroken",
         [r EXCEPT !.at = step] \in Request, RequestKnown([r EXCEPT !.at = step], WentWrong)
  PROVE  RequestInv'
<1>1. UNCHANGED <<recorded, run, result, answer, dbFailures>> /\ WentWrong \in Nat /\ dbFailures' \in Nat
  BY WrongIsCounted DEF delegationVars
<1>2. CASE ~r.gone
  <2> DEFINE d == [r EXCEPT !.at = step]
  <2>1. request' = d
    BY <1>2 DEF Send, Continues
  <2>2. d.gone = request.gone
    BY DEF Request
  <2>3. d \in Request /\ RequestKnown(d, WentWrong)
    OBVIOUS
  <2> HIDE DEF d
  <2>4. WentWrong' = WentWrong
    BY <1>1, <2>1, <2>2, WrongIsKept
  <2> QED
    BY <1>1, <2>1, <2>3, <2>4, RequestMoves
<1>3. CASE r.gone
  <2> DEFINE d == [r EXCEPT !.at = Caught(r)]
  <2>1. request' = d
    BY <1>3 DEF Send, Continues
  <2>2. d.gone = request.gone
    BY DEF Request
  <2>3. WentWrong >= 1
    BY <1>1, <1>3, WrongIsCounted DEF WentWrong
  <2>4. d \in Request /\ RequestKnown(d, WentWrong)
    BY <1>1, <2>3, ErrorIsCaught
  <2> HIDE DEF d
  <2>5. WentWrong' = WentWrong
    BY <1>1, <2>1, <2>2, WrongIsKept
  <2> QED
    BY <1>1, <2>1, <2>4, <2>5, RequestMoves
<1>4. r.gone \in BOOLEAN
  BY DEF Request
<1> QED
  BY <1>2, <1>3, <1>4

LEMMA StreamMoves ==
  ASSUME RequestInv, StartStream \/ AgentsAnswer \/ SendAnswer \/ ModelYields
  PROVE  RequestInv'
<1> DEFINE full == [request EXCEPT !.content = TRUE]
<1>1. request \in Request /\ RequestKnown(request, WentWrong) /\ UNCHANGED delegationVars
  BY DEF RequestInv, StartStream, AgentsAnswer, SendAnswer, ModelYields
<1>2. PICK r \in {request, full}, step \in {"agents", "agent", "model", "deltas", "storeAnswer"} :
        Send(r, step) /\ request.at \in {"start", "agents", "agent", "deltas", "model"}
  <2>1. request.mode \in {"agents", "agent", "model"}
    BY <1>1 DEF Request
  <2> QED
    BY <2>1 DEF StartStream, AgentsAnswer, SendAnswer, ModelYields, Doing
<1>3. /\ r \in Request /\ r.at = request.at /\ r.record = request.record /\ r.audit = request.audit
      /\ r.stored = request.stored /\ r.gone = request.gone
  BY <1>1, <1>2 DEF Request
<1> HIDE DEF full
<1> DEFINE d == [r EXCEPT !.at = step]
<1>4. /\ d \in Request /\ d.at = step /\ d.record = r.record /\ d.audit = r.audit /\ d.stored = r.stored
  BY <1>2, <1>3 DEF Request, InStream
<1>5. r.at \notin CatchSteps /\ r.at # "over"
  BY <1>2, <1>3 DEF CatchSteps
<1>6. RequestKnown(d, WentWrong)
  <2> HIDE DEF d
  <2> QED
    BY <1>1, <1>2, <1>3, <1>4 DEF RequestKnown, CatchSteps
<1> QED
  BY <1>1, <1>2, <1>3, <1>4, <1>5, <1>6, EventSent

LEMMA ModelIsOver ==
  ASSUME RequestInv, ModelEnds
  PROVE  RequestInv'
<1> DEFINE broken == [request EXCEPT !.broken = TRUE]
           next == IF request.content THEN "storeAnswer" ELSE "recordSucceeded"
<1>1. /\ request \in Request /\ RequestKnown(request, WentWrong) /\ request.at = "model"
      /\ UNCHANGED <<recorded, run, result, answer, dbFailures>> /\ UNCHANGED delegationVars
      /\ WentWrong \in Nat /\ dbFailures' \in Nat
  BY WrongIsCounted DEF RequestInv, ModelEnds, Doing, delegationVars
<1>2. next \in {"storeAnswer", "recordSucceeded"}
  OBVIOUS
<1>3. Continues(request, next) \/ Send(broken, next)
  BY DEF ModelEnds
<1> HIDE DEF next
<1>4. \A r \in {request, broken} :
        /\ r \in Request /\ r.at = request.at /\ r.record = request.record /\ r.audit = request.audit
        /\ r.stored = request.stored /\ r.gone = request.gone
  BY <1>1 DEF Request
<1> HIDE DEF broken
<1>5. ASSUME NEW r \in {request, broken}
      PROVE  [r EXCEPT !.at = next] \in Request /\ RequestKnown([r EXCEPT !.at = next], WentWrong)
  <2> DEFINE d == [r EXCEPT !.at = next]
  <2>1. r \in Request /\ r.record = request.record /\ r.audit = request.audit /\ r.stored = request.stored
    BY <1>4
  <2>2. /\ d \in Request /\ d.at = next /\ d.record = r.record /\ d.audit = r.audit /\ d.stored = r.stored
    BY <1>2, <2>1 DEF Request, InStream
  <2> HIDE DEF d
  <2>3. RequestKnown(d, WentWrong)
    BY <1>1, <1>2, <2>1, <2>2 DEF RequestKnown, CatchSteps
  <2> QED
    BY <2>2, <2>3 DEF d
<1>6. CASE Continues(request, next)
  <2> DEFINE d == [request EXCEPT !.at = next]
  <2>1. request' = d /\ d.gone = request.gone
    BY <1>1, <1>6 DEF Continues, Request
  <2>2. d \in Request /\ RequestKnown(d, WentWrong)
    BY <1>5
  <2> HIDE DEF d
  <2>3. WentWrong' = WentWrong
    BY <1>1, <2>1, WrongIsKept
  <2> QED
    BY <1>1, <2>1, <2>2, <2>3, RequestMoves
<1>7. CASE Send(broken, next)
  <2>1. request.at \notin CatchSteps /\ request.at # "over"
    BY <1>1 DEF CatchSteps
  <2> QED
    BY <1>1, <1>4, <1>5, <1>7, <2>1, EventSent
<1> QED
  BY <1>3, <1>6, <1>7

LEMMA DoneSent ==
  ASSUME RequestInv, SendDone
  PROVE  RequestInv'
<1> DEFINE d == [request EXCEPT !.at = "over"]
<1>1. /\ request \in Request /\ RequestKnown(request, WentWrong) /\ request.at \in {"done", "doneBroken"}
      /\ Send(request, "over") /\ UNCHANGED delegationVars
  BY DEF RequestInv, SendDone, Doing
<1>2. /\ d \in Request /\ d.at = "over" /\ d.record = request.record
      /\ d.audit = request.audit /\ d.stored = request.stored
  BY <1>1 DEF Request
<1>3. request.at \in CatchSteps => request.at = "doneBroken"
  BY <1>1 DEF CatchSteps
<1>4. RequestKnown(d, WentWrong)
  <2> HIDE DEF d
  <2>1. request.stored \subseteq {"complete", "incomplete"}
    BY <1>1 DEF Request
  <2> QED
    BY <1>1, <1>2, <2>1 DEF RequestKnown, CatchSteps, Failed
<1> QED
  BY <1>1, <1>2, <1>3, <1>4, EventSent

LEMMA ClientGone ==
  ASSUME RequestInv, ClientGoes
  PROVE  RequestInv'
<1> DEFINE d == [request EXCEPT !.gone = TRUE]
<1>1. /\ request \in Request /\ RequestKnown(request, WentWrong) /\ request' = d /\ request.at # "over"
      /\ ~request.gone /\ UNCHANGED <<recorded, run, result, answer, dbFailures>>
      /\ WentWrong \in Nat /\ dbFailures \in Nat
  BY WrongIsCounted DEF RequestInv, ClientGoes, delegationVars
<1>2. /\ d \in Request /\ d.at = request.at /\ d.record = request.record
      /\ d.audit = request.audit /\ d.stored = request.stored /\ d.gone
  BY <1>1 DEF Request
<1> HIDE DEF d
<1>3. WentWrong' = WentWrong + 1
  BY <1>1, <1>2 DEF WentWrong
<1>4. RequestKnown(d, WentWrong')
  BY <1>1, <1>2, <1>3 DEF RequestKnown, Failed
<1> QED
  BY <1>1, <1>2, <1>4, RequestMoves

LEMMA RequestRests ==
  ASSUME RequestInv, UNCHANGED request, DelegationInv',
         dbFailures' = dbFailures \/ (dbFailures' = dbFailures + 1 /\ request.at = "agents")
  PROVE  RequestInv'
<1>1. /\ request \in Request /\ RequestKnown(request, WentWrong)
      /\ WentWrong \in Nat /\ dbFailures \in Nat
  BY WrongIsCounted DEF RequestInv
<1>2. RequestKnown(request, WentWrong')
  <2>1. CASE dbFailures' = dbFailures
    BY <1>1, <2>1 DEF WentWrong
  <2>2. CASE dbFailures' = dbFailures + 1 /\ request.at = "agents"
    <3>1. WentWrong' = WentWrong + 1
      BY <1>1, <2>2 DEF WentWrong
    <3> QED
      BY <1>1, <2>2, <3>1 DEF RequestKnown, CatchSteps
  <2> QED
    BY <2>1, <2>2
<1> QED
  BY <1>1, <1>2 DEF RequestInv

LEMMA NextKeeps ==
  ASSUME RequestInv, [RequestNext]_requestVars
  PROVE  RequestInv'
<1>0. DelegationInv
  BY DEF RequestInv
<1>1. CASE UpdateRecord \/ AuditRequest \/ StoreMessage \/ FindConversation
  BY <1>1, RecordUpdated, EventWritten, MessageStored, ConversationFound
<1>2. CASE StartStream \/ AgentsAnswer \/ SendAnswer \/ ModelYields \/ ModelEnds \/ SendDone
  BY <1>2, StreamMoves, ModelIsOver, DoneSent
<1>3. CASE RequestFails \/ ClientGoes
  BY <1>3, FailureCaught, ClientGone
<1>4. CASE HandlerStops
  <2>1. DelegationInv'
    BY <1>0, <1>4 DEF HandlerStops, DelegationInv, DelegationTypeOK, RunsKnown
  <2> QED
    BY <1>4, <2>1, RequestRests DEF HandlerStops
<1>5. CASE Doing("agents") /\ DelegationStep /\ UNCHANGED request
  <2>1. DelegationInv'
    BY <1>0, <1>5, RoundStarts, ResultsReturned, AgentTurns, StatementEnds DEF DelegationStep
  <2>2. UNCHANGED dbFailures
    BY <1>5 DEF DelegationStep, StartRound, ReturnResults, ToolWithheld, ModelAnswers, Statement
  <2> QED
    BY <1>5, <2>1, <2>2, RequestRests
<1>6. CASE Doing("agents") /\ DelegationBreaks /\ UNCHANGED request
  <2>1. CASE ProcessStops
    <3>1. DelegationInv'
      BY <1>0, <2>1 DEF ProcessStops, DelegationInv, DelegationTypeOK, RunsKnown
    <3> QED
      BY <1>6, <2>1, <3>1, RequestRests DEF ProcessStops
  <2>2. CASE \E i \in Limited : StatementFails(i)
    <3>1. DelegationInv'
      BY <1>0, <2>2, StatementBreaks
    <3>2. dbFailures' = dbFailures + 1
      BY <2>2 DEF StatementFails
    <3> QED
      BY <1>6, <3>1, <3>2, RequestRests DEF Doing
  <2> QED
    BY <1>6, <2>1, <2>2 DEF DelegationBreaks
<1>7. CASE UNCHANGED requestVars
  <2>1. DelegationInv' /\ UNCHANGED <<request, dbFailures>>
    BY <1>0, <1>7 DEF requestVars, delegationVars, DelegationInv, DelegationTypeOK, RunsKnown
  <2> QED
    BY <2>1, RequestRests
<1> QED
  BY <1>1, <1>2, <1>3, <1>4, <1>5, <1>6, <1>7 DEF RequestNext, RequestStep

LEMMA InvHolds == RequestSpec => []RequestInv
<1>1. RequestInit => RequestInv
  BY RequestStarts
<1>2. RequestInv /\ [RequestNext]_requestVars => RequestInv'
  BY NextKeeps
<1> QED
  BY <1>1, <1>2, PTL DEF RequestSpec

-----------------------------------------------------------------------------
(* Theorems *)

\* A run whose record says "completed" has what makes its withheld tools
\* approvable, and a subtask answered as completed has such a record
\* (recorded-task-executor.ts): for any number of subtasks, any dependencies
\* between them and any number of failures.
THEOREM CompletedRunStaysWhole == RequestSpec => []CompletedRunIsWhole
<1>1. RequestInv => CompletedRunIsWhole
  BY DEF RequestInv, DelegationInv, RunsKnown, RunKnown, CompletedRunIsWhole
<1> QED
  BY <1>1, InvHolds, PTL

\* One failure, or a client that goes, leaves no request of POST /api/chat half
\* recorded (the two catch blocks of route.ts): for any number of subtasks, any
\* dependencies between them and any number of turns of their agents.
THEOREM OneFailureStaysRecorded == RequestSpec => []OneFailureIsRecorded
<1>1. RequestInv => OneFailureIsRecorded
  BY DEF RequestInv, RequestKnown, Failed, OneFailureIsRecorded
<1> QED
  BY <1>1, InvHolds, PTL

-----------------------------------------------------------------------------
(* Agent threads: a number is safe because nothing that a thread's counter or a call
   remembers is ever more than the turns there are, so that the unique index
   leaves only the next number. *)

Statements == {"idle", "findSession", "createSession", "findThread", "createThread",
               "readThread", "readTurns", "insertTurn", "writeLatest", "transaction"}

Call == [at: Statements, moment: Moment \cup {Unused}, pair: Pair \cup {<<>>},
         session: Nat, thread: Thread \cup {Unused}, number: Nat]

ThreadTypeOK ==
  /\ thread \in [Thread -> ThreadRow \cup {Unused}]
  /\ turns \in [Thread -> Seq(Nat)]
  /\ session \in Seq(Moment \cup {Unused})
  /\ talk \in [Speaker -> Call]

\* The column is never ahead of the turns.
LatestBehind ==
  \A t \in Thread : IF Exists(t) THEN thread[t].latest <= Len(turns[t]) ELSE turns[t] = <<>>

\* A call's number is at most the next one; once its turn is written, it is taken.
CallKnown(c) ==
  /\ c.at \in {"findSession", "createSession", "findThread", "createThread"} => c.pair \in Pair
  /\ c.at \in {"readThread", "readTurns"} => c.thread \in Thread
  /\ c.at \in {"insertTurn", "transaction"} =>
       /\ c.thread \in Thread /\ Exists(c.thread)
       /\ 1 <= c.number /\ c.number <= Len(turns[c.thread]) + 1
  /\ c.at = "writeLatest" =>
       c.thread \in Thread /\ Exists(c.thread) /\ c.number <= Len(turns[c.thread])

CallsKnown == \A w \in Speaker : CallKnown(talk[w])

ThreadInv == ThreadTypeOK /\ LatestBehind /\ CallsKnown /\ TurnsInOrder

-----------------------------------------------------------------------------
(* A number that the index accepts is the next one *)

LEMMA NextIsUntaken ==
  ASSUME ThreadInv, NEW t \in Thread, NEW n \in Nat, 1 <= n, n <= Len(turns[t]) + 1, ~Taken(t, n)
  PROVE  n = Len(turns[t]) + 1
<1>1. turns[t] \in Seq(Nat)
  BY DEF ThreadInv, ThreadTypeOK
<1>2. SUFFICES ASSUME n <= Len(turns[t])
               PROVE  FALSE
  BY <1>1
<1>3. n \in DOMAIN turns[t] /\ turns[t][n] = n
  BY <1>1, <1>2 DEF ThreadInv, TurnsInOrder
<1> QED
  BY <1>3 DEF Taken

\* nextTurnSeq over turns that are in order is one more than how many there are.
LEMMA NextTurnSeqIsNext ==
  ASSUME ThreadInv, NEW t \in Thread
  PROVE  NextTurnSeq(t) = Len(turns[t]) + 1
<1> DEFINE s == turns[t]
           numbers == {s[i] : i \in DOMAIN s}
           greatest(n) == \A i \in DOMAIN s : s[i] <= n
           chosen == CHOOSE n \in numbers : greatest(n)
<1>1. s \in Seq(Nat) /\ \A i \in DOMAIN s : s[i] = i
  BY DEF ThreadInv, ThreadTypeOK, TurnsInOrder
<1>2. CASE s = <<>>
  BY <1>2 DEF NextTurnSeq
<1>3. CASE s # <<>>
  <2>1. Len(s) \in Nat \ {0} /\ DOMAIN s = 1..Len(s)
    BY <1>1, <1>3
  <2>2. Len(s) \in numbers /\ greatest(Len(s))
    <3>1. Len(s) \in DOMAIN s
      BY <2>1
    <3>2. s[Len(s)] = Len(s)
      BY <3>1, <1>1
    <3> QED
      BY <3>1, <3>2, <2>1, <1>1
  <2>3. ASSUME NEW n \in numbers, greatest(n)
        PROVE  n = Len(s)
    <3>1. PICK i \in DOMAIN s : n = s[i]
      OBVIOUS
    <3>2. n = i /\ i \in 1..Len(s)
      BY <3>1, <1>1, <2>1
    <3>3. s[Len(s)] <= n
      BY <2>1, <2>3
    <3> QED
      BY <3>2, <3>3, <1>1, <2>1
  <2>4. chosen = Len(s)
    <3> HIDE DEF numbers, greatest
    <3> QED
      BY <2>2, <2>3
  <2>5. NextTurnSeq(t) = 1 + chosen
    BY <1>3 DEF NextTurnSeq
  <2> QED
    <3> HIDE DEF chosen
    <3> QED
      BY <2>4, <2>5, <2>1
<1> QED
  BY <1>2, <1>3

-----------------------------------------------------------------------------
(* Calls *)

LEMMA CallsKept ==
  ASSUME ThreadInv, NEW w \in Speaker, NEW c \in Call, CallKnown(c),
         talk' = [talk EXCEPT ![w] = c], UNCHANGED <<thread, turns>>, session' \in Seq(Moment \cup {Unused})
  PROVE  ThreadInv'
<1>1. ThreadTypeOK'
  BY DEF ThreadInv, ThreadTypeOK
<1>2. LatestBehind' /\ TurnsInOrder'
  BY DEF ThreadInv, LatestBehind, TurnsInOrder, Exists
<1>3. CallsKnown'
  <2> SUFFICES ASSUME NEW v \in Speaker
               PROVE  CallKnown(talk[v])'
    BY DEF CallsKnown
  <2>1. talk'[v] = c \/ talk'[v] = talk[v]
    BY DEF ThreadInv, ThreadTypeOK
  <2>2. CallKnown(talk[v])
    BY DEF ThreadInv, CallsKnown
  <2> QED
    BY <2>1, <2>2 DEF CallKnown, Exists
<1> QED
  BY <1>1, <1>2, <1>3 DEF ThreadInv

LEMMA SilentIsCall == Silent \in Call /\ CallKnown(Silent)
BY DEF Silent, Call, Statements, CallKnown

LEMMA TalkIsCall == ASSUME ThreadInv, NEW w \in Speaker PROVE talk[w] \in Call /\ CallKnown(talk[w])
BY DEF ThreadInv, ThreadTypeOK, CallsKnown

LEMMA InitHolds == ASSUME ThreadInit PROVE ThreadInv
<1>1. ThreadTypeOK
  BY SilentIsCall DEF ThreadInit, ThreadTypeOK
<1>2. LatestBehind /\ TurnsInOrder
  BY DEF ThreadInit, LatestBehind, TurnsInOrder, Exists
<1>3. CallsKnown
  BY SilentIsCall DEF ThreadInit, CallsKnown
<1> QED
  BY <1>1, <1>2, <1>3 DEF ThreadInv

-----------------------------------------------------------------------------
(* Steps that write no thread and no turn *)

LEMMA ThenIs ==
  /\ Then["findSession"] = "createSession" /\ Then["createSession"] = "findThread"
  /\ Then["findThread"] = "createThread" /\ Then["createThread"] = "insertTurn"
  /\ Then["readThread"] = "insertTurn" /\ Then["insertTurn"] = "writeLatest"
  /\ Then["writeLatest"] = "idle"
  /\ Then["readTurns"] = "transaction" /\ Then["transaction"] = "idle"
BY DEF Then

LEMMA AtSet ==
  ASSUME NEW c \in Call, NEW s \in Statements
  PROVE  LET d == [c EXCEPT !.at = s] IN
         /\ d \in Call /\ d.at = s
         /\ d.pair = c.pair /\ d.thread = c.thread /\ d.number = c.number
BY DEF Call

\* A call that goes on writes nothing that is not known of it.
LEMMA Proceeds ==
  ASSUME ThreadInv, NEW w \in Speaker, NEW c \in Call, NEW s \in Statements,
         Then[c.at] = s, Proceed(w, c),
         s \in {"createSession", "findThread", "createThread"} => c.pair \in Pair,
         s \in {"readThread", "readTurns"} => c.thread \in Thread,
         s \in {"insertTurn", "transaction"} =>
           c.thread \in Thread /\ Exists(c.thread) /\ 1 <= c.number /\ c.number <= Len(turns[c.thread]) + 1,
         s \notin {"findSession", "writeLatest"},
         UNCHANGED <<thread, turns>>, session' \in Seq(Moment \cup {Unused})
  PROVE  ThreadInv'
<1> DEFINE d == [c EXCEPT !.at = s]
<1>1. d \in Call /\ d.at = s /\ d.pair = c.pair /\ d.thread = c.thread /\ d.number = c.number
  BY AtSet
<1>2. talk' = [talk EXCEPT ![w] = Silent] \/ talk' = [talk EXCEPT ![w] = d]
  BY DEF Proceed
<1> HIDE DEF d
<1>3. CallKnown(d)
  BY <1>1 DEF CallKnown
<1> QED
  BY <1>1, <1>2, <1>3, SilentIsCall, CallsKept

LEMMA CallStarts ==
  ASSUME ThreadInv, NEW w \in Speaker,
         \/ \E m \in Moment, pair \in Pair : Collaborate(w, m, pair)
         \/ \E t \in Thread : Reply(w, t) \/ HumanTurn(w, t)
  PROVE  ThreadInv'
<1>1. UNCHANGED <<thread, turns>> /\ session' \in Seq(Moment \cup {Unused})
  BY DEF Collaborate, Reply, HumanTurn, ThreadInv, ThreadTypeOK
<1>2. ASSUME NEW m \in Moment, NEW pair \in Pair, Collaborate(w, m, pair)
      PROVE  ThreadInv'
  <2> DEFINE c == [Silent EXCEPT !.at = "findSession", !.moment = m, !.pair = pair]
  <2>1. c \in Call /\ CallKnown(c)
    BY DEF Silent, Call, Statements, CallKnown
  <2> QED
    BY <1>1, <1>2, <2>1, CallsKept DEF Collaborate
<1>3. ASSUME NEW t \in Thread, NEW s \in {"readThread", "readTurns"},
             talk' = [talk EXCEPT ![w] = [Silent EXCEPT !.at = s, !.thread = t]]
      PROVE  ThreadInv'
  <2> DEFINE c == [Silent EXCEPT !.at = s, !.thread = t]
  <2>1. c \in Call /\ CallKnown(c)
    BY <1>3 DEF Silent, Call, Statements, CallKnown
  <2> QED
    BY <1>1, <1>3, <2>1, CallsKept
<1> QED
  BY <1>2, <1>3 DEF Reply, HumanTurn

LEMMA CallEnds ==
  ASSUME ThreadInv, NEW w \in Speaker, Throw(w), UNCHANGED <<thread, turns>>, session' \in Seq(Moment \cup {Unused})
  PROVE  ThreadInv'
BY SilentIsCall, CallsKept DEF Throw

LEMMA FindsSession ==
  ASSUME ThreadInv, NEW w \in Speaker, FindSession(w) \/ CreateSession(w)
  PROVE  ThreadInv'
<1>1. talk[w] \in Call /\ session \in Seq(Moment \cup {Unused}) /\ UNCHANGED <<thread, turns>>
  BY TalkIsCall DEF ThreadInv, ThreadTypeOK, FindSession, CreateSession
<1>2. session' \in Seq(Moment \cup {Unused})
  BY <1>1 DEF FindSession, CreateSession, Call
<1> DEFINE pair == talk[w].pair
<1>3. pair \in Pair
  BY TalkIsCall DEF FindSession, CreateSession, Awaits, CallKnown
<1>4. CASE FindSession(w) /\ Proceed(w, talk[w])
  BY <1>1, <1>2, <1>4, <1>3, ThenIs, Proceeds DEF FindSession, Awaits, Statements
<1>5. ASSUME FindSession(w), NEW i \in DOMAIN session, Found(w, [talk[w] EXCEPT !.session = i])
      PROVE  ThreadInv'
  <2> DEFINE c == [talk[w] EXCEPT !.session = i]
             d == [c EXCEPT !.at = Then[@]]
  <2>1. c \in Call /\ c.at = "findSession" /\ c.pair = pair
    BY <1>1, <1>5 DEF Call, FindSession, Awaits
  <2>3. Proceed(w, d)
    BY <1>5 DEF Found
  <2> HIDE DEF c
  <2>2. d = [c EXCEPT !.at = "createSession"]
    BY <2>1, ThenIs
  <2> HIDE DEF d
  <2>4. d \in Call /\ d.at = "createSession" /\ d.pair = pair
    BY <2>1, <2>2, AtSet DEF Statements
  <2> QED
    BY <1>1, <1>2, <1>3, <2>3, <2>4, ThenIs, Proceeds DEF Statements
<1>6. CASE CreateSession(w)
  <2> DEFINE c == [talk[w] EXCEPT !.session = Len(session')]
  <2>1. c \in Call /\ c.at = "createSession" /\ c.pair = pair /\ Proceed(w, c)
    BY <1>1, <1>2, <1>6 DEF Call, CreateSession, Awaits
  <2> HIDE DEF c
  <2> QED
    BY <1>1, <1>2, <1>3, <2>1, ThenIs, Proceeds DEF Statements
<1> QED
  BY <1>4, <1>5, <1>6 DEF FindSession

LEMMA ReadsThread ==
  ASSUME ThreadInv, NEW w \in Speaker, ReadThread(w) \/ ReadTurns(w)
  PROVE  ThreadInv'
<1> DEFINE t == talk[w].thread
<1>1. talk[w] \in Call /\ t \in Thread
  BY TalkIsCall DEF ReadThread, ReadTurns, Awaits, CallKnown
<1>2. UNCHANGED <<thread, turns>> /\ session' \in Seq(Moment \cup {Unused})
  BY DEF ReadThread, ReadTurns, ThreadInv, ThreadTypeOK
<1>3. Len(turns[t]) \in Nat
  BY <1>1 DEF ThreadInv, ThreadTypeOK
<1>4. CASE Throw(w)
  BY <1>2, <1>4, CallEnds
<1>5. ASSUME NEW n \in Nat, 1 <= n, n <= Len(turns[t]) + 1, Exists(t),
             Proceed(w, [talk[w] EXCEPT !.number = n]), Awaits(w, "readThread") \/ Awaits(w, "readTurns")
      PROVE  ThreadInv'
  <2> DEFINE c == [talk[w] EXCEPT !.number = n]
  <2>1. c \in Call /\ c.at \in {"readThread", "readTurns"} /\ c.thread = t /\ c.number = n
    BY <1>1, <1>5 DEF Call, Awaits
  <2> HIDE DEF c, t
  <2>2. Then[c.at] \in {"insertTurn", "transaction"}
    BY <2>1, ThenIs
  <2>3. Proceed(w, c)
    BY <1>5 DEF c
  <2> QED
    BY <1>1, <1>2, <1>5, <2>1, <2>2, <2>3, Proceeds DEF Statements
<1>6. CASE ReadThread(w) /\ Exists(t)
  <2> DEFINE n == thread[t].latest + 1
  <2>1. n \in Nat /\ 1 <= n /\ n <= Len(turns[t]) + 1
    BY <1>1, <1>3, <1>6 DEF ThreadInv, ThreadTypeOK, LatestBehind, ThreadRow, Exists
  <2>2. Proceed(w, [talk[w] EXCEPT !.number = n]) /\ Awaits(w, "readThread")
    BY <1>6 DEF ReadThread
  <2> QED
    BY <1>5, <1>6, <2>1, <2>2, Zenon
<1>7. CASE ReadTurns(w) /\ Exists(t)
  <2> DEFINE n == NextTurnSeq(t)
  <2>1. Proceed(w, [talk[w] EXCEPT !.number = n]) /\ Awaits(w, "readTurns")
    BY <1>7 DEF ReadTurns
  <2>2. n \in Nat /\ 1 <= n /\ n <= Len(turns[t]) + 1
    BY <1>1, <1>3, NextTurnSeqIsNext
  <2> QED
    BY <1>5, <1>7, <2>1, <2>2, Zenon
<1> QED
  BY <1>4, <1>6, <1>7 DEF ReadThread, ReadTurns

LEMMA FindsThread ==
  ASSUME ThreadInv, NEW w \in Speaker, FindThread(w)
  PROVE  ThreadInv'
<1>1. talk[w] \in Call /\ talk[w].at = "findThread" /\ talk[w].pair \in Pair
  BY TalkIsCall DEF FindThread, Awaits, CallKnown
<1>2. UNCHANGED <<thread, turns>> /\ session' \in Seq(Moment \cup {Unused})
  BY DEF FindThread, ThreadInv, ThreadTypeOK
<1>3. CASE Proceed(w, talk[w])
  BY <1>1, <1>2, <1>3, ThenIs, Proceeds DEF Statements
<1>4. ASSUME NEW t \in OpenTo(w),
             Found(w, [talk[w] EXCEPT !.thread = t, !.number = thread[t].latest + 1])
      PROVE  ThreadInv'
  <2> DEFINE n == thread[t].latest + 1
             c == [talk[w] EXCEPT !.thread = t, !.number = n]
             d == [c EXCEPT !.at = Then[@]]
  <2>1. t \in Thread /\ Exists(t)
    BY DEF OpenTo
  <2>2. n \in Nat /\ 1 <= n /\ n <= Len(turns[t]) + 1
    BY <2>1 DEF ThreadInv, ThreadTypeOK, LatestBehind, ThreadRow, Exists
  <2>3. Proceed(w, d)
    BY <1>4 DEF Found
  <2> HIDE DEF n
  <2>4. c \in Call /\ c.at = "findThread" /\ c.thread = t /\ c.number = n
    BY <1>1, <2>1, <2>2 DEF Call
  <2> HIDE DEF c
  <2>5. d = [c EXCEPT !.at = "createThread"]
    BY <2>4, ThenIs
  <2> HIDE DEF d
  <2>6. d \in Call /\ d.at = "createThread" /\ d.thread = t /\ d.number = n
    BY <2>4, <2>5, AtSet DEF Statements
  <2> QED
    BY <1>2, <2>1, <2>2, <2>3, <2>6, ThenIs, Proceeds DEF Statements
<1> QED
  BY <1>3, <1>4 DEF FindThread

-----------------------------------------------------------------------------
(* Steps that write a thread or its turns *)

LEMMA CreatesThread ==
  ASSUME ThreadInv, NEW w \in Speaker, CreateThread(w)
  PROVE  ThreadInv'
<1>1. PICK t \in Thread :
        /\ ~Exists(t)
        /\ thread' = [thread EXCEPT ![t] = [open |-> TRUE, latest |-> 0, session |-> talk[w].session,
                                            members |-> {talk[w].pair[1], talk[w].pair[2]}]]
        /\ Proceed(w, [talk[w] EXCEPT !.thread = t, !.number = 1])
  BY DEF CreateThread
<1>2. talk[w] \in Call /\ talk[w].at = "createThread" /\ talk[w].pair \in Pair /\ UNCHANGED <<turns, session>>
  BY TalkIsCall DEF CreateThread, Awaits, CallKnown
<1> DEFINE row == [open |-> TRUE, latest |-> 0, session |-> talk[w].session,
                   members |-> {talk[w].pair[1], talk[w].pair[2]}]
           c == [talk[w] EXCEPT !.thread = t, !.number = 1]
           d == [c EXCEPT !.at = "insertTurn"]
<1>3. row \in ThreadRow /\ row.latest = 0
  BY <1>2, ThreadBounds DEF ThreadRow, Call
<1>4. d \in Call /\ d.at = "insertTurn" /\ d.thread = t /\ d.number = 1
  BY <1>2 DEF Call, Statements
<1>5. talk' = [talk EXCEPT ![w] = d]
  <2>1. c.at = "createThread"
    BY <1>2 DEF Call
  <2>2. Proceed(w, c)
    BY <1>1
  <2> HIDE DEF c
  <2> QED
    BY <2>1, <2>2, ThenIs DEF Proceed
<1> HIDE DEF row, c, d
<1>6. turns[t] = <<>>
  BY <1>1 DEF ThreadInv, LatestBehind
<1>7. Exists(t)' /\ \A u \in Thread : u # t => thread'[u] = thread[u]
  BY <1>1, <1>3, ThreadBounds DEF ThreadInv, ThreadTypeOK, Exists, row
<1>8. ThreadTypeOK'
  BY <1>1, <1>2, <1>3, <1>4, <1>5 DEF ThreadInv, ThreadTypeOK, row
<1>9. LatestBehind' /\ TurnsInOrder'
  BY <1>1, <1>2, <1>3, <1>6, <1>7 DEF ThreadInv, ThreadTypeOK, LatestBehind, TurnsInOrder, Exists, row
<1>10. CallsKnown'
  <2> SUFFICES ASSUME NEW v \in Speaker
               PROVE  CallKnown(talk[v])'
    BY DEF CallsKnown
  <2>1. CASE v = w
    BY <1>2, <1>4, <1>5, <1>6, <1>7, <2>1 DEF ThreadInv, ThreadTypeOK, CallKnown
  <2>2. CASE v # w
    <3>1. talk'[v] = talk[v] /\ CallKnown(talk[v])
      BY <1>5, <2>2 DEF ThreadInv, ThreadTypeOK, CallsKnown
    <3> QED
      BY <1>2, <1>7, <3>1 DEF CallKnown, Exists
  <2> QED
    BY <2>1, <2>2
<1> QED
  BY <1>8, <1>9, <1>10 DEF ThreadInv

\* A turn that the index accepts is the next one of its thread.
LEMMA TurnWritten ==
  ASSUME ThreadInv, NEW t \in Thread, NEW n \in Nat, Exists(t), 1 <= n, n <= Len(turns[t]) + 1,
         ~Taken(t, n), turns' = [turns EXCEPT ![t] = Append(@, n)]
  PROVE  /\ turns' \in [Thread -> Seq(Nat)] /\ TurnsInOrder'
         /\ Len(turns'[t]) = Len(turns[t]) + 1 /\ Len(turns'[t]) = n
         /\ \A u \in Thread : u # t => turns'[u] = turns[u]
<1>1. n = Len(turns[t]) + 1
  BY NextIsUntaken
<1>2. turns \in [Thread -> Seq(Nat)] /\ turns[t] \in Seq(Nat)
  BY DEF ThreadInv, ThreadTypeOK
<1>3. turns'[t] = Append(turns[t], n) /\ Append(turns[t], n) \in Seq(Nat)
  BY <1>2
<1>4. TurnsInOrder'
  <2> SUFFICES ASSUME NEW u \in Thread, NEW i \in DOMAIN turns'[u]
               PROVE  turns'[u][i] = i
    BY DEF TurnsInOrder
  <2>1. CASE u = t
    <3>1. i \in 1..(Len(turns[t]) + 1)
      BY <1>2, <1>3, <2>1
    <3>2. CASE i = Len(turns[t]) + 1
      BY <1>1, <1>2, <1>3, <2>1, <3>2
    <3>3. CASE i \in 1..Len(turns[t])
      BY <1>2, <1>3, <2>1, <3>3 DEF ThreadInv, TurnsInOrder
    <3> QED
      BY <1>2, <3>1, <3>2, <3>3
  <2>2. CASE u # t
    BY <1>2, <2>2 DEF ThreadInv, TurnsInOrder
  <2> QED
    BY <2>1, <2>2
<1> QED
  BY <1>1, <1>2, <1>3, <1>4

\* The other calls still know what they knew: turns only grow and threads stay.
LEMMA OthersKnow ==
  ASSUME ThreadInv, NEW v \in Speaker, talk'[v] = talk[v],
         \A u \in Thread : Exists(u) => Exists(u)',
         \A u \in Thread : Len(turns[u]) \in Nat /\ Len(turns'[u]) \in Nat /\ Len(turns[u]) <= Len(turns'[u])
  PROVE  CallKnown(talk[v])'
<1>1. CallKnown(talk[v]) /\ talk[v].number \in Nat
  BY TalkIsCall DEF Call
<1> QED
  BY <1>1 DEF CallKnown, Exists

LEMMA InsertsTurn ==
  ASSUME ThreadInv, NEW w \in Speaker, InsertTurn(w)
  PROVE  ThreadInv'
<1> DEFINE t == talk[w].thread
           n == talk[w].number
           d == [talk[w] EXCEPT !.at = "writeLatest"]
<1>1. talk[w] \in Call /\ talk[w].at = "insertTurn" /\ UNCHANGED <<thread, session>>
  BY TalkIsCall DEF InsertTurn, Awaits
<1>2. t \in Thread /\ Exists(t) /\ n \in Nat /\ 1 <= n /\ n <= Len(turns[t]) + 1
  BY <1>1, TalkIsCall DEF CallKnown, Call
<1>3. CASE Throw(w) /\ UNCHANGED turns
  BY <1>1, <1>3, CallEnds DEF ThreadInv, ThreadTypeOK
<1>4. CASE ~Taken(t, n) /\ turns' = [turns EXCEPT ![t] = Append(@, n)] /\ Proceed(w, talk[w])
  <2>1. d \in Call /\ d.at = "writeLatest" /\ d.thread = t /\ d.number = n
    BY <1>1 DEF Call, Statements
  <2>2. talk' = [talk EXCEPT ![w] = d]
    BY <1>1, <1>4, ThenIs DEF Proceed
  <2> HIDE DEF t, n, d
  <2>3. /\ turns' \in [Thread -> Seq(Nat)] /\ TurnsInOrder'
        /\ Len(turns'[t]) = Len(turns[t]) + 1 /\ Len(turns'[t]) = n
        /\ \A u \in Thread : u # t => turns'[u] = turns[u]
    BY <1>2, <1>4, TurnWritten
  <2>4. \A u \in Thread : /\ Len(turns[u]) \in Nat /\ Len(turns'[u]) \in Nat
                          /\ Len(turns[u]) <= Len(turns'[u])
    <3> TAKE u \in Thread
    <3>1. turns[u] \in Seq(Nat) /\ turns'[u] \in Seq(Nat)
      BY <2>3 DEF ThreadInv, ThreadTypeOK
    <3>2. u = t \/ turns'[u] = turns[u]
      BY <2>3
    <3> QED
      BY <2>3, <3>1, <3>2
  <2>5. ThreadTypeOK'
    BY <1>1, <2>1, <2>2, <2>3 DEF ThreadInv, ThreadTypeOK
  <2>6. LatestBehind'
    BY <1>1, <1>2, <2>3, <2>4 DEF ThreadInv, ThreadTypeOK, LatestBehind, Exists, ThreadRow
  <2>7. CallsKnown'
    <3> SUFFICES ASSUME NEW v \in Speaker
                 PROVE  CallKnown(talk[v])'
      BY DEF CallsKnown
    <3>1. CASE v = w
      BY <1>1, <1>2, <2>1, <2>2, <2>3, <3>1 DEF ThreadInv, ThreadTypeOK, CallKnown, Exists
    <3>2. CASE v # w
      BY <1>1, <2>2, <2>4, <3>2, OthersKnow DEF ThreadInv, ThreadTypeOK, Exists
    <3> QED
      BY <3>1, <3>2
  <2> QED
    BY <2>3, <2>5, <2>6, <2>7 DEF ThreadInv
<1> QED
  BY <1>3, <1>4 DEF InsertTurn

LEMMA WritesLatest ==
  ASSUME ThreadInv, NEW w \in Speaker, WriteLatest(w)
  PROVE  ThreadInv'
<1> DEFINE t == talk[w].thread
           n == talk[w].number
<1>1. talk[w] \in Call /\ talk[w].at = "writeLatest" /\ UNCHANGED <<turns, session>>
  BY TalkIsCall DEF WriteLatest, Awaits
<1>2. t \in Thread /\ Exists(t) /\ n \in Nat /\ n <= Len(turns[t])
  BY <1>1, TalkIsCall DEF CallKnown, Call
<1>3. talk' = [talk EXCEPT ![w] = Silent]
  BY <1>1, ThenIs DEF WriteLatest, Proceed
<1>4. thread' = [thread EXCEPT ![t].latest = n]
  BY DEF WriteLatest
<1> HIDE DEF t, n
<1>5. thread[t] \in ThreadRow
  BY <1>2 DEF ThreadInv, ThreadTypeOK, Exists
<1>6. thread'[t] \in ThreadRow /\ thread'[t].latest = n
  BY <1>2, <1>4, <1>5 DEF ThreadInv, ThreadTypeOK, ThreadRow
<1>7. ThreadTypeOK'
  BY <1>1, <1>3, <1>4, <1>6, SilentIsCall DEF ThreadInv, ThreadTypeOK
<1>8. \A u \in Thread : u # t => thread'[u] = thread[u]
  BY <1>4 DEF ThreadInv, ThreadTypeOK
<1>9. thread'[t] # Unused
  BY <1>6, ThreadBounds
<1>10. LatestBehind' /\ TurnsInOrder'
  BY <1>1, <1>2, <1>6, <1>8, <1>9 DEF ThreadInv, LatestBehind, TurnsInOrder, Exists
<1>11. CallsKnown'
  <2> SUFFICES ASSUME NEW v \in Speaker
               PROVE  CallKnown(talk[v])'
    BY DEF CallsKnown
  <2>1. CASE v = w
    BY <1>3, <2>1 DEF ThreadInv, ThreadTypeOK, CallKnown, Silent
  <2>2. CASE v # w
    BY <1>1, <1>3, <1>8, <1>9, <2>2, OthersKnow DEF ThreadInv, ThreadTypeOK, Exists
  <2> QED
    BY <2>1, <2>2
<1> QED
  BY <1>7, <1>10, <1>11 DEF ThreadInv

LEMMA PersonWrites ==
  ASSUME ThreadInv, NEW w \in Speaker, Transaction(w)
  PROVE  ThreadInv'
<1> DEFINE t == talk[w].thread
           n == talk[w].number
<1>1. talk[w] \in Call /\ talk[w].at = "transaction" /\ UNCHANGED session
  BY TalkIsCall DEF Transaction, Awaits
<1>2. t \in Thread /\ Exists(t) /\ n \in Nat /\ 1 <= n /\ n <= Len(turns[t]) + 1
  BY <1>1, TalkIsCall DEF CallKnown, Call
<1>3. CASE Throw(w) /\ UNCHANGED <<turns, thread>>
  BY <1>1, <1>3, CallEnds DEF ThreadInv, ThreadTypeOK
<1>4. CASE /\ ~Taken(t, n) /\ turns' = [turns EXCEPT ![t] = Append(@, n)]
           /\ thread' = [thread EXCEPT ![t].latest = n] /\ Proceed(w, talk[w])
  <2>1. talk' = [talk EXCEPT ![w] = Silent]
    BY <1>1, <1>4, ThenIs DEF Proceed
  <2> HIDE DEF t, n
  <2>2. /\ turns' \in [Thread -> Seq(Nat)] /\ TurnsInOrder'
        /\ Len(turns'[t]) = Len(turns[t]) + 1 /\ Len(turns'[t]) = n
        /\ \A u \in Thread : u # t => turns'[u] = turns[u]
    BY <1>2, <1>4, TurnWritten
  <2>3. thread[t] \in ThreadRow
    BY <1>2 DEF ThreadInv, ThreadTypeOK, Exists
  <2>4. thread'[t] \in ThreadRow /\ thread'[t].latest = n
    BY <1>2, <1>4, <2>3 DEF ThreadInv, ThreadTypeOK, ThreadRow
  <2>5. \A u \in Thread : u # t => thread'[u] = thread[u]
    BY <1>4 DEF ThreadInv, ThreadTypeOK
  <2>6. thread'[t] # Unused
    BY <2>4, ThreadBounds
  <2>7. ThreadTypeOK'
    BY <1>1, <1>4, <2>1, <2>2, <2>4, SilentIsCall DEF ThreadInv, ThreadTypeOK
  <2>8. LatestBehind'
    BY <1>2, <2>2, <2>4, <2>5, <2>6 DEF ThreadInv, LatestBehind, Exists
  <2>9. \A u \in Thread : /\ Len(turns[u]) \in Nat /\ Len(turns'[u]) \in Nat
                          /\ Len(turns[u]) <= Len(turns'[u])
    <3> TAKE u \in Thread
    <3>1. turns[u] \in Seq(Nat) /\ turns'[u] \in Seq(Nat)
      BY <2>2 DEF ThreadInv, ThreadTypeOK
    <3>2. u = t \/ turns'[u] = turns[u]
      BY <2>2
    <3> QED
      BY <2>2, <3>1, <3>2
  <2>10. CallsKnown'
    <3> SUFFICES ASSUME NEW v \in Speaker
                 PROVE  CallKnown(talk[v])'
      BY DEF CallsKnown
    <3>1. CASE v = w
      BY <2>1, <3>1 DEF ThreadInv, ThreadTypeOK, CallKnown, Silent
    <3>2. CASE v # w
      BY <2>1, <2>5, <2>6, <2>9, <3>2, OthersKnow DEF ThreadInv, ThreadTypeOK, Exists
    <3> QED
      BY <3>1, <3>2
  <2> QED
    BY <2>2, <2>7, <2>8, <2>10 DEF ThreadInv
<1> QED
  BY <1>3, <1>4 DEF Transaction

LEMMA ThreadCloses ==
  ASSUME ThreadInv, NEW t \in Thread, CloseThread(t)
  PROVE  ThreadInv'
<1>1. thread[t] \in ThreadRow /\ thread' = [thread EXCEPT ![t].open = FALSE] /\ UNCHANGED <<turns, session, talk>>
  BY DEF ThreadInv, ThreadTypeOK, CloseThread, Exists
<1>2. thread'[t] \in ThreadRow /\ thread'[t].latest = thread[t].latest
  BY <1>1 DEF ThreadInv, ThreadTypeOK, ThreadRow
<1>3. ThreadTypeOK' /\ \A u \in Thread : u # t => thread'[u] = thread[u]
  BY <1>1, <1>2 DEF ThreadInv, ThreadTypeOK
<1>4. \A u \in Thread : Exists(u) => Exists(u)'
  BY <1>2, <1>3, ThreadBounds DEF Exists
<1>5. LatestBehind' /\ TurnsInOrder'
  BY <1>1, <1>2, <1>3, ThreadBounds DEF ThreadInv, LatestBehind, TurnsInOrder, Exists, CloseThread
<1>6. CallsKnown'
  BY <1>1, <1>4 DEF ThreadInv, CallsKnown, CallKnown, Exists
<1> QED
  BY <1>3, <1>5, <1>6 DEF ThreadInv

-----------------------------------------------------------------------------
LEMMA NextHolds ==
  ASSUME ThreadInv, [ThreadNext]_threadVars
  PROVE  ThreadInv'
<1>1. CASE UNCHANGED threadVars
  BY <1>1 DEF threadVars, ThreadInv, ThreadTypeOK, LatestBehind, TurnsInOrder, CallsKnown, CallKnown, Exists
<1>2. ASSUME NEW w \in Speaker,
             \/ \E m \in Moment, pair \in Pair : Collaborate(w, m, pair)
             \/ \E t \in Thread : Reply(w, t) \/ HumanTurn(w, t)
      PROVE  ThreadInv'
  BY <1>2, CallStarts
<1>3. ASSUME NEW w \in Speaker, FindSession(w) \/ CreateSession(w)
      PROVE  ThreadInv'
  BY <1>3, FindsSession
<1>4. ASSUME NEW w \in Speaker, FindThread(w)
      PROVE  ThreadInv'
  BY <1>4, FindsThread
<1>5. ASSUME NEW w \in Speaker, CreateThread(w)
      PROVE  ThreadInv'
  BY <1>5, CreatesThread
<1>6. ASSUME NEW w \in Speaker, ReadThread(w) \/ ReadTurns(w)
      PROVE  ThreadInv'
  BY <1>6, ReadsThread
<1>7. ASSUME NEW w \in Speaker, InsertTurn(w) \/ WriteLatest(w) \/ Transaction(w)
      PROVE  ThreadInv'
  BY <1>7, InsertsTurn, WritesLatest, PersonWrites
<1>8. ASSUME NEW w \in Speaker, CutOff(w)
      PROVE  ThreadInv'
  BY <1>8, CallEnds DEF CutOff, ThreadInv, ThreadTypeOK
<1>9. ASSUME NEW t \in Thread, CloseThread(t)
      PROVE  ThreadInv'
  BY <1>9, ThreadCloses
<1> QED
  BY <1>1, <1>2, <1>3, <1>4, <1>5, <1>6, <1>7, <1>8, <1>9 DEF ThreadNext

\* The turns of every thread are numbered in the order they were written, for any
\* number of threads and of agents and people writing at once (collaboration/
\* engine.ts, collaboration/repository.ts).
THEOREM TurnsStayInOrder == ThreadSpec => []TurnsInOrder
<1>1. ThreadInit => ThreadInv
  BY InitHolds
<1>2. ThreadInv /\ [ThreadNext]_threadVars => ThreadInv'
  BY NextHolds
<1>3. ThreadInv => TurnsInOrder
  BY DEF ThreadInv
<1> QED
  BY <1>1, <1>2, <1>3, PTL DEF ThreadSpec

\* latestTurnSeq, from which agents count, is never ahead of the turns.
THEOREM LatestStaysBehind == ThreadSpec => []LatestBehind
<1>1. ThreadInit => ThreadInv
  BY InitHolds
<1>2. ThreadInv /\ [ThreadNext]_threadVars => ThreadInv'
  BY NextHolds
<1>3. ThreadInv => LatestBehind
  BY DEF ThreadInv
<1> QED
  BY <1>1, <1>2, <1>3, PTL DEF ThreadSpec
=============================================================================
