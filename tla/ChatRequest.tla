---------------------------- MODULE ChatRequest ----------------------------
(***************************************************************************)
(* A chat message from POST /api/chat to its answer (src/src/app/api/chat/ *)
(* route.ts): the record of the request, the audit trail, the messages and *)
(* the stream to the client, around the agents of ChatDelegation.  Every   *)
(* statement may fail, the provider may break off, and the client may go,  *)
(* after which every event that is sent to it throws.  Two catch blocks    *)
(* are to leave the request recorded: one for the time before the stream,  *)
(* one within it.                                                          *)
(***************************************************************************)
EXTENDS ChatDelegation

VARIABLE request
\* .at       what the handler awaits; "over" when it is done
\* .mode     who answers: "agents", one "agent" or the "model"
\* .record   the status of the RunRequestRecord, or "absent"
\* .audit    the events of the audit trail
\* .content  the answer has begun   .broken  the provider broke it off
\* .stored   the statuses under which the answer was stored
\* .gone     the client closed the stream

requestVars == <<delegationVars, request>>

NewRequest(mode) == [at |-> "createRecord", mode |-> mode, record |-> "absent", audit |-> {},
                     content |-> FALSE, broken |-> FALSE, stored |-> {}, gone |-> FALSE]

RequestInit ==
  /\ DelegationInit /\ recorded   \* a chat message always has a correlationId
  /\ \E mode \in {"agents", "agent", "model"} : request = NewRequest(mode)
  /\ request.mode # "agents" => dependsOn = [i \in Limited |-> {}]

Doing(step) == request.at = step /\ answer # "lost"
Continues(r, step) == request' = [r EXCEPT !.at = step]

Creating == {"createRecord", "auditReceived"}
BeforeStream == Creating \cup {"auditRequest", "conversation", "recordMissing", "auditMissing",
                               "userMessage", "history", "recordRunning", "auditRunning", "auditDecided"}
InStream == {"start", "agents", "agent", "model", "deltas", "storeAnswer",
             "recordSucceeded", "auditSucceeded", "auditCompleted", "done"}

\* What fails in a catch block ends the request.
CaughtInStream(r) ==
  IF r.at \notin InStream THEN "over"
  ELSE IF r.content THEN "storeIncomplete" ELSE "recordBroken"

\* The outer catch block going by the id of the record, which is known only later.
CaughtById(r) == IF r.at \in BeforeStream \ Creating THEN "recordFailed" ELSE CaughtInStream(r)

\* Where an error goes; the outer catch block goes by the correlationId.
Caught(r) == IF r.at \in BeforeStream THEN "recordFailed" ELSE CaughtInStream(r)

-----------------------------------------------------------------------------
(* Statements *)

\* The updates of the record and the events of the trail, and what comes after.
Updates ==
  [createRecord |-> <<"received", "auditReceived">>, recordRunning |-> <<"running", "auditRunning">>,
   recordSucceeded |-> <<"succeeded", "auditSucceeded">>, recordMissing |-> <<"failed", "auditMissing">>,
   recordBroken |-> <<"failed", "auditBroken">>, recordFailed |-> <<"failed", "auditFailed">>]

Audits ==
  [auditReceived |-> <<"run_request.received", "auditRequest">>,
   auditRequest |-> <<"chathub.request_received", "conversation">>,
   auditRunning |-> <<"run_request.running", "auditDecided">>,
   auditDecided |-> <<"chathub.route_decided", "start">>,
   auditSucceeded |-> <<"run_request.succeeded", "auditCompleted">>,
   auditCompleted |-> <<"chathub.response_completed", "done">>,
   auditMissing |-> <<"run_request.failed", "over">>,
   auditBroken |-> <<"run_request.failed", "auditResponse">>,
   auditResponse |-> <<"chathub.response_failed", "doneBroken">>,
   auditFailed |-> <<"run_request.failed", "auditOuter">>,
   auditOuter |-> <<"chathub.response_failed", "over">>]

Messages ==
  [userMessage |-> <<{}, "history">>, history |-> <<{}, "recordRunning">>,  \* routeMessageLLM does not throw
   storeAnswer |-> <<{"complete"}, "recordSucceeded">>,
   storeIncomplete |-> <<{"incomplete"}, "recordBroken">>]

InRequestStatement == request.at \in DOMAIN Updates \cup DOMAIN Audits \cup DOMAIN Messages /\ answer # "lost"

\* The update finds no row when the record was never created.
UpdateRecord ==
  /\ request.at \in DOMAIN Updates /\ answer # "lost"
  /\ LET to == Updates[request.at] IN
     IF request.record = "absent" /\ request.at # "createRecord" THEN Continues(request, Caught(request))
     ELSE Continues([request EXCEPT !.record = to[1]], to[2])
  /\ UNCHANGED delegationVars

AuditRequest ==
  /\ request.at \in DOMAIN Audits /\ answer # "lost"
  /\ LET to == Audits[request.at] IN Continues([request EXCEPT !.audit = @ \cup {to[1]}], to[2])
  /\ UNCHANGED delegationVars

StoreMessage ==
  /\ request.at \in DOMAIN Messages /\ answer # "lost"
  /\ LET to == Messages[request.at] IN Continues([request EXCEPT !.stored = @ \cup to[1]], to[2])
  /\ UNCHANGED delegationVars

FindConversation ==
  /\ Doing("conversation") /\ \E step \in {"userMessage", "recordMissing"} : Continues(request, step)
  /\ UNCHANGED delegationVars

\* A statement fails; so does executeRecordedAgentTask, which one agent's answer
\* is, and getLLMProvider.
RequestFails ==
  /\ \/ InRequestStatement \/ Doing("conversation") \/ Doing("agent")
     \/ (Doing("model") /\ ~request.content)
  /\ dbFailures < MaxDbFailures /\ dbFailures' = dbFailures + 1
  /\ Continues(request, Caught(request))
  /\ UNCHANGED <<dependsOn, recorded, run, result, answer>>

-----------------------------------------------------------------------------
(* The stream *)

\* An event sent to a client that has gone throws.
Send(r, step) == Continues(r, IF r.gone THEN Caught(r) ELSE step)

StartStream ==
  /\ Doing("start") /\ Send(request, request.mode)
  /\ UNCHANGED delegationVars

AgentsAnswer ==
  /\ (Doing("agents") /\ answer = "returned") \/ Doing("agent")
  /\ Send(request, "deltas")
  /\ UNCHANGED delegationVars

\* The report or the summary is kept before it is sent character by character.
SendAnswer ==
  /\ Doing("deltas") /\ Send([request EXCEPT !.content = TRUE], "storeAnswer")
  /\ UNCHANGED delegationVars

ModelYields ==
  /\ Doing("model") /\ Send([request EXCEPT !.content = TRUE], "model")
  /\ UNCHANGED delegationVars

\* An error of the provider comes as an event; it is sent, and the stream ends.
ModelEnds ==
  LET next == IF request.content THEN "storeAnswer" ELSE "recordSucceeded" IN
  /\ Doing("model")
  /\ Continues(request, next) \/ Send([request EXCEPT !.broken = TRUE], next)
  /\ UNCHANGED delegationVars

SendDone ==
  /\ Doing("done") \/ Doing("doneBroken")
  /\ Send(request, "over")
  /\ UNCHANGED delegationVars

ClientGoes ==
  /\ request.at # "over" /\ answer # "lost" /\ ~request.gone
  /\ request' = [request EXCEPT !.gone = TRUE]
  /\ UNCHANGED delegationVars

HandlerStops ==
  /\ request.at \notin {"agents", "over"} /\ answer # "lost" /\ answer' = "lost"
  /\ UNCHANGED <<dependsOn, recorded, run, result, dbFailures, request>>

\* The steps of the running handler: nothing obliges a statement to fail.
RequestStep ==
  \/ UpdateRecord \/ AuditRequest \/ StoreMessage \/ FindConversation
  \/ StartStream \/ AgentsAnswer \/ SendAnswer \/ ModelEnds \/ SendDone
  \/ Doing("agents") /\ DelegationStep /\ UNCHANGED request

RequestNext ==
  \/ RequestStep \/ ModelYields \/ RequestFails \/ ClientGoes \/ HandlerStops
  \/ Doing("agents") /\ DelegationBreaks /\ UNCHANGED request

RequestSpec == RequestInit /\ [][RequestNext]_requestVars /\ WF_requestVars(RequestStep)

-----------------------------------------------------------------------------
(* Properties *)

WentWrong == dbFailures + (IF request.gone THEN 1 ELSE 0)

\* Whichever one thing goes wrong, a statement anywhere or the client, the request
\* that is over is recorded as succeeded or failed, the trail has that status, and
\* what succeeded was answered in full to the end: the two catch blocks between
\* them leave no request as received or running.
OneFailureIsRecorded ==
  request.at = "over" /\ answer # "lost" /\ WentWrong <= 1 =>
    \/ request.record = "absent"
    \/ request.record = "failed" /\ "run_request.failed" \in request.audit
    \/ /\ request.record = "succeeded" /\ request.stored \subseteq {"complete"}
       /\ {"run_request.succeeded", "chathub.response_completed"} \subseteq request.audit

\* Whatever the router proposed as dependencies, cycles and subtasks that do not
\* exist included, however often the model asks for tools, whichever statements
\* fail and whenever the client goes, the request ends unless the process stops: a
\* question to the model is answered or fails, and the rest is ordinary execution.
RequestEnds == <>(request.at = "over" \/ answer = "lost")

-----------------------------------------------------------------------------
(* Statements that the code does not keep *)

\* A request that was recorded as succeeded stays so: the last audit event or the
\* event "done" may still fail, and then the inner catch block rewrites it.
SucceededStays == [][request.record = "succeeded" => request'.record = "succeeded"]_requestVars

\* The answer is stored once: after such a failure it is stored a second time.
AnswerStoredOnce == request.stored # {"complete", "incomplete"}

\* An answer that the provider broke off is not stored as complete.
BrokenIsIncomplete == request.broken => "complete" \notin request.stored

\* A request that is over is recorded as over: not when a catch block fails too.
OverIsRecorded ==
  request.at = "over" => request.record \in {"absent", "succeeded", "failed"}
=============================================================================
