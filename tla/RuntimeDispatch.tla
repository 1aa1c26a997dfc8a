--------------------------- MODULE RuntimeDispatch ---------------------------
(***************************************************************************)
(* The Sprint 22 controlled runtime: RuntimeExecutionToken,                 *)
(* RuntimeDispatchJob and their attempt, receipt and recovery records        *)
(* (src/lib/runtime-execution/repository.ts), the issuance of an approved   *)
(* plan (issuance.ts), the one-shot runner (runner.ts) and the connector it *)
(* drives, which writes a Markdown draft (tools/obsidian-draft.ts).         *)
(*                                                                          *)
(* Every operation is a straight line of awaits: it reads and checks, then   *)
(* writes by id alone, then inserts the records that document what it did.  *)
(* Nothing is wrapped in a transaction.  A call is one operation in flight; *)
(* its todo list holds the database operations (or the file write) it has    *)
(* still to make, and an error at any of them ends the call, leaving what it *)
(* already wrote.                                                           *)
(*                                                                          *)
(* One idempotency key stands for one token and one job: both columns are    *)
(* unique, so a key never has two of either.  leaseExpiresAt is written by   *)
(* claims and heartbeats and read by nothing, so it is left out.            *)
(***************************************************************************)
EXTENDS Naturals, Sequences, FiniteSets

CONSTANTS
  Key,          \* idempotency keys of approved plans
  Worker,       \* worker ids
  Call,         \* operations that may be in flight at once
  None,         \* SQL NULL
  Op,           \* the operations the callers use
  Overlap,      \* may two calls on the same key be in flight?
  DraftBound,   \* the count of written drafts saturates here
  Faults        \* "abort": a call may die between two of its awaits;
                \* "expire": the clock may pass the token's expiresAt

ASSUME NullAssumption == None \notin Key \cup Worker
ASSUME DraftAssumption == DraftBound \in Nat \ {0}

VARIABLES
  token,        \* RuntimeExecutionToken.status
  tokenExpired, \* has the clock passed RuntimeExecutionToken.expiresAt?
  status,       \* RuntimeDispatchJob.status
  leaseOwner,   \* RuntimeDispatchJob.leaseOwner
  attemptCount, \* RuntimeDispatchJob.attemptCount
  attempts,     \* RuntimeDispatchAttempt rows: <<attempt, status>>
  receipt,      \* status of the job's RuntimeExecutionReceipt
  recovery,     \* kinds of the job's RuntimeRecoveryPoint rows
  drafts,       \* Markdown files the connector wrote for the job
  call          \* operations in flight

grant   == <<token, tokenExpired>>
records == <<attempts, receipt, recovery>>
vars    == <<token, tokenExpired, status, leaseOwner, attemptCount,
             attempts, receipt, recovery, drafts, call>>

Final == {"succeeded", "failed", "blocked"}
Idle  == [op |-> "none", key |-> None, worker |-> None, count |-> 0, todo |-> <<>>]

-----------------------------------------------------------------------------
(* The operations, as the awaits they make one after the other.             *)

ClaimById == <<"readQueued", "leaseById", "attemptLeased">>
Start     == <<"readLeased", "run", "attemptRunning">>

\* What both completions do once the job is allowed to complete.
\* A plausible defect: the receipt is written before the token is spent.
RecordReceiptFirst(kind) == <<"succeed", kind, "consume">>
Record(kind) == <<"succeed", "consume", kind>>

Completion == <<"readRunning", "readToken", "readReceipt">>

CompleteDryRun == Completion \o Record("receiptDryRun") \o <<"recoverLatest">>
\* A plausible defect: the connector runs after the token is spent.
CompleteWriteLate ==
  Completion \o Record("receiptReal") \o <<"write", "recoverUnknown">>
CompleteWrite == Completion \o <<"write">> \o Record("receiptReal")
                   \o <<"recoverUnknown">>

Issue == <<"checkFree", "insertToken", "checkFree", "insertJob", "activate">>

Program == [
  issue          |-> Issue,
  postToken      |-> <<"insertToken">>,
  postJob        |-> <<"checkFree", "insertJob">>,
  claim          |-> <<"readQueued", "lease", "attemptLeased">>,
  claimById      |-> ClaimById,
  start          |-> Start,
  fail           |-> <<"readHeld", "fail", "attemptFailed", "snapshot">>,
  block          |-> <<"readHeld", "block", "attemptBlocked", "snapshot">>,
  completeDryRun |-> CompleteDryRun,
  completeWrite  |-> CompleteWrite,
  runDry         |-> ClaimById \o Start \o CompleteDryRun,
  runWrite       |-> ClaimById \o Start \o CompleteWrite ]

ASSUME OpAssumption == Op \subseteq DOMAIN Program

AttemptStatus == [ attemptLeased  |-> "leased",  attemptRunning |-> "running",
                   attemptFailed  |-> "failed",  attemptBlocked |-> "blocked" ]

TypeOK ==
  /\ token \in [Key -> {"absent", "draft", "active", "consumed"}]
  /\ tokenExpired \in [Key -> BOOLEAN]
  /\ status \in [Key -> {"absent", "queued", "leased", "running"} \cup Final]
  /\ leaseOwner \in [Key -> Worker \cup {None}]
  /\ attemptCount \in [Key -> Nat]
  /\ \A k \in Key : \A a \in attempts[k] :
        a[1] \in Nat \ {0} /\ a[2] \in {"leased", "running", "failed", "blocked"}
  /\ receipt \in [Key -> {"none", "dry_run", "succeeded"}]
  /\ recovery \in [Key -> SUBSET {"post_execute", "failure_snapshot"}]
  /\ drafts \in [Key -> 0..DraftBound]
  /\ \A c \in Call :
        \/ call[c] = Idle
        \/ /\ call[c].op \in DOMAIN Program /\ call[c].key \in Key
           /\ call[c].worker \in Worker /\ call[c].count \in Nat
           /\ \E n \in 0..Len(Program[call[c].op]) - 1 :
                call[c].todo = SubSeq(Program[call[c].op], n + 1,
                                      Len(Program[call[c].op]))

Init ==
  /\ token = [k \in Key |-> "absent"]
  /\ tokenExpired = [k \in Key |-> FALSE]
  /\ status = [k \in Key |-> "absent"]
  /\ leaseOwner = [k \in Key |-> None]
  /\ attemptCount = [k \in Key |-> 0]
  /\ attempts = [k \in Key |-> {}]
  /\ receipt = [k \in Key |-> "none"]
  /\ recovery = [k \in Key |-> {}]
  /\ drafts = [k \in Key |-> 0]
  /\ call = [c \in Call |-> Idle]

-----------------------------------------------------------------------------
(* A call advances *)

Busy(k) == \E c \in Call : call[c].key = k

At(c, step) == call[c].todo # <<>> /\ Head(call[c].todo) = step

\* The next await, with what the call now remembers of attemptCount.
Continue(c, n) ==
  LET rest == Tail(call[c].todo) IN
  call' = [call EXCEPT ![c] =
             IF rest = <<>> THEN Idle ELSE [call[c] EXCEPT !.count = n, !.todo = rest]]

Go(c)   == Continue(c, 0)
Quit(c) == call' = [call EXCEPT ![c] = Idle]

Begin(c) ==
  /\ call[c] = Idle
  /\ \E op \in Op, k \in Key, w \in Worker :
       /\ Overlap \/ ~Busy(k)
       /\ call' = [call EXCEPT ![c] =
            [op |-> op, key |-> k, worker |-> w, count |-> 0, todo |-> Program[op]]]
  /\ UNCHANGED <<grant, status, leaseOwner, attemptCount, records, drafts>>

\* A read followed by its checks: the call goes on, remembering attemptCount,
\* or throws and has changed nothing more.
Check(c, step, ok, n) ==
  /\ At(c, step)
  /\ \/ ok /\ Continue(c, n)
     \/ ~ok /\ Quit(c)
  /\ UNCHANGED <<grant, status, leaseOwner, attemptCount, records, drafts>>

-----------------------------------------------------------------------------
(* Issuance *)

\* assertRuntimeDispatchJobIdempotencyAvailable
CheckFree(c) ==
  Check(c, "checkFree",
        status[call[c].key] \notin {"queued", "leased", "running", "succeeded"}, 0)

TokenFree(k) == token[k] = "absent"

\* createRuntimeExecutionToken: idempotencyKey is unique.
InsertToken(c) ==
  LET k == call[c].key IN
  /\ At(c, "insertToken")
  /\ \/ TokenFree(k) /\ token' = [token EXCEPT ![k] = "draft"] /\ Go(c)
     \/ ~TokenFree(k) /\ Quit(c) /\ UNCHANGED token
  /\ UNCHANGED <<tokenExpired, status, leaseOwner, attemptCount, records, drafts>>

\* createRuntimeDispatchJob: idempotencyKey is unique, the token must exist.
InsertJob(c) ==
  LET k == call[c].key
      ok == status[k] = "absent" /\ token[k] # "absent" IN
  /\ At(c, "insertJob")
  /\ \/ ok /\ status' = [status EXCEPT ![k] = "queued"] /\ Go(c)
     \/ ~ok /\ Quit(c) /\ UNCHANGED status
  /\ UNCHANGED <<grant, leaseOwner, attemptCount, records, drafts>>

\* transitionRuntimeExecutionToken(active)
Activate(c) ==
  /\ At(c, "activate") /\ Go(c)
  /\ token' = [token EXCEPT ![call[c].key] = "active"]
  /\ UNCHANGED <<tokenExpired, status, leaseOwner, attemptCount, records, drafts>>

-----------------------------------------------------------------------------
(* Claim and start *)

ReadQueued(c) ==
  Check(c, "readQueued", status[call[c].key] = "queued", attemptCount[call[c].key])

\* A plausible defect: the claim by id does not count the attempt either.
CountUntouched(c) == attemptCount
CountClaimed(c) == [attemptCount EXCEPT ![call[c].key] = call[c].count + 1]

\* Both claims write the lease by id.  The one from the pool (any queued job:
\* the order of the queue is left out) does not count the attempt.
Lease(c) ==
  LET k == call[c].key IN
  /\ At(c, "lease") \/ At(c, "leaseById")
  /\ status' = [status EXCEPT ![k] = "leased"]
  /\ leaseOwner' = [leaseOwner EXCEPT ![k] = call[c].worker]
  /\ attemptCount' = IF At(c, "lease") THEN attemptCount
                     ELSE CountClaimed(c)
  /\ Continue(c, call[c].count + 1)
  /\ UNCHANGED <<grant, records, drafts>>

\* A plausible defect: any worker may act for the one that holds the lease.
HeldByAnyone(k, w, S) == status[k] \in S
\* A plausible defect: the status of the job is not looked at.
HeldInAnyStatus(k, w, S) == leaseOwner[k] = w
Held(k, w, S) == status[k] \in S /\ leaseOwner[k] = w

ReadLeased(c) ==
  Check(c, "readLeased", Held(call[c].key, call[c].worker, {"leased"}),
        attemptCount[call[c].key])

RunJob(c) ==
  LET k == call[c].key IN
  /\ At(c, "run")
  /\ status' = [status EXCEPT ![k] = "running"]
  /\ attemptCount' = [attemptCount EXCEPT ![k] = call[c].count + 1]
  /\ Continue(c, call[c].count + 1)
  /\ UNCHANGED <<grant, leaseOwner, records, drafts>>

\* A plausible defect: the table loses its unique index on (jobId, attempt).
AttemptNeverTaken(k, n) == FALSE
AttemptTaken(k, n) == \E a \in attempts[k] : a[1] = n

\* createRuntimeDispatchAttempt: (jobId, attempt) is unique, and a second row of
\* the same number is rejected after the job was already updated.
InsertAttempt(c) ==
  LET k == call[c].key
      n == call[c].count
      taken == AttemptTaken(k, n) IN
  /\ \E step \in DOMAIN AttemptStatus :
       /\ At(c, step)
       /\ \/ /\ ~taken /\ Go(c)
             /\ attempts' = [attempts EXCEPT ![k] = @ \cup {<<n, AttemptStatus[step]>>}]
          \/ taken /\ Quit(c) /\ UNCHANGED attempts
  /\ UNCHANGED <<grant, status, leaseOwner, attemptCount, receipt, recovery, drafts>>

-----------------------------------------------------------------------------
(* Fail and block *)

ReadHeld(c) ==
  Check(c, "readHeld", Held(call[c].key, call[c].worker, {"leased", "running"}), 0)

FailedAttempt(k) == IF attemptCount[k] = 0 THEN 1 ELSE attemptCount[k]

\* The attempt to be inserted next is numbered Math.max(attemptCount, 1).
FailOrBlock(c) ==
  LET k == call[c].key IN
  /\ \/ At(c, "fail") /\ status' = [status EXCEPT ![k] = "failed"]
     \/ At(c, "block") /\ status' = [status EXCEPT ![k] = "blocked"]
  /\ Continue(c, FailedAttempt(k))
  /\ UNCHANGED <<grant, leaseOwner, attemptCount, records, drafts>>

Snapshot(c) ==
  /\ At(c, "snapshot") /\ Go(c)
  /\ recovery' = [recovery EXCEPT ![call[c].key] = @ \cup {"failure_snapshot"}]
  /\ UNCHANGED <<grant, status, leaseOwner, attemptCount, attempts, receipt, drafts>>

-----------------------------------------------------------------------------
(* Complete *)

ReadRunning(c) ==
  Check(c, "readRunning", Held(call[c].key, call[c].worker, {"running"}), 0)

\* assertRuntimeExecutionTokenExecutable: the token is active and not expired;
\* the scope checks compare fields that issuance made equal.
\* A plausible defect: only a token that was already used is refused.
NotYetConsumed(k) == token[k] # "consumed"
Executable(k) == token[k] = "active" /\ ~tokenExpired[k]

ReadToken(c) == Check(c, "readToken", Executable(call[c].key), 0)

\* assertRuntimeDispatchJobNotAlreadyCompleted
ReadReceipt(c) == Check(c, "readReceipt", receipt[call[c].key] = "none", 0)

\* executeObsidianDraftPlan: nextAvailablePath steps aside for the file that is
\* there, so a second write makes a second draft.
WriteDraft(c) ==
  /\ At(c, "write") /\ Go(c)
  /\ drafts' = [drafts EXCEPT ![call[c].key] = IF @ < DraftBound THEN @ + 1 ELSE @]
  /\ UNCHANGED <<grant, status, leaseOwner, attemptCount, records>>

\* The payload does not fit the token's scope, the token was not approved by
\* kelvin, or the file cannot be written: the job stays running.
ConnectorRefuses(c) ==
  /\ At(c, "write") /\ Quit(c)
  /\ UNCHANGED <<grant, status, leaseOwner, attemptCount, records, drafts>>

Succeed(c) ==
  /\ At(c, "succeed") /\ Go(c)
  /\ status' = [status EXCEPT ![call[c].key] = "succeeded"]
  /\ UNCHANGED <<grant, leaseOwner, attemptCount, records, drafts>>

Consume(c) ==
  /\ At(c, "consume") /\ Go(c)
  /\ token' = [token EXCEPT ![call[c].key] = "consumed"]
  /\ UNCHANGED <<tokenExpired, status, leaseOwner, attemptCount, records, drafts>>

\* createRuntimeExecutionReceipt: jobId is unique.
InsertReceipt(c) ==
  LET k == call[c].key IN
  /\ At(c, "receiptDryRun") \/ At(c, "receiptReal")
  /\ \/ /\ receipt[k] = "none" /\ Go(c)
        /\ receipt' = [receipt EXCEPT ![k] =
                         IF At(c, "receiptReal") THEN "succeeded" ELSE "dry_run"]
     \/ receipt[k] # "none" /\ Quit(c) /\ UNCHANGED receipt
  /\ UNCHANGED <<grant, status, leaseOwner, attemptCount, attempts, recovery, drafts>>

\* The dry run hangs its recovery point on the latest attempt, if there is one.
\* The real write hangs it on the id "obsidian-write-<job>", which is no
\* attempt's: the foreign key rejects it and the call throws.
RecoveryPoint(c) ==
  LET k == call[c].key IN
  /\ \/ /\ At(c, "recoverLatest") /\ attempts[k] # {}
        /\ recovery' = [recovery EXCEPT ![k] = @ \cup {"post_execute"}]
     \/ /\ At(c, "recoverUnknown") \/ (At(c, "recoverLatest") /\ attempts[k] = {})
        /\ UNCHANGED recovery
  /\ Quit(c)
  /\ UNCHANGED <<grant, status, leaseOwner, attemptCount, attempts, receipt, drafts>>

-----------------------------------------------------------------------------
(* Faults and time *)

\* The process dies or the database refuses the next operation of the call.
Abort(c) ==
  /\ "abort" \in Faults
  /\ call[c] # Idle
  /\ Quit(c)
  /\ UNCHANGED <<grant, status, leaseOwner, attemptCount, records, drafts>>

\* Nothing sets the token's status to expired: only the clock makes it so.
TokenExpires(k) ==
  /\ "expire" \in Faults
  /\ token[k] # "absent" /\ ~tokenExpired[k]
  /\ tokenExpired' = [tokenExpired EXCEPT ![k] = TRUE]
  /\ UNCHANGED <<token, status, leaseOwner, attemptCount, records, drafts, call>>

Step(c) ==
  \/ CheckFree(c) \/ InsertToken(c) \/ InsertJob(c) \/ Activate(c)
  \/ ReadQueued(c) \/ Lease(c) \/ ReadLeased(c) \/ RunJob(c) \/ InsertAttempt(c)
  \/ ReadHeld(c) \/ FailOrBlock(c) \/ Snapshot(c)
  \/ ReadRunning(c) \/ ReadToken(c) \/ ReadReceipt(c)
  \/ WriteDraft(c) \/ ConnectorRefuses(c) \/ Succeed(c) \/ Consume(c) \/ InsertReceipt(c) \/ RecoveryPoint(c)

Next ==
  \/ \E c \in Call : Begin(c) \/ Step(c) \/ Abort(c)
  \/ \E k \in Key : TokenExpires(k)

Spec == Init /\ [][Next]_vars
-----------------------------------------------------------------------------
(* Properties *)

Phase(k) == IF token[k] = "consumed" THEN "spent"
            ELSE IF drafts[k] > 0 THEN "performed"
            ELSE IF token[k] = "active" THEN "granted" ELSE "ungranted"

GrantPhase == [k \in Key |-> Phase(k)]

Contract == INSTANCE GrantContract WITH phase <- GrantPhase, effects <- drafts

\* While the calls on a job follow one another and none dies, a token is what
\* its abstract specification says: granted once, good for one draft, spent for
\* good, although every write of every operation is unguarded.
ImplementsGrant == Contract!Spec

\* A receipt is the last word: the job it documents has succeeded and its token
\* is spent, wherever the completion was cut off.
ReceiptIsLast ==
  \A k \in Key : receipt[k] # "none" => status[k] = "succeeded" /\ token[k] = "consumed"

\* Even when calls on one job overlap, a receipt is written only after the token
\* was spent, and one that claims real execution only after a draft was written.
ReceiptIsEarned ==
  \A k \in Key :
    /\ receipt[k] # "none" => token[k] = "consumed"
    /\ receipt[k] = "succeeded" => drafts[k] > 0

\* A receipt that says dry run means that the connector did nothing.
DryRunMeansNoDraft ==
  \A k \in Key : receipt[k] = "dry_run" => drafts[k] = 0

\* When no call is in flight, the job has succeeded exactly if its token is
\* spent and its receipt is there.
CompletionIsWhole ==
  \A k \in Key : ~Busy(k) =>
    /\ status[k] = "succeeded" <=> token[k] = "consumed"
    /\ status[k] = "succeeded" <=> receipt[k] # "none"

\* The attempt log of a job claimed by id numbers its rows 1..attemptCount.
AttemptLogMatches ==
  \A k \in Key : ~Busy(k) => {a[1] : a \in attempts[k]} = 1..attemptCount[k]

\* A job that succeeded, failed or was blocked keeps its status.
SettledStays == [][\A k \in Key : status[k] \in Final => status'[k] = status[k]]_vars

\* The token only moves from draft to active to consumed, however issuances and
\* completions overlap and wherever they are cut off, although both write it by id:
\* no run spends a token that is not activated yet, and none is activated again.
TokenOrder ==
  [][\A k \in Key : token'[k] # token[k] =>
       <<token[k], token'[k]>> \in {<<"absent", "draft">>, <<"draft", "active">>,
                                   <<"active", "consumed">>}]_vars

\* When the connector writes, the job is running under an active token and has no
\* receipt, although all of it was read several awaits earlier.
WriteIsAuthorised ==
  [][\A k \in Key : drafts'[k] # drafts[k] =>
       status[k] = "running" /\ token[k] = "active" /\ receipt[k] = "none"]_vars

\* Only the worker that holds the lease moves a leased or running job.
OnlyHolderMoves ==
  [][\A k \in Key : status[k] \in {"leased", "running"} /\ status'[k] # status[k] =>
       \E c \in Call : call[c].key = k /\ call[c].worker = leaseOwner[k]]_vars

-----------------------------------------------------------------------------
(* What the documents say and the code does not do *)

\* Every job has one active lease at a time.
OneActiveLease ==
  [][\A k \in Key : status[k] \in {"leased", "running"}
                      => leaseOwner'[k] = leaseOwner[k]]_vars

\* Completing is idempotent: a job never has a second draft.
OneDraft == \A k \in Key : drafts[k] <= 1

\* A failed or blocked job has a recovery point.
FailureLeavesSnapshot ==
  \A k \in Key : ~Busy(k) /\ status[k] \in {"failed", "blocked"}
                  => "failure_snapshot" \in recovery[k]

\* A real execution has a receipt and a recovery point.
SuccessLeavesRecoveryPoint ==
  \A k \in Key : ~Busy(k) /\ receipt[k] = "succeeded" => "post_execute" \in recovery[k]

\* The attempt log shows that a running job runs.
RunningIsLogged ==
  \A k \in Key : ~Busy(k) /\ status[k] = "running"
                  => \E a \in attempts[k] : a[2] = "running"

\* A job whose token has expired does not start.
ExpiredTokenBlocksStart ==
  [][\A k \in Key : status[k] = "leased" /\ status'[k] = "running"
                      => ~tokenExpired[k]]_vars

\* A job moves only along the table of state-machine.ts.
jobTransitions ==
  {<<"queued", "leased">>, <<"leased", "running">>, <<"leased", "blocked">>,
   <<"running", "succeeded">>, <<"running", "failed">>, <<"running", "blocked">>}

FollowsTable ==
  [][\A k \in Key : status[k] # "absent" /\ status'[k] # status[k]
                      => <<status[k], status'[k]>> \in jobTransitions]_vars
=============================================================================
