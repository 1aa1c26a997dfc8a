---------------------------- MODULE WorkerQueue ----------------------------
(***************************************************************************)
(* The Sprint 23 worker daemon and its task queue: the TaskQueueJob rows    *)
(* (src/lib/worker/repository.ts) and the ExecutionWorker processes that    *)
(* poll, lease, execute and settle them (execution-worker.ts), as the code  *)
(* is wired: nothing calls the lease reaper (reclaimExpiredLeases), which is *)
(* therefore no action of this module.                                       *)
(*                                                                          *)
(* Every await is a place where the processes interleave: an action is one  *)
(* database operation together with the local code that runs when its       *)
(* answer arrives.  A poll is one pollAndExecute invocation, a run is one   *)
(* executeJobAsync invocation.  What the job does is abstracted to its      *)
(* three outcomes: a result, a blocking error, any other error (timeouts    *)
(* included).  A row whose scheduledAt is still in the future is "absent".  *)
(***************************************************************************)
EXTENDS Naturals, Sequences, FiniteSets

CONSTANTS
  Job,            \* rows of task_queue_jobs that may ever be created
  Worker,         \* worker identities (WORKER_ID), one process each
  PollSlot,       \* pollAndExecute calls of one process that may overlap
  RunSlot,        \* executeJobAsync calls of one process that may overlap
  None,           \* SQL NULL
  JobKey,         \* idempotencyKey of a row, or None
  Priority,       \* priority of a row, 0 first
  Requires,       \* requiredCapabilities of a row
  Capabilities,   \* capabilities of a worker
  MaxRetries,     \* maxRetries of a row
  MaxConcurrent,  \* WORKER_MAX_CONCURRENT
  AttemptBound,   \* attemptCount saturates here (bound of the model)
  Faults          \* what the environment may do: "crash", "stop",
                  \* "deadline" (30s drain timeout), "dberror"

ASSUME JobAssumption ==
  /\ IsFiniteSet(Job)
  /\ None \notin Job \cup Worker
  /\ MaxRetries \in [Job -> Nat]
  /\ Priority \in [Job -> Nat]

ASSUME ConcurrencyAssumption == MaxConcurrent \in Nat \ {0}

ASSUME BoundAssumption ==
  /\ AttemptBound \in Nat
  /\ \A j \in Job : MaxRetries[j] + 1 < AttemptBound

VARIABLES
  status,         \* TaskQueueJob.status
  owner,          \* TaskQueueJob.assignedWorkerId
  lease,          \* TaskQueueJob.leaseExpiresAt against the clock
  retryCount,     \* TaskQueueJob.retryCount
  attemptCount,   \* TaskQueueJob.attemptCount
  earlier,        \* the rows whose scheduledAt comes before a row's
  creating,       \* createTaskQueueJob calls past their findUnique
  proc,           \* the process: "down", "online", "draining" once stop() ran,
                  \* "leaving" once stop() saw the drain over
  active,         \* WorkerRuntimeState.activeJobIds
  poll,           \* pollAndExecute invocations
  run             \* executeJobAsync invocations

row  == <<status, owner, lease, retryCount, attemptCount, earlier>>
vars == <<status, owner, lease, retryCount, attemptCount, earlier,
          creating, proc, active, poll, run>>

Poll == Worker \X PollSlot
Run  == Worker \X RunSlot

Leased  == {"assigned", "running"}
Settled == {"completed", "blocked", "dead_letter"}
Status  == {"absent", "pending"} \cup Leased \cup Settled

IdlePoll == [pc |-> "idle", limit |-> 0, found |-> <<>>, job |-> None]
IdleRun  == [pc |-> "idle", job |-> None, retry |-> 0]

TypeOK ==
  /\ status \in [Job -> Status]
  /\ owner \in [Job -> Worker \cup {None}]
  /\ lease \in [Job -> {"null", "live", "expired"}]
  /\ retryCount \in [Job -> Nat]
  /\ attemptCount \in [Job -> Nat]
  /\ earlier \in [Job -> SUBSET Job]
  /\ creating \in SUBSET Job
  /\ proc \in [Worker -> {"down", "online", "draining", "leaving"}]
  /\ active \in [Worker -> SUBSET Job]
  /\ poll \in [Poll -> [pc : {"idle", "find", "lease", "read"}, limit : Nat,
                        found : Seq(Job), job : Job \cup {None}]]
  /\ run \in [Run -> [pc : {"idle", "mark", "work", "fail", "blocked", "finally"},
                      job : Job \cup {None}, retry : Nat]]

Init ==
  /\ status = [j \in Job |-> "absent"]
  /\ owner = [j \in Job |-> None]
  /\ lease = [j \in Job |-> "null"]
  /\ retryCount = [j \in Job |-> 0]
  /\ attemptCount = [j \in Job |-> 0]
  /\ earlier = [j \in Job |-> {}]
  /\ creating = {}
  /\ proc = [w \in Worker |-> "down"]
  /\ active = [w \in Worker |-> {}]
  /\ poll = [p \in Poll |-> IdlePoll]
  /\ run = [r \in Run |-> IdleRun]

-----------------------------------------------------------------------------
(* Enqueueing: createTaskQueueJob reads the idempotency key, then inserts.  *)

\* scheduledAt of j becomes the present.
ScheduledNow(j) ==
  [i \in Job |-> IF i = j THEN Job \ {j} ELSE earlier[i] \ {j}]

KeyTaken(j) ==
  /\ JobKey[j] # None
  /\ \E i \in Job : status[i] # "absent" /\ JobKey[i] = JobKey[j]

InsertConflict(j) == KeyTaken(j)

\* The findUnique of the key: an existing row is returned and nothing changes.
CreateCheck(j) ==
  /\ status[j] = "absent" /\ j \notin creating
  /\ ~KeyTaken(j)
  /\ creating' = creating \cup {j}
  /\ UNCHANGED <<row, proc, active, poll, run>>

\* The insert: the unique index on idempotencyKey rejects the second of two
\* callers that both passed the check.
CreateInsert(j) ==
  /\ j \in creating
  /\ creating' = creating \ {j}
  /\ \/ /\ InsertConflict(j)
        /\ UNCHANGED row
     \/ /\ ~InsertConflict(j)
        /\ status' = [status EXCEPT ![j] = "pending"]
        /\ earlier' = ScheduledNow(j)
        /\ UNCHANGED <<owner, lease, retryCount, attemptCount>>
  /\ UNCHANGED <<proc, active, poll, run>>

-----------------------------------------------------------------------------
(* findPendingJobs: order by (priority, scheduledAt), take twice the limit,  *)
(* drop the rows whose capabilities the worker lacks, keep the limit.        *)

Ahead(i, j) ==
  \/ Priority[i] < Priority[j]
  \/ /\ Priority[i] = Priority[j]
     /\ i \in earlier[j]

FirstOf(n, S) == {j \in S : Cardinality({i \in S : Ahead(i, j)}) < n}

Pending == {j \in Job : status[j] = "pending"}

FindPending(w, limit) ==
  FirstOf(limit, {j \in FirstOf(2 * limit, Pending) :
                    Requires[j] \subseteq Capabilities[w]})

InOrder(S, s) == \A a, b \in DOMAIN s : a < b => Ahead(s[a], s[b])

-----------------------------------------------------------------------------
(* pollAndExecute *)

Full(w) == Cardinality(active[w]) >= MaxConcurrent

\* What the for loop does with the jobs that are left: stop on shutdown or
\* when the worker is full, otherwise try to lease the next one.
NextInLoop(w, left, full) ==
  IF left = <<>> \/ proc[w] # "online" \/ full THEN IdlePoll
  ELSE [pc |-> "lease", limit |-> 0, found |-> left, job |-> None]

\* setInterval fires whether or not an earlier poll has returned.
PollBegin(p) ==
  LET w == p[1] IN
  /\ proc[w] = "online"
  /\ poll[p].pc = "idle"
  /\ ~Full(w)
  /\ poll' = [poll EXCEPT ![p] =
       [pc |-> "find", limit |-> MaxConcurrent - Cardinality(active[w]),
        found |-> <<>>, job |-> None]]
  /\ UNCHANGED <<row, creating, proc, active, run>>

PollFind(p) ==
  LET w == p[1]
      S == FindPending(w, poll[p].limit) IN
  /\ poll[p].pc = "find"
  /\ \E s \in [1..Cardinality(S) -> S] :
       /\ InOrder(S, s)
       /\ poll' = [poll EXCEPT ![p] = NextInLoop(w, s, Full(w))]
  /\ UNCHANGED <<row, creating, proc, active, run>>

\* A plausible defect: the compare-and-set forgets the status, and takes a
\* row that another worker already leased.
LeasableUnguarded(j) == status[j] \in {"pending", "assigned"}
Leasable(j) == status[j] = "pending"

\* tryLeaseJob, the updateMany guarded by status = 'pending'.
PollLease(p) ==
  /\ poll[p].pc = "lease"
  /\ \E j \in Job :
       /\ j = Head(poll[p].found)
       /\ \/ /\ Leasable(j)
             /\ status' = [status EXCEPT ![j] = "assigned"]
             /\ owner' = [owner EXCEPT ![j] = p[1]]
             /\ lease' = [lease EXCEPT ![j] = "live"]
             /\ attemptCount' = [attemptCount EXCEPT
                    ![j] = IF @ < AttemptBound THEN @ + 1 ELSE @]
             /\ poll' = [poll EXCEPT ![p] =
                    [pc |-> "read", limit |-> 0, found |-> poll[p].found, job |-> j]]
             /\ UNCHANGED <<retryCount, earlier>>
          \/ /\ ~Leasable(j)
             /\ poll' = [poll EXCEPT ![p] =
                    NextInLoop(p[1], Tail(poll[p].found), Full(p[1]))]
             /\ UNCHANGED row
  /\ UNCHANGED <<creating, proc, active, run>>

\* A plausible defect: the job enters activeJobIds only after the first await.
ActivatedLater(w, j) == active[w]
Activated(w, j) == active[w] \cup {j}

\* tryLeaseJob's second query reads the row back; then executeJobAsync runs up
\* to its first await: the job enters activeJobIds whatever the shutdown flag
\* says, and the loop goes on.
PollClaim(p) ==
  LET w == p[1]
      j == poll[p].job
      nowActive == Activated(w, j) IN
  /\ poll[p].pc = "read"
  /\ \E r \in Run :
       /\ r[1] = w /\ run[r].pc = "idle"
       /\ run' = [run EXCEPT ![r] =
                    [pc |-> "mark", job |-> j, retry |-> retryCount[j]]]
  /\ active' = [active EXCEPT ![w] = nowActive]
  /\ poll' = [poll EXCEPT ![p] =
       NextInLoop(w, Tail(poll[p].found),
                  Cardinality(nowActive) >= MaxConcurrent)]
  /\ UNCHANGED <<row, creating, proc>>

\* A query of the poll fails: pollAndExecute logs the error and returns, even
\* when the row is already leased and was only to be read back.
PollError(p) ==
  /\ "dberror" \in Faults
  /\ poll[p].pc # "idle"
  /\ poll' = [poll EXCEPT ![p] = IdlePoll]
  /\ UNCHANGED <<row, creating, proc, active, run>>

-----------------------------------------------------------------------------
(* executeJobAsync.  None of its writes looks at the row's owner or status. *)

RunAt(r, pc) == [run EXCEPT ![r].pc = pc]

\* updateJobStatus(job.id, 'running')
RunMark(r) ==
  /\ run[r].pc = "mark"
  /\ status' = [status EXCEPT ![run[r].job] = "running"]
  /\ run' = RunAt(r, "work")
  /\ UNCHANGED <<owner, lease, retryCount, attemptCount, earlier,
                 creating, proc, active, poll>>

\* The job returned a result: completeJob.
RunComplete(r) ==
  /\ run[r].pc = "work"
  /\ status' = [status EXCEPT ![run[r].job] = "completed"]
  /\ run' = RunAt(r, "finally")
  /\ UNCHANGED <<owner, lease, retryCount, attemptCount, earlier,
                 creating, proc, active, poll>>

\* The job threw a blocking error: blockJob, then blockHarmonyTaskFromWorker,
\* which leaves the queue alone but may reject.
RunBlock(r) ==
  LET j == run[r].job IN
  /\ run[r].pc = "work"
  /\ status' = [status EXCEPT ![j] = "blocked"]
  /\ owner' = [owner EXCEPT ![j] = None]
  /\ lease' = [lease EXCEPT ![j] = "null"]
  /\ run' = RunAt(r, "blocked")
  /\ UNCHANGED <<retryCount, attemptCount, earlier, creating, proc, active, poll>>

\* requeueJob: pending again, scheduledAt is now.
Requeued(j, n) ==
  /\ status' = [status EXCEPT ![j] = "pending"]
  /\ retryCount' = [retryCount EXCEPT ![j] = n]
  /\ earlier' = ScheduledNow(j)

\* deadLetterJob: never pending again.
DeadLettered(j) ==
  /\ status' = [status EXCEPT ![j] = "dead_letter"]
  /\ UNCHANGED <<retryCount, earlier>>

\* A plausible defect: an off-by-one in the retry budget.
RetryLeftOffByOne(j, n) == n <= MaxRetries[j]
RetryLeft(j, n) == n < MaxRetries[j]

\* The job threw anything else, a timeout included, or an earlier write of the
\* try block failed: requeueJob with the retry count of the claimed record
\* plus one, or deadLetterJob.
RunFail(r) ==
  LET j == run[r].job
      n == run[r].retry IN
  /\ run[r].pc \in {"work", "fail"}
  /\ \/ RetryLeft(j, n) /\ Requeued(j, n + 1)
     \/ ~RetryLeft(j, n) /\ DeadLettered(j)
  /\ owner' = [owner EXCEPT ![j] = None]
  /\ lease' = [lease EXCEPT ![j] = "null"]
  /\ run' = RunAt(r, "finally")
  /\ UNCHANGED <<attemptCount, creating, proc, active, poll>>

\* A write of the try block fails: control goes to the catch block.
RunTryError(r) ==
  /\ "dberror" \in Faults
  /\ run[r].pc \in {"mark", "work"}
  /\ run' = RunAt(r, "fail")
  /\ UNCHANGED <<row, creating, proc, active, poll>>

\* A write of the catch block fails: finally runs, executeJobAsync rejects, and
\* the unhandledRejection handler of worker-start.ts stops the worker.
RunCatchError(r) ==
  LET w == r[1] IN
  /\ "dberror" \in Faults
  /\ run[r].pc \in {"fail", "blocked"}
  /\ active' = [active EXCEPT ![w] = @ \ {run[r].job}]
  /\ run' = [run EXCEPT ![r] = IdleRun]
  /\ proc' = [proc EXCEPT ![w] = IF @ = "online" THEN "draining" ELSE @]
  /\ UNCHANGED <<row, creating, poll>>

\* A plausible defect: the finally block forgets the slot.
FinallyKeepsSlot(r) ==
  /\ run[r].pc \in {"blocked", "finally"}
  /\ run' = [run EXCEPT ![r] = IdleRun]
  /\ UNCHANGED <<row, creating, proc, active, poll>>

\* The finally block, once the answer of the last write has arrived.
RunFinally(r) ==
  LET w == r[1] IN
  /\ run[r].pc \in {"blocked", "finally"}
  /\ active' = [active EXCEPT ![w] = @ \ {run[r].job}]
  /\ run' = [run EXCEPT ![r] = IdleRun]
  /\ UNCHANGED <<row, creating, proc, poll>>

-----------------------------------------------------------------------------
(* Process life cycle and time *)

Start(w) ==
  /\ proc[w] = "down"
  /\ proc' = [proc EXCEPT ![w] = "online"]
  /\ UNCHANGED <<row, creating, active, poll, run>>

\* stop(): no further poll starts; polls and runs in flight go on.
Stop(w) ==
  /\ "stop" \in Faults
  /\ proc[w] = "online"
  /\ proc' = [proc EXCEPT ![w] = "draining"]
  /\ UNCHANGED <<row, creating, active, poll, run>>

\* The process ends: its memory is gone, the rows stay as they are.
ProcessGone(w) ==
  /\ proc' = [proc EXCEPT ![w] = "down"]
  /\ active' = [active EXCEPT ![w] = {}]
  /\ poll' = [p \in Poll |-> IF p[1] = w THEN IdlePoll ELSE poll[p]]
  /\ run' = [r \in Run |-> IF r[1] = w THEN IdleRun ELSE run[r]]
  /\ UNCHANGED <<row, creating>>

\* stop() sees activeJobIds empty, or its 30 second deadline passes.
Drained(w) ==
  /\ proc[w] = "draining"
  /\ active[w] = {} \/ "deadline" \in Faults
  /\ proc' = [proc EXCEPT ![w] = "leaving"]
  /\ UNCHANGED <<row, creating, active, poll, run>>

\* deregisterWorker has answered: process.exit(0), whatever is in flight.
Exit(w) ==
  /\ proc[w] = "leaving"
  /\ ProcessGone(w)

Crash(w) ==
  /\ "crash" \in Faults
  /\ proc[w] # "down"
  /\ ProcessGone(w)

\* The clock passes leaseExpiresAt.  The daemon's heartbeat does not extend it,
\* and timeoutMs of a row may exceed the lease.
LeaseExpires(j) ==
  /\ status[j] \in Leased /\ lease[j] = "live"
  /\ lease' = [lease EXCEPT ![j] = "expired"]
  /\ UNCHANGED <<status, owner, retryCount, attemptCount, earlier,
                 creating, proc, active, poll, run>>

PollStep(p) ==
  \/ PollBegin(p) \/ PollFind(p) \/ PollLease(p) \/ PollClaim(p)
  \/ PollError(p)

RunStep(r) ==
  \/ RunMark(r) \/ RunComplete(r) \/ RunBlock(r) \/ RunFail(r)
  \/ RunTryError(r) \/ RunCatchError(r) \/ RunFinally(r)

Next ==
  \/ \E j \in Job : CreateCheck(j) \/ CreateInsert(j) \/ LeaseExpires(j)
  \/ \E p \in Poll : PollStep(p)
  \/ \E r \in Run : RunStep(r)
  \/ \E w \in Worker : Start(w) \/ Stop(w) \/ Drained(w) \/ Exit(w) \/ Crash(w)

Spec == Init /\ [][Next]_vars

\* The event loop of a live process runs what is ready: timers, answers of the
\* database, and the job itself, which its timeout bounds.  Nothing is assumed
\* of crashes, signals, database errors or callers; an operator starts a worker
\* that is down.
Fairness ==
  /\ \A p \in Poll : /\ WF_vars(PollBegin(p)) /\ WF_vars(PollFind(p))
                     /\ WF_vars(PollLease(p)) /\ WF_vars(PollClaim(p))
  /\ \A r \in Run : /\ WF_vars(RunMark(r)) /\ WF_vars(RunFinally(r))
                    /\ WF_vars(RunComplete(r) \/ RunBlock(r) \/ RunFail(r))
  /\ \A w \in Worker : WF_vars(Start(w)) /\ WF_vars(Drained(w)) /\ WF_vars(Exit(w))
  /\ \A j \in Job : WF_vars(CreateInsert(j)) /\ WF_vars(LeaseExpires(j))

FairSpec == Spec /\ Fairness

-----------------------------------------------------------------------------
(* Properties *)

StateOf(st) == IF st \in Leased THEN "held"
               ELSE IF st \in Settled THEN "settled"
               ELSE IF st = "pending" THEN "ready" ELSE "absent"

\* A job is held by the worker its row names while it is leased.
AbstractState  == [j \in Job |-> StateOf(status[j])]
AbstractHolder == [j \in Job |-> IF status[j] \in Leased THEN owner[j] ELSE None]

Contract == INSTANCE JobContract WITH
  state <- AbstractState, holder <- AbstractHolder, tries <- attemptCount

\* The queue implements the contract of its abstract specification: a job is
\* held by one worker at a time, at most maxRetries + 1 times in all, is given
\* back only by the run that holds it, and is final once settled.
ImplementsContract == Contract!Spec

Executing(r) == run[r].pc \in {"mark", "work", "fail"}
Claiming(p)  == poll[p].pc = "read"

\* No two invocations, of one worker or of two, execute the same queue job:
\* what the compare-and-set of tryLeaseJob is for.  It must survive crashes,
\* requeues and overlapping polls, because no later write checks the owner.
NoDuplicateExecution ==
  /\ \A r, s \in Run :
       Executing(r) /\ Executing(s) /\ run[r].job = run[s].job => r = s
  /\ \A p \in Poll, r \in Run :
       Claiming(p) /\ Executing(r) => poll[p].job # run[r].job
  /\ \A p, q \in Poll :
       Claiming(p) /\ Claiming(q) /\ poll[p].job = poll[q].job => p = q

\* Whoever executes a job is the worker its row names, and the retry count it
\* captured is still the row's: the unguarded writes of executeJobAsync are
\* right only while this holds.
ExecutorOwnsRow ==
  \A r \in Run : Executing(r) =>
    LET j == run[r].job IN
    /\ status[j] \in Leased
    /\ owner[j] = r[1]
    /\ run[r].retry = retryCount[j]

\* attemptCount and retryCount, written by different statements, stay in step:
\* a job is leased at most maxRetries + 1 times, and is dead-lettered only
\* after exactly that many leases.
RetryBudget ==
  \A j \in Job :
    /\ retryCount[j] <= MaxRetries[j]
    /\ attemptCount[j] <= MaxRetries[j] + 1
    /\ status[j] = "dead_letter" => attemptCount[j] = MaxRetries[j] + 1

\* What holds of the calls in flight: a poll that leases has a job to lease, a
\* leased row waits for the poll that leased it, a run has a job, and a row
\* about to be inserted is not there yet.
InFlight ==
  /\ \A p \in Poll :
       /\ poll[p].pc \in {"lease", "read"} => poll[p].found # <<>>
       /\ Claiming(p) => /\ poll[p].job \in Job
                         /\ status[poll[p].job] = "assigned"
                         /\ owner[poll[p].job] = p[1]
  /\ \A r \in Run : run[r].pc # "idle" => run[r].job \in Job
  /\ \A j \in creating : status[j] = "absent"

\* The two counters of a row, by its status.
Counts ==
  \A j \in Job :
    /\ retryCount[j] <= MaxRetries[j]
    /\ status[j] = "absent" => retryCount[j] = 0 /\ attemptCount[j] = 0
    /\ status[j] = "pending" => attemptCount[j] = retryCount[j]
    /\ status[j] \in Leased \cup Settled => attemptCount[j] = retryCount[j] + 1
    /\ status[j] = "dead_letter" => retryCount[j] = MaxRetries[j]

\* Some run or poll of a live process has the job in hand.
Attended(j) ==
  \/ \E r \in Run : Executing(r) /\ run[r].job = j
  \/ \E p \in Poll : Claiming(p) /\ poll[p].job = j

\* The inductive invariant: every property of this module that is a safety
\* property of the rows follows from it.  No write of executeJobAsync looks at
\* the row, so what keeps a row right is that its one executor is known.
QueueInv ==
  TypeOK /\ InFlight /\ Counts /\ ExecutorOwnsRow /\ NoDuplicateExecution

\* Completed, blocked and dead-lettered jobs are never touched again, although
\* completeJob, blockJob, requeueJob and deadLetterJob update by id alone.
SettledForever ==
  [][\A j \in Job : status[j] \in Settled => status'[j] = status[j]]_vars

\* A leased row that nobody has in hand, its process having died or one of its
\* queries having failed, is never written or taken up again: no statement of the
\* daemon picks up a leased row, and the reaper that would is called by no code.
AbandonedStays ==
  [][\A j \in Job : status[j] \in Leased /\ ~Attended(j)
       => status'[j] = status[j] /\ owner'[j] = owner[j] /\ ~Attended(j)']_vars

\* One idempotency key has one row, however its callers interleave.
IdempotentEnqueue ==
  \A i, j \in Job :
    /\ status[i] # "absent" /\ status[j] # "absent"
    /\ JobKey[i] = JobKey[j] /\ JobKey[i] # None
    => i = j

\* A worker executes only jobs whose required capabilities it declares.
CapabilityRespected ==
  \A r \in Run : Executing(r) => Requires[run[r].job] \subseteq Capabilities[r[1]]

\* A worker never executes more than MaxConcurrent jobs at once, although the
\* check and the start of the job are separated by two database calls.  The code
\* keeps it for the default of one job, while polls do not overlap.  With more, a
\* worker may lease the row its own run has just requeued, before the finally
\* block of that run takes the job, then executed anew, out of activeJobIds.
MaxConcurrentRespected ==
  \A w \in Worker :
    Cardinality({r \in Run : r[1] = w /\ Executing(r)}) <= MaxConcurrent

\* activeJobIds holds every job in execution: the shutdown wait and the
\* concurrency check both count it.
ActiveCoversRuns ==
  \A r \in Run : Executing(r) => run[r].job \in active[r[1]]

\* Every job that is queued is settled in the end.
EveryJobSettles ==
  \A j \in Job : (status[j] = "pending") ~> (status[j] \in Settled)

\* A job whose lease ran out does not stay leased for ever.
ExpiredLeaseReclaimed ==
  \A j \in Job : (status[j] \in Leased /\ lease[j] = "expired")
                   ~> ~(status[j] \in Leased /\ lease[j] = "expired")

\* A queued job that some worker is capable of is claimed in the end.
CapableJobIsClaimed ==
  \A j \in Job :
    (status[j] = "pending"
       /\ \E w \in Worker : Requires[j] \subseteq Capabilities[w])
    ~> (status[j] # "pending")

\* A worker whose drain ended with no active job leaves no row leased to it
\* when its process exits: a graceful shutdown abandons nothing.
GracefulExitAbandonsNothing ==
  [][\A w \in Worker :
       proc[w] = "leaving" /\ proc'[w] = "down"
       => ~ \E j \in Job : owner[j] = w /\ status[j] \in Leased]_vars
=============================================================================
