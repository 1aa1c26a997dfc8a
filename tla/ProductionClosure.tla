-------------------------- MODULE ProductionClosure --------------------------
(***************************************************************************)
(* The production execution closure (executeRuntimeDispatchQueueJob and its *)
(* neighbours in src/lib/worker/execution-worker.ts): a TaskQueueJob is the  *)
(* envelope in which the daemon runs the queued RuntimeDispatchJob of a     *)
(* task and carries its receipt, or its refusal, to the HarmonyTask.        *)
(* It composes the rows of WorkerQueue, reduced to what their contract says *)
(* (one executor at a time, a bounded number of retries), with all of       *)
(* RuntimeDispatch, call by call.                                           *)
(*                                                                          *)
(* A key of RuntimeDispatch stands for one task with its one dispatch job   *)
(* and its one queue job.  A running queue row is written by its executor    *)
(* alone and looked at by nobody else, so that the executor's write is made, *)
(* or fails, in the step that decides it.  executeWithTimeout rejects but    *)
(* does not cancel: the function it waited for goes on, no longer awaited.   *)
(***************************************************************************)
EXTENDS RuntimeDispatch

CONSTANTS
  Exec,        \* invocations of executeRuntimeDispatchQueueJob in flight
  Mode,        \* configurations of the daemons: "runDry", "runWrite", or
               \* "unarmed": WORKER_RUNTIME_MODE without WORKER_EXECUTE_REAL
  MaxRetries   \* maxRetries of the queue jobs

\* A function makes its runtime calls under its own name.
ASSUME ExecAssumption == Exec \subseteq Call
ASSUME ModeAssumption == Mode \subseteq {"runDry", "runWrite", "unarmed"}
ASSUME RetryAssumption == MaxRetries \in Nat

VARIABLES
  queue,       \* TaskQueueJob.status
  retry,       \* TaskQueueJob.retryCount
  task,        \* HarmonyTask.status
  intents,     \* <<task, event>>: a user or agent has read the task for an event
  fn,          \* the invocations
  daemon,      \* Worker -> its process: "down", "online", or "draining" in stop()
  lost         \* history: queue jobs whose executor was gone before it settled them

runtime == vars
tasks   == <<task, intents>>
process == <<daemon, lost>>
cvars   == <<queue, retry, task, intents, fn, daemon, lost>>

QueueSettled == {"completed", "blocked", "dead_letter"}

IdleFn == [pc |-> "idle", key |-> None, worker |-> None, awaited |-> FALSE,
           event |-> "NONE", saw |-> "none"]

\* The events that come from elsewhere.
Others == {"CANCEL", "ASSIGN_PLACEHOLDER"}

TaskStatus == {"queued", "assigned", "completed", "blocked", "cancelled"}

ClosureTypeOK ==
  /\ TypeOK
  /\ queue \in [Key -> {"absent", "pending", "running"} \cup QueueSettled]
  /\ retry \in [Key -> 0..MaxRetries]
  /\ task \in [Key -> TaskStatus]
  /\ intents \in SUBSET (Key \X Others)
  /\ fn \in [Exec -> [pc : {"idle", "list", "run", "read", "write", "done"},
                      key : Key \cup {None}, worker : Worker \cup {None},
                      awaited : BOOLEAN, event : {"NONE", "MARK_COMPLETED", "BLOCK"},
                      saw : TaskStatus \cup {"none"}]]
  /\ daemon \in [Worker -> {"down", "online", "draining"}]
  /\ lost \in SUBSET Key

\* The task was routed and approved before its runtime job is issued.
ClosureInit ==
  /\ Init
  /\ queue = [k \in Key |-> "absent"]
  /\ retry = [k \in Key |-> 0]
  /\ task \in [Key -> {"queued", "assigned"}]
  /\ intents = {}
  /\ fn = [e \in Exec |-> IdleFn]
  /\ daemon = [w \in Worker |-> "down"]
  /\ lost = {}

-----------------------------------------------------------------------------
(* Harmony tasks: the transitions that concern the closure                  *)

transitions == [
  MARK_COMPLETED     |-> [from |-> {"assigned"},           to |-> "completed"],
  BLOCK              |-> [from |-> {"queued", "assigned"}, to |-> "blocked"],
  CANCEL             |-> [from |-> {"queued", "assigned"}, to |-> "cancelled"],
  ASSIGN_PLACEHOLDER |-> [from |-> {"queued"},             to |-> "assigned"] ]

\* A user cancels a task, or the agent runtime assigns it after an analysis that
\* may take long: both read the task and check the table, then write by id.
Intends(k, ev) ==
  /\ task[k] \in transitions[ev].from
  /\ intents' = intents \cup {<<k, ev>>}
  /\ UNCHANGED <<runtime, queue, retry, task, fn, process>>

Carries(k, ev) ==
  /\ <<k, ev>> \in intents
  /\ intents' = intents \ {<<k, ev>>}
  /\ task' = [task EXCEPT ![k] = transitions[ev].to]
  /\ UNCHANGED <<runtime, queue, retry, fn, process>>

-----------------------------------------------------------------------------
(* How an invocation ends: what executeJobAsync makes of it if it still     *)
(* waits for it, and nothing otherwise.                                     *)

Ends(e) == fn' = [fn EXCEPT ![e] = IdleFn]

Notify(e, event) == fn' = [fn EXCEPT ![e].pc = "read", ![e].event = event]

\* A plausible defect: the job is not given back to the queue.
RequeueForgotten(k) ==
  /\ retry[k] < MaxRetries
  /\ retry' = [retry EXCEPT ![k] = @ + 1]
  /\ UNCHANGED queue

Requeue(k) ==
  /\ retry[k] < MaxRetries
  /\ retry' = [retry EXCEPT ![k] = @ + 1]
  /\ queue' = [queue EXCEPT ![k] = "pending"]

DeadLetter(k) ==
  /\ retry[k] = MaxRetries
  /\ queue' = [queue EXCEPT ![k] = "dead_letter"]
  /\ UNCHANGED retry

\* executeJobAsync rejects: the unhandledRejection handler of worker-start.ts
\* stops the daemon.
Rejects(e) == daemon' = [daemon EXCEPT ![fn[e].worker] = "draining"]

\* The write of the catch block fails: the row stays running.
CatchFails(e) ==
  /\ "abort" \in Faults
  /\ Rejects(e)
  /\ lost' = lost \cup {fn[e].key}
  /\ UNCHANGED <<queue, retry>>

RetryOrDie(e) ==
  \/ Requeue(fn[e].key) /\ UNCHANGED process
  \/ DeadLetter(fn[e].key) /\ UNCHANGED process
  \/ CatchFails(e)

\* Nobody waits any more: the race of executeWithTimeout swallows how it ends.
Unheard(e) == ~fn[e].awaited /\ UNCHANGED <<queue, retry, process>>

\* An error that isBlockingRuntimeError: the queue job is blocked, then the task.
Blocked(e) ==
  \/ /\ fn[e].awaited /\ Notify(e, "BLOCK")
     /\ queue' = [queue EXCEPT ![fn[e].key] = "blocked"]
     /\ UNCHANGED <<retry, process>>
  \/ fn[e].awaited /\ Ends(e) /\ CatchFails(e)
  \/ Ends(e) /\ Unheard(e)

\* A plausible defect: every error blocks the task.
ErroredBlocks(e) ==
  \/ fn[e].awaited /\ Notify(e, "BLOCK") /\ RetryOrDie(e)
  \/ Ends(e) /\ Unheard(e)

\* Any other error.
Errored(e) ==
  /\ Ends(e)
  /\ \/ fn[e].awaited /\ RetryOrDie(e)
     \/ Unheard(e)

Completed(e) ==
  /\ Ends(e)
  /\ queue' = IF fn[e].awaited THEN [queue EXCEPT ![fn[e].key] = "completed"]
              ELSE queue
  /\ UNCHANGED <<retry, process>>

-----------------------------------------------------------------------------
(* The daemons, the queue job and its execution *)

\* worker.start(): an operator restarts a process that is down.
StartDaemon(w) ==
  /\ daemon[w] = "down"
  /\ daemon' = [daemon EXCEPT ![w] = "online"]
  /\ UNCHANGED <<runtime, queue, retry, tasks, fn, lost>>

\* The daemon waits for this invocation, and the queue job is not decided.
Executes(e) == fn[e].awaited /\ fn[e].event # "BLOCK"

\* stop() has waited for the active jobs, 30 seconds at most, and the process
\* exits: with it goes all it was doing.
ExitDaemon(w) ==
  LET gone == {e \in Exec : fn[e].worker = w} IN
  /\ daemon[w] = "draining"
  /\ daemon' = [daemon EXCEPT ![w] = "down"]
  /\ fn' = [e \in Exec |-> IF e \in gone THEN IdleFn ELSE fn[e]]
  /\ call' = [c \in Call |-> IF c \in gone THEN Idle ELSE call[c]]
  /\ lost' = lost \cup {fn[e].key : e \in {g \in gone : Executes(g)}}
  /\ UNCHANGED <<grant, status, leaseOwner, attemptCount, records, drafts,
                 queue, retry, tasks>>

Enqueue(k) ==
  /\ queue[k] = "absent"
  /\ queue' = [queue EXCEPT ![k] = "pending"]
  /\ UNCHANGED <<runtime, retry, tasks, fn, process>>

Claimable(k) == queue[k] = "pending"

\* tryLeaseJob and the start of executeJobAsync; a poll in flight does not look
\* whether its daemon is stopping.  tryLeaseJob reads the leased row back: if that
\* query fails, the poll gives up, and nobody has the row.
ClaimJob(w, k) ==
  /\ Claimable(k)
  /\ daemon[w] # "down"
  /\ queue' = [queue EXCEPT ![k] = "running"]
  /\ \/ /\ \E e \in Exec :
             /\ fn[e] = IdleFn
             /\ fn' = [fn EXCEPT ![e] = [IdleFn EXCEPT !.pc = "list", !.key = k,
                                               !.worker = w, !.awaited = TRUE]]
        /\ UNCHANGED lost
     \/ "abort" \in Faults /\ lost' = lost \cup {k} /\ UNCHANGED fn
  /\ UNCHANGED <<runtime, retry, tasks, daemon>>

\* A plausible defect: nothing to execute counts as done.
NothingListedCompletes(e) == Completed(e)
NothingListed(e) == Blocked(e)

\* listRuntimeDispatchJobs answers: the one queued job of the task is run, by a
\* daemon of some mode, unless that mode refuses before the first query.  A job
\* outside the connector boundary ends like one that an unarmed daemon finds.
List(e) ==
  LET k == fn[e].key IN
  /\ fn[e].pc = "list"
  /\ \/ /\ status[k] = "queued"
        /\ \E op \in Mode \ {"unarmed"} :
             call' = [call EXCEPT ![e] = [op |-> op, key |-> k, worker |-> fn[e].worker,
                                          count |-> 0, todo |-> Program[op]]]
        /\ fn' = [fn EXCEPT ![e].pc = "run"]
        /\ UNCHANGED <<queue, retry, process>>
     \/ status[k] = "queued" /\ "unarmed" \in Mode /\ Blocked(e) /\ UNCHANGED call
     \/ status[k] # "queued" /\ NothingListed(e) /\ UNCHANGED call
  /\ UNCHANGED <<grant, status, leaseOwner, attemptCount, records, drafts, tasks>>

Reads == {"readQueued", "readLeased", "readRunning", "readToken", "readReceipt"}

\* advanceHarmonyTaskFromRuntimeReceipt: what a receipt means for the task.
EventOf(r) == IF r = "succeeded" THEN "MARK_COMPLETED" ELSE "NONE"

\* The call has ended at the given step: a failed check is a 409, a rejected
\* insert an error of the database, a refusal of the connector either of them.
Outcome(e, step) ==
  \/ /\ step = "recoverLatest"
     /\ Notify(e, EventOf(receipt[fn[e].key]))
     /\ UNCHANGED <<queue, retry, process>>
  \/ step \in Reads \cup {"write"} /\ Blocked(e)
  \/ step \notin Reads \cup {"recoverLatest"} /\ Errored(e)

\* The next await of runRuntimeDispatchJobOnce.
RunOnce(e) ==
  /\ fn[e].pc = "run"
  /\ Step(e)
  /\ \/ call'[e] # Idle /\ UNCHANGED <<queue, retry, fn, process>>
     \/ call'[e] = Idle /\ Outcome(e, Head(call[e].todo))
  /\ UNCHANGED tasks

\* advanceHarmonyTaskFromRuntimeReceipt and blockHarmonyTaskFromWorker read the
\* task, look the event up in the table, and write by id.
ReadTask(e) ==
  /\ fn[e].pc = "read"
  /\ fn' = [fn EXCEPT ![e].pc = "write", ![e].saw = task[fn[e].key]]
  /\ UNCHANGED <<runtime, queue, retry, tasks, process>>

WriteTask(e) ==
  LET f == fn[e]
      moves == f.event # "NONE" /\ f.saw \in transitions[f.event].from IN
  /\ f.pc = "write"
  /\ task' = IF moves THEN [task EXCEPT ![f.key] = transitions[f.event].to] ELSE task
  /\ \/ f.event = "BLOCK" /\ Ends(e)
     \/ f.event # "BLOCK" /\ fn' = [fn EXCEPT ![e].pc = "done"]
  /\ UNCHANGED <<runtime, queue, retry, intents, process>>

\* The task's audit event is written and the function returns: completeJob.
Finish(e) ==
  /\ fn[e].pc = "done"
  /\ Completed(e)
  /\ UNCHANGED <<runtime, tasks>>

\* A query fails: of the runtime call, of the function around it, or the audit
\* event or completeJob after the task was already written.  Once the queue job
\* is blocked, the failure keeps the task from hearing of it and leaves the catch
\* block.
QueryFails(e) ==
  /\ "abort" \in Faults
  /\ fn[e].pc # "idle"
  /\ \/ fn[e].event = "BLOCK" /\ Ends(e) /\ Rejects(e) /\ UNCHANGED <<queue, retry, lost>>
     \/ fn[e].event # "BLOCK" /\ Errored(e)
  /\ call' = [call EXCEPT ![e] = Idle]
  /\ UNCHANGED <<grant, status, leaseOwner, attemptCount, records, drafts, tasks>>

\* timeoutMs passes, however far the function has come.
Timeout(e) ==
  /\ "timeout" \in Faults
  /\ Executes(e)
  /\ RetryOrDie(e)
  /\ fn' = [fn EXCEPT ![e].awaited = FALSE]
  /\ UNCHANGED <<runtime, tasks>>

\* Issuance, and whatever else Op lets the operators do.
OtherCall ==
  /\ \E c \in Call \ Exec : Begin(c) \/ Step(c) \/ Abort(c)
  /\ UNCHANGED cvars

ExecStep(e) == List(e) \/ RunOnce(e) \/ ReadTask(e) \/ WriteTask(e) \/ Finish(e)

ClosureNext ==
  \/ \E w \in Worker : StartDaemon(w) \/ ExitDaemon(w) \/ \E k \in Key : ClaimJob(w, k)
  \/ \E k \in Key : Enqueue(k)
  \/ \E k \in Key, ev \in Others : Intends(k, ev) \/ Carries(k, ev)
  \/ \E e \in Exec : ExecStep(e) \/ QueryFails(e) \/ Timeout(e)
  \/ (\E k \in Key : TokenExpires(k)) /\ UNCHANGED cvars
  \/ OtherCall

ClosureVars == <<runtime, cvars>>

\* A daemon that is online polls the row.
Polled(k) == \E w \in Worker : daemon[w] = "online" /\ ClaimJob(w, k)

\* A daemon that is down is started again and a stopping one exits; one that is
\* online polls, and every query is answered or fails.  Nothing is assumed of users,
\* operators, clocks and faults, nor of a poll in flight while its daemon stops.
ClosureSpec ==
  /\ ClosureInit /\ [][ClosureNext]_ClosureVars
  /\ \A w \in Worker : WF_ClosureVars(StartDaemon(w)) /\ WF_ClosureVars(ExitDaemon(w))
  /\ \A k \in Key : WF_ClosureVars(Polled(k))
  /\ \A e \in Exec : WF_ClosureVars(ExecStep(e))

-----------------------------------------------------------------------------
(* Properties *)

\* A completed queue job has a receipt: no execution that was cut off, refused
\* or timed out, and no retry that found nothing to run, is reported as done.
CompletedJobHasReceipt ==
  \A k \in Key : queue[k] = "completed" => receipt[k] # "none"

\* However often the queue retries a job whose real write failed half-way or
\* outlived its timeout, the file is written once: a retry runs only a dispatch
\* job that is still queued, nothing ever queues one again, and of two
\* executions that both claim it the attempt log rejects one.
RetriesWriteOnce == OneDraft

\* Only a receipt of real execution completes a task: a dry run goes through the
\* same two functions and leaves the task where it is.  (A real write throws
\* after its receipt, so that only dry runs get as far: see SuccessIsNotBlocked.)
OnlyRealExecutionCompletes ==
  \A k \in Key : task[k] = "completed" => receipt[k] = "succeeded" /\ drafts[k] > 0

\* A task the worker blocked has a blocked queue job to explain it: a failure
\* that is retried or dead-lettered never blocks the task.
BlockedTaskIsExplained ==
  \A k \in Key : task[k] = "blocked" => queue[k] = "blocked"

\* A running queue job has just the invocation that will settle it, or it is one of
\* those the daemon loses: its lease was not read back, the write of the catch block
\* failed, or the process ended first.  No other end of an execution forgets its row.
RunningIsExecuted ==
  \A k \in Key : queue[k] = "running" =>
    k \in lost \/ \E e \in Exec : Executes(e) /\ fn[e].key = k

\* A queued job is settled unless the daemon loses it as above, however its
\* executions fail, outlive their timeout and overlap, and although a failing write
\* of the catch block stops the daemon.  (Nothing finds a job that was lost:
\* ExpiredLeaseReclaimed of WorkerQueue.)
ClosureSettles ==
  \A k \in Key : (queue[k] = "pending") ~> (queue[k] \in QueueSettled \/ k \in lost)

-----------------------------------------------------------------------------
(* What the documents say and the code does not do *)

\* A receipt that succeeded completes its task, if the task is in a state that
\* can be completed: a task that is assigned is not blocked in its place.
SuccessIsNotBlocked ==
  [][\A k \in Key : receipt[k] = "succeeded" /\ task[k] = "assigned"
                      => task'[k] # "blocked"]_ClosureVars

\* A task moves only along the table of harmony/state-machine.ts.
TaskFollowsTable ==
  [][\A k \in Key : task'[k] # task[k] =>
       \E ev \in DOMAIN transitions :
         task[k] \in transitions[ev].from /\ task'[k] = transitions[ev].to]_ClosureVars
=============================================================================
