# A verification project for coworker-a2a

coworker-a2a is a TypeScript workspace (Next.js, Prisma on SQLite) in which a
chat message becomes work for agents, a routed message becomes a *Harmony task*,
agents analyse it, an approved plan becomes a scoped execution token and a
dispatch job, and a worker daemon carries the job out.  Almost everything it does
is a straight line of `await`s on a database: read a row, check it, write it by
id.  What is hard about such code is hard to test: two calls between whose reads
and writes the other falls, a call that is cut off half-way, a retry of what was
already done, an answer that comes after its timeout.

This directory models the parts of the system that keep state and act on it, call
by call, checks them with TLC and proves the most important properties with TLAPS.

1. The system and its parts
2. The modules, and how they correspond to the code
3. What the runs check, and what they show
4. Bounds, and why they are enough
5. Fairness
6. What is proved
7. Where the code and its documents disagree
8. Statements the code does not keep
9. Not modelled, and what could come next

## 1. The system and its parts

Paths are relative to `src/lib` of the repository unless they name a file
outside it.

| Part | State it keeps | Operations | Hard about it |
|---|---|---|---|
| **Worker daemon and task queue** (`worker/`, `scripts/worker-start.ts`) | `TaskQueueJob` rows; per process `activeJobIds`, a shutdown flag, polls and executions in flight | enqueue, poll, lease, mark, complete, block, requeue, dead-letter, drain, exit | polls overlap, writes by id alone, crashes, drain races |
| **Lease reaper** (`worker/repository.ts:351`) | none of its own | select expired leases, requeue or dead-letter each | called by no code, so that nothing reclaims a lease: not modelled |
| **Controlled runtime** (`runtime-execution/`) | token, dispatch job, attempts, receipt, recovery points; the Markdown files of `tools/obsidian-draft.ts` | issue, claim (from the pool, by id), start, fail, block, complete (dry run, real write), run once | no transactions: each operation is 3 to 14 statements that can be cut off or overlap |
| **Production execution closure** (`worker/execution-worker.ts:87-268`) | none of its own | run the dispatch job of a queue job's task, carry the receipt or the refusal to the task | a timeout that does not cancel; an error after the effect |
| **Harmony tasks and their analysis** (`harmony/`, `agent-runtime/repository.ts`) | `HarmonyTask`, confirmations, agent runs | create from route, approve, reject, cancel, analyse | eligible before a long call of the model, moved after it |
| **Workflow loop** (`workflow/loop-engine.ts`) | iteration, failures, the tasks of the iteration | scan, analyse against a timer, review, advance, terminate | the timer abandons an analysis that goes on |
| **Orchestrator** (`agent-runtime/orchestrator.ts`, `subtask-manager.ts`) | subtask records beside their Harmony tasks | decompose, execute batches, replan, aggregate | a batch loop whose guard may stay true |
| **Tool calls and tool runs** (`tools/`) | calls, permissions, runs, plans, artifacts | evaluate, review, plan, approve, execute by either of two executors, cancel | two executors, plans and permissions read before they are used |
| **In-memory scheduler** (`scheduler/`) | queue, running and settled tasks, rate windows, token ledgers | submit, execute next, cancel, time out, record usage | slots freed while the executor goes on; a day that ends in between |
| **Persistent queue** (`scheduler/persistent-queue.ts`) | `persistentTask` rows | enqueue, dequeue, complete, fail, cancel, prune | several processes, no compare-and-set |
| **Code closure and git tools** (`execution-closure/`, `tools/sandbox-tool-executor.ts`) | one working tree, its index and branch | write, check, stage, commit; `git_add`, `git_commit` | closures share the tree; a failed one leaves its files |
| **Deployment pipeline** (`deployment/`) | branches, runs and the target branch on GitHub | branch, commit, pull request, CI, merge | an effect whose answer is lost, CI that registers late |
| **Chat requests** (`app/api/chat/route.ts`, `agents/`) | request record, audit trail, messages, run records, intents, plans | receive, route, delegate round by round, stream, store | every statement may fail, in or before the stream |
| **Collaboration threads** (`collaboration/`) | sessions, threads, turns | talk by agents and by people, transition | two sources for the number of a turn |
| **Governance records** (`evidence/`, `department*/`, `execution-gateway/`, `eval/`, `file-git-pr/`, ...) | one family of rows each, their lists, trails and journals | create under parents, transition by table, review | a list is read, changed and written back; commit before audit |

How they interact.  A chat message is recorded, routed and delegated
(`ChatRequest` around `ChatDelegation`); the tools its agents ask for become
intents and plans.  A routed message becomes a Harmony task, which people decide
and which agents, one request or the loop, analyse.
`issueRuntimeExecutionFromApprovedPlan` writes a token and a dispatch job for a
task.  A `TaskQueueJob` for the same task is the envelope in which a daemon polls;
the daemon leases it with a compare-and-set, calls `executeRuntimeDispatchQueueJob`,
which runs the task's dispatch job and writes what the receipt means to the
`HarmonyTask`.  They share the database; only `tryLeaseJob` guards a write
by what it read.  Scheduler, budget and limiter share one process; closures
share one working tree; pipelines share a repository on GitHub.

What makes each correct.  The queue: a job has one executor, at most
`maxRetries + 1` leases, and a final state that stays.  The runtime: a token is
good for one execution; job, token and receipt agree wherever an operation is cut
off.  The closure of a job: it is done only if there is a receipt, and a file is
written once however often the queue retries.  A task: nobody analyses what
was to be approved first, and what waits for a decision can be decided.  Tool
runs: nothing runs unconfirmed.  Scheduler: a task is in one place and the ledgers
agree.  Code and deployment: what is committed was checked, what is merged is one
pipeline's change.  Chat: every request ends, and is recorded as it ended.

## 2. The modules, and how they correspond to the code

| Module | Models | Form |
|---|---|---|
| `JobContract`, `WorkerQueue` | what the queue promises of a job; queue and daemons | one action per query with the local code that runs when its answer arrives |
| `GrantContract`, `RuntimeDispatch` | what a token promises; tokens, dispatch jobs, attempts, receipts, drafts | one action per await; an operation is the sequence of its awaits (`Program`) |
| `ProductionClosure` | the closure, composed with the runtime and with those who move the task | `EXTENDS RuntimeDispatch`; its invocations make the runtime's calls |
| `HarmonyTasks` | tasks, confirmations, analyses and the loop | requests as lists of awaits; the loop as a step counter |
| `Orchestration` | an orchestration and its subtasks | phases, and one subtask step at a time |
| `ExecutionContract`, `ToolRuns` | what an execution promises; one tool call, its permissions, plans and runs | requests as lists of awaits |
| `GovernedRecords`, `GovernanceRepositories` | the machine on which every record repository runs; twelve repositories | a machine of awaits, and one definition per function of the code |
| `Scheduling` | scheduler, budget, limiter, and `executeNext` and `runAgentLoop`, which share them | from one await to the next; a step is atomic in Node |
| `PersistentQueue` | the table and several processes | one action per statement |
| `CodeClosure` | tree, index, branch, closures and git tools | writes one by one; from the type check to the commit one step, because `execSync` blocks the thread that would start the next write |
| `DeploymentPipeline` | pipelines, and GitHub as far as it answers | one action per request, which may fail, also after it took effect |
| `ChatDelegation`, `ChatRequest` | rounds of agents with their records; the handler around them | one action per statement; every statement may fail |
| `AgentThreads` | threads, written by agents and by people | one action per statement or transaction |
| `*_proofs` | theorems about the module they name; `AgentWork_proofs` is about `CodeClosure`, `DeploymentPipeline`, `PersistentQueue` and `Scheduling`, `Conversation_proofs` about `ChatDelegation`, `ChatRequest` and `AgentThreads`, `Governance_proofs` about `GovernedRecords` | |
| `MC*` | instances for TLC; `MCAgentWork` runs six small modules side by side | |

**WorkerQueue.**  `status`, `owner`, `lease`, `retryCount`, `attemptCount` are
columns of a row; `earlier` is the order of `scheduledAt`, `lease` is
`leaseExpiresAt` against the clock.  `proc`, `active`, `poll` and `run` are a
process's memory.  `PollBegin`, `PollFind`, `PollLease`, `PollClaim` are the awaits
of `pollAndExecute` and `tryLeaseJob`; `RunMark`, `RunComplete`, `RunBlock`,
`RunFail`, `RunFinally` those of `executeJobAsync`.  `RunTryError` and
`RunCatchError` are rejected queries: the first goes to the catch block, the second
out of it, to the `unhandledRejection` handler that stops the worker.  `Stop`,
`Drained`, `Exit` are the three parts of `stop()`.

**RuntimeDispatch.**  A call in flight is a record with a `todo` list of awaits.
`Check` is a read with its early returns.  The writes are unguarded, as in the
code; unique indexes are conditions of the inserts, and an insert that is refused
ends the call with what it wrote before still there.  `runDry` and `runWrite` are
`runRuntimeDispatchJobOnce`, the concatenation of three programs.  `Overlap`
says whether two calls on one job may be in flight; `Abort` ends a call anywhere.

**ProductionClosure.**  `fn[e]` is an invocation; the runtime call it makes is
`call[e]`, and `Outcome` says what its end means by where it ended: a failed check
is a 409, which `isBlockingRuntimeError` blocks; a refused insert is a database
error, which the queue retries.  `Timeout` only stops waiting: the invocation goes
on beside its retry, because `Promise.race` cancels nothing.  Claiming the queue
row is atomic, and its last write is made, or fails, in the step that decides it:
`WorkerQueue` shows that the row has one executor and that nobody else writes it
meanwhile.  The awaited writes of the catch block may fail like any other
(`CatchFails`): `executeJobAsync` then rejects, the `unhandledRejection` handler of
`worker-start.ts` stops the daemon (`daemon`: online, draining, down), and the row
stays running.  `lost` names the rows this happens to, and those whose lease was
taken but not read back, or whose daemon exited under them (`ExitDaemon`).  Signals
and crashes of a daemon are in `WorkerQueue`.

**HarmonyTasks.**  `Program` gives each request its awaits; what it has read may be
stale when it writes.  `mode` says who acts: one request at a time, overlapping
requests, or requests beside the loop.  `Abandon` ends a request at any await.
`Execute` of the loop puts an analysis into a slot and waits; `Timeout` makes the
loop go on without it.  `review` always passes: `produceDeterministicEval` of a
stored result never blocks nor fails, which the comment at `Review` argues.

**ToolRuns.**  A request reads, checks and then writes by id.  `tool` is the kind of
tool the registry gives, `evaluateToolPermission` the decision table of `policy.ts`;
`started` is a history of the executions begun, each with its run, plan and
executor.  `Contract` maps it, the receipts, the approved plans and the succeeded runs
to the variables of `ExecutionContract`, and `~overlap` to its `alone`.

**GovernedRecords** has one action per kind of await (look up a key, find a parent,
insert, read a list, write it back, audit, journal, ...), and
`GovernanceRepositories` says of every creating and transition function of twelve
repositories which awaits it makes in which order: a definition under the
function's name.  A new repository is a few such definitions.

**MCAgentWork.**  The six modules of one process or one repository share nothing, so
one run checks them all: the initial state picks a part and the others stay still.

Left out of these components: the worker registry and heartbeats (columns nothing
reads), audit events where only their failure matters (`Abort`, `Abandon` and
`QueryFails` stand for it), lists and serialisers, the text of results.

## 3. What the runs check, and what they show

| Run | Instance | Distinct states | Properties | What it shows |
|---|---|---|---|---|
| `wq_race` | 1 job, 2 workers, 2 polls and 2 executions each, every fault | 560,593 | `NoDuplicateExecution` `RetryBudget` `QueueInv` `ImplementsContract` | `tryLeaseJob`'s compare-and-set is enough: no later write looks at the row, yet each is made by the one executor that owns it, through crashes, failing queries and requeues |
| `wq_slots` | 3 jobs, 2 workers, a shared idempotency key, a capability one worker has, no faults | 50,572 | `MaxConcurrentRespected` `EveryJobSettles` | while polls do not overlap the one slot is accounted for exactly; every job is settled |
| `wq_crash` | 1 job, 1 worker, crashes | violation | `ExpiredLeaseReclaimed` | section 7 |
| `rd_sequential` | 1 key, 2 workers, one call at a time, every operation, any call cut off anywhere, tokens expire | 14,435 | `ReceiptIsLast` `WriteIsAuthorised` `OnlyHolderMoves` | the order of the unguarded writes keeps job, token and receipt consistent wherever a call dies |
| `rd_clean` | 2 keys, 2 calls at once, never two on one key, none cut off | 207,938 | `CompletionIsWhole` `AttemptLogMatches` `ImplementsGrant` | a token is good for one execution, and the records agree when nothing is in flight |
| `pc_faults` | 1 task, 2 invocations, an issuance beside them, failing queries, timeouts, expiry, cancellation and assignment | 221,442 | `CompletedJobHasReceipt` `RetriesWriteOnce` `BlockedTaskIsExplained` `RunningIsExecuted` `ReceiptIsEarned` `TokenOrder` `ClosureSettles` | a file is written once although a timed-out execution runs on beside its retry; a token goes one way though its issuance is overtaken or cut off; a running row is forgotten only where the daemon loses it |
| `tools` | 1 call, 2 runs, 2 plans, 5 requests, overlapping or not, cut off anywhere | 632,000 | `ConfirmedBeforeStart` `RepeatedRequestsActOnce` `ReviewIsCoherent` `RefusalHolds` `ImplementsExecution` | nothing is executed unconfirmed though plan, permission and run are read before they are used; both executors implement `ExecutionContract` |
| `tasks` | 1 task, requests one by one, three overlapping, or beside the loop | 170,728 | `WaitsForDecision` `AnalysedAfterApproval` `KeyedAnalysisOnce` `LoopEnds` | analysis waits for approval, decisions stay decidable, the loop ends though no model answers |
| `governance` | twelve repositories, three calls, one abandoned anywhere | 915,434 | `ParentsListTheirRecords` `HistoryIsAccountedFor` `ReviewerIsKept` | one by one, records stay in their parents' lists and keep their reviewer; in either mode the trail accounts for every status |
| `agents` | six parts (below) | 777,686 | `OnePlace` `LedgerAgrees` `DependentsWait` `CommittedWasChecked` `MergedIsOwn` `CompletedRunIsWhole` `OneFailureIsRecorded` `RequestEnds` `TurnsInOrder` | see the modules' properties |
| `orchestration` | 3 subtasks, retries and a replan | violation | `OrchestrationEnds` | section 7 |
| `pipeline` | the pipeline part of `agents` | violation | `FailedCIIsNotMerged` | section 7 |

`pc_faults` is worth a remark.  Nothing in `claimRuntimeDispatchJobById` keeps two
executions of one worker apart: both may read `queued` and both write the lease,
under the same owner.  Both then insert attempt number 1, and the unique index on
`(jobId, attempt)` rejects one of them.  Without that index `RetriesWriteOnce`
fails: a change that renumbers attempts would remove the only guard there is.
`TurnsInOrder` rests on an index in the same way: agents count from a column
that a call cut off after its turn leaves behind, people from the turns.

Every listed property has a mutant of a mapped definition, a plausible bug of that
code, under which its run fails.  The definitions commented as "a plausible
defect" are those mutants and are used for nothing else.

The modules define a few more statements that hold and that no run lists (type
invariants such as `ClosureTypeOK` and `GovTypeOK`, and
`StatusIsEarned`, `ThreadIsNumbered`, `TokenWithinUses`, `CapabilityRespected`,
`ActiveCoversRuns`, `DryRunMeansNoDraft`, `IdempotentEnqueue`, which is what the
unique index says, `SuccessHasReceipt`, which `ImplementsExecution` implies, and
`AbandonedStays`; the last three are theorems): add one to a configuration when its
code changes.  `RuntimeDispatch_overlap` checks what unique indexes and write order
still guarantee when any two calls by id on one job interleave freely
(`ReceiptIsEarned`, `TokenOrder`): operators beside each other, where `pc_faults` has
a run, its retry and an issuance.  It holds.

## 4. Bounds, and why they are enough

- *One job and two workers* (`wq_race`).  The rows of different jobs interact only
  through the order of the queue, the slots of a worker and the idempotency key,
  which `wq_slots` covers with three jobs.  Two polls and two executions per worker
  are what overlapping needs.
- *One retry*: a job that is tried, requeued and tried again passes through every
  branch of the retry decision, its last one included.  `AttemptBound` saturates
  `attemptCount` above the largest budget, so a budget that is exceeded shows.
- *One key* in `rd_sequential` and `pc_faults`: keys share nothing; `rd_clean` has
  two, which confirms it.  `DraftBound = 2` saturates the count of files.
- `Overlap = FALSE` in `rd_sequential` and `rd_clean` is what the queue gives: one
  queue job has one executor (`NoDuplicateExecution`).  It is not what a timeout or
  two HTTP clients give; `RuntimeDispatch_overlap` and `pc_faults` are for them.
- *Two invocations* in `pc_faults` with one retry: an execution that timed out and
  its retry.  With one retry there can be no third.
- `tasks`: one task, because tasks share nothing but the loop's list; three
  overlapping requests are a decision, an analysis and one between them; beside
  the loop one request at a time.  `MaxRuns = 2` allows an analysis after one.
- `tools`: two runs and two plans of one call, five requests in a row or two at
  once; the plan of one run approved and executed while a second is reviewed.
- `governance`: three calls are a parent, a record under it and a third that moves
  one or overlaps; the collaboration records start also with an answered thread,
  so that two calls can both add turns.  One idempotency key, one abandoned call.
- `agents`: two tasks, two callers of the budget; two rows and two processes, a page
  of one; three closures and two files; two pipelines, two branches, two files; two
  subtasks beyond the limit's cut, with every dependency between them, two
  failures; two speakers and two threads.  Each is the smallest number at which the
  hazard in question has its actors.  `HandedBound` stops a row from being handed
  out more than twice.
- Symmetry is used in the instances of `RuntimeDispatch` and `ToolRuns`, whose
  constants are interchangeable, for safety only; nowhere where liveness is checked.

Deadlock is checked except where the system rightly stops: the closure once its
job is settled and its task final, and the bounded requests of `ToolRuns`,
`HarmonyTasks`, `MCGovernance`, `MCAgentWork` and `Orchestration`.

## 5. Fairness

`FairSpec` of `WorkerQueue` assumes weak fairness of every step of a live process:
timers fire, the database answers, and a job ends because `executeWithTimeout`
bounds it.  An operator restarts a process that is down.  Nothing is assumed of
crashes, signals, failing queries or callers.

`ClosureSpec` assumes that a daemon that is down is started again, that one that
drains exits (`stop()` waits for 30 seconds at most), that one that is online polls,
and that every query is answered or fails.  Issuance, users, clocks and faults owe
nothing, so `ClosureSettles` holds also when the token is never activated.  It does
not say that every job is settled: a failing write of the catch block leaves one
running for ever.  It says that this, a lease that was not read back and an exit
under the job are the only ways.

`HarmonyTasks` assumes fairness of the loop's own steps and of its timer.  Requests
and the model owe nothing: `LoopEnds` holds though no model ever answers.

The chat request assumes that its process goes on (`WF` of `RequestStep`): a
statement is answered or fails, and a stream or a question to the provider ends or
fails by its client's timeout.  The end of the client is not assumed.

`Orchestration` assumes fairness of its own steps and of each subtask's, so the
counterexample of `OrchestrationEnds` is a loop in which every query is answered.

## 6. What is proved

The theorems hold for every value of the constants: any numbers of jobs, workers,
calls, tasks, requests, files, subtasks and threads.

| Theorem | Module | Statement |
|---|---|---|
| `NoDuplicateExecutionHolds` `ExecutorOwnsRowHolds` `RetryBudgetHolds` `Invariance` | `WorkerQueue_proofs` | `Spec => []...`, under any set of faults |
| `SettledForeverHolds` `IdempotentEnqueueHolds` | | `Spec => SettledForever`, `Spec => []IdempotentEnqueue` |
| `ContractHolds` | | `Spec => ImplementsContract`: the queue implements `JobContract` |
| `MaxConcurrentHolds` | | `OneSlot /\ Spec => []MaxConcurrentRespected` |
| `AbandonedStaysHolds` | | `Spec => AbandonedStays`: a leased row without an executor is never touched again |
| `ReceiptIsLastHolds` `WriteIsAuthorisedHolds` `OnlyHolderMovesHolds` | `RuntimeDispatch_proofs` | `~Overlap /\ Spec => ...` |
| `CompletionIsWholeHolds` `AttemptLogMatchesHolds` `RuntimeImplementsGrant` | | `TakesTurnsById /\ Spec => ...` |
| `CompletedJobHasReceiptHolds` `BlockedTaskIsExplainedHolds` `RunningIsExecutedHolds` `ReceiptIsEarnedHolds` | `ProductionClosure_proofs` | `ClosureSpec => []...`, whatever is called beside the worker, overlapping or not, under any faults |
| `TokenOrderHolds` | | `ClosureSpec => TokenOrder`, as freely |
| `RetriesWriteOnceHolds` | | `OnlyRunsWrite /\ ClosureSpec => []RetriesWriteOnce` |
| `StartsAreConfirmed` `SuccessIsReceipted` | `ToolRuns_proofs` | `Spec => []...`, requests overlapping and cut off as they may |
| `RepeatsActOnce` `ReviewsAreCoherent` `RefusalsHold` `RunsFollowTable` | | requests that follow one another, each cut off anywhere |
| `ToolRunsImplementContract` | | `Spec => ImplementsExecution`: both executors implement `ExecutionContract`, overlapping and cut off as they may |
| `WaitsForDecisionHolds` `AnalysedAfterApprovalHolds` `KeyedAnalysisOnceHolds` | `HarmonyTasks_proofs` | `Spec => []...` |
| `OnePlaceHolds` `LedgersAlwaysAgree` | `AgentWork_proofs` | `SchedulerSpec => []...` |
| `DependentsAlwaysWait` | | `QueueSpec => DependentsWait` |
| `CommittedStaysChecked` | | `ClosureSpec => []CommittedWasChecked` |
| `MergedStaysOwn` | | `PipelineSpec => MergedIsOwn` |
| `CompletedRunStaysWhole` `OneFailureStaysRecorded` | `Conversation_proofs` | `RequestSpec => []...` |
| `TurnsStayInOrder` `LatestStaysBehind` | | `ThreadSpec => []...` |
| `HistoryStaysAccountedFor` | `Governance_proofs` | `Spec => []HistoryIsAccountedFor`, calls overlapping as they may: the audit trail holds what the rows went through, and in its order when calls follow one another |
| `ReviewersStay` `ParentsListWhatTheyHave` `GovInvHolds` | | `Spec => []...`, one call at a time as the properties say |

**Assumptions.**  Jobs are finite; priorities and retry limits are naturals;
`BoundAssumption` keeps the saturation of the attempt counter away from the real
budgets, `DraftAssumption` says that a first file is counted.  `OneSlot` is the default of the daemon, `MaxConcurrent = 1`, with polls
that do not overlap: with two slots the statement is false (section 8).  `~Overlap`
is what one executor per queue job gives.  `NoBranchAssumption`, `NoRowAssumption`,
`NullAssumption`, `HarmonyAssumption`, `MissingAssumption` and `NothingAssumption` say
that the value for "nothing" is none of the things it stands in for.
`LedgersAreFinite` and `SlotsAreFinite`: the agents and tasks of the token ledgers, and
the calls in flight on a repository, are finitely many, as what a process holds in
memory is; the proofs count over them.  `ProgramsAssumption` is about the
repositories (below).

**The queue.**  `QueueInv == TypeOK /\ InFlight /\ Counts /\ ExecutorOwnsRow /\
NoDuplicateExecution`; no part is inductive alone.  `NoDuplicateExecution` needs
that a row that is executed is not pending: `ExecutorOwnsRow`, which in turn needs
that no other invocation settles or requeues the row.  Both need `InFlight` for the
window between the two queries of `tryLeaseJob`.  `Counts` relates `attemptCount`
and `retryCount` by the status of the row.  The contract follows: every step that
changes the abstract state of a row is its executor's.  `MaxConcurrentHolds` adds
`SlotInv`: with one slot `activeJobIds` is empty while a poll is in flight, and is
the job of the one execution otherwise.

**The runtime.**  A call is a list of awaits, and the invariant says what the next
of them tells about the rows (`Knows`): before `write` the job runs under this
worker, its token is active and it has no receipt; before `receiptReal` it has
succeeded and the token is spent.  `Chained` says that a list of awaits only ever
passes from one that establishes to one that needs.  Each write preserves what the
calls on *other* keys know, and there is no other call on its own (`TakeTurns`).

For the properties of a job without a call in flight that is not enough: they do
not hold while one is.  `CleanInv` therefore says of every await how far the rows
are (`Kept`: between `leaseById` and its attempt row the count is one ahead of the
log, between `consume` and the receipt the token is spent without one, ...), that
they are whole where nobody is busy, and, for an issuance, which tail of its
program is left when the token is still a draft (`Placed`).  The hypothesis
`TakesTurnsById` is what the daemon does: no two calls on a job, jobs claimed by id,
tokens and jobs issued together, and no call cut off; without the last one the
statements are false (`RuntimeDispatch_retrywrite`).  `RuntimeImplementsGrant` maps
each await to a step of `GrantContract` or to a stutter: `activate` grants, `write`
executes, `consume` spends.

**The closure.**  `CompletedJobHasReceipt` and `BlockedTaskIsExplained` need no
hypothesis at all.  `ClosureInv` says what an invocation stands for: at most one is
*active* on a queue row (the daemon waits for it and has not decided), and it has
the row running; an invocation that has left its runtime call without a block has
left a receipt (`FnOK`), because a call that comes to its recovery point has
inserted one (`Told`), which nobody deletes.  For `RunningIsExecuted` it also accounts
for every running row: an invocation executes it, or it is lost.  Each way an
invocation can end either writes the row, or adds it to `lost`, or was not awaited.

`TokenInv` is about the token and holds with any calls beside each other, cut off
anywhere.  An issuance activates only the draft it has inserted itself, and the
unique index lets one insert through, so that at most one call of a key is between
`insertToken` and `activate`; a completion spends only what its own check found
active; a receipt follows its `consume`; and a call that is past the write has
written a file.  `TokenOrder` and `ReceiptIsEarned` follow with no hypothesis on who
calls what.

`RetriesWriteOnce` is the one property
here that rests on an index and not on an order.  `OnceInv` says that a run that
writes and is past the attempt log has inserted attempt 1 of the job, so that two
such runs never are; that the count is still 0 while the job is queued, so that
everyone who reads it queued comes to that same number; and that a run on its way to
the write finds no file.  Operators may claim, start, fail or run the job beside the
worker.  The hypothesis `OnlyRunsWrite` only excludes the route that completes a job
with a write by itself: beside a run both pass the check of the receipt and both
write, which TLC finds when `completeWrite` is added to `Op` of `pc_faults`.

**Tool runs.**  A request reads, checks and writes by id, so the invariant again
says what each next await tells, in two parts.  `Knows` is what stays true beside
overlapping requests, because it speaks of what only grows: a plan that is attached,
a confirmation that was given, a receipt that was written.  `KnowsAlone` adds, for
requests that follow one another, what the statuses are meanwhile.
`ConfirmedBeforeStart` and `SuccessHasReceipt` follow from the first, the others from
the second.  A request that is cut off leaves the rows as `KeptAlone` allows at *every*
await, which is why a repetition finds its way.  For `RefusalHolds`, `RefusedForGood`
says that a refusal is the only decision of its call, since an evaluation looks for a
decision first and a run supersedes none but a record-only one; and `Permitted`, that a
run which waits for a permission or is past it has the latest decision with it.

`ToolRunsImplementContract` maps the approval of a plan's confirmation to `Confirm`,
`start` and `startCommand` to `Begin`, the two receipts to `Answer` (the repository's
with the report of success in the same transaction), `settleCommand` to `Report`, every
other write of a status to `Withdraw` or to a stutter, and the rest to a stutter.  For
it `Knows` says that the execution whose receipt is about to be written was begun, and
`KnowsAlone` that its run has no receipt yet.

**What is abandoned.**  `AbandonedStays` is the other side of `ExpiredLeaseReclaimed`,
which is refuted (section 7).  A row whose executor is gone is leased, so no poll
finds it; whoever writes a row by id attends it (`ExecutorOwnsRow`); hence it stays
as it is, and so does that nobody attends it.

**Harmony tasks.**  `HarmonyInv == HarmonyType /\ Turns /\ CallFact(c) /\
TaskFact(t)` for every request and task.  `AnalysedAfterApproval` is not inductive:
a request may write an analysis long after it found the task eligible.  What saves
it is that `Analysable` (approved if it had to be) is never undone, so a request
that has passed `readEligible` carries it to its commit however the task has moved
since.  For `WaitsForDecision`, one request at a time, the invariant says more: the
confirmation that is about to be decided is the only one pending.

**The scheduler.**  `SchedulerInv == SchedulerType /\ OnePlace /\ WasSubmitted`.
`OnePlace` alone is not inductive: that a submission does not put a task in a second
place rests on its id being new, and `WasSubmitted` says that whatever is queued,
running, settled or held by a call was submitted.  All other steps but the dequeue
only take tasks out of places (`Recedes`) and leave the calls the tasks they have
(`SameTasks`), which is proved to keep the invariant once for all of them.  A call
whose task was cancelled or timed out goes on and settles nothing, because `Settle`
looks the task up in the running map.

For `LedgersAlwaysAgree`, `LedgerInv` adds that whoever is about to spend is an agent
and a task the ledgers have (`SpendersAreKnown`): a call takes its task steps before it
spends on it, and a spender outside a ledger would raise the total of the day alone.
The total of a ledger is a fold, so the proof first shows what folds do not say by
themselves: every finite set has exactly one sum (`SumExists`, `SumIsUnique`), and
spending on one member adds just that (`SumWithMore`).  Induction over the set is
replaced by taking the least subset for which the statement would fail
(`WFMin` on strict subsets).

**The persistent queue.**  `DequeueInv`: a row that a dequeue is about to mark has
only dependencies that have completed once; statuses may be overwritten and rows
pruned in between, but `everDone` only grows.

**The code closure.**  `CleanInv`: until a git tool stages something, index and
branch hold nothing lint refuses; what passes lint and is staged over a clean index
is clean.

**The pipeline.**  `PipelineInv`: the branch a pipeline works on holds what it has
written so far and nothing else (`BranchIsOwn`), because GitHub refuses a branch
that exists and none is deleted (`OneEach`); what a pipeline wrote is on the target
only once it has merged (`NotYetMerged`).

**The chat request.**  `DelegationInv`: what a run's record says is there when it
says so.  `RequestInv`: a catch block is entered only after something went wrong
and left without the record only after something else did.

**The threads.**  `ThreadInv`: no column and no call in flight counts ahead of the
turns there are, so that the unique index leaves only the next number.

**The governance records.**  The statements are about the machine and any table of
repositories that has what `ProgramsAssumption` says, and TLC evaluates that
assumption on the twelve of the code: a list is written right after it was read
(`Paired`); a record that is listed is inserted once and before its lists are
written (`InsertedThenListed`); a first status names no reviewer (`Fresh`); a status
call that writes the reviewer back has read the row first (`Moving`); a behaviour
starts with rows as answered calls leave them (`Seeded`); and the entries of a log
follow what they are about (`LogsAreKept`, below).  A repository that breaks
one of these is found when the run starts.  `GovInv` holds while calls follow one
another.  At rest it is `TableInv`: a row that took a signed status names its
reviewer, and a row whose call was answered is in its parents' lists.  Neither is
inductive, because a call writes back what it read some awaits before, so `CallOK`
follows the call in flight: a status call holds the reviewer the row still has, or
has nothing left to write (`MoveOK`); a creating call has yet to write each list its
row is missing from (`WillBeListed`), and what it is about to write is the list as
it stands (`ListRead`).  A call that is left half done leaves the table in order at
every await, because its row is not yet answered.

`HistoryStaysAccountedFor` speaks of calls that overlap, refused ones and ones that
answer, as long as none is cut off (`failures = 0`).  `LogsAreKept` is what the
programs need: a write that does not bring its own entry is followed by just one
(`EntryFollows`), and the call is not refused between the two (`EntryIsSure`); an
entry is about the row the call moves, or about one whose status stays
(`EntriesKnown`), because the entry names the status the call *meant* to write; the
journal is written back right after it was read (`JournalRead`); a program owes
nothing when it begins (`NothingOwed`).  `HistoryIsAccountedFor` holds at rest only,
so the invariant `TrailInv` says what is missing meanwhile: a row took each status as
often as its trail holds it *plus* as often as a call in flight still owes it
(`Balanced`), and, one call at a time, the trail is the history without at most its
last status (`LastDue`).  Every await is shown to have one of four effects on a log
(`Effects`): nothing of it changes; a status is written and is owed from then on; an
entry is made and is owed no more; or both at once.  Whichever it is, the balance of
every row is kept, because other calls go on owing what they owed.

Only model-checked: every liveness property (`EveryJobSettles`,
`ClosureSettles`, `LoopEnds`, `RequestEnds`), which the prover does not reach.  Every invariant the passing runs check is a theorem.

## 7. Where the code and its documents disagree

Three runs state what the repository says and are refuted:

- **An orchestration never ends** (`orchestration`).  A failed subtask is executable
  again (`agent-runtime/subtask-manager.ts:182`), and every analysis of a subtask
  fails, because the task is assigned before `startAgentRunFromTask`, which takes
  queued tasks only.  The comment at line 197 says that the list holds what was not
  yet executed; `orchestrator.ts:11` promises retries or an escalation.  A replan
  besides renumbers the subtasks and not what they depend on.
- **A failed CI is merged** (`pipeline`).  `mapCICDStatus` turns every completed run
  into a success without reading its conclusion (`deployment/github-client.ts:447`);
  `pipeline.ts:11` says that a CI failure is not merged automatically.
- **A crashed worker's job stays leased for ever** (`wq_crash`).  `reapExpiredLeases`
  is called by no code.  The comment above it says that a timer or the worker's main
  loop calls it (`worker/execution-worker.ts:637`), and the PRD of sprint 23 promises
  that the job of a crashed worker is pending again after 120 seconds
  (`specs/sprint-23-worker-daemon/PRD.md:92`, AC-6).  That the row is not only late
  but untouched for good is `AbandonedStaysHolds`.

Configurations without a run are kept for these; each names one property that TLC
violates:

| Configuration | Property | Counterexample |
|---|---|---|
| `WorkerQueue_shutdown` | `GracefulExitAbandonsNothing` | `stop()` waits for `activeJobIds`, but a poll in flight may have leased a row it has not added |
| `WorkerQueue_overlap` | `MaxConcurrentRespected` | the check and the count are two database calls apart, and `setInterval` starts a poll whether or not the last one is over |
| `WorkerQueue_requeue` | `MaxConcurrentRespected` | with two slots a requeued row is leased again by its own worker before the `finally` of its run takes it out of `activeJobIds` |
| `RuntimeDispatch_doubleclaim` | `OneActiveLease` | two claims read `queued` (PRD of sprint 22, line 235: "only one active lease at a time") |
| `RuntimeDispatch_retrywrite` | `OneDraft` | a completion dies after the file is written; completing again writes a second file (PRD line 416: "worker complete endpoint must be idempotent") |
| `RuntimeDispatch_failure` | `FailureLeavesSnapshot` | fail and block number their attempt row with a number that is used; the unique index rejects it, and the snapshot after it is never written |
| `ProductionClosure_lost` | `SuccessIsNotBlocked` | the recovery point of a real write violates a foreign key: the call throws after the receipt is committed, the queue retries, finds no queued job, and blocks job and task |

## 8. Statements the code does not keep

The modules end with statements a reader may expect to hold and that TLC refutes
when they are added to a configuration of their module.

- *Worker queue.*  `CapableJobIsClaimed`: `findPendingJobs` takes twice the limit
  and filters capabilities afterwards, so two jobs no worker can do hide every job
  behind them.
- *Runtime.*  `SuccessLeavesRecoveryPoint`: the recovery point names an attempt that
  does not exist.  `RunningIsLogged`: a claim from the pool does not count its
  attempt, so the start is rejected after the job is running.
  `ExpiredTokenBlocksStart`: start never reads the token (tasks of sprint 22, line
  66).  `FollowsTable`: fail moves a leased job to failed, which its table does not
  have.  An issuance that is cut off between `insertToken` and `activate` leaves a
  draft whose key can never be issued again, and perhaps a queued job that every run
  refuses.  *Closure*, `TaskFollowsTable`: a task cancelled between the worker's read
  and its write is blocked.  A write of the catch block that fails, or a lease that
  cannot be read back, leaves the job running for ever (`lost`).
- *Harmony.*  `FailedIsNotCompleted`: the review that should stop a failed analysis
  passes every stored one (`loop-engine.ts:8` says otherwise).  `FinishedStays`,
  `PendingCanBeDecided`, `LoopLeavesDecision`: an analysis the loop gave up on, or a
  decision that read the task before, moves a finished task; two analyses that
  overlap leave a queued task with a confirmation nothing can decide, which is why
  the second half of `WaitsForDecision` speaks of one request at a time.  The loop stops one
  iteration early, and looks at the failures of the iterations before the last.
- *Tool runs.*  `EvaluatedWriteMayRun`: denied categories are looked at before the
  sandbox write that `policy.ts:94` means to allow.  `RejectedPlanNotExecuted`: a
  rejection after the approval rejects the plan and throws, and the human-gated
  executor does not look at it.  `ExecutedOnce`, `FinishedStays` with overlapping
  executions.
- *Scheduler.*  `ExecutorsWithinLimit`, `CancelledIsNotStarted`, `WithinBudget`,
  `WithinRate`: checks are awaits apart from what they permit.  `DependenciesFirst`:
  the running tasks are passed where the completed ones are expected.  *Persistent
  queue*, `HandedOnce`, `SettledRowStays`: writes by id.  Priorities are ordered by
  name (critical, high, low, normal), and a pruned dependency blocks its dependents.
- *Code closure.*  `CommittedWasCheckedAlways` with `git_add` in use,
  `TestedUnlessSkipped`, `SuccessIsOwn`, `FailureLeavesNothing`: the commit takes
  the whole index, and a failed closure leaves its files to the next.
  `CommittedWasChecked` itself is about files under `src/`, which is what lint reads,
  although a closure may write elsewhere in the project; and the model takes a rename
  as one step, while one that another closure has already handed to Node's thread
  pool may finish while `execSync` blocks the main thread, after the lint of a file
  and before its `git add`.
- *Pipeline.*  `MergedWasTested`: CI may be registered late or belong to an earlier
  push.  `FailedIsNotMerged`: an answer is lost after the merge.  A retry under the
  same branch name is refused for ever.
- *Chat.*  `SucceededStays`, `AnswerStoredOnce`: a failing audit event after the
  answer makes the inner catch block record and store again.  `BrokenIsIncomplete`,
  `OverIsRecorded`, `CompletedRunStays`, `NoRunLeftStarted`,
  `FailureStopsDependents`: a subtask runs although what it depends on failed.
- *Threads.*  `AgentsCanReply`: a column left behind makes every later reply of an
  agent fail until a person writes.  `ClosedStaysSilent`, `OneThreadPerPair`: the
  task id of a conversation is taken from the clock.
- *Governance, overlapping calls.*  A transition on a stale read leaves the table; a
  list written back whole loses what another call added (that is why
  `ParentsListTheirRecords` speaks of one call at a time); a stale write-back
  removes a reviewer; a resume token opens once more than `maxUses`.

## 9. Not modelled, and what could come next

- *The lease reaper* (`reclaimExpiredLeases`) is called by no code: with no caller it
  has no step.  Whoever calls it should know that a heartbeat does not extend
  `leaseExpiresAt`, so that a job longer than its lease would be requeued under its
  executor.
- *Error recovery* (`error-recovery/`) is imported by no code outside its
  directory; *realtime events* only feed the browser, and `initPersistentEventBus`
  has no caller; `tools/engine.ts` is imported by nobody; `loop-engine/` and
  `execution-engine/` are placeholders; the *lifecycle* tables are consulted by no
  other component.
- *Single inserts*: `concept-governance`, `governance-debt`, `judgment`, `knowledge`
  create a row in one statement and, at most, overwrite its status in another: no
  step has a middle.  `production-security` builds its answers from constants.
- *LLM providers, prompts, producers, HTTP routes but the chat route, operator read
  models, user interface, validators, serialisers and types* compute a value from
  what the modelled operations wrote, or are a nondeterministic choice in the model.
- Of the modelled parts: the commands of the sandbox tools, the browser tool, the
  chat route's rate limit, deliverables and reviews, handoff requests
  (`receiveHandoff` has no caller), the worker registry.

This is also why the map covers about one line in seven of the repository: of some
84,000 lines most are user interface, types, validators, serialisers, prompts and
constant tables, which have no step to interleave.  Of the repositories and engines
that move state, the map names the functions that do.

What could come next: an abstract specification of a record repository that
`GovernedRecords` implements in its serial mode; and the order of the audit trail
when calls overlap, of which only the counts are stated.
