----------------------------- MODULE Scheduling -----------------------------
(***************************************************************************)
(* The in-memory scheduler (src/src/lib/scheduler): a priority queue, the  *)
(* token budget and the rate limiter, and the two callers that share the   *)
(* budget and the limiter, executeNext and runAgentLoop.  Everything lives *)
(* in one Node process, so a step runs from one await to the next.         *)
(*                                                                         *)
(* Time is abstracted to the moments the code tells apart: the end of the  *)
(* limiter's minute, of the budget's day, and of the time a running task   *)
(* has.  The code notices them late, at its next check.                    *)
(***************************************************************************)
EXTENDS Integers, Sequences, FiniteSets, SequencesExt, Functions

CONSTANTS Task,        \* ids submitTask may draw
          Agent,
          Caller,      \* of executeNext
          LoopCaller,  \* of runAgentLoop
          LoopTask,    \* the Harmony task agent loops work on
          None,
          Levels,      \* priority weights
          QueueLimit, RunningLimit, KeepLast,
          DailyLimit, AgentLimit, TaskLimit,
          RequestsPerMinute, TokensPerMinute,
          Estimates, LoopEstimate, Usage

ASSUME SchedulerBounds ==
  /\ Levels \cup Estimates \cup Usage \cup {LoopEstimate, KeepLast} \subseteq Nat
  /\ LoopTask \notin Task

ASSUME LedgersAreFinite == IsFiniteSet(Agent) /\ IsFiniteSet(Task)

\* None is neither the id of a task nor anything submitted.
Plans == [priority : Levels, agent : Agent, estimate : Estimates, dependsOn : SUBSET Task]

ASSUME NothingAssumption == None \notin Task /\ None \notin Plans

VARIABLES plan,     \* Task -> what was submitted, or None
          queue,    \* task ids, the next one first
          running,  \* ids in the running map
          settled,  \* the completed map, in the order of completedAt
          late,     \* running tasks whose timeoutMs is over
          call,     \* each caller's executeNext or runAgentLoop in flight
          used,     \* the token budget
          window    \* the rate limiter

schedulerVars == <<plan, queue, running, settled, late, call, used, window>>
tables == <<plan, queue, running, settled, late>>

Idle == [step |-> "idle", task |-> None, agent |-> None]
-----------------------------------------------------------------------------
(* Token budget *)

NothingUsed == [over |-> FALSE, today |-> 0, agent |-> [a \in Agent |-> 0],
                task |-> [t \in Task \cup {LoopTask} |-> 0]]

\* maybeResetDaily as a bug could leave it.
ResetToday(u) == IF u.over THEN [NothingUsed EXCEPT !.task = u.task] ELSE u

Reset(u) == IF u.over THEN NothingUsed ELSE u

OverBudget(u, a, t, estimate) ==
  \/ u.today + estimate > DailyLimit
  \/ u.agent[a] + estimate > AgentLimit
  \/ u.task[t] + estimate > TaskLimit

Spend(u, a, t, tokens) ==
  [Reset(u) EXCEPT !.today = @ + tokens, !.agent[a] = @ + tokens, !.task[t] = @ + tokens]

-----------------------------------------------------------------------------
(* Rate limiter *)

OpenWindow == [over |-> FALSE, limited |-> FALSE, requests |-> 0, tokens |-> 0]

Refresh(w) == IF w.over THEN OpenWindow ELSE w

Full(w, estimate) ==
  \/ w.requests >= RequestsPerMinute
  \/ w.tokens + estimate > TokensPerMinute

\* checkRateLimit: the answer, and the limiter after it.  busy says that the
\* requests of this second are used up, which no state keeps.
Clear(w, estimate, busy) ==
  ~Refresh(w).limited /\ ~busy /\ ~Full(Refresh(w), estimate)

Checked(w, estimate, busy) ==
  IF ~busy /\ Full(Refresh(w), estimate)
  THEN [Refresh(w) EXCEPT !.limited = TRUE] ELSE Refresh(w)

\* Counted up to just past the limits, which is all that is compared.
CountedTo(limit, n) == IF n > limit THEN limit + 1 ELSE n

Record(w, tokens) ==
  [w EXCEPT !.requests = CountedTo(RequestsPerMinute, @ + 1),
            !.tokens = CountedTo(TokensPerMinute, @ + tokens)]

-----------------------------------------------------------------------------
SchedulerInit ==
  /\ plan = [t \in Task |-> None] /\ queue = <<>>
  /\ running = {} /\ settled = <<>> /\ late = {}
  /\ call = [c \in Caller \cup LoopCaller |-> Idle]
  /\ used = NothingUsed /\ window = OpenWindow

\* A task goes before the first one of a lower priority.
Insert(t, priority) ==
  LET lower == SelectInSeq(queue, LAMBDA q : plan[q].priority < priority)
  IN InsertAt(queue, IF lower = 0 THEN Len(queue) + 1 ELSE lower, t)

\* Over budget, behind a long rate limit or with the queue full, a submission
\* is rejected and leaves nothing but the checks' resets.
SubmitTask(t, priority, a, estimate, dependsOn, busy) ==
  /\ plan[t] = None
  /\ used' = Reset(used)
  /\ \/ /\ OverBudget(Reset(used), a, t, estimate)
        /\ UNCHANGED <<window, tables>>
     \/ /\ ~OverBudget(Reset(used), a, t, estimate)
        /\ window' = Checked(window, estimate, busy)
        /\ Checked(window, estimate, busy).limited \/ Len(queue) >= QueueLimit
        /\ UNCHANGED tables
     \/ /\ ~OverBudget(Reset(used), a, t, estimate)
        /\ window' = Checked(window, estimate, busy)
        /\ Len(queue) < QueueLimit
        /\ queue' = Insert(t, priority)
        /\ plan' = [plan EXCEPT ![t] = [priority |-> priority, agent |-> a,
                                        estimate |-> estimate, dependsOn |-> dependsOn]]
        /\ UNCHANGED <<running, settled, late>>
  /\ UNCHANGED call

Outcome(t, status) == [task |-> t, status |-> status]

\* markCompleted and markFailed without the look-up in the running map.
SettleAlways(t, status) ==
  /\ running' = running \ {t} /\ late' = late \ {t}
  /\ settled' = Append(settled, Outcome(t, status))

\* markCompleted and markFailed: a task that was cancelled or timed out
\* meanwhile is no longer running, and nothing is written.
Settle(t, status) ==
  IF t \in running
  THEN /\ running' = running \ {t} /\ late' = late \ {t}
       /\ settled' = Append(settled, Outcome(t, status))
  ELSE UNCHANGED <<running, late, settled>>

\* dequeueNext is handed the ids of the tasks that run as those completed.
Ready(t, completedIds) == plan[t].dependsOn \subseteq completedIds

\* checkTimeouts, dequeueNext, markRunning and the first rate check.
ExecuteNext(c, busy) ==
  LET left  == running \ late
      place == IF Cardinality(left) >= RunningLimit THEN 0
               ELSE SelectInSeq(queue, LAMBDA q : Ready(q, left))
  IN /\ call[c] = Idle
     /\ settled' = settled \o [i \in 1..Cardinality(late) |->
                                 Outcome(SetToSeq(late)[i], "timeout")]
     /\ late' = {}
     /\ IF place = 0
        THEN running' = left /\ UNCHANGED <<queue, call, window>>
        ELSE LET t == queue[place]
             IN /\ queue' = RemoveAt(queue, place)
                /\ running' = left \cup {t}
                /\ window' = Checked(window, plan[t].estimate, busy)
                /\ call' = [call EXCEPT ![c] =
                     [step |-> IF Clear(window, plan[t].estimate, busy) THEN "cleared" ELSE "waiting",
                      task |-> t, agent |-> plan[t].agent]]
     /\ UNCHANGED <<plan, used>>

At(c, step) == call[c].step = step
Go(c, step) == call' = [call EXCEPT ![c].step = step]
Return(c) == call' = [call EXCEPT ![c] = Idle]

\* waitForRateLimit: a further check, or the end of its 30 seconds.
CheckAgain(c, busy) ==
  LET estimate == plan[call[c].task].estimate
  IN /\ At(c, "waiting")
     /\ window' = Checked(window, estimate, busy)
     /\ IF Clear(window, estimate, busy) THEN Go(c, "cleared") ELSE UNCHANGED call
     /\ UNCHANGED <<tables, used>>

WaitEnds(c) ==
  /\ At(c, "waiting")
  /\ Settle(call[c].task, "failed")
  /\ Return(c)
  /\ UNCHANGED <<plan, queue, used, window>>

StartExecutor(c) ==
  /\ At(c, "cleared")
  /\ window' = Record(window, plan[call[c].task].estimate)
  /\ Go(c, "executing")
  /\ UNCHANGED <<tables, used>>

ExecutorReturns(c, tokens) ==
  /\ At(c, "executing")
  /\ used' = Spend(used, call[c].agent, call[c].task, tokens)
  /\ Settle(call[c].task, "completed")
  /\ Return(c)
  /\ UNCHANGED <<plan, queue, window>>

ExecutorThrows(c) ==
  /\ At(c, "executing")
  /\ Settle(call[c].task, "failed")
  /\ Return(c)
  /\ UNCHANGED <<plan, queue, used, window>>

\* A queued task leaves no trace, a running one is settled at once, although
\* the call that executes it goes on.
CancelTask(t) ==
  LET place == SelectInSeq(queue, LAMBDA q : q = t)
  IN /\ plan[t] # None
     /\ \/ /\ place # 0 /\ queue' = RemoveAt(queue, place)
           /\ UNCHANGED <<running, late, settled>>
        \/ /\ place = 0 /\ Settle(t, "cancelled")
           /\ UNCHANGED queue
     /\ UNCHANGED <<plan, call, used, window>>

\* getSchedulerStatus prunes the completed map.
GetStatus ==
  /\ settled' = IF Len(settled) <= KeepLast THEN settled
                ELSE SubSeq(settled, Len(settled) - KeepLast + 1, Len(settled))
  /\ used' = Reset(used)
  /\ UNCHANGED <<plan, queue, running, late, call, window>>

-----------------------------------------------------------------------------
(* runAgentLoop: a rate limit of at most ten seconds is not waited for *)

StartLoop(c, a, busy) ==
  LET u == Reset(used) IN
  /\ call[c] = Idle
  /\ used' = u
  /\ \/ /\ OverBudget(u, a, LoopTask, LoopEstimate)
        /\ UNCHANGED <<call, window>>
     \/ /\ ~OverBudget(u, a, LoopTask, LoopEstimate)
        /\ window' = Checked(window, LoopEstimate, busy)
        /\ window'.limited
        /\ UNCHANGED call
     \/ /\ ~OverBudget(u, a, LoopTask, LoopEstimate)
        /\ window' = Record(Checked(window, LoopEstimate, busy), LoopEstimate)
        /\ call' = [call EXCEPT ![c] = [step |-> "looping", task |-> LoopTask, agent |-> a]]
  /\ UNCHANGED tables

LoopReturns(c, tokens) ==
  /\ At(c, "looping")
  /\ used' = Spend(used, call[c].agent, LoopTask, tokens)
  /\ Return(c)
  /\ UNCHANGED <<tables, window>>

LoopThrows(c) ==
  /\ At(c, "looping")
  /\ Return(c)
  /\ UNCHANGED <<tables, used, window>>

-----------------------------------------------------------------------------
(* Time *)

RunsLate(c) ==
  /\ At(c, "executing") /\ call[c].task \in running \ late
  /\ late' = late \cup {call[c].task}
  /\ UNCHANGED <<plan, queue, running, settled, call, used, window>>

MinuteEnds ==
  /\ window.requests > 0 \/ window.limited
  /\ ~window.over
  /\ window' = [window EXCEPT !.over = TRUE]
  /\ UNCHANGED <<tables, call, used>>

DayEnds ==
  /\ used.today > 0 /\ ~used.over
  /\ used' = [used EXCEPT !.over = TRUE]
  /\ UNCHANGED <<tables, call, window>>

SchedulerNext ==
  \/ \E t \in Task, priority \in Levels, a \in Agent, estimate \in Estimates, busy \in BOOLEAN :
       \E dependsOn \in {{}} \cup {{d} : d \in {x \in Task : plan[x] # None}} :
         SubmitTask(t, priority, a, estimate, dependsOn, busy)
  \/ \E t \in Task : CancelTask(t)
  \/ \E c \in Caller :
       \/ \E busy \in BOOLEAN : ExecuteNext(c, busy) \/ CheckAgain(c, busy)
       \/ WaitEnds(c) \/ StartExecutor(c) \/ ExecutorThrows(c) \/ RunsLate(c)
       \/ \E tokens \in Usage : ExecutorReturns(c, tokens)
  \/ \E c \in LoopCaller :
       \/ \E a \in Agent, busy \in BOOLEAN : StartLoop(c, a, busy)
       \/ \E tokens \in Usage : LoopReturns(c, tokens)
       \/ LoopThrows(c)
  \/ GetStatus \/ MinuteEnds \/ DayEnds

SchedulerSpec == SchedulerInit /\ [][SchedulerNext]_schedulerVars

-----------------------------------------------------------------------------
(* Properties *)

SettledIds == {settled[i].task : i \in DOMAIN settled}

\* A task is in one place, once: queued, running or settled; and the task of a
\* call in flight has left the queue and is nobody else's, although cancellation
\* and timeouts settle tasks under the calls that execute them.
OnePlace ==
  /\ IsInjective(queue) /\ IsInjective([i \in DOMAIN settled |-> settled[i].task])
  /\ ToSet(queue) \cap running = {} /\ ToSet(queue) \cap SettledIds = {}
  /\ running \cap SettledIds = {} /\ late \subseteq running
  /\ \A c \in Caller : call[c].task \in Task =>
       /\ call[c].task \notin ToSet(queue)
       /\ \A e \in Caller \ {c} : call[e].task # call[c].task

\* The three ledgers of the budget tell the same sum, across the midnight that
\* some check notices first.
LedgerAgrees ==
  /\ FoldFunction(+, 0, used.agent) = used.today
  /\ FoldFunction(+, 0, used.task) = used.today

-----------------------------------------------------------------------------
(* What the documents say and the code does not do *)

\* At most MAX_RUNNING tasks are executed at once.
ExecutorsWithinLimit ==
  Cardinality({c \in Caller : At(c, "executing")}) <= RunningLimit

\* A task starts after those it depends on have completed.
DependenciesFirst ==
  [][\A t \in running' \ running : \A d \in plan[t].dependsOn : Outcome(d, "completed") \in ToSet(settled)]_schedulerVars

\* A cancelled task is not executed.
CancelledIsNotStarted ==
  [][\A c \in Caller : At(c, "cleared") /\ call'[c].step = "executing"
                          => call[c].task \in running]_schedulerVars

\* Beyond its budget the program calls no model.
WithinBudget == used.today <= DailyLimit

\* No more requests than the limit are sent in a minute.
WithinRate == window.requests <= RequestsPerMinute
=============================================================================
