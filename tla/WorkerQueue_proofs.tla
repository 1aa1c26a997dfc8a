------------------------- MODULE WorkerQueue_proofs -------------------------
(***************************************************************************)
(* Proofs about WorkerQueue, for every set of jobs, workers and slots, every *)
(* retry and concurrency limit, and every choice of faults.                  *)
(***************************************************************************)
EXTENDS WorkerQueue, FiniteSetTheorems, SequenceTheorems, TLAPS

LEMMA PollWorker ==
  \A p \in Poll : p[1] \in Worker
BY DEF Poll

LEMMA RunWorker ==
  \A r \in Run : r[1] \in Worker
BY DEF Run

LEMMA FindPendingIsJobs ==
  ASSUME NEW w \in Worker, NEW limit
  PROVE  FindPending(w, limit) \subseteq Job
BY DEF FindPending, FirstOf, Pending

LEMMA SubsetCardinality ==
  ASSUME NEW S \in SUBSET Job
  PROVE  Cardinality(S) \in Nat
BY JobAssumption, FS_Subset, FS_CardinalityType

LEMMA FunctionIsSequence ==
  ASSUME NEW n \in Nat, NEW S \in SUBSET Job, NEW s \in [1..n -> S]
  PROVE  s \in Seq(Job)
<1>1. s \in [1..n -> Job]
  OBVIOUS
<1> QED BY <1>1, SeqDef

LEMMA NextInLoopType ==
  ASSUME NEW w \in Worker, NEW left \in Seq(Job), NEW full \in BOOLEAN
  PROVE  /\ NextInLoop(w, left, full) \in
              [pc : {"idle", "find", "lease", "read"}, limit : Nat,
               found : Seq(Job), job : Job \cup {None}]
         /\ NextInLoop(w, left, full).pc \in {"idle", "lease"}
         /\ NextInLoop(w, left, full).pc = "lease"
              => NextInLoop(w, left, full).found # <<>>
BY DEF NextInLoop, IdlePoll

LEMMA InitInv == Init => QueueInv
<1>1. Init => TypeOK
  BY DEF Init, TypeOK, Status, IdlePoll, IdleRun
<1>2. Init => InFlight
  BY DEF Init, InFlight, Claiming, IdlePoll, IdleRun
<1>3. Init => Counts
  BY JobAssumption DEF Init, Counts, Leased, Settled
<1>4. Init => ExecutorOwnsRow /\ NoDuplicateExecution
  BY DEF Init, ExecutorOwnsRow, NoDuplicateExecution, Executing, Claiming,
         IdlePoll, IdleRun
<1> QED BY <1>1, <1>2, <1>3, <1>4 DEF QueueInv

-----------------------------------------------------------------------------
(* Types *)

LEMMA TypeNext ==
  ASSUME TypeOK, InFlight, [Next]_vars
  PROVE  TypeOK'
<1> USE DEF TypeOK
<1>1. ASSUME NEW j \in Job, CreateCheck(j) PROVE TypeOK'
  BY <1>1 DEF CreateCheck, row
<1>2. ASSUME NEW j \in Job, CreateInsert(j) PROVE TypeOK'
  <2>1. ScheduledNow(j) \in [Job -> SUBSET Job]
    BY DEF ScheduledNow
  <2>2. CASE UNCHANGED row
    BY <1>2, <2>2 DEF CreateInsert, row
  <2>3. CASE ~ UNCHANGED row
    <3>1. /\ status' = [status EXCEPT ![j] = "pending"]
          /\ earlier' = ScheduledNow(j)
          /\ creating' = creating \ {j}
          /\ UNCHANGED <<owner, lease, retryCount, attemptCount>>
          /\ UNCHANGED <<proc, active, poll, run>>
      BY <1>2, <2>3 DEF CreateInsert
    <3> QED BY <3>1, <2>1 DEF Status
  <2> QED BY <2>2, <2>3
<1>3. ASSUME NEW j \in Job, LeaseExpires(j) PROVE TypeOK'
  BY <1>3 DEF LeaseExpires
<1>4. ASSUME NEW p \in Poll, PollBegin(p) PROVE TypeOK'
  <2>1. MaxConcurrent - Cardinality(active[p[1]]) \in Nat
    <3>1. Cardinality(active[p[1]]) \in Nat
      BY PollWorker, SubsetCardinality
    <3> QED BY <1>4, <3>1, ConcurrencyAssumption DEF PollBegin, Full
  <2>2. poll' \in [Poll -> [pc : {"idle", "find", "lease", "read"}, limit : Nat,
                          found : Seq(Job), job : Job \cup {None}]]
    BY <1>4, <2>1 DEF PollBegin
  <2> QED BY <1>4, <2>2 DEF PollBegin, row
<1>5. ASSUME NEW p \in Poll, PollFind(p) PROVE TypeOK'
  <2> DEFINE S == FindPending(p[1], poll[p].limit)
  <2>1. S \subseteq Job /\ Cardinality(S) \in Nat
    BY PollWorker, FindPendingIsJobs, SubsetCardinality
  <2>2. PICK s \in [1..Cardinality(S) -> S] :
          poll' = [poll EXCEPT ![p] = NextInLoop(p[1], s, Full(p[1]))]
    BY <1>5 DEF PollFind
  <2>3. s \in Seq(Job)
    <3> HIDE DEF S
    <3> QED BY <2>1, <2>2, FunctionIsSequence
  <2>4. Full(p[1]) \in BOOLEAN
    BY DEF Full
  <2> HIDE DEF S
  <2> QED BY <1>5, <2>2, <2>3, <2>4, PollWorker, NextInLoopType DEF PollFind, row
<1>6. ASSUME NEW p \in Poll, PollLease(p) PROVE TypeOK'
  <2>1. Tail(poll[p].found) \in Seq(Job) /\ Full(p[1]) \in BOOLEAN
    BY <1>6 DEF PollLease, InFlight, Full
  <2>2. NextInLoop(p[1], Tail(poll[p].found), Full(p[1])) \in
              [pc : {"idle", "find", "lease", "read"}, limit : Nat,
               found : Seq(Job), job : Job \cup {None}]
    BY <2>1, PollWorker, NextInLoopType
  <2>3. CASE UNCHANGED row
    <3>1. /\ poll' = [poll EXCEPT ![p] =
                NextInLoop(p[1], Tail(poll[p].found), Full(p[1]))]
          /\ UNCHANGED <<creating, proc, active, run>>
      BY <1>6, <2>3 DEF PollLease, row, Leasable
    <3>2. poll' \in [Poll -> [pc : {"idle", "find", "lease", "read"}, limit : Nat,
                            found : Seq(Job), job : Job \cup {None}]]
      BY <2>2, <3>1
    <3> QED BY <2>3, <3>1, <3>2 DEF row
  <2>4. CASE ~ UNCHANGED row
    <3>1. PICK j \in Job :
            /\ status' = [status EXCEPT ![j] = "assigned"]
            /\ owner' = [owner EXCEPT ![j] = p[1]]
            /\ lease' = [lease EXCEPT ![j] = "live"]
            /\ attemptCount' = [attemptCount EXCEPT
                  ![j] = IF @ < AttemptBound THEN @ + 1 ELSE @]
            /\ poll' = [poll EXCEPT ![p] =
                  [pc |-> "read", limit |-> 0, found |-> poll[p].found, job |-> j]]
            /\ UNCHANGED <<retryCount, earlier, creating, proc, active, run>>
      BY <1>6, <2>4 DEF PollLease
    <3>2. poll' \in [Poll -> [pc : {"idle", "find", "lease", "read"}, limit : Nat,
                            found : Seq(Job), job : Job \cup {None}]]
      BY <3>1
    <3>3. attemptCount' \in [Job -> Nat] /\ owner' \in [Job -> Worker \cup {None}]
      BY <3>1, PollWorker
    <3>4. status' \in [Job -> Status] /\ lease' \in [Job -> {"null", "live", "expired"}]
      BY <3>1 DEF Status, Leased
    <3> QED BY <3>1, <3>2, <3>3, <3>4
  <2> QED BY <2>3, <2>4
<1>7. ASSUME NEW p \in Poll, PollClaim(p) PROVE TypeOK'
  <2> DEFINE full == Cardinality(active[p[1]] \cup {poll[p].job}) >= MaxConcurrent
  <2>1. Tail(poll[p].found) \in Seq(Job) /\ full \in BOOLEAN
    BY <1>7 DEF PollClaim, InFlight
  <2>2. NextInLoop(p[1], Tail(poll[p].found), full) \in
              [pc : {"idle", "find", "lease", "read"}, limit : Nat,
               found : Seq(Job), job : Job \cup {None}]
    BY <2>1, PollWorker, NextInLoopType
  <2>3. poll[p].job \in Job
    BY <1>7 DEF PollClaim, InFlight, Claiming
  <2> DEFINE next == NextInLoop(p[1], Tail(poll[p].found), full)
  <2>4. poll' = [poll EXCEPT ![p] = next]
    BY <1>7 DEF PollClaim, Activated
  <2>5. poll' \in [Poll -> [pc : {"idle", "find", "lease", "read"}, limit : Nat,
                          found : Seq(Job), job : Job \cup {None}]]
    <3> HIDE DEF next
    <3> QED BY <2>2, <2>4 DEF next
  <2>6. active' \in [Worker -> SUBSET Job]
    BY <1>7, <2>3, PollWorker DEF PollClaim, Activated
  <2>7. run' \in [Run -> [pc : {"idle", "mark", "work", "fail", "blocked", "finally"},
                         job : Job \cup {None}, retry : Nat]]
    BY <1>7, <2>3 DEF PollClaim
  <2> QED BY <1>7, <2>5, <2>6, <2>7 DEF PollClaim, row
<1>8. ASSUME NEW p \in Poll, PollError(p) PROVE TypeOK'
  BY <1>8 DEF PollError, IdlePoll, row
<1>9. ASSUME NEW r \in Run, NEW st \in Status, NEW pc \in {"work", "finally"},
             status' = [status EXCEPT ![run[r].job] = st], run' = RunAt(r, pc),
             UNCHANGED <<owner, lease, retryCount, attemptCount, earlier, creating, proc, active, poll>>
      PROVE  TypeOK'
  <2>1. status' \in [Job -> Status]
    BY <1>9
  <2>2. run' \in [Run -> [pc : {"idle", "mark", "work", "fail", "blocked", "finally"},
                         job : Job \cup {None}, retry : Nat]]
    BY <1>9 DEF RunAt
  <2> QED BY <1>9, <2>1, <2>2
<1>10. ASSUME NEW r \in Run, RunMark(r) \/ RunComplete(r) PROVE TypeOK'
  <2>1. "running" \in Status /\ "completed" \in Status
    BY DEF Status, Leased, Settled
  <2> QED BY <1>9, <1>10, <2>1 DEF RunMark, RunComplete
<1>11. ASSUME NEW r \in Run, RunBlock(r) PROVE TypeOK'
  <2>1. run' \in [Run -> [pc : {"idle", "mark", "work", "fail", "blocked", "finally"},
                         job : Job \cup {None}, retry : Nat]]
    BY <1>11 DEF RunBlock, RunAt
  <2>2. "blocked" \in Status
    BY DEF Status, Settled
  <2>3. status' \in [Job -> Status]
    BY <1>11, <2>2 DEF RunBlock
  <2>4. owner' \in [Job -> Worker \cup {None}] /\ lease' \in [Job -> {"null", "live", "expired"}]
    BY <1>11 DEF RunBlock
  <2>5. UNCHANGED <<retryCount, attemptCount, earlier, creating, proc, active, poll>>
    BY <1>11 DEF RunBlock
  <2> QED BY <2>1, <2>3, <2>4, <2>5
<1>12. ASSUME NEW r \in Run, RunFail(r) PROVE TypeOK'
  <2>1. run' \in [Run -> [pc : {"idle", "mark", "work", "fail", "blocked", "finally"},
                         job : Job \cup {None}, retry : Nat]]
    BY <1>12 DEF RunFail, RunAt
  <2> DEFINE job == run[r].job
  <2>0. run[r].retry + 1 \in Nat /\ job \in Job
    BY <1>12 DEF RunFail, InFlight
  <2>2. earlier' \in [Job -> SUBSET Job] /\ retryCount' \in [Job -> Nat]
    <3>1. CASE Requeued(job, run[r].retry + 1)
      <4>1. retryCount' = [retryCount EXCEPT ![job] = run[r].retry + 1]
        BY <3>1 DEF Requeued
      <4>2. retryCount' \in [Job -> Nat]
        BY <4>1, <2>0
      <4>3. earlier' \in [Job -> SUBSET Job]
        BY <3>1 DEF Requeued, ScheduledNow
      <4> QED BY <4>2, <4>3
    <3>2. CASE DeadLettered(job)
      BY <3>2 DEF DeadLettered
    <3> QED BY <1>12, <3>1, <3>2 DEF RunFail
  <2>3. "pending" \in Status /\ "dead_letter" \in Status
    BY DEF Status, Settled
  <2>4. status' = [status EXCEPT ![job] = "pending"] \/ status' = [status EXCEPT ![job] = "dead_letter"]
    BY <1>12 DEF RunFail, Requeued, DeadLettered
  <2>5. status' \in [Job -> Status]
    BY <2>3, <2>4
  <2>6. owner' \in [Job -> Worker \cup {None}] /\ lease' \in [Job -> {"null", "live", "expired"}]
    BY <1>12 DEF RunFail
  <2>7. UNCHANGED <<attemptCount, creating, proc, active, poll>>
    BY <1>12 DEF RunFail
  <2> QED BY <2>1, <2>2, <2>5, <2>6, <2>7
<1>13. ASSUME NEW r \in Run, RunTryError(r) PROVE TypeOK'
  BY <1>13 DEF RunTryError, RunAt, row
<1>14. ASSUME NEW r \in Run, RunCatchError(r) PROVE TypeOK'
  BY <1>14, RunWorker DEF RunCatchError, IdleRun, row
<1>15. ASSUME NEW r \in Run, RunFinally(r) PROVE TypeOK'
  BY <1>15, RunWorker DEF RunFinally, IdleRun, row
<1>16. ASSUME NEW w \in Worker, Start(w) \/ Stop(w) \/ Drained(w) PROVE TypeOK'
  BY <1>16 DEF Start, Stop, Drained, row
<1>17. ASSUME NEW w \in Worker, Exit(w) \/ Crash(w) PROVE TypeOK'
  <2>1. ProcessGone(w)
    BY <1>17 DEF Exit, Crash
  <2>2. poll' \in [Poll -> [pc : {"idle", "find", "lease", "read"}, limit : Nat,
                          found : Seq(Job), job : Job \cup {None}]]
    BY <2>1 DEF ProcessGone, IdlePoll
  <2>3. run' \in [Run -> [pc : {"idle", "mark", "work", "fail", "blocked", "finally"},
                         job : Job \cup {None}, retry : Nat]]
    BY <2>1 DEF ProcessGone, IdleRun
  <2> QED BY <2>1, <2>2, <2>3 DEF ProcessGone, row
<1>18. ASSUME UNCHANGED vars PROVE TypeOK'
  BY <1>18 DEF vars
<1> QED
  BY <1>1, <1>2, <1>3, <1>4, <1>5, <1>6, <1>7, <1>8, <1>9, <1>10, <1>11,
     <1>12, <1>13, <1>14, <1>15, <1>16, <1>17, <1>18
  DEF Next, PollStep, RunStep

-----------------------------------------------------------------------------
(* The invariant: one lemma per conjunct, one step per action. *)

\* A poll only moves to the start of its loop, to its end, or to a lease.
LEMMA LoopStep ==
  ASSUME TypeOK, InFlight, NEW p \in Poll, PollStep(p)
  PROVE  /\ \A q \in Poll : q # p => poll'[q] = poll[q]
         /\ poll'[p].pc = "lease" => poll'[p].found # <<>>
         /\ poll'[p].pc = "read" => /\ PollLease(p)
                                    /\ poll'[p].found # <<>>
<1> USE DEF TypeOK
<1>1. CASE PollBegin(p)
  BY <1>1 DEF PollBegin
<1>2. CASE PollFind(p)
  <2> DEFINE S == FindPending(p[1], poll[p].limit)
  <2>1. S \subseteq Job /\ Cardinality(S) \in Nat
    BY PollWorker, FindPendingIsJobs, SubsetCardinality
  <2>2. PICK s \in [1..Cardinality(S) -> S] :
          poll' = [poll EXCEPT ![p] = NextInLoop(p[1], s, Full(p[1]))]
    BY <1>2 DEF PollFind
  <2>3. s \in Seq(Job)
    <3> HIDE DEF S
    <3> QED BY <2>1, <2>2, FunctionIsSequence
  <2>4. Full(p[1]) \in BOOLEAN
    BY DEF Full
  <2> DEFINE next == NextInLoop(p[1], s, Full(p[1]))
  <2>5. next.pc \in {"idle", "lease"} /\ (next.pc = "lease" => next.found # <<>>)
    BY <2>3, <2>4, PollWorker, NextInLoopType
  <2> HIDE DEF S, next
  <2> QED BY <2>2, <2>5 DEF next
<1>3. CASE PollLease(p)
  <2>1. Tail(poll[p].found) \in Seq(Job) /\ Full(p[1]) \in BOOLEAN
    BY <1>3 DEF PollLease, InFlight, Full
  <2>2. \/ \E j : poll' = [poll EXCEPT ![p] =
              [pc |-> "read", limit |-> 0, found |-> poll[p].found, job |-> j]]
        \/ poll' = [poll EXCEPT ![p] =
              NextInLoop(p[1], Tail(poll[p].found), Full(p[1]))]
    BY <1>3 DEF PollLease
  <2>3. poll[p].found # <<>>
    BY <1>3 DEF PollLease, InFlight
  <2> DEFINE left == Tail(poll[p].found)
             next == NextInLoop(p[1], left, Full(p[1]))
  <2>4. next.pc \in {"idle", "lease"} /\ (next.pc = "lease" => next.found # <<>>)
    <3>1. left \in Seq(Job) /\ Full(p[1]) \in BOOLEAN /\ p[1] \in Worker
      BY <2>1, PollWorker
    <3> HIDE DEF left, TypeOK
    <3> QED BY <3>1, NextInLoopType
  <2> HIDE DEF next
  <2> QED BY <1>3, <2>2, <2>3, <2>4 DEF next
<1>4. CASE PollClaim(p)
  <2> DEFINE full == Cardinality(active[p[1]] \cup {poll[p].job}) >= MaxConcurrent
  <2>1. Tail(poll[p].found) \in Seq(Job) /\ full \in BOOLEAN
    BY <1>4 DEF PollClaim, InFlight
  <2>2. poll' = [poll EXCEPT ![p] = NextInLoop(p[1], Tail(poll[p].found), full)]
    BY <1>4 DEF PollClaim, Activated
  <2> DEFINE left == Tail(poll[p].found)
             next == NextInLoop(p[1], left, full)
  <2>3. next.pc \in {"idle", "lease"} /\ (next.pc = "lease" => next.found # <<>>)
    <3>1. left \in Seq(Job) /\ full \in BOOLEAN /\ p[1] \in Worker
      BY <2>1, PollWorker
    <3> HIDE DEF left, full, TypeOK
    <3> QED BY <3>1, NextInLoopType
  <2> HIDE DEF full, next
  <2> QED BY <2>2, <2>3 DEF next
<1>5. CASE PollError(p)
  BY <1>5 DEF PollError, IdlePoll
<1> QED BY <1>1, <1>2, <1>3, <1>4, <1>5 DEF PollStep

\* What an execution of PollLease that leases does.
LEMMA LeaseStep ==
  ASSUME TypeOK, InFlight, NEW p \in Poll, PollLease(p)
  PROVE  \/ UNCHANGED row /\ poll'[p].pc # "read"
         \/ \E j \in Job :
              /\ status[j] = "pending"
              /\ status' = [status EXCEPT ![j] = "assigned"]
              /\ owner' = [owner EXCEPT ![j] = p[1]]
              /\ lease' = [lease EXCEPT ![j] = "live"]
              /\ attemptCount' = [attemptCount EXCEPT
                    ![j] = IF @ < AttemptBound THEN @ + 1 ELSE @]
              /\ poll'[p].pc = "read" /\ poll'[p].job = j
              /\ UNCHANGED retryCount
<1> USE DEF TypeOK
<1>1. CASE \E j \in Job : Leasable(j) /\ j = Head(poll[p].found)
  BY <1>1 DEF PollLease, Leasable
<1>2. CASE ~ \E j \in Job : Leasable(j) /\ j = Head(poll[p].found)
  <2>1. Tail(poll[p].found) \in Seq(Job) /\ Full(p[1]) \in BOOLEAN
    BY DEF PollLease, InFlight, Full
  <2>2. /\ UNCHANGED row
        /\ poll' = [poll EXCEPT ![p] =
              NextInLoop(p[1], Tail(poll[p].found), Full(p[1]))]
    BY <1>2 DEF PollLease
  <2> QED BY <2>1, <2>2, PollWorker, NextInLoopType
<1> QED BY <1>1, <1>2

LEMMA CountsNext ==
  ASSUME QueueInv, [Next]_vars
  PROVE  Counts'
<1> USE DEF QueueInv, TypeOK, Counts
<1>1. ASSUME NEW j \in Job, CreateInsert(j) PROVE Counts'
  BY <1>1 DEF CreateInsert, row, InFlight, Leased, Settled
<1>2. ASSUME NEW p \in Poll, PollLease(p) PROVE Counts'
  <2>1. CASE UNCHANGED row
    BY <2>1 DEF row
  <2>2. CASE ~ UNCHANGED row
    <3>1. PICK j \in Job :
            /\ status[j] = "pending"
            /\ status' = [status EXCEPT ![j] = "assigned"]
            /\ attemptCount' = [attemptCount EXCEPT
                  ![j] = IF @ < AttemptBound THEN @ + 1 ELSE @]
            /\ UNCHANGED retryCount
      BY <1>2, <2>2, LeaseStep DEF row
    <3>2. attemptCount[j] < AttemptBound /\ attemptCount[j] = retryCount[j]
      <4>1. MaxRetries[j] \in Nat /\ AttemptBound \in Nat
        BY JobAssumption, BoundAssumption
      <4>2. MaxRetries[j] + 1 < AttemptBound
        BY BoundAssumption
      <4>3. /\ retryCount[j] \in Nat /\ retryCount[j] <= MaxRetries[j]
            /\ attemptCount[j] = retryCount[j]
        BY <3>1
      <4> QED BY <4>1, <4>2, <4>3
    <3>3. attemptCount' = [attemptCount EXCEPT ![j] = attemptCount[j] + 1]
      BY <3>1, <3>2
    <3> QED BY <3>1, <3>2, <3>3 DEF Leased, Settled
  <2> QED BY <2>1, <2>2
<1>3. ASSUME NEW r \in Run, RunMark(r) PROVE Counts'
  BY <1>3 DEF RunMark, ExecutorOwnsRow, Executing, Leased, Settled
<1>4. ASSUME NEW r \in Run, RunComplete(r) \/ RunBlock(r) PROVE Counts'
  BY <1>4 DEF RunComplete, RunBlock, ExecutorOwnsRow, Executing, Leased, Settled
<1>5. ASSUME NEW r \in Run, RunFail(r) PROVE Counts'
  <2> DEFINE j == run[r].job
  <2>1. /\ j \in Job /\ status[j] \in Leased /\ run[r].retry = retryCount[j]
        /\ attemptCount[j] = retryCount[j] + 1 /\ UNCHANGED attemptCount
        /\ MaxRetries[j] \in Nat
    BY <1>5, JobAssumption
    DEF RunFail, ExecutorOwnsRow, Executing, InFlight
  <2>2. CASE RetryLeft(j, run[r].retry) /\ Requeued(j, run[r].retry + 1)
    <3>1. /\ status' = [status EXCEPT ![j] = "pending"]
          /\ retryCount' = [retryCount EXCEPT ![j] = retryCount[j] + 1]
          /\ retryCount[j] < MaxRetries[j]
      BY <2>1, <2>2 DEF RetryLeft, Requeued
    <3> HIDE DEF j
    <3> QED BY <2>1, <3>1, JobAssumption DEF Leased, Settled
  <2>3. CASE ~RetryLeft(j, run[r].retry) /\ DeadLettered(j)
    <3>1. /\ status' = [status EXCEPT ![j] = "dead_letter"]
          /\ UNCHANGED retryCount
          /\ retryCount[j] = MaxRetries[j]
      BY <2>1, <2>3 DEF RetryLeft, DeadLettered
    <3> HIDE DEF j
    <3> QED BY <2>1, <3>1, JobAssumption DEF Leased, Settled
  <2> QED BY <1>5, <2>2, <2>3 DEF RunFail
<1>6. ASSUME UNCHANGED <<status, retryCount, attemptCount>> PROVE Counts'
  BY <1>6
<1> HIDE DEF QueueInv, TypeOK, Counts
<1> QED
  BY <1>1, <1>2, <1>3, <1>4, <1>5, <1>6
  DEF Next, PollStep, RunStep, vars, row, CreateCheck, LeaseExpires, PollBegin,
      PollFind, PollClaim, PollError, RunTryError, RunCatchError, RunFinally,
      Start, Stop, Drained, Exit, Crash, ProcessGone

\* A run that executes a job is the only thing that touches its row.
LEMMA RunTouchesItsJob ==
  ASSUME TypeOK, InFlight, NEW r \in Run, RunStep(r)
  PROVE  /\ \A j \in Job \ {run[r].job} : status'[j] = status[j] /\ owner'[j] = owner[j]
                                          /\ retryCount'[j] = retryCount[j]
                                          /\ lease'[j] = lease[j]
         /\ \A s \in Run : s # r => run'[s] = run[s]
         /\ UNCHANGED <<poll, creating>>
<1> USE DEF TypeOK
<1>1. CASE RunMark(r)
  BY <1>1 DEF RunMark, RunAt
<1>2. CASE RunComplete(r)
  BY <1>2 DEF RunComplete, RunAt
<1>3. CASE RunBlock(r)
  BY <1>3 DEF RunBlock, RunAt
<1>4. CASE RunFail(r)
  BY <1>4 DEF RunFail, RunAt, Requeued, DeadLettered
<1>5. CASE RunTryError(r)
  BY <1>5 DEF RunTryError, RunAt, row
<1>6. CASE RunCatchError(r)
  BY <1>6 DEF RunCatchError, row
<1>7. CASE RunFinally(r)
  BY <1>7 DEF RunFinally, row
<1> QED BY <1>1, <1>2, <1>3, <1>4, <1>5, <1>6, <1>7 DEF RunStep

\* What becomes of the run itself: it goes on with its job, or it has let go.
LEMMA RunKeepsOrLetsGo ==
  ASSUME TypeOK, InFlight, NEW r \in Run, RunStep(r)
  PROVE  \/ /\ Executing(r) /\ run'[r].pc # "idle"
            /\ run'[r].job = run[r].job /\ run'[r].retry = run[r].retry
            /\ owner' = owner /\ retryCount' = retryCount
            /\ \/ status' = status
               \/ status' = [status EXCEPT ![run[r].job] = "running"]
         \/ /\ Executing(r) /\ ~Executing(r)'
            /\ run'[r].pc # "idle" /\ run'[r].job = run[r].job
         \/ /\ run'[r].pc = "idle" /\ UNCHANGED row
<1> USE DEF TypeOK
<1>1. CASE RunMark(r) \/ RunTryError(r)
  BY <1>1 DEF RunMark, RunTryError, RunAt, Executing, row
<1>2. CASE RunComplete(r) \/ RunBlock(r) \/ RunFail(r)
  BY <1>2 DEF RunComplete, RunBlock, RunFail, RunAt, Executing
<1>3. CASE RunCatchError(r) \/ RunFinally(r)
  BY <1>3 DEF RunCatchError, RunFinally, IdleRun
<1> QED BY <1>1, <1>2, <1>3 DEF RunStep

LEMMA InFlightNext ==
  ASSUME QueueInv, [Next]_vars
  PROVE  InFlight'
<1> USE DEF QueueInv
<1>1. TypeOK /\ InFlight /\ TypeOK'
  BY TypeNext
<1>2. ASSUME NEW j \in Job, CreateCheck(j) PROVE InFlight'
  BY <1>1, <1>2 DEF CreateCheck, InFlight, Claiming, row
<1>3. ASSUME NEW j \in Job, CreateInsert(j) PROVE InFlight'
  <2>1. /\ j \in creating /\ creating' = creating \ {j}
        /\ UNCHANGED <<poll, run, owner>>
        /\ status' = status \/ status' = [status EXCEPT ![j] = "pending"]
    BY <1>3 DEF CreateInsert, row
  <2> QED BY <1>1, <2>1 DEF InFlight, Claiming, TypeOK
<1>4. ASSUME NEW p \in Poll, PollStep(p), poll'[p].pc # "read" PROVE InFlight'
  <2>1. UNCHANGED <<status, owner, creating>>
    BY <1>1, <1>4, LeaseStep
    DEF PollStep, PollBegin, PollFind, PollClaim, PollError, PollLease, row
  <2>2. \A r \in Run : run'[r].pc # "idle" => run'[r].job \in Job
    <3>1. CASE PollClaim(p)
      <4>1. poll[p].job \in Job
        BY <1>1, <3>1 DEF PollClaim, InFlight, Claiming
      <4> QED BY <1>1, <3>1, <4>1 DEF PollClaim, InFlight, TypeOK
    <3>2. CASE ~PollClaim(p)
      BY <1>1, <1>4, <3>2
      DEF PollStep, PollBegin, PollFind, PollError, PollLease, InFlight
    <3> QED BY <3>1, <3>2
  <2> QED BY <1>1, <1>4, <2>1, <2>2, LoopStep DEF InFlight, Claiming
<1>5. ASSUME NEW p \in Poll, PollStep(p), poll'[p].pc = "read" PROVE InFlight'
  <2>1. PollLease(p) /\ poll'[p].found # <<>>
    BY <1>1, <1>5, LoopStep
  <2>2. PICK j \in Job :
          /\ status[j] = "pending"
          /\ status' = [status EXCEPT ![j] = "assigned"]
          /\ owner' = [owner EXCEPT ![j] = p[1]]
          /\ poll'[p].job = j
    BY <1>1, <1>5, <2>1, LeaseStep
  <2>3. UNCHANGED <<creating, run>> /\ \A q \in Poll : q # p => poll'[q] = poll[q]
    BY <1>1, <1>5, <2>1, LoopStep DEF PollLease
  <2>4. status'[j] = "assigned" /\ owner'[j] = p[1]
    BY <1>1, <2>2 DEF TypeOK
  <2>5. \A i \in Job : i # j => status'[i] = status[i] /\ owner'[i] = owner[i]
    BY <1>1, <2>2 DEF TypeOK
  <2>6. \A q \in Poll : Claiming(q) => poll[q].job # j
    BY <1>1, <2>2 DEF InFlight
  <2>7. creating \subseteq Job /\ j \notin creating
    BY <1>1, <2>2 DEF InFlight, TypeOK
  <2>8. \A i \in creating' : status'[i] = "absent"
    BY <1>1, <2>3, <2>5, <2>7 DEF InFlight
  <2>9. \A q \in Poll : Claiming(q)' => /\ poll'[q].job \in Job
                                       /\ status'[poll'[q].job] = "assigned"
                                       /\ owner'[poll'[q].job] = q[1]
    BY <1>1, <2>2, <2>3, <2>4, <2>5, <2>6 DEF InFlight, Claiming
  <2>10. \A q \in Poll : poll'[q].pc \in {"lease", "read"} => poll'[q].found # <<>>
    BY <1>1, <1>5, <2>1, <2>3 DEF InFlight
  <2> QED BY <1>1, <2>3, <2>8, <2>9, <2>10 DEF InFlight
<1>6. ASSUME NEW r \in Run, RunStep(r) PROVE InFlight'
  <2>1. \A p \in Poll : Claiming(p) /\ Executing(r) => poll[p].job # run[r].job
    BY DEF NoDuplicateExecution
  <2>2. Executing(r) => run[r].job \in Job /\ status[run[r].job] \in Leased
    BY <1>1 DEF InFlight, Executing, ExecutorOwnsRow
  <2>3. \A s \in Run : run'[s].pc # "idle" => run'[s].job \in Job
    BY <1>1, <1>6, <2>2, RunTouchesItsJob, RunKeepsOrLetsGo DEF InFlight
  <2>4. \A p \in Poll : Claiming(p) => /\ status'[poll[p].job] = "assigned"
                                       /\ owner'[poll[p].job] = p[1]
    BY <1>1, <1>6, <2>1, RunTouchesItsJob, RunKeepsOrLetsGo DEF InFlight, row
  <2>5. \A j \in creating : status'[j] = "absent"
    <3>1. creating \subseteq Job /\ \A j \in creating : status[j] = "absent"
      BY <1>1 DEF InFlight, TypeOK
    <3>2. CASE Executing(r)
      <4>1. run[r].job \notin creating
        BY <2>2, <3>1, <3>2 DEF Leased
      <4> QED BY <1>1, <1>6, <3>1, <4>1, RunTouchesItsJob
    <3>3. CASE ~Executing(r)
      <4>1. UNCHANGED row
        BY <1>1, <1>6, <3>3, RunKeepsOrLetsGo
      <4> QED BY <3>1, <4>1 DEF row
    <3> QED BY <3>2, <3>3
  <2> QED BY <1>1, <1>6, <2>3, <2>4, <2>5, RunTouchesItsJob DEF InFlight, Claiming
<1>7. ASSUME NEW w \in Worker, ProcessGone(w) PROVE InFlight'
  BY <1>1, <1>7 DEF ProcessGone, IdlePoll, IdleRun, InFlight, Claiming, row
<1>8. ASSUME UNCHANGED <<status, owner, creating, poll, run>> PROVE InFlight'
  BY <1>1, <1>8 DEF InFlight, Claiming
<1> HIDE DEF QueueInv
<1> QED
  BY <1>2, <1>3, <1>4, <1>5, <1>6, <1>7, <1>8
  DEF Next, vars, row, LeaseExpires, Start, Stop, Drained, Exit, Crash

LEMMA ExecutorNext ==
  ASSUME QueueInv, [Next]_vars
  PROVE  ExecutorOwnsRow'
<1> USE DEF QueueInv
<1>1. TypeOK /\ InFlight /\ ExecutorOwnsRow /\ NoDuplicateExecution
  OBVIOUS
<1>2. \A r \in Run : Executing(r) =>
        /\ run[r].job \in Job /\ status[run[r].job] \in Leased
        /\ owner[run[r].job] = r[1] /\ run[r].retry = retryCount[run[r].job]
  BY <1>1 DEF ExecutorOwnsRow, InFlight, Executing
<1>3. ASSUME NEW j \in Job, CreateInsert(j) PROVE ExecutorOwnsRow'
  <2>1. /\ status[j] = "absent" /\ UNCHANGED <<owner, retryCount, run>>
        /\ \A i \in Job : i # j => status'[i] = status[i]
    BY <1>1, <1>3 DEF CreateInsert, row, InFlight, TypeOK
  <2> QED BY <1>2, <2>1 DEF ExecutorOwnsRow, Executing, Leased
<1>4. ASSUME NEW p \in Poll, PollLease(p) PROVE ExecutorOwnsRow'
  <2>1. CASE UNCHANGED row
    BY <1>2, <1>4, <2>1 DEF PollLease, ExecutorOwnsRow, Executing, row
  <2>2. CASE ~ UNCHANGED row
    <3>1. PICK j \in Job :
            /\ status[j] = "pending"
            /\ \A i \in Job : i # j => status'[i] = status[i] /\ owner'[i] = owner[i]
            /\ UNCHANGED retryCount
      BY <1>1, <1>4, <2>2, LeaseStep DEF TypeOK
    <3>2. \A r \in Run : Executing(r) => run[r].job # j
      BY <1>2, <3>1 DEF Leased
    <3>3. UNCHANGED run
      BY <1>4 DEF PollLease
    <3> QED BY <1>2, <3>1, <3>2, <3>3 DEF ExecutorOwnsRow, Executing
  <2> QED BY <2>1, <2>2
<1>5. ASSUME NEW p \in Poll, PollClaim(p) PROVE ExecutorOwnsRow'
  <2>1. poll[p].job \in Job /\ status[poll[p].job] = "assigned"
        /\ owner[poll[p].job] = p[1]
    BY <1>1, <1>5 DEF InFlight, PollClaim, Claiming
  <2>2. PICK r \in Run :
          /\ r[1] = p[1]
          /\ run' = [run EXCEPT ![r] = [pc |-> "mark", job |-> poll[p].job,
                                       retry |-> retryCount[poll[p].job]]]
          /\ UNCHANGED row
    BY <1>5 DEF PollClaim
  <2>3. /\ \A s \in Run : s # r => run'[s] = run[s]
        /\ run'[r].job = poll[p].job /\ run'[r].retry = retryCount[poll[p].job]
    BY <1>1, <2>2 DEF TypeOK
  <2> QED BY <1>2, <2>1, <2>2, <2>3 DEF ExecutorOwnsRow, Executing, Leased, row
<1>6. ASSUME NEW r \in Run, RunStep(r) PROVE ExecutorOwnsRow'
  <2>1. \A s \in Run : s # r => run'[s] = run[s]
    BY <1>1, <1>6, RunTouchesItsJob
  <2>2. ASSUME NEW s \in Run, s # r, Executing(s)
        PROVE  /\ status'[run[s].job] \in Leased /\ owner'[run[s].job] = s[1]
               /\ run[s].retry = retryCount'[run[s].job]
    <3>1. CASE Executing(r)
      <4>1. run[s].job # run[r].job
        BY <1>1, <2>2, <3>1 DEF NoDuplicateExecution
      <4> QED BY <1>1, <1>2, <1>6, <2>2, <4>1, RunTouchesItsJob
    <3>2. CASE ~Executing(r)
      <4>1. UNCHANGED row
        BY <1>1, <1>6, <3>2, RunKeepsOrLetsGo
      <4> QED BY <1>2, <2>2, <4>1 DEF row
    <3> QED BY <3>1, <3>2
  <2>3. Executing(r)' => /\ status'[run'[r].job] \in Leased
                         /\ owner'[run'[r].job] = r[1]
                         /\ run'[r].retry = retryCount'[run'[r].job]
    <3>1. ASSUME Executing(r)'
          PROVE  /\ Executing(r) /\ run'[r].job = run[r].job
                 /\ run'[r].retry = run[r].retry
                 /\ owner' = owner /\ retryCount' = retryCount
                 /\ \/ status' = status
                    \/ status' = [status EXCEPT ![run[r].job] = "running"]
      BY <1>1, <1>6, <3>1, RunKeepsOrLetsGo DEF Executing
    <3> QED BY <1>1, <1>2, <3>1 DEF TypeOK, Leased
  <2> QED BY <2>1, <2>2, <2>3 DEF ExecutorOwnsRow, Executing
<1>7. ASSUME NEW w \in Worker, ProcessGone(w) PROVE ExecutorOwnsRow'
  BY <1>2, <1>7 DEF ProcessGone, IdleRun, ExecutorOwnsRow, Executing, row
<1>8. ASSUME UNCHANGED <<status, owner, retryCount, run>> PROVE ExecutorOwnsRow'
  BY <1>2, <1>8 DEF ExecutorOwnsRow, Executing
<1> HIDE DEF QueueInv
<1> QED
  BY <1>3, <1>4, <1>5, <1>6, <1>7, <1>8
  DEF Next, PollStep, vars, row, CreateCheck, LeaseExpires, PollBegin, PollFind,
      PollError, Start, Stop, Drained, Exit, Crash

LEMMA NoDuplicateNext ==
  ASSUME QueueInv, [Next]_vars
  PROVE  NoDuplicateExecution'
<1> USE DEF QueueInv
<1>1. TypeOK /\ InFlight /\ ExecutorOwnsRow /\ NoDuplicateExecution
  OBVIOUS
<1>2. /\ \A r \in Run : Executing(r) => /\ run[r].job \in Job
                                       /\ status[run[r].job] \in Leased
      /\ \A p \in Poll : Claiming(p) => /\ poll[p].job \in Job
                                       /\ status[poll[p].job] = "assigned"
  BY <1>1 DEF ExecutorOwnsRow, InFlight, Executing
<1>3. ASSUME NEW p \in Poll, PollStep(p), poll'[p].pc = "read"
      PROVE  NoDuplicateExecution'
  <2>1. PollLease(p)
    BY <1>1, <1>3, LoopStep
  <2>2. PICK j \in Job : status[j] = "pending" /\ poll'[p].job = j
    BY <1>1, <1>3, <2>1, LeaseStep
  <2>3. UNCHANGED run /\ \A q \in Poll : q # p => poll'[q] = poll[q]
    BY <1>1, <1>3, <2>1, LoopStep DEF PollLease
  <2>4. /\ \A r \in Run : Executing(r) => run[r].job # j
        /\ \A q \in Poll : Claiming(q) => poll[q].job # j
    BY <1>2, <2>2 DEF Leased
  <2> QED BY <1>1, <2>2, <2>3, <2>4 DEF NoDuplicateExecution, Executing, Claiming
<1>4. ASSUME NEW p \in Poll, PollClaim(p) PROVE NoDuplicateExecution'
  <2>1. PICK r \in Run :
          run' = [run EXCEPT ![r] = [pc |-> "mark", job |-> poll[p].job,
                                   retry |-> retryCount[poll[p].job]]]
    BY <1>4 DEF PollClaim
  <2>2. /\ \A s \in Run : s # r => run'[s] = run[s]
        /\ run'[r].job = poll[p].job
    BY <1>1, <2>1 DEF TypeOK
  <2>3. Claiming(p) /\ PollStep(p)
    BY <1>4 DEF PollClaim, Claiming, PollStep
  <2>4. /\ \A q \in Poll : q # p => poll'[q] = poll[q]
        /\ ~Claiming(p)'
    <3>1. CASE PollLease(p)
      BY <2>3, <3>1 DEF PollLease, Claiming
    <3>2. CASE ~PollLease(p)
      BY <1>1, <2>3, <3>2, LoopStep DEF Claiming
    <3> QED BY <3>1, <3>2
  <2> QED BY <1>1, <2>2, <2>3, <2>4 DEF NoDuplicateExecution, Executing, Claiming
<1>5. ASSUME NEW p \in Poll, PollStep(p), poll'[p].pc # "read", ~PollClaim(p)
      PROVE  NoDuplicateExecution'
  <2>1. UNCHANGED run
    BY <1>5 DEF PollStep, PollBegin, PollFind, PollLease, PollError
  <2>2. \A q \in Poll : q # p => poll'[q] = poll[q]
    BY <1>1, <1>5, LoopStep
  <2> QED BY <1>1, <1>5, <2>1, <2>2 DEF NoDuplicateExecution, Executing, Claiming
<1>6. ASSUME NEW r \in Run, RunStep(r) PROVE NoDuplicateExecution'
  <2>1. /\ \A s \in Run : s # r => run'[s] = run[s]
        /\ UNCHANGED poll
    BY <1>1, <1>6, RunTouchesItsJob
  <2>2. Executing(r)' => Executing(r) /\ run'[r].job = run[r].job
    BY <1>1, <1>6, RunKeepsOrLetsGo DEF Executing
  <2> QED BY <1>1, <2>1, <2>2 DEF NoDuplicateExecution, Executing, Claiming
<1>7. ASSUME NEW w \in Worker, ProcessGone(w) PROVE NoDuplicateExecution'
  <2>1. /\ \A r \in Run : Executing(r)' => Executing(r) /\ run'[r] = run[r]
        /\ \A p \in Poll : Claiming(p)' => Claiming(p) /\ poll'[p] = poll[p]
    BY <1>7 DEF ProcessGone, IdleRun, IdlePoll, Executing, Claiming
  <2> QED BY <1>1, <2>1 DEF NoDuplicateExecution
<1>8. ASSUME UNCHANGED <<poll, run>> PROVE NoDuplicateExecution'
  BY <1>1, <1>8 DEF NoDuplicateExecution, Executing, Claiming
<1> HIDE DEF QueueInv
<1> QED
  BY <1>3, <1>4, <1>5, <1>6, <1>7, <1>8
  DEF Next, PollStep, vars, row, CreateCheck, CreateInsert, LeaseExpires,
      Start, Stop, Drained, Exit, Crash

-----------------------------------------------------------------------------
(* Theorems *)

LEMMA InvNext == QueueInv /\ [Next]_vars => QueueInv'
BY TypeNext, InFlightNext, CountsNext, ExecutorNext, NoDuplicateNext DEF QueueInv

\* The inductive invariant holds of every reachable state of the worker queue.
THEOREM Invariance == Spec => []QueueInv
<1> QED BY InitInv, InvNext, PTL DEF Spec

\* No queue job is executed by two invocations at once (tryLeaseJob's
\* compare-and-set suffices while nothing reaps leases).
THEOREM NoDuplicateExecutionHolds == Spec => []NoDuplicateExecution
<1>1. QueueInv => NoDuplicateExecution
  BY DEF QueueInv
<1> QED BY <1>1, Invariance, PTL

\* The executor of a job is the worker its row names, and the retry count it
\* captured is the row's: the unguarded writes of executeJobAsync are right.
THEOREM ExecutorOwnsRowHolds == Spec => []ExecutorOwnsRow
<1>1. QueueInv => ExecutorOwnsRow
  BY DEF QueueInv
<1> QED BY <1>1, Invariance, PTL

\* A job is leased at most maxRetries + 1 times, and is dead-lettered only
\* after exactly that many leases.
THEOREM RetryBudgetHolds == Spec => []RetryBudget
<1>1. QueueInv => RetryBudget
  <2> SUFFICES ASSUME QueueInv, NEW j \in Job
               PROVE  /\ retryCount[j] <= MaxRetries[j]
                      /\ attemptCount[j] <= MaxRetries[j] + 1
                      /\ status[j] = "dead_letter"
                           => attemptCount[j] = MaxRetries[j] + 1
    BY DEF RetryBudget
  <2>1. /\ retryCount[j] \in Nat /\ attemptCount[j] \in Nat
        /\ MaxRetries[j] \in Nat /\ status[j] \in Status
    BY JobAssumption DEF QueueInv, TypeOK
  <2> QED BY <2>1 DEF QueueInv, Counts, Status, Settled
<1> QED BY <1>1, Invariance, PTL

-----------------------------------------------------------------------------
(* Every step is a step of the contract, or leaves it unchanged. *)

\* The four ways a row changes, and the one that the contract does not see.
RowSubmit(j)  == /\ status[j] = "absent" /\ status'[j] = "pending"
                 /\ ~InsertConflict(j) /\ attemptCount' = attemptCount
RowTake(j, w) == /\ status[j] = "pending" /\ status'[j] = "assigned"
                 /\ owner'[j] = w
                 /\ attemptCount' = [attemptCount EXCEPT ![j] = attemptCount[j] + 1]
RowSettle(j)  == /\ status[j] \in Leased /\ status'[j] \in Settled
                 /\ attemptCount' = attemptCount
RowRelease(j) == /\ status[j] \in Leased /\ status'[j] = "pending"
                 /\ retryCount[j] < MaxRetries[j] /\ attemptCount' = attemptCount
RowMark       == /\ \A j \in Job : \/ status'[j] = status[j]
                                  \/ /\ status[j] \in Leased
                                     /\ status'[j] \in Leased
                 /\ UNCHANGED <<owner, attemptCount>>

OthersUnchanged(j) ==
  \A i \in Job \ {j} : status'[i] = status[i] /\ owner'[i] = owner[i]

LEMMA RowStep ==
  ASSUME QueueInv, [Next]_vars
  PROVE  \/ RowMark
         \/ \E j \in Job :
              /\ OthersUnchanged(j)
              /\ \/ RowSubmit(j) \/ RowSettle(j) \/ RowRelease(j)
                 \/ \E w \in Worker : RowTake(j, w)
<1> DEFINE Goal == \/ RowMark
                   \/ \E j \in Job :
                        /\ OthersUnchanged(j)
                        /\ \/ RowSubmit(j) \/ RowSettle(j) \/ RowRelease(j)
                           \/ \E w \in Worker : RowTake(j, w)
<1>1. TypeOK /\ InFlight /\ Counts
  BY DEF QueueInv
<1>2. \A r \in Run : Executing(r) =>
        /\ run[r].job \in Job /\ status[run[r].job] \in Leased
        /\ run[r].retry = retryCount[run[r].job]
  BY DEF QueueInv, ExecutorOwnsRow, InFlight, Executing
<1>3. ASSUME UNCHANGED <<status, owner, attemptCount>> PROVE Goal
  <2>1. RowMark
    BY <1>3 DEF RowMark
  <2> QED BY <2>1
<1>4. ASSUME NEW j \in Job, CreateInsert(j) PROVE Goal
  <2>1. CASE InsertConflict(j)
    BY <1>3, <1>4, <2>1 DEF CreateInsert, row
  <2>2. CASE ~InsertConflict(j)
    BY <1>1, <1>4, <2>2
    DEF CreateInsert, RowSubmit, OthersUnchanged, InFlight, TypeOK
  <2> QED BY <2>1, <2>2
<1>5. ASSUME NEW p \in Poll, PollLease(p) PROVE Goal
  <2>1. CASE UNCHANGED row
    BY <1>3, <2>1 DEF row
  <2>2. CASE ~ UNCHANGED row
    <3>1. PICK j \in Job :
            /\ status[j] = "pending"
            /\ status' = [status EXCEPT ![j] = "assigned"]
            /\ owner' = [owner EXCEPT ![j] = p[1]]
            /\ attemptCount' = [attemptCount EXCEPT
                  ![j] = IF @ < AttemptBound THEN @ + 1 ELSE @]
      BY <1>1, <1>5, <2>2, LeaseStep
    <3>2. attemptCount[j] < AttemptBound
      <4>1. MaxRetries[j] \in Nat /\ AttemptBound \in Nat
        BY JobAssumption, BoundAssumption
      <4>2. MaxRetries[j] + 1 < AttemptBound
        BY BoundAssumption
      <4>3. /\ retryCount[j] \in Nat /\ retryCount[j] <= MaxRetries[j]
            /\ attemptCount[j] = retryCount[j]
        BY <1>1, <3>1 DEF Counts, TypeOK
      <4> QED BY <4>1, <4>2, <4>3
    <3>3. RowTake(j, p[1]) /\ OthersUnchanged(j)
      BY <1>1, <3>1, <3>2 DEF RowTake, OthersUnchanged, TypeOK
    <3> QED BY <3>3, PollWorker
  <2> QED BY <2>1, <2>2
<1>6. ASSUME NEW r \in Run, RunStep(r) PROVE Goal
  <2> DEFINE j == run[r].job
  <2>1. CASE RunMark(r)
    <3>1. RowMark
      BY <1>1, <1>2, <2>1 DEF RunMark, RowMark, Executing, Leased, TypeOK
    <3> QED BY <3>1
  <2>2. CASE RunComplete(r) \/ RunBlock(r)
    <3>1. j \in Job /\ OthersUnchanged(j) /\ RowSettle(j)
      BY <1>1, <1>2, <2>2
      DEF RunComplete, RunBlock, Executing, OthersUnchanged, RowSettle, Settled, TypeOK
    <3> QED BY <3>1
  <2>3. CASE RunFail(r)
    <3>1. /\ j \in Job /\ status[j] \in Leased /\ run[r].retry = retryCount[j]
          /\ owner' = [owner EXCEPT ![j] = None] /\ UNCHANGED attemptCount
      BY <1>2, <2>3 DEF RunFail, Executing
    <3>2. CASE RetryLeft(j, run[r].retry) /\ Requeued(j, run[r].retry + 1)
      <4>1. OthersUnchanged(j) /\ RowRelease(j)
        BY <1>1, <3>1, <3>2
        DEF Requeued, RetryLeft, OthersUnchanged, RowRelease, TypeOK
      <4> QED BY <3>1, <4>1
    <3>3. CASE DeadLettered(j)
      <4>1. OthersUnchanged(j) /\ RowSettle(j)
        BY <1>1, <3>1, <3>3 DEF DeadLettered, OthersUnchanged, RowSettle, Settled, TypeOK
      <4> QED BY <3>1, <4>1
    <3> QED BY <2>3, <3>2, <3>3 DEF RunFail
  <2>4. CASE RunTryError(r) \/ RunCatchError(r) \/ RunFinally(r)
    BY <1>3, <2>4 DEF RunTryError, RunCatchError, RunFinally, row
  <2> QED BY <1>6, <2>1, <2>2, <2>3, <2>4 DEF RunStep
<1> HIDE DEF Goal
<1>7. Goal
  BY <1>3, <1>4, <1>5, <1>6
  DEF Next, PollStep, vars, row, CreateCheck, LeaseExpires, PollBegin, PollFind,
      PollClaim, PollError, Start, Stop, Drained, Exit, Crash, ProcessGone
<1> QED BY <1>7 DEF Goal

\* A settled job is final, although the writes that settle, requeue and
\* dead-letter a job update its row by id alone.
THEOREM SettledForeverHolds == Spec => SettledForever
<1>1. QueueInv /\ [Next]_vars
        => [\A j \in Job : status[j] \in Settled => status'[j] = status[j]]_vars
  <2> SUFFICES ASSUME QueueInv, [Next]_vars, NEW j \in Job, status[j] \in Settled
               PROVE  status'[j] = status[j]
    OBVIOUS
  <2> QED BY RowStep
          DEF RowMark, RowSubmit, RowTake, RowSettle, RowRelease, OthersUnchanged,
              Leased, Settled
<1> QED BY <1>1, Invariance, PTL DEF Spec, SettledForever

\* Two callers that enqueue one key leave one row, although each only read that
\* the key was free: no step but the guarded insert makes a row appear.
THEOREM IdempotentEnqueueHolds == Spec => []IdempotentEnqueue
<1>1. Init => IdempotentEnqueue
  BY DEF Init, IdempotentEnqueue
<1>2. QueueInv /\ IdempotentEnqueue /\ [Next]_vars => IdempotentEnqueue'
  <2> SUFFICES ASSUME QueueInv, IdempotentEnqueue, [Next]_vars,
                      NEW i \in Job, NEW j \in Job,
                      status'[i] # "absent", status'[j] # "absent",
                      JobKey[i] = JobKey[j], JobKey[i] # None
               PROVE  i = j
    BY DEF IdempotentEnqueue
  <2>1. CASE status[i] # "absent" /\ status[j] # "absent"
    BY <2>1 DEF IdempotentEnqueue
  <2>2. ASSUME NEW k \in Job, status[k] = "absent", status'[k] # "absent"
        PROVE  OthersUnchanged(k) /\ RowSubmit(k)
    BY <2>2, RowStep
       DEF RowMark, RowSubmit, RowTake, RowSettle, RowRelease, OthersUnchanged,
           Leased, Settled
  <2>3. ASSUME NEW k \in Job, NEW l \in Job, k # l,
               status[k] = "absent", status'[k] # "absent", status'[l] # "absent",
               JobKey[k] = JobKey[l], JobKey[k] # None
        PROVE  FALSE
    <3>1. RowSubmit(k) /\ status[l] # "absent"
      BY <2>2, <2>3 DEF OthersUnchanged
    <3> QED BY <2>3, <3>1 DEF RowSubmit, InsertConflict, KeyTaken
  <2> QED BY <2>1, <2>3
<1> QED BY <1>1, <1>2, Invariance, PTL DEF Spec

LEMMA ContractInit == Init => Contract!Init
BY DEF Init, Contract!Init, AbstractState, AbstractHolder, StateOf, Leased, Settled

\* A change of one row, as the contract sees it.
LEMMA RowIsContract ==
  ASSUME QueueInv, TypeOK', NEW j \in Job, OthersUnchanged(j),
         \/ RowSubmit(j) \/ RowSettle(j) \/ RowRelease(j)
         \/ \E w \in Worker : RowTake(j, w)
  PROVE  Contract!Next
<1> USE DEF Contract!Next
<1>1. TypeOK /\ Counts
  BY DEF QueueInv
<1>3. /\ AbstractState' = [AbstractState EXCEPT ![j] = StateOf(status'[j])]
        /\ AbstractHolder' = [AbstractHolder EXCEPT
                 ![j] = IF status'[j] \in Leased THEN owner'[j] ELSE None]
  BY DEF OthersUnchanged, AbstractState, AbstractHolder
<1>4. ASSUME RowSubmit(j) PROVE Contract!Submit(j)
  <2>1. AbstractState' = [AbstractState EXCEPT ![j] = "ready"]
    BY <1>3, <1>4 DEF RowSubmit, StateOf, Leased, Settled
  <2>2. AbstractHolder' = AbstractHolder
    BY <1>3, <1>4 DEF RowSubmit, AbstractHolder, Leased
  <2>3. AbstractState[j] = "absent"
    BY <1>4 DEF RowSubmit, AbstractState, StateOf, Leased, Settled
  <2>4. \A i \in Job : AbstractState[i] # "absent" => status[i] # "absent"
    BY DEF AbstractState, StateOf, Leased, Settled
  <2>5. \A i \in Job : AbstractState[i] # "absent" /\ JobKey[i] = JobKey[j]
                        => JobKey[j] = None
    BY <1>4, <2>4 DEF RowSubmit, InsertConflict, KeyTaken
  <2> QED BY <1>4, <2>1, <2>2, <2>3, <2>5 DEF RowSubmit, Contract!Submit
<1>5. ASSUME NEW w \in Worker, RowTake(j, w)
      PROVE  Contract!Take(j, w)
  <2>1. AbstractState' = [AbstractState EXCEPT ![j] = "held"]
    BY <1>3, <1>5 DEF RowTake, StateOf, Leased, Settled
  <2>2. AbstractHolder' = [AbstractHolder EXCEPT ![j] = w]
    BY <1>3, <1>5 DEF RowTake, Leased
  <2>3. AbstractState[j] = "ready"
    BY <1>5 DEF RowTake, AbstractState, StateOf, Leased, Settled
  <2>4. attemptCount[j] <= MaxRetries[j]
    BY <1>1, <1>5 DEF RowTake, Counts
  <2> QED BY <1>5, <2>1, <2>2, <2>3, <2>4 DEF RowTake, Contract!Take
<1>6. ASSUME RowSettle(j) PROVE Contract!Settle(j)
  <2>1. AbstractState' = [AbstractState EXCEPT ![j] = "settled"]
    BY <1>3, <1>6 DEF RowSettle, StateOf, Leased, Settled
  <2>2. AbstractHolder' = [AbstractHolder EXCEPT ![j] = None]
    BY <1>3, <1>6 DEF RowSettle, Leased, Settled
  <2>3. AbstractState[j] = "held"
    BY <1>6 DEF RowSettle, AbstractState, StateOf, Leased, Settled
  <2> QED BY <1>6, <2>1, <2>2, <2>3 DEF RowSettle, Contract!Settle
<1>7. ASSUME RowRelease(j) PROVE Contract!Release(j)
  <2>1. AbstractState' = [AbstractState EXCEPT ![j] = "ready"]
    BY <1>3, <1>7 DEF RowRelease, StateOf, Leased, Settled
  <2>2. AbstractHolder' = [AbstractHolder EXCEPT ![j] = None]
    BY <1>3, <1>7 DEF RowRelease, Leased
  <2>3. AbstractState[j] = "held"
    BY <1>7 DEF RowRelease, AbstractState, StateOf, Leased, Settled
  <2>4. attemptCount[j] <= MaxRetries[j]
    <3>1. /\ attemptCount[j] = retryCount[j] + 1 /\ retryCount[j] < MaxRetries[j]
          /\ retryCount[j] \in Nat /\ MaxRetries[j] \in Nat
      BY <1>1, <1>7, JobAssumption DEF RowRelease, Counts, TypeOK
    <3> QED BY <3>1
  <2> QED BY <1>7, <2>1, <2>2, <2>3, <2>4 DEF RowRelease, Contract!Release
<1> QED BY <1>4, <1>5, <1>6, <1>7

LEMMA ContractNext == QueueInv /\ [Next]_vars => [Contract!Next]_(Contract!vars)
<1> SUFFICES ASSUME QueueInv, [Next]_vars
             PROVE  Contract!Next \/ UNCHANGED Contract!vars
  OBVIOUS
<1>1. TypeOK'
  BY TypeNext DEF QueueInv
<1>2. CASE RowMark
  <2>1. AbstractState' = AbstractState /\ AbstractHolder' = AbstractHolder
    BY <1>2 DEF RowMark, AbstractState, AbstractHolder, StateOf, Leased, Settled
  <2> QED BY <1>2, <2>1 DEF RowMark, Contract!vars
<1> QED BY <1>1, <1>2, RowStep, RowIsContract

\* The worker queue implements the contract of a job: held by one worker at a
\* time, at most maxRetries + 1 times, and final once settled.
THEOREM ContractHolds == Spec => ImplementsContract
<1>1. QueueInv /\ [Next]_vars => [Contract!Next]_(Contract!vars)
  BY ContractNext
<1> QED BY <1>1, ContractInit, Invariance, PTL DEF Spec, Contract!Spec, ImplementsContract

-----------------------------------------------------------------------------
(* Abandoned rows *)

\* A row that is leased and in nobody's hand stays as it is.
LEMMA AbandonedRowStays ==
  ASSUME QueueInv, [Next]_vars, NEW j \in Job,
         status[j] \in Leased, ~Attended(j)
  PROVE  status'[j] = status[j] /\ owner'[j] = owner[j] /\ ~Attended(j)'
<1>1. TypeOK /\ InFlight
  BY DEF QueueInv
<1>2. /\ \A r \in Run : Executing(r) => run[r].job # j
      /\ \A p \in Poll : Claiming(p) => poll[p].job # j
  BY DEF Attended
<1> DEFINE Same == status'[j] = status[j] /\ owner'[j] = owner[j]
           Free == /\ \A r \in Run : Executing(r)' => run'[r].job # j
                   /\ \A p \in Poll : Claiming(p)' => poll'[p].job # j
<1>3. ASSUME NEW i \in Job, CreateInsert(i) PROVE Same
  <2>1. i # j
    BY <1>1, <1>3 DEF CreateInsert, InFlight, Leased
  <2> QED BY <1>1, <1>3, <2>1 DEF CreateInsert, row, TypeOK
<1>4. ASSUME NEW i \in Job, LeaseExpires(i) PROVE Same
  BY <1>4 DEF LeaseExpires
<1>5. ASSUME NEW p \in Poll, PollLease(p) PROVE Same /\ Free
  <2>1. UNCHANGED run /\ PollStep(p) /\ \A q \in Poll : q # p => poll'[q] = poll[q]
    BY <1>1, <1>5, LoopStep DEF PollLease, PollStep
  <2>2. CASE UNCHANGED row /\ poll'[p].pc # "read"
    BY <1>2, <2>1, <2>2 DEF row, Executing, Claiming
  <2>3. CASE ~(UNCHANGED row /\ poll'[p].pc # "read")
    <3>1. PICK i \in Job :
            /\ status[i] = "pending"
            /\ status' = [status EXCEPT ![i] = "assigned"]
            /\ owner' = [owner EXCEPT ![i] = p[1]]
            /\ poll'[p].job = i
      BY <1>1, <1>5, <2>3, LeaseStep
    <3>2. i # j
      BY <3>1 DEF Leased
    <3> QED BY <1>1, <1>2, <2>1, <3>1, <3>2 DEF TypeOK, Executing, Claiming
  <2> QED BY <2>2, <2>3
<1>6. ASSUME NEW p \in Poll, PollClaim(p) PROVE Free
  <2>1. Claiming(p) /\ PollStep(p) /\ ~PollLease(p)
    BY <1>6 DEF PollClaim, PollLease, PollStep, Claiming
  <2>2. poll'[p].pc # "read" /\ \A q \in Poll : q # p => poll'[q] = poll[q]
    BY <1>1, <2>1, LoopStep
  <2>3. PICK r \in Run : run' = [run EXCEPT ![r] =
                            [pc |-> "mark", job |-> poll[p].job,
                             retry |-> retryCount[poll[p].job]]]
    BY <1>6 DEF PollClaim
  <2>4. run'[r].job # j /\ \A s \in Run : s # r => run'[s] = run[s]
    BY <1>1, <1>2, <2>1, <2>3 DEF TypeOK
  <2> QED BY <1>2, <2>2, <2>4 DEF Executing, Claiming
<1>7. ASSUME NEW p \in Poll, PollBegin(p) \/ PollFind(p) \/ PollError(p) PROVE Free
  <2>1. PollStep(p) /\ UNCHANGED run
    BY <1>7 DEF PollStep, PollBegin, PollFind, PollError
  <2>2. poll'[p].pc # "read" /\ \A q \in Poll : q # p => poll'[q] = poll[q]
    <3>1. CASE PollError(p)
      BY <1>1, <3>1 DEF PollError, IdlePoll, TypeOK
    <3>2. CASE PollBegin(p) \/ PollFind(p)
      <4>1. ~PollLease(p)
        BY <3>2 DEF PollBegin, PollFind, PollLease
      <4> QED BY <1>1, <2>1, <4>1, LoopStep
    <3> QED BY <1>7, <3>1, <3>2
  <2> QED BY <1>2, <2>1, <2>2 DEF Executing, Claiming
<1>8. ASSUME NEW r \in Run, RunStep(r) PROVE Same /\ Free
  <2>1. Executing(r)' => Executing(r) /\ run'[r].job = run[r].job
    BY <1>1, <1>8, RunKeepsOrLetsGo DEF Executing
  <2>2. Free
    BY <1>1, <1>2, <1>8, <2>1, RunTouchesItsJob DEF Executing, Claiming
  <2>3. Same
    <3>1. CASE Executing(r)
      BY <1>1, <1>2, <1>8, <3>1, RunTouchesItsJob
    <3>2. CASE ~Executing(r)
      BY <1>1, <1>8, <3>2, RunKeepsOrLetsGo DEF row
    <3> QED BY <3>1, <3>2
  <2> QED BY <2>2, <2>3
<1>9. ASSUME NEW w \in Worker, ProcessGone(w) PROVE Same /\ Free
  BY <1>2, <1>9 DEF ProcessGone, IdleRun, IdlePoll, Executing, Claiming, row
<1>10. ASSUME UNCHANGED row PROVE Same
  BY <1>10 DEF row
<1>11. ASSUME UNCHANGED <<poll, run>> PROVE Free
  BY <1>2, <1>11 DEF Executing, Claiming
<1> HIDE DEF Same, Free
<1>12. Same /\ Free
  BY <1>3, <1>4, <1>5, <1>6, <1>7, <1>8, <1>9, <1>10, <1>11
  DEF Next, PollStep, vars, row, CreateCheck, CreateInsert, LeaseExpires,
      PollBegin, PollFind, PollClaim, PollError, Start, Stop, Drained, Exit, Crash
<1> QED BY <1>12 DEF Same, Free, Attended

\* A crash, a failing query or an exit leaves a leased row behind for good: what
\* the daemon of execution-worker.ts does about it is nothing, for every set of
\* workers, jobs and faults.
THEOREM AbandonedStaysHolds == Spec => AbandonedStays
<1>1. QueueInv /\ [Next]_vars
        => [\A j \in Job : status[j] \in Leased /\ ~Attended(j)
              => status'[j] = status[j] /\ owner'[j] = owner[j] /\ ~Attended(j)']_vars
  BY AbandonedRowStays
<1> QED BY <1>1, Invariance, PTL DEF Spec, AbandonedStays

-----------------------------------------------------------------------------
(* The slots of a worker *)

\* The default of WORKER_MAX_CONCURRENT, and polls that do not overlap.
OneSlot == MaxConcurrent = 1 /\ \A s, t \in PollSlot : s = t

\* A poll in flight found the worker idle; a run in flight is the only one.
SlotInv ==
  /\ \A p \in Poll : poll[p].pc # "idle" => active[p[1]] = {}
  /\ \A r \in Run : run[r].pc # "idle" => active[r[1]] = {run[r].job}
  /\ \A r, s \in Run : run[r].pc # "idle" /\ run[s].pc # "idle" /\ r[1] = s[1] => r = s

LEMMA NotFullIsEmpty ==
  ASSUME OneSlot, TypeOK, NEW w \in Worker, ~Full(w)
  PROVE  active[w] = {}
<1>1. active[w] \in SUBSET Job
  BY DEF TypeOK
<1>2. IsFiniteSet(active[w]) /\ Cardinality(active[w]) \in Nat
  BY <1>1, JobAssumption, FS_Subset, FS_CardinalityType
<1>3. Cardinality(active[w]) = 0
  BY <1>2 DEF Full, OneSlot
<1> QED BY <1>2, <1>3, FS_EmptySet

LEMMA SlotNext ==
  ASSUME OneSlot, TypeOK, SlotInv, [Next]_vars
  PROVE  SlotInv'
<1> USE DEF TypeOK
<1>0. \A p, q \in Poll : p[1] = q[1] => p = q
  <2>1. \A p \in Poll : p = <<p[1], p[2]>> /\ p[2] \in PollSlot
    BY DEF Poll
  <2> SUFFICES ASSUME NEW p \in Poll, NEW q \in Poll, p[1] = q[1] PROVE p = q
    OBVIOUS
  <2>2. p[2] = q[2]
    BY <2>1 DEF OneSlot
  <2>3. p = <<p[1], p[2]>> /\ q = <<q[1], q[2]>>
    BY <2>1
  <2> QED BY <2>2, <2>3, Zenon
<1>1. CASE UNCHANGED <<active, poll, run>>
  BY <1>1 DEF SlotInv
<1>2. ASSUME NEW p \in Poll, PollBegin(p) PROVE SlotInv'
  <2>1. active[p[1]] = {}
    BY <1>2, PollWorker, NotFullIsEmpty DEF PollBegin
  <2> QED BY <1>2, <2>1 DEF PollBegin, SlotInv
<1>3. ASSUME NEW p \in Poll, NEW n, poll[p].pc # "idle", poll' = [poll EXCEPT ![p] = n], UNCHANGED <<active, run>>
      PROVE  SlotInv'
  BY <1>3 DEF SlotInv
<1>4. ASSUME NEW p \in Poll, PollFind(p) \/ PollLease(p) \/ PollError(p) PROVE SlotInv'
  BY <1>3, <1>4 DEF PollFind, PollLease, PollError
<1>5. ASSUME NEW p \in Poll, PollClaim(p) PROVE SlotInv'
  <2> DEFINE w == p[1]
             j == poll[p].job
  <2>1. /\ w \in Worker /\ active[w] = {} /\ poll[p].pc = "read"
        /\ \A r \in Run : r[1] = w => run[r].pc = "idle"
    <3>1. w \in Worker /\ poll[p].pc = "read" /\ active[w] = {}
      BY <1>5, PollWorker DEF PollClaim, SlotInv
    <3>2. ASSUME NEW r \in Run, r[1] = w, run[r].pc # "idle" PROVE FALSE
      <4>1. active[r[1]] = {run[r].job}
        BY <3>2 DEF SlotInv
      <4> QED BY <3>1, <3>2, <4>1
    <3> QED BY <3>1, <3>2
  <2>2. Activated(w, j) = {j} /\ Cardinality({j}) = 1
    BY <2>1, FS_Singleton DEF Activated
  <2>3. active' = [active EXCEPT ![w] = {j}] /\ poll' = [poll EXCEPT ![p] = IdlePoll]
    <3>1. /\ active' = [active EXCEPT ![w] = Activated(w, j)]
          /\ poll' = [poll EXCEPT ![p] = NextInLoop(w, Tail(poll[p].found),
                                                   Cardinality(Activated(w, j)) >= MaxConcurrent)]
      BY <1>5 DEF PollClaim
    <3>2. Cardinality(Activated(w, j)) >= MaxConcurrent
      BY <2>2 DEF OneSlot
    <3>3. NextInLoop(w, Tail(poll[p].found), Cardinality(Activated(w, j)) >= MaxConcurrent) = IdlePoll
      BY <3>2 DEF NextInLoop
    <3> QED BY <2>2, <3>1, <3>3
  <2>4. PICK r \in Run : r[1] = w /\ run' = [run EXCEPT ![r] =
                                          [pc |-> "mark", job |-> j, retry |-> retryCount[j]]]
    BY <1>5 DEF PollClaim
  <2>5. \A q \in Poll : poll'[q].pc # "idle" => active'[q[1]] = {}
    BY <1>0, <2>3 DEF SlotInv, IdlePoll
  <2>6. \A s \in Run : s # r /\ run'[s].pc # "idle" => s[1] # w /\ run'[s] = run[s] /\ active'[s[1]] = active[s[1]]
    BY <2>1, <2>3, <2>4, RunWorker
  <2>7. run'[r].job = j /\ active'[r[1]] = {j} /\ r[1] = w
    BY <2>1, <2>3, <2>4
  <2>8. \A s \in Run : run'[s].pc # "idle" => active'[s[1]] = {run'[s].job}
    <3> SUFFICES ASSUME NEW s \in Run, run'[s].pc # "idle" PROVE active'[s[1]] = {run'[s].job}
      OBVIOUS
    <3>1. CASE s = r
      BY <2>7, <3>1
    <3>2. CASE s # r
      <4>1. run'[s] = run[s] /\ active'[s[1]] = active[s[1]]
        BY <2>6, <3>2
      <4> QED BY <4>1 DEF SlotInv
    <3> QED BY <3>1, <3>2
  <2>9. \A s, t \in Run : run'[s].pc # "idle" /\ run'[t].pc # "idle" /\ s[1] = t[1] => s = t
    <3> SUFFICES ASSUME NEW s \in Run, NEW t \in Run, run'[s].pc # "idle", run'[t].pc # "idle", s[1] = t[1], s # t
                 PROVE  FALSE
      OBVIOUS
    <3>1. CASE s = r \/ t = r
      BY <2>6, <2>7, <3>1
    <3>2. CASE s # r /\ t # r
      <4>1. run'[s] = run[s] /\ run'[t] = run[t]
        BY <2>6, <3>2
      <4> QED BY <4>1 DEF SlotInv
    <3> QED BY <3>1, <3>2
  <2> QED BY <2>5, <2>8, <2>9 DEF SlotInv
<1>6. ASSUME NEW r \in Run, NEW pc, run[r].pc # "idle", run' = RunAt(r, pc), UNCHANGED <<active, poll>>
      PROVE  SlotInv'
  <2>1. \A s \in Run : run'[s].pc # "idle" => run[s].pc # "idle" /\ run'[s].job = run[s].job
    BY <1>6 DEF RunAt
  <2> QED BY <1>6, <2>1 DEF SlotInv
<1>7. ASSUME NEW r \in Run, RunCatchError(r) \/ RunFinally(r) PROVE SlotInv'
  <2>1. /\ run[r].pc # "idle" /\ r[1] \in Worker /\ poll' = poll
        /\ active' = [active EXCEPT ![r[1]] = @ \ {run[r].job}] /\ run' = [run EXCEPT ![r] = IdleRun]
    BY <1>7, RunWorker DEF RunCatchError, RunFinally
  <2>2. active'[r[1]] = {} /\ run'[r].pc = "idle"
    BY <2>1 DEF SlotInv, IdleRun
  <2>3. \A s \in Run : run'[s].pc # "idle" =>
          s # r /\ run'[s] = run[s] /\ s[1] # r[1] /\ active'[s[1]] = active[s[1]]
    BY <2>1, <2>2, RunWorker DEF SlotInv
  <2> QED BY <2>1, <2>2, <2>3 DEF SlotInv
<1>8. ASSUME NEW w \in Worker, ProcessGone(w) PROVE SlotInv'
  <2>1. \A p \in Poll : poll'[p].pc # "idle" => p[1] # w /\ poll'[p] = poll[p]
    BY <1>8 DEF ProcessGone, IdlePoll
  <2>2. \A r \in Run : run'[r].pc # "idle" => r[1] # w /\ run'[r] = run[r]
    BY <1>8 DEF ProcessGone, IdleRun
  <2>3. \A v \in Worker : v # w => active'[v] = active[v]
    BY <1>8 DEF ProcessGone
  <2> QED BY <2>1, <2>2, <2>3, PollWorker, RunWorker DEF SlotInv
<1>9. ASSUME NEW r \in Run, RunStep(r) PROVE SlotInv'
  BY <1>6, <1>7, <1>9 DEF RunStep, RunMark, RunComplete, RunBlock, RunFail, RunTryError
<1> QED
  BY <1>1, <1>2, <1>4, <1>5, <1>8, <1>9
  DEF Next, PollStep, vars, CreateCheck, CreateInsert, LeaseExpires, Start, Stop, Drained, Exit, Crash

\* With the one slot that is the default, and polls that do not overlap, a worker
\* never executes two jobs at once, through any faults: activeJobIds is empty while
\* a poll is in flight (execution-worker.ts, pollAndExecute and executeJobAsync).
THEOREM MaxConcurrentHolds == OneSlot /\ Spec => []MaxConcurrentRespected
<1> SUFFICES ASSUME OneSlot PROVE Spec => []MaxConcurrentRespected
  OBVIOUS
<1>1. Init => SlotInv
  BY DEF Init, SlotInv, IdlePoll, IdleRun
<1>2. QueueInv /\ SlotInv /\ [Next]_vars => SlotInv'
  BY SlotNext DEF QueueInv
<1>3. SlotInv => MaxConcurrentRespected
  <2> SUFFICES ASSUME SlotInv, NEW w \in Worker
               PROVE  Cardinality({r \in Run : r[1] = w /\ Executing(r)}) <= 1
    BY DEF MaxConcurrentRespected, OneSlot
  <2> DEFINE S == {r \in Run : r[1] = w /\ Executing(r)}
  <2>1. \A r, s \in S : r = s
    BY DEF SlotInv, Executing
  <2>2. CASE S = {}
    BY <2>2, FS_EmptySet
  <2>3. CASE S # {}
    <3>1. PICK r \in S : TRUE
      BY <2>3
    <3>2. S = {r}
      BY <2>1, <3>1
    <3> HIDE DEF S
    <3>3. Cardinality(S) = 1
      BY <3>2, FS_Singleton
    <3> QED BY <3>3 DEF S
  <2> QED BY <2>2, <2>3
<1> QED BY <1>1, <1>2, <1>3, Invariance, PTL DEF Spec
=============================================================================
