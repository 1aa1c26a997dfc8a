----------------------- MODULE ProductionClosure_proofs -----------------------
(***************************************************************************)
(* Proofs about ProductionClosure, for any number of tasks, workers,        *)
(* invocations and retries, calls that overlap or are cut off anywhere, and *)
(* functions that outlive their timeout.                                    *)
(***************************************************************************)
EXTENDS ProductionClosure, RuntimeDispatch_proofs

-----------------------------------------------------------------------------
(* Calls that may overlap *)

RunRecord == [op : DOMAIN Program \cup {"none"}, key : Key \cup {None}, worker : Worker \cup {None},
              count : Nat, todo : Seq(Await)]

AttemptRow == Nat \X {"leased", "running", "failed", "blocked"}

RunRows ==
  /\ RowsOK
  /\ attempts \in [Key -> SUBSET AttemptRow]
  /\ call \in [Call -> RunRecord]
  /\ \A c \in Call : call[c] = Idle \/ InProgress(call[c])

LEMMA IdleIsNobody == Idle \in RunRecord /\ Idle.key = None /\ Idle.key \notin Key /\ Idle.todo = <<>>
BY NullAssumption DEF Idle, RunRecord

LEMMA InHand ==
  ASSUME RunRows, NEW c \in Call, NEW step, At(c, step)
  PROVE  /\ call[c] # Idle /\ call[c] \in RunRecord /\ InProgress(call[c]) /\ call[c].key \in Key /\ call[c].worker \in Worker
         /\ call[c].todo # <<>> /\ Head(call[c].todo) = step /\ call[c].count \in Nat
BY IdleIsNobody DEF RunRows, At, InProgress, RunRecord

\* What a call is after it went on from a step, remembering m.
After(n, d, step, m) ==
  \/ n = Idle
  \/ /\ InProgress(n) /\ n.key = d.key /\ n.worker = d.worker /\ n.op = d.op /\ n.count = m
     /\ <<step, Head(n.todo)>> \in Follows /\ n.todo = Tail(d.todo) /\ n # Idle

LEMMA GoesTo ==
  ASSUME RunRows, NEW c \in Call, NEW step, At(c, step), NEW m \in Nat, Continue(c, m)
  PROVE  \E n \in RunRecord : call' = [call EXCEPT ![c] = n] /\ After(n, call[c], step, m)
<1> DEFINE d == call[c]
           s == d.todo
           t == Tail(s)
<1>1. /\ d # Idle /\ d \in RunRecord /\ InProgress(d) /\ s \in Seq(Await) /\ s # <<>> /\ Head(s) = step /\ Chained(s)
  BY InHand DEF InProgress, RunRecord
<1>2. call' = [call EXCEPT ![c] = IF t = <<>> THEN Idle ELSE [d EXCEPT !.count = m, !.todo = t]]
  BY DEF Continue
<1> HIDE DEF s
<1>3. /\ t \in Seq(Await) /\ Len(t) = Len(s) - 1 /\ \A i \in 1 .. Len(t) : t[i] = s[i + 1]
      /\ Len(s) \in Nat /\ Len(t) \in Nat /\ Head(s) = s[1]
  BY <1>1, HeadTailProperties, LenProperties
<1> HIDE DEF t
<1>4. CASE t = <<>>
  <2>1. call' = [call EXCEPT ![c] = Idle]
    BY <1>2, <1>4
  <2> QED BY <2>1, IdleIsNobody DEF After
<1>5. CASE t # <<>>
  <2>1. Len(t) >= 1
    BY <1>3, <1>5, EmptySeq, LenProperties
  <2>2. Head(t) = t[1] /\ t[1] = s[2]
    BY <1>3, <2>1
  <2>3. <<step, Head(t)>> \in Follows
    <3>1. 1 \in 1 .. Len(s) - 1 /\ 1 + 1 = 2
      BY <1>3, <2>1
    <3> QED BY <1>1, <1>3, <2>2, <3>1 DEF Chained
  <2>4. Chained(t)
    <3> SUFFICES ASSUME NEW i \in 1 .. Len(t) - 1 PROVE <<t[i], t[i + 1]>> \in Follows
      BY DEF Chained
    <3>1. i + 1 \in 1 .. Len(s) - 1
      BY <1>3
    <3>2. t[i] = s[i + 1] /\ t[i + 1] = s[(i + 1) + 1]
      BY <1>3
    <3> QED BY <1>1, <3>1, <3>2 DEF Chained
  <2>5. PICK n : n = [d EXCEPT !.count = m, !.todo = t]
    OBVIOUS
  <2>6. n \in RunRecord /\ n.todo = t /\ n.key = d.key /\ n.count = m /\ n.op = d.op /\ n.worker = d.worker
    BY <1>1, <1>3, <2>5 DEF RunRecord
  <2>7. InProgress(n) /\ n # Idle
    BY <1>1, <1>5, <2>4, <2>6, IdleIsNobody DEF InProgress
  <2>8. call' = [call EXCEPT ![c] = n]
    BY <1>2, <1>5, <2>5
  <2>9. After(n, d, step, m)
    BY <2>3, <2>6, <2>7 DEF After, t, s
  <2> QED BY <2>6, <2>8, <2>9
<1> QED BY <1>4, <1>5

\* What a step of call c, at the await step, leaves behind: the call is n and remembers m.
Effects(c, step, m, n) ==
  LET k == call[c].key IN
  /\ At(c, step) /\ call' = [call EXCEPT ![c] = n] /\ After(n, call[c], step, m)
  /\ \A l \in Key \ {k} :
        UNCHANGED <<token[l], status[l], leaseOwner[l], attemptCount[l], attempts[l], receipt[l], drafts[l]>>
  /\ status[k] # "absent" => status'[k] # "absent"
  /\ status[k] \notin {"absent", "queued"} => status'[k] \notin {"absent", "queued"}
  /\ attemptCount'[k] # attemptCount[k] => status'[k] \notin {"absent", "queued"}
  /\ attempts[k] \subseteq attempts'[k]
  /\ receipt[k] # "none" => receipt'[k] # "none"
  /\ drafts'[k] = drafts[k] \/ (step = "write" /\ drafts'[k] \in {drafts[k], drafts[k] + 1})
  /\ step = "readQueued" /\ n # Idle => status[k] = "queued" /\ m = attemptCount[k]
  /\ step = "leaseById" => m = call[c].count + 1 /\ status'[k] = "leased"
  /\ step = "attemptLeased" /\ n # Idle
        => ~AttemptTaken(k, call[c].count) /\ \E a \in attempts'[k] : a[1] = call[c].count
  /\ step \in {"receiptDryRun", "receiptReal"} /\ n # Idle => receipt'[k] # "none"

StepDone(c) == \E step, m, n : n \in RunRecord /\ Effects(c, step, m, n)

LEMMA Quits ==
  ASSUME RunRows, NEW c \in Call, Quit(c)
  PROVE  call' = [call EXCEPT ![c] = Idle] /\ Idle \in RunRecord /\ \A step, m : After(Idle, call[c], step, m)
BY IdleIsNobody DEF Quit, After

\* The steps that only read.
LEMMA CheckDone ==
  ASSUME RunRows, NEW c \in Call, NEW step, NEW ok, NEW m \in Nat, Check(c, step, ok, m),
         step \in {"checkFree", "readQueued", "readLeased", "readHeld", "readRunning", "readToken", "readReceipt"},
         step = "readQueued" => /\ ok => status[call[c].key] = "queued"
                                /\ m = attemptCount[call[c].key]
  PROVE  StepDone(c) /\ RowsOK' /\ attempts' \in [Key -> SUBSET AttemptRow]
<1>1. UNCHANGED <<token, status, leaseOwner, attemptCount, attempts, receipt, drafts>> /\ At(c, step)
  BY DEF Check, grant, records
<1>2. RowsOK' /\ attempts' \in [Key -> SUBSET AttemptRow]
  BY <1>1 DEF RunRows, RowsOK
<1>3. CASE ok /\ Continue(c, m)
  <2>1. PICK n \in RunRecord : call' = [call EXCEPT ![c] = n] /\ After(n, call[c], step, m)
    BY <1>1, <1>3, GoesTo
  <2>2. Effects(c, step, m, n)
    BY <1>1, <1>3, <2>1 DEF Effects
  <2> QED BY <1>2, <2>2 DEF StepDone
<1>4. CASE Quit(c)
  <2>1. Effects(c, step, m, Idle)
    BY <1>1, <1>4, Quits DEF Effects
  <2> QED BY <1>2, <1>4, <2>1, Quits DEF StepDone
<1> QED BY <1>2, <1>3, <1>4 DEF Check

LEMMA ReadingDone ==
  ASSUME RunRows, NEW c \in Call,
         CheckFree(c) \/ ReadQueued(c) \/ ReadLeased(c) \/ ReadHeld(c) \/ ReadRunning(c) \/ ReadToken(c) \/ ReadReceipt(c)
  PROVE  StepDone(c) /\ RowsOK' /\ attempts' \in [Key -> SUBSET AttemptRow]
<1>1. \A step : At(c, step) => attemptCount[call[c].key] \in Nat
  BY InHand DEF RunRows, RowsOK
<1>2. CASE ReadQueued(c)
  <2>1. attemptCount[call[c].key] \in Nat
    BY <1>1, <1>2 DEF ReadQueued, Check
  <2> QED BY <1>2, <2>1, CheckDone DEF ReadQueued
<1>3. CASE ReadLeased(c)
  <2>1. attemptCount[call[c].key] \in Nat
    BY <1>1, <1>3 DEF ReadLeased, Check
  <2> QED BY <1>3, <2>1, CheckDone DEF ReadLeased
<1>4. CASE CheckFree(c)
  BY <1>4, CheckDone DEF CheckFree
<1>5. CASE ReadHeld(c)
  BY <1>5, CheckDone DEF ReadHeld
<1>6. CASE ReadRunning(c)
  BY <1>6, CheckDone DEF ReadRunning
<1>7. CASE ReadToken(c)
  BY <1>7, CheckDone DEF ReadToken
<1>8. CASE ReadReceipt(c)
  BY <1>8, CheckDone DEF ReadReceipt
<1> QED BY <1>2, <1>3, <1>4, <1>5, <1>6, <1>7, <1>8

LEMMA IssuingDone ==
  ASSUME RunRows, NEW c \in Call, InsertToken(c) \/ InsertJob(c) \/ Activate(c)
  PROVE  StepDone(c) /\ RowsOK' /\ attempts' \in [Key -> SUBSET AttemptRow]
<1> PICK k : k = call[c].key
  OBVIOUS
<1>1. PICK step \in {"insertToken", "insertJob", "activate"} : At(c, step)
  BY DEF InsertToken, InsertJob, Activate
<1>2. k \in Key
  BY <1>1, InHand
<1>3. /\ UNCHANGED <<leaseOwner, attemptCount, attempts, receipt, drafts>>
      /\ \/ UNCHANGED token
         \/ token' \in {[token EXCEPT ![k] = "draft"], [token EXCEPT ![k] = "active"]}
      /\ \/ UNCHANGED status
         \/ status[k] = "absent" /\ status' = [status EXCEPT ![k] = "queued"]
  BY DEF InsertToken, InsertJob, Activate, grant, records
<1>4. RowsOK' /\ attempts' \in [Key -> SUBSET AttemptRow]
  <2>1. token' \in [Key -> {"absent", "draft", "active", "consumed"}]
    BY <1>2, <1>3 DEF RunRows, RowsOK
  <2>2. status' \in [Key -> {"absent", "queued", "leased", "running"} \cup Final]
    BY <1>2, <1>3 DEF RunRows, RowsOK
  <2> QED BY <1>3, <2>1, <2>2 DEF RunRows, RowsOK
<1>5. /\ \A l \in Key \ {k} : UNCHANGED <<token[l], status[l]>>
      /\ status[k] # "absent" => status'[k] = status[k]
      /\ status'[k] = status[k] \/ status'[k] = "queued"
  BY <1>2, <1>3 DEF RunRows, RowsOK
<1>6. CASE Go(c)
  <2>1. PICK n \in RunRecord : call' = [call EXCEPT ![c] = n] /\ After(n, call[c], step, 0)
    BY <1>1, <1>6, GoesTo DEF Go
  <2>2. Effects(c, step, 0, n)
    BY <1>1, <1>3, <1>5, <2>1 DEF Effects
  <2> QED BY <1>4, <2>2 DEF StepDone
<1>7. CASE Quit(c)
  <2>1. Effects(c, step, 0, Idle)
    BY <1>1, <1>3, <1>5, <1>7, Quits DEF Effects
  <2> QED BY <1>4, <1>7, <2>1, Quits DEF StepDone
<1> QED BY <1>6, <1>7 DEF InsertToken, InsertJob, Activate

LEMMA HoldingDone ==
  ASSUME RunRows, NEW c \in Call, Lease(c) \/ RunJob(c) \/ FailOrBlock(c) \/ Succeed(c)
  PROVE  StepDone(c) /\ RowsOK' /\ attempts' \in [Key -> SUBSET AttemptRow]
<1> PICK k, w, i : k = call[c].key /\ w = call[c].worker /\ i = call[c].count
  OBVIOUS
<1>1. PICK step \in {"lease", "leaseById", "run", "fail", "block", "succeed"}, v \in {"leased", "running", "failed", "blocked", "succeeded"} :
        /\ At(c, step) /\ status' = [status EXCEPT ![k] = v] /\ (step = "leaseById" => v = "leased")
        /\ leaseOwner' \in {leaseOwner, [leaseOwner EXCEPT ![k] = w]}
        /\ attemptCount' \in {attemptCount, [attemptCount EXCEPT ![k] = i + 1]}
        /\ \E m : /\ Continue(c, m) /\ (step = "leaseById" => m = i + 1)
                  /\ m \in {0, i + 1, FailedAttempt(k)}
  <2>1. CASE Lease(c)
    BY <2>1, Zenon DEF Lease, CountClaimed
  <2>2. CASE RunJob(c)
    BY <2>2 DEF RunJob
  <2>3. CASE FailOrBlock(c)
    BY <2>3 DEF FailOrBlock
  <2>4. CASE Succeed(c)
    BY <2>4 DEF Succeed, Go
  <2> QED BY <2>1, <2>2, <2>3, <2>4
<1>2. k \in Key /\ w \in Worker /\ i \in Nat /\ FailedAttempt(k) \in Nat
  BY <1>1, InHand DEF FailedAttempt, RunRows, RowsOK
<1>3. PICK m \in Nat : Continue(c, m) /\ (step = "leaseById" => m = i + 1)
  BY <1>1, <1>2
<1>4. UNCHANGED <<token, attempts, receipt, drafts>>
  BY DEF Lease, RunJob, FailOrBlock, Succeed, grant, records
<1>5. RowsOK' /\ attempts' \in [Key -> SUBSET AttemptRow]
  <2>1. status' \in [Key -> {"absent", "queued", "leased", "running"} \cup Final]
    BY <1>1, <1>2 DEF RunRows, RowsOK, Final
  <2>2. leaseOwner' \in [Key -> Worker \cup {None}] /\ attemptCount' \in [Key -> Nat]
    BY <1>1, <1>2 DEF RunRows, RowsOK
  <2> QED BY <1>4, <2>1, <2>2 DEF RunRows, RowsOK
<1>6. /\ \A l \in Key \ {k} : UNCHANGED <<status[l], leaseOwner[l], attemptCount[l]>>
      /\ status'[k] = v
  BY <1>1, <1>2 DEF RunRows, RowsOK
<1>7. PICK n \in RunRecord : call' = [call EXCEPT ![c] = n] /\ After(n, call[c], step, m)
  BY <1>1, <1>3, GoesTo
<1>8. Effects(c, step, m, n)
  BY <1>1, <1>3, <1>4, <1>6, <1>7 DEF Effects
<1> QED BY <1>5, <1>8 DEF StepDone

LEMMA AttemptDone ==
  ASSUME RunRows, NEW c \in Call, InsertAttempt(c)
  PROVE  StepDone(c) /\ RowsOK' /\ attempts' \in [Key -> SUBSET AttemptRow]
<1> PICK k, i : k = call[c].key /\ i = call[c].count
  OBVIOUS
<1>1. /\ DOMAIN AttemptStatus = {"attemptLeased", "attemptRunning", "attemptFailed", "attemptBlocked"}
      /\ \A a \in DOMAIN AttemptStatus : AttemptStatus[a] \in {"leased", "running", "failed", "blocked"}
  BY DEF AttemptStatus
<1>2. PICK step \in DOMAIN AttemptStatus :
        /\ At(c, step)
        /\ \/ /\ ~AttemptTaken(k, i) /\ Go(c)
              /\ attempts' = [attempts EXCEPT ![k] = @ \cup {<<i, AttemptStatus[step]>>}]
           \/ AttemptTaken(k, i) /\ Quit(c) /\ UNCHANGED attempts
  BY DEF InsertAttempt
<1>3. UNCHANGED <<token, status, leaseOwner, attemptCount, receipt, drafts>>
  BY DEF InsertAttempt, grant
<1>4. k \in Key /\ i \in Nat /\ <<i, AttemptStatus[step]>> \in AttemptRow
  BY <1>1, <1>2, InHand DEF AttemptRow
<1>5. RowsOK' /\ attempts' \in [Key -> SUBSET AttemptRow]
  BY <1>2, <1>3, <1>4 DEF RunRows, RowsOK
<1>6. CASE ~AttemptTaken(k, i) /\ Go(c) /\ attempts' = [attempts EXCEPT ![k] = @ \cup {<<i, AttemptStatus[step]>>}]
  <2>1. PICK n \in RunRecord : call' = [call EXCEPT ![c] = n] /\ After(n, call[c], step, 0)
    BY <1>2, <1>6, GoesTo DEF Go
  <2>2. /\ attempts'[k] = attempts[k] \cup {<<i, AttemptStatus[step]>>}
        /\ \A l \in Key \ {k} : attempts'[l] = attempts[l]
    BY <1>4, <1>6 DEF RunRows
  <2>3. \E a \in attempts'[k] : a[1] = i
    <3>1. <<i, AttemptStatus[step]>>[1] = i
      OBVIOUS
    <3> QED BY <2>2, <3>1
  <2>4. Effects(c, step, 0, n)
    BY <1>1, <1>2, <1>3, <1>6, <2>1, <2>2, <2>3 DEF Effects
  <2> QED BY <1>5, <2>4 DEF StepDone
<1>7. CASE Quit(c) /\ UNCHANGED attempts
  <2>1. Effects(c, step, 0, Idle)
    BY <1>1, <1>2, <1>3, <1>7, Quits DEF Effects
  <2> QED BY <1>5, <1>7, <2>1, Quits DEF StepDone
<1> QED BY <1>2, <1>6, <1>7

LEMMA RecordsDone ==
  ASSUME RunRows, NEW c \in Call,
         Snapshot(c) \/ ConnectorRefuses(c) \/ RecoveryPoint(c) \/ WriteDraft(c) \/ Consume(c) \/ InsertReceipt(c)
  PROVE  StepDone(c) /\ RowsOK' /\ attempts' \in [Key -> SUBSET AttemptRow]
<1> PICK k : k = call[c].key
  OBVIOUS
<1>1. PICK step \in {"snapshot", "write", "recoverLatest", "recoverUnknown", "consume", "receiptDryRun", "receiptReal"} :
        /\ At(c, step)
        /\ drafts' = drafts \/ (step = "write" /\ drafts' = [drafts EXCEPT ![k] = IF @ < DraftBound THEN @ + 1 ELSE @])
        /\ token' = token \/ token' = [token EXCEPT ![k] = "consumed"]
        /\ \/ receipt' = receipt
           \/ receipt[k] = "none" /\ receipt' \in {[receipt EXCEPT ![k] = "succeeded"], [receipt EXCEPT ![k] = "dry_run"]}
        /\ \/ Quit(c)
           \/ Go(c) /\ (step \in {"receiptDryRun", "receiptReal"} => receipt' # receipt)
  <2>1. CASE Snapshot(c) \/ ConnectorRefuses(c) \/ RecoveryPoint(c) \/ WriteDraft(c) \/ Consume(c)
    BY <2>1 DEF Snapshot, ConnectorRefuses, RecoveryPoint, WriteDraft, Consume, records, grant
  <2>2. CASE InsertReceipt(c)
    <3>1. PICK step \in {"receiptDryRun", "receiptReal"} : At(c, step)
      BY <2>2 DEF InsertReceipt
    <3>2. k \in Key
      BY <3>1, InHand
    <3>3. UNCHANGED <<drafts, token>>
      BY <2>2 DEF InsertReceipt, grant
    <3>4. CASE Quit(c) /\ UNCHANGED receipt
      BY <3>1, <3>3, <3>4
    <3>5. ASSUME NEW r \in {"succeeded", "dry_run"}, receipt[k] = "none", Go(c), receipt' = [receipt EXCEPT ![k] = r]
          PROVE  receipt' # receipt
      <4>1. receipt'[k] = r
        BY <3>2, <3>5 DEF RunRows, RowsOK
      <4> QED BY <3>5, <4>1
    <3>6. CASE receipt[k] = "none" /\ Go(c) /\ receipt' \in {[receipt EXCEPT ![k] = "succeeded"], [receipt EXCEPT ![k] = "dry_run"]}
      BY <3>1, <3>3, <3>5, <3>6
    <3> QED BY <2>2, <3>4, <3>6 DEF InsertReceipt
  <2> QED BY <2>1, <2>2
<1>2. k \in Key
  BY <1>1, InHand
<1>3. UNCHANGED <<status, leaseOwner, attemptCount, attempts>>
  BY DEF Snapshot, ConnectorRefuses, RecoveryPoint, WriteDraft, Consume, InsertReceipt, records, grant
<1>4. RowsOK' /\ attempts' \in [Key -> SUBSET AttemptRow]
  <2>1. drafts' \in [Key -> Nat]
    BY <1>1, <1>2 DEF RunRows, RowsOK
  <2>2. token' \in [Key -> {"absent", "draft", "active", "consumed"}] /\ receipt' \in [Key -> {"none", "dry_run", "succeeded"}]
    BY <1>1, <1>2 DEF RunRows, RowsOK
  <2> QED BY <1>3, <2>1, <2>2 DEF RunRows, RowsOK
<1>5. /\ \A l \in Key \ {k} : UNCHANGED <<token[l], receipt[l], drafts[l]>>
      /\ drafts'[k] = drafts[k] \/ (step = "write" /\ drafts'[k] \in {drafts[k], drafts[k] + 1})
      /\ receipt[k] # "none" => receipt'[k] = receipt[k]
      /\ receipt' # receipt => receipt'[k] # "none"
  BY <1>1, <1>2 DEF RunRows, RowsOK
<1>6. CASE Go(c) /\ (step \in {"receiptDryRun", "receiptReal"} => receipt' # receipt)
  <2>1. PICK n \in RunRecord : call' = [call EXCEPT ![c] = n] /\ After(n, call[c], step, 0)
    BY <1>1, <1>6, GoesTo DEF Go
  <2>2. Effects(c, step, 0, n)
    BY <1>1, <1>3, <1>5, <1>6, <2>1 DEF Effects
  <2> QED BY <1>4, <2>2 DEF StepDone
<1>7. CASE Quit(c)
  <2>1. Effects(c, step, 0, Idle)
    BY <1>1, <1>3, <1>5, <1>7, Quits DEF Effects
  <2> QED BY <1>4, <1>7, <2>1, Quits DEF StepDone
<1> QED BY <1>1, <1>6, <1>7

LEMMA StepEffects ==
  ASSUME RunRows, NEW c \in Call, Step(c)
  PROVE  StepDone(c) /\ RunRows'
<1>1. StepDone(c) /\ RowsOK' /\ attempts' \in [Key -> SUBSET AttemptRow]
  BY ReadingDone, IssuingDone, HoldingDone, AttemptDone, RecordsDone DEF Step
<1>2. PICK step, m, n : n \in RunRecord /\ Effects(c, step, m, n)
  BY <1>1 DEF StepDone
<1>3. call' = [call EXCEPT ![c] = n] /\ (n = Idle \/ InProgress(n))
  BY <1>2 DEF Effects, After
<1>4. call' \in [Call -> RunRecord] /\ \A d \in Call : call'[d] = Idle \/ InProgress(call'[d])
  BY <1>2, <1>3 DEF RunRows
<1>5. \A d \in Call : (call[d] = Idle)' \/ InProgress(call[d])'
  BY <1>4 DEF InProgress
<1> QED BY <1>1, <1>4, <1>5 DEF RunRows

-----------------------------------------------------------------------------
(* What an invocation stands for *)

\* The daemon waits for the function and its queue job is not decided.
Active(f) == f.awaited /\ f.event # "BLOCK"

FnOK(e) ==
  LET f == fn[e] IN
  /\ f.pc = "idle" => f = IdleFn
  /\ f.pc # "idle" => f.key \in Key /\ f.worker \in Worker
  /\ f.pc = "run" => call[e] # Idle /\ call[e].key = f.key
  /\ f.pc # "run" => call[e] = Idle
  /\ f.pc \in {"idle", "list", "run"} => f.event = "NONE"
  /\ f.event = "BLOCK" => f.pc # "done" /\ queue[f.key] = "blocked"
  /\ f.pc \in {"read", "write", "done"} /\ f.event # "BLOCK" => receipt[f.key] # "none"
  /\ Active(f) => queue[f.key] = "running"

\* What lies before a recovery point is a receipt.
Told(d) == Head(d.todo) \in {"recoverLatest", "recoverUnknown"} => receipt[d.key] # "none"

\* No call in flight is past a receipt that is not there.
AllTold == \A c \in Call : call[c] = Idle \/ Told(call[c])

\* The invariant: at most one invocation is active on a queue row, a running row has
\* one or is lost, and whoever has left its call without a block has left a receipt.
ClosureInv ==
  /\ RunRows
  /\ queue \in [Key -> {"absent", "pending", "running"} \cup QueueSettled]
  /\ task \in [Key -> TaskStatus]
  /\ fn \in [Exec -> [pc : {"idle", "list", "run", "read", "write", "done"}, key : Key \cup {None},
                      worker : Worker \cup {None}, awaited : BOOLEAN, event : {"NONE", "MARK_COMPLETED", "BLOCK"}, saw : TaskStatus \cup {"none"}]]
  /\ AllTold
  /\ \A e \in Exec : FnOK(e)
  /\ \A e, g \in Exec : Active(fn[e]) /\ Active(fn[g]) /\ fn[e].key = fn[g].key => e = g
  /\ CompletedJobHasReceipt
  /\ BlockedTaskIsExplained
  /\ RunningIsExecuted

\* A call begins, as the operators or a daemon let it.
Starts(n) ==
  \E op \in Op \cup (Mode \ {"unarmed"}), k \in Key, w \in Worker :
    n = [op |-> op, key |-> k, worker |-> w, count |-> 0, todo |-> Program[op]]

LEMMA Started ==
  ASSUME NEW n, Starts(n)
  PROVE  n \in RunRecord /\ InProgress(n) /\ Head(n.todo) \in Firsts /\ n # Idle /\ n.count = 0 /\ n.todo = Program[n.op]
         /\ n.op \in Op \cup (Mode \ {"unarmed"})
<1>1. PICK op \in Op \cup (Mode \ {"unarmed"}), k \in Key, w \in Worker :
        n = [op |-> op, key |-> k, worker |-> w, count |-> 0, todo |-> Program[op]]
  BY DEF Starts
<1>2. op \in DOMAIN Program
  BY OpAssumption, ModeAssumption DEF Program
<1>3. Program[op] \in Seq(Await) /\ Program[op] # <<>> /\ Chained(Program[op]) /\ Head(Program[op]) \in Firsts
  BY <1>2, OperationsChained
<1>4. n.op = op /\ n.key = k /\ n.worker = w /\ n.count = 0 /\ n.todo = Program[op]
  BY <1>1
<1>5. n \in RunRecord
  BY <1>1, <1>2, <1>3 DEF RunRecord
<1> QED BY <1>3, <1>4, <1>5, IdleIsNobody DEF InProgress

\* Calls begin or end while the rows stay as they are.
Turns(c, n) ==
  /\ UNCHANGED <<token, status, leaseOwner, attemptCount, attempts, receipt, drafts>>
  /\ call' = [call EXCEPT ![c] = n] /\ (n = Idle \/ Starts(n))

LEMMA TurnsKeepRows ==
  ASSUME RunRows, NEW c \in Call, NEW n, Turns(c, n)
  PROVE  RunRows'
<1>1. n \in RunRecord /\ (n = Idle \/ InProgress(n))
  BY Started, IdleIsNobody DEF Turns
<1>2. call' \in [Call -> RunRecord] /\ \A d \in Call : call'[d] = Idle \/ InProgress(call'[d])
  BY <1>1 DEF RunRows, Turns
<1>3. RowsOK' /\ attempts' \in [Key -> SUBSET AttemptRow]
  BY DEF RunRows, RowsOK, Turns
<1>4. \A d \in Call : (call[d] = Idle)' \/ InProgress(call[d])'
  BY <1>2 DEF InProgress
<1> QED BY <1>2, <1>3, <1>4 DEF RunRows

KeepsReceipts == \A l \in Key : receipt[l] # "none" => receipt'[l] # "none"

LEMMA TurnsKeepTold ==
  ASSUME RunRows, AllTold, NEW c \in Call, NEW n, Turns(c, n)
  PROVE  AllTold' /\ KeepsReceipts
<1>1. call'[c] = n /\ \A d \in Call \ {c} : call'[d] = call[d]
  BY DEF Turns, RunRows
<1>2. n = Idle \/ Head(n.todo) \in Firsts
  BY Started DEF Turns
<1>3. n = Idle \/ Told(n)'
  BY <1>2 DEF Told, Firsts
<1>4. ASSUME NEW d \in Call, call'[d] # Idle PROVE Told(call[d])'
  <2>1. CASE d = c
    BY <1>1, <1>3, <1>4, <2>1
  <2>2. CASE d # c
    BY <1>1, <1>4, <2>2 DEF AllTold, Told, Turns
  <2> QED BY <2>1, <2>2
<1> QED BY <1>4 DEF AllTold, KeepsReceipts, Turns

LEMMA StepKeepsTold ==
  ASSUME RunRows, AllTold, NEW c \in Call, Step(c)
  PROVE  AllTold' /\ KeepsReceipts
<1>1. PICK step, m, n : n \in RunRecord /\ Effects(c, step, m, n)
  BY StepEffects DEF StepDone
<1> PICK k : k = call[c].key
  OBVIOUS
<1>2. KeepsReceipts
  BY <1>1 DEF Effects, KeepsReceipts
<1>3. call'[c] = n /\ \A d \in Call \ {c} : call'[d] = call[d]
  BY <1>1 DEF Effects, RunRows
<1>4. ASSUME n # Idle PROVE Told(n)'
  <2> SUFFICES ASSUME Head(n.todo) \in {"recoverLatest", "recoverUnknown"} PROVE receipt'[n.key] # "none"
    BY DEF Told
  <2>1. <<step, Head(n.todo)>> \in Follows /\ n.key = k
    BY <1>1, <1>4 DEF Effects, After
  <2>2. \A a : <<a, "recoverLatest">> \in Follows \/ <<a, "recoverUnknown">> \in Follows => a \in {"receiptDryRun", "receiptReal"}
    BY DEF Follows
  <2>3. step \in {"receiptDryRun", "receiptReal"}
    BY <2>1, <2>2
  <2> QED BY <1>1, <1>4, <2>1, <2>3 DEF Effects
<1>5. ASSUME NEW d \in Call, call'[d] # Idle PROVE Told(call[d])'
  <2>1. CASE d = c
    BY <1>3, <1>4, <1>5, <2>1
  <2>2. CASE d # c
    <3>1. call'[d] = call[d] /\ Told(call[d]) /\ call[d].key \in Key
      BY <1>3, <1>5, <2>2 DEF AllTold, RunRows, InProgress
    <3> QED BY <1>2, <3>1 DEF Told, KeepsReceipts
  <2> QED BY <2>1, <2>2
<1> QED BY <1>2, <1>5 DEF AllTold

FnType == [Exec -> [pc : {"idle", "list", "run", "read", "write", "done"}, key : Key \cup {None}, worker : Worker \cup {None}, awaited : BOOLEAN,
                    event : {"NONE", "MARK_COMPLETED", "BLOCK"}, saw : TaskStatus \cup {"none"}]]
QueueType == [Key -> {"absent", "pending", "running"} \cup QueueSettled]

\* Queue rows change that no invocation outside S is busy with and that are not blocked.
QueueMoves(S) ==
  /\ queue' \in QueueType
  /\ \A l \in Key : \/ queue'[l] = queue[l]
                     \/ /\ queue[l] # "blocked" /\ \A f \in Exec \ S : Active(fn[f]) => fn[f].key # l
                        /\ queue'[l] = "completed" => receipt'[l] # "none"
                        /\ queue'[l] = "running" => l \in lost' \/ \E e \in Exec : Active(fn'[e]) /\ fn'[e].key = l

\* An active invocation of S stays active on its row, or settles or loses it.
Accounts(S) ==
  /\ lost \subseteq lost'
  /\ \A e \in Exec \cap S : Active(fn[e]) =>
        \/ queue'[fn[e].key] # "running"
        \/ fn[e].key \in lost'
        \/ Active(fn'[e]) /\ fn'[e].key = fn[e].key

\* The invocations of S move, of which at most one is active then.
LEMMA FnMoves ==
  ASSUME ClosureInv, RunRows', AllTold', KeepsReceipts, NEW S, Accounts(S),
         \A e, g \in Exec \cap S : Active(fn'[e]) /\ Active(fn'[g]) => e = g,
         fn' \in FnType, task' \in [Key -> TaskStatus], QueueMoves(S),
         \A f \in Exec \ S : fn'[f] = fn[f] /\ call'[f] = call[f],
         \A e \in Exec \cap S : /\ FnOK(e)'
                                /\ Active(fn'[e]) => \A f \in Exec \ S : Active(fn[f]) => fn[f].key # fn'[e].key,
         \A l \in Key : task'[l] = "blocked" => task[l] = "blocked" \/ queue[l] = "blocked"
  PROVE  ClosureInv'
<1>1. ASSUME NEW f \in Exec PROVE FnOK(f)'
  <2>1. CASE f \in S
    BY <2>1
  <2>2. CASE f \notin S
    <3>1. fn'[f] = fn[f] /\ call'[f] = call[f] /\ FnOK(f)
      BY <2>2 DEF ClosureInv
    <3>2. ASSUME fn[f].pc # "idle" PROVE fn[f].key \in Key /\ fn[f].worker \in Worker
      BY <3>1, <3>2 DEF FnOK
    <3>3. Active(fn[f]) => queue'[fn[f].key] = "running"
      <4>1. Active(fn[f]) => fn[f].pc # "idle"
        BY <3>1 DEF FnOK, Active, IdleFn
      <4> QED BY <2>2, <3>1, <3>2, <4>1 DEF FnOK, QueueMoves
    <3>4. fn[f].event = "BLOCK" => queue'[fn[f].key] = "blocked"
      <4>1. fn[f].event = "BLOCK" => fn[f].pc # "idle"
        BY <3>1 DEF FnOK
      <4> QED BY <3>1, <3>2, <4>1 DEF FnOK, QueueMoves
    <3>5. fn[f].pc \in {"read", "write", "done"} /\ fn[f].event # "BLOCK" => receipt'[fn[f].key] # "none"
      BY <3>1, <3>2 DEF FnOK, KeepsReceipts
    <3> QED BY <3>1, <3>3, <3>4, <3>5 DEF FnOK, Active
  <2> QED BY <2>1, <2>2
<1>2. ASSUME NEW e \in Exec, NEW g \in Exec, Active(fn'[e]), Active(fn'[g]), fn'[e].key = fn'[g].key PROVE e = g
  <2>1. CASE e \notin S /\ g \notin S
    BY <1>2, <2>1 DEF ClosureInv
  <2>2. CASE e \in S /\ g \in S
    BY <1>2, <2>2
  <2>3. CASE e \in S /\ g \notin S
    BY <1>2, <2>3
  <2>4. CASE e \notin S /\ g \in S
    BY <1>2, <2>4
  <2> QED BY <2>1, <2>2, <2>3, <2>4
<1>3. CompletedJobHasReceipt'
  BY DEF ClosureInv, CompletedJobHasReceipt, QueueMoves, KeepsReceipts
<1>4. BlockedTaskIsExplained'
  BY DEF ClosureInv, BlockedTaskIsExplained, QueueMoves
<1>5. \A e, g \in Exec : Active(fn[e])' /\ Active(fn[g])' /\ (fn[e].key = fn[g].key)' => e = g
  BY <1>2 DEF Active
<1>6. ASSUME NEW l \in Key, queue'[l] = "running" PROVE l \in lost' \/ \E e \in Exec : Active(fn'[e]) /\ fn'[e].key = l
  <2>1. CASE queue'[l] # queue[l]
    BY <1>6, <2>1 DEF QueueMoves
  <2>2. CASE queue'[l] = queue[l] /\ l \in lost
    BY <2>2 DEF Accounts
  <2>3. ASSUME NEW e \in Exec, Active(fn[e]), fn[e].key = l
        PROVE  l \in lost' \/ \E g \in Exec : Active(fn'[g]) /\ fn'[g].key = l
    BY <1>6, <2>3 DEF Accounts
  <2> QED BY <1>6, <2>1, <2>2, <2>3 DEF ClosureInv, RunningIsExecuted, Executes, Active
<1>7. RunningIsExecuted'
  BY <1>6 DEF RunningIsExecuted, Executes, Active
<1> QED BY <1>1, <1>3, <1>4, <1>5, <1>7 DEF ClosureInv, FnType, QueueType, QueueMoves

LEMMA FnFacts ==
  ASSUME ClosureInv, NEW e \in Exec
  PROVE  /\ fn[e] \in [pc : {"idle", "list", "run", "read", "write", "done"}, key : Key \cup {None}, worker : Worker \cup {None}, awaited : BOOLEAN,
                       event : {"NONE", "MARK_COMPLETED", "BLOCK"}, saw : TaskStatus \cup {"none"}]
         /\ FnOK(e) /\ e \in Call
         /\ fn[e].pc # "idle" => fn[e].key \in Key /\ fn[e].worker \in Worker
         /\ Active(fn[e]) => /\ fn[e].key \in Key /\ queue[fn[e].key] = "running"
                             /\ \A f \in Exec \ {e} : Active(fn[f]) => fn[f].key # fn[e].key
<1>1. Active(fn[e]) => fn[e].pc # "idle"
  BY DEF ClosureInv, FnOK, Active, IdleFn
<1> QED BY <1>1, ExecAssumption DEF ClosureInv, FnOK

LEMMA IdleFnOK ==
  ASSUME NEW e \in Exec, fn'[e] = IdleFn, call'[e] = Idle
  PROVE  FnOK(e)' /\ ~Active(fn'[e])
BY DEF FnOK, Active, IdleFn

LEMMA QueueStays == ASSUME ClosureInv, UNCHANGED queue, NEW S PROVE QueueMoves(S)
BY DEF QueueMoves, ClosureInv, QueueType

LEMMA OwnQueueMoves ==
  ASSUME ClosureInv, NEW e \in Exec, Active(fn[e]),
         NEW v \in {"pending", "dead_letter", "blocked", "completed"}, queue' = [queue EXCEPT ![fn[e].key] = v],
         v = "completed" => receipt'[fn[e].key] # "none"
  PROVE  QueueMoves({e}) /\ queue'[fn[e].key] = v
<1>1. queue' \in QueueType
  BY FnFacts DEF ClosureInv, QueueType, QueueSettled
<1>2. queue'[fn[e].key] = v /\ \A l \in Key : l # fn[e].key => queue'[l] = queue[l]
  BY FnFacts DEF ClosureInv
<1> QED BY <1>1, <1>2, FnFacts DEF QueueMoves

LEMMA RetryMoves ==
  ASSUME ClosureInv, NEW e \in Exec, Active(fn[e]), RetryOrDie(e)
  PROVE  QueueMoves({e}) /\ Accounts({e})
<1>1. CASE UNCHANGED lost /\ \E v \in {"pending", "dead_letter"} : queue' = [queue EXCEPT ![fn[e].key] = v]
  BY <1>1, OwnQueueMoves DEF Accounts
<1>2. CASE CatchFails(e)
  BY <1>2, QueueStays DEF CatchFails, Accounts
<1> QED BY <1>1, <1>2 DEF RetryOrDie, Requeue, DeadLetter, process

\* An invocation that is not active has no row to account for.
LEMMA NoAccount ==
  ASSUME NEW S, UNCHANGED lost,
         \A e \in Exec \cap S : Active(fn[e]) => Active(fn'[e]) /\ fn'[e].key = fn[e].key
  PROVE  Accounts(S)
BY DEF Accounts

\* The function ends without touching a task.
LEMMA ErroredKeeps ==
  ASSUME ClosureInv, RunRows', AllTold', KeepsReceipts, NEW e \in Exec, call'[e] = Idle,
         \A f \in Exec \ {e} : call'[f] = call[f], UNCHANGED task, fn[e].event # "BLOCK", Errored(e)
  PROVE  ClosureInv'
<1>1. fn' = [fn EXCEPT ![e] = IdleFn]
  BY DEF Errored, Ends
<1>2. QueueMoves({e}) /\ Accounts({e})
  <2>1. CASE Active(fn[e]) /\ RetryOrDie(e)
    BY <2>1, RetryMoves
  <2>2. CASE Unheard(e)
    BY <2>2, QueueStays, NoAccount DEF Unheard, process, Active
  <2> QED BY <2>1, <2>2 DEF Errored, Active
<1>3. fn' \in FnType /\ fn'[e] = IdleFn /\ \A f \in Exec \ {e} : fn'[f] = fn[f]
  BY <1>1 DEF ClosureInv, FnType, IdleFn
<1>4. FnOK(e)' /\ ~Active(fn'[e])
  BY <1>3, IdleFnOK
<1> QED BY <1>2, <1>3, <1>4, FnMoves DEF ClosureInv

LEMMA NotifyChanges ==
  ASSUME ClosureInv, NEW e \in Exec, NEW ev \in {"NONE", "MARK_COMPLETED", "BLOCK"},
         fn' = [fn EXCEPT ![e].pc = "read", ![e].event = ev]
  PROVE  /\ fn' \in FnType /\ \A f \in Exec \ {e} : fn'[f] = fn[f]
         /\ fn'[e].pc = "read" /\ fn'[e].event = ev /\ fn'[e].key = fn[e].key /\ fn'[e].awaited = fn[e].awaited
         /\ fn'[e].worker = fn[e].worker
<1>1. fn \in FnType
  BY DEF ClosureInv, FnType
<1>2. PICK r : r = [fn[e] EXCEPT !.pc = "read", !.event = ev]
  OBVIOUS
<1>3. /\ r \in [pc : {"idle", "list", "run", "read", "write", "done"}, key : Key \cup {None}, worker : Worker \cup {None}, awaited : BOOLEAN,
                event : {"NONE", "MARK_COMPLETED", "BLOCK"}, saw : TaskStatus \cup {"none"}]
      /\ r.pc = "read" /\ r.event = ev /\ r.key = fn[e].key /\ r.awaited = fn[e].awaited /\ r.worker = fn[e].worker
  BY <1>1, <1>2 DEF FnType
<1>4. fn' = [fn EXCEPT ![e] = r]
  BY <1>1, <1>2 DEF FnType
<1>5. fn'[e] = r /\ (\A f \in Exec \ {e} : fn'[f] = fn[f]) /\ DOMAIN fn' = Exec
  BY <1>1, <1>4 DEF FnType
<1>6. fn' \in FnType
  BY <1>1, <1>3, <1>4 DEF FnType
<1> QED BY <1>3, <1>5, <1>6

LEMMA BlockedKeeps ==
  ASSUME ClosureInv, RunRows', AllTold', KeepsReceipts, NEW e \in Exec, call'[e] = Idle,
         \A f \in Exec \ {e} : call'[f] = call[f], UNCHANGED task, fn[e].pc \in {"list", "run"}, Blocked(e)
  PROVE  ClosureInv'
<1>1. fn[e].event = "NONE" /\ fn[e].key \in Key /\ fn[e].worker \in Worker
  BY FnFacts DEF FnOK
<1>2. CASE /\ fn[e].awaited /\ Notify(e, "BLOCK")
           /\ queue' = [queue EXCEPT ![fn[e].key] = "blocked"] /\ UNCHANGED <<retry, process>>
  <2>1. queue' = [queue EXCEPT ![fn[e].key] = "blocked"] /\ fn' = [fn EXCEPT ![e].pc = "read", ![e].event = "BLOCK"]
    BY <1>2 DEF Notify
  <2>2. QueueMoves({e}) /\ queue'[fn[e].key] = "blocked"
    BY <1>1, <1>2, <2>1, OwnQueueMoves DEF Active
  <2>3. /\ fn' \in FnType /\ \A f \in Exec \ {e} : fn'[f] = fn[f]
        /\ fn'[e].pc = "read" /\ fn'[e].event = "BLOCK" /\ fn'[e].key = fn[e].key /\ fn'[e].worker = fn[e].worker
    BY <2>1, NotifyChanges
  <2>4. FnOK(e)' /\ ~Active(fn'[e])
    BY <1>1, <2>2, <2>3 DEF FnOK, Active
  <2>5. Accounts({e})
    BY <1>2, <2>2 DEF Accounts, process
  <2> QED BY <2>2, <2>3, <2>4, <2>5, FnMoves DEF ClosureInv
<1>3. CASE Ends(e) /\ ((fn[e].awaited /\ CatchFails(e)) \/ Unheard(e))
  <2>1. Errored(e)
    BY <1>3 DEF Errored, RetryOrDie
  <2> QED BY <1>1, <2>1, ErroredKeeps
<1> QED BY <1>2, <1>3 DEF Blocked

LEMMA SameRuntime ==
  ASSUME RunRows, AllTold, UNCHANGED <<token, status, leaseOwner, attemptCount, attempts, receipt, drafts, call>>
  PROVE  RunRows' /\ AllTold' /\ KeepsReceipts
<1>1. RunRows'
  BY DEF RunRows, RowsOK, InProgress
<1>2. ASSUME NEW c \in Call, call'[c] # Idle PROVE Told(call[c])'
  BY <1>2 DEF AllTold, Told
<1> QED BY <1>1, <1>2 DEF AllTold, KeepsReceipts

\* Users, operators, clocks and a daemon that starts: no invocation moves.
LEMMA OthersKeep ==
  ASSUME ClosureInv,
         \/ \E w \in Worker : StartDaemon(w)
         \/ \E k \in Key : Enqueue(k)
         \/ \E k \in Key, ev \in Others : Intends(k, ev) \/ Carries(k, ev)
         \/ (\E k \in Key : TokenExpires(k)) /\ UNCHANGED cvars
         \/ UNCHANGED ClosureVars
         \/ OtherCall
  PROVE  ClosureInv'
<1>1. RunRows' /\ AllTold' /\ KeepsReceipts
  <2>1. CASE UNCHANGED <<token, status, leaseOwner, attemptCount, attempts, receipt, drafts, call>>
    BY <2>1, SameRuntime DEF ClosureInv
  <2>2. CASE OtherCall
    <3>1. PICK c \in Call \ Exec : Begin(c) \/ Step(c) \/ Abort(c)
      BY <2>2 DEF OtherCall
    <3>2. CASE Begin(c)
      <4>1. \E n : Starts(n) /\ call' = [call EXCEPT ![c] = n]
        BY <3>2 DEF Begin, Starts
      <4>2. \E n : Turns(c, n)
        BY <3>2, <4>1 DEF Begin, Turns, grant, records
      <4> QED BY <4>2, TurnsKeepRows, TurnsKeepTold DEF ClosureInv
    <3>3. CASE Step(c)
      BY <3>3, StepEffects, StepKeepsTold DEF ClosureInv
    <3>4. CASE Abort(c)
      <4>1. Turns(c, Idle)
        BY <3>4 DEF Abort, Quit, Turns, grant, records
      <4> QED BY <4>1, TurnsKeepRows, TurnsKeepTold DEF ClosureInv
    <3> QED BY <3>1, <3>2, <3>3, <3>4
  <2> QED BY <2>1, <2>2 DEF StartDaemon, Enqueue, Intends, Carries, TokenExpires, ClosureVars, runtime, vars, records
<1>2. fn' = fn /\ \A f \in Exec : call'[f] = call[f]
  <2>1. CASE OtherCall
    <3>1. PICK c \in Call \ Exec : Begin(c) \/ Step(c) \/ Abort(c)
      BY <2>1 DEF OtherCall
    <3>2. \E n : call' = [call EXCEPT ![c] = n]
      <4>1. CASE Step(c)
        <5>1. \E step, m, n : Effects(c, step, m, n)
          BY <4>1, StepEffects DEF ClosureInv, StepDone
        <5> QED BY <5>1 DEF Effects
      <4> QED BY <3>1, <4>1 DEF Begin, Abort, Quit
    <3> QED BY <2>1, <3>2, ExecAssumption DEF OtherCall, cvars, ClosureInv, RunRows
  <2> QED BY <2>1 DEF StartDaemon, Enqueue, Intends, Carries, TokenExpires, ClosureVars, runtime, vars, cvars
<1>3. QueueMoves({})
  <2>1. CASE UNCHANGED queue
    BY <2>1, QueueStays
  <2>2. ASSUME NEW k \in Key, Enqueue(k) PROVE QueueMoves({})
    <3>1. queue' = [queue EXCEPT ![k] = "pending"] /\ queue[k] = "absent"
      BY <2>2 DEF Enqueue
    <3>2. queue' \in QueueType /\ \A l \in Key \ {k} : queue'[l] = queue[l]
      BY <3>1 DEF ClosureInv, QueueType
    <3>3. queue'[k] = "pending" /\ \A f \in Exec : Active(fn[f]) => fn[f].key # k
      BY <3>1, FnFacts DEF ClosureInv
    <3> QED BY <3>1, <3>2, <3>3 DEF QueueMoves
  <2> QED BY <2>1, <2>2 DEF StartDaemon, Intends, Carries, TokenExpires, ClosureVars, cvars, OtherCall
<1>4. task' \in [Key -> TaskStatus] /\ \A l \in Key : task'[l] = "blocked" => task[l] = "blocked"
  <2>1. CASE UNCHANGED task
    BY <2>1 DEF ClosureInv
  <2>2. ASSUME NEW k \in Key, NEW ev \in Others, Carries(k, ev)
        PROVE  task' \in [Key -> TaskStatus] /\ \A l \in Key : task'[l] = "blocked" => task[l] = "blocked"
    <3>1. transitions[ev].to \in {"cancelled", "assigned"}
      BY DEF transitions, Others
    <3> QED BY <2>2, <3>1 DEF Carries, ClosureInv, TaskStatus
  <2> QED BY <2>1, <2>2 DEF StartDaemon, Enqueue, Intends, TokenExpires, ClosureVars, cvars, tasks, OtherCall
<1>5. fn' \in FnType
  BY <1>2 DEF ClosureInv, FnType
<1>6. Accounts({})
  <2>1. UNCHANGED lost
    BY DEF StartDaemon, Enqueue, Intends, Carries, TokenExpires, ClosureVars, cvars, process, OtherCall
  <2> QED BY <2>1, NoAccount
<1> HIDE DEF ClosureInv
<1> QED BY <1>1, <1>2, <1>3, <1>4, <1>5, <1>6, FnMoves

\* The invocations of a process end with it.
Falls ==
  /\ UNCHANGED <<token, status, leaseOwner, attemptCount, attempts, receipt, drafts>>
  /\ \E S : call' = [c \in Call |-> IF c \in S THEN Idle ELSE call[c]]

LEMMA FallsKeep ==
  ASSUME RunRows, AllTold, Falls
  PROVE  RunRows' /\ AllTold' /\ KeepsReceipts
<1>1. PICK S : call' = [c \in Call |-> IF c \in S THEN Idle ELSE call[c]]
  BY DEF Falls
<1>2. RowsOK' /\ attempts' \in [Key -> SUBSET AttemptRow] /\ KeepsReceipts
  BY DEF RunRows, RowsOK, Falls, KeepsReceipts
<1>3. call' \in [Call -> RunRecord] /\ \A c \in Call : call'[c] = Idle \/ call'[c] = call[c]
  BY <1>1, IdleIsNobody DEF RunRows
<1>4. ASSUME NEW c \in Call, call'[c] # Idle PROVE InProgress(call[c])' /\ Told(call[c])'
  BY <1>3, <1>4 DEF RunRows, AllTold, InProgress, Told, Falls
<1> QED BY <1>2, <1>3, <1>4 DEF RunRows, AllTold

LEMMA ExitsKeep ==
  ASSUME ClosureInv, NEW w \in Worker, ExitDaemon(w)
  PROVE  ClosureInv'
<1> PICK S : S = {e \in Exec : fn[e].worker = w}
  OBVIOUS
<1>1. /\ fn' = [e \in Exec |-> IF e \in S THEN IdleFn ELSE fn[e]]
      /\ call' = [c \in Call |-> IF c \in S THEN Idle ELSE call[c]]
      /\ lost' = lost \cup {fn[e].key : e \in {g \in S : Executes(g)}}
      /\ UNCHANGED <<token, status, leaseOwner, attemptCount, attempts, receipt, drafts, queue, task>>
  BY DEF ExitDaemon, grant, records, tasks
<1>2. Falls
  BY <1>1 DEF Falls
<1>3. RunRows' /\ AllTold' /\ KeepsReceipts
  BY <1>2, FallsKeep DEF ClosureInv
<1>4. /\ \A f \in Exec \ S : fn'[f] = fn[f] /\ call'[f] = call[f]
      /\ \A e \in Exec \cap S : fn'[e] = IdleFn /\ call'[e] = Idle
  BY <1>1, ExecAssumption
<1>5. \A e \in Exec \cap S : FnOK(e)' /\ ~Active(fn'[e])
  BY <1>4, IdleFnOK
<1>6. fn' \in FnType
  BY <1>1 DEF ClosureInv, FnType, IdleFn
<1>7. Accounts(S)
  BY <1>1 DEF Accounts, Executes, Active
<1>8. QueueMoves(S) /\ task' \in [Key -> TaskStatus] /\ \A l \in Key : task'[l] = "blocked" => task[l] = "blocked"
  BY <1>1, QueueStays DEF ClosureInv
<1> HIDE DEF ClosureInv
<1> QED BY <1>3, <1>4, <1>5, <1>6, <1>7, <1>8, FnMoves

LEMMA ClaimsKeep ==
  ASSUME ClosureInv, NEW w \in Worker, NEW k \in Key, ClaimJob(w, k)
  PROVE  ClosureInv'
<1>1. /\ queue[k] = "pending" /\ queue' = [queue EXCEPT ![k] = "running"] /\ UNCHANGED task
      /\ UNCHANGED <<token, status, leaseOwner, attemptCount, attempts, receipt, drafts, call>>
  BY DEF ClaimJob, Claimable, runtime, vars, tasks, records
<1>2. RunRows' /\ AllTold' /\ KeepsReceipts /\ task' \in [Key -> TaskStatus]
  BY <1>1, SameRuntime DEF ClosureInv
<1>3. \A f \in Exec : Active(fn[f]) => fn[f].key # k
  BY <1>1, FnFacts
<1>4. queue' \in QueueType /\ queue'[k] = "running" /\ \A l \in Key \ {k} : queue'[l] = queue[l]
  BY <1>1 DEF ClosureInv, QueueType
<1>5. CASE lost' = lost \cup {k} /\ UNCHANGED fn
  <2>1. QueueMoves({}) /\ Accounts({})
    BY <1>1, <1>3, <1>4, <1>5 DEF QueueMoves, Accounts
  <2>2. fn' \in FnType /\ \A f \in Exec : fn'[f] = fn[f] /\ call'[f] = call[f]
    BY <1>1, <1>5 DEF ClosureInv, FnType
  <2> QED BY <1>1, <1>2, <2>1, <2>2, FnMoves
<1>6. ASSUME NEW e \in Exec, fn[e] = IdleFn, UNCHANGED lost,
             fn' = [fn EXCEPT ![e] = [IdleFn EXCEPT !.pc = "list", !.key = k, !.worker = w, !.awaited = TRUE]]
      PROVE  ClosureInv'
  <2>1. /\ fn' \in FnType /\ \A f \in Exec \ {e} : fn'[f] = fn[f]
        /\ fn'[e].pc = "list" /\ fn'[e].key = k /\ fn'[e].worker = w /\ fn'[e].event = "NONE" /\ fn'[e].awaited
    BY <1>6 DEF ClosureInv, FnType, IdleFn
  <2>2. Active(fn'[e]) /\ ~Active(fn[e])
    BY <1>6, <2>1 DEF Active, IdleFn
  <2>3. QueueMoves({e}) /\ Accounts({e})
    BY <1>1, <1>3, <1>4, <1>6, <2>1, <2>2 DEF QueueMoves, Accounts
  <2>4. FnOK(e)'
    <3>1. call'[e] = Idle
      BY <1>1, <1>6, FnFacts DEF FnOK, IdleFn
    <3> QED BY <1>4, <2>1, <3>1 DEF FnOK, Active
  <2>5. \A f \in Exec \ {e} : fn'[f] = fn[f] /\ call'[f] = call[f]
    BY <1>1, <2>1
  <2>6. \A l \in Key : task'[l] = "blocked" => task[l] = "blocked"
    BY <1>1
  <2> HIDE DEF ClosureInv
  <2> QED BY <1>2, <1>3, <2>1, <2>3, <2>4, <2>5, <2>6, FnMoves
<1> QED BY <1>5, <1>6 DEF ClaimJob

LEMMA ListsKeep ==
  ASSUME ClosureInv, NEW e \in Exec, List(e)
  PROVE  ClosureInv'
<1>1. /\ fn[e].pc = "list" /\ UNCHANGED task /\ call[e] = Idle /\ fn[e].key \in Key /\ fn[e].event = "NONE"
      /\ UNCHANGED <<token, status, leaseOwner, attemptCount, attempts, receipt, drafts>>
      /\ fn[e].worker \in Worker
  BY FnFacts DEF List, FnOK, grant, records, tasks
<1>2. CASE Blocked(e) /\ UNCHANGED call
  <2>1. RunRows' /\ AllTold' /\ KeepsReceipts
    BY <1>1, <1>2, SameRuntime DEF ClosureInv
  <2> QED BY <1>1, <1>2, <2>1, BlockedKeeps
<1>3. ASSUME NEW op \in Mode \ {"unarmed"}, NEW w \in Worker,
             call' = [call EXCEPT ![e] = [op |-> op, key |-> fn[e].key, worker |-> w, count |-> 0, todo |-> Program[op]]],
             fn' = [fn EXCEPT ![e].pc = "run"], UNCHANGED <<queue, lost>>
      PROVE  ClosureInv'
  <2>1. PICK n : n = [op |-> op, key |-> fn[e].key, worker |-> w, count |-> 0, todo |-> Program[op]]
    OBVIOUS
  <2>2. Starts(n) /\ n.key = fn[e].key
    BY <1>1, <2>1 DEF Starts
  <2>3. Turns(e, n)
    BY <1>1, <1>3, <2>1, <2>2 DEF Turns
  <2>4. RunRows' /\ AllTold' /\ KeepsReceipts
    BY <2>3, FnFacts, TurnsKeepRows, TurnsKeepTold DEF ClosureInv
  <2>5. call'[e] = n /\ \A f \in Exec \ {e} : call'[f] = call[f]
    BY <2>3, ExecAssumption DEF Turns, ClosureInv, RunRows
  <2>6. fn' \in FnType /\ fn'[e] = [fn[e] EXCEPT !.pc = "run"] /\ \A f \in Exec \ {e} : fn'[f] = fn[f]
    BY <1>3 DEF ClosureInv, FnType
  <2>7. /\ fn'[e].pc = "run" /\ fn'[e].key = fn[e].key /\ fn'[e].event = "NONE" /\ fn'[e].awaited = fn[e].awaited
        /\ fn'[e].worker = fn[e].worker
    BY <1>1, <2>6, FnFacts
  <2>8. FnOK(e)' /\ (Active(fn'[e]) <=> Active(fn[e]))
    BY <1>1, <1>3, <2>2, <2>5, <2>7, FnFacts, Started DEF FnOK, Active
  <2>9. QueueMoves({e})
    BY <1>3, QueueStays
  <2>10. Active(fn'[e]) => \A f \in Exec \ {e} : Active(fn[f]) => fn[f].key # fn'[e].key
    BY <2>7, <2>8, FnFacts
  <2>11. task' \in [Key -> TaskStatus] /\ \A l \in Key : task'[l] = "blocked" => task[l] = "blocked"
    BY <1>1 DEF ClosureInv
  <2>12. fn' \in FnType /\ \A f \in Exec \ {e} : fn'[f] = fn[f] /\ call'[f] = call[f]
    BY <2>5, <2>6
  <2>13. Accounts({e})
    BY <1>3, <2>7, <2>8, NoAccount
  <2> HIDE DEF ClosureInv
  <2> QED BY <2>4, <2>8, <2>9, <2>10, <2>11, <2>12, <2>13, FnMoves
<1> QED BY <1>1, <1>2, <1>3 DEF List, NothingListed, process

LEMMA RunsKeep ==
  ASSUME ClosureInv, NEW e \in Exec, RunOnce(e)
  PROVE  ClosureInv'
<1>1. /\ fn[e].pc = "run" /\ Step(e) /\ UNCHANGED task /\ fn[e].key \in Key /\ fn[e].event = "NONE"
      /\ call[e] # Idle /\ call[e].key = fn[e].key /\ e \in Call /\ fn[e].worker \in Worker
  BY FnFacts DEF RunOnce, FnOK, tasks
<1>2. PICK step, m, n : n \in RunRecord /\ Effects(e, step, m, n)
  BY <1>1, StepEffects DEF ClosureInv, StepDone
<1>3. RunRows' /\ AllTold' /\ KeepsReceipts
  BY <1>1, StepEffects, StepKeepsTold DEF ClosureInv
<1>4. /\ At(e, step) /\ Head(call[e].todo) = step /\ (n # Idle => n.key = fn[e].key)
      /\ call'[e] = n /\ \A f \in Exec \ {e} : call'[f] = call[f]
  BY <1>1, <1>2, ExecAssumption DEF Effects, After, At, ClosureInv, RunRows
<1>5. task' \in [Key -> TaskStatus] /\ \A l \in Key : task'[l] = "blocked" => task[l] = "blocked"
  BY <1>1 DEF ClosureInv
<1>6. CASE call'[e] # Idle /\ UNCHANGED <<queue, fn, lost>>
  <2>1. FnOK(e)' /\ (Active(fn'[e]) <=> Active(fn[e]))
    BY <1>1, <1>4, <1>6, FnFacts DEF FnOK, Active
  <2>2. QueueMoves({e})
    BY <1>6, QueueStays
  <2>3. Active(fn'[e]) => \A f \in Exec \ {e} : Active(fn[f]) => fn[f].key # fn'[e].key
    BY <1>6, <2>1, FnFacts
  <2>4. fn' \in FnType /\ \A f \in Exec \ {e} : fn'[f] = fn[f]
    BY <1>6 DEF ClosureInv, FnType
  <2>5. Accounts({e})
    BY <1>6, <2>1, NoAccount
  <2> QED BY <1>3, <1>4, <1>5, <2>1, <2>2, <2>3, <2>4, <2>5, FnMoves
<1>7. CASE call'[e] = Idle /\ Outcome(e, Head(call[e].todo))
  <2>1. CASE Blocked(e)
    BY <1>1, <1>3, <1>4, <1>7, <2>1, BlockedKeeps
  <2>2. CASE Errored(e)
    BY <1>1, <1>3, <1>4, <1>7, <2>2, ErroredKeeps
  <2>3. CASE step = "recoverLatest" /\ Notify(e, EventOf(receipt[fn[e].key])) /\ UNCHANGED <<queue, lost>>
    <3>1. PICK ev \in {"MARK_COMPLETED", "NONE"} : ev = EventOf(receipt[fn[e].key])
      BY DEF EventOf
    <3>2. fn' = [fn EXCEPT ![e].pc = "read", ![e].event = ev]
      BY <2>3, <3>1 DEF Notify
    <3>3. /\ fn' \in FnType /\ \A f \in Exec \ {e} : fn'[f] = fn[f]
          /\ fn'[e].pc = "read" /\ fn'[e].event = ev /\ fn'[e].key = fn[e].key /\ fn'[e].awaited = fn[e].awaited
          /\ fn'[e].worker = fn[e].worker
      BY <3>2, NotifyChanges
    <3>4. receipt'[fn[e].key] # "none"
      <4>1. Told(call[e])
        BY <1>1 DEF ClosureInv, AllTold
      <4> QED BY <1>1, <1>3, <1>4, <2>3, <4>1 DEF Told, KeepsReceipts
    <3>5. FnOK(e)' /\ (Active(fn'[e]) <=> Active(fn[e]))
      BY <1>1, <1>7, <2>3, <3>3, <3>4, FnFacts DEF FnOK, Active
    <3>6. QueueMoves({e})
      BY <2>3, QueueStays
    <3>7. Active(fn'[e]) => \A f \in Exec \ {e} : Active(fn[f]) => fn[f].key # fn'[e].key
      BY <3>3, <3>5, FnFacts
    <3>8. Accounts({e})
      BY <2>3, <3>3, <3>5, NoAccount
    <3> QED BY <1>3, <1>4, <1>5, <3>3, <3>5, <3>6, <3>7, <3>8, FnMoves
  <2> QED BY <1>4, <1>7, <2>1, <2>2, <2>3 DEF Outcome, process
<1> QED BY <1>6, <1>7 DEF RunOnce, process

LEMMA TellsKeep ==
  ASSUME ClosureInv, NEW e \in Exec, ReadTask(e) \/ WriteTask(e) \/ Finish(e) \/ Timeout(e)
  PROVE  ClosureInv'
<1>1. RunRows' /\ AllTold' /\ KeepsReceipts /\ UNCHANGED call
  <2>1. UNCHANGED <<token, status, leaseOwner, attemptCount, attempts, receipt, drafts, call>>
    BY DEF ReadTask, WriteTask, Finish, Timeout, runtime, vars, records
  <2> QED BY <2>1, SameRuntime DEF ClosureInv
<1>0. fn[e].pc # "idle" /\ fn[e].key \in Key /\ fn[e].worker \in Worker
  <2>1. fn[e].pc # "idle"
    BY FnFacts DEF ReadTask, WriteTask, Finish, Timeout, Executes, FnOK, IdleFn
  <2> QED BY <2>1, FnFacts
<1>2. CASE ReadTask(e)
  <2>1. fn[e].pc = "read" /\ fn' = [fn EXCEPT ![e].pc = "write", ![e].saw = task[fn[e].key]] /\ UNCHANGED <<queue, task, lost>>
    BY <1>2 DEF ReadTask, tasks, process
  <2>2. /\ fn' \in FnType /\ \A f \in Exec \ {e} : fn'[f] = fn[f]
        /\ fn'[e].pc = "write" /\ fn'[e].key = fn[e].key /\ fn'[e].event = fn[e].event /\ fn'[e].awaited = fn[e].awaited
        /\ fn'[e].worker = fn[e].worker
    <3>1. task[fn[e].key] \in TaskStatus
      BY <1>0 DEF ClosureInv
    <3> QED BY <2>1, <3>1 DEF ClosureInv, FnType
  <2>3. FnOK(e)' /\ (Active(fn'[e]) <=> Active(fn[e]))
    BY <1>0, <1>1, <2>1, <2>2, FnFacts DEF FnOK, Active, KeepsReceipts
  <2>4. QueueMoves({e}) /\ task' \in [Key -> TaskStatus]
    BY <2>1, QueueStays DEF ClosureInv
  <2>5. Active(fn'[e]) => \A f \in Exec \ {e} : Active(fn[f]) => fn[f].key # fn'[e].key
    BY <2>2, <2>3, FnFacts
  <2>6. Accounts({e})
    BY <2>1, <2>2, <2>3, NoAccount
  <2> QED BY <1>1, <2>1, <2>2, <2>3, <2>4, <2>5, <2>6, FnMoves
<1>3. CASE WriteTask(e)
  <2>1. /\ fn[e].pc = "write" /\ UNCHANGED <<queue, lost>>
        /\ \/ UNCHANGED task
           \/ fn[e].event # "NONE" /\ task' = [task EXCEPT ![fn[e].key] = transitions[fn[e].event].to]
        /\ \/ fn[e].event = "BLOCK" /\ fn' = [fn EXCEPT ![e] = IdleFn]
           \/ fn[e].event # "BLOCK" /\ fn' = [fn EXCEPT ![e].pc = "done"]
    BY <1>3 DEF WriteTask, Ends, process
  <2>2. task' \in [Key -> TaskStatus] /\ \A l \in Key : task'[l] = "blocked" => task[l] = "blocked" \/ queue[l] = "blocked"
    <3>1. CASE UNCHANGED task
      BY <3>1 DEF ClosureInv
    <3>2. CASE fn[e].event = "BLOCK" /\ task' = [task EXCEPT ![fn[e].key] = "blocked"]
      BY <1>0, <3>2, FnFacts DEF ClosureInv, TaskStatus, FnOK
    <3>3. CASE task' = [task EXCEPT ![fn[e].key] = "completed"]
      BY <1>0, <3>3 DEF ClosureInv, TaskStatus
    <3>4. transitions["BLOCK"].to = "blocked" /\ transitions["MARK_COMPLETED"].to = "completed"
      BY DEF transitions
    <3>5. fn[e].event \in {"NONE", "MARK_COMPLETED", "BLOCK"}
      BY FnFacts
    <3> QED BY <2>1, <3>1, <3>2, <3>3, <3>4, <3>5
  <2>3. fn' \in FnType /\ \A f \in Exec \ {e} : fn'[f] = fn[f]
    <3>1. fn \in FnType
      BY DEF ClosureInv, FnType
    <3>2. CASE fn' = [fn EXCEPT ![e] = IdleFn]
      BY <3>1, <3>2 DEF FnType, IdleFn
    <3>3. CASE fn' = [fn EXCEPT ![e].pc = "done"]
      BY <3>1, <3>3 DEF FnType
    <3> QED BY <2>1, <3>2, <3>3
  <2>4. QueueMoves({e})
    BY <2>1, QueueStays
  <2>5. FnOK(e)' /\ (Active(fn'[e]) <=> Active(fn[e])) /\ (Active(fn'[e]) => fn'[e].key = fn[e].key)
    <3>1. CASE fn[e].event = "BLOCK" /\ fn' = [fn EXCEPT ![e] = IdleFn]
      <4>1. fn'[e] = IdleFn /\ call'[e] = Idle /\ ~Active(fn[e])
        BY <1>1, <2>1, <3>1, FnFacts DEF ClosureInv, FnOK, Active
      <4> QED BY <4>1, IdleFnOK
    <3>2. CASE fn[e].event # "BLOCK" /\ fn' = [fn EXCEPT ![e].pc = "done"]
      <4>1. /\ fn'[e].pc = "done" /\ fn'[e].key = fn[e].key /\ fn'[e].event = fn[e].event
            /\ fn'[e].awaited = fn[e].awaited /\ fn'[e].worker = fn[e].worker
        BY <3>2 DEF ClosureInv
      <4>2. call'[e] = Idle /\ receipt'[fn[e].key] # "none" /\ (Active(fn[e]) => queue'[fn[e].key] = "running")
        BY <1>0, <1>1, <2>1, <3>2, FnFacts DEF FnOK, KeepsReceipts
      <4> QED BY <1>0, <3>2, <4>1, <4>2 DEF FnOK, Active
    <3> QED BY <2>1, <3>1, <3>2
  <2>6. Active(fn'[e]) => \A f \in Exec \ {e} : Active(fn[f]) => fn[f].key # fn'[e].key
    BY <2>5, FnFacts
  <2>7. Accounts({e})
    BY <2>1, <2>5, NoAccount
  <2> QED BY <1>1, <2>2, <2>3, <2>4, <2>5, <2>6, <2>7, FnMoves
<1>4. CASE Finish(e)
  <2>1. /\ fn[e].pc = "done" /\ fn' = [fn EXCEPT ![e] = IdleFn] /\ UNCHANGED <<task, lost>>
        /\ queue' = IF fn[e].awaited THEN [queue EXCEPT ![fn[e].key] = "completed"] ELSE queue
    BY <1>4 DEF Finish, Completed, Ends, tasks, process
  <2>2. fn[e].event # "BLOCK" /\ receipt'[fn[e].key] # "none" /\ call'[e] = Idle
    BY <1>0, <1>1, <2>1, FnFacts DEF FnOK, KeepsReceipts
  <2>3. QueueMoves({e}) /\ Accounts({e})
    <3>1. CASE fn[e].awaited
      <4>1. QueueMoves({e}) /\ queue'[fn[e].key] = "completed"
        BY <2>1, <2>2, <3>1, OwnQueueMoves DEF Active
      <4> QED BY <2>1, <4>1 DEF Accounts
    <3>2. CASE ~fn[e].awaited
      BY <2>1, <3>2, QueueStays, NoAccount DEF Active
    <3> QED BY <3>1, <3>2
  <2>4. fn' \in FnType /\ fn'[e] = IdleFn /\ \A f \in Exec \ {e} : fn'[f] = fn[f]
    BY <2>1 DEF ClosureInv, FnType, IdleFn
  <2>5. FnOK(e)' /\ ~Active(fn'[e])
    BY <2>2, <2>4, IdleFnOK
  <2>6. task' \in [Key -> TaskStatus]
    BY <2>1 DEF ClosureInv
  <2> QED BY <1>1, <2>1, <2>3, <2>4, <2>5, <2>6, FnMoves
<1>5. CASE Timeout(e)
  <2>1. Active(fn[e]) /\ fn' = [fn EXCEPT ![e].awaited = FALSE] /\ UNCHANGED task
    BY <1>5 DEF Timeout, Executes, Active, tasks
  <2>2. QueueMoves({e}) /\ Accounts({e})
    BY <1>5, <2>1, RetryMoves DEF Timeout
  <2>3. /\ fn' \in FnType /\ \A f \in Exec \ {e} : fn'[f] = fn[f]
        /\ fn'[e].pc = fn[e].pc /\ fn'[e].key = fn[e].key /\ fn'[e].event = fn[e].event /\ fn'[e].awaited = FALSE
        /\ fn'[e].worker = fn[e].worker
    BY <2>1 DEF ClosureInv, FnType
  <2>4. FnOK(e)' /\ ~Active(fn'[e])
    BY <1>0, <1>1, <2>1, <2>3, FnFacts DEF FnOK, Active, KeepsReceipts
  <2>5. task' \in [Key -> TaskStatus]
    BY <2>1 DEF ClosureInv
  <2> QED BY <1>1, <2>1, <2>2, <2>3, <2>4, <2>5, FnMoves
<1> QED BY <1>2, <1>3, <1>4, <1>5

LEMMA FailsKeep ==
  ASSUME ClosureInv, NEW e \in Exec, QueryFails(e)
  PROVE  ClosureInv'
<1>1. Turns(e, Idle) /\ UNCHANGED task /\ fn[e].pc # "idle"
  BY DEF QueryFails, Turns, grant, records, tasks
<1>2. RunRows' /\ AllTold' /\ KeepsReceipts
  BY <1>1, FnFacts, TurnsKeepRows, TurnsKeepTold DEF ClosureInv
<1>3. call'[e] = Idle /\ \A f \in Exec \ {e} : call'[f] = call[f]
  BY <1>1, ExecAssumption DEF Turns, ClosureInv, RunRows
<1>4. CASE fn[e].event # "BLOCK" /\ Errored(e)
  BY <1>1, <1>2, <1>3, <1>4, ErroredKeeps
<1>5. CASE fn[e].event = "BLOCK" /\ Ends(e) /\ UNCHANGED <<queue, lost>>
  <2>1. fn' \in FnType /\ fn'[e] = IdleFn /\ \A f \in Exec \ {e} : fn'[f] = fn[f]
    BY <1>5 DEF Ends, ClosureInv, FnType, IdleFn
  <2>2. FnOK(e)' /\ ~Active(fn'[e])
    BY <1>3, <2>1, IdleFnOK
  <2>3. QueueMoves({e})
    BY <1>5, QueueStays
  <2>4. task' \in [Key -> TaskStatus]
    BY <1>1 DEF ClosureInv
  <2>5. Accounts({e})
    BY <1>5, NoAccount DEF Active
  <2> QED BY <1>1, <1>2, <1>3, <2>1, <2>2, <2>3, <2>4, <2>5, FnMoves
<1> QED BY <1>4, <1>5 DEF QueryFails

LEMMA ClosureKeeps == ClosureInv /\ [ClosureNext]_ClosureVars => ClosureInv'
<1> SUFFICES ASSUME ClosureInv, [ClosureNext]_ClosureVars PROVE ClosureInv'
  OBVIOUS
<1>1. ASSUME NEW e \in Exec, ExecStep(e) \/ QueryFails(e) \/ Timeout(e) PROVE ClosureInv'
  BY <1>1, ListsKeep, RunsKeep, TellsKeep, FailsKeep DEF ExecStep
<1>2. ASSUME NEW w \in Worker, \/ ExitDaemon(w) \/ \E k \in Key : ClaimJob(w, k) PROVE ClosureInv'
  BY <1>2, ExitsKeep, ClaimsKeep
<1> QED BY <1>1, <1>2, OthersKeep DEF ClosureNext

LEMMA ClosureHolds == ClosureSpec => []ClosureInv
<1>1. ClosureInit => ClosureInv
  <2> SUFFICES ASSUME ClosureInit PROVE ClosureInv
    OBVIOUS
  <2>1. RunRows /\ AllTold
    BY IdleIsNobody DEF ClosureInit, Init, RunRows, RowsOK, AllTold
  <2>2. \A e \in Exec : fn[e] = IdleFn /\ call[e] = Idle
    BY ExecAssumption DEF ClosureInit, Init
  <2>3. ASSUME NEW e \in Exec PROVE FnOK(e) /\ ~Active(fn[e])
    <3>1. IdleFn.pc = "idle" /\ IdleFn.event = "NONE" /\ IdleFn.awaited = FALSE
      BY DEF IdleFn
    <3> QED BY <2>2, <3>1 DEF FnOK, Active
  <2>4. /\ queue \in QueueType /\ task \in [Key -> TaskStatus] /\ fn \in FnType
        /\ CompletedJobHasReceipt /\ BlockedTaskIsExplained /\ RunningIsExecuted
    BY DEF ClosureInit, QueueType, FnType, IdleFn, TaskStatus, CompletedJobHasReceipt, BlockedTaskIsExplained,
           RunningIsExecuted
  <2> QED BY <2>1, <2>3, <2>4 DEF ClosureInv, QueueType, FnType
<1>2. ClosureInv /\ [ClosureNext]_ClosureVars => ClosureInv'
  BY ClosureKeeps
<1> QED BY <1>1, <1>2, PTL DEF ClosureSpec

\* A completed queue job has a receipt (executeRuntimeDispatchQueueJob): no execution
\* that was cut off, refused or timed out is reported as done, whatever the operators
\* do to the same jobs meanwhile.
THEOREM CompletedJobHasReceiptHolds == ClosureSpec => []CompletedJobHasReceipt
<1>1. ClosureInv => CompletedJobHasReceipt
  BY DEF ClosureInv
<1> QED BY <1>1, ClosureHolds, PTL

\* A task the worker blocked has a blocked queue job to explain it: the function that
\* blocks the task is the one that blocked its job, and nothing moves that job again.
THEOREM BlockedTaskIsExplainedHolds == ClosureSpec => []BlockedTaskIsExplained
<1>1. ClosureInv => BlockedTaskIsExplained
  BY DEF ClosureInv
<1> QED BY <1>1, ClosureHolds, PTL

\* The daemon leaves a running row behind only where a query of its own fails that
\* nothing catches, or where its process ends first (executeJobAsync, tryLeaseJob): in
\* every other case the row has one invocation that will settle it.
THEOREM RunningIsExecutedHolds == ClosureSpec => []RunningIsExecuted
<1>1. ClosureInv => RunningIsExecuted
  BY DEF ClosureInv
<1> QED BY <1>1, ClosureHolds, PTL

-----------------------------------------------------------------------------
(* Why a file is written once *)

\* The awaits up to the write, those past the attempt log, and those that the run of
\* a job does not make.
ToWrite == {"readLeased", "run", "attemptRunning", "readRunning", "readToken", "readReceipt", "write"}
Past    == ToWrite \cup {"succeed", "consume", "receiptDryRun", "receiptReal", "recoverLatest", "recoverUnknown"}

AllCalls == {"lease", "readHeld", "fail", "block", "attemptFailed", "attemptBlocked", "snapshot"}

\* What a call in flight tells of the job.  Only a run writes: one that is past the
\* attempt log has inserted attempt number 1, and one on its way to the write finds
\* no file.
OnceOK(d) ==
  LET a == Head(d.todo) IN
  IF d.op = "runWrite"
  THEN /\ d.todo \in Seq(Await \ AllCalls)
       /\ a = "leaseById" => d.count = 0 /\ status[d.key] # "absent"
       /\ a = "attemptLeased" => d.count = 1 /\ status[d.key] \notin {"absent", "queued"}
       /\ a \in Past => AttemptTaken(d.key, 1) /\ status[d.key] \notin {"absent", "queued"}
       /\ a \in ToWrite => drafts[d.key] = 0
  ELSE d.todo \in Seq(Await \ {"write"})

\* A run that is past the attempt log.
Through(d) == d # Idle /\ d.op = "runWrite" /\ Head(d.todo) \in Past

\* Attempt number 1 lets one call past the attempt log, and only that call writes.
OnceInv ==
  /\ RunRows
  /\ \A k \in Key : status[k] \in {"absent", "queued"} => attemptCount[k] = 0
  /\ \A k \in Key : drafts[k] > 0 => AttemptTaken(k, 1)
  /\ \A c \in Call : call[c] = Idle \/ OnceOK(call[c])
  /\ \A c, d \in Call : Through(call[c]) /\ Through(call[d]) /\ call[c].key = call[d].key => c = d
  /\ RetriesWriteOnce

LEMMA WhatPrecedes ==
  ASSUME NEW x, NEW a, <<x, a>> \in Follows
  PROVE  /\ a = "leaseById" => x = "readQueued"
         /\ a = "attemptLeased" => x \in {"lease", "leaseById"}
         /\ a \in Past => x \in Past \/ (x = "attemptLeased" /\ a = "readLeased")
         /\ a \in ToWrite => x \in ToWrite \ {"write"} \/ (x = "attemptLeased" /\ a = "readLeased")
BY DEF Follows, Past, ToWrite

\* A row of attempts is never taken away.
LEMMA TakenStays ==
  ASSUME NEW l, NEW i, AttemptTaken(l, i), attempts[l] \subseteq attempts'[l]
  PROVE  AttemptTaken(l, i)'
BY DEF AttemptTaken

LEMMA OnceStep ==
  ASSUME OnceInv, RunRows', NEW c \in Call, Step(c)
  PROVE  OnceInv'
<1>1. PICK step, m, n : n \in RunRecord /\ Effects(c, step, m, n)
  BY StepEffects DEF StepDone, OnceInv
<1> PICK k, i : k = call[c].key /\ i = call[c].count
  OBVIOUS
<1>2. /\ At(c, step) /\ k \in Key /\ call[c] # Idle /\ call[c].todo # <<>> /\ Head(call[c].todo) = step
      /\ call'[c] = n /\ \A d \in Call \ {c} : call'[d] = call[d]
  BY <1>1, InHand DEF Effects, OnceInv, RunRows
<1>3. /\ OnceOK(call[c])
      /\ IF call[c].op = "runWrite" THEN step \in Await \ AllCalls ELSE step # "write"
  <2>1. OnceOK(call[c])
    BY <1>2 DEF OnceInv
  <2> QED BY <1>2, <2>1, HeadTailProperties DEF OnceOK
<1>4. /\ status[k] # "absent" => status'[k] # "absent"
      /\ status[k] \notin {"absent", "queued"} => status'[k] \notin {"absent", "queued"}
      /\ attempts[k] \subseteq attempts'[k]
      /\ \A l \in Key \ {k} : UNCHANGED <<status[l], attemptCount[l], attempts[l], drafts[l]>>
      /\ drafts'[k] = drafts[k] \/ (step = "write" /\ drafts'[k] \in {drafts[k], drafts[k] + 1})
  BY <1>1 DEF Effects
<1>5. \A l \in Key : attempts[l] \subseteq attempts'[l]
  BY <1>4
<1>6. call[c].op = "runWrite" /\ step \in Past => AttemptTaken(k, 1) /\ status[k] \notin {"absent", "queued"}
  BY <1>2, <1>3 DEF OnceOK
<1>7. step = "write" => drafts[k] = 0 /\ step \in Past /\ call[c].op = "runWrite"
  BY <1>2, <1>3 DEF OnceOK, ToWrite, Past
<1>8. \A l \in Key : status'[l] \in {"absent", "queued"} => attemptCount'[l] = 0
  <2>1. attemptCount'[k] # attemptCount[k] => status'[k] \notin {"absent", "queued"}
    BY <1>1 DEF Effects
  <2> QED BY <1>2, <1>4, <2>1 DEF OnceInv
<1>9. ASSUME NEW l \in Key, drafts'[l] > 0 PROVE AttemptTaken(l, 1)'
  <2>1. AttemptTaken(l, 1)
    BY <1>2, <1>4, <1>6, <1>7, <1>9 DEF OnceInv
  <2> QED BY <1>5, <2>1, TakenStays
<1>10. RetriesWriteOnce'
  BY <1>2, <1>4, <1>7 DEF OnceInv, RetriesWriteOnce, OneDraft
\* The call that moves.
<1>11. ASSUME n # Idle
       PROVE  /\ OnceOK(n)' /\ n.key = k /\ n.op = call[c].op
              /\ Through(n) /\ step \notin Past => ~AttemptTaken(k, 1)
  <2>1. /\ n.key = k /\ n.count = m /\ <<step, Head(n.todo)>> \in Follows /\ n.todo = Tail(call[c].todo)
        /\ n.op = call[c].op
    BY <1>1, <1>11 DEF Effects, After
  <2>2. IF n.op = "runWrite" THEN n.todo \in Seq(Await \ AllCalls) ELSE n.todo \in Seq(Await \ {"write"})
    BY <1>2, <1>3, <2>1, HeadTailProperties DEF OnceOK
  <2> PICK a : a = Head(n.todo)
    OBVIOUS
  <2>3. CASE n.op = "runWrite"
    <3>1. a = "leaseById" => n.count = 0 /\ status'[k] # "absent"
      <4> SUFFICES ASSUME a = "leaseById" PROVE n.count = 0 /\ status'[k] # "absent"
        OBVIOUS
      <4>1. step = "readQueued"
        BY <2>1, WhatPrecedes
      <4>2. status[k] = "queued" /\ m = attemptCount[k]
        BY <1>1, <1>11, <4>1 DEF Effects
      <4> QED BY <1>2, <1>4, <2>1, <4>2 DEF OnceInv
    <3>2. a = "attemptLeased" => n.count = 1 /\ status'[k] \notin {"absent", "queued"}
      <4> SUFFICES ASSUME a = "attemptLeased" PROVE n.count = 1 /\ status'[k] \notin {"absent", "queued"}
        OBVIOUS
      <4>1. step = "leaseById"
        BY <1>3, <2>1, <2>3, WhatPrecedes DEF AllCalls
      <4>2. m = call[c].count + 1 /\ status'[k] = "leased" /\ call[c].count = 0
        BY <1>1, <1>2, <1>3, <2>1, <2>3, <4>1 DEF Effects, OnceOK
      <4> QED BY <2>1, <4>2
    <3>3. ASSUME step = "attemptLeased"
          PROVE  ~AttemptTaken(k, 1) /\ AttemptTaken(k, 1)' /\ drafts'[k] = 0 /\ status'[k] \notin {"absent", "queued"}
      <4>1. i = 1 /\ status[k] \notin {"absent", "queued"}
        BY <1>2, <1>3, <2>1, <2>3, <3>3 DEF OnceOK
      <4>2. ~AttemptTaken(k, i) /\ \E x \in attempts'[k] : x[1] = i
        BY <1>1, <1>11, <3>3 DEF Effects
      <4>3. drafts[k] \in Nat
        BY <1>2 DEF OnceInv, RunRows, RowsOK
      <4>4. drafts[k] = 0
        BY <1>2, <4>1, <4>2, <4>3 DEF OnceInv
      <4> QED BY <1>4, <3>3, <4>1, <4>2, <4>4 DEF AttemptTaken
    <3>4. a \in Past => AttemptTaken(k, 1)' /\ status'[k] \notin {"absent", "queued"}
      BY <1>2, <1>4, <1>5, <1>6, <2>1, <2>3, <3>3, WhatPrecedes, TakenStays
    <3>5. a \in ToWrite => drafts'[k] = 0
      <4>1. step \in ToWrite => drafts[k] = 0
        BY <1>2, <1>3, <2>1, <2>3 DEF OnceOK
      <4> QED BY <1>4, <2>1, <3>3, <4>1, WhatPrecedes
    <3>6. OnceOK(n)'
      BY <2>1, <2>2, <2>3, <3>1, <3>2, <3>4, <3>5 DEF OnceOK
    <3> QED BY <2>1, <3>3, <3>6, WhatPrecedes DEF Through
  <2>4. CASE n.op # "runWrite"
    <3>1. OnceOK(n)'
      BY <2>2, <2>4 DEF OnceOK
    <3> QED BY <2>1, <2>4, <3>1 DEF Through
  <2> QED BY <2>3, <2>4
\* The calls that do not.
<1>12. ASSUME NEW d \in Call \ {c}, call[d] # Idle PROVE OnceOK(call[d])'
  <2> PICK e, l, a : e = call[d] /\ l = e.key /\ a = Head(e.todo)
    OBVIOUS
  <2>1. OnceOK(e) /\ call'[d] = e /\ l \in Key
    BY <1>2, <1>12 DEF OnceInv, RunRows, InProgress
  <2>2. /\ status[l] # "absent" => status'[l] # "absent"
        /\ status[l] \notin {"absent", "queued"} => status'[l] \notin {"absent", "queued"}
    BY <1>4, <2>1
  <2>3. AttemptTaken(l, 1) => AttemptTaken(l, 1)'
    BY <1>5, <2>1, TakenStays
  <2>4. e.op = "runWrite" /\ a \in ToWrite => drafts'[l] = drafts[l]
    <3> SUFFICES ASSUME e.op = "runWrite", a \in ToWrite, l = k, step = "write" PROVE FALSE
      BY <1>4, <2>1
    <3>1. Through(call[d]) /\ Through(call[c])
      BY <1>2, <1>7, <1>12 DEF Past, Through
    <3> QED BY <1>2, <1>12, <3>1 DEF OnceInv
  <2>5. OnceOK(e)'
    BY <2>1, <2>2, <2>3, <2>4 DEF OnceOK
  <2> QED BY <2>1, <2>5
<1>13. ASSUME NEW d \in Call PROVE (call[d] = Idle)' \/ OnceOK(call[d])'
  <2>1. CASE d = c
    BY <1>2, <1>11, <2>1 DEF OnceOK
  <2>2. CASE d # c
    BY <1>2, <1>12, <2>2
  <2> QED BY <2>1, <2>2
<1>14. ASSUME NEW d \in Call \ {c}, Through(n), Through(call[d]), n.key = call[d].key
       PROVE  FALSE
  <2>1. n.key = k /\ n.op = call[c].op /\ (step \notin Past => ~AttemptTaken(k, 1))
    BY <1>11, <1>14 DEF Through
  <2>2. OnceOK(call[d])
    BY <1>14 DEF OnceInv, Through
  <2>3. AttemptTaken(k, 1)
    BY <1>14, <2>1, <2>2 DEF OnceOK, Through
  <2>4. Through(call[c])
    BY <1>2, <1>14, <2>1, <2>3 DEF Through
  <2> QED BY <1>2, <1>14, <2>1, <2>4 DEF OnceInv
<1>15. ASSUME NEW d \in Call, NEW e \in Call, Through(call'[d]), Through(call'[e]), call'[d].key = call'[e].key
       PROVE  d = e
  <2>1. CASE d = c /\ e # c
    BY <1>2, <1>14, <1>15, <2>1
  <2>2. CASE e = c /\ d # c
    BY <1>2, <1>14, <1>15, <2>2
  <2>3. CASE d # c /\ e # c
    BY <1>2, <1>15, <2>3 DEF OnceInv
  <2> QED BY <2>1, <2>2, <2>3
<1>16. ASSUME NEW d \in Call, NEW e \in Call, Through(call[d])', Through(call[e])', (call[d].key = call[e].key)'
       PROVE  d = e
  BY <1>15, <1>16 DEF Through
<1> QED BY <1>8, <1>9, <1>10, <1>13, <1>16 DEF OnceInv

\* The worker's runs, and those of others, are all that completes a job with a write.
OnlyRunsWrite == "completeWrite" \notin Op

LEMMA ClosureOperations ==
  ASSUME NEW op \in DOMAIN Program, op # "completeWrite"
  PROVE  IF op = "runWrite" THEN Program[op] \in Seq(Await \ AllCalls) /\ Head(Program[op]) = "readQueued"
                            ELSE Program[op] \in Seq(Await \ {"write"})
<1> DEFINE Own == Await \ AllCalls
           Other == Await \ {"write"}
<1>1. /\ DOMAIN Program = {"issue", "postToken", "postJob", "claim", "claimById", "start", "fail", "block",
                           "completeDryRun", "completeWrite", "runDry", "runWrite"}
      /\ Program["issue"] = <<"checkFree", "insertToken", "checkFree", "insertJob", "activate">>
      /\ Program["postToken"] = <<"insertToken">> /\ Program["postJob"] = <<"checkFree", "insertJob">>
      /\ Program["claim"] = <<"readQueued", "lease", "attemptLeased">>
      /\ Program["claimById"] = ClaimById /\ Program["start"] = Start
      /\ Program["fail"] = <<"readHeld", "fail", "attemptFailed", "snapshot">>
      /\ Program["block"] = <<"readHeld", "block", "attemptBlocked", "snapshot">>
      /\ Program["completeDryRun"] = CompleteDryRun
      /\ Program["runDry"] = (ClaimById \o Start) \o CompleteDryRun
      /\ Program["runWrite"] = (ClaimById \o Start) \o CompleteWrite
  BY DEF Program, Issue
<1>2. /\ <<"checkFree", "insertToken", "checkFree", "insertJob", "activate">> \in Seq(Other)
      /\ <<"insertToken">> \in Seq(Other) /\ <<"checkFree", "insertJob">> \in Seq(Other)
      /\ <<"readQueued", "lease", "attemptLeased">> \in Seq(Other)
      /\ <<"readHeld", "fail", "attemptFailed", "snapshot">> \in Seq(Other)
      /\ <<"readHeld", "block", "attemptBlocked", "snapshot">> \in Seq(Other)
  BY DEF Await
<1>3. /\ ClaimById \in Seq(Other) /\ Start \in Seq(Other) /\ Completion \in Seq(Other)
      /\ Record("receiptDryRun") \in Seq(Other) /\ <<"recoverLatest">> \in Seq(Other)
  BY DEF ClaimById, Start, Completion, Record, Await
<1>4. /\ ClaimById \in Seq(Own) /\ Start \in Seq(Own) /\ Completion \in Seq(Own)
      /\ Record("receiptReal") \in Seq(Own) /\ <<"recoverUnknown">> \in Seq(Own) /\ <<"write">> \in Seq(Own)
  BY DEF ClaimById, Start, Completion, Record, Await, AllCalls
<1>5. Len(ClaimById) = 3 /\ ClaimById[1] = "readQueued"
  BY DEF ClaimById
<1> HIDE DEF Own, Other
<1>6. \A S : \A s, t : s \in Seq(S) /\ t \in Seq(S) => s \o t \in Seq(S)
  BY ConcatProperties
<1>7. CompleteDryRun \in Seq(Other) /\ (ClaimById \o Start) \in Seq(Other)
      /\ (ClaimById \o Start) \o CompleteDryRun \in Seq(Other)
  BY <1>3, <1>6 DEF CompleteDryRun
<1>8. CASE op # "runWrite"
  <2>1. Program[op] \in Seq(Other)
    BY <1>1, <1>2, <1>3, <1>7, <1>8
  <2> QED BY <1>8, <2>1 DEF Other
<1>9. CompleteWrite \in Seq(Own)
  BY <1>4, <1>6 DEF CompleteWrite
<1>10. ASSUME NEW s \in Seq(Own), NEW t \in Seq(Own), Len(s) >= 3, s[1] = "readQueued"
       PROVE  s \o t \in Seq(Own) /\ Len(s \o t) >= 3 /\ (s \o t)[1] = "readQueued" /\ Head(s \o t) = "readQueued"
  <2> DEFINE u == s \o t
  <2>1. u \in Seq(Own) /\ Len(u) = Len(s) + Len(t) /\ \A i \in 1 .. Len(s) + Len(t) : u[i] = IF i <= Len(s) THEN s[i] ELSE t[i - Len(s)]
    BY <1>10, ConcatProperties
  <2>2. Len(s) \in Nat /\ Len(t) \in Nat
    BY LenProperties
  <2> HIDE DEF u
  <2>3. Len(u) >= 3 /\ u[1] = "readQueued" /\ Head(u) = u[1]
    BY <1>10, <2>1, <2>2
  <2> QED BY <2>1, <2>3 DEF u
<1>11. (ClaimById \o Start) \o CompleteWrite \in Seq(Own) /\ Head((ClaimById \o Start) \o CompleteWrite) = "readQueued"
  <2>1. PICK s, t, z : s = ClaimById /\ t = Start /\ z = CompleteWrite
    OBVIOUS
  <2>2. s \in Seq(Own) /\ t \in Seq(Own) /\ z \in Seq(Own) /\ Len(s) = 3 /\ s[1] = "readQueued"
    BY <1>4, <1>5, <1>9, <2>1
  <2>3. PICK u : u = s \o t
    OBVIOUS
  <2>4. Len(s) >= 3
    BY <2>2
  <2>5. u \in Seq(Own) /\ Len(u) >= 3 /\ u[1] = "readQueued"
    BY <1>10, <2>2, <2>3, <2>4
  <2>6. u \o z \in Seq(Own) /\ Head(u \o z) = "readQueued"
    BY <1>10, <2>2, <2>5
  <2> QED BY <2>1, <2>3, <2>6
<1> QED BY <1>1, <1>8, <1>11 DEF Own

LEMMA OnceTurn ==
  ASSUME OnlyRunsWrite, OnceInv, RunRows', NEW c \in Call, NEW n, Turns(c, n)
  PROVE  OnceInv'
<1>1. /\ UNCHANGED <<token, status, leaseOwner, attemptCount, attempts, receipt, drafts>>
      /\ call'[c] = n /\ \A d \in Call \ {c} : call'[d] = call[d]
  BY DEF Turns, OnceInv, RunRows
<1>2. ASSUME n # Idle PROVE OnceOK(n)' /\ ~Through(n)
  <2>1. Starts(n)
    BY <1>2 DEF Turns
  <2>2. n.todo = Program[n.op] /\ n.op \in DOMAIN Program /\ n.op # "completeWrite"
    BY <2>1, Started, ModeAssumption, OpAssumption DEF OnlyRunsWrite, Program
  <2>3. IF n.op = "runWrite" THEN n.todo \in Seq(Await \ AllCalls) /\ Head(n.todo) = "readQueued"
                             ELSE n.todo \in Seq(Await \ {"write"})
    BY <2>2, ClosureOperations
  <2> QED BY <2>3 DEF OnceOK, Through, Past, ToWrite
<1>3. ASSUME NEW d \in Call, call'[d] # Idle PROVE OnceOK(call[d])'
  <2>1. CASE d = c
    BY <1>1, <1>2, <1>3, <2>1 DEF OnceOK
  <2>2. CASE d # c
    <3> PICK e : e = call[d]
      OBVIOUS
    <3>1. call'[d] = e /\ OnceOK(e)
      BY <1>1, <1>3, <2>2 DEF OnceInv
    <3>2. OnceOK(e)'
      BY <1>1, <3>1 DEF OnceOK, AttemptTaken
    <3> QED BY <3>1, <3>2
  <2> QED BY <2>1, <2>2
<1>4. ASSUME NEW d \in Call, NEW e \in Call, Through(call[d])', Through(call[e])', (call[d].key = call[e].key)'
      PROVE  d = e
  <2>1. d # c /\ e # c
    BY <1>1, <1>2, <1>4 DEF Through
  <2> QED BY <1>1, <1>4, <2>1 DEF OnceInv, Through
<1>5. RetriesWriteOnce' /\ \A k \in Key : /\ status'[k] \in {"absent", "queued"} => attemptCount'[k] = 0
                                          /\ drafts'[k] > 0 => AttemptTaken(k, 1)'
  BY <1>1 DEF OnceInv, RetriesWriteOnce, OneDraft, AttemptTaken
<1>6. \A d \in Call : (call[d] = Idle)' \/ OnceOK(call[d])'
  BY <1>3
<1> QED BY <1>4, <1>5, <1>6 DEF OnceInv

\* What a step of the closure is for the runtime.
LEMMA ClosureMoves ==
  ASSUME ClosureInv, [ClosureNext]_ClosureVars
  PROVE  \/ \E c \in Call : Step(c)
         \/ \E c \in Call : \E n : Turns(c, n)
         \/ Falls
         \/ UNCHANGED <<token, status, leaseOwner, attemptCount, attempts, receipt, drafts, call>>
<1>1. CASE OtherCall
  <2>1. PICK c \in Call : Begin(c) \/ Step(c) \/ Abort(c)
    BY <1>1 DEF OtherCall
  <2>2. CASE Begin(c)
    <3>1. \E n : Starts(n) /\ call' = [call EXCEPT ![c] = n]
      BY <2>2 DEF Begin, Starts
    <3> QED BY <2>2, <3>1 DEF Begin, Turns, grant, records
  <2>3. CASE Abort(c)
    BY <2>3 DEF Abort, Quit, Turns, grant, records
  <2> QED BY <2>1, <2>2, <2>3
<1>2. ASSUME NEW e \in Exec, QueryFails(e) PROVE \E c \in Call : \E n : Turns(c, n)
  BY <1>2, ExecAssumption DEF QueryFails, Turns, grant, records
<1>3. ASSUME NEW e \in Exec, List(e)
      PROVE  \/ \E c \in Call : \E n : Turns(c, n)
             \/ UNCHANGED <<token, status, leaseOwner, attemptCount, attempts, receipt, drafts, call>>
  <2>1. fn[e].key \in Key /\ fn[e].worker \in Worker /\ e \in Call
    BY <1>3, FnFacts DEF List
  <2>2. UNCHANGED <<token, status, leaseOwner, attemptCount, attempts, receipt, drafts>>
    BY <1>3 DEF List, grant, records
  <2>3. \/ UNCHANGED call
        \/ \E op \in Mode \ {"unarmed"}, w \in Worker :
             call' = [call EXCEPT ![e] =
                        [op |-> op, key |-> fn[e].key, worker |-> w, count |-> 0, todo |-> Program[op]]]
    BY <1>3, <2>1 DEF List
  <2>4. ASSUME NEW op \in Mode \ {"unarmed"}, NEW w \in Worker,
               call' = [call EXCEPT ![e] = [op |-> op, key |-> fn[e].key, worker |-> w, count |-> 0, todo |-> Program[op]]]
        PROVE  \E c \in Call : \E n : Turns(c, n)
    <3>1. PICK n : n = [op |-> op, key |-> fn[e].key, worker |-> w, count |-> 0, todo |-> Program[op]]
      OBVIOUS
    <3>2. Starts(n)
      BY <2>1, <3>1 DEF Starts
    <3> QED BY <2>1, <2>2, <2>4, <3>1, <3>2 DEF Turns
  <2> QED BY <2>2, <2>3, <2>4
<1>4. ASSUME NEW e \in Exec, RunOnce(e) PROVE \E c \in Call : Step(c)
  BY <1>4, ExecAssumption DEF RunOnce
<1>5. ASSUME NEW e \in Exec, ReadTask(e) \/ WriteTask(e) \/ Finish(e) \/ Timeout(e)
      PROVE  UNCHANGED <<token, status, leaseOwner, attemptCount, attempts, receipt, drafts, call>>
  BY <1>5 DEF ReadTask, WriteTask, Finish, Timeout, runtime, vars, records
<1>6. ASSUME NEW k \in Key, \/ Enqueue(k) \/ TokenExpires(k) \/ \E w \in Worker : ClaimJob(w, k)
                            \/ \E ev \in Others : Intends(k, ev) \/ Carries(k, ev)
      PROVE  UNCHANGED <<token, status, leaseOwner, attemptCount, attempts, receipt, drafts, call>>
  BY <1>6 DEF Enqueue, ClaimJob, TokenExpires, Intends, Carries, runtime, vars, records
<1>7. CASE UNCHANGED ClosureVars \/ \E w \in Worker : StartDaemon(w)
  BY <1>7 DEF ClosureVars, StartDaemon, runtime, vars, records
<1>8. ASSUME NEW w \in Worker, ExitDaemon(w) PROVE Falls
  BY <1>8 DEF ExitDaemon, Falls, grant, records
<1> QED BY <1>1, <1>2, <1>3, <1>4, <1>5, <1>6, <1>7, <1>8 DEF ClosureNext, ExecStep

LEMMA OnceHolds == OnlyRunsWrite /\ ClosureSpec => []OnceInv
<1> SUFFICES ASSUME OnlyRunsWrite PROVE ClosureSpec => []OnceInv
  OBVIOUS
<1>1. ClosureInit => OnceInv
  <2> SUFFICES ASSUME ClosureInit PROVE OnceInv
    OBVIOUS
  <2>1. RunRows
    BY IdleIsNobody DEF ClosureInit, Init, RunRows, RowsOK
  <2> QED BY <2>1 DEF ClosureInit, Init, OnceInv, RetriesWriteOnce, OneDraft, Through
<1>2. OnceInv /\ ClosureInv /\ ClosureInv' /\ [ClosureNext]_ClosureVars => OnceInv'
  <2> SUFFICES ASSUME OnceInv, ClosureInv, RunRows', [ClosureNext]_ClosureVars PROVE OnceInv'
    BY DEF ClosureInv
  <2>1. CASE UNCHANGED <<token, status, leaseOwner, attemptCount, attempts, receipt, drafts, call>>
    <3>1. ASSUME NEW d \in Call, call[d] # Idle PROVE OnceOK(call[d])'
      <4>1. OnceOK(call[d])
        BY <3>1 DEF OnceInv
      <4> QED BY <2>1, <4>1 DEF OnceOK, AttemptTaken
    <3> QED BY <2>1, <3>1 DEF OnceInv, RetriesWriteOnce, OneDraft, AttemptTaken, Through
  <2>2. ASSUME NEW c \in Call, NEW n, Turns(c, n) PROVE OnceInv'
    BY <2>2, OnceTurn
  <2>3. ASSUME NEW c \in Call, Step(c) PROVE OnceInv'
    BY <2>3, OnceStep
  <2>4. CASE Falls
    <3>1. \A d \in Call : call'[d] = Idle \/ call'[d] = call[d]
      BY <2>4 DEF Falls
    <3>2. ASSUME NEW d \in Call, call'[d] # Idle PROVE OnceOK(call[d])'
      <4>1. call'[d] = call[d] /\ OnceOK(call[d])
        BY <3>1, <3>2 DEF OnceInv
      <4> QED BY <2>4, <4>1 DEF Falls, OnceOK, AttemptTaken
    <3>3. \A d \in Call : Through(call[d])' => Through(call[d]) /\ call'[d] = call[d]
      BY <3>1 DEF Through
    <3> QED BY <2>4, <3>2, <3>3 DEF Falls, OnceInv, RetriesWriteOnce, OneDraft, AttemptTaken
  <2> QED BY <2>1, <2>2, <2>3, <2>4, ClosureMoves
<1> QED BY <1>1, <1>2, ClosureHolds, PTL DEF ClosureSpec

\* However often the queue retries a job and however its executions overlap, the file is
\* written once (runRuntimeDispatchJobOnce), as long as nobody completes the job by the
\* route of its own: of all the runs that read the job queued, the attempt log lets one
\* through, and a claim, a start or a failure by an operator only stops it.
THEOREM RetriesWriteOnceHolds == OnlyRunsWrite /\ ClosureSpec => []RetriesWriteOnce
<1>1. OnceInv => RetriesWriteOnce
  BY DEF OnceInv
<1> QED BY <1>1, OnceHolds, PTL

-----------------------------------------------------------------------------
(* Why tokens move in order, and receipts are earned *)

\* The operations that write a file.
Writers == {"completeWrite", "runWrite"}

\* Whatever is read first, nothing but the write comes right after it.
WritesNext(s) == \A i \in 1 .. Len(s) - 1 : s[i] = "readReceipt" => s[i + 1] = "write"

LEMMA WritesJoin ==
  ASSUME NEW s, NEW t, NEW a, NEW b, NEW c, NEW d, Part(s, a, b), Part(t, c, d),
         WritesNext(s), WritesNext(t), b = "readReceipt" => c = "write"
  PROVE  WritesNext(s \o t)
<1> DEFINE u == s \o t
           m == Len(s)
           n == Len(t)
<1>1. /\ u \in Seq(Await) /\ Len(u) = m + n /\ m \in Nat /\ n \in Nat /\ m >= 1 /\ n >= 1
      /\ \A i \in 1 .. m + n : u[i] = IF i <= m THEN s[i] ELSE t[i - m]
  BY ConcatProperties, LenProperties DEF Part
<1> HIDE DEF u
<1>2. ASSUME NEW i \in 1 .. Len(u) - 1, u[i] = "readReceipt" PROVE u[i + 1] = "write"
  <2>1. CASE i < m
    <3>1. u[i] = s[i] /\ u[i + 1] = s[i + 1] /\ i \in 1 .. Len(s) - 1
      BY <1>1, <2>1
    <3> QED BY <1>2, <3>1 DEF WritesNext
  <2>2. CASE i = m
    <3>1. u[i] = s[m] /\ u[i + 1] = t[1]
      BY <1>1, <2>2
    <3>2. s[m] = b /\ t[1] = c
      BY DEF Part
    <3> QED BY <1>2, <3>1, <3>2
  <2>3. CASE i > m
    <3> DEFINE j == i - m
    <3>1. u[i] = t[j] /\ u[i + 1] = t[j + 1] /\ j \in 1 .. Len(t) - 1
      BY <1>1, <2>3
    <3> HIDE DEF j
    <3> QED BY <1>2, <3>1 DEF WritesNext
  <2> QED BY <1>1, <2>1, <2>2, <2>3
<1>3. WritesNext(u)
  BY <1>2 DEF WritesNext
<1> QED BY <1>3 DEF u

\* An issuance that has its token, and has not activated it yet.
Minted(d) == d.op = "issue" /\ d.todo \in Enqueuing \cup {<<"activate">>}

LEMMA TokenOperations ==
  ASSUME NEW op \in DOMAIN Program
  PROVE  /\ op = "issue" => Program[op] \in Minting
         /\ op # "issue" => Program[op] \in Seq(Await \ {"activate"})
         /\ op \in Writers => WritesNext(Program[op])
         /\ op \notin Writers => Program[op] \in Seq(Await \ {"receiptReal"})
<1> DEFINE Other == Await \ {"activate", "receiptReal"}
           Plain == Await \ {"activate"}
           Unreal == Await \ {"receiptReal"}
<1>1. /\ DOMAIN Program = {"issue", "postToken", "postJob", "claim", "claimById", "start", "fail", "block",
                           "completeDryRun", "completeWrite", "runDry", "runWrite"}
      /\ Program["issue"] = Issue
      /\ Program["postToken"] = <<"insertToken">> /\ Program["postJob"] = <<"checkFree", "insertJob">>
      /\ Program["claim"] = <<"readQueued", "lease", "attemptLeased">>
      /\ Program["claimById"] = ClaimById /\ Program["start"] = Start
      /\ Program["fail"] = <<"readHeld", "fail", "attemptFailed", "snapshot">>
      /\ Program["block"] = <<"readHeld", "block", "attemptBlocked", "snapshot">>
      /\ Program["completeDryRun"] = CompleteDryRun /\ Program["completeWrite"] = CompleteWrite
      /\ Program["runDry"] = (ClaimById \o Start) \o CompleteDryRun
      /\ Program["runWrite"] = (ClaimById \o Start) \o CompleteWrite
  BY DEF Program
<1>2. /\ <<"insertToken">> \in Seq(Other) /\ <<"checkFree", "insertJob">> \in Seq(Other)
      /\ <<"readQueued", "lease", "attemptLeased">> \in Seq(Other)
      /\ <<"readHeld", "fail", "attemptFailed", "snapshot">> \in Seq(Other)
      /\ <<"readHeld", "block", "attemptBlocked", "snapshot">> \in Seq(Other)
  BY DEF Await
<1>3. /\ ClaimById \in Seq(Other) /\ Start \in Seq(Other) /\ Completion \in Seq(Other)
      /\ Record("receiptDryRun") \in Seq(Other) /\ <<"recoverLatest">> \in Seq(Other)
  BY DEF ClaimById, Start, Completion, Record, Await
<1>4. /\ ClaimById \in Seq(Plain) /\ Start \in Seq(Plain) /\ Completion \in Seq(Plain)
      /\ Record("receiptReal") \in Seq(Plain) /\ <<"recoverUnknown">> \in Seq(Plain) /\ <<"write">> \in Seq(Plain)
  BY DEF ClaimById, Start, Completion, Record, Await
<1>5. Issue \in Seq(Unreal) /\ Issue \in Minting
  BY DEF Issue, Await, Minting
<1>6. \A s : s \in Seq(Other) => s \in Seq(Plain) /\ s \in Seq(Unreal)
  OBVIOUS
<1> HIDE DEF Other, Plain, Unreal
<1>7. \A S : \A s, t : s \in Seq(S) /\ t \in Seq(S) => s \o t \in Seq(S)
  BY ConcatProperties
<1>8. /\ CompleteDryRun \in Seq(Other) /\ (ClaimById \o Start) \in Seq(Other)
      /\ (ClaimById \o Start) \o CompleteDryRun \in Seq(Other)
  BY <1>3, <1>7 DEF CompleteDryRun
<1>9. /\ CompleteWrite \in Seq(Plain) /\ (ClaimById \o Start) \in Seq(Plain)
      /\ (ClaimById \o Start) \o CompleteWrite \in Seq(Plain)
  BY <1>4, <1>7 DEF CompleteWrite
<1>10. WritesNext(CompleteWrite) /\ WritesNext((ClaimById \o Start) \o CompleteWrite)
  <2>0. /\ <<"attemptLeased", "readLeased">> \in Follows /\ <<"attemptRunning", "readRunning">> \in Follows
        /\ <<"readReceipt", "write">> \in Follows /\ <<"write", "succeed">> \in Follows
        /\ <<"receiptReal", "recoverUnknown">> \in Follows
    BY DEF Follows
  <2>a. \A a, b : <<a, b>> \in Follows => a \in Await /\ b \in Await
    BY DEF Follows, Await
  <2>b. /\ <<"readQueued", "leaseById">> \in Follows /\ <<"leaseById", "attemptLeased">> \in Follows
        /\ <<"readLeased", "run">> \in Follows /\ <<"run", "attemptRunning">> \in Follows
        /\ <<"readRunning", "readToken">> \in Follows /\ <<"readToken", "readReceipt">> \in Follows
        /\ <<"succeed", "consume">> \in Follows /\ <<"consume", "receiptReal">> \in Follows
    BY DEF Follows
  <2>1. Part(ClaimById, "readQueued", "attemptLeased") /\ Part(Start, "readLeased", "attemptRunning")
    BY <2>a, <2>b, ThreeParts DEF ClaimById, Start
  <2>2. Part(Completion, "readRunning", "readReceipt") /\ Part(Record("receiptReal"), "succeed", "receiptReal")
    BY <2>a, <2>b, ThreeParts DEF Completion, Record
  <2>3. Part(<<"write">>, "write", "write") /\ Part(<<"recoverUnknown">>, "recoverUnknown", "recoverUnknown")
    BY OnePart DEF Await
  <2>4. WritesNext(<<"write">>) /\ WritesNext(<<"recoverUnknown">>)
    BY DEF WritesNext
  <2>5. ASSUME NEW a, NEW b, NEW c, a # "readReceipt", b # "readReceipt" PROVE WritesNext(<<a, b, c>>)
    <3>1. PICK s : s = <<a, b, c>>
      OBVIOUS
    <3>2. Len(s) = 3 /\ s[1] = a /\ s[2] = b
      BY <3>1
    <3>3. WritesNext(s)
      BY <2>5, <3>2 DEF WritesNext
    <3> QED BY <3>1, <3>3
  <2>6. WritesNext(ClaimById) /\ WritesNext(Start) /\ WritesNext(Completion) /\ WritesNext(Record("receiptReal"))
    BY <2>5 DEF ClaimById, Start, Completion, Record
  <2>7. Part(Completion \o <<"write">>, "readRunning", "write") /\ WritesNext(Completion \o <<"write">>)
    BY <2>0, <2>2, <2>3, <2>4, <2>6, PartsJoin, WritesJoin
  <2>8. /\ Part((Completion \o <<"write">>) \o Record("receiptReal"), "readRunning", "receiptReal")
        /\ WritesNext((Completion \o <<"write">>) \o Record("receiptReal"))
    BY <2>0, <2>2, <2>6, <2>7, PartsJoin, WritesJoin
  <2>9. Part(CompleteWrite, "readRunning", "recoverUnknown") /\ WritesNext(CompleteWrite)
    BY <2>0, <2>3, <2>4, <2>8, PartsJoin, WritesJoin DEF CompleteWrite
  <2>10. Part(ClaimById \o Start, "readQueued", "attemptRunning") /\ WritesNext(ClaimById \o Start)
    BY <2>0, <2>1, <2>6, PartsJoin, WritesJoin
  <2> QED BY <2>0, <2>9, <2>10, WritesJoin
<1>11. CASE op = "issue"
  BY <1>1, <1>5, <1>11 DEF Writers, Unreal
<1>12. CASE op \in Writers
  BY <1>1, <1>9, <1>10, <1>12 DEF Writers, Plain
<1>13. CASE op \notin Writers /\ op # "issue"
  <2>1. Program[op] \in Seq(Other)
    BY <1>1, <1>2, <1>3, <1>8, <1>13 DEF Writers
  <2> QED BY <1>6, <1>13, <2>1 DEF Plain, Unreal
<1> QED BY <1>11, <1>12, <1>13

\* What the step of call c does to its token, its receipt and its file.
Grants(c, step) ==
  LET k == call[c].key IN
  /\ step \notin {"insertToken", "activate", "consume"} => token'[k] = token[k]
  /\ step = "insertToken" => \/ token'[k] = token[k] /\ call'[c] = Idle
                             \/ token[k] = "absent" /\ token'[k] = "draft"
  /\ step = "activate" => token'[k] = "active"
  /\ step = "consume"  => token'[k] = "consumed"
  /\ step = "readToken" => token[k] = "active" \/ call'[c] = Idle
  /\ step \notin {"receiptDryRun", "receiptReal"} => receipt'[k] = receipt[k]
  /\ step = "receiptDryRun" => receipt'[k] \in {receipt[k], "dry_run"}
  /\ drafts[k] > 0 => drafts'[k] > 0
  /\ step = "write" => drafts'[k] > 0 \/ call'[c] = Idle

LEMMA StepGrantsToken ==
  ASSUME RunRows, NEW c \in Call, Step(c), NEW step, At(c, step)
  PROVE  Grants(c, step)
<1> PICK k : k = call[c].key
  OBVIOUS
<1>1. /\ k \in Key /\ \A x : At(c, x) => x = step
      /\ token \in [Key -> {"absent", "draft", "active", "consumed"}] /\ drafts \in [Key -> Nat]
      /\ receipt \in [Key -> {"none", "dry_run", "succeeded"}]
  BY InHand DEF At, RunRows, RowsOK
<1>2. Quit(c) => call'[c] = Idle
  BY DEF Quit, RunRows
<1>3. CASE ReadToken(c)
  <2>1. step = "readToken" /\ UNCHANGED <<token, receipt, drafts>> /\ (token[k] = "active" \/ Quit(c))
    BY <1>1, <1>3 DEF ReadToken, Check, Executable, grant, records
  <2> QED BY <1>2, <2>1 DEF Grants
<1>4. CASE CheckFree(c) \/ InsertJob(c) \/ ReadQueued(c) \/ ReadLeased(c) \/ ReadHeld(c) \/ ReadRunning(c) \/ ReadReceipt(c)
  <2>1. /\ step \in {"checkFree", "insertJob", "readQueued", "readLeased", "readHeld", "readRunning", "readReceipt"}
        /\ UNCHANGED <<token, receipt, drafts>>
    BY <1>1, <1>4 DEF CheckFree, InsertJob, ReadQueued, ReadLeased, ReadHeld, ReadRunning, ReadReceipt, Check, grant, records
  <2> QED BY <2>1 DEF Grants
<1>5. CASE Lease(c) \/ RunJob(c) \/ FailOrBlock(c) \/ Succeed(c) \/ Snapshot(c) \/ RecoveryPoint(c)
  <2>1. /\ step \in {"lease", "leaseById", "run", "fail", "block", "succeed", "snapshot", "recoverLatest", "recoverUnknown"}
        /\ UNCHANGED <<token, receipt, drafts>>
    BY <1>1, <1>5 DEF Lease, RunJob, FailOrBlock, Succeed, Snapshot, RecoveryPoint, grant, records
  <2> QED BY <2>1 DEF Grants
<1>6. CASE InsertAttempt(c)
  <2>1. step \in DOMAIN AttemptStatus /\ UNCHANGED <<token, receipt, drafts>>
    BY <1>1, <1>6 DEF InsertAttempt, grant
  <2>2. DOMAIN AttemptStatus = {"attemptLeased", "attemptRunning", "attemptFailed", "attemptBlocked"}
    BY DEF AttemptStatus
  <2> QED BY <2>1, <2>2 DEF Grants
<1>7. CASE InsertToken(c)
  <2>1. step = "insertToken" /\ UNCHANGED <<receipt, drafts>>
    BY <1>1, <1>7 DEF InsertToken, records
  <2>2. (token' = token /\ Quit(c)) \/ (token[k] = "absent" /\ token' = [token EXCEPT ![k] = "draft"])
    BY <1>7 DEF InsertToken, TokenFree
  <2> QED BY <1>1, <1>2, <2>1, <2>2 DEF Grants
<1>8. CASE Activate(c)
  <2>1. step = "activate" /\ token' = [token EXCEPT ![k] = "active"] /\ UNCHANGED <<receipt, drafts>>
    BY <1>1, <1>8 DEF Activate, records
  <2> QED BY <1>1, <2>1 DEF Grants
<1>9. CASE Consume(c)
  <2>1. step = "consume" /\ token' = [token EXCEPT ![k] = "consumed"] /\ UNCHANGED <<receipt, drafts>>
    BY <1>1, <1>9 DEF Consume, records
  <2> QED BY <1>1, <2>1 DEF Grants
<1>10. CASE WriteDraft(c)
  <2>1. /\ step = "write" /\ UNCHANGED <<token, receipt>>
        /\ drafts' = [drafts EXCEPT ![k] = IF @ < DraftBound THEN @ + 1 ELSE @]
    BY <1>1, <1>10 DEF WriteDraft, grant, records
  <2>2. drafts'[k] > 0
    <3>1. (IF drafts[k] < DraftBound THEN drafts[k] + 1 ELSE drafts[k]) > 0
      BY <1>1, DraftAssumption
    <3> QED BY <1>1, <2>1, <3>1
  <2> QED BY <2>1, <2>2 DEF Grants
<1>11. CASE ConnectorRefuses(c)
  <2>1. step = "write" /\ UNCHANGED <<token, receipt, drafts>> /\ Quit(c)
    BY <1>1, <1>11 DEF ConnectorRefuses, grant, records
  <2> QED BY <1>2, <2>1 DEF Grants
<1>12. CASE InsertReceipt(c)
  <2>1. step \in {"receiptDryRun", "receiptReal"} /\ UNCHANGED <<token, drafts>>
    BY <1>1, <1>12 DEF InsertReceipt, grant
  <2>2. step = "receiptDryRun" => UNCHANGED receipt \/ receipt' = [receipt EXCEPT ![k] = "dry_run"]
    <3>1. step = "receiptDryRun" => ~At(c, "receiptReal")
      BY <1>1
    <3> QED BY <1>12, <3>1 DEF InsertReceipt
  <2> QED BY <1>1, <2>1, <2>2 DEF Grants
<1> QED BY <1>3, <1>4, <1>5, <1>6, <1>7, <1>8, <1>9, <1>10, <1>11, <1>12 DEF Step

\* What a call in flight tells of its token: an issuance between its insert and its
\* activation has a draft, and whoever is past the check of the token has an active
\* or a spent one; whoever writes files and is past the write has a file.
TokenOK(d) ==
  LET a == Head(d.todo) IN
  /\ d.op = "issue"  => d.todo \in Minting \/ Minted(d)
  /\ d.op # "issue"  => d.todo \in Seq(Await \ {"activate"})
  /\ d.op \in Writers => WritesNext(d.todo)
  /\ d.op \notin Writers => d.todo \in Seq(Await \ {"receiptReal"})
  /\ Minted(d) => token[d.key] = "draft"
  /\ a \in {"readReceipt", "write", "succeed", "consume"} => token[d.key] \in {"active", "consumed"}
  /\ a \in {"receiptDryRun", "receiptReal"} => token[d.key] = "consumed"
  /\ d.op \in Writers /\ a \in {"succeed", "consume", "receiptReal"} => drafts[d.key] > 0

\* A draft token has at most one issuance that will activate it.
TokenInv ==
  /\ RunRows
  /\ ReceiptIsEarned
  /\ \A c \in Call : call[c] = Idle \/ TokenOK(call[c])
  /\ \A c, d \in Call : Minted(call[c]) /\ Minted(call[d]) /\ call[c].key = call[d].key => c = d

InOrder(k) ==
  token'[k] # token[k] => <<token[k], token'[k]>> \in {<<"absent", "draft">>, <<"draft", "active">>,
                                                      <<"active", "consumed">>}

LEMMA WhatComesBefore ==
  ASSUME NEW x, NEW a, <<x, a>> \in Follows
  PROVE  /\ a = "readReceipt" => x = "readToken"
         /\ a = "write" => x = "readReceipt"
         /\ a = "succeed" => x \in {"readReceipt", "write"}
         /\ a = "consume" => x = "succeed"
         /\ a \in {"receiptDryRun", "receiptReal"} => x = "consume"
BY DEF Follows

\* Only an issuance that has its token activates it, and nothing an issuance does
\* comes after a check of the token.
LEMMA IssuanceSteps ==
  ASSUME NEW s, s \in Minting \cup Enqueuing \cup {<<"activate">>}
  PROVE  /\ Head(s) \in {"checkFree", "insertToken", "insertJob", "activate"}
         /\ Head(s) = "activate" => s = <<"activate">>
         /\ s \in Minting /\ Head(s) # "insertToken" => Tail(s) \in Minting
         /\ s \in Minting /\ Head(s) = "insertToken" => Tail(s) \in Enqueuing
         /\ s \in Enqueuing => Tail(s) \in Enqueuing \cup {<<"activate">>} /\ Head(s) # "insertToken"
         /\ s = <<"activate">> => Tail(s) = <<>>
         /\ s \in Minting => s \notin Enqueuing \cup {<<"activate">>}
<1> DEFINE s5 == <<"checkFree", "insertToken", "checkFree", "insertJob", "activate">>
           s4 == <<"insertToken", "checkFree", "insertJob", "activate">>
           s3 == <<"checkFree", "insertJob", "activate">>
           s2 == <<"insertJob", "activate">>
           s1 == <<"activate">>
<1>1. Minting = {s5, s4} /\ Enqueuing = {s3, s2}
  BY DEF Minting, Enqueuing, Issue
<1>2. Tail(s5) = s4 /\ Tail(s4) = s3 /\ Tail(s3) = s2 /\ Tail(s2) = s1 /\ Tail(s1) = <<>>
  OBVIOUS
<1>3. /\ Head(s5) = "checkFree" /\ Head(s4) = "insertToken" /\ Head(s3) = "checkFree"
      /\ Head(s2) = "insertJob" /\ Head(s1) = "activate"
  OBVIOUS
<1>4. Len(s5) = 5 /\ Len(s4) = 4 /\ Len(s3) = 3 /\ Len(s2) = 2 /\ Len(s1) = 1
  OBVIOUS
<1>5. s1 = <<"activate">>
  OBVIOUS
<1> HIDE DEF s1, s2, s3, s4, s5
<1>6. s \in {s5, s4, s3, s2, s1}
  BY <1>1, <1>5
<1> QED BY <1>1, <1>2, <1>3, <1>4, <1>5, <1>6

LEMMA TokenStep ==
  ASSUME TokenInv, RunRows', NEW c \in Call, Step(c)
  PROVE  TokenInv' /\ \A l \in Key : InOrder(l)
<1>1. PICK step, m, n : n \in RunRecord /\ Effects(c, step, m, n)
  BY StepEffects DEF StepDone, TokenInv
<1> PICK k, s : k = call[c].key /\ s = call[c].todo
  OBVIOUS
<1>2. /\ At(c, step) /\ k \in Key /\ call[c] # Idle /\ s # <<>> /\ Head(s) = step /\ s \in Seq(Await)
      /\ call'[c] = n /\ \A d \in Call \ {c} : call'[d] = call[d]
      /\ \A l \in Key \ {k} : UNCHANGED <<token[l], receipt[l], drafts[l]>>
      /\ token \in [Key -> {"absent", "draft", "active", "consumed"}] /\ receipt[k] \in {"none", "dry_run", "succeeded"}
  BY <1>1, InHand DEF Effects, TokenInv, RunRows, RowsOK, RunRecord
<1>3. Grants(c, step) /\ TokenOK(call[c])
  BY <1>2, StepGrantsToken DEF TokenInv
<1>4. step = "activate" => Minted(call[c]) /\ token[k] = "draft"
  <2> SUFFICES ASSUME step = "activate" PROVE Minted(call[c]) /\ token[k] = "draft"
    OBVIOUS
  <2>1. call[c].op = "issue"
    BY <1>2, <1>3, HeadTailProperties DEF TokenOK
  <2>2. Minted(call[c])
    BY <1>2, <1>3, <2>1, IssuanceSteps DEF TokenOK, Minted
  <2> QED BY <1>3, <2>2 DEF TokenOK
<1>5. step = "consume" => token[k] \in {"active", "consumed"}
  BY <1>2, <1>3 DEF TokenOK
<1>6. InOrder(k) /\ \A l \in Key : InOrder(l)
  BY <1>2, <1>3, <1>4, <1>5 DEF Grants, InOrder
<1>7. ReceiptIsEarned'
  <2>1. receipt'[k] # "none" => token'[k] = "consumed"
    <3>1. receipt[k] # "none" => token'[k] = "consumed"
      BY <1>2, <1>6 DEF TokenInv, ReceiptIsEarned, InOrder
    <3>2. step \in {"receiptDryRun", "receiptReal"} => token'[k] = "consumed"
      BY <1>2, <1>3 DEF TokenOK, Grants
    <3> QED BY <1>3, <3>1, <3>2 DEF Grants
  <2>2. receipt'[k] = "succeeded" => drafts'[k] > 0
    <3>1. step = "receiptReal" => call[c].op \in Writers
      BY <1>2, <1>3, HeadTailProperties DEF TokenOK
    <3> QED BY <1>2, <1>3, <3>1 DEF TokenInv, ReceiptIsEarned, TokenOK, Grants
  <2> QED BY <1>2, <2>1, <2>2 DEF TokenInv, ReceiptIsEarned
<1>8. ASSUME n # Idle
      PROVE  TokenOK(n)' /\ n.key = k /\ (Minted(n) /\ ~Minted(call[c]) => token[k] = "absent")
  <2>1. /\ n.key = k /\ n.op = call[c].op /\ <<step, Head(n.todo)>> \in Follows /\ n.todo = Tail(s) /\ n.todo # <<>>
    BY <1>1, <1>8 DEF Effects, After, InProgress
  <2> PICK a : a = Head(n.todo)
    OBVIOUS
  <2>2. (n.op = "issue" => n.todo \in Minting \/ Minted(n)) /\ (Minted(n) => token'[k] = "draft")
        /\ (Minted(n) /\ ~Minted(call[c]) => token[k] = "absent")
    <3> SUFFICES ASSUME n.op = "issue"
                 PROVE  /\ n.todo \in Minting \/ Minted(n)
                        /\ Minted(n) => token'[k] = "draft"
                        /\ Minted(n) /\ ~Minted(call[c]) => token[k] = "absent"
      BY DEF Minted
    <3>1. CASE s \in Minting
      <4>1. CASE step = "insertToken"
        <5>1. token[k] = "absent" /\ token'[k] = "draft"
          BY <1>2, <1>3, <1>8, <4>1 DEF Grants
        <5> QED BY <1>2, <2>1, <3>1, <4>1, <5>1, IssuanceSteps DEF Minted
      <4>2. CASE step # "insertToken"
        <5>1. n.todo \in Minting
          BY <1>2, <2>1, <3>1, <4>2, IssuanceSteps
        <5>2. ~Minted(n)
          BY <5>1, IssuanceSteps DEF Minted
        <5> QED BY <5>1, <5>2
      <4> QED BY <4>1, <4>2
    <3>2. CASE s \in Enqueuing \cup {<<"activate">>}
      <4>1. Minted(call[c]) /\ token[k] = "draft"
        BY <1>3, <2>1, <3>2 DEF Minted, TokenOK
      <4>2. s # <<"activate">>
        BY <2>1, IssuanceSteps
      <4>3. step # "activate" /\ step # "insertToken" /\ step # "consume"
        BY <1>2, <3>2, <4>2, IssuanceSteps
      <4>4. token'[k] = token[k]
        BY <1>3, <4>3 DEF Grants
      <4> QED BY <2>1, <3>2, <4>1, <4>2, <4>4, IssuanceSteps DEF Minted
    <3> QED BY <1>3, <2>1, <3>1, <3>2 DEF TokenOK, Minted
  <2>3. n.op # "issue" => n.todo \in Seq(Await \ {"activate"})
    BY <1>2, <1>3, <2>1, HeadTailProperties DEF TokenOK
  <2>4. n.op \notin Writers => n.todo \in Seq(Await \ {"receiptReal"})
    BY <1>2, <1>3, <2>1, HeadTailProperties DEF TokenOK
  <2>5. n.op \in Writers => WritesNext(n.todo) /\ (step = "readReceipt" => a = "write")
    <3> SUFFICES ASSUME n.op \in Writers PROVE WritesNext(n.todo) /\ (step = "readReceipt" => a = "write")
      OBVIOUS
    <3>1. PICK t : t = n.todo
      OBVIOUS
    <3>2. /\ Len(s) \in Nat /\ Len(t) = Len(s) - 1 /\ t \in Seq(Await) /\ s[1] = step
          /\ \A i \in 1 .. Len(t) : t[i] = s[i + 1]
      BY <1>2, <2>1, <3>1, HeadTailProperties, LenProperties
    <3>3. Len(t) >= 1 /\ Head(t) = t[1]
      BY <2>1, <3>1, <3>2, EmptySeq, LenProperties
    <3>4. WritesNext(s)
      BY <1>3, <2>1 DEF TokenOK
    <3>5. ASSUME NEW i \in 1 .. Len(t) - 1, t[i] = "readReceipt" PROVE t[i + 1] = "write"
      <4>1. t[i] = s[i + 1] /\ t[i + 1] = s[(i + 1) + 1] /\ i + 1 \in 1 .. Len(s) - 1
        BY <3>2
      <4> QED BY <3>4, <3>5, <4>1 DEF WritesNext
    <3>6. step = "readReceipt" => t[1] = "write"
      <4>1. 1 \in 1 .. Len(s) - 1 /\ t[1] = s[1 + 1]
        BY <3>2, <3>3
      <4> QED BY <3>2, <3>4, <4>1 DEF WritesNext
    <3> QED BY <3>1, <3>3, <3>5, <3>6 DEF WritesNext
  <2>6. a \in {"readReceipt", "write", "succeed", "consume"} => token'[k] \in {"active", "consumed"}
    BY <1>2, <1>3, <1>8, <2>1, WhatComesBefore DEF TokenOK, Grants
  <2>7. a \in {"receiptDryRun", "receiptReal"} => token'[k] = "consumed"
    BY <1>3, <2>1, WhatComesBefore DEF Grants
  <2>8. n.op \in Writers /\ a \in {"succeed", "consume", "receiptReal"} => drafts'[k] > 0
    BY <1>2, <1>3, <1>8, <2>1, <2>5, WhatComesBefore DEF TokenOK, Grants
  <2>9. TokenOK(n)'
    BY <2>1, <2>2, <2>3, <2>4, <2>5, <2>6, <2>7, <2>8 DEF TokenOK, Minted
  <2> QED BY <2>1, <2>2, <2>9
<1>9. ASSUME NEW d \in Call \ {c}, call[d] # Idle PROVE TokenOK(call[d])'
  <2> PICK e, l : e = call[d] /\ l = e.key
    OBVIOUS
  <2>1. TokenOK(e) /\ call'[d] = e /\ l \in Key
    BY <1>2, <1>9 DEF TokenInv, RunRows, InProgress
  <2>2. InOrder(l) /\ (drafts[l] > 0 => drafts'[l] > 0)
    BY <1>2, <1>3, <1>6, <2>1 DEF Grants
  <2>3. token[l] \in {"active", "consumed"} => token'[l] \in {"active", "consumed"}
    BY <2>2 DEF InOrder
  <2>4. token[l] = "consumed" => token'[l] = "consumed"
    BY <2>2 DEF InOrder
  <2>5. Minted(e) => token'[l] = token[l]
    <3> SUFFICES ASSUME Minted(e), l = k PROVE token'[l] = token[l]
      BY <1>2, <2>1
    <3>1. token[k] = "draft"
      BY <2>1 DEF TokenOK
    <3>2. step # "activate"
      BY <1>2, <1>4, <1>9 DEF TokenInv
    <3>3. step # "consume"
      BY <1>5, <3>1
    <3>4. step = "insertToken" => token'[k] = token[k]
      BY <1>3, <3>1 DEF Grants
    <3> QED BY <1>3, <3>2, <3>3, <3>4 DEF Grants
  <2>6. TokenOK(e)'
    BY <2>1, <2>2, <2>3, <2>4, <2>5 DEF TokenOK, Minted
  <2> QED BY <2>1, <2>6
<1>10. ASSUME NEW d \in Call PROVE (call[d] = Idle)' \/ TokenOK(call[d])'
  <2>1. CASE d = c
    BY <1>2, <1>8, <2>1 DEF TokenOK, Minted
  <2>2. CASE d # c
    BY <1>2, <1>9, <2>2
  <2> QED BY <2>1, <2>2
<1>11. ASSUME NEW d \in Call \ {c}, Minted(n), Minted(call[d]), n.key = call[d].key PROVE FALSE
  <2>1. n # Idle /\ call[d] # Idle
    BY <1>11 DEF Minted, Idle
  <2>2. TokenOK(call[d]) /\ n.key = k /\ (Minted(call[c]) \/ token[k] = "absent")
    BY <1>8, <1>11, <2>1 DEF TokenInv
  <2>3. token[k] = "draft"
    BY <1>11, <2>2 DEF TokenOK
  <2> QED BY <1>11, <2>2, <2>3 DEF TokenInv
<1>12. ASSUME NEW d \in Call, NEW e \in Call, Minted(call'[d]), Minted(call'[e]), call'[d].key = call'[e].key
       PROVE  d = e
  <2>1. CASE d = c /\ e # c
    BY <1>2, <1>11, <1>12, <2>1
  <2>2. CASE e = c /\ d # c
    BY <1>2, <1>11, <1>12, <2>2
  <2>3. CASE d # c /\ e # c
    BY <1>2, <1>12, <2>3 DEF TokenInv
  <2> QED BY <2>1, <2>2, <2>3
<1>13. ASSUME NEW d \in Call, NEW e \in Call, Minted(call[d])', Minted(call[e])', (call[d].key = call[e].key)'
       PROVE  d = e
  BY <1>12, <1>13 DEF Minted
<1> QED BY <1>6, <1>7, <1>10, <1>13 DEF TokenInv

LEMMA TokenTurn ==
  ASSUME TokenInv, RunRows', NEW c \in Call, NEW n, Turns(c, n)
  PROVE  TokenInv' /\ \A l \in Key : InOrder(l)
<1>1. /\ UNCHANGED <<token, receipt, drafts>>
      /\ call'[c] = n /\ \A d \in Call \ {c} : call'[d] = call[d]
  BY DEF Turns, TokenInv, RunRows
<1>2. (TokenOK(n)' /\ ~Minted(n)) \/ n = Idle
  <2> SUFFICES ASSUME n # Idle PROVE TokenOK(n)' /\ ~Minted(n)
    OBVIOUS
  <2>1. Head(n.todo) \in Firsts /\ n.todo = Program[n.op] /\ n.op \in DOMAIN Program
    BY Started, OpAssumption, ModeAssumption DEF Turns, Program
  <2>2. /\ n.op = "issue" => n.todo \in Minting
        /\ n.op # "issue" => n.todo \in Seq(Await \ {"activate"})
        /\ n.op \in Writers => WritesNext(n.todo)
        /\ n.op \notin Writers => n.todo \in Seq(Await \ {"receiptReal"})
    BY <2>1, TokenOperations
  <2>3. ~Minted(n)
    BY <2>2, IssuanceSteps DEF Minted
  <2> QED BY <2>1, <2>2, <2>3 DEF TokenOK, Minted, Firsts
<1>3. ~Minted(Idle)
  BY DEF Minted, Idle
<1>4. ASSUME NEW d \in Call, call'[d] # Idle PROVE TokenOK(call[d])'
  <2>1. CASE d = c
    BY <1>1, <1>2, <1>4, <2>1 DEF TokenOK, Minted
  <2>2. CASE d # c
    <3>1. call'[d] = call[d] /\ TokenOK(call[d])
      BY <1>1, <1>4, <2>2 DEF TokenInv
    <3> QED BY <1>1, <3>1 DEF TokenOK, Minted
  <2> QED BY <2>1, <2>2
<1>5. ASSUME NEW d \in Call, NEW e \in Call, Minted(call[d])', Minted(call[e])', (call[d].key = call[e].key)'
      PROVE  d = e
  <2>1. d # c /\ e # c
    BY <1>1, <1>2, <1>3, <1>5 DEF Minted
  <2> QED BY <1>1, <1>5, <2>1 DEF TokenInv, Minted
<1>6. \A d \in Call : (call[d] = Idle)' \/ TokenOK(call[d])'
  BY <1>4
<1> QED BY <1>1, <1>5, <1>6 DEF TokenInv, ReceiptIsEarned, InOrder

LEMMA TokenNext ==
  ASSUME TokenInv, ClosureInv, RunRows', [ClosureNext]_ClosureVars
  PROVE  TokenInv' /\ \A l \in Key : InOrder(l)
<1>1. ASSUME UNCHANGED <<token, receipt, drafts>>, \A d \in Call : call'[d] = Idle \/ call'[d] = call[d]
      PROVE  TokenInv' /\ \A l \in Key : InOrder(l)
  <2>1. ASSUME NEW d \in Call, call'[d] # Idle PROVE TokenOK(call[d])'
    <3>1. call'[d] = call[d] /\ TokenOK(call[d])
      BY <1>1, <2>1 DEF TokenInv
    <3> QED BY <1>1, <3>1 DEF TokenOK, Minted
  <2>2. \A d \in Call : Minted(call[d])' => Minted(call[d]) /\ call'[d] = call[d]
    BY <1>1 DEF Minted, Idle
  <2> QED BY <1>1, <2>1, <2>2 DEF TokenInv, ReceiptIsEarned, InOrder
<1>2. CASE UNCHANGED <<token, status, leaseOwner, attemptCount, attempts, receipt, drafts, call>>
  BY <1>1, <1>2
<1>3. CASE Falls
  BY <1>1, <1>3 DEF Falls
<1> QED BY <1>2, <1>3, ClosureMoves, TokenTurn, TokenStep

LEMMA TokenHolds == ClosureSpec => []TokenInv
<1>1. ClosureInit => TokenInv
  <2> SUFFICES ASSUME ClosureInit PROVE TokenInv
    OBVIOUS
  <2>1. RunRows
    BY IdleIsNobody DEF ClosureInit, Init, RunRows, RowsOK
  <2>2. ~Minted(Idle)
    BY DEF Minted, Idle
  <2> QED BY <2>1, <2>2 DEF ClosureInit, Init, TokenInv, ReceiptIsEarned
<1>2. TokenInv /\ ClosureInv /\ ClosureInv' /\ [ClosureNext]_ClosureVars => TokenInv'
  BY TokenNext DEF ClosureInv
<1> QED BY <1>1, <1>2, ClosureHolds, PTL DEF ClosureSpec

\* A token moves from draft to active to consumed and never back, although activation
\* (issuance.ts) and consumption (repository.ts) write it by id, issuances and
\* completions overlap, and any of them is cut off at any await: an issuance activates
\* only the draft it inserted, and a completion spends only what it found active.
THEOREM TokenOrderHolds == ClosureSpec => TokenOrder
<1>1. TokenInv /\ ClosureInv /\ ClosureInv' /\ [ClosureNext]_ClosureVars => [\A k \in Key : InOrder(k)]_vars
  BY TokenNext DEF ClosureInv
<1>2. [\A k \in Key : InOrder(k)]_vars
        => [\A k \in Key : token'[k] # token[k] =>
              <<token[k], token'[k]>> \in {<<"absent", "draft">>, <<"draft", "active">>, <<"active", "consumed">>}]_vars
  BY DEF InOrder
<1> QED BY <1>1, <1>2, ClosureHolds, TokenHolds, PTL DEF ClosureSpec, TokenOrder

\* A receipt is written only after the token was spent, and one of a real execution
\* only after its file was written (completeRuntimeDispatchJob*), whatever overlaps with
\* the completion and wherever it is cut off.
THEOREM ReceiptIsEarnedHolds == ClosureSpec => []ReceiptIsEarned
<1>1. TokenInv => ReceiptIsEarned
  BY DEF TokenInv
<1> QED BY <1>1, TokenHolds, PTL
=============================================================================
