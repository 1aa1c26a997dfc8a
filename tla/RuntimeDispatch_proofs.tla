----------------------- MODULE RuntimeDispatch_proofs -----------------------
(***************************************************************************)
(* Proofs about RuntimeDispatch for callers that take turns on a job, with  *)
(* any number of plans, workers and calls, and calls cut off anywhere.  No  *)
(* write of an operation looks at what it overwrites.  What makes it right  *)
(* is where it stands in its operation: whatever the operation, the next    *)
(* await of a call tells what its earlier awaits have read or written.      *)
(***************************************************************************)
EXTENDS RuntimeDispatch, SequenceTheorems, TLAPS

-----------------------------------------------------------------------------
(* The order of the awaits *)

Await == {"checkFree", "insertToken", "insertJob", "activate", "readQueued", "lease", "leaseById", "attemptLeased",
          "readLeased", "run", "attemptRunning", "readHeld", "fail", "block", "attemptFailed", "attemptBlocked",
          "snapshot", "readRunning", "readToken", "readReceipt", "write", "succeed", "consume",
          "receiptDryRun", "receiptReal", "recoverLatest", "recoverUnknown"}

\* Which await may come right after which, in any operation.
Follows ==
  { <<"checkFree", "insertToken">>, <<"checkFree", "insertJob">>, <<"insertToken", "checkFree">>,
    <<"insertJob", "activate">>,
    <<"readQueued", "lease">>, <<"readQueued", "leaseById">>,
    <<"lease", "attemptLeased">>, <<"leaseById", "attemptLeased">>, <<"attemptLeased", "readLeased">>,
    <<"readLeased", "run">>, <<"run", "attemptRunning">>, <<"attemptRunning", "readRunning">>,
    <<"readHeld", "fail">>, <<"readHeld", "block">>,
    <<"fail", "attemptFailed">>, <<"block", "attemptBlocked">>,
    <<"attemptFailed", "snapshot">>, <<"attemptBlocked", "snapshot">>,
    <<"readRunning", "readToken">>, <<"readToken", "readReceipt">>,
    <<"readReceipt", "write">>, <<"readReceipt", "succeed">>, <<"write", "succeed">>,
    <<"succeed", "consume">>, <<"consume", "receiptDryRun">>, <<"consume", "receiptReal">>,
    <<"receiptDryRun", "recoverLatest">>, <<"receiptReal", "recoverUnknown">> }

Firsts == {"checkFree", "insertToken", "readQueued", "readLeased", "readHeld", "readRunning"}
Lasts  == {"insertToken", "insertJob", "activate", "attemptLeased", "attemptRunning", "snapshot",
           "recoverLatest", "recoverUnknown"}

Chained(s) == \A i \in 1 .. Len(s) - 1 : <<s[i], s[i + 1]>> \in Follows

\* A part of an operation, with its first and its last await.
Part(s, first, last) ==
  /\ s \in Seq(Await) /\ Len(s) >= 1 /\ Chained(s)
  /\ s[1] = first /\ s[Len(s)] = last

LEMMA PartsJoin ==
  ASSUME NEW s, NEW t, NEW a, NEW b, NEW c, NEW d,
         Part(s, a, b), Part(t, c, d), <<b, c>> \in Follows
  PROVE  Part(s \o t, a, d)
<1> DEFINE u == s \o t
           m == Len(s)
           n == Len(t)
<1>1. /\ u \in Seq(Await) /\ Len(u) = m + n /\ m \in Nat /\ n \in Nat /\ m >= 1 /\ n >= 1
      /\ \A i \in 1 .. m + n : u[i] = IF i <= m THEN s[i] ELSE t[i - m]
  BY ConcatProperties, LenProperties DEF Part
<1> HIDE DEF u
<1>2. u[1] = a /\ u[Len(u)] = d
  BY <1>1 DEF Part
<1>3. ASSUME NEW i \in 1 .. Len(u) - 1 PROVE <<u[i], u[i + 1]>> \in Follows
  <2>1. CASE i < m
    <3>1. u[i] = s[i] /\ u[i + 1] = s[i + 1] /\ i \in 1 .. Len(s) - 1
      BY <1>1, <2>1
    <3> QED BY <3>1 DEF Part, Chained
  <2>2. CASE i = m
    <3>1. u[i] = s[m] /\ u[i + 1] = t[1]
      BY <1>1, <2>2
    <3>2. s[m] = b /\ t[1] = c
      BY DEF Part
    <3> QED BY <3>1, <3>2
  <2>3. CASE i > m
    <3> DEFINE j == i - m
    <3>1. u[i] = t[j] /\ u[i + 1] = t[j + 1] /\ j \in 1 .. Len(t) - 1
      BY <1>1, <2>3
    <3> HIDE DEF j
    <3> QED BY <3>1 DEF Part, Chained
  <2> QED BY <1>1, <2>1, <2>2, <2>3
<1>4. Part(u, a, d)
  BY <1>1, <1>2, <1>3 DEF Part, Chained
<1> QED BY <1>4 DEF u

LEMMA OnePart == ASSUME NEW a \in Await PROVE Part(<<a>>, a, a)
BY DEF Part, Chained

LEMMA TwoParts ==
  ASSUME NEW a \in Await, NEW b \in Await, <<a, b>> \in Follows
  PROVE  Part(<<a, b>>, a, b)
<1> DEFINE s == <<a, b>>
<1>1. s \in Seq(Await) /\ Len(s) = 2 /\ s[1] = a /\ s[2] = b
  OBVIOUS
<1> HIDE DEF s
<1>2. ASSUME NEW i \in 1 .. Len(s) - 1 PROVE <<s[i], s[i + 1]>> \in Follows
  <2>1. i = 1
    BY <1>1
  <2> QED BY <1>1, <2>1
<1>3. Part(s, a, b)
  BY <1>1, <1>2 DEF Part, Chained
<1> QED BY <1>3 DEF s

LEMMA ThreeParts ==
  ASSUME NEW a \in Await, NEW b \in Await, NEW c \in Await, <<a, b>> \in Follows, <<b, c>> \in Follows
  PROVE  Part(<<a, b, c>>, a, c)
<1> DEFINE s == <<a, b, c>>
<1>1. s \in Seq(Await) /\ Len(s) = 3 /\ s[1] = a /\ s[2] = b /\ s[3] = c
  OBVIOUS
<1> HIDE DEF s
<1>2. ASSUME NEW i \in 1 .. Len(s) - 1 PROVE <<s[i], s[i + 1]>> \in Follows
  <2>1. i = 1 \/ i = 2
    BY <1>1
  <2>2. 1 + 1 = 2 /\ 2 + 1 = 3
    OBVIOUS
  <2> QED BY <1>1, <2>1, <2>2
<1>3. Part(s, a, c)
  BY <1>1, <1>2 DEF Part, Chained
<1> QED BY <1>3 DEF s

LEMMA OperationsChained ==
  ASSUME NEW op \in DOMAIN Program
  PROVE  /\ Program[op] \in Seq(Await) /\ Program[op] # <<>> /\ Chained(Program[op]) /\ Head(Program[op]) \in Firsts
         /\ Program[op][Len(Program[op])] \in Lasts
<1>a. \A a, b : <<a, b>> \in Follows => a \in Await /\ b \in Await
  BY DEF Follows, Await
<1>0. /\ <<"checkFree", "insertToken">> \in Follows /\ <<"checkFree", "insertJob">> \in Follows
      /\ <<"insertToken", "checkFree">> \in Follows /\ <<"insertJob", "activate">> \in Follows
      /\ <<"readQueued", "lease">> \in Follows /\ <<"readQueued", "leaseById">> \in Follows
      /\ <<"lease", "attemptLeased">> \in Follows /\ <<"leaseById", "attemptLeased">> \in Follows
      /\ <<"attemptLeased", "readLeased">> \in Follows /\ <<"readLeased", "run">> \in Follows
      /\ <<"run", "attemptRunning">> \in Follows /\ <<"attemptRunning", "readRunning">> \in Follows
      /\ <<"readHeld", "fail">> \in Follows /\ <<"readHeld", "block">> \in Follows
      /\ <<"fail", "attemptFailed">> \in Follows /\ <<"block", "attemptBlocked">> \in Follows
      /\ <<"attemptFailed", "snapshot">> \in Follows /\ <<"attemptBlocked", "snapshot">> \in Follows
      /\ <<"readRunning", "readToken">> \in Follows /\ <<"readToken", "readReceipt">> \in Follows
      /\ <<"readReceipt", "write">> \in Follows /\ <<"readReceipt", "succeed">> \in Follows
      /\ <<"write", "succeed">> \in Follows /\ <<"succeed", "consume">> \in Follows
      /\ <<"consume", "receiptDryRun">> \in Follows /\ <<"consume", "receiptReal">> \in Follows
      /\ <<"receiptDryRun", "recoverLatest">> \in Follows /\ <<"receiptReal", "recoverUnknown">> \in Follows
  BY DEF Follows
<1> DEFINE Good(s) == \E a \in Firsts, b \in Lasts : Part(s, a, b)
<1>1. Part(ClaimById, "readQueued", "attemptLeased") /\ Part(Start, "readLeased", "attemptRunning")
  BY <1>0, <1>a, ThreeParts DEF ClaimById, Start
<1>2. Part(Completion, "readRunning", "readReceipt")
  BY <1>0, <1>a, ThreeParts DEF Completion
<1>3. Part(Record("receiptDryRun"), "succeed", "receiptDryRun") /\ Part(Record("receiptReal"), "succeed", "receiptReal")
  BY <1>0, <1>a, ThreeParts DEF Record
<1>4. Part(CompleteDryRun, "readRunning", "recoverLatest")
  <2>1. Part(Completion \o Record("receiptDryRun"), "readRunning", "receiptDryRun")
    BY <1>0, <1>2, <1>3, PartsJoin
  <2>2. Part(<<"recoverLatest">>, "recoverLatest", "recoverLatest")
    BY <1>0, <1>a, OnePart
  <2> QED BY <1>0, <2>1, <2>2, PartsJoin DEF CompleteDryRun
<1>5. Part(CompleteWrite, "readRunning", "recoverUnknown")
  <2>1. Part(<<"write">>, "write", "write") /\ Part(<<"recoverUnknown">>, "recoverUnknown", "recoverUnknown")
    BY <1>0, <1>a, OnePart
  <2>2. Part(Completion \o <<"write">>, "readRunning", "write")
    BY <1>0, <1>2, <2>1, PartsJoin
  <2>3. Part((Completion \o <<"write">>) \o Record("receiptReal"), "readRunning", "receiptReal")
    BY <1>0, <1>3, <2>2, PartsJoin
  <2> QED BY <1>0, <2>1, <2>3, PartsJoin DEF CompleteWrite
<1>6. Part(ClaimById \o Start, "readQueued", "attemptRunning")
  BY <1>0, <1>1, PartsJoin
<1>8. Part((ClaimById \o Start) \o CompleteDryRun, "readQueued", "recoverLatest")
  BY <1>0, <1>4, <1>6, PartsJoin
<1>9. Part((ClaimById \o Start) \o CompleteWrite, "readQueued", "recoverUnknown")
  BY <1>0, <1>5, <1>6, PartsJoin
<1>10. Part(Issue, "checkFree", "activate")
  <2>1. Part(<<"checkFree", "insertToken", "checkFree">>, "checkFree", "checkFree") /\ Part(<<"insertJob", "activate">>, "insertJob", "activate")
    BY <1>0, <1>a, TwoParts, ThreeParts
  <2>2. Issue = <<"checkFree", "insertToken", "checkFree">> \o <<"insertJob", "activate">>
    BY DEF Issue
  <2> QED BY <1>0, <2>1, <2>2, PartsJoin
<1>11. /\ Part(<<"insertToken">>, "insertToken", "insertToken") /\ Part(<<"checkFree", "insertJob">>, "checkFree", "insertJob")
       /\ Part(<<"readQueued", "lease", "attemptLeased">>, "readQueued", "attemptLeased")
  BY <1>0, <1>a, OnePart, TwoParts, ThreeParts
<1>12. ASSUME NEW a \in Await, NEW b \in Await, <<"readHeld", a>> \in Follows, <<a, b>> \in Follows, <<b, "snapshot">> \in Follows
       PROVE  Part(<<"readHeld", a, b, "snapshot">>, "readHeld", "snapshot")
  <2>1. Part(<<"readHeld", a>>, "readHeld", a) /\ Part(<<b, "snapshot">>, b, "snapshot")
    BY <1>a, <1>12, TwoParts
  <2>2. <<"readHeld", a, b, "snapshot">> = <<"readHeld", a>> \o <<b, "snapshot">>
    OBVIOUS
  <2> QED BY <1>12, <2>1, <2>2, PartsJoin
<1>13. Good(Program[op])
  <2>2. /\ DOMAIN Program = {"issue", "postToken", "postJob", "claim", "claimById", "start", "fail", "block",
                             "completeDryRun", "completeWrite", "runDry", "runWrite"}
        /\ Program["issue"] = Issue /\ Program["postToken"] = <<"insertToken">>
        /\ Program["postJob"] = <<"checkFree", "insertJob">> /\ Program["claim"] = <<"readQueued", "lease", "attemptLeased">>
        /\ Program["claimById"] = ClaimById /\ Program["start"] = Start
        /\ Program["fail"] = <<"readHeld", "fail", "attemptFailed", "snapshot">>
        /\ Program["block"] = <<"readHeld", "block", "attemptBlocked", "snapshot">>
        /\ Program["completeDryRun"] = CompleteDryRun /\ Program["completeWrite"] = CompleteWrite
        /\ Program["runDry"] = (ClaimById \o Start) \o CompleteDryRun
        /\ Program["runWrite"] = (ClaimById \o Start) \o CompleteWrite
    BY DEF Program
  <2>3. ASSUME NEW s, NEW a, NEW b, Part(s, a, b), a \in Firsts, b \in Lasts PROVE Good(s)
    BY <2>3
  <2> HIDE DEF Good
  <2>a. /\ "checkFree" \in Firsts /\ "insertToken" \in Firsts /\ "readQueued" \in Firsts
        /\ "readLeased" \in Firsts /\ "readHeld" \in Firsts /\ "readRunning" \in Firsts
    BY DEF Firsts
  <2>b. /\ "insertToken" \in Lasts /\ "insertJob" \in Lasts /\ "activate" \in Lasts /\ "attemptLeased" \in Lasts
        /\ "attemptRunning" \in Lasts /\ "snapshot" \in Lasts /\ "recoverLatest" \in Lasts /\ "recoverUnknown" \in Lasts
    BY DEF Lasts
  <2>4. /\ Good(Issue) /\ Good(<<"insertToken">>) /\ Good(<<"checkFree", "insertJob">>)
        /\ Good(<<"readQueued", "lease", "attemptLeased">>)
    BY <1>10, <1>11, <2>3, <2>a, <2>b
  <2>5. Good(ClaimById) /\ Good(Start) /\ Good(CompleteDryRun) /\ Good(CompleteWrite)
    BY <1>1, <1>4, <1>5, <2>3, <2>a, <2>b
  <2>6. Good((ClaimById \o Start) \o CompleteDryRun) /\ Good((ClaimById \o Start) \o CompleteWrite)
    BY <1>8, <1>9, <2>3, <2>a, <2>b
  <2>7. /\ Good(<<"readHeld", "fail", "attemptFailed", "snapshot">>)
        /\ Good(<<"readHeld", "block", "attemptBlocked", "snapshot">>)
    <3>1. /\ Part(<<"readHeld", "fail", "attemptFailed", "snapshot">>, "readHeld", "snapshot")
          /\ Part(<<"readHeld", "block", "attemptBlocked", "snapshot">>, "readHeld", "snapshot")
      BY <1>0, <1>a, <1>12
    <3> QED BY <3>1, <2>3, <2>a, <2>b
  <2> QED BY <2>2, <2>4, <2>5, <2>6, <2>7
<1>14. PICK a \in Firsts, b \in Lasts : Part(Program[op], a, b)
  BY <1>13
<1> QED
  <2> DEFINE s == Program[op]
  <2> HIDE DEF s
  <2>1. s \in Seq(Await) /\ Len(s) >= 1 /\ Chained(s) /\ s[1] = a /\ s[Len(s)] = b
    BY <1>14 DEF Part, s
  <2>2. s # <<>> /\ Head(s) = a
    BY <2>1
  <2> QED BY <2>1, <2>2 DEF s

-----------------------------------------------------------------------------
(* What a call knows *)

CallRecord == [op : Op \cup {"none"}, key : Key \cup {None}, worker : Worker \cup {None},
               count : Nat, todo : Seq(Await)]

RowsOK ==
  /\ token \in [Key -> {"absent", "draft", "active", "consumed"}]
  /\ status \in [Key -> {"absent", "queued", "leased", "running"} \cup Final]
  /\ leaseOwner \in [Key -> Worker \cup {None}]
  /\ attemptCount \in [Key -> Nat]
  /\ receipt \in [Key -> {"none", "dry_run", "succeeded"}]
  /\ drafts \in [Key -> Nat]

\* A call of worker w on job k whose next await is a knows this of the rows.
Knows(a, k, w) ==
  /\ a \in {"lease", "leaseById"} => status[k] = "queued"
  /\ a \in {"run", "fail", "block", "readToken", "readReceipt", "write", "succeed"} => leaseOwner[k] = w
  /\ a = "run" => status[k] = "leased"
  /\ a \in {"fail", "block"} => status[k] \in {"leased", "running"}
  /\ a \in {"readToken", "readReceipt", "write", "succeed"} => status[k] = "running"
  /\ a \in {"readReceipt", "write", "succeed", "consume"} => token[k] = "active"
  /\ a \in {"write", "succeed", "consume", "activate"} => receipt[k] = "none"
  /\ a \in {"consume", "receiptDryRun", "receiptReal"} => status[k] = "succeeded"
  /\ a \in {"receiptDryRun", "receiptReal"} => token[k] = "consumed"

InProgress(d) == d.key \in Key /\ d.worker \in Worker /\ d.todo # <<>> /\ Chained(d.todo)

CallsKnow ==
  \A c \in Call : call[c] = Idle \/ (InProgress(call[c]) /\ Knows(Head(call[c].todo), call[c].key, call[c].worker))

TakeTurns == \A c, d \in Call : call[c].key = call[d].key /\ call[c].key \in Key => c = d

RuntimeInv == RowsOK /\ call \in [Call -> CallRecord] /\ CallsKnow /\ TakeTurns /\ ReceiptIsLast

LEMMA IdleIsFree == Idle \in CallRecord /\ Idle.key \notin Key /\ Idle.todo = <<>>
BY NullAssumption DEF Idle, CallRecord

\* One call changes, and nothing of the rows of other jobs.
LEMMA OneCall ==
  ASSUME RuntimeInv, NEW c \in Call, NEW n \in CallRecord, call' = [call EXCEPT ![c] = n], RowsOK',
         n = Idle \/ (InProgress(n) /\ Knows(Head(n.todo), n.key, n.worker)'),
         \A d \in Call \ {c} : n.key \in Key => call[d].key # n.key,
         \A k \in Key : \/ UNCHANGED <<token[k], status[k], leaseOwner[k], receipt[k]>>
                         \/ /\ k = call[c].key
                            /\ receipt'[k] # "none" => status'[k] = "succeeded" /\ token'[k] = "consumed"
  PROVE  RuntimeInv'
<1>1. call' \in [Call -> CallRecord] /\ call'[c] = n /\ \A d \in Call \ {c} : call'[d] = call[d]
  BY DEF RuntimeInv
<1>2. TakeTurns'
  BY <1>1 DEF RuntimeInv, TakeTurns
<1>3. ReceiptIsLast'
  BY DEF RuntimeInv, ReceiptIsLast
<1>4. CallsKnow'
  <2> SUFFICES ASSUME NEW d \in Call, call'[d] # Idle
               PROVE  InProgress(call'[d]) /\ Knows(Head(call[d].todo), call[d].key, call[d].worker)'
    BY DEF CallsKnow
  <2>1. CASE d = c
    BY <1>1, <2>1
  <2>2. CASE d # c
    <3>1. call'[d] = call[d] /\ InProgress(call[d]) /\ Knows(Head(call[d].todo), call[d].key, call[d].worker)
      BY <1>1, <2>2 DEF RuntimeInv, CallsKnow
    <3>2. call[d].key \in Key /\ call[d].key # call[c].key
      BY <2>2, <3>1 DEF RuntimeInv, TakeTurns, InProgress
    <3> PICK k, w, a : k \in Key /\ k = call[d].key /\ w = call[d].worker /\ a = Head(call[d].todo)
      BY <3>2
    <3>3. UNCHANGED <<token[k], status[k], leaseOwner[k], receipt[k]>>
      BY <3>2
    <3>4. Knows(a, k, w)'
      BY <3>1, <3>3 DEF Knows
    <3> QED BY <3>1, <3>4
  <2> QED BY <2>1, <2>2
<1> QED BY <1>1, <1>2, <1>3, <1>4 DEF RuntimeInv

LEMMA QuitKeeps ==
  ASSUME RuntimeInv, NEW c \in Call, Quit(c), UNCHANGED <<grant, status, leaseOwner, attemptCount, receipt, drafts>>
  PROVE  RuntimeInv'
<1>1. RowsOK'
  BY DEF RuntimeInv, RowsOK, grant
<1>2. call' = [call EXCEPT ![c] = Idle]
  BY DEF Quit
<1>3. \A k \in Key : UNCHANGED <<token[k], status[k], leaseOwner[k], receipt[k]>>
  BY DEF grant
<1> QED BY <1>1, <1>2, <1>3, IdleIsFree, OneCall

\* A call goes on to the await that follows, if it knows what it then has to know.
LEMMA GoesOn ==
  ASSUME RuntimeInv, NEW c \in Call, NEW k, NEW w, k = call[c].key, w = call[c].worker,
         NEW step, At(c, step), NEW m \in Nat, Continue(c, m), RowsOK',
         \A a \in Await : <<step, a>> \in Follows => Knows(a, k, w)',
         \A l \in Key : \/ UNCHANGED <<token[l], status[l], leaseOwner[l], receipt[l]>>
                         \/ /\ l = k
                            /\ receipt'[l] # "none" => status'[l] = "succeeded" /\ token'[l] = "consumed"
  PROVE  RuntimeInv'
<1> DEFINE d == call[c]
           n == IF Tail(d.todo) = <<>> THEN Idle ELSE [d EXCEPT !.count = m, !.todo = Tail(d.todo)]
<1>1. d \in CallRecord /\ d.todo # <<>> /\ Head(d.todo) = step /\ InProgress(d)
  BY IdleIsFree DEF At, RuntimeInv, CallsKnow
<1>2. d.todo \in Seq(Await) /\ d.key \in Key /\ d.worker \in Worker /\ Chained(d.todo)
  BY <1>1 DEF CallRecord, InProgress
<1>3. call' = [call EXCEPT ![c] = n]
  BY DEF Continue
<1>4. CASE Tail(d.todo) = <<>>
  <2>1. n = Idle
    BY <1>4
  <2> HIDE DEF n
  <2> QED BY <1>3, <2>1, IdleIsFree, OneCall
<1>5. CASE Tail(d.todo) # <<>>
  <2> DEFINE t == Tail(d.todo)
  <2>1. t \in Seq(Await) /\ Len(t) = Len(d.todo) - 1 /\ \A i \in 1 .. Len(t) : t[i] = d.todo[i + 1]
    BY <1>1, <1>2, HeadTailProperties
  <2>2. Len(t) \in Nat /\ Len(t) >= 1 /\ Len(d.todo) \in Nat
    BY <1>2, <1>5, <2>1, LenProperties, EmptySeq
  <2> HIDE DEF t
  <2>3. Chained(t)
    <3> SUFFICES ASSUME NEW i \in 1 .. Len(t) - 1 PROVE <<t[i], t[i + 1]>> \in Follows
      BY DEF Chained
    <3>1. i + 1 \in 1 .. Len(d.todo) - 1
      BY <2>1, <2>2
    <3>2. t[i] = d.todo[i + 1] /\ t[i + 1] = d.todo[(i + 1) + 1]
      BY <2>1, <2>2
    <3> QED BY <1>2, <3>1, <3>2 DEF Chained
  <2>4. Head(t) = t[1] /\ Head(d.todo) = d.todo[1] /\ Head(t) \in Await
    BY <1>2, <2>1, <2>2
  <2>5. <<step, Head(t)>> \in Follows
    <3>1. t[1] = d.todo[2] /\ 1 \in 1 .. Len(d.todo) - 1
      BY <2>1, <2>2
    <3> QED BY <1>1, <1>2, <2>4, <3>1 DEF Chained
  <2>6. n = [d EXCEPT !.count = m, !.todo = t]
    BY <1>5 DEF t
  <2> HIDE DEF n
  <2>7. n \in CallRecord /\ n.key = d.key /\ n.worker = d.worker /\ n.todo = t
    BY <1>1, <2>1, <2>6 DEF CallRecord
  <2>8. InProgress(n)
    BY <1>2, <1>5, <2>3, <2>7 DEF InProgress, t
  <2>9. PICK r \in CallRecord : r = n
    BY <2>7
  <2>10. Knows(Head(r.todo), r.key, r.worker)'
    <3>1. PICK a \in Await : a = Head(t)
      BY <2>4
    <3>2. Knows(a, k, w)'
      BY <2>5, <3>1
    <3>3. Head(r.todo) = a /\ r.key = k /\ r.worker = w
      BY <2>7, <2>9, <3>1
    <3> QED BY <3>2, <3>3
  <2>11. \A e \in Call \ {c} : call[e].key # r.key
    BY <1>2, <2>7, <2>9 DEF RuntimeInv, TakeTurns
  <2>12. call' = [call EXCEPT ![c] = r]
    BY <1>3, <2>9
  <2> QED BY <2>8, <2>9, <2>10, <2>11, <2>12, OneCall
<1> QED BY <1>4, <1>5

-----------------------------------------------------------------------------
(* The awaits, one by one *)

LEMMA WhatFollows ==
  /\ \A a : <<"checkFree", a>> \in Follows => a \in {"insertToken", "insertJob"}
  /\ \A a : <<"insertToken", a>> \in Follows => a = "checkFree"
  /\ \A a : <<"insertJob", a>> \in Follows => a = "activate"
  /\ \A a : <<"readQueued", a>> \in Follows => a \in {"lease", "leaseById"}
  /\ \A a : <<"lease", a>> \in Follows \/ <<"leaseById", a>> \in Follows => a = "attemptLeased"
  /\ \A a : <<"attemptLeased", a>> \in Follows => a = "readLeased"
  /\ \A a : <<"readLeased", a>> \in Follows => a = "run"
  /\ \A a : <<"run", a>> \in Follows => a = "attemptRunning"
  /\ \A a : <<"attemptRunning", a>> \in Follows => a = "readRunning"
  /\ \A a : <<"readHeld", a>> \in Follows => a \in {"fail", "block"}
  /\ \A a : <<"fail", a>> \in Follows => a = "attemptFailed"
  /\ \A a : <<"block", a>> \in Follows => a = "attemptBlocked"
  /\ \A a : <<"attemptFailed", a>> \in Follows \/ <<"attemptBlocked", a>> \in Follows => a = "snapshot"
  /\ \A a : <<"snapshot", a>> \notin Follows /\ <<"activate", a>> \notin Follows
  /\ \A a : <<"readRunning", a>> \in Follows => a = "readToken"
  /\ \A a : <<"readToken", a>> \in Follows => a = "readReceipt"
  /\ \A a : <<"readReceipt", a>> \in Follows => a \in {"write", "succeed"}
  /\ \A a : <<"write", a>> \in Follows => a = "succeed"
  /\ \A a : <<"succeed", a>> \in Follows => a = "consume"
  /\ \A a : <<"consume", a>> \in Follows => a \in {"receiptDryRun", "receiptReal"}
  /\ \A a : <<"receiptDryRun", a>> \in Follows => a = "recoverLatest"
  /\ \A a : <<"receiptReal", a>> \in Follows => a = "recoverUnknown"
BY DEF Follows

LEMMA CallKnows ==
  ASSUME RuntimeInv, NEW c \in Call, NEW step, At(c, step)
  PROVE  call[c].key \in Key /\ call[c].worker \in Worker /\ Knows(step, call[c].key, call[c].worker)
BY IdleIsFree DEF RuntimeInv, CallsKnow, InProgress, At

\* A read leaves the rows alone: what it found is known now.
LEMMA ReadKeeps ==
  ASSUME RuntimeInv, NEW c \in Call, NEW k, NEW w, k = call[c].key, w = call[c].worker,
         NEW step, NEW ok, NEW m \in Nat, Check(c, step, ok, m),
         ok => \A a \in Await : <<step, a>> \in Follows => Knows(a, k, w)
  PROVE  RuntimeInv'
<1>1. UNCHANGED <<token, status, leaseOwner, attemptCount, receipt, drafts>> /\ RowsOK' /\ At(c, step)
  BY DEF Check, grant, records, RuntimeInv, RowsOK
<1>2. CASE ok /\ Continue(c, m)
  <2>1. \A a \in Await : <<step, a>> \in Follows => Knows(a, k, w)'
    BY <1>1, <1>2 DEF Knows
  <2> QED BY <1>1, <1>2, <2>1, GoesOn
<1>3. CASE Quit(c)
  BY <1>3, QuitKeeps DEF Check, records
<1> QED BY <1>2, <1>3 DEF Check

LEMMA ReadsKeep ==
  ASSUME RuntimeInv, NEW c \in Call,
         \/ CheckFree(c) \/ ReadQueued(c) \/ ReadLeased(c) \/ ReadHeld(c)
         \/ ReadRunning(c) \/ ReadToken(c) \/ ReadReceipt(c)
  PROVE  RuntimeInv'
<1> PICK k, w : k = call[c].key /\ w = call[c].worker
  OBVIOUS
<1>1. CASE CheckFree(c)
  <2>1. \A a \in Await : <<"checkFree", a>> \in Follows => Knows(a, k, w)
    BY WhatFollows DEF Knows
  <2> QED BY <1>1, <2>1, ReadKeeps DEF CheckFree
<1>2. CASE ReadQueued(c)
  <2>1. status[k] = "queued" => \A a \in Await : <<"readQueued", a>> \in Follows => Knows(a, k, w)
    BY WhatFollows DEF Knows
  <2>2. attemptCount[k] \in Nat
    BY <1>2, CallKnows DEF ReadQueued, Check, RuntimeInv, RowsOK
  <2> QED BY <1>2, <2>1, <2>2, ReadKeeps DEF ReadQueued
<1>3. CASE ReadLeased(c)
  <2>1. Held(k, w, {"leased"}) => \A a \in Await : <<"readLeased", a>> \in Follows => Knows(a, k, w)
    BY WhatFollows DEF Knows, Held
  <2>2. attemptCount[k] \in Nat
    BY <1>3, CallKnows DEF ReadLeased, Check, RuntimeInv, RowsOK
  <2> QED BY <1>3, <2>1, <2>2, ReadKeeps DEF ReadLeased
<1>4. CASE ReadHeld(c)
  <2>1. Held(k, w, {"leased", "running"}) => \A a \in Await : <<"readHeld", a>> \in Follows => Knows(a, k, w)
    BY WhatFollows DEF Knows, Held
  <2> QED BY <1>4, <2>1, ReadKeeps DEF ReadHeld
<1>5. CASE ReadRunning(c)
  <2>1. Held(k, w, {"running"}) => \A a \in Await : <<"readRunning", a>> \in Follows => Knows(a, k, w)
    BY WhatFollows DEF Knows, Held
  <2> QED BY <1>5, <2>1, ReadKeeps DEF ReadRunning
<1>6. CASE ReadToken(c)
  <2>0. Knows("readToken", k, w)
    BY <1>6, CallKnows DEF ReadToken, Check
  <2>1. Executable(k) => \A a \in Await : <<"readToken", a>> \in Follows => Knows(a, k, w)
    BY <2>0, WhatFollows DEF Knows, Executable
  <2> QED BY <1>6, <2>1, ReadKeeps DEF ReadToken
<1>7. CASE ReadReceipt(c)
  <2>0. Knows("readReceipt", k, w)
    BY <1>7, CallKnows DEF ReadReceipt, Check
  <2>1. receipt[k] = "none" => \A a \in Await : <<"readReceipt", a>> \in Follows => Knows(a, k, w)
    BY <2>0, WhatFollows DEF Knows
  <2> QED BY <1>7, <2>1, ReadKeeps DEF ReadReceipt
<1> QED BY <1>1, <1>2, <1>3, <1>4, <1>5, <1>6, <1>7

\* A write of one job's columns after which the call goes on.
LEMMA WriteKeeps ==
  ASSUME RuntimeInv, NEW c \in Call, NEW k, NEW w, k = call[c].key, w = call[c].worker,
         NEW step, At(c, step), NEW m \in Nat, Continue(c, m), RowsOK',
         \A l \in Key \ {k} : UNCHANGED <<token[l], status[l], leaseOwner[l], receipt[l]>>,
         \A a \in Await : <<step, a>> \in Follows => Knows(a, k, w)',
         receipt'[k] # "none" => status'[k] = "succeeded" /\ token'[k] = "consumed"
  PROVE  RuntimeInv'
BY GoesOn

LEMMA IssuingKeeps ==
  ASSUME RuntimeInv, NEW c \in Call, InsertToken(c) \/ InsertJob(c) \/ Activate(c)
  PROVE  RuntimeInv'
<1> PICK k, w : k = call[c].key /\ w = call[c].worker
  OBVIOUS
<1>0. /\ RowsOK /\ (k \in Key => (receipt[k] # "none" => status[k] = "succeeded" /\ token[k] = "consumed"))
  BY DEF RuntimeInv, ReceiptIsLast
<1>1. CASE InsertToken(c)
  <2>1. k \in Key /\ At(c, "insertToken")
    BY <1>1, CallKnows DEF InsertToken
  <2>2. CASE TokenFree(k) /\ token' = [token EXCEPT ![k] = "draft"] /\ Go(c)
    <3>1. UNCHANGED <<status, leaseOwner, attemptCount, receipt, drafts>>
      BY <1>1 DEF InsertToken, records
    <3>2. RowsOK' /\ \A l \in Key \ {k} : token'[l] = token[l]
      BY <1>0, <2>1, <2>2, <3>1 DEF RowsOK
    <3>3. receipt[k] = "none"
      BY <1>0, <2>1, <2>2 DEF TokenFree
    <3>4. \A a \in Await : <<"insertToken", a>> \in Follows => Knows(a, k, w)'
      BY WhatFollows DEF Knows
    <3> QED BY <2>1, <2>2, <3>1, <3>2, <3>3, <3>4, WriteKeeps DEF Go
  <2>3. CASE Quit(c) /\ UNCHANGED token
    BY <1>1, <2>3, QuitKeeps DEF InsertToken, grant, records
  <2> QED BY <1>1, <2>2, <2>3 DEF InsertToken
<1>2. CASE InsertJob(c)
  <2>1. k \in Key /\ At(c, "insertJob")
    BY <1>2, CallKnows DEF InsertJob
  <2>2. CASE status[k] = "absent" /\ status' = [status EXCEPT ![k] = "queued"] /\ Go(c)
    <3>1. UNCHANGED <<token, leaseOwner, attemptCount, receipt, drafts>>
      BY <1>2 DEF InsertJob, grant, records
    <3>2. RowsOK' /\ \A l \in Key \ {k} : status'[l] = status[l]
      BY <1>0, <2>1, <2>2, <3>1 DEF RowsOK
    <3>3. receipt[k] = "none"
      BY <1>0, <2>1, <2>2
    <3>4. \A a \in Await : <<"insertJob", a>> \in Follows => Knows(a, k, w)'
      BY <3>1, <3>3, WhatFollows DEF Knows
    <3> QED BY <2>1, <2>2, <3>1, <3>2, <3>3, <3>4, WriteKeeps DEF Go
  <2>3. CASE Quit(c) /\ UNCHANGED status
    BY <1>2, <2>3, QuitKeeps DEF InsertJob, records
  <2> QED BY <1>2, <2>2, <2>3 DEF InsertJob
<1>3. CASE Activate(c)
  <2>1. k \in Key /\ At(c, "activate") /\ receipt[k] = "none"
    BY <1>3, CallKnows DEF Activate, Knows
  <2>2. token' = [token EXCEPT ![k] = "active"] /\ Go(c) /\ UNCHANGED <<status, leaseOwner, attemptCount, receipt, drafts>>
    BY <1>3 DEF Activate, records
  <2>3. RowsOK' /\ \A l \in Key \ {k} : token'[l] = token[l]
    BY <1>0, <2>1, <2>2 DEF RowsOK
  <2>4. \A a \in Await : <<"activate", a>> \in Follows => Knows(a, k, w)'
    BY WhatFollows
  <2> QED BY <2>1, <2>2, <2>3, <2>4, WriteKeeps DEF Go
<1> QED BY <1>1, <1>2, <1>3

LEMMA HoldingKeeps ==
  ASSUME RuntimeInv, NEW c \in Call, Lease(c) \/ RunJob(c) \/ FailOrBlock(c)
  PROVE  RuntimeInv'
<1> PICK k, w : k = call[c].key /\ w = call[c].worker
  OBVIOUS
<1>0. /\ RowsOK /\ (k \in Key => (receipt[k] # "none" => status[k] = "succeeded" /\ token[k] = "consumed"))
      /\ call[c].count \in Nat /\ call[c].count + 1 \in Nat
  BY DEF RuntimeInv, ReceiptIsLast, CallRecord
<1>1. ASSUME NEW step \in {"lease", "leaseById"}, At(c, step), Lease(c) PROVE RuntimeInv'
  <2>1. k \in Key /\ w \in Worker /\ Knows(step, k, w)
    BY <1>1, CallKnows
  <2>2. /\ status' = [status EXCEPT ![k] = "leased"] /\ leaseOwner' = [leaseOwner EXCEPT ![k] = w]
        /\ attemptCount' \in {attemptCount, [attemptCount EXCEPT ![k] = call[c].count + 1]}
        /\ Continue(c, call[c].count + 1) /\ UNCHANGED <<token, receipt, drafts>>
    BY <1>1 DEF Lease, CountClaimed, grant, records
  <2>3. RowsOK' /\ \A l \in Key \ {k} : UNCHANGED <<status[l], leaseOwner[l]>>
    BY <1>0, <2>1, <2>2 DEF RowsOK
  <2>4. receipt[k] = "none"
    BY <1>0, <1>1, <2>1 DEF Knows
  <2>5. \A a \in Await : <<step, a>> \in Follows => Knows(a, k, w)'
    BY <1>1, WhatFollows DEF Knows
  <2> QED BY <1>0, <1>1, <2>1, <2>2, <2>3, <2>4, <2>5, WriteKeeps
<1>2. CASE RunJob(c)
  <2>1. k \in Key /\ At(c, "run") /\ Knows("run", k, w)
    BY <1>2, CallKnows DEF RunJob
  <2>2. /\ status' = [status EXCEPT ![k] = "running"]
        /\ attemptCount' = [attemptCount EXCEPT ![k] = call[c].count + 1]
        /\ Continue(c, call[c].count + 1) /\ UNCHANGED <<token, leaseOwner, receipt, drafts>>
    BY <1>2 DEF RunJob, grant, records
  <2>3. RowsOK' /\ \A l \in Key \ {k} : status'[l] = status[l]
    BY <1>0, <2>1, <2>2 DEF RowsOK
  <2>4. receipt[k] = "none"
    BY <1>0, <2>1 DEF Knows
  <2>5. \A a \in Await : <<"run", a>> \in Follows => Knows(a, k, w)'
    BY WhatFollows DEF Knows
  <2> QED BY <1>0, <2>1, <2>2, <2>3, <2>4, <2>5, WriteKeeps
<1>3. ASSUME NEW step \in {"fail", "block"}, At(c, step), FailOrBlock(c) PROVE RuntimeInv'
  <2>1. k \in Key /\ Knows(step, k, w)
    BY <1>3, CallKnows
  <2>2. /\ status' \in {[status EXCEPT ![k] = "failed"], [status EXCEPT ![k] = "blocked"]}
        /\ Continue(c, FailedAttempt(k)) /\ UNCHANGED <<token, leaseOwner, attemptCount, receipt, drafts>>
    BY <1>3 DEF FailOrBlock, grant, records
  <2>3. RowsOK' /\ \A l \in Key \ {k} : status'[l] = status[l]
    BY <1>0, <2>1, <2>2 DEF RowsOK, Final
  <2>4. receipt[k] = "none" /\ FailedAttempt(k) \in Nat
    BY <1>0, <1>3, <2>1 DEF Knows, FailedAttempt, RowsOK
  <2>5. \A a \in Await : <<step, a>> \in Follows => Knows(a, k, w)'
    BY <1>3, WhatFollows DEF Knows
  <2> QED BY <1>3, <2>1, <2>2, <2>3, <2>4, <2>5, WriteKeeps
<1> QED BY <1>1, <1>2, <1>3 DEF Lease, FailOrBlock

LEMMA RecordsKeep ==
  ASSUME RuntimeInv, NEW c \in Call,
         InsertAttempt(c) \/ Snapshot(c) \/ WriteDraft(c) \/ ConnectorRefuses(c) \/ RecoveryPoint(c) \/ Abort(c)
  PROVE  RuntimeInv'
<1> PICK k, w : k = call[c].key /\ w = call[c].worker
  OBVIOUS
<1>0. /\ RowsOK /\ (k \in Key => (receipt[k] # "none" => status[k] = "succeeded" /\ token[k] = "consumed"))
  BY DEF RuntimeInv, ReceiptIsLast
<1>1. ASSUME NEW step \in {"attemptLeased", "attemptRunning", "attemptFailed", "attemptBlocked", "snapshot"}, At(c, step), Go(c),
             UNCHANGED <<token, status, leaseOwner, attemptCount, receipt, drafts>>
      PROVE  RuntimeInv'
  <2>1. k \in Key /\ RowsOK'
    BY <1>0, <1>1, CallKnows DEF RowsOK
  <2>2. \A a \in Await : <<step, a>> \in Follows => Knows(a, k, w)'
    <3>1. \A a \in Await : <<step, a>> \in Follows => a \in {"readLeased", "readRunning", "snapshot"}
      BY <1>1, WhatFollows
    <3> QED BY <3>1 DEF Knows
  <2> QED BY <1>0, <1>1, <2>1, <2>2, WriteKeeps DEF Go
<1>2. CASE InsertAttempt(c)
  <2>1. DOMAIN AttemptStatus = {"attemptLeased", "attemptRunning", "attemptFailed", "attemptBlocked"}
    BY DEF AttemptStatus
  <2>2. UNCHANGED <<token, status, leaseOwner, attemptCount, receipt, drafts>>
    BY <1>2 DEF InsertAttempt, grant
  <2>3. CASE Quit(c)
    BY <1>2, <2>3, QuitKeeps DEF InsertAttempt
  <2>4. CASE Go(c) /\ \E step \in DOMAIN AttemptStatus : At(c, step)
    BY <1>1, <2>1, <2>2, <2>4
  <2> QED BY <1>2, <2>3, <2>4 DEF InsertAttempt
<1>3. CASE Snapshot(c)
  BY <1>1, <1>3 DEF Snapshot, grant
<1>4. CASE WriteDraft(c)
  <2>1. k \in Key /\ At(c, "write") /\ Knows("write", k, w)
    BY <1>4, CallKnows DEF WriteDraft
  <2>2. /\ drafts' = [drafts EXCEPT ![k] = IF @ < DraftBound THEN @ + 1 ELSE @]
        /\ Go(c) /\ UNCHANGED <<token, status, leaseOwner, attemptCount, receipt>>
    BY <1>4 DEF WriteDraft, grant, records
  <2>3. RowsOK'
    BY <1>0, <2>1, <2>2 DEF RowsOK
  <2>4. \A a \in Await : <<"write", a>> \in Follows => Knows(a, k, w)'
    BY <2>1, <2>2, WhatFollows DEF Knows
  <2> QED BY <1>0, <2>1, <2>2, <2>3, <2>4, WriteKeeps DEF Go
<1>5. CASE ConnectorRefuses(c) \/ RecoveryPoint(c) \/ Abort(c)
  BY <1>5, QuitKeeps DEF ConnectorRefuses, RecoveryPoint, Abort, records
<1> QED BY <1>2, <1>3, <1>4, <1>5

LEMMA CompletingKeeps ==
  ASSUME RuntimeInv, NEW c \in Call, Succeed(c) \/ Consume(c) \/ InsertReceipt(c)
  PROVE  RuntimeInv'
<1> PICK k, w : k = call[c].key /\ w = call[c].worker
  OBVIOUS
<1>0. RowsOK
  BY DEF RuntimeInv
<1>1. CASE Succeed(c)
  <2>1. k \in Key /\ At(c, "succeed") /\ Knows("succeed", k, w)
    BY <1>1, CallKnows DEF Succeed
  <2>2. status' = [status EXCEPT ![k] = "succeeded"] /\ Go(c) /\ UNCHANGED <<token, leaseOwner, attemptCount, receipt, drafts>>
    BY <1>1 DEF Succeed, grant, records
  <2>3. RowsOK' /\ status'[k] = "succeeded" /\ \A l \in Key \ {k} : status'[l] = status[l]
    BY <1>0, <2>1, <2>2 DEF RowsOK, Final
  <2>4. receipt'[k] = "none" /\ \A a \in Await : <<"succeed", a>> \in Follows => Knows(a, k, w)'
    BY <2>1, <2>2, <2>3, WhatFollows DEF Knows
  <2> QED BY <2>1, <2>2, <2>3, <2>4, WriteKeeps DEF Go
<1>2. CASE Consume(c)
  <2>1. k \in Key /\ At(c, "consume") /\ Knows("consume", k, w)
    BY <1>2, CallKnows DEF Consume
  <2>2. token' = [token EXCEPT ![k] = "consumed"] /\ Go(c) /\ UNCHANGED <<status, leaseOwner, attemptCount, receipt, drafts>>
    BY <1>2 DEF Consume, records
  <2>3. RowsOK' /\ token'[k] = "consumed" /\ \A l \in Key \ {k} : token'[l] = token[l]
    BY <1>0, <2>1, <2>2 DEF RowsOK
  <2>4. receipt'[k] = "none" /\ \A a \in Await : <<"consume", a>> \in Follows => Knows(a, k, w)'
    BY <2>1, <2>2, <2>3, WhatFollows DEF Knows
  <2> QED BY <2>1, <2>2, <2>3, <2>4, WriteKeeps DEF Go
<1>3. ASSUME NEW step \in {"receiptDryRun", "receiptReal"}, At(c, step), InsertReceipt(c) PROVE RuntimeInv'
  <2>1. k \in Key /\ Knows(step, k, w)
    BY <1>3, CallKnows
  <2>2. UNCHANGED <<token, status, leaseOwner, attemptCount, drafts>>
    BY <1>3 DEF InsertReceipt, grant
  <2>3. CASE Quit(c) /\ UNCHANGED receipt
    BY <1>3, <2>3, QuitKeeps DEF InsertReceipt
  <2>4. CASE Go(c) /\ receipt' = [receipt EXCEPT ![k] = IF At(c, "receiptReal") THEN "succeeded" ELSE "dry_run"]
    <3>1. RowsOK' /\ \A l \in Key \ {k} : receipt'[l] = receipt[l]
      BY <1>0, <2>1, <2>2, <2>4 DEF RowsOK
    <3>2. status'[k] = "succeeded" /\ token'[k] = "consumed"
      BY <1>3, <2>1, <2>2 DEF Knows
    <3>3. \A a \in Await : <<step, a>> \in Follows => Knows(a, k, w)'
      BY <1>3, WhatFollows DEF Knows
    <3> QED BY <1>3, <2>1, <2>2, <2>4, <3>1, <3>2, <3>3, WriteKeeps DEF Go
  <2> QED BY <1>3, <2>3, <2>4 DEF InsertReceipt
<1> QED BY <1>1, <1>2, <1>3 DEF InsertReceipt

LEMMA BeginKeeps ==
  ASSUME ~Overlap, RuntimeInv, NEW c \in Call, Begin(c)
  PROVE  RuntimeInv'
<1>1. PICK op \in Op, k \in Key, w \in Worker :
        ~Busy(k) /\ call' = [call EXCEPT ![c] = [op |-> op, key |-> k, worker |-> w, count |-> 0, todo |-> Program[op]]]
  BY DEF Begin
<1> DEFINE n == [op |-> op, key |-> k, worker |-> w, count |-> 0, todo |-> Program[op]]
<1>2. Program[op] \in Seq(Await) /\ Program[op] # <<>> /\ Chained(Program[op]) /\ Head(Program[op]) \in Firsts
  BY OpAssumption, OperationsChained
<1>3. n \in CallRecord /\ n.key = k /\ n.worker = w /\ n.todo = Program[op]
  BY <1>2 DEF CallRecord
<1>4. InProgress(n)
  BY <1>2, <1>3 DEF InProgress
<1>5. \A d \in Call : call[d].key # n.key
  BY <1>1, <1>3 DEF Busy
<1>6. \A a \in Firsts : Knows(a, k, w)'
  BY DEF Knows, Firsts
<1>7. UNCHANGED <<token, status, leaseOwner, attemptCount, receipt, drafts>> /\ RowsOK'
  BY DEF Begin, grant, records, RuntimeInv, RowsOK
<1>8. call' = [call EXCEPT ![c] = n]
  BY <1>1
<1> HIDE DEF n
<1>9. Knows(Head(n.todo), n.key, n.worker)'
  BY <1>2, <1>3, <1>6
<1> QED BY <1>3, <1>4, <1>5, <1>7, <1>8, <1>9, OneCall

LEMMA NextKeeps ==
  ASSUME ~Overlap, RuntimeInv, [Next]_vars
  PROVE  RuntimeInv'
<1>1. ASSUME NEW c \in Call, Step(c) PROVE RuntimeInv'
  BY <1>1, ReadsKeep, IssuingKeeps, HoldingKeeps, RecordsKeep, CompletingKeeps DEF Step
<1>2. CASE UNCHANGED <<token, status, leaseOwner, attemptCount, receipt, drafts, call>>
  BY <1>2 DEF RuntimeInv, RowsOK, CallsKnow, Knows, TakeTurns, ReceiptIsLast
<1> QED
  BY <1>1, <1>2, BeginKeeps, RecordsKeep DEF Next, TokenExpires, records, vars

LEMMA InvHolds == ~Overlap /\ Spec => []RuntimeInv
<1> SUFFICES ASSUME ~Overlap PROVE Spec => []RuntimeInv
  OBVIOUS
<1>1. Init => RuntimeInv
  BY IdleIsFree DEF Init, RuntimeInv, RowsOK, CallsKnow, TakeTurns, ReceiptIsLast
<1>2. RuntimeInv /\ [Next]_vars => RuntimeInv'
  BY NextKeeps
<1> QED BY <1>1, <1>2, PTL DEF Spec

-----------------------------------------------------------------------------
(* Theorems *)

\* A receipt is the last word on its job (runtime-execution/repository.ts, the
\* completions): while callers take turns on a job, and wherever a call is cut off,
\* what has a receipt has succeeded under a token that is spent.
THEOREM ReceiptIsLastHolds == ~Overlap /\ Spec => []ReceiptIsLast
<1>1. RuntimeInv => ReceiptIsLast
  BY DEF RuntimeInv
<1> QED BY <1>1, InvHolds, PTL

\* The connector writes only for a running job under an active token and without a
\* receipt, although a completion read each of them in an await of its own.
THEOREM WriteIsAuthorisedHolds == ~Overlap /\ Spec => WriteIsAuthorised
<1>1. RuntimeInv /\ [Next]_vars =>
        [\A k \in Key : drafts'[k] # drafts[k] =>
           status[k] = "running" /\ token[k] = "active" /\ receipt[k] = "none"]_vars
  <2> SUFFICES ASSUME RuntimeInv, Next, NEW k \in Key, drafts'[k] # drafts[k]
               PROVE  status[k] = "running" /\ token[k] = "active" /\ receipt[k] = "none"
    BY DEF vars
  <2>1. PICK c \in Call : WriteDraft(c)
    BY DEF Next, TokenExpires, Begin, Abort, Step, CheckFree, InsertToken, InsertJob, Activate, ReadQueued, Lease, ReadLeased, RunJob,
           InsertAttempt, ReadHeld, FailOrBlock, Snapshot, ReadRunning, ReadToken, ReadReceipt, ConnectorRefuses, Succeed,
           Consume, InsertReceipt, RecoveryPoint, Check
  <2>2. call[c].key = k /\ At(c, "write")
    BY <2>1 DEF WriteDraft, RuntimeInv, RowsOK
  <2> QED BY <2>2, CallKnows DEF Knows
<1> QED BY <1>1, InvHolds, PTL DEF Spec, WriteIsAuthorised

\* Only the worker that holds the lease of a job moves it once it is leased,
\* although no write of the runtime looks at the lease.
THEOREM OnlyHolderMovesHolds == ~Overlap /\ Spec => OnlyHolderMoves
<1>1. RuntimeInv /\ [Next]_vars =>
        [\A k \in Key : status[k] \in {"leased", "running"} /\ status'[k] # status[k] =>
           \E c \in Call : call[c].key = k /\ call[c].worker = leaseOwner[k]]_vars
  <2> SUFFICES ASSUME RuntimeInv, Next, NEW k \in Key, status[k] \in {"leased", "running"}, status'[k] # status[k]
               PROVE  \E c \in Call : call[c].key = k /\ call[c].worker = leaseOwner[k]
    BY DEF vars
  <2>1. PICK c \in Call : InsertJob(c) \/ Lease(c) \/ RunJob(c) \/ FailOrBlock(c) \/ Succeed(c)
    BY DEF Next, TokenExpires, Begin, Abort, Step, CheckFree, InsertToken, Activate, ReadQueued, ReadLeased, WriteDraft,
           InsertAttempt, ReadHeld, Snapshot, ReadRunning, ReadToken, ReadReceipt, ConnectorRefuses,
           Consume, InsertReceipt, RecoveryPoint, Check
  <2>2. call[c].key = k
    BY <2>1 DEF InsertJob, Lease, RunJob, FailOrBlock, Succeed, RuntimeInv, RowsOK
  <2>3. CASE InsertJob(c)
    BY <2>2, <2>3 DEF InsertJob, RuntimeInv, RowsOK
  <2>4. CASE Lease(c)
    BY <2>2, <2>4, CallKnows DEF Lease, Knows
  <2>5. ASSUME NEW step \in {"run", "fail", "block", "succeed"}, At(c, step) PROVE call[c].worker = leaseOwner[k]
    BY <2>2, <2>5, CallKnows DEF Knows
  <2> QED BY <2>1, <2>2, <2>3, <2>4, <2>5 DEF RunJob, FailOrBlock, Succeed
<1> QED BY <1>1, InvHolds, PTL DEF Spec, OnlyHolderMoves

-----------------------------------------------------------------------------
(* Calls that run to their end                                              *)
(*                                                                          *)
(* When no call is cut off between two awaits and jobs are claimed by id,    *)
(* the records of a job fit one another except where a call in flight is     *)
(* about to make them fit again, and its next await says where that is.      *)

\* The awaits of the operations other than issuance, none of which claims from the pool.
Later == Await \ {"checkFree", "insertToken", "insertJob", "activate", "lease"}

Minting   == {Issue, <<"insertToken", "checkFree", "insertJob", "activate">>}
Enqueuing == {<<"checkFree", "insertJob", "activate">>, <<"insertJob", "activate">>}

Numbers(k) == {x[1] : x \in attempts[k]}

\* The rows of job k when a call that remembers n is about to make the await a,
\* or when no call is in flight and a is "none".
Kept(k, a, n) ==
  /\ token[k] = "absent" => status[k] = "absent"
  /\ status[k] \in {"leased", "running"} => attemptCount[k] >= 1
  /\ IF a \in {"attemptLeased", "attemptRunning"}
     THEN attemptCount[k] >= 1 /\ Numbers(k) = 1 .. attemptCount[k] - 1
     ELSE Numbers(k) = 1 .. attemptCount[k]
  /\ a \in {"leaseById", "attemptLeased", "run", "attemptRunning", "attemptFailed", "attemptBlocked"}
        => n = attemptCount[k]
  /\ a \in {"attemptFailed", "attemptBlocked"} => attemptCount[k] >= 1
  /\ a # "consume" => (status[k] = "succeeded" <=> token[k] = "consumed")
  /\ IF a \in {"receiptDryRun", "receiptReal"} THEN receipt[k] = "none"
     ELSE token[k] = "consumed" <=> receipt[k] # "none"
  /\ a # "succeed" /\ drafts[k] > 0 => status[k] = "succeeded"

\* What a call has left to do, beside the token it may have just inserted.
Placed(d) ==
  \/ d.op # "issue" /\ d.todo \in Seq(Later) /\ d.todo[Len(d.todo)] \in Lasts /\ token[d.key] # "draft"
  \/ d.op = "issue" /\ d.todo \in Minting /\ token[d.key] # "draft"
  \/ d.op = "issue" /\ d.todo \in Enqueuing /\ token[d.key] = "draft" /\ status[d.key] = "absent"
  \/ d.op = "issue" /\ d.todo = <<"activate">> /\ token[d.key] = "draft" /\ status[d.key] = "queued"

\* While calls take turns and are not cut off, every row that no call is busy with
\* is whole, and the one a call is busy with is as far as its next await says.
CleanInv ==
  /\ RuntimeInv
  /\ attempts \in [Key -> SUBSET (Nat \X {"leased", "running", "failed", "blocked"})]
  /\ \A k \in Key : ~Busy(k) => Kept(k, "none", 0) /\ token[k] # "draft"
  /\ \A c \in Call : \/ call[c] = Idle
                     \/ Kept(call[c].key, Head(call[c].todo), call[c].count) /\ Placed(call[c])

LEMMA AttemptNumbers == ASSUME NEW n \in Nat, n >= 1 PROVE (1 .. n - 1) \cup {n} = 1 .. n
OBVIOUS

LEMMA LaterOperations ==
  ASSUME NEW op \in DOMAIN Program, op \notin {"issue", "postToken", "postJob", "claim"}
  PROVE  Program[op] \in Seq(Later) /\ Head(Program[op]) \in Firsts \ {"checkFree", "insertToken"}
<1>1. /\ DOMAIN Program = {"issue", "postToken", "postJob", "claim", "claimById", "start", "fail", "block",
                           "completeDryRun", "completeWrite", "runDry", "runWrite"}
      /\ Program["claimById"] = ClaimById /\ Program["start"] = Start
      /\ Program["fail"] = <<"readHeld", "fail", "attemptFailed", "snapshot">>
      /\ Program["block"] = <<"readHeld", "block", "attemptBlocked", "snapshot">>
      /\ Program["completeDryRun"] = CompleteDryRun /\ Program["completeWrite"] = CompleteWrite
      /\ Program["runDry"] = (ClaimById \o Start) \o CompleteDryRun
      /\ Program["runWrite"] = (ClaimById \o Start) \o CompleteWrite
  BY DEF Program
<1>2. /\ ClaimById \in Seq(Later) /\ Start \in Seq(Later) /\ Completion \in Seq(Later)
      /\ <<"readHeld", "fail", "attemptFailed", "snapshot">> \in Seq(Later)
      /\ <<"readHeld", "block", "attemptBlocked", "snapshot">> \in Seq(Later)
      /\ Record("receiptDryRun") \in Seq(Later) /\ Record("receiptReal") \in Seq(Later)
      /\ <<"recoverLatest">> \in Seq(Later) /\ <<"recoverUnknown">> \in Seq(Later) /\ <<"write">> \in Seq(Later)
  BY DEF ClaimById, Start, Completion, Record, Later, Await
<1>3. \A s, t : s \in Seq(Later) /\ t \in Seq(Later) => s \o t \in Seq(Later)
  BY ConcatProperties
<1>4. CompleteDryRun \in Seq(Later) /\ CompleteWrite \in Seq(Later)
  BY <1>2, <1>3 DEF CompleteDryRun, CompleteWrite
<1>5. Program[op] \in Seq(Later)
  BY <1>1, <1>2, <1>3, <1>4
<1>6. Program[op] # <<>> /\ Head(Program[op]) \in Firsts
  BY OperationsChained
<1>7. Head(Program[op]) \in Later
  BY <1>5, <1>6, HeadTailProperties
<1> QED BY <1>5, <1>6, <1>7 DEF Later

\* One call changes, and only the rows of its job.
LEMMA CleanStep ==
  ASSUME CleanInv, RuntimeInv', NEW c \in Call, NEW k \in Key, NEW n, call' = [call EXCEPT ![c] = n],
         call[c].key = k \/ (call[c].key = None /\ n.key = k), n = Idle \/ n.key = k,
         attempts' \in [Key -> SUBSET (Nat \X {"leased", "running", "failed", "blocked"})],
         \A l \in Key \ {k} :
            UNCHANGED <<token[l], status[l], attemptCount[l], attempts[l], receipt[l], drafts[l]>>,
         n = Idle => Kept(k, "none", 0)' /\ token'[k] # "draft",
         n # Idle => Kept(k, Head(n.todo), n.count)' /\ Placed(n)'
  PROVE  CleanInv'
<1>0. call'[c] = n /\ \A d \in Call \ {c} : call'[d] = call[d]
  BY DEF CleanInv, RuntimeInv
<1>1. ASSUME NEW l \in Key, ~Busy(l)' PROVE Kept(l, "none", 0)' /\ token'[l] # "draft"
  <2>1. CASE l = k
    <3>1. n = Idle
      BY <1>0, <1>1, <2>1 DEF Busy
    <3> QED BY <2>1, <3>1
  <2>2. CASE l # k
    <3>1. ~Busy(l)
      BY <1>0, <1>1, <2>2, NullAssumption DEF Busy
    <3>2. Kept(l, "none", 0) /\ token[l] # "draft"
      BY <3>1 DEF CleanInv
    <3>3. UNCHANGED <<token[l], status[l], attemptCount[l], attempts[l], receipt[l], drafts[l]>>
      BY <2>2
    <3> QED BY <3>2, <3>3 DEF Kept, Numbers
  <2> QED BY <2>1, <2>2
<1>2. ASSUME NEW d \in Call, call'[d] # Idle
      PROVE  Kept(call[d].key, Head(call[d].todo), call[d].count)' /\ Placed(call[d])'
  <2>1. CASE d = c
    BY <1>0, <1>2, <2>1
  <2>2. CASE d # c
    <3>1. call'[d] = call[d] /\ call[d] # Idle
      BY <1>0, <1>2, <2>2
    <3>2. call[d].key \in Key /\ InProgress(call[d])
      BY <3>1 DEF CleanInv, RuntimeInv, CallsKnow, InProgress
    <3>3. call[d].key # k
      <4>1. CASE n = Idle /\ call[c].key = k
        BY <2>2, <3>2, <4>1 DEF CleanInv, RuntimeInv, TakeTurns
      <4>2. CASE n = Idle /\ n.key = k
        BY <4>2, IdleIsFree
      <4>3. CASE n.key = k
        BY <1>0, <2>2, <3>1, <3>2, <4>3 DEF RuntimeInv, TakeTurns
      <4> QED BY <4>1, <4>2, <4>3
    <3> PICK e, l, a, m : e = call[d] /\ l = e.key /\ a = Head(e.todo) /\ m = e.count
      OBVIOUS
    <3>4. Kept(l, a, m) /\ Placed(e)
      BY <3>1 DEF CleanInv
    <3>5. UNCHANGED <<token[l], status[l], attemptCount[l], attempts[l], receipt[l], drafts[l]>>
      BY <3>2, <3>3
    <3>6. Kept(l, a, m)'
      BY <3>4, <3>5 DEF Kept, Numbers
    <3>7. Placed(e)'
      BY <3>4, <3>5 DEF Placed
    <3> QED BY <3>1, <3>6, <3>7
  <2> QED BY <2>1, <2>2
<1> QED BY <1>1, <1>2 DEF CleanInv

\* Where a call stands.
LEMMA CleanWhere ==
  ASSUME CleanInv, NEW c \in Call, NEW step, At(c, step)
  PROVE  /\ call[c].key \in Key /\ call[c] # Idle /\ Kept(call[c].key, step, call[c].count) /\ Placed(call[c])
         /\ call[c] \in CallRecord /\ InProgress(call[c]) /\ Knows(step, call[c].key, call[c].worker)
         /\ call[c].todo # <<>> /\ Head(call[c].todo) = step
         /\ step \in Later => /\ call[c].op # "issue" /\ call[c].todo \in Seq(Later) /\ token[call[c].key] # "draft"
                              /\ call[c].todo[Len(call[c].todo)] \in Lasts
<1>1. call[c] # Idle /\ call[c].key \in Key /\ InProgress(call[c]) /\ call[c] \in CallRecord
      /\ call[c].todo # <<>> /\ Head(call[c].todo) = step /\ Knows(step, call[c].key, call[c].worker)
  BY CallKnows, IdleIsFree DEF CleanInv, At, RuntimeInv, CallsKnow
<1>2. Kept(call[c].key, step, call[c].count) /\ Placed(call[c])
  BY <1>1 DEF CleanInv
<1>3. \A s \in Minting \cup Enqueuing \cup {<<"activate">>} : Head(s) \notin Later
  BY DEF Minting, Enqueuing, Issue, Later
<1> QED BY <1>1, <1>2, <1>3 DEF Placed

LEMMA CleanQuits ==
  ASSUME CleanInv, RuntimeInv', NEW c \in Call, NEW k \in Key, k = call[c].key, Quit(c),
         attempts' \in [Key -> SUBSET (Nat \X {"leased", "running", "failed", "blocked"})],
         \A l \in Key \ {k} :
            UNCHANGED <<token[l], status[l], attemptCount[l], attempts[l], receipt[l], drafts[l]>>,
         Kept(k, "none", 0)', token'[k] # "draft"
  PROVE  CleanInv'
<1>1. call' = [call EXCEPT ![c] = Idle]
  BY DEF Quit
<1> QED BY <1>1, CleanStep

\* An operation other than issuance goes on to the await that follows.
LEMMA CleanGoes ==
  ASSUME CleanInv, RuntimeInv', NEW c \in Call, NEW k \in Key, k = call[c].key,
         NEW step \in Later, At(c, step), NEW m \in Nat, Continue(c, m),
         attempts' \in [Key -> SUBSET (Nat \X {"leased", "running", "failed", "blocked"})],
         \A l \in Key \ {k} :
            UNCHANGED <<token[l], status[l], attemptCount[l], attempts[l], receipt[l], drafts[l]>>,
         token'[k] # "draft",
         \A a \in Await : <<step, a>> \in Follows => Kept(k, a, m)',
         step \in Lasts => Kept(k, "none", 0)'
  PROVE  CleanInv'
<1> DEFINE d == call[c]
           s == d.todo
           t == Tail(s)
<1>1. /\ d \in CallRecord /\ InProgress(d) /\ s \in Seq(Later) /\ s # <<>> /\ Head(s) = step
      /\ d.op # "issue" /\ s[Len(s)] \in Lasts /\ Chained(s)
  BY CleanWhere DEF InProgress
<1>2. call' = [call EXCEPT ![c] = IF t = <<>> THEN Idle ELSE [d EXCEPT !.count = m, !.todo = t]]
  BY DEF Continue
<1> HIDE DEF s
<1>3. /\ t \in Seq(Later) /\ Len(t) = Len(s) - 1 /\ \A i \in 1 .. Len(t) : t[i] = s[i + 1]
      /\ Len(s) \in Nat /\ Len(t) \in Nat /\ Head(s) = s[1]
  BY <1>1, HeadTailProperties, LenProperties
<1> HIDE DEF t
<1>4. CASE t = <<>>
  <2>1. Len(s) = 1
    BY <1>3, <1>4
  <2>2. step \in Lasts
    BY <1>1, <1>3, <2>1
  <2>3. call' = [call EXCEPT ![c] = Idle]
    BY <1>2, <1>4
  <2> QED BY <2>2, <2>3, CleanStep
<1>5. CASE t # <<>>
  <2>1. Len(t) >= 1
    BY <1>3, <1>5, EmptySeq, LenProperties
  <2>2. Head(t) = t[1] /\ t[1] = s[2] /\ t[1] \in Later
    BY <1>3, <2>1
  <2>3. <<step, Head(t)>> \in Follows
    <3>1. 1 \in 1 .. Len(s) - 1 /\ 1 + 1 = 2
      BY <1>3, <2>1
    <3> QED BY <1>1, <1>3, <2>2, <3>1 DEF Chained
  <2>4. t[Len(t)] \in Lasts
    BY <1>1, <1>3, <2>1
  <2>5. PICK n : n = [d EXCEPT !.count = m, !.todo = t]
    OBVIOUS
  <2>6. n.todo = t /\ n.key = k /\ n.count = m /\ n.op = d.op
    BY <1>1, <2>5 DEF CallRecord
  <2>7. n # Idle
    BY <2>6, IdleIsFree
  <2>8. Kept(k, Head(n.todo), n.count)'
    <3>1. PICK a \in Await : a = Head(t)
      BY <2>2 DEF Later
    <3>2. Kept(k, a, m)'
      BY <2>3, <3>1
    <3> QED BY <2>6, <3>1, <3>2
  <2>9. Placed(n)'
    BY <1>1, <1>3, <2>4, <2>6 DEF Placed
  <2>10. call' = [call EXCEPT ![c] = n]
    BY <1>2, <1>5, <2>5
  <2> HIDE DEF d
  <2> QED BY <2>6, <2>7, <2>8, <2>9, <2>10, CleanStep DEF d
<1> QED BY <1>4, <1>5

LEMMA CleanReads ==
  ASSUME CleanInv, RuntimeInv', NEW c \in Call, NEW k \in Key, k = call[c].key,
         NEW step \in Later \ Lasts, NEW ok, NEW m \in Nat, Check(c, step, ok, m),
         Kept(k, "none", 0), \A a \in Await : <<step, a>> \in Follows => Kept(k, a, m)
  PROVE  CleanInv'
<1>1. At(c, step) /\ UNCHANGED <<token, status, attemptCount, attempts, receipt, drafts>>
  BY DEF Check, grant, records
<1>2. token[k] # "draft"
  BY <1>1, CleanWhere
<1>3. /\ attempts' \in [Key -> SUBSET (Nat \X {"leased", "running", "failed", "blocked"})]
      /\ \A l \in Key \ {k} :
            UNCHANGED <<token[l], status[l], attemptCount[l], attempts[l], receipt[l], drafts[l]>>
      /\ token'[k] # "draft" /\ Kept(k, "none", 0)'
      /\ \A a \in Await : <<step, a>> \in Follows => Kept(k, a, m)'
  BY <1>1, <1>2 DEF CleanInv, Kept, Numbers
<1>4. CASE Continue(c, m)
  BY <1>1, <1>3, <1>4, CleanGoes
<1>5. CASE Quit(c)
  BY <1>3, <1>5, CleanQuits
<1> QED BY <1>4, <1>5 DEF Check

LEMMA CleanReading ==
  ASSUME CleanInv, RuntimeInv', NEW c \in Call,
         ReadQueued(c) \/ ReadLeased(c) \/ ReadHeld(c) \/ ReadRunning(c) \/ ReadToken(c) \/ ReadReceipt(c)
  PROVE  CleanInv'
<1> DEFINE Reads == {"readQueued", "readLeased", "readHeld", "readRunning", "readToken", "readReceipt"}
<1> PICK k : k = call[c].key
  OBVIOUS
<1>1. PICK step \in Reads : At(c, step)
  BY DEF ReadQueued, ReadLeased, ReadHeld, ReadRunning, ReadToken, ReadReceipt, Check
<1>2. k \in Key /\ Kept(k, step, call[c].count) /\ attemptCount[k] \in Nat
  BY <1>1, CleanWhere DEF CleanInv, RuntimeInv, RowsOK
<1>3. Kept(k, "none", 0) /\ Reads \subseteq Later \ Lasts
  BY <1>2 DEF Kept, Later, Await, Lasts
<1>4. CASE ReadQueued(c)
  <2>1. \A a \in Await : <<"readQueued", a>> \in Follows => Kept(k, a, attemptCount[k])
    BY <1>2, <1>3, WhatFollows DEF Kept
  <2> QED BY <1>2, <1>3, <1>4, <2>1, CleanReads DEF ReadQueued
<1>5. CASE ReadLeased(c)
  <2>1. \A a \in Await : <<"readLeased", a>> \in Follows => Kept(k, a, attemptCount[k])
    BY <1>2, <1>3, WhatFollows DEF Kept
  <2> QED BY <1>2, <1>3, <1>5, <2>1, CleanReads DEF ReadLeased
<1>6. ASSUME NEW r \in {"readHeld", "readRunning", "readToken", "readReceipt"}, NEW ok, Check(c, r, ok, 0)
      PROVE  CleanInv'
  <2>1. \A a \in Await : <<r, a>> \in Follows => a \in {"fail", "block", "readToken", "readReceipt", "write", "succeed"}
    BY <1>6, WhatFollows
  <2>2. \A a \in Await : <<r, a>> \in Follows => Kept(k, a, 0)
    BY <1>3, <2>1 DEF Kept
  <2> QED BY <1>2, <1>3, <1>6, <2>2, CleanReads
<1> QED BY <1>4, <1>5, <1>6 DEF ReadHeld, ReadRunning, ReadToken, ReadReceipt

LEMMA CleanLeases ==
  ASSUME CleanInv, RuntimeInv', NEW c \in Call, Lease(c) \/ RunJob(c)
  PROVE  CleanInv'
<1> PICK k : k = call[c].key
  OBVIOUS
<1> DEFINE step == IF Lease(c) THEN "leaseById" ELSE "run"
<1>1. At(c, step) /\ step \in Later \ Lasts
  <2>1. "lease" \notin Later /\ {"leaseById", "run"} \subseteq Later \ Lasts
    BY DEF Later, Await, Lasts
  <2>2. ASSUME At(c, "lease") PROVE FALSE
    <3>1. Placed(call[c]) /\ Head(call[c].todo) = "lease" /\ call[c].todo # <<>>
      BY <2>2, CleanWhere
    <3>2. call[c].todo \in Seq(Later) => Head(call[c].todo) \in Later
      BY <3>1, HeadTailProperties
    <3> QED BY <2>1, <3>1, <3>2 DEF Placed, Minting, Enqueuing, Issue
  <2> QED BY <2>1, <2>2 DEF Lease, RunJob
<1>2. k \in Key /\ Kept(k, step, call[c].count) /\ Knows(step, k, call[c].worker) /\ token[k] # "draft"
  BY <1>1, CleanWhere
<1>3. /\ attemptCount' = [attemptCount EXCEPT ![k] = call[c].count + 1] /\ Continue(c, call[c].count + 1)
      /\ status' = [status EXCEPT ![k] = IF Lease(c) THEN "leased" ELSE "running"]
      /\ UNCHANGED <<token, attempts, receipt, drafts>>
  <2>1. CASE Lease(c)
    BY <1>1, <2>1 DEF Lease, CountClaimed, At, grant, records
  <2>2. CASE ~Lease(c)
    BY <2>2 DEF RunJob, grant, records
  <2> QED BY <2>1, <2>2
<1>4. /\ call[c].count = attemptCount[k] /\ attemptCount[k] \in Nat /\ Numbers(k) = 1 .. attemptCount[k]
      /\ status[k] \in {"queued", "leased"} /\ step \in {"leaseById", "run"}
  BY <1>2 DEF Kept, Knows, CleanInv, RuntimeInv, RowsOK
<1>5. /\ attemptCount'[k] = attemptCount[k] + 1 /\ status'[k] \in {"leased", "running"} /\ Numbers(k)' = Numbers(k)
      /\ \A l \in Key \ {k} : UNCHANGED <<status[l], attemptCount[l]>>
  BY <1>2, <1>3, <1>4 DEF CleanInv, RuntimeInv, RowsOK, Numbers
<1>6. \A a \in Await : <<step, a>> \in Follows => a \in {"attemptLeased", "attemptRunning"}
  BY WhatFollows
<1> HIDE DEF step
<1> PICK m : m = call[c].count + 1
  OBVIOUS
<1>7. ASSUME NEW a \in {"attemptLeased", "attemptRunning"} PROVE Kept(k, a, m)'
  <2>1. attemptCount'[k] >= 1 /\ m = attemptCount'[k] /\ attemptCount'[k] - 1 = attemptCount[k]
    BY <1>4, <1>5
  <2>2. /\ token[k] = "absent" => status[k] = "absent"
        /\ status[k] = "succeeded" <=> token[k] = "consumed"
        /\ token[k] = "consumed" <=> receipt[k] # "none"
        /\ drafts[k] > 0 => status[k] = "succeeded"
    BY <1>2, <1>4 DEF Kept
  <2> QED BY <1>3, <1>4, <1>5, <1>7, <2>1, <2>2 DEF Kept
<1>8. m \in Nat /\ Continue(c, m)
  BY <1>3, <1>4
<1> QED BY <1>1, <1>2, <1>3, <1>5, <1>6, <1>7, <1>8, CleanGoes DEF CleanInv

LEMMA CleanAttempts ==
  ASSUME CleanInv, RuntimeInv', NEW c \in Call, InsertAttempt(c)
  PROVE  CleanInv'
<1> PICK k, n : k = call[c].key /\ n = call[c].count
  OBVIOUS
<1>1. /\ DOMAIN AttemptStatus = {"attemptLeased", "attemptRunning", "attemptFailed", "attemptBlocked"}
      /\ \A a \in DOMAIN AttemptStatus : AttemptStatus[a] \in {"leased", "running", "failed", "blocked"}
  BY DEF AttemptStatus
<1>2. PICK step \in DOMAIN AttemptStatus :
        /\ At(c, step)
        /\ \/ /\ ~AttemptTaken(k, n) /\ Go(c)
              /\ attempts' = [attempts EXCEPT ![k] = @ \cup {<<n, AttemptStatus[step]>>}]
           \/ AttemptTaken(k, n) /\ Quit(c) /\ UNCHANGED attempts
  BY DEF InsertAttempt
<1>3. UNCHANGED <<token, status, attemptCount, receipt, drafts>>
  BY DEF InsertAttempt, grant
<1>4. /\ k \in Key /\ Kept(k, step, n) /\ token[k] # "draft" /\ n \in Nat
      /\ step \in Later /\ n = attemptCount[k] /\ attemptCount[k] >= 1 /\ attemptCount[k] \in Nat
  <2>1. step \in Later
    BY <1>1 DEF Later, Await
  <2>2. k \in Key /\ Kept(k, step, n) /\ token[k] # "draft" /\ call[c] \in CallRecord
    BY <1>2, <2>1, CleanWhere
  <2>3. n \in Nat /\ attemptCount[k] \in Nat
    BY <2>2 DEF CallRecord, CleanInv, RuntimeInv, RowsOK
  <2>4. n = attemptCount[k] /\ attemptCount[k] >= 1
    BY <1>1, <2>2 DEF Kept
  <2> QED BY <2>1, <2>2, <2>3, <2>4
<1>5. AttemptTaken(k, n) <=> n \in Numbers(k)
  BY DEF AttemptTaken, Numbers
<1>6. CASE step \in {"attemptFailed", "attemptBlocked"}
  <2>1. n \in Numbers(k)
    BY <1>4, <1>6 DEF Kept
  <2>2. Quit(c) /\ UNCHANGED attempts
    BY <1>2, <1>5, <2>1
  <2>3. Kept(k, "none", 0)'
    BY <1>3, <1>4, <1>6, <2>2 DEF Kept, Numbers
  <2> QED BY <1>3, <1>4, <2>2, <2>3, CleanQuits DEF CleanInv
<1>7. CASE step \in {"attemptLeased", "attemptRunning"}
  <2>1. Numbers(k) = 1 .. n - 1 /\ n \notin Numbers(k)
    BY <1>4, <1>7 DEF Kept
  <2>2. Go(c) /\ attempts' = [attempts EXCEPT ![k] = @ \cup {<<n, AttemptStatus[step]>>}]
    BY <1>2, <1>5, <2>1
  <2>3. /\ attempts' \in [Key -> SUBSET (Nat \X {"leased", "running", "failed", "blocked"})]
        /\ \A l \in Key \ {k} : attempts'[l] = attempts[l]
        /\ attempts'[k] = attempts[k] \cup {<<n, AttemptStatus[step]>>}
    BY <1>1, <1>4, <2>2 DEF CleanInv
  <2>4. Numbers(k)' = 1 .. n
    <3>1. Numbers(k)' = Numbers(k) \cup {n}
      <4> DEFINE r == <<n, AttemptStatus[step]>>
      <4>1. r[1] = n
        OBVIOUS
      <4> HIDE DEF r
      <4>2. \A x : x \in attempts'[k] <=> x \in attempts[k] \/ x = r
        BY <2>3 DEF r
      <4>3. \A i : i \in Numbers(k)' <=> \E x \in attempts'[k] : i = x[1]
        BY DEF Numbers
      <4>4. \A i : i \in Numbers(k) <=> \E x \in attempts[k] : i = x[1]
        BY DEF Numbers
      <4> QED BY <4>1, <4>2, <4>3, <4>4
    <3> QED BY <1>4, <2>1, <3>1, AttemptNumbers
  <2>5. \A a \in {"none", "readLeased", "readRunning"} : Kept(k, a, 0)'
    <3>1. /\ token[k] = "absent" => status[k] = "absent"
          /\ status[k] = "succeeded" <=> token[k] = "consumed"
          /\ token[k] = "consumed" <=> receipt[k] # "none"
          /\ drafts[k] > 0 => status[k] = "succeeded"
      BY <1>4, <1>7 DEF Kept
    <3> QED BY <1>3, <1>4, <2>4, <3>1 DEF Kept
  <2>6. \A a \in Await : <<step, a>> \in Follows => a \in {"readLeased", "readRunning"}
    BY <1>7, WhatFollows
  <2> QED BY <1>2, <1>3, <1>4, <2>2, <2>3, <2>5, <2>6, CleanGoes DEF Go
<1> QED BY <1>1, <1>6, <1>7

LEMMA CleanFails ==
  ASSUME CleanInv, RuntimeInv', NEW c \in Call, FailOrBlock(c)
  PROVE  CleanInv'
<1> PICK k, m : k = call[c].key /\ m = FailedAttempt(k)
  OBVIOUS
<1>1. PICK step \in {"fail", "block"} : At(c, step) /\ status' \in {[status EXCEPT ![k] = "failed"], [status EXCEPT ![k] = "blocked"]}
  BY DEF FailOrBlock
<1>2. step \in Later /\ step \notin Lasts
  BY DEF Later, Await, Lasts
<1>3. /\ k \in Key /\ Kept(k, step, call[c].count) /\ Knows(step, k, call[c].worker) /\ token[k] # "draft"
      /\ attemptCount[k] \in Nat /\ status \in [Key -> {"absent", "queued", "leased", "running"} \cup Final]
  BY <1>1, <1>2, CleanWhere DEF CleanInv, RuntimeInv, RowsOK
<1>4. UNCHANGED <<token, attemptCount, attempts, receipt, drafts>> /\ Continue(c, m)
  BY DEF FailOrBlock, grant, records
<1>5. m = attemptCount[k] /\ attemptCount[k] >= 1
  BY <1>3 DEF FailedAttempt, Kept, Knows
<1>6. status'[k] \in {"failed", "blocked"} /\ \A l \in Key \ {k} : status'[l] = status[l]
  BY <1>1, <1>3
<1>7. \A a \in Await : <<step, a>> \in Follows => a \in {"attemptFailed", "attemptBlocked"}
  BY WhatFollows
<1>8. \A a \in {"attemptFailed", "attemptBlocked"} : Kept(k, a, m)'
  <2>1. /\ token[k] # "absent" /\ token[k] # "consumed" /\ receipt[k] = "none" /\ ~(drafts[k] > 0)
        /\ Numbers(k) = 1 .. attemptCount[k]
    BY <1>3 DEF Kept, Knows
  <2> QED BY <1>3, <1>4, <1>5, <1>6, <2>1 DEF Kept, Numbers
<1> QED BY <1>1, <1>2, <1>3, <1>4, <1>5, <1>6, <1>7, <1>8, CleanGoes DEF CleanInv

LEMMA CleanEnds ==
  ASSUME CleanInv, RuntimeInv', NEW c \in Call, Snapshot(c) \/ ConnectorRefuses(c) \/ RecoveryPoint(c)
  PROVE  CleanInv'
<1> PICK k : k = call[c].key
  OBVIOUS
<1>1. PICK step \in {"snapshot", "write", "recoverLatest", "recoverUnknown"} : At(c, step)
  BY DEF Snapshot, ConnectorRefuses, RecoveryPoint
<1>2. step \in Later
  BY DEF Later, Await
<1>3. k \in Key /\ Kept(k, step, call[c].count) /\ token[k] # "draft"
  BY <1>1, <1>2, CleanWhere
<1>4. UNCHANGED <<token, status, attemptCount, attempts, receipt, drafts>>
  BY DEF Snapshot, ConnectorRefuses, RecoveryPoint, grant, records
<1>5. Kept(k, "none", 0)'
  BY <1>3, <1>4 DEF Kept, Numbers
<1>6. CASE Quit(c)
  BY <1>3, <1>4, <1>5, <1>6, CleanQuits DEF CleanInv
<1>7. CASE At(c, "snapshot") /\ Go(c)
  <2>1. "snapshot" \in Later /\ \A a \in Await : <<"snapshot", a>> \notin Follows
    BY WhatFollows DEF Later, Await
  <2> QED BY <1>3, <1>4, <1>5, <1>7, <2>1, CleanGoes DEF CleanInv, Go
<1> QED BY <1>6, <1>7 DEF Snapshot, ConnectorRefuses, RecoveryPoint

LEMMA CleanWrites ==
  ASSUME CleanInv, RuntimeInv', NEW c \in Call, WriteDraft(c)
  PROVE  CleanInv'
<1> PICK k : k = call[c].key
  OBVIOUS
<1>1. At(c, "write") /\ "write" \in Later /\ "write" \notin Lasts
  BY DEF WriteDraft, Later, Await, Lasts
<1>2. k \in Key /\ Kept(k, "write", call[c].count) /\ token[k] # "draft"
  BY <1>1, CleanWhere
<1>3. UNCHANGED <<token, status, attemptCount, attempts, receipt>> /\ Go(c) /\ \A l \in Key \ {k} : drafts'[l] = drafts[l]
  BY <1>2 DEF WriteDraft, grant, records, CleanInv, RuntimeInv, RowsOK
<1>4. \A a \in Await : <<"write", a>> \in Follows => a = "succeed"
  BY WhatFollows
<1>5. Kept(k, "succeed", 0)'
  BY <1>2, <1>3 DEF Kept, Numbers
<1> QED BY <1>1, <1>2, <1>3, <1>4, <1>5, CleanGoes DEF CleanInv, Go

LEMMA CleanSucceeds ==
  ASSUME CleanInv, RuntimeInv', NEW c \in Call, Succeed(c)
  PROVE  CleanInv'
<1> PICK k : k = call[c].key
  OBVIOUS
<1>1. At(c, "succeed") /\ "succeed" \in Later /\ "succeed" \notin Lasts
  BY DEF Succeed, Later, Await, Lasts
<1>2. k \in Key /\ Kept(k, "succeed", call[c].count) /\ token[k] # "draft" /\ Knows("succeed", k, call[c].worker)
  BY <1>1, CleanWhere
<1>3. /\ UNCHANGED <<token, drafts, attemptCount, attempts, receipt>> /\ Go(c)
      /\ status'[k] = "succeeded" /\ \A l \in Key \ {k} : status'[l] = status[l]
  BY <1>2 DEF Succeed, grant, records, CleanInv, RuntimeInv, RowsOK
<1>4. \A a \in Await : <<"succeed", a>> \in Follows => a = "consume"
  BY WhatFollows
<1>5. Kept(k, "consume", 0)'
  BY <1>2, <1>3 DEF Kept, Numbers, Knows
<1> QED BY <1>1, <1>2, <1>3, <1>4, <1>5, CleanGoes DEF CleanInv, Go

LEMMA CleanConsumes ==
  ASSUME CleanInv, RuntimeInv', NEW c \in Call, Consume(c)
  PROVE  CleanInv'
<1> PICK k : k = call[c].key
  OBVIOUS
<1>1. At(c, "consume") /\ "consume" \in Later /\ "consume" \notin Lasts
  BY DEF Consume, Later, Await, Lasts
<1>2. k \in Key /\ Kept(k, "consume", call[c].count) /\ Knows("consume", k, call[c].worker)
  BY <1>1, CleanWhere
<1>3. /\ UNCHANGED <<status, drafts, attemptCount, attempts, receipt>> /\ Go(c)
      /\ token'[k] = "consumed" /\ \A l \in Key \ {k} : token'[l] = token[l]
  BY <1>2 DEF Consume, grant, records, CleanInv, RuntimeInv, RowsOK
<1>4. \A a \in Await : <<"consume", a>> \in Follows => a \in {"receiptDryRun", "receiptReal"}
  BY WhatFollows
<1>5. \A a \in {"receiptDryRun", "receiptReal"} : Kept(k, a, 0)'
  BY <1>2, <1>3 DEF Kept, Numbers, Knows
<1> QED BY <1>1, <1>2, <1>3, <1>4, <1>5, CleanGoes DEF CleanInv, Go

LEMMA CleanReceipts ==
  ASSUME CleanInv, RuntimeInv', NEW c \in Call, InsertReceipt(c)
  PROVE  CleanInv'
<1> PICK k : k = call[c].key
  OBVIOUS
<1>1. PICK step \in {"receiptDryRun", "receiptReal"} : At(c, step)
  BY DEF InsertReceipt
<1>2. step \in Later /\ step \notin Lasts
  BY DEF Later, Await, Lasts
<1>3. k \in Key /\ Kept(k, step, call[c].count) /\ Knows(step, k, call[c].worker)
  BY <1>1, <1>2, CleanWhere
<1>4. receipt[k] = "none" /\ receipt \in [Key -> {"none", "dry_run", "succeeded"}]
  BY <1>3 DEF Kept, CleanInv, RuntimeInv, RowsOK
<1>5. /\ UNCHANGED <<token, status, drafts, attemptCount, attempts>> /\ Go(c)
      /\ receipt'[k] # "none" /\ \A l \in Key \ {k} : receipt'[l] = receipt[l]
  BY <1>3, <1>4 DEF InsertReceipt, grant
<1>6. \A a \in Await : <<step, a>> \in Follows => a \in {"recoverLatest", "recoverUnknown"}
  BY WhatFollows
<1>7. \A a \in {"recoverLatest", "recoverUnknown"} : Kept(k, a, 0)'
  BY <1>3, <1>5 DEF Kept, Numbers, Knows
<1>8. token'[k] # "draft"
  BY <1>3, <1>5 DEF Knows
<1> QED BY <1>1, <1>2, <1>3, <1>5, <1>6, <1>7, <1>8, CleanGoes DEF CleanInv, Go

LEMMA IssuanceGoesOn ==
  ASSUME NEW t, t \in Minting \/ t \in Enqueuing \/ t = <<"activate">>
  PROVE  t # <<>> /\ Head(t) \in {"checkFree", "insertToken", "insertJob", "activate"}
<1>1. \/ t = <<"checkFree", "insertToken", "checkFree", "insertJob", "activate">>
      \/ t = <<"insertToken", "checkFree", "insertJob", "activate">>
      \/ t = <<"checkFree", "insertJob", "activate">>
      \/ t = <<"insertJob", "activate">>
      \/ t = <<"activate">>
  BY DEF Minting, Enqueuing, Issue
<1> QED BY <1>1

\* Issuance goes on to the await that follows, or ends.
LEMMA CleanIssues ==
  ASSUME CleanInv, RuntimeInv', NEW c \in Call, NEW k \in Key, k = call[c].key, call[c] \in CallRecord, call[c].op = "issue",
         NEW t, t = Tail(call[c].todo), Go(c),
         attempts' \in [Key -> SUBSET (Nat \X {"leased", "running", "failed", "blocked"})],
         \A l \in Key \ {k} :
            UNCHANGED <<token[l], status[l], attemptCount[l], attempts[l], receipt[l], drafts[l]>>,
         Kept(k, "none", 0)',
         \/ t \in Minting /\ token'[k] # "draft"
         \/ t \in Enqueuing /\ token'[k] = "draft" /\ status'[k] = "absent"
         \/ t = <<"activate">> /\ token'[k] = "draft" /\ status'[k] = "queued"
         \/ t = <<>> /\ token'[k] # "draft"
  PROVE  CleanInv'
<1>1. call' = [call EXCEPT ![c] = IF t = <<>> THEN Idle ELSE [call[c] EXCEPT !.count = 0, !.todo = t]]
  BY DEF Go, Continue
<1>2. CASE t = <<>>
  <2>1. call' = [call EXCEPT ![c] = Idle]
    BY <1>1, <1>2
  <2>2. token'[k] # "draft"
    BY <1>2, IssuanceGoesOn
  <2> QED BY <2>1, <2>2, CleanStep
<1>3. CASE t # <<>>
  <2>1. PICK n : n = [call[c] EXCEPT !.count = 0, !.todo = t]
    OBVIOUS
  <2>2. n.key = k /\ n.todo = t /\ n.op = "issue" /\ n.count = 0
    BY <2>1 DEF CallRecord
  <2>3. n # Idle
    BY <1>3, <2>2, IdleIsFree
  <2>4. Head(t) \in {"checkFree", "insertToken", "insertJob", "activate"}
    BY <1>3, IssuanceGoesOn
  <2>5. Kept(k, Head(n.todo), n.count)'
    <3>1. PICK a \in {"checkFree", "insertToken", "insertJob", "activate"} : a = Head(t)
      BY <2>4
    <3>2. Kept(k, a, 0)'
      BY DEF Kept
    <3> QED BY <2>2, <3>1, <3>2
  <2>6. Placed(n)'
    BY <1>3, <2>2 DEF Placed
  <2>7. call' = [call EXCEPT ![c] = n]
    BY <1>1, <1>3, <2>1
  <2> QED BY <2>2, <2>3, <2>5, <2>6, <2>7, CleanStep
<1> QED BY <1>2, <1>3

LEMMA CleanIssuing ==
  ASSUME CleanInv, RuntimeInv', NEW c \in Call, CheckFree(c) \/ InsertToken(c) \/ InsertJob(c) \/ Activate(c)
  PROVE  CleanInv'
<1> PICK k, s : k = call[c].key /\ s = call[c].todo
  OBVIOUS
<1>1. PICK step \in {"checkFree", "insertToken", "insertJob", "activate"} : At(c, step)
  BY DEF CheckFree, InsertToken, InsertJob, Activate, Check
<1>2. /\ k \in Key /\ call[c] \in CallRecord /\ Kept(k, step, call[c].count) /\ Placed(call[c])
      /\ s # <<>> /\ Head(s) = step /\ Knows(step, k, call[c].worker)
  BY <1>1, CleanWhere
<1>3. call[c].op = "issue" /\ Kept(k, "none", 0)
  <2>1. ASSUME s \in Seq(Later) PROVE FALSE
    <3>1. Head(s) \in Later
      BY <1>2, <2>1, HeadTailProperties
    <3> QED BY <1>2, <3>1 DEF Later
  <2> QED BY <1>2, <2>1 DEF Placed, Kept
<1>4. \/ s \in Minting /\ token[k] # "draft"
      \/ s \in Enqueuing /\ token[k] = "draft" /\ status[k] = "absent"
      \/ s = <<"activate">> /\ token[k] = "draft" /\ status[k] = "queued"
  BY <1>2, <1>3 DEF Placed
<1>5. /\ UNCHANGED <<attemptCount, attempts, receipt, drafts>>
      /\ token \in [Key -> {"absent", "draft", "active", "consumed"}]
      /\ status \in [Key -> {"absent", "queued", "leased", "running"} \cup Final]
      /\ attempts' \in [Key -> SUBSET (Nat \X {"leased", "running", "failed", "blocked"})]
  BY DEF CheckFree, InsertToken, InsertJob, Activate, Check, records, CleanInv, RuntimeInv, RowsOK
<1>6. CASE CheckFree(c)
  <2>1. Head(s) = "checkFree" /\ UNCHANGED <<token, status>>
    BY <1>2, <1>6, CleanWhere DEF CheckFree, Check, grant, At
  <2>2. Kept(k, "none", 0)'
    BY <1>3, <1>5, <2>1 DEF Kept, Numbers
  <2>3. CASE Quit(c) /\ status[k] \in {"queued", "leased", "running", "succeeded"}
    <3>1. token'[k] # "draft"
      BY <1>4, <2>1, <2>3
    <3> QED BY <1>2, <1>5, <2>1, <2>2, <2>3, <3>1, CleanQuits
  <2>4. CASE Go(c)
    <3>1. \/ s = Issue /\ token'[k] # "draft"
          \/ s = <<"checkFree", "insertJob", "activate">> /\ token'[k] = "draft" /\ status'[k] = "absent"
      BY <1>4, <2>1 DEF Minting, Enqueuing, Issue
    <3>2. Tail(Issue) \in Minting /\ Tail(<<"checkFree", "insertJob", "activate">>) \in Enqueuing
      BY DEF Issue, Minting, Enqueuing
    <3> QED BY <1>2, <1>3, <1>5, <2>1, <2>2, <2>4, <3>1, <3>2, CleanIssues
  <2> QED BY <1>6, <2>3, <2>4 DEF CheckFree, Check, Go
<1>7. CASE InsertToken(c)
  <2>1. Head(s) = "insertToken" /\ UNCHANGED status
    BY <1>2, <1>7, CleanWhere DEF InsertToken, At
  <2>2. CASE Quit(c) /\ UNCHANGED token
    <3>1. token'[k] # "draft"
      BY <1>4, <2>1, <2>2 DEF Enqueuing
    <3>2. Kept(k, "none", 0)'
      BY <1>3, <1>5, <2>1, <2>2 DEF Kept, Numbers
    <3> QED BY <1>2, <1>5, <2>1, <2>2, <3>1, <3>2, CleanQuits
  <2>3. CASE TokenFree(k) /\ token' = [token EXCEPT ![k] = "draft"] /\ Go(c)
    <3>1. token[k] = "absent" /\ status[k] = "absent"
      BY <1>3, <2>3 DEF TokenFree, Kept
    <3>2. token'[k] = "draft" /\ \A l \in Key \ {k} : token'[l] = token[l]
      BY <1>2, <1>5, <2>3
    <3>3. Kept(k, "none", 0)'
      BY <1>3, <1>5, <2>1, <3>1, <3>2 DEF Kept, Numbers
    <3>4. s = <<"insertToken", "checkFree", "insertJob", "activate">>
      BY <1>4, <2>1, <3>1 DEF Minting, Issue
    <3>5. Tail(s) \in Enqueuing
      BY <3>4 DEF Enqueuing
    <3> QED BY <1>2, <1>3, <1>5, <2>1, <2>3, <3>1, <3>2, <3>3, <3>5, CleanIssues
  <2> QED BY <1>7, <2>2, <2>3 DEF InsertToken
<1>8. CASE InsertJob(c)
  <2>1. Head(s) = "insertJob" /\ UNCHANGED token
    BY <1>2, <1>8, CleanWhere DEF InsertJob, At, grant
  <2>2. s = <<"insertJob", "activate">> /\ token[k] = "draft" /\ status[k] = "absent"
    BY <1>4, <2>1 DEF Minting, Enqueuing, Issue
  <2>3. status' = [status EXCEPT ![k] = "queued"] /\ Go(c)
    BY <1>8, <2>2 DEF InsertJob
  <2>4. status'[k] = "queued" /\ \A l \in Key \ {k} : status'[l] = status[l]
    BY <1>2, <1>5, <2>3
  <2>5. Kept(k, "none", 0)'
    BY <1>3, <1>5, <2>1, <2>2, <2>4 DEF Kept, Numbers
  <2>6. Tail(s) = <<"activate">>
    BY <2>2
  <2> QED BY <1>2, <1>3, <1>5, <2>1, <2>2, <2>3, <2>4, <2>5, <2>6, CleanIssues
<1>9. CASE Activate(c)
  <2>1. Head(s) = "activate" /\ UNCHANGED status /\ Go(c) /\ token' = [token EXCEPT ![k] = "active"]
    BY <1>2, <1>9, CleanWhere DEF Activate, At
  <2>2. s = <<"activate">> /\ token[k] = "draft" /\ status[k] = "queued"
    BY <1>4, <2>1 DEF Minting, Enqueuing, Issue
  <2>3. token'[k] = "active" /\ \A l \in Key \ {k} : token'[l] = token[l]
    BY <1>2, <1>5, <2>1
  <2>4. Kept(k, "none", 0)'
    BY <1>3, <1>5, <2>1, <2>2, <2>3 DEF Kept, Numbers
  <2>5. Tail(s) = <<>>
    BY <2>2
  <2> QED BY <1>2, <1>3, <1>5, <2>1, <2>3, <2>4, <2>5, CleanIssues
<1> QED BY <1>6, <1>7, <1>8, <1>9

\* Callers take turns on a job, none is cut off, and jobs are claimed by id.
TakesTurnsById == ~Overlap /\ "abort" \notin Faults /\ Op \cap {"postToken", "postJob", "claim"} = {}

LEMMA CleanBegins ==
  ASSUME TakesTurnsById, CleanInv, RuntimeInv', NEW c \in Call, Begin(c)
  PROVE  CleanInv'
<1>1. PICK op \in Op, k \in Key, w \in Worker :
        ~Busy(k) /\ call' = [call EXCEPT ![c] = [op |-> op, key |-> k, worker |-> w, count |-> 0, todo |-> Program[op]]]
  BY DEF Begin, TakesTurnsById
<1>2. call[c] = Idle /\ UNCHANGED <<token, status, attemptCount, attempts, receipt, drafts>>
  BY DEF Begin, grant, records
<1>3. PICK n : n = [op |-> op, key |-> k, worker |-> w, count |-> 0, todo |-> Program[op]]
  OBVIOUS
<1>4. n.op = op /\ n.key = k /\ n.count = 0 /\ n.todo = Program[op]
  BY <1>3
<1>5. Kept(k, "none", 0) /\ token[k] # "draft"
  BY <1>1 DEF CleanInv
<1>6. op \in DOMAIN Program /\ op \notin {"postToken", "postJob", "claim"}
  BY OpAssumption DEF TakesTurnsById
<1>7. Program[op] # <<>> /\ Program[op][Len(Program[op])] \in Lasts /\ Head(Program[op]) \in Firsts
  BY <1>6, OperationsChained
<1>8. Kept(k, Head(n.todo), n.count)'
  <2>1. PICK a \in Firsts : a = Head(Program[op])
    BY <1>7
  <2>2. Kept(k, a, 0)'
    BY <1>2, <1>5 DEF Kept, Numbers, Firsts
  <2> QED BY <1>4, <2>1, <2>2
<1>9. Placed(n)'
  <2>1. op = "issue" => Program[op] \in Minting
    BY DEF Program, Minting
  <2> QED BY <1>2, <1>4, <1>5, <1>6, <1>7, <2>1, LaterOperations DEF Placed
<1>10. call' = [call EXCEPT ![c] = n]
  BY <1>1, <1>3
<1>11. call[c].key = None /\ n # Idle
  BY <1>2, <1>4, NullAssumption DEF Idle
<1> QED BY <1>2, <1>4, <1>8, <1>9, <1>10, <1>11, CleanStep DEF CleanInv

LEMMA CleanNext ==
  ASSUME TakesTurnsById, CleanInv, [Next]_vars
  PROVE  CleanInv'
<1>0. RuntimeInv'
  BY NextKeeps DEF CleanInv, TakesTurnsById
<1>1. ASSUME NEW c \in Call, Step(c) PROVE CleanInv'
  BY <1>0, <1>1, CleanIssuing, CleanReading, CleanLeases, CleanAttempts, CleanFails, CleanEnds, CleanWrites,
     CleanSucceeds, CleanConsumes, CleanReceipts DEF Step
<1>2. CASE UNCHANGED <<token, status, attemptCount, attempts, receipt, drafts, call>>
  <2>1. ASSUME NEW k \in Key, ~Busy(k)' PROVE Kept(k, "none", 0)' /\ token'[k] # "draft"
    <3>1. Kept(k, "none", 0) /\ token[k] # "draft"
      BY <1>2, <2>1 DEF CleanInv, Busy
    <3> QED BY <1>2, <3>1 DEF Kept, Numbers
  <2>2. ASSUME NEW d \in Call, call'[d] # Idle
        PROVE  Kept(call[d].key, Head(call[d].todo), call[d].count)' /\ Placed(call[d])'
    <3>1. call'[d] = call[d] /\ Kept(call[d].key, Head(call[d].todo), call[d].count) /\ Placed(call[d])
      BY <1>2, <2>2 DEF CleanInv
    <3> PICK e, l, a, m : e = call[d] /\ l = e.key /\ a = Head(e.todo) /\ m = e.count
      OBVIOUS
    <3>2. Kept(l, a, m)' /\ Placed(e)'
      BY <1>2, <3>1 DEF Kept, Numbers, Placed
    <3> QED BY <3>1, <3>2
  <2> QED BY <1>0, <1>2, <2>1, <2>2 DEF CleanInv
<1>3. ASSUME NEW c \in Call, Begin(c) PROVE CleanInv'
  BY <1>0, <1>3, CleanBegins
<1>4. ASSUME NEW c \in Call, Abort(c) PROVE FALSE
  BY <1>4 DEF Abort, TakesTurnsById
<1> QED BY <1>1, <1>2, <1>3, <1>4 DEF Next, TokenExpires, records, vars

LEMMA CleanHolds == TakesTurnsById /\ Spec => []CleanInv
<1> SUFFICES ASSUME TakesTurnsById PROVE Spec => []CleanInv
  OBVIOUS
<1>1. Init => CleanInv
  BY IdleIsFree DEF Init, CleanInv, RuntimeInv, RowsOK, CallsKnow, TakeTurns, ReceiptIsLast, Kept, Numbers
<1>2. CleanInv /\ [Next]_vars => CleanInv'
  BY CleanNext
<1> QED BY <1>1, <1>2, PTL DEF Spec

\* A completion is whole once it is over (runtime-execution/repository.ts): while
\* callers take turns on a job and none is cut off, a job without a call in flight has
\* succeeded exactly if its token is spent and its receipt is there.
THEOREM CompletionIsWholeHolds == TakesTurnsById /\ Spec => []CompletionIsWhole
<1>1. CleanInv => CompletionIsWhole
  BY DEF CleanInv, CompletionIsWhole, Kept
<1> QED BY <1>1, CleanHolds, PTL

\* The attempt log of a job numbers its rows from 1 to attemptCount once no call is in
\* flight, although the count is written from a stale read and before the row.
THEOREM AttemptLogMatchesHolds == TakesTurnsById /\ Spec => []AttemptLogMatches
<1>1. CleanInv => AttemptLogMatches
  BY DEF CleanInv, AttemptLogMatches, Kept, Numbers
<1> QED BY <1>1, CleanHolds, PTL

\* Only three awaits move the token or the drafts in a way the contract sees.
LEMMA StepGrants ==
  ASSUME CleanInv, NEW c \in Call, Activate(c) \/ WriteDraft(c) \/ Consume(c) \/ InsertToken(c)
  PROVE  [Contract!Next]_(Contract!vars)
<1> PICK k : k = call[c].key
  OBVIOUS
<1>1. /\ token \in [Key -> {"absent", "draft", "active", "consumed"}] /\ drafts \in [Key -> Nat]
      /\ status \in [Key -> {"absent", "queued", "leased", "running"} \cup Final]
  BY DEF CleanInv, RuntimeInv, RowsOK
<1>2. \A l \in Key : token'[l] = token[l] /\ drafts'[l] = drafts[l] => Phase(l)' = Phase(l)
  BY DEF Phase
<1>3. ASSUME NEW p, k \in Key, Phase(k)' = p, \A l \in Key \ {k} : Phase(l)' = Phase(l)
      PROVE  GrantPhase' = [GrantPhase EXCEPT ![k] = p]
  BY <1>3 DEF GrantPhase
<1>4. k \in Key => GrantPhase[k] = Phase(k)
  BY DEF GrantPhase
<1>5. CASE Activate(c)
  <2>1. At(c, "activate") /\ token' = [token EXCEPT ![k] = "active"] /\ UNCHANGED drafts
    BY <1>5 DEF Activate
  <2>2. k \in Key /\ Placed(call[c]) /\ Kept(k, "activate", call[c].count) /\ call[c].todo # <<>> /\ Head(call[c].todo) = "activate"
    BY <2>1, CleanWhere
  <2>3. "activate" \notin Later
    BY DEF Later
  <2>4. call[c].todo \notin Seq(Later)
    BY <2>2, <2>3, HeadTailProperties
  <2>5. token[k] = "draft" /\ status[k] = "queued"
    BY <2>2, <2>4 DEF Placed, Minting, Enqueuing, Issue
  <2>6. drafts[k] = 0
    BY <1>1, <2>2, <2>5 DEF Kept
  <2>7. Phase(k) = "ungranted" /\ Phase(k)' = "granted"
    BY <1>1, <2>1, <2>2, <2>5, <2>6 DEF Phase
  <2>8. \A l \in Key \ {k} : Phase(l)' = Phase(l)
    BY <1>1, <1>2, <2>1, <2>2
  <2>9. GrantPhase' = [GrantPhase EXCEPT ![k] = "granted"]
    BY <1>3, <2>2, <2>7, <2>8
  <2>10. Contract!Grant(k)
    BY <1>4, <2>1, <2>2, <2>7, <2>9 DEF Contract!Grant
  <2> QED BY <2>2, <2>10 DEF Contract!Next
<1>6. CASE WriteDraft(c)
  <2>1. At(c, "write") /\ drafts' = [drafts EXCEPT ![k] = IF @ < DraftBound THEN @ + 1 ELSE @] /\ UNCHANGED token
    BY <1>6 DEF WriteDraft, grant
  <2>2. k \in Key /\ Kept(k, "write", call[c].count) /\ Knows("write", k, call[c].worker)
    BY <2>1, CleanWhere
  <2>3. drafts[k] = 0 /\ token[k] = "active"
    BY <1>1, <2>2 DEF Kept, Knows
  <2>4. drafts' = [drafts EXCEPT ![k] = @ + 1] /\ drafts'[k] = 1
    <3>1. (IF drafts[k] < DraftBound THEN drafts[k] + 1 ELSE drafts[k]) = drafts[k] + 1 /\ drafts[k] + 1 = 1
      BY <2>3, DraftAssumption
    <3>2. drafts' = [drafts EXCEPT ![k] = drafts[k] + 1]
      BY <2>1, <3>1
    <3> QED BY <1>1, <2>2, <3>1, <3>2
  <2>5. Phase(k) = "granted" /\ Phase(k)' = "performed"
    BY <1>1, <2>1, <2>2, <2>3, <2>4 DEF Phase
  <2>6. \A l \in Key \ {k} : Phase(l)' = Phase(l)
    BY <1>1, <1>2, <2>1, <2>2
  <2>7. GrantPhase' = [GrantPhase EXCEPT ![k] = "performed"]
    BY <1>3, <2>2, <2>5, <2>6
  <2>8. Contract!Perform(k)
    BY <1>4, <2>2, <2>4, <2>5, <2>7 DEF Contract!Perform
  <2> QED BY <2>2, <2>8 DEF Contract!Next
<1>7. CASE Consume(c)
  <2>1. At(c, "consume") /\ token' = [token EXCEPT ![k] = "consumed"] /\ UNCHANGED drafts
    BY <1>7 DEF Consume
  <2>2. k \in Key /\ Knows("consume", k, call[c].worker)
    BY <2>1, CleanWhere
  <2>3. Phase(k) \in {"granted", "performed"} /\ Phase(k)' = "spent"
    BY <1>1, <2>1, <2>2 DEF Knows, Phase
  <2>4. \A l \in Key \ {k} : Phase(l)' = Phase(l)
    BY <1>1, <1>2, <2>1, <2>2
  <2>5. GrantPhase' = [GrantPhase EXCEPT ![k] = "spent"]
    BY <1>3, <2>2, <2>3, <2>4
  <2>6. Contract!Spend(k)
    BY <1>4, <2>1, <2>2, <2>3, <2>5 DEF Contract!Spend
  <2> QED BY <2>2, <2>6 DEF Contract!Next
<1>8. CASE InsertToken(c)
  <2>1. At(c, "insertToken") /\ UNCHANGED drafts
    BY <1>8 DEF InsertToken
  <2>2. k \in Key
    BY <2>1, CleanWhere
  <2>3. token' = token \/ (token[k] = "absent" /\ token' = [token EXCEPT ![k] = "draft"])
    BY <1>8 DEF InsertToken, TokenFree
  <2>4. \A l \in Key : Phase(l)' = Phase(l)
    BY <1>1, <2>1, <2>2, <2>3 DEF Phase
  <2>5. GrantPhase' = GrantPhase
    BY <2>4 DEF GrantPhase
  <2> QED BY <2>1, <2>5 DEF Contract!vars
<1> QED BY <1>5, <1>6, <1>7, <1>8

\* A token is what its contract says (GrantContract): granted once, good for one
\* draft, spent for good, however many plans, workers and calls there are.
THEOREM RuntimeImplementsGrant == TakesTurnsById /\ Spec => ImplementsGrant
<1> SUFFICES ASSUME TakesTurnsById PROVE Spec => Contract!Spec
  BY DEF ImplementsGrant
<1>1. Init => Contract!Init
  BY DEF Init, Contract!Init, GrantPhase, Phase
<1>2. CleanInv /\ [Next]_vars => [Contract!Next]_(Contract!vars)
  <2> SUFFICES ASSUME CleanInv, [Next]_vars PROVE [Contract!Next]_(Contract!vars)
    OBVIOUS
  <2>1. ASSUME UNCHANGED <<token, drafts>> PROVE UNCHANGED Contract!vars
    BY <2>1 DEF Contract!vars, GrantPhase, Phase
  <2>2. \/ \E c \in Call : Activate(c) \/ WriteDraft(c) \/ Consume(c) \/ InsertToken(c)
        \/ UNCHANGED <<token, drafts>>
    BY DEF Next, TokenExpires, Begin, Abort, Step, CheckFree, InsertJob, ReadQueued, Lease, ReadLeased, RunJob,
           InsertAttempt, ReadHeld, FailOrBlock, Snapshot, ReadRunning, ReadToken, ReadReceipt, ConnectorRefuses, Succeed,
           InsertReceipt, RecoveryPoint, Check, grant, records, vars
  <2> QED BY <2>1, <2>2, StepGrants
<1> QED BY <1>1, <1>2, CleanHolds, PTL DEF Spec, Contract!Spec
=============================================================================
