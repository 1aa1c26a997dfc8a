------------------------- MODULE HarmonyTasks_proofs -------------------------
(***************************************************************************)
(* Proofs about HarmonyTasks, for any tasks, requests, analyses, and beside  *)
(* any run of the loop.  A request checks what it read awaits before it      *)
(* writes; what the next await of a request tells is what nothing that comes *)
(* between can have undone.                                                 *)
(***************************************************************************)
EXTENDS HarmonyTasks, SequenceTheorems, FiniteSetTheorems, TLAPS

-----------------------------------------------------------------------------
(* The awaits a request has still to make *)

Todo == {<<>>,
         <<"findTask", "insertTask">>, <<"insertTask">>,
         <<"readApprovable", "approve">>, <<"approve">>,
         <<"readRejectable", "reject">>, <<"reject">>,
         <<"readCancellable", "cancel">>, <<"cancel">>,
         <<"findRun", "readEligible", "produce", "commit", "reread">>,
         <<"readEligible", "produce", "commit", "reread">>,
         <<"produce", "commit", "reread">>, <<"commit", "reread">>, <<"reread">>}

\* Which await comes after which.
After == {<<"findTask", "insertTask">>, <<"readApprovable", "approve">>,
          <<"readRejectable", "reject">>, <<"readCancellable", "cancel">>,
          <<"findRun", "readEligible">>, <<"readEligible", "produce">>,
          <<"produce", "commit">>, <<"commit", "reread">>}

LEMMA TodoShrinks ==
  ASSUME NEW s \in Todo, s # <<>>
  PROVE  /\ Tail(s) \in Todo
         /\ Tail(s) # <<>> => <<Head(s), Head(Tail(s))>> \in After
<1>1. /\ \A a : Head(<<a>>) = a /\ Tail(<<a>>) = <<>>
      /\ \A a, b : Head(<<a, b>>) = a /\ Tail(<<a, b>>) = <<b>>
  OBVIOUS
<1>2. CASE s \in {<<"insertTask">>, <<"approve">>, <<"reject">>, <<"cancel">>, <<"reread">>}
  BY <1>1, <1>2 DEF Todo
<1>3. CASE s \in {<<"findTask", "insertTask">>, <<"readApprovable", "approve">>,
                  <<"readRejectable", "reject">>, <<"readCancellable", "cancel">>,
                  <<"commit", "reread">>}
  <2>1. PICK a, b : s = <<a, b>> /\ <<a, b>> \in After /\ <<b>> \in Todo
    BY <1>3 DEF Todo, After
  <2>2. Head(s) = a /\ Tail(s) = <<b>> /\ Head(<<b>>) = b
    BY <1>1, <2>1
  <2> QED BY <2>1, <2>2
<1>4. CASE s = <<"produce", "commit", "reread">>
  <2>1. Head(s) = "produce" /\ Tail(s) = <<"commit", "reread">>
    BY <1>4
  <2> QED BY <1>1, <2>1 DEF Todo, After
<1>5. CASE s = <<"readEligible", "produce", "commit", "reread">>
  <2>1. Head(s) = "readEligible" /\ Tail(s) = <<"produce", "commit", "reread">>
    BY <1>5
  <2>2. Head(<<"produce", "commit", "reread">>) = "produce"
    OBVIOUS
  <2> QED BY <2>1, <2>2 DEF Todo, After
<1>6. CASE s = <<"findRun", "readEligible", "produce", "commit", "reread">>
  <2>1. Head(s) = "findRun" /\ Tail(s) = <<"readEligible", "produce", "commit", "reread">>
    BY <1>6
  <2>2. Head(<<"readEligible", "produce", "commit", "reread">>) = "readEligible"
    OBVIOUS
  <2> QED BY <2>1, <2>2 DEF Todo, After
<1> QED BY <1>2, <1>3, <1>4, <1>5, <1>6 DEF Todo

LEMMA ProgramBegins ==
  ASSUME NEW op \in DOMAIN Program
  PROVE  /\ Program[op] \in Todo /\ Program[op] # <<>>
         /\ Head(Program[op]) \in {"findTask", "readApprovable", "readRejectable",
                                   "readCancellable", "findRun"}
         /\ Head(Program[op]) \in {"readApprovable", "readRejectable"} => op \in {"approve", "reject"}
BY DEF Program, Analysis, Todo

\* The loop moves a task neither back into the queue nor out of existence.
LEMMA LoopMoves ==
  ASSUME NEW s, NEW outcome, NEW decision, Allowed(s, eventOf(outcome, decision))
  PROVE  transition(s, eventOf(outcome, decision)) \in Status \ {"queued"}
<1> DEFINE e == eventOf(outcome, decision)
           m == CHOOSE t \in transitions : t[1] = s /\ t[2] = e
<1>1. e \in {"FAIL", "REQUEST_CONFIRMATION_FROM_ANALYSIS", "BLOCK", "MARK_COMPLETED"}
  BY DEF eventOf
<1>2. \E t \in transitions : t[1] = s /\ t[2] = e
  BY DEF Allowed
<1>3. m \in transitions /\ m[2] = e
  <2> HIDE DEF e
  <2> QED BY <1>2
<1>4. \A t \in transitions : t[2] \in {"FAIL", "REQUEST_CONFIRMATION_FROM_ANALYSIS", "BLOCK",
                                       "MARK_COMPLETED"} => t[3] \in Status \ {"queued"}
  BY DEF transitions, Status
<1> QED
  <2>1. transition(s, e) = m[3]
    BY DEF transition
  <2> HIDE DEF m
  <2> QED BY <1>1, <1>3, <1>4, <2>1

-----------------------------------------------------------------------------
(* The inductive invariant *)

Operation == {"none", "route", "approve", "reject", "cancel", "analyse", "analyseKeyed"}

CallSet == [op : Operation, task : Task \cup {None}, idx : Nat, result : Result \cup {"none"},
            todo : Todo]

HarmonyType ==
  /\ created \in Seq(Task) /\ bornPending \subseteq Task
  /\ status \in [Task -> {"absent"} \cup Status]
  /\ confirmations \in [Task -> Seq({"pending", "approved", "rejected"})]
  /\ runs \in [Task -> Seq([result : Result, keyed : BOOLEAN])]
  /\ request \in [Request -> CallSet]
  /\ \A c \in Request : request[c].todo # <<>> => request[c].task \in Task

Pending(t) == {i \in 1 .. Len(confirmations[t]) : confirmations[t][i] = "pending"}

\* The fields of NoLoop.  Whenever the loop is at a task there is one to be at.
LoopInv ==
  /\ loop = [status |-> loop.status, step |-> loop.step, iteration |-> loop.iteration,
             failures |-> loop.failures, failed |-> loop.failed, ready |-> loop.ready,
             child |-> loop.child, outcome |-> loop.outcome, decision |-> loop.decision,
             saw |-> loop.saw]
  /\ loop.ready \in Seq(Task)
  /\ loop.status = "running" /\ loop.step # "scan" => loop.ready # <<>>
  /\ loop.child # None => loop.step = "await"

\* Requests take turns unless the mode lets them overlap, and only one mode has a loop.
Turns ==
  /\ LoopInv
  /\ mode # "loop" => loop = NoLoop
  /\ mode = "serial" => \A c, d \in Request : request[c] # Idle /\ request[d] # Idle => c = d

\* Was there, and approved if it had to be: nothing that happens later undoes it.
Analysable(t) == status[t] # "absent" /\ (t \in bornPending => t \in approved)

\* The confirmation to decide is there; it may have been decided meanwhile.
HasConfirmation(c) ==
  /\ status[request[c].task] # "absent"
  /\ request[c].idx \in 1 .. Len(confirmations[request[c].task])

\* What the next await of a request tells; more when requests take turns.
CallFact(c) ==
  /\ At(c, "readApprovable") \/ At(c, "readRejectable") \/ At(c, "approve") \/ At(c, "reject")
       => HasConfirmation(c)
  /\ At(c, "produce") \/ At(c, "commit") => Analysable(request[c].task)
  /\ At(c, "commit") => request[c].result \in Result
  /\ mode = "serial" =>
       /\ At(c, "produce") \/ At(c, "commit") =>
            status[request[c].task] = "queued" /\ Pending(request[c].task) = {}
       /\ At(c, "approve") \/ At(c, "reject") =>
            /\ status[request[c].task] = "pending_confirmation"
            /\ request[c].idx \in Pending(request[c].task)

\* A task that waits for its approval is neither in the queue nor analysed.  A
\* pending confirmation keeps a task out of the queue when requests take turns.
TaskFact(t) ==
  /\ t \in bornPending \ approved => status[t] # "queued" /\ runs[t] = <<>>
  /\ status[t] = "absent" => runs[t] = <<>> /\ t \notin bornPending
  /\ \A i, j \in 1 .. Len(runs[t]) : runs[t][i].keyed /\ runs[t][j].keyed => i = j
  /\ mode # "loop" /\ status[t] = "pending_confirmation" => Pending(t) # {}
  /\ mode = "serial" =>
       /\ Pending(t) # {} => status[t] \in {"pending_confirmation", "cancelled"}
       /\ \A i, j \in Pending(t) : i = j

HarmonyInv ==
  /\ HarmonyType /\ Turns
  /\ \A c \in Request : CallFact(c)
  /\ \A t \in Task : TaskFact(t)

LEMMA HarmonyBegins == Init => HarmonyInv
<1> SUFFICES ASSUME Init PROVE HarmonyInv
  OBVIOUS
<1>1. /\ \A c \in Request : request[c] = Idle
      /\ Idle \in CallSet /\ Idle.todo = <<>> /\ loop = NoLoop
  BY DEF Init, Idle, CallSet, Operation, Todo
<1> DEFINE b == bornPending
<1>2. /\ b \subseteq Range(created)
      /\ status = [t \in Task |->
           IF t \notin Range(created) THEN "absent"
           ELSE IF t \in b THEN "pending_confirmation" ELSE "queued"]
      /\ confirmations = [t \in Task |-> IF t \in b THEN <<"pending">> ELSE <<>>]
  BY DEF Init
<1>3. HarmonyType
  <2>1. status \in [Task -> {"absent"} \cup Status]
    BY <1>2 DEF Status
  <2>2. confirmations \in [Task -> Seq({"pending", "approved", "rejected"})]
    <3>1. <<"pending">> \in Seq({"pending", "approved", "rejected"}) /\ <<>> \in Seq({"pending", "approved", "rejected"})
      OBVIOUS
    <3> QED BY <1>2, <3>1
  <2>3. runs \in [Task -> Seq([result : Result, keyed : BOOLEAN])]
    BY DEF Init
  <2>4. request \in [Request -> CallSet]
    BY <1>1 DEF Init
  <2>5. created \in Seq(Task)
    BY HarmonyAssumption DEF Init
  <2>6. bornPending \subseteq Task
    <3>1. \A i \in DOMAIN created : created[i] \in Task
      BY <2>5
    <3> QED BY <1>2, <3>1 DEF Range
  <2>7. \A c \in Request : request[c].todo = <<>>
    BY <1>1 DEF Init, Idle
  <2> QED BY <1>1, <2>1, <2>2, <2>3, <2>4, <2>5, <2>6, <2>7 DEF HarmonyType
<1>4. ASSUME NEW t \in Task PROVE TaskFact(t)
  <2>1. runs[t] = <<>>
    BY DEF Init
  <2>2. CASE t \in b
    <3>1. confirmations[t] = <<"pending">> /\ Len(<<"pending">>) = 1 /\ <<"pending">>[1] = "pending"
      BY <1>2, <2>2
    <3>2. Pending(t) = {1}
      BY <3>1 DEF Pending
    <3> QED BY <1>2, <2>1, <2>2, <3>2 DEF TaskFact
  <2>3. CASE t \notin b
    <3>1. confirmations[t] = <<>>
      BY <1>2, <2>3
    <3>2. Pending(t) = {}
      BY <3>1 DEF Pending
    <3> QED BY <1>2, <2>1, <2>3, <3>2 DEF TaskFact
  <2> QED BY <2>2, <2>3
<1>5. \A c \in Request : CallFact(c)
  BY <1>1 DEF CallFact, At
<1>6. Turns
  <2>1. LoopInv
    BY <1>1 DEF LoopInv, NoLoop
  <2> QED BY <1>1, <2>1 DEF Turns
<1> QED BY <1>3, <1>4, <1>5, <1>6 DEF HarmonyInv

-----------------------------------------------------------------------------
(* How a request goes on *)

LEMMA EndMoves ==
  ASSUME HarmonyInv, NEW c \in Request, NEW outcome, End(c, outcome), mode' = mode
  PROVE  /\ request'[c] = Idle /\ \A d \in Request \ {c} : request'[d] = request[d]
         /\ request' \in [Request -> CallSet]
         /\ \A d \in Request : request'[d].todo # <<>> => request'[d].task \in Task
         /\ Turns'
<1>1. Idle \in CallSet /\ Idle.todo = <<>>
  BY DEF Idle, CallSet, Operation, Todo
<1>2. request' = [request EXCEPT ![c] = Idle] /\ request \in [Request -> CallSet]
  BY DEF End, HarmonyInv, HarmonyType
<1>3. mode # "loop" => loop' = loop
  BY HarmonyAssumption DEF End, HarmonyInv, Turns, NoLoop
<1>4. LoopInv'
  <2>1. CASE loop' = loop
    BY <2>1 DEF HarmonyInv, Turns, LoopInv
  <2>2. CASE /\ loop.child = c
             /\ loop' = [loop EXCEPT !.child = None, !.outcome = outcome,
                          !.step = IF outcome = "error" THEN "readAdvance" ELSE "review"]
    <3>1. LoopInv /\ loop.step = "await"
      BY <2>2, HarmonyAssumption DEF HarmonyInv, Turns, LoopInv
    <3> DEFINE s == IF outcome = "error" THEN "readAdvance" ELSE "review"
    <3>2. loop' = [status |-> loop.status, step |-> s, iteration |-> loop.iteration,
             failures |-> loop.failures, failed |-> loop.failed, ready |-> loop.ready,
             child |-> None, outcome |-> outcome, decision |-> loop.decision,
             saw |-> loop.saw]
      BY <2>2, <3>1 DEF LoopInv
    <3> QED BY <3>1, <3>2 DEF LoopInv
  <2> QED BY <2>1, <2>2 DEF End
<1> QED BY <1>1, <1>2, <1>3, <1>4 DEF HarmonyInv, HarmonyType, Turns

LEMMA GoMoves ==
  ASSUME HarmonyInv, NEW c \in Request, request[c].todo # <<>>,
         NEW r \in Result \cup {"none"},
         Go(c, [request[c] EXCEPT !.result = r]), mode' = mode, loop' = loop
  PROVE  /\ request'[c].todo = Tail(request[c].todo) /\ request'[c].task = request[c].task
         /\ request'[c].idx = request[c].idx /\ request'[c].result = r
         /\ request'[c].todo # <<>> => <<Head(request[c].todo), Head(request'[c].todo)>> \in After
         /\ \A d \in Request \ {c} : request'[d] = request[d]
         /\ request' \in [Request -> CallSet]
         /\ \A d \in Request : request'[d].todo # <<>> => request'[d].task \in Task
         /\ Turns'
<1>1. request \in [Request -> CallSet] /\ request[c] \in CallSet /\ request[c].todo \in Todo
  BY DEF HarmonyInv, HarmonyType, CallSet
<1>2. /\ Tail(request[c].todo) \in Todo
      /\ Tail(request[c].todo) # <<>> =>
           <<Head(request[c].todo), Head(Tail(request[c].todo))>> \in After
  BY <1>1, TodoShrinks
<1>3. /\ request' = [request EXCEPT ![c] = request'[c]]
      /\ request'[c] = [op |-> request[c].op, task |-> request[c].task, idx |-> request[c].idx,
                        result |-> r, todo |-> Tail(request[c].todo)]
  BY <1>1 DEF Go, CallSet
<1>4. request'[c] \in CallSet
  BY <1>1, <1>2, <1>3 DEF CallSet
<1>5. request[c] # Idle
  BY DEF Idle
<1>6. Turns'
  BY <1>1, <1>3, <1>5 DEF HarmonyInv, Turns, LoopInv
<1>7. \A d \in Request \ {c} : request'[d] = request[d]
  BY <1>1, <1>3
<1>8. request' \in [Request -> CallSet]
  BY <1>1, <1>3, <1>4
<1>9. /\ request'[c].todo = Tail(request[c].todo) /\ request'[c].task = request[c].task
      /\ request'[c].idx = request[c].idx /\ request'[c].result = r
  BY <1>3
<1>10. \A d \in Request : request'[d].todo # <<>> => request'[d].task \in Task
  BY <1>7, <1>9 DEF HarmonyInv, HarmonyType
<1> QED BY <1>2, <1>6, <1>7, <1>8, <1>9, <1>10

LEMMA GoOn ==
  ASSUME HarmonyInv, NEW c \in Request, request[c].todo # <<>>, Go(c, request[c]),
         mode' = mode, loop' = loop
  PROVE  Go(c, [request[c] EXCEPT !.result = request[c].result])
         /\ request[c].result \in Result \cup {"none"}
<1>1. request[c] \in CallSet
  BY DEF HarmonyInv, HarmonyType
<1>2. [request[c] EXCEPT !.result = request[c].result] = request[c]
  BY <1>1 DEF CallSet
<1> QED BY <1>1, <1>2 DEF CallSet

-----------------------------------------------------------------------------
(* What no step undoes *)

TasksType ==
  /\ created \in Seq(Task) /\ bornPending \subseteq Task
  /\ status \in [Task -> {"absent"} \cup Status]
  /\ confirmations \in [Task -> Seq({"pending", "approved", "rejected"})]
  /\ runs \in [Task -> Seq([result : Result, keyed : BOOLEAN])]

Lasting ==
  /\ \A t \in Task : status[t] # "absent" =>
       /\ status'[t] # "absent"
       /\ 1 .. Len(confirmations[t]) \subseteq 1 .. Len(confirmations'[t])
       /\ t \in bornPending' => t \in bornPending
  /\ approved \subseteq approved'

LEMMA OthersKeep ==
  ASSUME HarmonyInv, Lasting, mode' = mode, NEW c \in Request, request[c] # Idle,
         NEW d \in Request \ {c}, request'[d] = request[d]
  PROVE  CallFact(d)'
<1>1. CASE request[d].todo = <<>>
  BY <1>1 DEF CallFact, At
<1>2. CASE request[d].todo # <<>>
  <2>1. request[d].task \in Task /\ request[d] # Idle
    BY <1>2 DEF HarmonyInv, HarmonyType, Idle
  <2>2. mode # "serial"
    BY <2>1 DEF HarmonyInv, Turns
  <2>3. CallFact(d)
    BY DEF HarmonyInv
  <2>4. HasConfirmation(d) => HasConfirmation(d)'
    BY <2>1 DEF HasConfirmation, Lasting
  <2>5. Analysable(request[d].task) => Analysable(request[d].task)'
    BY <2>1 DEF Analysable, Lasting
  <2> QED BY <2>2, <2>3, <2>4, <2>5 DEF CallFact, At
<1> QED BY <1>1, <1>2

LEMMA EndKeeps ==
  ASSUME HarmonyInv, NEW c \in Request, request[c] # Idle, NEW outcome, End(c, outcome),
         mode' = mode, TasksType', Lasting, \A t \in Task : TaskFact(t)'
  PROVE  HarmonyInv'
<1>1. /\ request'[c] = Idle /\ \A d \in Request \ {c} : request'[d] = request[d]
      /\ request' \in [Request -> CallSet]
      /\ \A d \in Request : request'[d].todo # <<>> => request'[d].task \in Task
      /\ Turns'
  BY EndMoves
<1>2. CallFact(c)'
  BY <1>1 DEF CallFact, At, Idle
<1>3. \A d \in Request \ {c} : CallFact(d)'
  BY <1>1, OthersKeep
<1> QED BY <1>1, <1>2, <1>3 DEF HarmonyInv, HarmonyType, TasksType

LEMMA GoKeeps ==
  ASSUME HarmonyInv, NEW c \in Request, request[c].todo # <<>>,
         NEW r \in Result \cup {"none"},
         Go(c, [request[c] EXCEPT !.result = r]), mode' = mode, loop' = loop,
         TasksType', Lasting, \A t \in Task : TaskFact(t)', CallFact(c)'
  PROVE  HarmonyInv'
<1>1. /\ \A d \in Request \ {c} : request'[d] = request[d]
      /\ request' \in [Request -> CallSet]
      /\ \A d \in Request : request'[d].todo # <<>> => request'[d].task \in Task
      /\ Turns'
  BY GoMoves
<1>2. request[c] # Idle
  BY DEF Idle
<1>3. \A d \in Request \ {c} : CallFact(d)'
  BY <1>1, <1>2, OthersKeep
<1> QED BY <1>1, <1>3 DEF HarmonyInv, HarmonyType, TasksType

\* Steps that leave the tasks alone.
LEMMA Quiet ==
  ASSUME HarmonyInv, UNCHANGED <<mode, taskVars>>
  PROVE  TasksType' /\ Lasting /\ \A t \in Task : TaskFact(t)'
<1>1. TasksType' /\ Lasting
  BY DEF HarmonyInv, HarmonyType, TasksType, Lasting, taskVars
<1>2. ASSUME NEW t \in Task PROVE TaskFact(t)'
  <2>1. TaskFact(t) /\ Pending(t)' = Pending(t)
    BY DEF HarmonyInv, Pending, taskVars
  <2> QED BY <2>1 DEF TaskFact, taskVars
<1> QED BY <1>1, <1>2

LEMMA QuietEnd ==
  ASSUME HarmonyInv, NEW c \in Request, request[c] # Idle, NEW outcome, End(c, outcome),
         UNCHANGED <<mode, taskVars>>
  PROVE  HarmonyInv'
BY Quiet, EndKeeps

LEMMA QuietGo ==
  ASSUME HarmonyInv, NEW c \in Request, request[c].todo # <<>>, Go(c, request[c]),
         UNCHANGED <<mode, taskVars, loop>>, CallFact(c)'
  PROVE  HarmonyInv'
<1>1. TasksType' /\ Lasting /\ \A t \in Task : TaskFact(t)'
  BY Quiet
<1> QED BY <1>1, GoOn, GoKeeps

\* What a read leads to.
LEMMA ReadGoes ==
  ASSUME HarmonyInv, NEW c \in Request, NEW step, At(c, step), Go(c, request[c]),
         UNCHANGED <<mode, loop>>
  PROVE  /\ request'[c].task = request[c].task /\ request'[c].idx = request[c].idx
         /\ request'[c].todo # <<>> => <<step, Head(request'[c].todo)>> \in After
         /\ request[c].todo # <<>>
<1>1. request[c].todo # <<>> /\ Head(request[c].todo) = step
  BY DEF At
<1> QED BY <1>1, GoOn, GoMoves

-----------------------------------------------------------------------------
(* Reads *)

LEMMA BeginKeeps ==
  ASSUME HarmonyInv, NEW c \in Request, Begin(c)
  PROVE  HarmonyInv'
<1>1. PICK op \in DOMAIN Program, t \in Task : \E i \in 0..Len(confirmations[t]) :
        /\ IF op \in {"approve", "reject"} THEN i > 0 ELSE i = 0
        /\ op = "route" \/ status[t] # "absent"
        /\ request' = [request EXCEPT ![c] =
             [op |-> op, task |-> t, idx |-> i, result |-> "none", todo |-> Program[op]]]
  BY DEF Begin
<1>2. PICK i \in 0..Len(confirmations[t]) :
        /\ IF op \in {"approve", "reject"} THEN i > 0 ELSE i = 0
        /\ op = "route" \/ status[t] # "absent"
        /\ request' = [request EXCEPT ![c] =
             [op |-> op, task |-> t, idx |-> i, result |-> "none", todo |-> Program[op]]]
  BY <1>1
<1>3. /\ request[c] = Idle /\ UNCHANGED <<mode, taskVars, loop>>
      /\ mode = "serial" => \A d \in Request : request[d] = Idle
  BY DEF Begin, Free
<1>4. /\ Program[op] \in Todo /\ Program[op] # <<>> /\ op \in Operation
      /\ Head(Program[op]) \in {"findTask", "readApprovable", "readRejectable",
                                "readCancellable", "findRun"}
      /\ Head(Program[op]) \in {"readApprovable", "readRejectable"} => op \in {"approve", "reject"}
  <2>1. op \in Operation
    BY DEF Program, Operation
  <2> QED BY <2>1, ProgramBegins
<1>5. confirmations[t] \in Seq({"pending", "approved", "rejected"}) /\ Len(confirmations[t]) \in Nat
  BY LenProperties DEF HarmonyInv, HarmonyType
<1>6. /\ request'[c].op = op /\ request'[c].task = t /\ request'[c].idx = i
      /\ request'[c].todo = Program[op] /\ request'[c] \in CallSet
      /\ \A d \in Request \ {c} : request'[d] = request[d]
      /\ request' \in [Request -> CallSet]
  <2>2. [op |-> op, task |-> t, idx |-> i, result |-> "none", todo |-> Program[op]] \in CallSet
    BY <1>4, <1>5 DEF CallSet
  <2>3. request \in [Request -> CallSet]
    BY DEF HarmonyInv, HarmonyType
  <2>4. request'[c] = [op |-> op, task |-> t, idx |-> i, result |-> "none", todo |-> Program[op]]
    BY <1>2, <2>3
  <2>5. request' \in [Request -> CallSet] /\ \A d \in Request \ {c} : request'[d] = request[d]
    BY <1>2, <2>2, <2>3
  <2> QED BY <2>2, <2>4, <2>5
<1>7. Turns'
  BY <1>3, <1>6 DEF HarmonyInv, Turns, LoopInv
<1>8. TasksType' /\ Lasting /\ \A u \in Task : TaskFact(u)'
  BY <1>3, Quiet
<1>9. CallFact(c)'
  <2>1. Head(Program[op]) \in {"readApprovable", "readRejectable"} =>
          i \in 1 .. Len(confirmations[t]) /\ status[t] # "absent"
    BY <1>2, <1>4, <1>5
  <2>2. UNCHANGED <<mode, status, confirmations>>
    BY <1>3 DEF taskVars
  <2> QED BY <1>4, <1>6, <2>1, <2>2 DEF CallFact, At, HasConfirmation
<1>10. ASSUME NEW d \in Request \ {c} PROVE CallFact(d)'
  <2>1. CallFact(d) /\ request'[d] = request[d]
    BY <1>6 DEF HarmonyInv
  <2>2. Pending(request[d].task)' = Pending(request'[d].task)
    BY <1>3 DEF Pending, taskVars
  <2> QED BY <1>3, <2>1, <2>2 DEF CallFact, At, HasConfirmation, Analysable, Pending, taskVars
<1>11. \A d \in Request : request'[d].todo # <<>> => request'[d].task \in Task
  BY <1>6 DEF HarmonyInv, HarmonyType
<1> QED BY <1>6, <1>7, <1>8, <1>9, <1>10, <1>11 DEF HarmonyInv, HarmonyType, TasksType

LEMMA NotIdle ==
  ASSUME NEW c \in Request, NEW step, At(c, step)
  PROVE  request[c] # Idle /\ request[c].todo # <<>>
BY DEF At, Idle

LEMMA ReadDecidable ==
  ASSUME HarmonyInv, NEW c \in Request, ReadApprovable(c) \/ ReadRejectable(c)
  PROVE  HarmonyInv'
<1>1. PICK step \in {"readApprovable", "readRejectable"},
           event \in {"APPROVE_CONFIRMATION", "REJECT_CONFIRMATION"} :
        Check(c, step, Decidable(c, event))
  BY DEF ReadApprovable, ReadRejectable
<1>2. At(c, step) /\ request[c] # Idle /\ UNCHANGED <<mode, taskVars>>
  BY <1>1, NotIdle DEF Check
<1>3. CASE End(c, "error")
  BY <1>2, <1>3, QuietEnd
<1>4. CASE Decidable(c, event) /\ Go(c, request[c]) /\ UNCHANGED loop
  <2> DEFINE t == request[c].task
             i == request[c].idx
  <2>1. /\ request'[c].task = t /\ request'[c].idx = i /\ request[c].todo # <<>>
        /\ request'[c].todo # <<>> => <<step, Head(request'[c].todo)>> \in After
    BY <1>2, <1>4, ReadGoes
  <2>2. HasConfirmation(c)
    BY <1>2 DEF HarmonyInv, CallFact
  <2>3. confirmations[t][i] = "pending" /\ status[t] = "pending_confirmation"
    BY <1>4 DEF Decidable, Allowed, transitions
  <2>4. i \in Pending(t) /\ UNCHANGED <<status, confirmations, mode>>
    BY <1>2, <2>2, <2>3 DEF Pending, HasConfirmation, taskVars
  <2>5. request'[c].todo # <<>> => Head(request'[c].todo) \in {"approve", "reject"}
    BY <2>1 DEF After
  <2>6. CallFact(c)'
    BY <2>1, <2>2, <2>3, <2>4, <2>5 DEF CallFact, At, HasConfirmation, Pending
  <2> QED BY <1>2, <1>4, <2>1, <2>6, QuietGo
<1> QED BY <1>1, <1>3, <1>4 DEF Check

\* The other reads before a write of which nothing need be known.
LEMMA ReadOther ==
  ASSUME HarmonyInv, NEW c \in Request, FindTask(c) \/ ReadCancellable(c) \/ FindRun(c)
  PROVE  HarmonyInv'
<1>1. PICK step \in {"findTask", "readCancellable", "findRun"} :
        /\ At(c, step) /\ UNCHANGED <<mode, taskVars>>
        /\ \/ Go(c, request[c]) /\ UNCHANGED loop
           \/ End(c, "error")
  BY DEF FindTask, ReadCancellable, FindRun, Check
<1>2. request[c] # Idle
  BY <1>1, NotIdle
<1>3. CASE End(c, "error")
  BY <1>1, <1>2, <1>3, QuietEnd
<1>4. CASE Go(c, request[c]) /\ UNCHANGED loop
  <2>1. /\ request[c].todo # <<>>
        /\ request'[c].todo # <<>> => <<step, Head(request'[c].todo)>> \in After
    BY <1>1, <1>4, ReadGoes
  <2>2. request'[c].todo # <<>> => Head(request'[c].todo) \in {"insertTask", "cancel", "readEligible"}
    BY <2>1 DEF After
  <2>3. CallFact(c)'
    BY <2>2 DEF CallFact, At
  <2> QED BY <1>1, <1>4, <2>1, <2>3, QuietGo
<1> QED BY <1>1, <1>3, <1>4

\* A queued task is there, and no task that waits for its approval is queued.
LEMMA ReadEligibleKeeps ==
  ASSUME HarmonyInv, NEW c \in Request, ReadEligible(c)
  PROVE  HarmonyInv'
<1>1. Check(c, "readEligible", Eligible(request[c].task))
  BY DEF ReadEligible
<1>2. At(c, "readEligible") /\ request[c] # Idle /\ UNCHANGED <<mode, taskVars>>
  BY <1>1, NotIdle DEF Check
<1>3. CASE End(c, "error")
  BY <1>2, <1>3, QuietEnd
<1>4. CASE Eligible(request[c].task) /\ Go(c, request[c]) /\ UNCHANGED loop
  <2> DEFINE t == request[c].task
  <2>1. /\ request'[c].task = t /\ request[c].todo # <<>>
        /\ request'[c].todo # <<>> => <<"readEligible", Head(request'[c].todo)>> \in After
    BY <1>2, <1>4, ReadGoes
  <2>2. t \in Task /\ TaskFact(t)
    BY <2>1 DEF HarmonyInv, HarmonyType
  <2>3. status[t] = "queued" /\ Pending(t) = {} /\ Analysable(t)
    BY <1>4, <2>2 DEF Eligible, Pending, Analysable, TaskFact
  <2>4. UNCHANGED <<status, confirmations, mode, bornPending, approved>>
    BY <1>2 DEF taskVars
  <2>5. request'[c].todo # <<>> => Head(request'[c].todo) = "produce"
    BY <2>1 DEF After
  <2>6. CallFact(c)'
    BY <2>1, <2>3, <2>4, <2>5 DEF CallFact, At, Pending, Analysable
  <2> QED BY <1>2, <1>4, <2>1, <2>6, QuietGo
<1> QED BY <1>1, <1>3, <1>4 DEF Check

LEMMA ProduceKeeps ==
  ASSUME HarmonyInv, NEW c \in Request, Produce(c)
  PROVE  HarmonyInv'
<1>1. At(c, "produce") /\ request[c] # Idle /\ request[c].todo # <<>> /\ UNCHANGED <<mode, taskVars>>
  BY NotIdle DEF Produce
<1>2. CASE End(c, "error")
  BY <1>1, <1>2, QuietEnd
<1>3. ASSUME NEW r \in Result, Go(c, [request[c] EXCEPT !.result = r]), UNCHANGED loop
      PROVE  HarmonyInv'
  <2>1. /\ request'[c].task = request[c].task /\ request'[c].result = r
        /\ request'[c].todo # <<>> => <<Head(request[c].todo), Head(request'[c].todo)>> \in After
    BY <1>1, <1>3, GoMoves
  <2>2. request'[c].todo # <<>> => Head(request'[c].todo) = "commit"
    BY <1>1, <2>1 DEF After, At
  <2>3. CallFact(c)
    BY DEF HarmonyInv
  <2>4. CallFact(c)'
    <3>1. UNCHANGED <<status, confirmations, mode, bornPending, approved>>
      BY <1>1 DEF taskVars
    <3> QED BY <1>1, <2>1, <2>2, <2>3, <3>1 DEF CallFact, At, Pending, Analysable
  <2>5. TasksType' /\ Lasting /\ \A t \in Task : TaskFact(t)'
    BY <1>1, Quiet
  <2> QED BY <1>1, <1>3, <2>4, <2>5, GoKeeps
<1> QED BY <1>2, <1>3 DEF Produce

-----------------------------------------------------------------------------
(* Writes *)

\* A fact about a task of which only the status and the confirmations matter.
LEMMA FactOfOthers ==
  ASSUME HarmonyInv, NEW t \in Task, mode' = mode,
         status'[t] = status[t], confirmations'[t] = confirmations[t], runs'[t] = runs[t],
         t \in bornPending' <=> t \in bornPending, t \in approved => t \in approved'
  PROVE  TaskFact(t)'
<1>1. TaskFact(t) /\ Pending(t)' = Pending(t)
  BY DEF HarmonyInv, Pending
<1> QED BY <1>1 DEF TaskFact

LEMMA InsertKeeps ==
  ASSUME HarmonyInv, NEW c \in Request, InsertTask(c)
  PROVE  HarmonyInv'
<1>0. PICK t \in Task : t = request[c].task
  BY NotIdle DEF InsertTask, HarmonyInv, HarmonyType
<1> USE <1>0
<1>1. /\ At(c, "insertTask") /\ End(c, "done") /\ mode' = mode /\ request[c] # Idle
      /\ request[c].todo # <<>>
  BY NotIdle DEF InsertTask
<1>2. CASE UNCHANGED taskVars
  BY <1>1, <1>2, QuietEnd
<1>3. ASSUME NEW s \in InitialStatus, status[t] = "absent",
             status' = [status EXCEPT ![t] = s],
             confirmations' = [confirmations EXCEPT ![t] =
               IF s = "pending_confirmation" THEN <<"pending">> ELSE <<>>],
             bornPending' = IF s = "pending_confirmation" THEN bornPending \cup {t}
                            ELSE bornPending,
             created' = Append(created, t), UNCHANGED <<runs, approved>>
      PROVE  HarmonyInv'
  <2>1. t \in Task /\ HarmonyType /\ TaskFact(t)
    BY <1>1 DEF HarmonyInv, HarmonyType
  <2>2. /\ <<"pending">> \in Seq({"pending", "approved", "rejected"})
        /\ <<>> \in Seq({"pending", "approved", "rejected"})
    OBVIOUS
  <2>3. TasksType'
    <3>1. created' \in Seq(Task)
      BY <1>3, <2>1, AppendProperties DEF HarmonyType
    <3> QED BY <1>3, <2>1, <2>2, <3>1 DEF HarmonyType, TasksType, InitialStatus, Status
  <2>4. /\ status'[t] = s
        /\ confirmations'[t] = IF s = "pending_confirmation" THEN <<"pending">> ELSE <<>>
        /\ \A u \in Task \ {t} : /\ status'[u] = status[u] /\ confirmations'[u] = confirmations[u]
                                 /\ u \in bornPending' <=> u \in bornPending
    BY <1>3, <2>1 DEF HarmonyType
  <2>5. Lasting
    BY <1>3, <2>4 DEF Lasting
  <2>6. TaskFact(t)'
    <3>1. runs'[t] = <<>> /\ s # "absent"
      BY <1>3, <2>1 DEF TaskFact, InitialStatus
    <3>2. CASE s = "pending_confirmation"
      <4>1. confirmations'[t] = <<"pending">> /\ Len(<<"pending">>) = 1 /\ <<"pending">>[1] = "pending"
        BY <2>4, <3>2
      <4>2. Pending(t)' = {1}
        BY <4>1 DEF Pending
      <4> QED BY <2>4, <3>1, <3>2, <4>2 DEF TaskFact
    <3>3. CASE s # "pending_confirmation"
      <4>1. Pending(t)' = {}
        BY <2>4, <3>3 DEF Pending
      <4>2. t \notin bornPending'
        BY <1>3, <2>1, <3>3 DEF TaskFact
      <4> QED BY <1>3, <2>4, <3>1, <3>3, <4>1, <4>2 DEF TaskFact
    <3> QED BY <3>2, <3>3
  <2>7. \A u \in Task \ {t} : TaskFact(u)'
    BY <1>1, <1>3, <2>4, FactOfOthers
  <2> QED BY <1>1, <2>3, <2>5, <2>6, <2>7, EndKeeps
<1> QED BY <1>2, <1>3 DEF InsertTask

LEMMA ApproveKeeps ==
  ASSUME HarmonyInv, NEW c \in Request, Approve(c)
  PROVE  HarmonyInv'
<1>0. PICK t \in Task : t = request[c].task
  BY NotIdle DEF Approve, HarmonyInv, HarmonyType
<1>0a. PICK i : i = request[c].idx
  OBVIOUS
<1> USE <1>0, <1>0a
<1>1. /\ At(c, "approve") /\ End(c, "done") /\ request[c] # Idle /\ request[c].todo # <<>>
      /\ confirmations' = [confirmations EXCEPT ![t] = [@ EXCEPT ![i] = "approved"]]
      /\ status' = [status EXCEPT ![t] = "queued"]
      /\ approved' = approved \cup {t}
      /\ UNCHANGED <<mode, created, runs, bornPending>>
  BY NotIdle DEF Approve
<1>2. t \in Task /\ HarmonyType /\ TaskFact(t) /\ CallFact(c)
  BY <1>1 DEF HarmonyInv, HarmonyType
<1>3. /\ status'[t] = "queued" /\ confirmations'[t] = [confirmations[t] EXCEPT ![i] = "approved"]
      /\ \A u \in Task \ {t} : status'[u] = status[u] /\ confirmations'[u] = confirmations[u]
  BY <1>1, <1>2 DEF HarmonyType
<1>4. /\ confirmations[t] \in Seq({"pending", "approved", "rejected"})
      /\ i \in 1 .. Len(confirmations[t]) /\ status[t] # "absent"
      /\ Len(confirmations[t]) \in Nat
  BY <1>1, <1>2, LenProperties DEF CallFact, HarmonyType, HasConfirmation
<1>5. /\ confirmations'[t] \in Seq({"pending", "approved", "rejected"})
      /\ Len(confirmations'[t]) = Len(confirmations[t])
      /\ \A j \in 1 .. Len(confirmations[t]) :
           confirmations'[t][j] = IF j = i THEN "approved" ELSE confirmations[t][j]
  BY <1>3, <1>4, ExceptSeq
<1>6. TasksType'
  BY <1>1, <1>2, <1>5 DEF HarmonyType, TasksType, Status
<1>7. Lasting
  BY <1>1, <1>3, <1>5 DEF Lasting
<1>8. Pending(t)' = Pending(t) \ {i}
  BY <1>5 DEF Pending
<1>9. TaskFact(t)'
  <2>1. mode = "serial" => Pending(t)' = {}
    BY <1>1, <1>2, <1>8 DEF CallFact, TaskFact
  <2> QED BY <1>1, <1>2, <1>3, <2>1 DEF TaskFact
<1>10. \A u \in Task \ {t} : TaskFact(u)'
  BY <1>1, <1>3, FactOfOthers
<1> QED BY <1>1, <1>6, <1>7, <1>9, <1>10, EndKeeps

LEMMA RejectKeeps ==
  ASSUME HarmonyInv, NEW c \in Request, Reject(c)
  PROVE  HarmonyInv'
<1>0. PICK t \in Task : t = request[c].task
  BY NotIdle DEF Reject, HarmonyInv, HarmonyType
<1>0a. PICK i : i = request[c].idx
  OBVIOUS
<1> USE <1>0, <1>0a
<1>1. /\ At(c, "reject") /\ End(c, "done") /\ request[c] # Idle /\ request[c].todo # <<>>
      /\ confirmations' = [confirmations EXCEPT ![t] = [@ EXCEPT ![i] = "rejected"]]
      /\ status' = [status EXCEPT ![t] = "blocked"]
      /\ UNCHANGED <<mode, created, runs, bornPending, approved>>
  BY NotIdle DEF Reject
<1>2. t \in Task /\ HarmonyType /\ TaskFact(t) /\ CallFact(c)
  BY <1>1 DEF HarmonyInv, HarmonyType
<1>3. /\ status'[t] = "blocked" /\ confirmations'[t] = [confirmations[t] EXCEPT ![i] = "rejected"]
      /\ \A u \in Task \ {t} : status'[u] = status[u] /\ confirmations'[u] = confirmations[u]
  BY <1>1, <1>2 DEF HarmonyType
<1>4. /\ confirmations[t] \in Seq({"pending", "approved", "rejected"})
      /\ i \in 1 .. Len(confirmations[t]) /\ status[t] # "absent"
      /\ Len(confirmations[t]) \in Nat
  BY <1>1, <1>2, LenProperties DEF CallFact, HarmonyType, HasConfirmation
<1>5. /\ confirmations'[t] \in Seq({"pending", "approved", "rejected"})
      /\ Len(confirmations'[t]) = Len(confirmations[t])
      /\ \A j \in 1 .. Len(confirmations[t]) :
           confirmations'[t][j] = IF j = i THEN "rejected" ELSE confirmations[t][j]
  BY <1>3, <1>4, ExceptSeq
<1>6. TasksType'
  BY <1>1, <1>2, <1>5 DEF HarmonyType, TasksType, Status
<1>7. Lasting
  BY <1>1, <1>3, <1>5 DEF Lasting
<1>8. Pending(t)' = Pending(t) \ {i}
  BY <1>5 DEF Pending
<1>9. TaskFact(t)'
  <2>1. mode = "serial" => Pending(t)' = {}
    BY <1>1, <1>2, <1>8 DEF CallFact, TaskFact
  <2> QED BY <1>1, <1>2, <1>3, <2>1 DEF TaskFact
<1>10. \A u \in Task \ {t} : TaskFact(u)'
  BY <1>1, <1>3, FactOfOthers
<1> QED BY <1>1, <1>6, <1>7, <1>9, <1>10, EndKeeps

LEMMA CancelKeeps ==
  ASSUME HarmonyInv, NEW c \in Request, Cancel(c)
  PROVE  HarmonyInv'
<1>0. PICK t \in Task : t = request[c].task
  BY NotIdle DEF Cancel, HarmonyInv, HarmonyType
<1> USE <1>0
<1>1. /\ At(c, "cancel") /\ End(c, "done") /\ request[c] # Idle /\ request[c].todo # <<>>
      /\ status' = [status EXCEPT ![t] = "cancelled"]
      /\ UNCHANGED <<mode, created, confirmations, runs, bornPending, approved>>
  BY NotIdle DEF Cancel
<1>2. t \in Task /\ HarmonyType /\ TaskFact(t)
  BY <1>1 DEF HarmonyInv, HarmonyType
<1>3. status'[t] = "cancelled" /\ \A u \in Task \ {t} : status'[u] = status[u]
  BY <1>1, <1>2 DEF HarmonyType
<1>4. TasksType' /\ Lasting
  BY <1>1, <1>2, <1>3 DEF HarmonyType, TasksType, Status, Lasting
<1>5. TaskFact(t)'
  <2>1. Pending(t)' = Pending(t)
    BY <1>1 DEF Pending
  <2> QED BY <1>1, <1>2, <1>3, <2>1 DEF TaskFact
<1>6. \A u \in Task \ {t} : TaskFact(u)'
  BY <1>1, <1>3, FactOfOthers
<1> QED BY <1>1, <1>4, <1>5, <1>6, EndKeeps

\* The confirmation of an analysis is added where none was pending, if requests
\* take turns; the key is free still when it is taken.
LEMMA CommitKeeps ==
  ASSUME HarmonyInv, NEW c \in Request, Commit(c)
  PROVE  HarmonyInv'
<1>0. PICK t \in Task : t = request[c].task
  BY NotIdle DEF Commit, HarmonyInv, HarmonyType
<1> USE <1>0
<1> DEFINE human == request[c].result = "human"
           row == [result |-> request[c].result, keyed |-> request[c].op = "analyseKeyed"]
           n == Len(runs[t])
           m == Len(confirmations[t])
<1>1. At(c, "commit") /\ request[c] # Idle /\ request[c].todo # <<>> /\ mode' = mode
  BY NotIdle DEF Commit
<1>2. CASE End(c, "error") /\ UNCHANGED taskVars
  BY <1>1, <1>2, QuietEnd
<1>3. ASSUME KeyIsFree(c), Go(c, request[c]), UNCHANGED loop,
             runs' = [runs EXCEPT ![t] = Append(@, row)],
             status' = [status EXCEPT ![t] =
               IF human THEN "pending_confirmation" ELSE "assigned"],
             confirmations' = [confirmations EXCEPT ![t] = IF human THEN AddConfirmation(@) ELSE @],
             UNCHANGED <<created, bornPending, approved>>
      PROVE  HarmonyInv'
  <2>1. t \in Task /\ HarmonyType /\ TaskFact(t) /\ CallFact(c) /\ Analysable(t)
    BY <1>1 DEF HarmonyInv, HarmonyType, CallFact
  <2>2. request[c].result \in Result
    BY <1>1, <2>1 DEF CallFact
  <2>3. row \in [result : Result, keyed : BOOLEAN] /\ row.keyed = (request[c].op = "analyseKeyed")
    BY <2>2
  <2>4. /\ runs[t] \in Seq([result : Result, keyed : BOOLEAN]) /\ n \in Nat
        /\ confirmations[t] \in Seq({"pending", "approved", "rejected"}) /\ m \in Nat
    BY <2>1, LenProperties DEF HarmonyType
  <2>5. /\ status'[t] = IF human THEN "pending_confirmation" ELSE "assigned"
        /\ runs'[t] = Append(runs[t], row)
        /\ confirmations'[t] = IF human THEN Append(confirmations[t], "pending") ELSE confirmations[t]
        /\ \A u \in Task \ {t} : /\ status'[u] = status[u] /\ confirmations'[u] = confirmations[u]
                                 /\ runs'[u] = runs[u]
    BY <1>3, <2>1 DEF HarmonyType, AddConfirmation
  <2> HIDE DEF human, row
  <2>6. /\ runs'[t] \in Seq([result : Result, keyed : BOOLEAN]) /\ Len(runs'[t]) = n + 1
        /\ runs'[t][n + 1] = row /\ \A j \in 1 .. n : runs'[t][j] = runs[t][j]
    BY <2>3, <2>4, <2>5, AppendProperties
  <2>7. /\ Append(confirmations[t], "pending") \in Seq({"pending", "approved", "rejected"})
        /\ Len(Append(confirmations[t], "pending")) = m + 1
        /\ Append(confirmations[t], "pending")[m + 1] = "pending"
        /\ \A j \in 1 .. m : Append(confirmations[t], "pending")[j] = confirmations[t][j]
    BY <2>4, AppendProperties
  <2>8. TasksType'
    <3>1. confirmations'[t] \in Seq({"pending", "approved", "rejected"})
      BY <2>4, <2>5, <2>7
    <3>2. confirmations' \in [Task -> Seq({"pending", "approved", "rejected"})]
      BY <1>3, <2>1, <2>5, <3>1 DEF HarmonyType
    <3>3. runs' \in [Task -> Seq([result : Result, keyed : BOOLEAN])]
      BY <1>3, <2>1, <2>5, <2>6 DEF HarmonyType
    <3>4. status' \in [Task -> {"absent"} \cup Status]
      BY <1>3, <2>1 DEF HarmonyType, Status
    <3> QED BY <1>3, <2>1, <3>2, <3>3, <3>4 DEF TasksType, HarmonyType
  <2>9. Lasting
    <3>1. 1 .. m \subseteq 1 .. Len(confirmations'[t])
      BY <2>4, <2>5, <2>7
    <3>2. status'[t] # "absent"
      BY <2>5
    <3> QED BY <1>3, <2>5, <3>1, <3>2 DEF Lasting
  <2>10. TaskFact(t)'
    <3>1. human => m + 1 \in Pending(t)' /\ Pending(t)' = Pending(t) \cup {m + 1}
      BY <2>4, <2>5, <2>7 DEF Pending
    <3>2. ~human => Pending(t)' = Pending(t)
      BY <2>5 DEF Pending
    <3>3. mode = "serial" => Pending(t) = {}
      BY <1>1, <2>1 DEF CallFact
    <3>4. ASSUME NEW i \in 1 .. Len(runs'[t]), NEW j \in 1 .. Len(runs'[t]),
                 runs'[t][i].keyed, runs'[t][j].keyed
          PROVE  i = j
      <4>1. row.keyed => \A k \in 1 .. n : ~runs[t][k].keyed
        BY <1>3, <2>3 DEF KeyIsFree, KeyTaken
      <4>2. (i \in 1 .. n \/ i = n + 1) /\ (j \in 1 .. n \/ j = n + 1)
        BY <2>4, <2>6
      <4>3. i \in 1 .. n /\ j \in 1 .. n => i = j
        BY <2>1, <2>6, <3>4 DEF TaskFact
      <4> QED BY <2>6, <3>4, <4>1, <4>2, <4>3
    <3>5. t \notin bornPending' \ approved' /\ status'[t] # "absent"
      BY <1>3, <2>1, <2>5 DEF Analysable
    <3>6. status'[t] = "pending_confirmation" => Pending(t)' # {}
      BY <2>5, <3>1
    <3>7. mode = "serial" =>
            /\ Pending(t)' # {} => status'[t] = "pending_confirmation"
            /\ \A i, j \in Pending(t)' : i = j
      BY <2>5, <3>1, <3>2, <3>3
    <3> QED BY <1>1, <3>4, <3>5, <3>6, <3>7 DEF TaskFact
  <2>11. \A u \in Task \ {t} : TaskFact(u)'
    BY <1>1, <1>3, <2>5, FactOfOthers
  <2>12. CallFact(c)'
    <3>1. request'[c].todo # <<>> => <<"commit", Head(request'[c].todo)>> \in After
      BY <1>1, <1>3, ReadGoes
    <3> QED BY <3>1 DEF CallFact, At, After
  <2> QED BY <1>1, <1>3, <2>8, <2>9, <2>10, <2>11, <2>12, GoOn, GoKeeps
<1> QED BY <1>2, <1>3 DEF Commit

-----------------------------------------------------------------------------
(* The loop, and all steps *)

\* The loop writes no task but when it advances one.
LEMMA LoopKeeps ==
  ASSUME HarmonyInv, mode = "loop", LoopInv', UNCHANGED <<mode, taskVars, request>>
  PROVE  HarmonyInv'
<1>1. TasksType' /\ \A t \in Task : TaskFact(t)'
  BY Quiet
<1>2. ASSUME NEW c \in Request PROVE CallFact(c)'
  BY DEF HarmonyInv, CallFact, At, HasConfirmation, Analysable, taskVars
<1>3. Turns'
  BY DEF Turns
<1> QED BY <1>1, <1>2, <1>3 DEF HarmonyInv, HarmonyType, TasksType

LEMMA StopLoopEnds ==
  ASSUME NEW reason, StopLoop(reason)
  PROVE  LoopInv'
<1>1. loop' = [NoLoop EXCEPT !.status = loopTransition(reason), !.iteration = loop.iteration]
      /\ loopTransition(reason) # "running"
  BY DEF StopLoop, loopTransition
<1> DEFINE s == loopTransition(reason)
<1> HIDE DEF s
<1>2. loop' = [status |-> s, step |-> "done", iteration |-> loop.iteration, failures |-> 0,
               failed |-> 0, ready |-> <<>>, child |-> None, outcome |-> "none",
               decision |-> "none", saw |-> "none"]
  BY <1>1 DEF NoLoop, s
<1>3. s # "running" /\ <<>> \in Seq(Task)
  BY <1>1 DEF s
<1> QED BY <1>2, <1>3 DEF LoopInv

LEMMA ScanFinds ==
  ASSUME HarmonyInv, Scan
  PROVE  LoopInv'
<1>1. CASE StopLoop("NO_READY_TASKS")
  BY <1>1, StopLoopEnds
<1>2. ASSUME Oldest # {}, NEW list \in [1..Cardinality(Oldest) -> Oldest],
             loop' = [loop EXCEPT !.step = "execute", !.failed = 0,
                        !.ready = [i \in DOMAIN list |-> created[list[i]]]]
      PROVE  LoopInv'
  <2> DEFINE n == Cardinality(Oldest)
             found == [i \in DOMAIN list |-> created[list[i]]]
  <2>1. created \in Seq(Task) /\ Len(created) \in Nat /\ DOMAIN created = 1 .. Len(created)
    BY LenProperties DEF HarmonyInv, HarmonyType
  <2>2. Oldest \subseteq 1 .. Len(created) /\ \A i \in Oldest : created[i] \in Task
    BY <2>1 DEF Oldest
  <2>3. n \in Nat \ {0}
    <3>1. IsFiniteSet(1 .. Len(created))
      BY <2>1, FS_Interval
    <3>2. IsFiniteSet(Oldest)
      BY <2>2, <3>1, FS_Subset
    <3> QED BY <1>2, <3>2, FS_EmptySet, FS_CardinalityType
  <2>4. found \in [1 .. n -> Task]
    BY <1>2, <2>2
  <2> HIDE DEF found, n
  <2>5. found \in Seq(Task) /\ Len(found) = n
    BY <2>3, <2>4, IsASeq
  <2>6. found # <<>>
    BY <2>3, <2>5
  <2>7. LoopInv
    BY DEF HarmonyInv, Turns
  <2>8. loop.child # None => loop.step = "await" /\ loop.step = "scan"
    BY <2>7 DEF LoopInv, Scan, LoopAt
  <2>9. loop' = [status |-> loop.status, step |-> "execute", iteration |-> loop.iteration,
             failures |-> loop.failures, failed |-> 0, ready |-> found,
             child |-> loop.child, outcome |-> loop.outcome, decision |-> loop.decision,
             saw |-> loop.saw]
    BY <1>2, <2>7 DEF LoopInv, found
  <2> QED BY <2>5, <2>6, <2>8, <2>9 DEF LoopInv
<1> QED BY <1>1, <1>2 DEF Scan

LEMMA FinishKeeps ==
  ASSUME LoopInv, LoopAt("advance"), NEW failed, FinishTask(failed)
  PROVE  LoopInv'
<1> DEFINE rest == Tail(loop.ready)
           clean == [loop EXCEPT !.outcome = "none", !.decision = "none", !.saw = "none"]
           next == [clean EXCEPT !.ready = rest, !.failed = failed]
           reason == shouldTerminate(loop.iteration + 1, loop.failures)
<1>1. loop.child = None /\ rest \in Seq(Task)
  BY HeadTailProperties DEF LoopInv, LoopAt
<1>2. ASSUME NEW l, l = clean
      PROVE  l = [status |-> loop.status, step |-> loop.step, iteration |-> loop.iteration,
              failures |-> loop.failures, failed |-> loop.failed, ready |-> loop.ready,
              child |-> loop.child, outcome |-> "none", decision |-> "none", saw |-> "none"]
  BY <1>2 DEF LoopInv
<1> HIDE DEF clean, rest
<1>7. next = [status |-> loop.status, step |-> loop.step, iteration |-> loop.iteration,
              failures |-> loop.failures, failed |-> failed, ready |-> rest,
              child |-> loop.child, outcome |-> "none", decision |-> "none", saw |-> "none"]
  <2>1. PICK l : l = clean
    OBVIOUS
  <2>2. next = [l EXCEPT !.ready = rest, !.failed = failed]
    BY <2>1
  <2>3. l = [status |-> loop.status, step |-> loop.step, iteration |-> loop.iteration,
              failures |-> loop.failures, failed |-> loop.failed, ready |-> loop.ready,
              child |-> loop.child, outcome |-> "none", decision |-> "none", saw |-> "none"]
    BY <1>2, <2>1
  <2> HIDE DEF next
  <2> QED BY <2>2, <2>3
<1> USE DEF clean, rest
<1>3. \/ rest # <<>> /\ loop' = [next EXCEPT !.step = "execute"]
      \/ StopLoop(reason)
      \/ \E i, n : loop' = [next EXCEPT !.step = "scan", !.iteration = i, !.failed = 0, !.failures = n]
  <2>1. next.ready = rest /\ clean.ready = loop.ready /\ clean.iteration = loop.iteration
    BY <1>2, <1>7 DEF LoopInv
  <2>2. IF next.ready # <<>> THEN loop' = [next EXCEPT !.step = "execute"]
        ELSE IF reason # "none" THEN StopLoop(reason)
        ELSE loop' = [next EXCEPT !.step = "scan", !.iteration = @ + 1, !.failed = 0,
                        !.failures = IF failed > 0 THEN @ + failed ELSE 0]
    BY DEF FinishTask
  <2> HIDE DEF next, reason
  <2> QED BY <2>1, <2>2
<1> HIDE DEF rest
<1>4. CASE rest # <<>> /\ loop' = [next EXCEPT !.step = "execute"]
  <2>1. loop' = [status |-> loop.status, step |-> "execute", iteration |-> loop.iteration,
              failures |-> loop.failures, failed |-> failed, ready |-> rest,
              child |-> loop.child, outcome |-> "none", decision |-> "none", saw |-> "none"]
    <3> HIDE DEF next
    <3> QED BY <1>7, <1>4
  <2> QED BY <1>1, <1>4, <2>1 DEF LoopInv
<1>5. CASE StopLoop(reason)
  <2> HIDE DEF reason
  <2> QED BY <1>5, StopLoopEnds
<1>6. ASSUME NEW i, NEW n,
             loop' = [next EXCEPT !.step = "scan", !.iteration = i, !.failed = 0, !.failures = n]
      PROVE  LoopInv'
  <2>1. loop' = [status |-> loop.status, step |-> "scan", iteration |-> i,
              failures |-> n, failed |-> 0, ready |-> rest,
              child |-> loop.child, outcome |-> "none", decision |-> "none", saw |-> "none"]
    <3> HIDE DEF next
    <3> QED BY <1>7, <1>6
  <2> QED BY <1>1, <2>1 DEF LoopInv
<1> QED BY <1>3, <1>4, <1>5, <1>6

LEMMA AdvanceKeeps ==
  ASSUME HarmonyInv, mode = "loop", Advance
  PROVE  HarmonyInv'
<1>1. UNCHANGED <<mode, created, confirmations, runs, bornPending, approved, request>>
  BY DEF Advance
<1>2. LoopInv'
  <2>1. PICK failed : LoopAt("advance") /\ FinishTask(failed)
    BY DEF Advance
  <2> QED BY <2>1, FinishKeeps DEF HarmonyInv, Turns
<1>3. CASE UNCHANGED status
  BY <1>1, <1>2, <1>3, LoopKeeps DEF taskVars
<1>4. ASSUME NEW t, NEW s \in Status \ {"queued"}, status' = [status EXCEPT ![t] = s]
      PROVE  HarmonyInv'
  <2>1. \A u \in Task : status'[u] = status[u] \/ status'[u] = s
    BY <1>4 DEF HarmonyInv, HarmonyType
  <2>2. TasksType' /\ s # "absent"
    BY <1>1, <1>4 DEF HarmonyInv, HarmonyType, TasksType, Status
  <2>3. Lasting
    BY <1>1, <2>1, <2>2 DEF Lasting
  <2>4. ASSUME NEW u \in Task PROVE TaskFact(u)'
    BY <1>1, <2>1, <2>2 DEF HarmonyInv, TaskFact
  <2>5. ASSUME NEW c \in Request PROVE CallFact(c)'
    <3>1. CallFact(c) /\ (request[c].todo # <<>> => request[c].task \in Task)
      BY DEF HarmonyInv, HarmonyType
    <3>2. request[c].todo # <<>> => (HasConfirmation(c) => HasConfirmation(c)')
      BY <1>1, <2>3, <3>1 DEF HasConfirmation, Lasting
    <3>3. request[c].todo # <<>> => (Analysable(request[c].task) => Analysable(request[c].task)')
      BY <1>1, <2>3, <3>1 DEF Analysable, Lasting
    <3> QED BY <1>1, <3>1, <3>2, <3>3 DEF CallFact, At
  <2>6. Turns'
    BY <1>1, <1>2 DEF Turns
  <2> QED BY <1>1, <2>2, <2>4, <2>5, <2>6 DEF HarmonyInv, HarmonyType, TasksType
<1>5. CASE Allowed(loop.saw, eventOf(loop.outcome, loop.decision)) /\
           status' = [status EXCEPT ![Head(loop.ready)] =
             transition(loop.saw, eventOf(loop.outcome, loop.decision))]
  BY <1>4, <1>5, LoopMoves
<1> QED BY <1>3, <1>5 DEF Advance

LEMMA ExecuteKeeps ==
  ASSUME HarmonyInv, mode = "loop", NEW c \in Request, Execute(c)
  PROVE  HarmonyInv'
<1>1. /\ request[c] = Idle /\ UNCHANGED <<mode, taskVars>> /\ LoopAt("execute") /\ LoopInv
      /\ request' = [request EXCEPT ![c] =
           [op |-> "analyse", task |-> Head(loop.ready), idx |-> 0, result |-> "none",
            todo |-> Analysis]]
      /\ loop' = [loop EXCEPT !.step = "await", !.child = c]
  BY DEF Execute, Free, HarmonyInv, Turns
<1>2. Head(loop.ready) \in Task /\ loop.ready # <<>>
  BY <1>1, HeadTailProperties DEF LoopInv, LoopAt
<1>3. PICK t \in Task : t = Head(loop.ready)
  BY <1>2
<1>4. Analysis \in Todo /\ Head(Analysis) = "findRun" /\ Analysis # <<>>
  BY DEF Analysis, Todo
<1>6. [op |-> "analyse", task |-> t, idx |-> 0, result |-> "none", todo |-> Analysis] \in CallSet
  BY <1>4 DEF CallSet, Operation
<1>7. /\ request'[c] = [op |-> "analyse", task |-> t, idx |-> 0, result |-> "none", todo |-> Analysis]
      /\ request' \in [Request -> CallSet] /\ \A d \in Request \ {c} : request'[d] = request[d]
  BY <1>1, <1>3, <1>6 DEF HarmonyInv, HarmonyType
<1>8. LoopInv'
  <2>1. loop' = [status |-> loop.status, step |-> "await", iteration |-> loop.iteration,
             failures |-> loop.failures, failed |-> loop.failed, ready |-> loop.ready,
             child |-> c, outcome |-> loop.outcome, decision |-> loop.decision,
             saw |-> loop.saw]
    BY <1>1 DEF LoopInv
  <2> QED BY <1>1, <1>2, <2>1 DEF LoopInv
<1>9. Turns'
  BY <1>1, <1>8 DEF Turns
<1>10. TasksType' /\ \A u \in Task : TaskFact(u)'
  BY <1>1, Quiet
<1>11. CallFact(c)'
  BY <1>4, <1>7 DEF CallFact, At
<1>12. ASSUME NEW d \in Request \ {c} PROVE CallFact(d)'
  BY <1>1, <1>7 DEF HarmonyInv, CallFact, At, HasConfirmation, Analysable, taskVars
<1>13. \A d \in Request : request'[d].todo # <<>> => request'[d].task \in Task
  <2>1. request'[c].task = t
    BY <1>7
  <2>2. ASSUME NEW d \in Request \ {c} PROVE request'[d].todo # <<>> => request'[d].task \in Task
    BY <1>7 DEF HarmonyInv, HarmonyType
  <2> QED BY <1>3, <2>1, <2>2
<1> QED BY <1>7, <1>9, <1>10, <1>11, <1>12, <1>13 DEF HarmonyInv, HarmonyType, TasksType

\* The loop's other steps only say where it stands.
LEMMA LoopWaits ==
  ASSUME LoopInv, StartLoop \/ Timeout \/ Review \/ ReadAdvance \/ LoopFails
  PROVE  LoopInv'
<1>1. CASE LoopFails
  BY <1>1, StopLoopEnds DEF LoopFails
<1>2. CASE StartLoop
  BY <1>2 DEF StartLoop, NoLoop, LoopInv
<1>3. CASE Timeout
  <2>1. loop' = [status |-> loop.status, step |-> "readAdvance", iteration |-> loop.iteration,
             failures |-> loop.failures, failed |-> loop.failed, ready |-> loop.ready,
             child |-> None, outcome |-> "error", decision |-> loop.decision,
             saw |-> loop.saw]
    BY <1>3 DEF LoopInv, Timeout
  <2> QED BY <1>3, <2>1 DEF LoopInv, Timeout, LoopAt
<1>4. CASE Review
  <2>1. loop' = [status |-> loop.status, step |-> "readAdvance", iteration |-> loop.iteration,
             failures |-> loop.failures, failed |-> loop.failed, ready |-> loop.ready,
             child |-> loop.child, outcome |-> loop.outcome, decision |-> "pass",
             saw |-> loop.saw]
    BY <1>4 DEF LoopInv, Review
  <2> QED BY <1>4, <2>1 DEF LoopInv, Review, LoopAt
<1>5. CASE ReadAdvance
  <2>1. loop' = [status |-> loop.status, step |-> "advance", iteration |-> loop.iteration,
             failures |-> loop.failures, failed |-> loop.failed, ready |-> loop.ready,
             child |-> loop.child, outcome |-> loop.outcome, decision |-> loop.decision,
             saw |-> status[Head(loop.ready)]]
    BY <1>5 DEF LoopInv, ReadAdvance
  <2> QED BY <1>5, <2>1 DEF LoopInv, ReadAdvance, LoopAt
<1> QED BY <1>1, <1>2, <1>3, <1>4, <1>5

LEMMA LoopStepKeeps ==
  ASSUME HarmonyInv, LoopStep \/ Timeout
  PROVE  HarmonyInv'
<1>1. mode = "loop"
  <2>1. NoLoop.status = "idle"
    BY DEF NoLoop
  <2>2. StartLoop \/ loop.status = "running"
    BY DEF LoopStep, Timeout, LoopAt, Scan, Execute, Review, ReadAdvance, Advance, LoopFails
  <2> QED BY <2>1, <2>2 DEF StartLoop, HarmonyInv, Turns
<1>2. LoopInv
  BY DEF HarmonyInv, Turns
<1>3. CASE StartLoop \/ Timeout \/ Review \/ ReadAdvance \/ LoopFails \/ Scan
  <2>1. LoopInv'
    BY <1>2, <1>3, LoopWaits, ScanFinds
  <2>2. UNCHANGED <<mode, taskVars, request>>
    BY <1>3 DEF StartLoop, Timeout, Review, ReadAdvance, LoopFails, Scan
  <2> QED BY <1>1, <2>1, <2>2, LoopKeeps
<1> QED BY <1>1, <1>3, ExecuteKeeps, AdvanceKeeps DEF LoopStep

LEMMA HarmonyStep ==
  ASSUME HarmonyInv, [Next]_vars
  PROVE  HarmonyInv'
<1>1. ASSUME NEW c \in Request, Abandon(c) PROVE HarmonyInv'
  BY <1>1, QuietEnd DEF Abandon
<1>2. ASSUME NEW c \in Request, Reread(c) PROVE HarmonyInv'
  BY <1>2, NotIdle, QuietEnd DEF Reread
<1>3. ASSUME NEW c \in Request, RequestStep(c) PROVE HarmonyInv'
  BY <1>2, <1>3, ReadOther, ReadDecidable, ReadEligibleKeeps, ProduceKeeps, InsertKeeps, ApproveKeeps,
     RejectKeeps, CancelKeeps, CommitKeeps DEF RequestStep
<1>4. CASE UNCHANGED vars
  <2>1. UNCHANGED <<mode, taskVars, request, loop>>
    BY <1>4 DEF vars
  <2>2. TasksType' /\ \A t \in Task : TaskFact(t)'
    BY <2>1, Quiet
  <2>3. \A c \in Request : CallFact(c)'
    BY <2>1 DEF HarmonyInv, CallFact, At, HasConfirmation, Analysable, Pending, taskVars
  <2>4. Turns'
    BY <2>1 DEF HarmonyInv, Turns, LoopInv
  <2> QED BY <2>1, <2>2, <2>3, <2>4 DEF HarmonyInv, HarmonyType, TasksType
<1> QED BY <1>1, <1>3, <1>4, BeginKeeps, LoopStepKeeps DEF Next

\* What the three theorems rest on holds of every state, through every request,
\* every failure between two of its awaits and every step of the loop.
THEOREM HarmonyInvariance == Spec => []HarmonyInv
BY HarmonyBegins, HarmonyStep, PTL DEF Spec

\* A task that waits for a confirmation has one to decide, and one request at a
\* time a confirmation waits only beside a waiting or a cancelled task, for any
\* tasks, requests and analyses.
THEOREM WaitsForDecisionHolds == Spec => []WaitsForDecision
<1>1. HarmonyInv => WaitsForDecision
  BY DEF HarmonyInv, TaskFact, WaitsForDecision, Pending
<1> QED BY <1>1, HarmonyInvariance, PTL

\* No analysis is stored of a task that was to be confirmed first and was not,
\* beside overlapping requests and beside the loop.
THEOREM AnalysedAfterApprovalHolds == Spec => []AnalysedAfterApproval
<1>1. HarmonyInv => AnalysedAfterApproval
  <2> SUFFICES ASSUME HarmonyInv, NEW t \in bornPending, runs[t] # <<>> PROVE t \in approved
    BY DEF AnalysedAfterApproval
  <2> QED BY DEF HarmonyInv, HarmonyType, TaskFact
<1> QED BY <1>1, HarmonyInvariance, PTL

\* One idempotency key has one analysis, for any number of requests that carry it.
THEOREM KeyedAnalysisOnceHolds == Spec => []KeyedAnalysisOnce
<1>1. HarmonyInv => KeyedAnalysisOnce
  BY DEF HarmonyInv, TaskFact, KeyedAnalysisOnce
<1> QED BY <1>1, HarmonyInvariance, PTL
=============================================================================
