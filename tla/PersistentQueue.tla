--------------------------- MODULE PersistentQueue ---------------------------
(***************************************************************************)
(* The task queue of src/src/lib/scheduler/persistent-queue.ts, kept in    *)
(* the table persistentTask.  A dequeue is several statements, so another  *)
(* call, and another process, comes between any two of them; every write   *)
(* after enqueue is by id alone.                                           *)
(***************************************************************************)
EXTENDS Integers, Sequences, FiniteSets, SequencesExt

CONSTANTS Stored, Server, NoRow,
          Ranks,   \* priorities, numbered in the order of their names
          Page     \* the rows a dequeue reads

ASSUME QueueBounds == Page \in Nat \ {0} /\ Ranks \subseteq Int

VARIABLES asked,    \* Stored -> its priority and dependencies
          status,   \* Stored -> the status of its row, NoRow without a row
          rowOrder, \* ids in the order of enqueuedAt, rows that are gone included
          dequeue,  \* Server -> its call of dequeuePersistentTask
          handed,   \* Stored -> how many dequeues returned it
          everDone  \* ids that have been completed

queueVars == <<asked, status, rowOrder, dequeue, handed, everDone>>

Terminal == {"completed", "failed", "cancelled"}

ASSUME NoRowAssumption == NoRow \notin {"queued", "running"} \cup Terminal

NoDequeue == [step |-> "idle", list |-> <<>>]

QueueInit ==
  /\ asked = [t \in Stored |-> NoRow] /\ status = [t \in Stored |-> NoRow] /\ rowOrder = <<>>
  /\ dequeue = [s \in Server |-> NoDequeue]
  /\ handed = [t \in Stored |-> 0] /\ everDone = {}

IsRow(t) == status[t] # NoRow
Dependencies(t) == asked[t].dependsOn

\* Once enqueued an id is a primary key; pruned ids are not drawn again.
Enqueue(t, rank, dependsOn) ==
  /\ t \notin ToSet(rowOrder)
  /\ asked' = [asked EXCEPT ![t] = [rank |-> rank, dependsOn |-> dependsOn]]
  /\ status' = [status EXCEPT ![t] = "queued"]
  /\ rowOrder' = Append(rowOrder, t)
  /\ UNCHANGED <<dequeue, handed, everDone>>

-----------------------------------------------------------------------------
(* dequeuePersistentTask *)

Queued == {t \in Stored : status[t] = "queued"}

\* By the name of the priority, then by the time of enqueueing.
Before(t, u) ==
  \/ asked[t].rank < asked[u].rank
  \/ asked[t].rank = asked[u].rank
     /\ \E i, j \in DOMAIN rowOrder : i < j /\ rowOrder[i] = t /\ rowOrder[j] = u

\* The first Page queued rows in that order.
IsListed(list) ==
  /\ Len(list) = IF Cardinality(Queued) < Page THEN Cardinality(Queued) ELSE Page
  /\ \A i \in DOMAIN list : \A t \in Queued \ {list[j] : j \in 1..i} : Before(list[i], t)
  /\ \A i, j \in DOMAIN list : list[i] = list[j] => i = j

ReadQueue(s) ==
  /\ dequeue[s].step = "idle"
  /\ Queued # {}
  /\ \E list \in BoundedSeq(Queued, Page) :
       /\ IsListed(list)
       /\ dequeue' = [dequeue EXCEPT ![s] = [step |-> "check", list |-> list]]
  /\ UNCHANGED <<asked, status, rowOrder, handed, everDone>>

\* Any settled row taken for a met dependency.
SettledAreMet(t) == \A d \in Dependencies(t) : status[d] \in Terminal

DependenciesMet(t) == \A d \in Dependencies(t) : status[d] = "completed"

CheckHead(s) ==
  LET t == Head(dequeue[s].list)
      rest == Tail(dequeue[s].list)
  IN /\ dequeue[s].step = "check"
     /\ dequeue' = [dequeue EXCEPT ![s] =
          IF DependenciesMet(t) THEN [@ EXCEPT !.step = "mark"]
          ELSE IF rest = <<>> THEN NoDequeue ELSE [@ EXCEPT !.list = rest]]
     /\ UNCHANGED <<asked, status, rowOrder, handed, everDone>>

\* The update names the id, whatever has become of the row; it throws when the
\* row has been pruned.
MarkRunning(s) ==
  LET t == Head(dequeue[s].list) IN
  /\ dequeue[s].step = "mark"
  /\ dequeue' = [dequeue EXCEPT ![s] = NoDequeue]
  /\ IF IsRow(t)
     THEN /\ status' = [status EXCEPT ![t] = "running"]
          /\ handed' = [handed EXCEPT ![t] = @ + 1]
     ELSE UNCHANGED <<status, handed>>
  /\ UNCHANGED <<asked, rowOrder, everDone>>

\* The process stops between two statements.
DequeueStops(s) ==
  /\ dequeue[s].step # "idle"
  /\ dequeue' = [dequeue EXCEPT ![s] = NoDequeue]
  /\ UNCHANGED <<asked, status, rowOrder, handed, everDone>>

-----------------------------------------------------------------------------
\* completePersistentTask, failPersistentTask and cancelPersistentTask.
SettleRow(t, outcome) ==
  /\ IsRow(t)
  /\ outcome # "cancelled" => handed[t] > 0   \* only its executor settles a task
  /\ status' = [status EXCEPT ![t] = outcome]
  /\ everDone' = IF outcome = "completed" THEN everDone \cup {t} ELSE everDone
  /\ UNCHANGED <<asked, rowOrder, dequeue, handed>>

\* pruneOldTasks: any set of the settled rows is the one before the cutoff.
PruneOldTasks(old) ==
  /\ old # {} /\ \A t \in old : status[t] \in Terminal
  /\ status' = [t \in Stored |-> IF t \in old THEN NoRow ELSE status[t]]
  /\ UNCHANGED <<asked, rowOrder, dequeue, handed, everDone>>

QueueNext ==
  \/ \E t \in Stored, rank \in Ranks :
       \E dependsOn \in {{}} \cup {{d} : d \in ToSet(rowOrder)} : Enqueue(t, rank, dependsOn)
  \/ \E s \in Server : ReadQueue(s) \/ CheckHead(s) \/ MarkRunning(s) \/ DequeueStops(s)
  \/ \E t \in Stored, outcome \in Terminal : SettleRow(t, outcome)
  \/ \E old \in SUBSET Stored : PruneOldTasks(old)

QueueSpec == QueueInit /\ [][QueueNext]_queueVars

-----------------------------------------------------------------------------
(* Properties *)

\* A task is handed out only after every task it depends on has completed at
\* some time, although dependencies are counted in one statement, the row is
\* marked in another, and rows are settled, overwritten and pruned in between.
DependentsWait ==
  [][\A t \in Stored : handed'[t] > handed[t] => Dependencies(t) \subseteq everDone]_queueVars

-----------------------------------------------------------------------------
(* What the documents say and the code does not do *)

\* A task is handed to one executor.
HandedOnce == \A t \in Stored : handed[t] <= 1

\* A task that was settled is not started again.
SettledRowStays ==
  [][\A t \in Stored : status[t] \in Terminal => status'[t] \in {NoRow, status[t]}]_queueVars
=============================================================================
