----------------------------- MODULE MCAgentWork -----------------------------
(***************************************************************************)
(* Six independent parts of the agents' work, checked in one run: the      *)
(* initial state chooses one, and the others stay in theirs.               *)
(***************************************************************************)
EXTENDS Scheduling, PersistentQueue, CodeClosure, DeploymentPipeline, ChatRequest,
        AgentThreads

CONSTANTS t1, t2, a1, c1, c2, s1, s2, k1, k2, k3, f1, f2, p1, p2, b1, b2, x1, x2,
          w1, w2, m1, g1, g2,
          Parts

VARIABLE part

agentVars == <<part, schedulerVars, queueVars, closureVars, pipelineVars, requestVars,
               threadVars>>

AskerAndAsked == {<<g1, g2>>}

Init ==
  /\ part \in Parts
  /\ SchedulerInit /\ QueueInit /\ ClosureInit /\ PipelineInit /\ ThreadInit
  /\ IF part = "chat" THEN RequestInit
     ELSE /\ dependsOn = [i \in Limited |-> {}] /\ recorded = FALSE
          /\ run = [i \in Limited |-> NotRun] /\ result = [i \in Limited |-> "none"]
          /\ answer = "returned" /\ dbFailures = 0
          /\ request = [NewRequest("model") EXCEPT !.at = "over"]

\* A row is handed out at most this often (a bound).
HandedBound == \A t \in Stored : handed'[t] <= 2

Next ==
  \/ /\ part = "scheduler" /\ SchedulerNext
     /\ UNCHANGED <<part, queueVars, closureVars, pipelineVars, requestVars, threadVars>>
  \/ /\ part = "queue" /\ QueueNext /\ HandedBound
     /\ UNCHANGED <<part, schedulerVars, closureVars, pipelineVars, requestVars, threadVars>>
  \/ /\ part = "closure" /\ ClosureNext
     /\ UNCHANGED <<part, schedulerVars, queueVars, pipelineVars, requestVars, threadVars>>
  \/ /\ part = "pipeline" /\ PipelineNext
     /\ UNCHANGED <<part, schedulerVars, queueVars, closureVars, requestVars, threadVars>>
  \/ /\ part = "chat" /\ RequestNext
     /\ UNCHANGED <<part, schedulerVars, queueVars, closureVars, pipelineVars, threadVars>>
  \/ /\ part = "threads" /\ ThreadNext
     /\ UNCHANGED <<part, schedulerVars, queueVars, closureVars, pipelineVars, requestVars>>

Spec == Init /\ [][Next]_agentVars

\* The process that answers a chat message goes on unless it stops.
FairSpec == Spec /\ WF_requestVars(part = "chat" /\ RequestStep)
=============================================================================
