------------------------- MODULE DeploymentPipeline -------------------------
(***************************************************************************)
(* runPipeline (src/src/lib/deployment/pipeline.ts): branch, files, pull   *)
(* request, CI, merge, each a request to GitHub (github-client.ts).  A     *)
(* request may fail, and may fail after it took effect; the pipeline then  *)
(* ends as failed and leaves on GitHub what it made.  GitHub is external:  *)
(* its CI registers a run for a push some time later and ends it.          *)
(*                                                                         *)
(* A version of a file is the pipeline that wrote it, or Old.              *)
(***************************************************************************)
EXTENDS Integers, Sequences, FiniteSets

CONSTANTS Pipeline, Branch, Path, NoBranch, Original,
          SkipsCI,   \* pipelines called with skipCI
          MaxRuns,   \* CI runs, a bound of the model
          RunPage    \* runs that one request lists

ASSUME PipelineBounds == MaxRuns \in Nat /\ RunPage \in Nat \ {0} /\ Original \notin Pipeline

Writer == Pipeline \cup {Original}

\* The files of a branch, and what they were when it was created.
BranchState == [from : [Path -> Writer], files : [Path -> Writer]]

ASSUME NoBranchAssumption == NoBranch \notin BranchState

VARIABLES main,     \* Path -> version
          branches, \* Branch -> its files and what it started from, or NoBranch
          ciRuns,   \* the runs of all branches, the oldest first
          pipe      \* Pipeline -> its call of runPipeline

pipelineVars == <<main, branches, ciRuns, pipe>>
github == <<main, branches, ciRuns>>

NoPipeline == [step |-> "absent", branch |-> NoBranch, files |-> {}, todo |-> {},
               run |-> 0, result |-> "running"]

PipelineInit ==
  /\ main = [f \in Path |-> Original]
  /\ branches = [b \in Branch |-> NoBranch] /\ ciRuns = <<>>
  /\ pipe = [p \in Pipeline |-> NoPipeline]

AtStage(p, stage) == pipe[p].step = stage
ToStage(p, stage) == pipe' = [pipe EXCEPT ![p].step = stage]
End(p, result) == pipe' = [pipe EXCEPT ![p].step = "ended", ![p].result = result]

\* After a request that took effect: go on, or its answer was lost.
Continue(p, stage) == ToStage(p, stage) \/ End(p, "failed")

RunPipeline(p, b, files) ==
  /\ AtStage(p, "absent") /\ files # {}
  /\ pipe' = [pipe EXCEPT ![p] = [NoPipeline EXCEPT !.step = "branch_create", !.branch = b,
                !.files = files, !.todo = files]]
  /\ UNCHANGED github

-----------------------------------------------------------------------------
(* Branch, files and pull request *)

NewBranch == [from |-> main, files |-> main]

\* A createBranch that takes an existing branch for its own.
CreateOrReuse(p) ==
  LET b == pipe[p].branch IN
  /\ AtStage(p, "branch_create")
  /\ branches' = IF branches[b] = NoBranch THEN [branches EXCEPT ![b] = NewBranch] ELSE branches
  /\ Continue(p, "code_commit")
  /\ UNCHANGED <<main, ciRuns>>

\* GitHub refuses a reference that exists (422).
CreateBranch(p) ==
  LET b == pipe[p].branch IN
  /\ AtStage(p, "branch_create")
  /\ branches[b] = NoBranch
  /\ branches' = [branches EXCEPT ![b] = NewBranch]
  /\ Continue(p, "code_commit")
  /\ UNCHANGED <<main, ciRuns>>

\* commitFiles makes one commit of each file.
CommitFile(p, f) ==
  /\ AtStage(p, "code_commit") /\ f \in pipe[p].todo
  /\ branches' = [branches EXCEPT ![pipe[p].branch].files[f] = p]
  /\ \/ pipe' = [pipe EXCEPT ![p].todo = @ \ {f}]
     \/ End(p, "failed")
  /\ UNCHANGED <<main, ciRuns>>

\* After createPullRequest the pipeline waits for CI, unless told to skip it.
CreatePullRequest(p) ==
  /\ AtStage(p, "code_commit") /\ pipe[p].todo = {}
  /\ Continue(p, IF p \in SkipsCI THEN "merge" ELSE "ci_find")
  /\ UNCHANGED github

-----------------------------------------------------------------------------
(* CI *)

\* The newest of these runs.
Newest(runs) == {i \in runs : Cardinality({j \in runs : j > i}) < RunPage}

\* mapCICDStatus: a completed run counts as a success whatever its conclusion.
Succeeded(run) == run.state # "queued"

\* The newest run of the branch is the one to wait for; with none yet there is
\* nothing to wait for.
FindRun(p) ==
  LET found == Newest({i \in DOMAIN ciRuns : ciRuns[i].branch = pipe[p].branch}) IN
  /\ AtStage(p, "ci_find")
  /\ IF found = {} THEN ToStage(p, "merge")
     ELSE pipe' = [pipe EXCEPT ![p].step = "ci_wait",
                               ![p].run = CHOOSE i \in found : \A j \in found : j <= i]
  /\ UNCHANGED github

\* waitForCICD looks for its run among the newest of all branches.
PollRun(p) ==
  /\ AtStage(p, "ci_wait")
  /\ IF pipe[p].run \notin Newest(DOMAIN ciRuns) THEN End(p, "failed")
     ELSE Succeeded(ciRuns[pipe[p].run]) /\ ToStage(p, "merge")
  /\ UNCHANGED github

-----------------------------------------------------------------------------
Changed(b) == {f \in Path : branches[b].files[f] # branches[b].from[f]}

Merge(p) ==
  LET b == pipe[p].branch IN
  /\ AtStage(p, "merge")
  /\ \A f \in Changed(b) : main[f] = branches[b].from[f]
  /\ main' = [f \in Path |-> IF f \in Changed(b) THEN branches[b].files[f] ELSE main[f]]
  /\ End(p, "completed") \/ End(p, "failed")
  /\ UNCHANGED <<branches, ciRuns>>

\* A request without effect: refused (a conflict or a draft at the merge, a
\* branch that exists), unanswered, or the ten minutes of waiting over.
Fails(p) ==
  /\ pipe[p].step \notin {"absent", "ended"}
  /\ End(p, "failed")
  /\ UNCHANGED github

(* GitHub's CI, external *)

RegisterRun(b) ==
  /\ branches[b] # NoBranch /\ Changed(b) # {}
  /\ Len(ciRuns) < MaxRuns
  /\ \A i \in DOMAIN ciRuns : ciRuns[i].branch = b => ciRuns[i].files # branches[b].files
  /\ ciRuns' = Append(ciRuns, [branch |-> b, files |-> branches[b].files, state |-> "queued"])
  /\ UNCHANGED <<main, branches, pipe>>

EndRun(i, conclusion) ==
  /\ ciRuns[i].state = "queued"
  /\ ciRuns' = [ciRuns EXCEPT ![i].state = conclusion]
  /\ UNCHANGED <<main, branches, pipe>>

PipelineNext ==
  \/ \E p \in Pipeline :
       \/ \E b \in Branch, files \in SUBSET Path : RunPipeline(p, b, files)
       \/ \E f \in Path : CommitFile(p, f)
       \/ CreateBranch(p) \/ CreatePullRequest(p) \/ FindRun(p) \/ PollRun(p)
       \/ Merge(p) \/ Fails(p)
  \/ \E b \in Branch : RegisterRun(b)
  \/ \E i \in DOMAIN ciRuns, conclusion \in {"success", "failure"} : EndRun(i, conclusion)

PipelineSpec == PipelineInit /\ [][PipelineNext]_pipelineVars

-----------------------------------------------------------------------------
(* Properties *)

\* The target branch only ever takes the whole change of one pipeline at its
\* merge: never a part of it, and never what a failed pipeline of the same
\* branch name, or one with a lost answer, left on GitHub.
MergedIsOwn ==
  [][main' # main => \E p \in Pipeline :
       /\ AtStage(p, "merge")
       /\ main' = [f \in Path |-> IF f \in pipe[p].files THEN p ELSE main[f]]]_pipelineVars

-----------------------------------------------------------------------------
(* Statements that the code does not keep *)

\* A pipeline that waited for a CI run and completed waited for one that
\* succeeded (pipeline.ts: a CI failure is not merged automatically).
FailedCIIsNotMerged ==
  \A p \in Pipeline : pipe[p].result = "completed" /\ pipe[p].run # 0
                        => ciRuns[pipe[p].run].state = "success"

\* Without skipCI every merge has waited for a run, of the last push.
MergedWasTested ==
  \A p \in Pipeline : pipe[p].result = "completed" /\ p \notin SkipsCI
     => /\ pipe[p].run # 0
        /\ ciRuns[pipe[p].run].files = branches[pipe[p].branch].files

\* A pipeline that is reported as failed has merged nothing.
FailedIsNotMerged ==
  [][\A p \in Pipeline : pipe[p].result = "running" /\ pipe'[p].result = "failed" => main' = main]_pipelineVars
=============================================================================
