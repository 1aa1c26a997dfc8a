--------------------------- MODULE AgentWork_proofs ---------------------------
(***************************************************************************)
(* Proofs about parts of the agents' work that share no state, for any     *)
(* values of their constants: what one closure leaves in the working tree  *)
(* cannot reach a commit by another one; what a pipeline merges is what it *)
(* wrote; and what a dequeue read may be overwritten or pruned before it   *)
(* marks a row, but that a task has completed once, and what it needs,     *)
(* never changes any more; a task of the in-memory scheduler is in one     *)
(* place, whoever cancels it, whatever ends it; and the ledgers of tokens  *)
(* per agent and per task add up to the total of the day.                  *)
(***************************************************************************)
EXTENDS CodeClosure, DeploymentPipeline, PersistentQueue, Scheduling,
        SequenceTheorems, FiniteSetTheorems, TLAPS

-----------------------------------------------------------------------------
(* Code closure *)

Clean(files) == \A f \in File : files[f] \notin LintBreaking

\* The tree may hold anything.  The index may not, because the next commit takes
\* it whole, and what is staged is a part of the tree that lint has just read.
CleanInv == added \in Nat /\ (added = 0 => Clean(index) /\ Clean(head))

LEMMA OldIsClean == Old \notin LintBreaking
BY ClosureNames

\* What passes the checks and is staged over a clean index is clean.
LEMMA StagedIsClean ==
  ASSUME NEW c \in Closure, ChecksPass(c), Clean(index)
  PROVE  Clean(Staged(c))
BY DEF Clean, ChecksPass, Staged

LEMMA CleanInit == ClosureInit => CleanInv
BY OldIsClean DEF ClosureInit, CleanInv, Clean

LEMMA CleanNext == CleanInv /\ [ClosureNext]_closureVars => CleanInv'
<1> SUFFICES ASSUME CleanInv, [ClosureNext]_closureVars PROVE CleanInv'
  OBVIOUS
<1> USE DEF CleanInv
<1>1. CASE UNCHANGED <<index, head, added>>
  BY <1>1 DEF Clean
<1>2. ASSUME NEW c \in Closure, NEW files \in FileSets, CallClosure(c, files) PROVE CleanInv'
  BY <1>1, <1>2 DEF CallClosure, repository
<1>3. ASSUME NEW c \in Closure, NEW f \in File, WriteFile(c, f) PROVE CleanInv'
  BY <1>1, <1>3 DEF WriteFile
<1>4. ASSUME NEW c \in Closure, WriteRefused(c) \/ ChecksFail(c) PROVE CleanInv'
  BY <1>1, <1>4 DEF WriteRefused, ChecksFail, repository
<1>5. ASSUME NEW c \in Closure, CommitFails(c) PROVE CleanInv'
  <2>1. /\ ChecksPass(c) /\ index' = Staged(c) /\ head' = head /\ added' = added
    BY <1>5 DEF CommitFails
  <2> QED BY <2>1, StagedIsClean DEF Clean
<1>6. ASSUME NEW c \in Closure, Commit(c) PROVE CleanInv'
  <2>1. /\ ChecksPass(c) /\ index' = Staged(c) /\ head' = Staged(c) /\ added' = added
    BY <1>6 DEF Commit
  <2> QED BY <2>1, StagedIsClean DEF Clean
<1>7. CASE ProcessEnds
  BY <1>1, <1>7 DEF ProcessEnds, repository
<1>8. CASE GitAddTool
  BY <1>8 DEF GitAddTool
<1>9. CASE GitCommitTool
  BY <1>9 DEF GitCommitTool, Clean
<1>10. CASE UNCHANGED closureVars
  BY <1>1, <1>10 DEF closureVars
<1> QED
  BY <1>2, <1>3, <1>4, <1>5, <1>6, <1>7, <1>8, <1>9, <1>10 DEF ClosureNext

\* Unless agents stage files themselves, no closure commits or stages what lint
\* refuses, its own or another one's, however many run beside each other and
\* wherever they fail.
THEOREM CommittedStaysChecked == ClosureSpec => []CommittedWasChecked
<1>1. CleanInv => CommittedWasChecked
  BY DEF CleanInv, Clean, CommittedWasChecked
<1> QED BY <1>1, CleanInit, CleanNext, PTL DEF ClosureSpec

-----------------------------------------------------------------------------
(* Deployment pipeline *)

Stage == {"absent", "branch_create", "code_commit", "ci_find", "ci_wait", "merge", "ended"}

\* A call is a record of the fields of NoPipeline.
IsCall(r) ==
  /\ r = [step |-> r.step, branch |-> r.branch, files |-> r.files, todo |-> r.todo,
          run |-> r.run, result |-> r.result]
  /\ r.step \in Stage /\ r.files \subseteq Path /\ r.todo \subseteq r.files

PipelineType ==
  /\ main \in [Path -> Writer]
  /\ branches \in [Branch -> BranchState \cup {NoBranch}]
  /\ pipe = [p \in Pipeline |-> pipe[p]] /\ \A p \in Pipeline : IsCall(pipe[p])

\* Between the creation of its branch and its end.
Working(p) == pipe[p].step \in {"code_commit", "ci_find", "ci_wait", "merge"}

\* The branch holds what its pipeline has written so far and nothing else.
BranchIsOwn(p) ==
  LET b == pipe[p].branch IN
  /\ b \in Branch /\ branches[b] \in BranchState
  /\ pipe[p].step # "code_commit" => pipe[p].todo = {}
  /\ \A f \in Path : branches[b].files[f] =
       IF f \in pipe[p].files \ pipe[p].todo THEN p ELSE branches[b].from[f]

\* What a pipeline wrote is on the target branch, or in what a branch started
\* from, only after it ended: its own branch differs from both in all it wrote.
NotYetMerged(p) ==
  \A f \in Path :
    /\ main[f] # p
    /\ \A b \in Branch : branches[b] \in BranchState => branches[b].from[f] # p

\* No two pipelines work on one branch.  GitHub refuses a reference that exists,
\* and no branch is ever deleted.
OneEach ==
  \A p, q \in Pipeline : Working(p) /\ Working(q) /\ pipe[p].branch = pipe[q].branch => p = q

PipelineInv ==
  /\ PipelineType
  /\ \A p \in Pipeline : pipe[p].step = "branch_create" =>
       pipe[p].branch \in Branch /\ pipe[p].todo = pipe[p].files
  /\ \A p \in Pipeline : Working(p) => BranchIsOwn(p)
  /\ \A p \in Pipeline : pipe[p].step # "ended" => NotYetMerged(p)
  /\ OneEach

LEMMA PipelineBegins == PipelineInit => PipelineInv
<1> SUFFICES ASSUME PipelineInit PROVE PipelineInv
  OBVIOUS
<1>1. \A p \in Pipeline : pipe[p] = NoPipeline
  BY DEF PipelineInit
<1>2. \A p \in Pipeline : IsCall(pipe[p]) /\ pipe[p].step = "absent"
  BY <1>1 DEF IsCall, NoPipeline, Stage
<1>3. PipelineType
  BY <1>2 DEF PipelineInit, PipelineType, Writer
<1>4. \A p \in Pipeline : NotYetMerged(p)
  BY PipelineBounds, NoBranchAssumption DEF PipelineInit, NotYetMerged
<1> QED BY <1>2, <1>3, <1>4 DEF PipelineInv, Working, OneEach

\* A pipeline that ends has no more to keep.
LEMMA EndChanges ==
  ASSUME PipelineType, NEW p \in Pipeline, NEW r, End(p, r)
  PROVE  /\ pipe' = [q \in Pipeline |-> pipe'[q]] /\ IsCall(pipe'[p]) /\ pipe'[p].step = "ended"
         /\ \A q \in Pipeline \ {p} : pipe'[q] = pipe[q]
BY DEF PipelineType, IsCall, End, Stage

LEMMA ToStageChanges ==
  ASSUME PipelineType, NEW p \in Pipeline, NEW s \in Stage, ToStage(p, s)
  PROVE  /\ pipe' = [q \in Pipeline |-> pipe'[q]] /\ IsCall(pipe'[p])
         /\ pipe'[p] = [pipe[p] EXCEPT !.step = s]
         /\ \A q \in Pipeline \ {p} : pipe'[q] = pipe[q]
BY DEF PipelineType, IsCall, ToStage, Stage

\* Requests that leave the target branch and every branch alone.
LEMMA Elsewhere ==
  ASSUME PipelineInv, NEW p \in Pipeline,
         pipe' = [q \in Pipeline |-> pipe'[q]], IsCall(pipe'[p]),
         \A q \in Pipeline \ {p} : pipe'[q] = pipe[q],
         UNCHANGED <<main, branches>>,
         pipe'[p].step # "ended" => pipe[p].step # "ended",
         Working(p)' => Working(p) /\ BranchIsOwn(p)' /\ pipe'[p].branch = pipe[p].branch,
         pipe'[p].step = "branch_create" =>
           pipe'[p].branch \in Branch /\ pipe'[p].todo = pipe'[p].files
  PROVE  PipelineInv'
<1>1. PipelineType'
  BY DEF PipelineInv, PipelineType
<1>2. \A q \in Pipeline : pipe'[q].step = "branch_create" =>
        pipe'[q].branch \in Branch /\ pipe'[q].todo = pipe'[q].files
  BY DEF PipelineInv
<1>3. ASSUME NEW q \in Pipeline, Working(q)' PROVE BranchIsOwn(q)'
  BY <1>3 DEF PipelineInv, Working, BranchIsOwn
<1>4. ASSUME NEW q \in Pipeline, pipe'[q].step # "ended" PROVE NotYetMerged(q)'
  BY <1>4 DEF PipelineInv, NotYetMerged
<1>5. OneEach'
  BY DEF PipelineInv, OneEach, Working
<1> QED BY <1>1, <1>2, <1>3, <1>4, <1>5 DEF PipelineInv

LEMMA EndKeeps ==
  ASSUME PipelineInv, NEW p \in Pipeline, NEW r, End(p, r), UNCHANGED <<main, branches>>
  PROVE  PipelineInv'
<1>1. PipelineType
  BY DEF PipelineInv
<1> QED BY <1>1, EndChanges, Elsewhere DEF Working

LEMMA ToStageKeeps ==
  ASSUME PipelineInv, NEW p \in Pipeline, Working(p),
         NEW s \in {"code_commit", "ci_find", "ci_wait", "merge"}, ToStage(p, s),
         s # "code_commit" => pipe[p].todo = {},
         UNCHANGED <<main, branches>>
  PROVE  PipelineInv'
<1>1. PipelineType /\ s \in Stage /\ BranchIsOwn(p)
  BY DEF PipelineInv, Stage
<1>2. /\ pipe' = [q \in Pipeline |-> pipe'[q]] /\ IsCall(pipe'[p])
      /\ pipe'[p] = [pipe[p] EXCEPT !.step = s]
      /\ \A q \in Pipeline \ {p} : pipe'[q] = pipe[q]
  BY <1>1, ToStageChanges
<1>3. /\ pipe'[p].step = s /\ pipe'[p].branch = pipe[p].branch /\ pipe'[p].files = pipe[p].files
      /\ pipe'[p].todo = pipe[p].todo
  BY <1>1, <1>2 DEF PipelineType, IsCall
<1>4. BranchIsOwn(p)'
  BY <1>1, <1>3 DEF BranchIsOwn
<1>5. pipe'[p].step # "branch_create" /\ pipe[p].step # "ended"
  BY <1>3 DEF Working
<1> QED BY <1>2, <1>3, <1>4, <1>5, Elsewhere

-----------------------------------------------------------------------------
(* The steps *)

LEMMA RunPipelineKeeps ==
  ASSUME PipelineInv, NEW p \in Pipeline, NEW b \in Branch, NEW files \in SUBSET Path,
         RunPipeline(p, b, files)
  PROVE  PipelineInv'
<1>1. /\ pipe' = [q \in Pipeline |-> pipe'[q]]
      /\ pipe'[p] = [NoPipeline EXCEPT !.step = "branch_create", !.branch = b, !.files = files,
                                       !.todo = files]
      /\ \A q \in Pipeline \ {p} : pipe'[q] = pipe[q]
      /\ pipe[p].step = "absent" /\ UNCHANGED <<main, branches>>
  BY DEF PipelineInv, PipelineType, RunPipeline, AtStage, github
<1>2. /\ pipe'[p].step = "branch_create" /\ pipe'[p].branch = b
      /\ pipe'[p].files = files /\ pipe'[p].todo = files /\ IsCall(pipe'[p])
  BY <1>1 DEF NoPipeline, IsCall, Stage
<1> QED BY <1>1, <1>2, Elsewhere DEF Working

\* A new branch starts from the target branch, where this pipeline, not being
\* over, has written nothing; no pipeline works on a branch that is not there.
LEMMA CreateBranchKeeps ==
  ASSUME PipelineInv, NEW p \in Pipeline, CreateBranch(p)
  PROVE  PipelineInv'
<1> DEFINE b == pipe[p].branch
<1>1. /\ pipe[p].step = "branch_create" /\ branches[b] = NoBranch /\ UNCHANGED main
      /\ branches' = [branches EXCEPT ![b] = NewBranch]
      /\ Continue(p, "code_commit")
      /\ b \in Branch /\ pipe[p].todo = pipe[p].files /\ PipelineType
  BY DEF CreateBranch, AtStage, PipelineInv
<1>2. NewBranch \in BranchState /\ NewBranch.from = main /\ NewBranch.files = main
  BY <1>1 DEF NewBranch, BranchState, PipelineType
<1>3. /\ branches'[b] = NewBranch
      /\ \A c \in Branch \ {b} : branches'[c] = branches[c]
      /\ branches' \in [Branch -> BranchState \cup {NoBranch}]
  BY <1>1, <1>2 DEF PipelineType
<1>4. /\ pipe' = [q \in Pipeline |-> pipe'[q]] /\ IsCall(pipe'[p])
      /\ \A q \in Pipeline \ {p} : pipe'[q] = pipe[q]
      /\ \/ pipe'[p].step = "ended"
         \/ /\ pipe'[p].step = "code_commit" /\ pipe'[p].branch = b
            /\ pipe'[p].todo = pipe'[p].files
  <2>1. CASE ToStage(p, "code_commit")
    <3>1. /\ pipe' = [q \in Pipeline |-> pipe'[q]] /\ IsCall(pipe'[p])
          /\ pipe'[p] = [pipe[p] EXCEPT !.step = "code_commit"]
          /\ \A q \in Pipeline \ {p} : pipe'[q] = pipe[q]
      BY <1>1, <2>1, ToStageChanges DEF Stage
    <3>2. /\ pipe'[p].step = "code_commit" /\ pipe'[p].branch = b
          /\ pipe'[p].todo = pipe'[p].files
      BY <1>1, <3>1 DEF PipelineType, IsCall
    <3> QED BY <3>1, <3>2
  <2>2. CASE End(p, "failed")
    BY <1>1, <2>2, EndChanges
  <2> QED BY <1>1, <2>1, <2>2 DEF Continue
<1>5. \A q \in Pipeline : Working(q) => pipe[q].branch # b
  BY <1>1, NoBranchAssumption DEF PipelineInv, BranchIsOwn
<1>6. PipelineType'
  BY <1>1, <1>3, <1>4 DEF PipelineType
<1>7. ASSUME NEW q \in Pipeline, Working(q)' PROVE BranchIsOwn(q)'
  <2>1. CASE q = p
    BY <1>1, <1>2, <1>3, <1>4, <1>7, <2>1 DEF Working, BranchIsOwn
  <2>2. CASE q # p
    <3>1. Working(q) /\ BranchIsOwn(q) /\ pipe'[q] = pipe[q] /\ pipe[q].branch # b
      BY <1>4, <1>5, <1>7, <2>2 DEF Working, PipelineInv
    <3> QED BY <1>3, <3>1 DEF BranchIsOwn
  <2> QED BY <2>1, <2>2
<1>8. ASSUME NEW q \in Pipeline, pipe'[q].step # "ended" PROVE NotYetMerged(q)'
  <2>1. NotYetMerged(q)
    BY <1>1, <1>4, <1>8 DEF PipelineInv
  <2> QED BY <1>1, <1>2, <1>3, <2>1 DEF NotYetMerged
<1>9. OneEach'
  BY <1>4, <1>5 DEF PipelineInv, OneEach, Working
<1>10. \A q \in Pipeline : pipe'[q].step = "branch_create" =>
         pipe'[q].branch \in Branch /\ pipe'[q].todo = pipe'[q].files
  BY <1>4 DEF PipelineInv
<1> QED BY <1>6, <1>7, <1>8, <1>9, <1>10 DEF PipelineInv

LEMMA CommitFileKeeps ==
  ASSUME PipelineInv, NEW p \in Pipeline, NEW f \in Path, CommitFile(p, f)
  PROVE  PipelineInv'
<1> DEFINE b == pipe[p].branch
<1>1. /\ pipe[p].step = "code_commit" /\ f \in pipe[p].todo /\ UNCHANGED main
      /\ branches' = [branches EXCEPT ![b].files[f] = p]
      /\ \/ pipe' = [pipe EXCEPT ![p].todo = @ \ {f}]
         \/ End(p, "failed")
      /\ PipelineType /\ BranchIsOwn(p)
  BY DEF CommitFile, AtStage, PipelineInv, Working
<1>2. b \in Branch /\ branches[b] \in BranchState
  BY <1>1 DEF BranchIsOwn
<1>3. /\ branches'[b] = [branches[b] EXCEPT !.files[f] = p]
      /\ \A c \in Branch \ {b} : branches'[c] = branches[c]
  BY <1>1, <1>2 DEF PipelineType
<1>4. /\ branches'[b] \in BranchState /\ branches'[b].from = branches[b].from
      /\ \A g \in Path : branches'[b].files[g] = IF g = f THEN p ELSE branches[b].files[g]
  BY <1>2, <1>3 DEF BranchState, Writer
<1>5. branches' \in [Branch -> BranchState \cup {NoBranch}]
  BY <1>1, <1>2, <1>3, <1>4 DEF PipelineType
<1>6. /\ pipe' = [q \in Pipeline |-> pipe'[q]] /\ IsCall(pipe'[p])
      /\ \A q \in Pipeline \ {p} : pipe'[q] = pipe[q]
      /\ \/ pipe'[p].step = "ended"
         \/ /\ pipe'[p].step = "code_commit" /\ pipe'[p].branch = b
            /\ pipe'[p].files = pipe[p].files /\ pipe'[p].todo = pipe[p].todo \ {f}
  <2>1. CASE pipe' = [pipe EXCEPT ![p].todo = @ \ {f}]
    <3>1. pipe'[p] = [pipe[p] EXCEPT !.todo = @ \ {f}] /\ \A q \in Pipeline \ {p} : pipe'[q] = pipe[q]
      BY <1>1, <2>1 DEF PipelineType
    <3>2. IsCall(pipe[p])
      BY <1>1 DEF PipelineType
    <3>3. /\ pipe'[p].step = "code_commit" /\ pipe'[p].branch = b
          /\ pipe'[p].files = pipe[p].files /\ pipe'[p].todo = pipe[p].todo \ {f}
          /\ IsCall(pipe'[p])
      BY <1>1, <3>1, <3>2 DEF IsCall
    <3>4. pipe' = [q \in Pipeline |-> pipe'[q]]
      BY <1>1, <2>1 DEF PipelineType
    <3> QED BY <3>1, <3>3, <3>4
  <2>2. CASE End(p, "failed")
    BY <1>1, <2>2, EndChanges
  <2> QED BY <1>1, <2>1, <2>2
<1>7. \A q \in Pipeline \ {p} : Working(q) => pipe[q].branch # b
  BY <1>1 DEF PipelineInv, OneEach, Working
<1>8. PipelineType'
  BY <1>1, <1>5, <1>6 DEF PipelineType
<1>9. ASSUME NEW q \in Pipeline, Working(q)' PROVE BranchIsOwn(q)'
  <2>1. CASE q = p
    <3>1. /\ pipe'[p].step = "code_commit" /\ pipe'[p].branch = b
          /\ pipe'[p].files = pipe[p].files /\ pipe'[p].todo = pipe[p].todo \ {f}
          /\ pipe[p].todo \subseteq pipe[p].files
      BY <1>1, <1>6, <1>9, <2>1 DEF Working, PipelineType, IsCall
    <3>2. \A g \in Path : branches'[b].files[g] =
            IF g \in pipe'[p].files \ pipe'[p].todo THEN p ELSE branches'[b].from[g]
      BY <1>1, <1>4, <3>1 DEF BranchIsOwn
    <3> QED BY <1>2, <1>4, <2>1, <3>1, <3>2 DEF BranchIsOwn
  <2>2. CASE q # p
    <3>1. Working(q) /\ BranchIsOwn(q) /\ pipe'[q] = pipe[q] /\ pipe[q].branch # b
      BY <1>6, <1>7, <1>9, <2>2 DEF Working, PipelineInv
    <3> QED BY <1>3, <3>1 DEF BranchIsOwn
  <2> QED BY <2>1, <2>2
<1>10. ASSUME NEW q \in Pipeline, pipe'[q].step # "ended" PROVE NotYetMerged(q)'
  <2>1. NotYetMerged(q)
    BY <1>1, <1>6, <1>10 DEF PipelineInv
  <2> QED BY <1>1, <1>2, <1>3, <1>4, <2>1 DEF NotYetMerged
<1>11. OneEach'
  BY <1>1, <1>6 DEF PipelineInv, OneEach, Working
<1>12. \A q \in Pipeline : pipe'[q].step = "branch_create" =>
         pipe'[q].branch \in Branch /\ pipe'[q].todo = pipe'[q].files
  BY <1>6 DEF PipelineInv
<1> QED BY <1>8, <1>9, <1>10, <1>11, <1>12 DEF PipelineInv

LEMMA CreatePullRequestKeeps ==
  ASSUME PipelineInv, NEW p \in Pipeline, CreatePullRequest(p)
  PROVE  PipelineInv'
BY ToStageKeeps, EndKeeps DEF CreatePullRequest, AtStage, Continue, Working, github

LEMMA FindRunKeeps ==
  ASSUME PipelineInv, NEW p \in Pipeline, FindRun(p)
  PROVE  PipelineInv'
<1>1. pipe[p].step = "ci_find" /\ UNCHANGED <<main, branches>> /\ PipelineType /\ BranchIsOwn(p)
  BY DEF FindRun, AtStage, github, PipelineInv, Working
<1>2. CASE ToStage(p, "merge")
  BY <1>1, <1>2, ToStageKeeps DEF BranchIsOwn, Working
<1>3. ASSUME NEW i, pipe' = [pipe EXCEPT ![p].step = "ci_wait", ![p].run = i] PROVE PipelineInv'
  <2>1. /\ pipe' = [q \in Pipeline |-> pipe'[q]]
        /\ pipe'[p] = [pipe[p] EXCEPT !.step = "ci_wait", !.run = i]
        /\ \A q \in Pipeline \ {p} : pipe'[q] = pipe[q]
    BY <1>1, <1>3 DEF PipelineType
  <2>2. /\ pipe'[p].step = "ci_wait" /\ pipe'[p].branch = pipe[p].branch
        /\ pipe'[p].files = pipe[p].files /\ pipe'[p].todo = pipe[p].todo /\ IsCall(pipe'[p])
    BY <1>1, <2>1 DEF PipelineType, IsCall, Stage
  <2>3. BranchIsOwn(p)'
    BY <1>1, <2>2 DEF BranchIsOwn
  <2> QED BY <1>1, <2>1, <2>2, <2>3, Elsewhere DEF Working
<1> QED BY <1>2, <1>3 DEF FindRun

LEMMA PollRunKeeps ==
  ASSUME PipelineInv, NEW p \in Pipeline, PollRun(p)
  PROVE  PipelineInv'
<1>1. pipe[p].step = "ci_wait" /\ UNCHANGED <<main, branches>> /\ BranchIsOwn(p)
  BY DEF PollRun, AtStage, github, PipelineInv, Working
<1> QED BY <1>1, ToStageKeeps, EndKeeps DEF PollRun, BranchIsOwn, Working

\* At its merge a pipeline has changed what it was called with and nothing else.
LEMMA MergeTakesOwn ==
  ASSUME PipelineInv, NEW p \in Pipeline, Merge(p)
  PROVE  main' = [f \in Path |-> IF f \in pipe[p].files THEN p ELSE main[f]]
<1> DEFINE b == pipe[p].branch
<1>1. /\ pipe[p].step = "merge" /\ PipelineType /\ BranchIsOwn(p) /\ NotYetMerged(p)
      /\ main' = [f \in Path |-> IF f \in Changed(b) THEN branches[b].files[f] ELSE main[f]]
  BY DEF Merge, AtStage, PipelineInv, Working
<1>2. \A f \in Path : /\ f \in Changed(b) <=> f \in pipe[p].files
                      /\ f \in pipe[p].files => branches[b].files[f] = p
  BY <1>1 DEF BranchIsOwn, NotYetMerged, Changed
<1> QED BY <1>1, <1>2

LEMMA MergeKeeps ==
  ASSUME PipelineInv, NEW p \in Pipeline, Merge(p)
  PROVE  PipelineInv'
<1>1. /\ End(p, "completed") \/ End(p, "failed")
      /\ UNCHANGED branches /\ PipelineType /\ pipe[p].step = "merge"
  BY DEF Merge, AtStage, PipelineInv
<1>2. /\ pipe' = [q \in Pipeline |-> pipe'[q]] /\ IsCall(pipe'[p]) /\ pipe'[p].step = "ended"
      /\ \A q \in Pipeline \ {p} : pipe'[q] = pipe[q]
  BY <1>1, EndChanges
<1>3. main' = [f \in Path |-> IF f \in pipe[p].files THEN p ELSE main[f]]
  BY MergeTakesOwn
<1>4. PipelineType'
  BY <1>1, <1>2, <1>3 DEF PipelineType, Writer
<1>5. \A q \in Pipeline : pipe'[q].step = "branch_create" =>
        pipe'[q].branch \in Branch /\ pipe'[q].todo = pipe'[q].files
  BY <1>2 DEF PipelineInv
<1>6. ASSUME NEW q \in Pipeline, Working(q)' PROVE BranchIsOwn(q)'
  BY <1>1, <1>2, <1>6 DEF PipelineInv, Working, BranchIsOwn
<1>7. ASSUME NEW q \in Pipeline, pipe'[q].step # "ended" PROVE NotYetMerged(q)'
  BY <1>1, <1>2, <1>3, <1>7 DEF PipelineInv, NotYetMerged
<1>8. OneEach'
  BY <1>2 DEF PipelineInv, OneEach, Working
<1> QED BY <1>4, <1>5, <1>6, <1>7, <1>8 DEF PipelineInv

LEMMA PipelineStep ==
  PipelineInv /\ [PipelineNext]_pipelineVars => PipelineInv'
<1> SUFFICES ASSUME PipelineInv, [PipelineNext]_pipelineVars PROVE PipelineInv'
  OBVIOUS
<1>1. CASE UNCHANGED <<main, branches, pipe>>
  BY <1>1 DEF PipelineInv, PipelineType, Working, BranchIsOwn, NotYetMerged, OneEach
<1>2. ASSUME NEW p \in Pipeline, Fails(p) PROVE PipelineInv'
  BY <1>2, EndKeeps DEF Fails, github
<1>3. ASSUME NEW b \in Branch, RegisterRun(b) PROVE PipelineInv'
  BY <1>1, <1>3 DEF RegisterRun
<1>4. ASSUME NEW i \in DOMAIN ciRuns, NEW conclusion, EndRun(i, conclusion) PROVE PipelineInv'
  BY <1>1, <1>4 DEF EndRun
<1>5. CASE UNCHANGED pipelineVars
  BY <1>1, <1>5 DEF pipelineVars
<1> QED
  BY <1>2, <1>3, <1>4, <1>5, RunPipelineKeeps, CreateBranchKeeps, CommitFileKeeps,
     CreatePullRequestKeeps, FindRunKeeps, PollRunKeeps, MergeKeeps DEF PipelineNext

\* Only the merge of a pipeline changes the target branch.
LEMMA OnlyMergeMoves ==
  ASSUME PipelineNext, main' # main
  PROVE  \E p \in Pipeline : Merge(p)
BY DEF PipelineNext, RunPipeline, CommitFile, CreateBranch, CreatePullRequest, FindRun, PollRun,
       Fails, RegisterRun, EndRun, github

\* The target branch only ever takes one pipeline's whole change, whatever failed
\* pipelines and lost answers have left on GitHub.
THEOREM MergedStaysOwn == PipelineSpec => MergedIsOwn
<1> DEFINE Own == main' # main => \E p \in Pipeline :
             /\ AtStage(p, "merge")
             /\ main' = [f \in Path |-> IF f \in pipe[p].files THEN p ELSE main[f]]
<1>1. PipelineInv /\ [PipelineNext]_pipelineVars => [Own]_pipelineVars
  <2> SUFFICES ASSUME PipelineInv, PipelineNext, main' # main
               PROVE  \E p \in Pipeline :
                        /\ AtStage(p, "merge")
                        /\ main' = [f \in Path |-> IF f \in pipe[p].files THEN p ELSE main[f]]
    BY DEF pipelineVars
  <2>1. PICK p \in Pipeline : Merge(p)
    BY OnlyMergeMoves
  <2> QED BY <2>1, MergeTakesOwn DEF Merge
<1> QED BY <1>1, PipelineBegins, PipelineStep, PTL DEF PipelineSpec, MergedIsOwn

-----------------------------------------------------------------------------
(* Persistent queue *)

Steps == {"idle", "check", "mark"}

QueueType ==
  /\ DOMAIN asked = Stored /\ rowOrder \in Seq(Stored)
  /\ status \in [Stored -> {NoRow, "queued", "running"} \cup Terminal]
  /\ handed \in [Stored -> Nat] /\ everDone \subseteq Stored
  /\ dequeue \in [Server -> [step : Steps, list : Seq(Stored)]]

\* A row that is or was there has a place in the order of enqueueing, so that its
\* dependencies are fixed.  So has what a dequeue has read, though it may be gone.
DequeueInv ==
  /\ QueueType
  /\ \A t \in Stored : status[t] # NoRow => t \in ToSet(rowOrder)
  /\ \A t \in ToSet(rowOrder) : Dependencies(t) \subseteq Stored
  /\ \A t \in Stored : status[t] = "completed" => t \in everDone
  /\ \A s \in Server : dequeue[s].step # "idle" =>
       /\ dequeue[s].list # <<>>
       /\ \A i \in 1 .. Len(dequeue[s].list) : dequeue[s].list[i] \in ToSet(rowOrder)
  /\ \A s \in Server : dequeue[s].step = "mark" =>
       Dependencies(Head(dequeue[s].list)) \subseteq everDone

LEMMA DequeueBegins == QueueInit => DequeueInv
<1> SUFFICES ASSUME QueueInit PROVE DequeueInv
  OBVIOUS
<1>1. NoDequeue \in [step : Steps, list : Seq(Stored)] /\ NoDequeue.step = "idle"
  BY DEF NoDequeue, Steps
<1>2. QueueType
  BY <1>1 DEF QueueInit, QueueType
<1>3. ToSet(rowOrder) = {}
  BY DEF QueueInit, ToSet
<1> QED BY <1>1, <1>2, <1>3, NoRowAssumption DEF QueueInit, DequeueInv, Terminal

-----------------------------------------------------------------------------
(* What a dequeue reads *)

LEMMA SomethingIsListed ==
  ASSUME DequeueInv, Queued # {}, NEW list \in BoundedSeq(Queued, Page), IsListed(list)
  PROVE  /\ list \in Seq(Stored) /\ list # <<>>
         /\ \A i \in 1 .. Len(list) : list[i] \in ToSet(rowOrder)
<1>1. Queued \subseteq Stored /\ Queued \subseteq ToSet(rowOrder)
  BY NoRowAssumption DEF Queued, DequeueInv
<1>2. IsFiniteSet(ToSet(rowOrder))
  <2>1. rowOrder \in Seq(Stored) /\ Len(rowOrder) \in Nat
    BY LenProperties DEF DequeueInv, QueueType
  <2>2. rowOrder \in Surjection(1 .. Len(rowOrder), ToSet(rowOrder))
    BY <2>1, LenProperties DEF Surjection, ToSet
  <2> QED BY <2>1, <2>2, FS_NatSurjection DEF ExistsSurjection
<1>3. Cardinality(Queued) \in Nat \ {0}
  BY <1>1, <1>2, FS_Subset, FS_EmptySet, FS_CardinalityType
<1>4. Len(list) # 0
  BY <1>3, QueueBounds DEF IsListed
<1>5. PICK m \in 0 .. Page : list \in [1 .. m -> Queued]
  BY QueueBounds DEF BoundedSeq, SeqOf
<1>6. list \in Seq(Queued) /\ Len(list) = m
  BY <1>5, QueueBounds, IsASeq
<1> QED BY <1>1, <1>4, <1>5, <1>6, QueueBounds

LEMMA ReadKeeps ==
  ASSUME DequeueInv, NEW s \in Server, ReadQueue(s)
  PROVE  DequeueInv'
<1>1. PICK list \in BoundedSeq(Queued, Page) :
        /\ IsListed(list) /\ Queued # {}
        /\ dequeue' = [dequeue EXCEPT ![s] = [step |-> "check", list |-> list]]
        /\ UNCHANGED <<asked, status, rowOrder, handed, everDone>>
  BY DEF ReadQueue
<1>2. /\ list \in Seq(Stored) /\ list # <<>>
      /\ \A i \in 1 .. Len(list) : list[i] \in ToSet(rowOrder)
  BY <1>1, SomethingIsListed
<1>3. QueueType'
  BY <1>1, <1>2 DEF DequeueInv, QueueType, Steps
<1>4. /\ dequeue'[s].step = "check" /\ dequeue'[s].list = list
      /\ \A r \in Server \ {s} : dequeue'[r] = dequeue[r]
  BY <1>1 DEF DequeueInv, QueueType
<1> QED BY <1>1, <1>2, <1>3, <1>4 DEF DequeueInv, Dependencies

\* A row whose dependencies are not met is skipped; once they are, they stay so
\* in the sense of the property, whatever becomes of their rows.
LEMMA CheckKeeps ==
  ASSUME DequeueInv, NEW s \in Server, CheckHead(s)
  PROVE  DequeueInv'
<1> DEFINE list == dequeue[s].list
           rest == Tail(list)
<1>1. /\ dequeue[s].step = "check"
      /\ dequeue' = [dequeue EXCEPT ![s] =
           IF DependenciesMet(Head(list)) THEN [@ EXCEPT !.step = "mark"]
           ELSE IF rest = <<>> THEN NoDequeue ELSE [@ EXCEPT !.list = rest]]
      /\ UNCHANGED <<asked, status, rowOrder, handed, everDone>>
  BY DEF CheckHead
<1>2. /\ list \in Seq(Stored) /\ list # <<>> /\ rest \in Seq(Stored) /\ Head(list) \in Stored
      /\ dequeue[s] \in [step : Steps, list : Seq(Stored)]
      /\ \A i \in 1 .. Len(list) : list[i] \in ToSet(rowOrder)
  BY <1>1, HeadTailProperties DEF DequeueInv, QueueType
<1>3. /\ dequeue'[s] = IF DependenciesMet(Head(list)) THEN [dequeue[s] EXCEPT !.step = "mark"]
                       ELSE IF rest = <<>> THEN NoDequeue ELSE [dequeue[s] EXCEPT !.list = rest]
      /\ \A r \in Server \ {s} : dequeue'[r] = dequeue[r]
  BY <1>1 DEF DequeueInv, QueueType
<1>4. dequeue'[s] \in [step : Steps, list : Seq(Stored)]
  <2>1. /\ NoDequeue \in [step : Steps, list : Seq(Stored)]
        /\ [dequeue[s] EXCEPT !.step = "mark"] \in [step : Steps, list : Seq(Stored)]
        /\ [dequeue[s] EXCEPT !.list = rest] \in [step : Steps, list : Seq(Stored)]
    <3>1. NoDequeue \in [step : Steps, list : Seq(Stored)]
      BY DEF NoDequeue, Steps
    <3>2. "mark" \in Steps
      BY DEF Steps
    <3> QED BY <1>2, <3>1, <3>2
  <2> QED BY <1>3, <2>1
<1>5. QueueType'
  BY <1>1, <1>4 DEF DequeueInv, QueueType
<1>6. dequeue'[s].step # "idle" =>
        /\ dequeue'[s].list # <<>>
        /\ \A i \in 1 .. Len(dequeue'[s].list) : dequeue'[s].list[i] \in ToSet(rowOrder)
  <2>1. CASE DependenciesMet(Head(list))
    <3>1. dequeue'[s].list = list
      BY <1>2, <1>3, <2>1
    <3> QED BY <1>2, <3>1
  <2>2. CASE ~DependenciesMet(Head(list)) /\ rest # <<>>
    <3>1. dequeue'[s].list = rest
      BY <1>2, <1>3, <2>2
    <3>2. \A i \in 1 .. Len(rest) : rest[i] = list[i + 1] /\ i + 1 \in 1 .. Len(list)
      BY <1>2, HeadTailProperties, LenProperties
    <3> QED BY <1>2, <2>2, <3>1, <3>2
  <2>3. CASE ~DependenciesMet(Head(list)) /\ rest = <<>>
    BY <1>3, <2>3 DEF NoDequeue
  <2> QED BY <2>1, <2>2, <2>3
<1>7. dequeue'[s].step = "mark" => Dependencies(Head(dequeue'[s].list)) \subseteq everDone
  <2> SUFFICES ASSUME dequeue'[s].step = "mark"
               PROVE  Dependencies(Head(dequeue'[s].list)) \subseteq everDone
    OBVIOUS
  <2>1. DependenciesMet(Head(list)) /\ dequeue'[s].list = list
    BY <1>1, <1>2, <1>3 DEF NoDequeue
  <2>2. \A d \in Dependencies(Head(list)) : status[d] = "completed"
    BY <2>1 DEF DependenciesMet
  <2>3. Dependencies(Head(list)) \subseteq Stored
    <3>1. Head(list) = list[1] /\ 1 \in 1 .. Len(list)
      BY <1>2, HeadTailProperties, LenProperties
    <3> QED BY <1>2, <3>1 DEF DequeueInv
  <2> QED BY <2>1, <2>2, <2>3 DEF DequeueInv
<1> QED BY <1>1, <1>3, <1>5, <1>6, <1>7 DEF DequeueInv, Dependencies

-----------------------------------------------------------------------------
(* The other statements *)

LEMMA EnqueueKeeps ==
  ASSUME DequeueInv, NEW t \in Stored, NEW rank \in Ranks, NEW dependsOn,
         dependsOn \subseteq Stored, Enqueue(t, rank, dependsOn)
  PROVE  DequeueInv'
<1>1. /\ t \notin ToSet(rowOrder) /\ rowOrder' = Append(rowOrder, t)
      /\ asked' = [asked EXCEPT ![t] = [rank |-> rank, dependsOn |-> dependsOn]]
      /\ status' = [status EXCEPT ![t] = "queued"]
      /\ UNCHANGED <<dequeue, handed, everDone>>
      /\ QueueType
  BY DEF Enqueue, DequeueInv
<1>2. ToSet(rowOrder') = ToSet(rowOrder) \cup {t}
  <2>1. /\ rowOrder \in Seq(Stored) /\ Len(rowOrder) \in Nat
        /\ DOMAIN rowOrder = 1 .. Len(rowOrder)
        /\ DOMAIN rowOrder' = 1 .. Len(rowOrder) + 1
        /\ rowOrder'[Len(rowOrder) + 1] = t
        /\ \A i \in 1 .. Len(rowOrder) : rowOrder'[i] = rowOrder[i]
    BY <1>1, AppendProperties, LenProperties DEF QueueType
  <2> QED BY <2>1 DEF ToSet
<1>3. QueueType'
  BY <1>1, AppendProperties DEF QueueType
<1>4. Dependencies(t)' = dependsOn /\ \A u \in Stored \ {t} : Dependencies(u)' = Dependencies(u)
  BY <1>1 DEF QueueType, Dependencies
<1>5. ToSet(rowOrder) \subseteq Stored
  BY <1>1, LenProperties DEF QueueType, ToSet
<1>6. ASSUME NEW s \in Server, dequeue[s].step = "mark"
      PROVE  Dependencies(Head(dequeue[s].list))' = Dependencies(Head(dequeue[s].list))
  <2>1. /\ dequeue[s].list \in Seq(Stored) /\ dequeue[s].list # <<>>
        /\ \A i \in 1 .. Len(dequeue[s].list) : dequeue[s].list[i] \in ToSet(rowOrder)
    BY <1>6 DEF DequeueInv, QueueType
  <2>2. Head(dequeue[s].list) \in ToSet(rowOrder)
    BY <2>1, HeadTailProperties, LenProperties
  <2> QED BY <1>1, <1>4, <1>5, <2>2 DEF Dependencies
<1>7. \A s \in Server : dequeue'[s].step = "mark" =>
        Dependencies(Head(dequeue[s].list))' \subseteq everDone'
  BY <1>1, <1>6 DEF DequeueInv
<1>8. \A s \in Server : dequeue'[s].step # "idle" =>
       /\ dequeue'[s].list # <<>>
       /\ \A i \in 1 .. Len(dequeue'[s].list) : dequeue'[s].list[i] \in ToSet(rowOrder')
  BY <1>1, <1>2 DEF DequeueInv
<1>9. \A u \in Stored : /\ status'[u] # NoRow => u \in ToSet(rowOrder')
                        /\ status'[u] = "completed" => u \in everDone'
  BY <1>1, <1>2 DEF DequeueInv, QueueType
<1>10. \A u \in ToSet(rowOrder') : Dependencies(u)' \subseteq Stored
  BY <1>1, <1>2, <1>4, <1>5 DEF DequeueInv
<1> QED BY <1>1, <1>3, <1>7, <1>8, <1>9, <1>10 DEF DequeueInv, Dependencies

LEMMA MarkKeeps ==
  ASSUME DequeueInv, NEW s \in Server, MarkRunning(s)
  PROVE  /\ DequeueInv'
         /\ \A t \in Stored : handed'[t] > handed[t] => Dependencies(t) \subseteq everDone
<1> DEFINE t == Head(dequeue[s].list)
<1>1. /\ dequeue[s].step = "mark" /\ dequeue' = [dequeue EXCEPT ![s] = NoDequeue]
      /\ UNCHANGED <<asked, rowOrder, everDone>> /\ QueueType
      /\ \/ /\ IsRow(t) /\ status' = [status EXCEPT ![t] = "running"]
            /\ handed' = [handed EXCEPT ![t] = @ + 1]
         \/ UNCHANGED <<status, handed>>
      /\ Dependencies(t) \subseteq everDone
  BY DEF MarkRunning, DequeueInv
<1>2. t \in Stored
  BY <1>1, HeadTailProperties DEF DequeueInv, QueueType
<1>3. NoDequeue \in [step : Steps, list : Seq(Stored)] /\ NoDequeue.step = "idle"
  BY DEF NoDequeue, Steps
<1>4. dequeue'[s] = NoDequeue /\ \A r \in Server \ {s} : dequeue'[r] = dequeue[r]
  BY <1>1 DEF QueueType
<1>5. QueueType'
  BY <1>1, <1>2, <1>3 DEF QueueType
<1>6. \A u \in Stored : /\ status'[u] # NoRow => status[u] # NoRow
                        /\ status'[u] = "completed" => status[u] = "completed"
  BY <1>1, <1>2 DEF QueueType, IsRow
<1>7. DequeueInv'
  BY <1>1, <1>3, <1>4, <1>5, <1>6 DEF DequeueInv, Dependencies
<1>8. ASSUME NEW u \in Stored, handed'[u] > handed[u] PROVE Dependencies(u) \subseteq everDone
  <2>1. handed[u] \in Nat /\ handed'[u] # handed[u]
    BY <1>1, <1>8 DEF QueueType
  <2>2. u = t
    BY <1>1, <1>2, <2>1 DEF QueueType
  <2> QED BY <1>1, <2>2
<1> QED BY <1>7, <1>8

LEMMA StopKeeps ==
  ASSUME DequeueInv, NEW s \in Server, DequeueStops(s)
  PROVE  DequeueInv'
<1>1. /\ dequeue' = [dequeue EXCEPT ![s] = NoDequeue]
      /\ UNCHANGED <<asked, status, rowOrder, handed, everDone>> /\ QueueType
  BY DEF DequeueStops, DequeueInv
<1>2. NoDequeue \in [step : Steps, list : Seq(Stored)] /\ NoDequeue.step = "idle"
  BY DEF NoDequeue, Steps
<1>3. dequeue'[s] = NoDequeue /\ \A r \in Server \ {s} : dequeue'[r] = dequeue[r]
  BY <1>1 DEF QueueType
<1>4. QueueType'
  BY <1>1, <1>2 DEF QueueType
<1> QED BY <1>1, <1>2, <1>3, <1>4 DEF DequeueInv, Dependencies

LEMMA SettleKeeps ==
  ASSUME DequeueInv, NEW t \in Stored, NEW outcome \in Terminal, SettleRow(t, outcome)
  PROVE  DequeueInv'
<1>1. /\ status[t] # NoRow /\ status' = [status EXCEPT ![t] = outcome]
      /\ everDone' = IF outcome = "completed" THEN everDone \cup {t} ELSE everDone
      /\ UNCHANGED <<asked, rowOrder, dequeue, handed>> /\ QueueType
  BY DEF SettleRow, IsRow, DequeueInv
<1>2. QueueType'
  BY <1>1 DEF QueueType
<1>3. \A u \in Stored : /\ status'[u] # NoRow => status[u] # NoRow
                        /\ status'[u] = "completed" => u \in everDone'
  BY <1>1 DEF QueueType, DequeueInv
<1> QED BY <1>1, <1>2, <1>3 DEF DequeueInv, Dependencies

LEMMA PruneKeeps ==
  ASSUME DequeueInv, NEW old \in SUBSET Stored, PruneOldTasks(old)
  PROVE  DequeueInv'
<1>1. /\ status' = [t \in Stored |-> IF t \in old THEN NoRow ELSE status[t]]
      /\ UNCHANGED <<asked, rowOrder, dequeue, handed, everDone>> /\ QueueType
  BY DEF PruneOldTasks, DequeueInv
<1>2. QueueType'
  BY <1>1 DEF QueueType
<1>3. \A u \in Stored : /\ status'[u] # NoRow => status[u] # NoRow
                        /\ status'[u] = "completed" => status[u] = "completed"
  BY <1>1, NoRowAssumption DEF Terminal
<1> QED BY <1>1, <1>2, <1>3 DEF DequeueInv, Dependencies

-----------------------------------------------------------------------------
LEMMA EnqueueStep ==
  ASSUME DequeueInv, NEW t \in Stored, NEW rank \in Ranks,
         NEW dependsOn \in {{}} \cup {{d} : d \in ToSet(rowOrder)}, Enqueue(t, rank, dependsOn)
  PROVE  DequeueInv'
<1>1. ToSet(rowOrder) \subseteq Stored
  BY LenProperties DEF DequeueInv, QueueType, ToSet
<1> QED BY <1>1, EnqueueKeeps

LEMMA DequeueNext ==
  ASSUME DequeueInv, [QueueNext]_queueVars
  PROVE  DequeueInv'
<1>1. CASE UNCHANGED queueVars
  BY <1>1 DEF queueVars, DequeueInv, QueueType, Dependencies
<1> QED BY <1>1, EnqueueStep, ReadKeeps, CheckKeeps, MarkKeeps, StopKeeps, SettleKeeps,
           PruneKeeps DEF QueueNext

\* Only a dequeue that ends hands out a task.
LEMMA OnlyMarkingHandsOut ==
  ASSUME QueueNext, NEW t \in Stored, handed'[t] > handed[t], handed[t] \in Nat
  PROVE  \E s \in Server : MarkRunning(s)
BY DEF QueueNext, Enqueue, ReadQueue, CheckHead, DequeueStops, SettleRow, PruneOldTasks

\* A task is handed out only after all it depends on has completed once, whatever
\* other processes settle, overwrite and prune while its dequeue is on its way.
THEOREM DependentsAlwaysWait == QueueSpec => DependentsWait
<1> DEFINE Waits == \A t \in Stored : handed'[t] > handed[t] => Dependencies(t) \subseteq everDone
<1>1. DequeueInv /\ [QueueNext]_queueVars => [Waits]_queueVars
  <2> SUFFICES ASSUME DequeueInv, QueueNext, NEW t \in Stored, handed'[t] > handed[t]
               PROVE  Dependencies(t) \subseteq everDone
    OBVIOUS
  <2>1. PICK s \in Server : MarkRunning(s)
    BY OnlyMarkingHandsOut DEF DequeueInv, QueueType
  <2> QED BY <2>1, MarkKeeps
<1>2. DequeueInv /\ [QueueNext]_queueVars => DequeueInv'
  BY DequeueNext
<1> QED BY <1>1, <1>2, DequeueBegins, PTL DEF QueueSpec, DependentsWait

-----------------------------------------------------------------------------
(* Sequences without repetitions *)

\* A set of naturals has a least element: of the intervals from 0 to its elements
\* one contains no other.
LEMMA MinOfNaturals ==
  ASSUME NEW I, I \subseteq Nat, I # {}
  PROVE  Min(I) \in I /\ \A j \in I : Min(I) <= j
<1>1. PICK n \in I : n \in Nat
  OBVIOUS
<1> DEFINE S == 0 .. n
           T == {0 .. j : j \in {i \in I : i <= n}}
<1>2. IsFiniteSet(S)
  BY <1>1, FS_Interval
<1>3. IsWellFoundedOn(StrictSubsetOrdering(S), SUBSET S)
  BY <1>2, FS_StrictSubsetOrderingWellFounded, FS_FiniteSubsetsOfFinite
<1>4. T \subseteq SUBSET S /\ T # {}
  BY <1>1
<1>5. PICK x \in T : \A y \in T : ~(<<y, x>> \in StrictSubsetOrdering(S))
  <2> HIDE DEF S, T
  <2> QED BY <1>3, <1>4, WFMin
<1>6. PICK m \in I : m <= n /\ x = 0 .. m
  BY <1>5
<1>7. ASSUME NEW j \in I, j < m PROVE FALSE
  <2>1. j \in Nat /\ m \in Nat /\ j <= n
    BY <1>1, <1>6, <1>7
  <2>2. 0 .. j \in T /\ 0 .. j \in SUBSET S /\ x \in SUBSET S
    BY <1>1, <1>6, <1>7, <2>1
  <2>3. 0 .. j \subseteq x /\ m \in x /\ m \notin 0 .. j
    BY <1>6, <1>7, <2>1
  <2>4. <<0 .. j, x>> \in StrictSubsetOrdering(S)
    BY <2>2, <2>3 DEF StrictSubsetOrdering
  <2> QED BY <1>5, <2>2, <2>4
<1>8. \A j \in I : m <= j
  BY <1>6, <1>7
<1> QED BY <1>6, <1>8 DEF Min

LEMMA SubSeqInside ==
  ASSUME NEW S, NEW s \in Seq(S), NEW m \in 1 .. Len(s) + 1, NEW n \in 0 .. Len(s), m <= n + 1
  PROVE  /\ SubSeq(s, m, n) \in Seq(S) /\ Len(SubSeq(s, m, n)) = n - m + 1
         /\ \A i \in 1 .. n - m + 1 : SubSeq(s, m, n)[i] = s[m + i - 1]
<1>1. Len(s) \in Nat
  BY LenProperties
<1>2. m \in Int /\ n \in Int /\ \A i \in m .. n : s[i] \in S
  BY <1>1, ElementOfSeq
<1>3. /\ SubSeq(s, m, n) \in Seq(S)
      /\ Len(SubSeq(s, m, n)) = IF m <= n THEN n - m + 1 ELSE 0
      /\ \A i \in 1 .. n - m + 1 : SubSeq(s, m, n)[i] = s[m + i - 1]
  BY <1>2, SubSeqProperties
<1> QED BY <1>1, <1>3

\* What is inserted into a sequence without repetitions and is not there makes one.
LEMMA InsertedOnce ==
  ASSUME NEW S, NEW s \in Seq(S), IsInjective(s), NEW e \in S, e \notin ToSet(s), NEW i \in 1 .. Len(s) + 1
  PROVE  /\ InsertAt(s, i, e) \in Seq(S) /\ IsInjective(InsertAt(s, i, e))
         /\ ToSet(InsertAt(s, i, e)) = ToSet(s) \cup {e}
<1>1. Len(s) \in Nat /\ DOMAIN s = 1 .. Len(s)
  BY LenProperties
<1>2. PICK a, b, c, u : a = SubSeq(s, 1, i - 1) /\ b = SubSeq(s, i, Len(s)) /\ c = a \o <<e>> /\ u = c \o b
  OBVIOUS
<1>3. /\ a \in Seq(S) /\ Len(a) = i - 1 /\ \A j \in 1 .. i - 1 : a[j] = s[j]
      /\ b \in Seq(S) /\ Len(b) = Len(s) - i + 1 /\ \A j \in 1 .. Len(s) - i + 1 : b[j] = s[i + j - 1]
  BY <1>1, <1>2, SubSeqInside
<1>4. <<e>> \in Seq(S) /\ Len(<<e>>) = 1 /\ <<e>>[1] = e
  OBVIOUS
<1>5. c \in Seq(S) /\ Len(c) = i /\ \A j \in 1 .. i : c[j] = IF j <= i - 1 THEN s[j] ELSE e
  <2>1. PICK d : d = <<e>>
    OBVIOUS
  <2>2. d \in Seq(S) /\ Len(d) = 1 /\ d[1] = e
    BY <1>4, <2>1
  <2>3. c \in Seq(S) /\ Len(c) = Len(a) + Len(d) /\ \A j \in 1 .. Len(a) + Len(d) : c[j] = IF j <= Len(a) THEN a[j] ELSE d[j - Len(a)]
    BY <1>2, <1>3, <2>1, <2>2, ConcatProperties
  <2>4. ASSUME NEW j \in 1 .. i PROVE c[j] = IF j <= i - 1 THEN s[j] ELSE e
    <3>1. CASE j <= i - 1
      <4>1. j \in 1 .. i - 1 /\ j \in 1 .. Len(a) + Len(d) /\ j <= Len(a)
        BY <1>1, <1>3, <2>2, <3>1
      <4> QED BY <1>3, <2>3, <3>1, <4>1
    <3>2. CASE j = i
      <4>1. j - Len(a) = 1 /\ ~(j <= Len(a)) /\ j \in 1 .. Len(a) + Len(d)
        BY <1>1, <1>3, <2>2, <3>2
      <4> QED BY <2>2, <2>3, <3>2, <4>1
    <3> QED BY <1>1, <3>1, <3>2
  <2>5. Len(c) = i
    BY <1>1, <1>3, <2>2, <2>3
  <2> QED BY <2>3, <2>4, <2>5
<1>6. /\ u \in Seq(S) /\ Len(u) = Len(s) + 1
      /\ \A j \in 1 .. Len(s) + 1 : u[j] = IF j < i THEN s[j] ELSE IF j = i THEN e ELSE s[j - 1]
  <2>1. b \in Seq(S) /\ c \in Seq(S)
    BY <1>3, <1>5
  <2>2. u = c \o b
    BY <1>2
  <2>3. u \in Seq(S) /\ Len(u) = Len(c) + Len(b) /\ \A j \in 1 .. Len(c) + Len(b) : u[j] = IF j <= Len(c) THEN c[j] ELSE b[j - Len(c)]
    BY <2>1, <2>2, ConcatProperties
  <2> QED BY <1>1, <1>3, <1>5, <2>3
<1>7. DOMAIN u = 1 .. Len(s) + 1
  BY <1>6, LenProperties
<1>8. \A j \in 1 .. Len(s) : s[j] # e
  BY <1>1 DEF ToSet
<1>9. \A j, k \in 1 .. Len(s) : s[j] = s[k] => j = k
  BY <1>1 DEF IsInjective
<1>10. IsInjective(u)
  BY <1>1, <1>6, <1>7, <1>8, <1>9 DEF IsInjective
<1>11. ToSet(u) = ToSet(s) \cup {e}
  <2>1. ToSet(u) \subseteq ToSet(s) \cup {e}
    BY <1>1, <1>6, <1>7 DEF ToSet
  <2>2. ASSUME NEW j \in 1 .. Len(s) PROVE \E k \in 1 .. Len(s) + 1 : u[k] = s[j]
    <3>1. CASE j < i
      BY <1>1, <1>6, <2>2, <3>1
    <3>2. CASE j >= i
      <4>1. j + 1 \in 1 .. Len(s) + 1 /\ u[j + 1] = s[j]
        BY <1>1, <1>6, <2>2, <3>2
      <4> QED BY <4>1
    <3> QED BY <1>1, <2>2, <3>1, <3>2
  <2>3. u[i] = e
    BY <1>1, <1>6
  <2> QED BY <1>1, <1>7, <2>1, <2>2, <2>3 DEF ToSet
<1>12. InsertAt(s, i, e) = u
  BY <1>2 DEF InsertAt
<1> QED BY <1>6, <1>10, <1>11, <1>12

\* What is taken out of a sequence without repetitions is no longer there.
LEMMA RemovedOnce ==
  ASSUME NEW S, NEW s \in Seq(S), IsInjective(s), NEW i \in 1 .. Len(s)
  PROVE  /\ RemoveAt(s, i) \in Seq(S) /\ IsInjective(RemoveAt(s, i))
         /\ ToSet(RemoveAt(s, i)) = ToSet(s) \ {s[i]}
<1>1. Len(s) \in Nat /\ DOMAIN s = 1 .. Len(s)
  BY LenProperties
<1>2. PICK a, b, u : a = SubSeq(s, 1, i - 1) /\ b = SubSeq(s, i + 1, Len(s)) /\ u = a \o b
  OBVIOUS
<1>3. /\ a \in Seq(S) /\ Len(a) = i - 1 /\ \A j \in 1 .. i - 1 : a[j] = s[j]
      /\ b \in Seq(S) /\ Len(b) = Len(s) - i /\ \A j \in 1 .. Len(s) - i : b[j] = s[i + j]
  <2>1. i + 1 \in 1 .. Len(s) + 1 /\ i - 1 \in 0 .. Len(s) /\ 1 \in 1 .. Len(s) + 1 /\ Len(s) \in 0 .. Len(s)
    BY <1>1
  <2>2. PICK m, n, k : m = 1 /\ n = i - 1 /\ k = i + 1
    OBVIOUS
  <2>3. m \in 1 .. Len(s) + 1 /\ n \in 0 .. Len(s) /\ m <= n + 1 /\ k \in 1 .. Len(s) + 1 /\ k <= Len(s) + 1
    BY <1>1, <2>2
  <2>4. /\ SubSeq(s, m, n) \in Seq(S) /\ Len(SubSeq(s, m, n)) = n - m + 1
        /\ \A j \in 1 .. n - m + 1 : SubSeq(s, m, n)[j] = s[m + j - 1]
    BY <2>3, SubSeqInside
  <2>5. /\ SubSeq(s, k, Len(s)) \in Seq(S) /\ Len(SubSeq(s, k, Len(s))) = Len(s) - k + 1
        /\ \A j \in 1 .. Len(s) - k + 1 : SubSeq(s, k, Len(s))[j] = s[k + j - 1]
    BY <2>1, <2>3, SubSeqInside
  <2>6. a \in Seq(S) /\ Len(a) = i - 1 /\ \A j \in 1 .. i - 1 : a[j] = s[j]
    BY <1>1, <1>2, <2>2, <2>4
  <2>7. b \in Seq(S) /\ Len(b) = Len(s) - i /\ \A j \in 1 .. Len(s) - i : b[j] = s[i + j]
    <3>1. b = SubSeq(s, k, Len(s)) /\ Len(s) - k + 1 = Len(s) - i
      BY <1>1, <1>2, <2>2
    <3>2. ASSUME NEW j \in 1 .. Len(s) - i PROVE b[j] = s[i + j]
      <4>1. k + j - 1 = i + j
        BY <1>1, <2>2
      <4> QED BY <2>5, <3>1, <4>1
    <3> QED BY <2>5, <3>1, <3>2
  <2> QED BY <2>6, <2>7
<1>4. /\ u \in Seq(S) /\ Len(u) = Len(s) - 1
      /\ \A j \in 1 .. Len(s) - 1 : u[j] = IF j < i THEN s[j] ELSE s[j + 1]
  <2>1. a \in Seq(S) /\ b \in Seq(S)
    BY <1>3
  <2>2. u \in Seq(S) /\ Len(u) = Len(a) + Len(b) /\ \A j \in 1 .. Len(a) + Len(b) : u[j] = IF j <= Len(a) THEN a[j] ELSE b[j - Len(a)]
    BY <1>2, <2>1, ConcatProperties
  <2>3. Len(u) = Len(s) - 1 /\ Len(a) + Len(b) = Len(s) - 1
    BY <1>1, <1>3, <2>2
  <2>4. ASSUME NEW j \in 1 .. Len(s) - 1 PROVE u[j] = IF j < i THEN s[j] ELSE s[j + 1]
    <3>1. CASE j < i
      <4>1. j \in 1 .. i - 1 /\ j <= Len(a)
        BY <1>1, <1>3, <2>4, <3>1
      <4> QED BY <1>3, <2>2, <2>3, <2>4, <3>1, <4>1
    <3>2. CASE ~(j < i)
      <4>1. j - Len(a) \in 1 .. Len(s) - i /\ ~(j <= Len(a)) /\ i + (j - Len(a)) = j + 1
        BY <1>1, <1>3, <2>4, <3>2
      <4>2. u[j] = b[j - Len(a)]
        BY <2>2, <2>3, <2>4, <4>1
      <4>3. b[j - Len(a)] = s[i + (j - Len(a))]
        BY <1>3, <4>1
      <4> QED BY <3>2, <4>1, <4>2, <4>3
    <3> QED BY <3>1, <3>2
  <2> QED BY <2>2, <2>3, <2>4
<1>5. DOMAIN u = 1 .. Len(s) - 1
  BY <1>4, LenProperties
<1>6. \A j, k \in 1 .. Len(s) : s[j] = s[k] => j = k
  BY <1>1 DEF IsInjective
<1>7. IsInjective(u)
  BY <1>1, <1>4, <1>5, <1>6 DEF IsInjective
<1>8. ToSet(u) = ToSet(s) \ {s[i]}
  <2>1. ASSUME NEW j \in 1 .. Len(s) - 1 PROVE u[j] \in ToSet(s) \ {s[i]}
    <3>1. CASE j < i
      BY <1>1, <1>4, <1>6, <2>1, <3>1 DEF ToSet
    <3>2. CASE j >= i
      BY <1>1, <1>4, <1>6, <2>1, <3>2 DEF ToSet
    <3> QED BY <1>1, <2>1, <3>1, <3>2
  <2>2. ASSUME NEW j \in 1 .. Len(s), j # i PROVE \E k \in 1 .. Len(s) - 1 : u[k] = s[j]
    <3>1. CASE j < i
      BY <1>1, <1>4, <2>2, <3>1
    <3>2. CASE j > i
      <4>1. j - 1 \in 1 .. Len(s) - 1 /\ u[j - 1] = s[j]
        BY <1>1, <1>4, <2>2, <3>2
      <4> QED BY <4>1
    <3> QED BY <1>1, <2>2, <3>1, <3>2
  <2>3. ToSet(u) = {u[j] : j \in 1 .. Len(s) - 1} /\ ToSet(s) = {s[j] : j \in 1 .. Len(s)}
    BY <1>1, <1>5 DEF ToSet
  <2> QED BY <1>1, <2>1, <2>2, <2>3
<1>9. RemoveAt(s, i) = u
  BY <1>2 DEF RemoveAt
<1> QED BY <1>4, <1>7, <1>8, <1>9

-----------------------------------------------------------------------------
(* The scheduler *)

Settlement == [task : Task, status : {"completed", "failed", "cancelled", "timeout"}]

\* None stands for the task of an idle caller, so a call may name no task at all.
SchedulerType ==
  /\ plan \in [Task -> Plans \cup {None}]
  /\ queue \in Seq(Task)
  /\ running \subseteq Task /\ IsFiniteSet(running)
  /\ settled \in Seq(Settlement)
  /\ call \in [Caller \cup LoopCaller ->
                 [step : {"idle", "waiting", "cleared", "executing", "looping"},
                  task : Task \cup {LoopTask, None}, agent : Agent \cup {None}]]

\* Whatever is queued, running, settled or in the hands of a caller was submitted.
\* A new id is therefore nowhere, which is what one place per task rests on.
WasSubmitted ==
  \A t \in Task :
    t \in ToSet(queue) \cup running \cup SettledIds \/ (\E c \in Caller : call[c].task = t)
    => plan[t] # None

SchedulerInv == SchedulerType /\ OnePlace /\ WasSubmitted

SettledOnce(s) == \A i, j \in DOMAIN s : s[i].task = s[j].task => i = j

\* What most steps do: tasks leave the queue, are settled or forgotten, and no call
\* takes another task.
Recedes ==
  /\ UNCHANGED plan
  /\ queue' \in Seq(Task) /\ IsInjective(queue') /\ ToSet(queue') \subseteq ToSet(queue)
  /\ running' \subseteq running /\ IsFiniteSet(running') /\ late' \subseteq running'
  /\ settled' \in Seq(Settlement) /\ SettledOnce(settled')
  /\ SettledIds' \subseteq SettledIds \cup running /\ SettledIds' \cap running' = {}

SameTasks ==
  /\ call' \in [Caller \cup LoopCaller ->
                  [step : {"idle", "waiting", "cleared", "executing", "looping"},
                   task : Task \cup {LoopTask, None}, agent : Agent \cup {None}]]
  /\ \A c \in Caller : call'[c].task = call[c].task \/ call'[c].task \notin Task

LEMMA RecedingKeeps ==
  ASSUME SchedulerInv, Recedes, SameTasks
  PROVE  SchedulerInv'
<1> USE DEF SchedulerInv
<1>1. SchedulerType'
  BY DEF SchedulerType, Recedes, SameTasks
<1>2. IsInjective([i \in DOMAIN settled' |-> settled'[i].task])
  BY DEF Recedes, SettledOnce, IsInjective
<1>3. ToSet(queue') \cap running' = {} /\ ToSet(queue') \cap SettledIds' = {}
  BY DEF Recedes, OnePlace
<1>4. \A c \in Caller : call'[c].task \in Task =>
        /\ call'[c].task \notin ToSet(queue')
        /\ \A e \in Caller \ {c} : call'[e].task # call'[c].task
  BY DEF Recedes, SameTasks, OnePlace
<1>5. OnePlace'
  BY <1>2, <1>3, <1>4 DEF Recedes, OnePlace
<1>6. ASSUME NEW t \in Task,
             t \in ToSet(queue') \cup running' \cup SettledIds' \/ (\E c \in Caller : call'[c].task = t)
      PROVE  plan'[t] # None
  BY <1>6 DEF WasSubmitted, Recedes, SameTasks
<1>7. WasSubmitted'
  BY <1>6 DEF WasSubmitted
<1> QED BY <1>1, <1>5, <1>7

LEMMA NothingRecedes ==
  ASSUME SchedulerInv, UNCHANGED <<plan, queue, running, settled, late>>
  PROVE  Recedes
<1>1. SettledOnce(settled)
  BY DEF SchedulerInv, OnePlace, SettledOnce, IsInjective
<1>2. SettledIds' = SettledIds
  BY DEF SettledIds
<1> QED BY <1>1, <1>2 DEF SchedulerInv, SchedulerType, OnePlace, Recedes, SettledOnce

LEMMA SettleRecedes ==
  ASSUME SchedulerInv, NEW t, NEW outcome \in {"completed", "failed", "cancelled", "timeout"},
         Settle(t, outcome), UNCHANGED <<plan, queue>>
  PROVE  Recedes
<1>1. CASE t \notin running
  BY <1>1, NothingRecedes DEF Settle
<1>2. CASE t \in running
  <2> PICK o : o = Outcome(t, outcome)
    OBVIOUS
  <2>1. o \in Settlement /\ o.task = t
    BY <1>2 DEF Outcome, Settlement, SchedulerInv, SchedulerType
  <2>2. settled' = Append(settled, o) /\ running' = running \ {t} /\ late' = late \ {t}
    BY <1>2 DEF Settle
  <2>3. settled \in Seq(Settlement) /\ Len(settled) \in Nat /\ DOMAIN settled = 1 .. Len(settled)
    BY LenProperties DEF SchedulerInv, SchedulerType
  <2>4. /\ settled' \in Seq(Settlement) /\ Len(settled') = Len(settled) + 1
        /\ \A i \in 1 .. Len(settled) : settled'[i] = settled[i]
        /\ settled'[Len(settled) + 1] = o
    BY <2>1, <2>2, <2>3, AppendProperties
  <2>5. DOMAIN settled' = 1 .. Len(settled) + 1
    BY <2>4, LenProperties
  <2>6. \A i \in 1 .. Len(settled) : settled[i].task # t
    BY <1>2, <2>3 DEF SchedulerInv, OnePlace, SettledIds
  <2>7. \A i, j \in 1 .. Len(settled) : settled[i].task = settled[j].task => i = j
    BY <2>3 DEF SchedulerInv, OnePlace, IsInjective
  <2>8. SettledOnce(settled')
    BY <2>1, <2>3, <2>4, <2>5, <2>6, <2>7 DEF SettledOnce
  <2>9. SettledIds' = SettledIds \cup {t}
    BY <2>1, <2>3, <2>4, <2>5 DEF SettledIds
  <2>10. IsFiniteSet(running')
    BY <2>2, FS_Subset DEF SchedulerInv, SchedulerType
  <2> QED BY <1>2, <2>2, <2>4, <2>8, <2>9, <2>10 DEF SchedulerInv, SchedulerType, OnePlace, Recedes
<1> QED BY <1>1, <1>2

LEMMA CancelRecedes ==
  ASSUME SchedulerInv, NEW t \in Task, CancelTask(t)
  PROVE  Recedes
<1>1. PICK place : place = SelectInSeq(queue, LAMBDA q : q = t)
  OBVIOUS
<1>2. CASE place # 0 /\ queue' = RemoveAt(queue, place) /\ UNCHANGED <<plan, running, late, settled>>
  <2>1. queue \in Seq(Task) /\ Len(queue) \in Nat /\ IsInjective(queue)
    BY LenProperties DEF SchedulerInv, SchedulerType, OnePlace
  <2>2. place \in 1 .. Len(queue)
    <3> DEFINE I == {i \in 1 .. Len(queue) : queue[i] = t}
    <3>1. place = IF I # {} THEN Min(I) ELSE 0
      BY <1>1 DEF SelectInSeq
    <3>2. I \subseteq Nat /\ I \subseteq 1 .. Len(queue)
      BY <2>1
    <3> HIDE DEF I
    <3> QED BY <1>2, <3>1, <3>2, MinOfNaturals
  <2>3. /\ RemoveAt(queue, place) \in Seq(Task) /\ IsInjective(RemoveAt(queue, place))
        /\ ToSet(RemoveAt(queue, place)) \subseteq ToSet(queue)
    BY <2>1, <2>2, RemovedOnce
  <2>4. SettledOnce(settled) /\ SettledIds' = SettledIds
    BY <1>2 DEF SchedulerInv, OnePlace, SettledOnce, IsInjective, SettledIds
  <2> QED BY <1>2, <2>3, <2>4 DEF SchedulerInv, SchedulerType, OnePlace, Recedes
<1>3. CASE Settle(t, "cancelled") /\ UNCHANGED <<plan, queue>>
  BY <1>3, SettleRecedes
<1> QED BY <1>1, <1>2, <1>3 DEF CancelTask

\* Pruning keeps the end of the list.
LEMMA PruningRecedes ==
  ASSUME SchedulerInv, GetStatus
  PROVE  Recedes
<1>1. CASE settled' = settled
  BY <1>1, NothingRecedes DEF GetStatus
<1>2. CASE ~(Len(settled) <= KeepLast) /\ settled' = SubSeq(settled, Len(settled) - KeepLast + 1, Len(settled))
  <2>1. settled \in Seq(Settlement) /\ Len(settled) \in Nat /\ DOMAIN settled = 1 .. Len(settled) /\ KeepLast \in Nat
    BY LenProperties, SchedulerBounds DEF SchedulerInv, SchedulerType
  <2>2. PICK m : m = Len(settled) - KeepLast + 1
    OBVIOUS
  <2>3. m \in 1 .. Len(settled) + 1 /\ Len(settled) \in 0 .. Len(settled) /\ m <= Len(settled) + 1
    BY <1>2, <2>1, <2>2
  <2>4. /\ SubSeq(settled, m, Len(settled)) \in Seq(Settlement)
        /\ Len(SubSeq(settled, m, Len(settled))) = Len(settled) - m + 1
        /\ \A i \in 1 .. Len(settled) - m + 1 : SubSeq(settled, m, Len(settled))[i] = settled[m + i - 1]
    BY <2>1, <2>3, SubSeqInside
  <2>5. /\ settled' \in Seq(Settlement) /\ DOMAIN settled' = 1 .. Len(settled) - m + 1
        /\ \A i \in 1 .. Len(settled) - m + 1 : settled'[i] = settled[m + i - 1] /\ m + i - 1 \in 1 .. Len(settled)
    BY <1>2, <2>1, <2>2, <2>3, <2>4, LenProperties
  <2>6. \A i, j \in 1 .. Len(settled) : settled[i].task = settled[j].task => i = j
    BY <2>1 DEF SchedulerInv, OnePlace, IsInjective
  <2>7. SettledOnce(settled')
    <3> SUFFICES ASSUME NEW i \in DOMAIN settled', NEW j \in DOMAIN settled', settled'[i].task = settled'[j].task
                 PROVE  i = j
      BY DEF SettledOnce
    <3>1. settled[m + i - 1].task = settled[m + j - 1].task /\ m + i - 1 \in 1 .. Len(settled) /\ m + j - 1 \in 1 .. Len(settled)
      BY <2>5
    <3>2. m + i - 1 = m + j - 1
      BY <2>6, <3>1
    <3> QED BY <2>1, <2>3, <2>5, <3>2
  <2>8. SettledIds' \subseteq SettledIds
    BY <2>1, <2>5 DEF SettledIds
  <2> QED BY <2>5, <2>7, <2>8 DEF SchedulerInv, SchedulerType, OnePlace, Recedes, GetStatus
<1> QED BY <1>1, <1>2 DEF GetStatus

\* A submitted task was nowhere.
LEMMA SubmitKeeps ==
  ASSUME SchedulerInv, NEW t \in Task, NEW priority \in Levels, NEW a \in Agent, NEW estimate \in Estimates,
         NEW dependsOn \in SUBSET Task, NEW busy, SubmitTask(t, priority, a, estimate, dependsOn, busy)
  PROVE  SchedulerInv'
<1>1. plan[t] = None /\ UNCHANGED call
  BY DEF SubmitTask
<1>2. CASE UNCHANGED tables
  <2>1. SameTasks
    BY <1>1 DEF SameTasks, SchedulerInv, SchedulerType
  <2> QED BY <1>2, <2>1, NothingRecedes, RecedingKeeps DEF tables
<1>3. CASE /\ queue' = Insert(t, priority)
           /\ plan' = [plan EXCEPT ![t] = [priority |-> priority, agent |-> a,
                                           estimate |-> estimate, dependsOn |-> dependsOn]]
           /\ UNCHANGED <<running, settled, late>>
  <2>1. queue \in Seq(Task) /\ Len(queue) \in Nat /\ IsInjective(queue)
    BY LenProperties DEF SchedulerInv, SchedulerType, OnePlace
  <2>2. PICK lower : lower = SelectInSeq(queue, LAMBDA q : plan[q].priority < priority)
    OBVIOUS
  <2>3. lower \in 0 .. Len(queue)
    <3> DEFINE I == {i \in 1 .. Len(queue) : plan[queue[i]].priority < priority}
    <3>1. lower = IF I # {} THEN Min(I) ELSE 0
      BY <2>2 DEF SelectInSeq
    <3>2. I \subseteq Nat /\ I \subseteq 1 .. Len(queue)
      BY <2>1
    <3>3. CASE I = {}
      BY <2>1, <3>1, <3>3
    <3>4. CASE I # {}
      <4> HIDE DEF I
      <4>1. Min(I) \in 1 .. Len(queue)
        BY <3>2, <3>4, MinOfNaturals
      <4> QED BY <2>1, <3>1, <3>4, <4>1
    <3> QED BY <3>3, <3>4
  <2>4. PICK i : i = IF lower = 0 THEN Len(queue) + 1 ELSE lower
    OBVIOUS
  <2>5. i \in 1 .. Len(queue) + 1 /\ queue' = InsertAt(queue, i, t)
    BY <1>3, <2>1, <2>2, <2>3, <2>4 DEF Insert
  <2>6. /\ t \notin ToSet(queue) /\ t \notin running /\ t \notin SettledIds
        /\ \A c \in Caller : call[c].task # t
    BY <1>1 DEF SchedulerInv, WasSubmitted
  <2>7. queue' \in Seq(Task) /\ IsInjective(queue') /\ ToSet(queue') = ToSet(queue) \cup {t}
    BY <2>1, <2>5, <2>6, InsertedOnce
  <2>8. /\ plan' \in [Task -> Plans \cup {None}] /\ plan'[t] # None
        /\ \A u \in Task \ {t} : plan'[u] = plan[u]
    BY <1>3, NothingAssumption DEF SchedulerInv, SchedulerType, Plans
  <2>9. SettledIds' = SettledIds
    BY <1>3 DEF SettledIds
  <2>10. SchedulerType'
    BY <1>1, <1>3, <2>7, <2>8 DEF SchedulerInv, SchedulerType
  <2>11. OnePlace'
    BY <1>1, <1>3, <2>6, <2>7, <2>9 DEF SchedulerInv, OnePlace
  <2>12. WasSubmitted'
    BY <1>1, <1>3, <2>7, <2>8, <2>9 DEF SchedulerInv, WasSubmitted
  <2> QED BY <2>10, <2>11, <2>12 DEF SchedulerInv
<1> QED BY <1>2, <1>3 DEF SubmitTask

\* The tasks that ran out of time are settled one by one, in some order.
LEMMA TimeoutsSettle ==
  ASSUME SchedulerInv,
         settled' = settled \o [i \in 1 .. Cardinality(late) |-> Outcome(SetToSeq(late)[i], "timeout")]
  PROVE  /\ settled' \in Seq(Settlement) /\ SettledOnce(settled')
         /\ SettledIds' = SettledIds \cup late
<1>1. late \subseteq Task /\ IsFiniteSet(late) /\ Cardinality(late) \in Nat /\ late \cap SettledIds = {}
  BY FS_Subset, FS_CardinalityType DEF SchedulerInv, SchedulerType, OnePlace
<1>2. PICK n, f : n = Cardinality(late) /\ f = SetToSeq(late)
  OBVIOUS
<1>3. f \in [1 .. n -> late] /\ IsInjective(f)
  <2>1. PICK g : g \in Bijection(1 .. n, late)
    BY <1>1, <1>2, FS_CardinalityType DEF ExistsBijection
  <2>2. g \in [1 .. n -> late] /\ IsInjective(g)
    BY <2>1 DEF Bijection, Injection, IsInjective
  <2> QED BY <1>2, <2>2 DEF SetToSeq
<1>4. late \subseteq {f[i] : i \in 1 .. n}
  <2>1. PICK g : g \in Bijection(1 .. n, late)
    BY <1>1, <1>2, FS_CardinalityType DEF ExistsBijection
  <2>2. IsFiniteSet(1 .. n) /\ Cardinality(1 .. n) = n
    BY <1>1, <1>2, FS_Interval
  <2>3. f \in Injection(1 .. n, late)
    BY <1>3 DEF Injection
  <2> DEFINE T == {f[i] : i \in 1 .. n}
  <2>4. T \subseteq late
    BY <1>3
  <2>5. f \in Bijection(1 .. n, T)
    BY <1>3 DEF Bijection, Injection, Surjection, IsInjective
  <2>6. Cardinality(T) = n
    BY <1>1, <1>2, <2>5, FS_CountingElements DEF ExistsBijection
  <2>7. T = late
    BY <1>1, <1>2, <2>4, <2>6, FS_Subset
  <2> QED BY <2>7
<1>5. PICK b : b = [i \in 1 .. n |-> Outcome(f[i], "timeout")]
  OBVIOUS
<1>6. /\ b \in Seq(Settlement) /\ Len(b) = n
      /\ \A i \in 1 .. n : b[i].task = f[i]
  <2>1. n \in Nat /\ \A i \in 1 .. n : f[i] \in Task
    BY <1>1, <1>2, <1>3
  <2>2. \A x \in Task : Outcome(x, "timeout") \in Settlement /\ Outcome(x, "timeout").task = x
    BY DEF Outcome, Settlement
  <2>3. b \in [1 .. n -> Settlement] /\ DOMAIN b = 1 .. n
    BY <1>5, <2>1, <2>2
  <2>4. b \in Seq(Settlement)
    BY <2>1, <2>3
  <2>5. Len(b) = n
    BY <2>1, <2>3, <2>4
  <2>6. \A i \in 1 .. n : b[i].task = f[i]
    BY <1>5, <2>1, <2>2
  <2> QED BY <2>4, <2>5, <2>6
<1>7. settled \in Seq(Settlement) /\ Len(settled) \in Nat /\ DOMAIN settled = 1 .. Len(settled)
  BY LenProperties DEF SchedulerInv, SchedulerType
<1>8. settled' = settled \o b
  BY <1>2, <1>5
<1>9. /\ settled' \in Seq(Settlement) /\ Len(settled') = Len(settled) + n
      /\ \A i \in 1 .. Len(settled) + n : settled'[i] = IF i <= Len(settled) THEN settled[i] ELSE b[i - Len(settled)]
  <2>1. settled \in Seq(Settlement) /\ b \in Seq(Settlement)
    BY <1>6, <1>7
  <2>2. /\ settled \o b \in Seq(Settlement) /\ Len(settled \o b) = Len(settled) + Len(b)
        /\ \A i \in 1 .. Len(settled) + Len(b) : (settled \o b)[i] = IF i <= Len(settled) THEN settled[i] ELSE b[i - Len(settled)]
    BY <2>1, ConcatProperties
  <2> QED BY <1>6, <1>8, <2>2
<1>10. DOMAIN settled' = 1 .. Len(settled) + n
  BY <1>9, LenProperties
<1>11. /\ \A i \in 1 .. Len(settled) : i \in DOMAIN settled' /\ settled'[i].task = settled[i].task
       /\ \A i \in 1 .. n : Len(settled) + i \in DOMAIN settled' /\ settled'[Len(settled) + i].task = f[i]
  <2>1. ASSUME NEW i \in 1 .. Len(settled) PROVE i \in DOMAIN settled' /\ settled'[i].task = settled[i].task
    BY <1>1, <1>2, <1>7, <1>9, <1>10
  <2>2. ASSUME NEW i \in 1 .. n PROVE Len(settled) + i \in DOMAIN settled' /\ settled'[Len(settled) + i].task = f[i]
    <3> PICK k : k = Len(settled) + i
      OBVIOUS
    <3>1. k \in 1 .. Len(settled) + n /\ ~(k <= Len(settled)) /\ k - Len(settled) = i
      BY <1>1, <1>2, <1>7
    <3>2. settled'[k] = b[i]
      BY <1>9, <3>1
    <3>3. k \in DOMAIN settled' /\ settled'[k].task = f[i]
      BY <1>6, <1>10, <3>1, <3>2
    <3> QED BY <3>3
  <2> QED BY <2>1, <2>2
<1>12. ASSUME NEW i \in DOMAIN settled'
       PROVE  i \in 1 .. Len(settled) \/ \E j \in 1 .. n : i = Len(settled) + j
  <2>1. CASE i > Len(settled)
    <3>1. i - Len(settled) \in 1 .. n /\ i = Len(settled) + (i - Len(settled))
      BY <1>1, <1>2, <1>7, <1>10, <2>1
    <3> QED BY <3>1
  <2> QED BY <1>7, <1>10, <2>1
<1>13. /\ \A i, j \in 1 .. Len(settled) : settled[i].task = settled[j].task => i = j
       /\ \A i \in 1 .. Len(settled) : settled[i].task \in SettledIds
  BY <1>7 DEF SchedulerInv, OnePlace, IsInjective, SettledIds
<1>14. \A i, j \in 1 .. n : f[i] = f[j] => i = j
  BY <1>3 DEF IsInjective
<1>15. SettledOnce(settled')
  <2> SUFFICES ASSUME NEW i \in DOMAIN settled', NEW j \in DOMAIN settled', settled'[i].task = settled'[j].task
               PROVE  i = j
    BY DEF SettledOnce
  <2>1. CASE i \in 1 .. Len(settled) /\ j \in 1 .. Len(settled)
    BY <1>11, <1>13, <2>1
  <2>2. CASE i \in 1 .. Len(settled) /\ j \notin 1 .. Len(settled)
    <3>1. PICK k \in 1 .. n : j = Len(settled) + k
      BY <1>12, <2>2
    <3>2. settled[i].task = f[k] /\ settled[i].task \in SettledIds /\ f[k] \in late
      BY <1>3, <1>11, <1>13, <2>2, <3>1
    <3> QED BY <1>1, <3>2
  <2>3. CASE i \notin 1 .. Len(settled) /\ j \in 1 .. Len(settled)
    <3>1. PICK k \in 1 .. n : i = Len(settled) + k
      BY <1>12, <2>3
    <3>2. settled[j].task = f[k] /\ settled[j].task \in SettledIds /\ f[k] \in late
      BY <1>3, <1>11, <1>13, <2>3, <3>1
    <3> QED BY <1>1, <3>2
  <2>4. CASE i \notin 1 .. Len(settled) /\ j \notin 1 .. Len(settled)
    <3>1. PICK k \in 1 .. n : i = Len(settled) + k
      BY <1>12, <2>4
    <3>2. PICK l \in 1 .. n : j = Len(settled) + l
      BY <1>12, <2>4
    <3>3. f[k] = f[l]
      BY <1>11, <3>1, <3>2
    <3> QED BY <1>14, <3>1, <3>2, <3>3
  <2> QED BY <2>1, <2>2, <2>3, <2>4
<1>16. SettledIds' = SettledIds \cup late
  <2>1. ASSUME NEW i \in DOMAIN settled' PROVE settled'[i].task \in SettledIds \cup late
    <3>1. CASE i \in 1 .. Len(settled)
      BY <1>11, <1>13, <3>1
    <3>2. CASE i \notin 1 .. Len(settled)
      <4>1. PICK k \in 1 .. n : i = Len(settled) + k
        BY <1>12, <3>2
      <4>2. settled'[i].task = f[k] /\ f[k] \in late
        BY <1>3, <1>11, <4>1
      <4> QED BY <4>2
    <3> QED BY <3>1, <3>2
  <2>2. ASSUME NEW t \in SettledIds PROVE \E i \in DOMAIN settled' : settled'[i].task = t
    <3>1. PICK i \in 1 .. Len(settled) : settled[i].task = t
      BY <1>7, <2>2 DEF SettledIds
    <3> QED BY <1>11, <3>1
  <2>3. ASSUME NEW t \in late PROVE \E i \in DOMAIN settled' : settled'[i].task = t
    <3>1. PICK k \in 1 .. n : f[k] = t
      BY <1>4, <2>3
    <3>2. Len(settled) + k \in DOMAIN settled' /\ settled'[Len(settled) + k].task = t
      BY <1>11, <3>1
    <3> QED BY <3>2
  <2>4. SettledIds' = {settled'[i].task : i \in DOMAIN settled'}
    BY DEF SettledIds
  <2> QED BY <2>1, <2>2, <2>3, <2>4
<1> QED BY <1>9, <1>15, <1>16


\* A caller takes a task out of the queue, after the time of others ran out.
LEMMA DispatchKeeps ==
  ASSUME SchedulerInv, NEW c \in Caller, NEW busy, ExecuteNext(c, busy)
  PROVE  SchedulerInv'
<1> DEFINE left == running \ late
<1>1. PICK place : place = IF Cardinality(left) >= RunningLimit THEN 0
                           ELSE SelectInSeq(queue, LAMBDA q : Ready(q, left))
  OBVIOUS
<1>2. /\ call[c] = Idle /\ late' = {} /\ UNCHANGED plan
      /\ settled' \in Seq(Settlement) /\ SettledOnce(settled') /\ SettledIds' = SettledIds \cup late
  BY TimeoutsSettle DEF ExecuteNext
<1>3. left \subseteq running /\ IsFiniteSet(left) /\ (SettledIds \cup late) \cap left = {}
  BY FS_Subset DEF SchedulerInv, SchedulerType, OnePlace
<1>4. queue \in Seq(Task) /\ Len(queue) \in Nat /\ IsInjective(queue) /\ DOMAIN queue = 1 .. Len(queue)
  BY LenProperties DEF SchedulerInv, SchedulerType, OnePlace
<1>5. CASE place = 0 /\ running' = left /\ UNCHANGED <<queue, call>>
  <2>1. Recedes
    BY <1>2, <1>3, <1>4, <1>5 DEF Recedes, SchedulerInv, OnePlace
  <2>2. SameTasks
    BY <1>5 DEF SameTasks, SchedulerInv, SchedulerType
  <2> QED BY <2>1, <2>2, RecedingKeeps
<1>6. CASE /\ place # 0 /\ queue' = RemoveAt(queue, place) /\ running' = left \cup {queue[place]}
           /\ call' = [call EXCEPT ![c] =
                [step |-> IF Clear(window, plan[queue[place]].estimate, busy) THEN "cleared" ELSE "waiting",
                 task |-> queue[place], agent |-> plan[queue[place]].agent]]
  <2>1. place \in 1 .. Len(queue)
    <3> DEFINE I == {i \in 1 .. Len(queue) : Ready(queue[i], left)}
    <3>1. place = IF I # {} THEN Min(I) ELSE 0
      BY <1>1, <1>6 DEF SelectInSeq
    <3>2. I \subseteq Nat /\ I \subseteq 1 .. Len(queue)
      BY <1>4
    <3> HIDE DEF I
    <3> QED BY <1>6, <3>1, <3>2, MinOfNaturals
  <2>2. PICK t : t = queue[place]
    OBVIOUS
  <2>3. t \in Task /\ t \in ToSet(queue)
    BY <1>4, <2>1, <2>2 DEF ToSet
  <2>4. queue' \in Seq(Task) /\ IsInjective(queue') /\ ToSet(queue') = ToSet(queue) \ {t}
    BY <1>4, <1>6, <2>1, <2>2, RemovedOnce
  <2>5. /\ t \notin running /\ t \notin SettledIds /\ \A e \in Caller : call[e].task # t
        /\ plan[t] \in Plans /\ t # None
    BY <2>3, NothingAssumption DEF SchedulerInv, SchedulerType, OnePlace, WasSubmitted
  <2>6. PICK s, a : /\ s = (IF Clear(window, plan[t].estimate, busy) THEN "cleared" ELSE "waiting")
                    /\ a = plan[t].agent
    OBVIOUS
  <2>7. s \in {"cleared", "waiting"} /\ a \in Agent
    BY <2>5, <2>6 DEF Plans
  <2>8. call' = [call EXCEPT ![c] = [step |-> s, task |-> t, agent |-> a]]
    BY <1>6, <2>2, <2>6
  <2>9. /\ call' \in [Caller \cup LoopCaller ->
              [step : {"idle", "waiting", "cleared", "executing", "looping"},
               task : Task \cup {LoopTask, None}, agent : Agent \cup {None}]]
        /\ call'[c].task = t /\ \A e \in Caller \ {c} : call'[e] = call[e]
    BY <2>3, <2>7, <2>8 DEF SchedulerInv, SchedulerType
  <2>10. running' = left \cup {t} /\ IsFiniteSet(running')
    BY <1>3, <1>6, <2>2, FS_AddElement
  <2>11. SchedulerType'
    BY <1>2, <1>3, <2>3, <2>4, <2>9, <2>10 DEF SchedulerInv, SchedulerType
  <2>12. IsInjective([i \in DOMAIN settled' |-> settled'[i].task])
    BY <1>2 DEF SettledOnce, IsInjective
  <2>13. /\ ToSet(queue') \cap running' = {} /\ ToSet(queue') \cap SettledIds' = {}
         /\ running' \cap SettledIds' = {}
    BY <1>2, <1>3, <2>4, <2>5, <2>10 DEF SchedulerInv, OnePlace
  <2>14. \A d \in Caller : call'[d].task \in Task =>
           /\ call'[d].task \notin ToSet(queue')
           /\ \A e \in Caller \ {d} : call'[e].task # call'[d].task
    BY <2>4, <2>5, <2>9 DEF SchedulerInv, OnePlace
  <2>15. OnePlace'
    BY <1>2, <2>4, <2>12, <2>13, <2>14 DEF OnePlace
  <2>16. ASSUME NEW u \in Task,
                u \in ToSet(queue') \cup running' \cup SettledIds' \/ (\E d \in Caller : call'[d].task = u)
         PROVE  plan'[u] # None
    <3>1. u \in ToSet(queue) \cup running \cup SettledIds \/ (\E d \in Caller : call[d].task = u)
      BY <1>2, <1>3, <2>3, <2>4, <2>9, <2>10, <2>16 DEF SchedulerInv, OnePlace
    <3> QED BY <1>2, <3>1 DEF SchedulerInv, WasSubmitted
  <2>17. WasSubmitted'
    BY <2>16 DEF WasSubmitted
  <2> QED BY <2>11, <2>15, <2>17 DEF SchedulerInv
<1> QED BY <1>1, <1>5, <1>6 DEF ExecuteNext

\* A call goes on with the task it has, or ends.
LEMMA CallsGoOn ==
  ASSUME SchedulerInv, NEW c \in Caller \cup LoopCaller
  PROVE  /\ UNCHANGED call => SameTasks
         /\ Return(c) => SameTasks
         /\ \A step \in {"waiting", "cleared", "executing"} : Go(c, step) => SameTasks
<1>1. UNCHANGED call => SameTasks
  BY DEF SameTasks, SchedulerInv, SchedulerType
<1>2. Return(c) => SameTasks
  BY NothingAssumption DEF Return, Idle, SameTasks, SchedulerInv, SchedulerType
<1>3. ASSUME NEW step \in {"waiting", "cleared", "executing"}, Go(c, step) PROVE SameTasks
  <2>1. /\ call' = [call EXCEPT ![c] = [call[c] EXCEPT !.step = step]]
        /\ call[c] \in [step : {"idle", "waiting", "cleared", "executing", "looping"},
                        task : Task \cup {LoopTask, None}, agent : Agent \cup {None}]
    BY <1>3 DEF Go, SchedulerInv, SchedulerType
  <2>2. PICK r : r = [call[c] EXCEPT !.step = step]
    OBVIOUS
  <2>3. /\ r \in [step : {"idle", "waiting", "cleared", "executing", "looping"},
                  task : Task \cup {LoopTask, None}, agent : Agent \cup {None}]
        /\ r.task = call[c].task
    BY <2>1, <2>2
  <2> QED BY <2>1, <2>2, <2>3 DEF SameTasks, SchedulerInv, SchedulerType
<1> QED BY <1>1, <1>2, <1>3

\* The steps of a call after the task was taken.
LEMMA CallKeeps ==
  ASSUME SchedulerInv, NEW c \in Caller,
         \/ \E busy \in BOOLEAN : CheckAgain(c, busy)
         \/ WaitEnds(c) \/ StartExecutor(c) \/ ExecutorThrows(c)
         \/ \E tokens \in Usage : ExecutorReturns(c, tokens)
  PROVE  SchedulerInv'
<1>1. CASE \E busy \in BOOLEAN : CheckAgain(c, busy)
  <2>1. UNCHANGED tables /\ (Go(c, "cleared") \/ UNCHANGED call)
    BY <1>1 DEF CheckAgain
  <2>2. SameTasks
    BY <2>1, CallsGoOn
  <2> QED BY <2>1, <2>2, NothingRecedes, RecedingKeeps DEF tables
<1>2. CASE StartExecutor(c)
  <2>1. UNCHANGED tables /\ Go(c, "executing")
    BY <1>2 DEF StartExecutor
  <2>2. SameTasks
    BY <2>1, CallsGoOn
  <2> QED BY <2>1, <2>2, NothingRecedes, RecedingKeeps DEF tables
<1>3. CASE WaitEnds(c) \/ ExecutorThrows(c) \/ \E tokens \in Usage : ExecutorReturns(c, tokens)
  <2>1. /\ Return(c) /\ UNCHANGED <<plan, queue>>
        /\ Settle(call[c].task, "failed") \/ Settle(call[c].task, "completed")
    BY <1>3 DEF WaitEnds, ExecutorThrows, ExecutorReturns
  <2>2. SameTasks
    BY <2>1, CallsGoOn
  <2>3. Recedes
    BY <2>1, SettleRecedes
  <2> QED BY <2>2, <2>3, RecedingKeeps
<1> QED BY <1>1, <1>2, <1>3

\* Time that runs out changes no place.
LEMMA LatenessKeeps ==
  ASSUME SchedulerInv, NEW c \in Caller, RunsLate(c)
  PROVE  SchedulerInv'
<1>1. UNCHANGED <<plan, queue, running, settled, call>> /\ late' \subseteq running
  BY DEF RunsLate, SchedulerInv, OnePlace
<1>2. SettledOnce(settled) /\ SettledIds' = SettledIds
  BY <1>1 DEF SchedulerInv, OnePlace, SettledOnce, IsInjective, SettledIds
<1>3. Recedes
  BY <1>1, <1>2 DEF SchedulerInv, SchedulerType, OnePlace, Recedes, SettledOnce
<1>4. SameTasks
  BY <1>1, CallsGoOn
<1> QED BY <1>3, <1>4, RecedingKeeps

\* An agent loop works on a task that the scheduler does not know.
LEMMA LoopKeeps ==
  ASSUME SchedulerInv, NEW c \in LoopCaller,
         \/ \E a \in Agent, busy \in BOOLEAN : StartLoop(c, a, busy)
         \/ \E tokens \in Usage : LoopReturns(c, tokens)
         \/ LoopThrows(c)
  PROVE  SchedulerInv'
<1>1. UNCHANGED tables
  BY DEF StartLoop, LoopReturns, LoopThrows
<1>2. \/ UNCHANGED call \/ Return(c)
      \/ \E a \in Agent : call' = [call EXCEPT ![c] = [step |-> "looping", task |-> LoopTask, agent |-> a]]
  BY DEF StartLoop, LoopReturns, LoopThrows
<1>3. SameTasks
  <2>1. CASE \E a \in Agent : call' = [call EXCEPT ![c] = [step |-> "looping", task |-> LoopTask, agent |-> a]]
    BY <2>1, SchedulerBounds DEF SameTasks, SchedulerInv, SchedulerType
  <2> QED BY <1>2, <2>1, CallsGoOn
<1> QED BY <1>1, <1>3, NothingRecedes, RecedingKeeps DEF tables

LEMMA SchedulerInvInit == SchedulerInit => SchedulerInv
<1> SUFFICES ASSUME SchedulerInit PROVE SchedulerInv
  OBVIOUS
<1>1. ToSet(queue) = {} /\ SettledIds = {}
  BY DEF SchedulerInit, ToSet, SettledIds
<1>2. SchedulerType
  BY FS_EmptySet DEF SchedulerInit, SchedulerType, Idle
<1>3. \A c \in Caller : call[c].task \notin Task
  BY NothingAssumption DEF SchedulerInit, Idle
<1>4. DOMAIN queue = {} /\ DOMAIN settled = {}
  BY DEF SchedulerInit
<1>5. OnePlace
  BY <1>1, <1>3, <1>4 DEF SchedulerInit, OnePlace, IsInjective
<1>6. WasSubmitted
  BY <1>1, <1>3 DEF SchedulerInit, WasSubmitted
<1> QED BY <1>2, <1>5, <1>6 DEF SchedulerInv

LEMMA SchedulerInvNext == SchedulerInv /\ [SchedulerNext]_schedulerVars => SchedulerInv'
<1> SUFFICES ASSUME SchedulerInv, [SchedulerNext]_schedulerVars PROVE SchedulerInv'
  OBVIOUS
<1>1. ASSUME NEW t \in Task, NEW priority \in Levels, NEW a \in Agent, NEW estimate \in Estimates,
             NEW busy \in BOOLEAN, NEW dependsOn \in {{}} \cup {{d} : d \in {x \in Task : plan[x] # None}},
             SubmitTask(t, priority, a, estimate, dependsOn, busy)
      PROVE  SchedulerInv'
  <2>1. dependsOn \in SUBSET Task
    OBVIOUS
  <2> QED BY <1>1, <2>1, SubmitKeeps
<1>2. ASSUME NEW t \in Task, CancelTask(t) PROVE SchedulerInv'
  <2>1. UNCHANGED call
    BY <1>2 DEF CancelTask
  <2>2. SameTasks
    BY <2>1 DEF SameTasks, SchedulerInv, SchedulerType
  <2> QED BY <1>2, <2>2, CancelRecedes, RecedingKeeps
<1>3. ASSUME NEW c \in Caller, NEW busy \in BOOLEAN, ExecuteNext(c, busy) PROVE SchedulerInv'
  BY <1>3, DispatchKeeps
<1>4. ASSUME NEW c \in Caller,
             \/ \E busy \in BOOLEAN : CheckAgain(c, busy)
             \/ WaitEnds(c) \/ StartExecutor(c) \/ ExecutorThrows(c)
             \/ \E tokens \in Usage : ExecutorReturns(c, tokens)
      PROVE  SchedulerInv'
  BY <1>4, CallKeeps
<1>5. ASSUME NEW c \in Caller, RunsLate(c) PROVE SchedulerInv'
  BY <1>5, LatenessKeeps
<1>6. ASSUME NEW c \in LoopCaller,
             \/ \E a \in Agent, busy \in BOOLEAN : StartLoop(c, a, busy)
             \/ \E tokens \in Usage : LoopReturns(c, tokens)
             \/ LoopThrows(c)
      PROVE  SchedulerInv'
  BY <1>6, LoopKeeps
<1>7. CASE GetStatus
  <2>1. UNCHANGED call
    BY <1>7 DEF GetStatus
  <2>2. SameTasks
    BY <2>1 DEF SameTasks, SchedulerInv, SchedulerType
  <2> QED BY <1>7, <2>2, PruningRecedes, RecedingKeeps
<1>8. CASE MinuteEnds \/ DayEnds \/ UNCHANGED schedulerVars
  <2>1. UNCHANGED <<plan, queue, running, settled, late, call>>
    BY <1>8 DEF MinuteEnds, DayEnds, schedulerVars, tables
  <2>2. SameTasks
    BY <2>1 DEF SameTasks, SchedulerInv, SchedulerType
  <2> QED BY <2>1, <2>2, NothingRecedes, RecedingKeeps
<1> QED BY <1>1, <1>2, <1>3, <1>4, <1>5, <1>6, <1>7, <1>8 DEF SchedulerNext

\* OnePlace, in every instance: however submissions, cancellations, timeouts, status
\* requests and the steps of calls of executeNext interleave, a task is queued, running
\* or settled, once, and no two calls hold the same task.
THEOREM OnePlaceHolds == SchedulerSpec => []OnePlace
<1>1. SchedulerInv => OnePlace
  BY DEF SchedulerInv
<1> QED BY <1>1, SchedulerInvInit, SchedulerInvNext, PTL DEF SchedulerSpec
-----------------------------------------------------------------------------
(* Sums of functions on finite sets.  FoldFunction adds in the order of CHOOSE;  *)
(* that there is such a sum, and what one change of the function does to it,     *)
(* follows from the least subset for which it would be false.                    *)

First(s) == CHOOSE x \in s : TRUE

\* g is the sum of f over every subset of S, as the fold computes it.
SumsOf(f, S, g) ==
  g = [s \in SUBSET S |-> IF s = {} THEN 0 ELSE f[First(s)] + g[s \ {First(s)}]]

LEMMA SmallestSubset ==
  ASSUME NEW S, IsFiniteSet(S), NEW B, B \subseteq SUBSET S, B # {}
  PROVE  \E s \in B : \A u \in B : u \subseteq s => u = s
<1>1. IsWellFoundedOn(StrictSubsetOrdering(S), SUBSET S)
  BY FS_StrictSubsetOrderingWellFounded, FS_FiniteSubsetsOfFinite
<1>2. PICK s \in B : \A u \in B : ~ (<<u, s>> \in StrictSubsetOrdering(S))
  BY <1>1, WFMin
<1>3. \A u \in B : u \subseteq s => u = s
  BY <1>2 DEF StrictSubsetOrdering
<1> QED BY <1>3

LEMMA FirstIsLeft ==
  ASSUME NEW s, s # {}
  PROVE  First(s) \in s /\ s \ {First(s)} \subseteq s /\ s \ {First(s)} # s
BY DEF First

\* Two sums of one function are the same where both are defined.
LEMMA SumIsUnique ==
  ASSUME NEW S, IsFiniteSet(S), NEW T, NEW f, NEW g, NEW h, SumsOf(f, S, g), SumsOf(f, T, h),
         NEW u, u \subseteq S, u \subseteq T
  PROVE  g[u] = h[u]
<1> SUFFICES ASSUME g[u] # h[u] PROVE FALSE
  OBVIOUS
<1> DEFINE B == {s \in SUBSET S : s \subseteq T /\ g[s] # h[s]}
<1>1. PICK s \in B : \A v \in B : v \subseteq s => v = s
  <2>1. B # {} /\ B \subseteq SUBSET S
    OBVIOUS
  <2> HIDE DEF B
  <2> QED BY <2>1, SmallestSubset
<1>2. s # {}
  BY <1>1 DEF SumsOf
<1>3. PICK x : x = First(s)
  OBVIOUS
<1>4. g[s \ {x}] = h[s \ {x}]
  BY <1>1, <1>2, <1>3, FirstIsLeft
<1>5. g[s] = f[x] + g[s \ {x}] /\ h[s] = f[x] + h[s \ {x}]
  BY <1>1, <1>2, <1>3 DEF SumsOf
<1> QED BY <1>1, <1>4, <1>5

LEMMA SumExists ==
  ASSUME NEW S, IsFiniteSet(S), NEW f
  PROVE  \E g : SumsOf(f, S, g)
<1> DEFINE B == {s \in SUBSET S : ~ \E g : SumsOf(f, s, g)}
<1> SUFFICES ASSUME B # {} PROVE FALSE
  OBVIOUS
<1>1. PICK t \in B : \A u \in B : u \subseteq t => u = t
  <2>1. B \subseteq SUBSET S
    OBVIOUS
  <2> HIDE DEF B
  <2> QED BY <2>1, SmallestSubset
<1> DEFINE G(u) == CHOOSE g : SumsOf(f, u, g)
<1>2. \A u : u \subseteq t /\ u # t => SumsOf(f, u, G(u)) /\ IsFiniteSet(u)
  <2> SUFFICES ASSUME NEW u, u \subseteq t, u # t PROVE SumsOf(f, u, G(u)) /\ IsFiniteSet(u)
    OBVIOUS
  <2>1. u \in SUBSET S /\ u \notin B
    BY <1>1
  <2> QED BY <2>1, FS_Subset
<1> DEFINE h == [s \in SUBSET t |-> IF s = {} THEN 0 ELSE f[First(s)] + G(s \ {First(s)})[s \ {First(s)}]]
<1>3. \A u : u \subseteq t /\ u # t => h[u] = G(u)[u]
  <2> SUFFICES ASSUME NEW u, u \subseteq t, u # t PROVE h[u] = G(u)[u]
    OBVIOUS
  <2>1. SumsOf(f, u, G(u)) /\ IsFiniteSet(u)
    BY <1>2
  <2>2. CASE u = {}
    <3>1. G(u)[u] = 0
      <4> HIDE DEF G
      <4> QED BY <2>1, <2>2 DEF SumsOf
    <3> QED BY <2>2, <3>1
  <2>3. CASE u # {}
    <3>1. PICK v : v = u \ {First(u)}
      OBVIOUS
    <3>2. v \subseteq u /\ v # u
      BY <2>3, <3>1, FirstIsLeft
    <3>3. SumsOf(f, v, G(v)) /\ IsFiniteSet(v)
      <4> HIDE DEF G
      <4>1. v \subseteq t /\ v # t
        BY <3>2
      <4> QED BY <4>1, <1>2
    <3>4. G(v)[v] = G(u)[v]
      <4> HIDE DEF G
      <4> QED BY <2>1, <3>2, <3>3, SumIsUnique
    <3>5. G(u)[u] = f[First(u)] + G(u)[v]
      <4> HIDE DEF G
      <4> QED BY <2>1, <2>3, <3>1 DEF SumsOf
    <3>6. h[u] = f[First(u)] + G(v)[v]
      <4> HIDE DEF G
      <4> QED BY <2>3, <3>1
    <3> QED BY <3>4, <3>5, <3>6
  <2> QED BY <2>2, <2>3
<1>4. SumsOf(f, t, h)
  <2>1. \A s \in SUBSET t : s # {} => h[s \ {First(s)}] = G(s \ {First(s)})[s \ {First(s)}]
    <3> SUFFICES ASSUME NEW s \in SUBSET t, s # {}
                 PROVE  h[s \ {First(s)}] = G(s \ {First(s)})[s \ {First(s)}]
      OBVIOUS
    <3>1. s \ {First(s)} \subseteq t /\ s \ {First(s)} # t
      BY FirstIsLeft
    <3> HIDE DEF G, h
    <3> QED BY <1>3, <3>1
  <2>2. PICK k : k = h
    OBVIOUS
  <2>3. k = [s \in SUBSET t |-> IF s = {} THEN 0 ELSE f[First(s)] + k[s \ {First(s)}]]
    <3>1. \A s \in SUBSET t : h[s] = IF s = {} THEN 0 ELSE f[First(s)] + h[s \ {First(s)}]
      <4> HIDE DEF G
      <4> QED BY <2>1
    <3>2. h = [s \in SUBSET t |-> h[s]]
      <4> HIDE DEF G
      <4> QED OBVIOUS
    <3> HIDE DEF h
    <3> QED BY <2>2, <3>1, <3>2
  <2> HIDE DEF h
  <2> QED BY <2>2, <2>3 DEF SumsOf
<1> QED BY <1>1, <1>4

Total(f) == FoldFunction(+, 0, f)

\* The fold is what a function on the subsets sums up to.
LEMMA FoldIsSum ==
  ASSUME NEW S, IsFiniteSet(S), NEW f, DOMAIN f = S
  PROVE  \E g : SumsOf(f, S, g) /\ Total(f) = g[S]
<1>1. PICK g : g = CHOOSE k : SumsOf(f, S, k)
  OBVIOUS
<1>2. SumsOf(f, S, g)
  BY <1>1, SumExists
<1>3. Total(f) = g[S]
  BY <1>1 DEF Total, FoldFunction, FoldFunctionOnSet, MapThenFoldSet, SumsOf, First
<1> QED BY <1>2, <1>3

\* Nothing adds up to nothing, and n more at one place are n more in the sum.
LEMMA SumOfNothing ==
  ASSUME NEW S, IsFiniteSet(S)
  PROVE  Total([x \in S |-> 0]) = 0
<1> DEFINE f == [x \in S |-> 0]
<1>1. PICK g : SumsOf(f, S, g) /\ Total(f) = g[S]
  <2>1. DOMAIN f = S
    OBVIOUS
  <2> HIDE DEF f
  <2> QED BY <2>1, FoldIsSum
<1> DEFINE B == {s \in SUBSET S : g[s] # 0}
<1>2. SUFFICES ASSUME B # {} PROVE FALSE
  BY <1>1
<1>3. PICK s \in B : \A u \in B : u \subseteq s => u = s
  <2>1. B \subseteq SUBSET S
    OBVIOUS
  <2> HIDE DEF B
  <2> QED BY <1>2, <2>1, SmallestSubset
<1>4. s # {}
  BY <1>1, <1>3 DEF SumsOf
<1>5. g[s] = 0 + g[s \ {First(s)}]
  BY <1>1, <1>3, <1>4, FirstIsLeft DEF SumsOf
<1>6. g[s \ {First(s)}] = 0
  BY <1>3, <1>4, FirstIsLeft
<1> QED BY <1>3, <1>5, <1>6

LEMMA SumWithMore ==
  ASSUME NEW S, IsFiniteSet(S), NEW f \in [S -> Nat], NEW a \in S, NEW n \in Nat,
         NEW e, e = [f EXCEPT ![a] = @ + n]
  PROVE  Total(e) = Total(f) + n
<1>2. DOMAIN f = S /\ DOMAIN e = S /\ e[a] = f[a] + n /\ \A x \in S : x # a => e[x] = f[x]
  OBVIOUS
<1>3. PICK g : SumsOf(f, S, g) /\ Total(f) = g[S]
  BY <1>2, FoldIsSum
<1>4. PICK h : SumsOf(e, S, h) /\ Total(e) = h[S]
  BY <1>2, FoldIsSum
<1>5. \A s \in SUBSET S : g[s] \in Nat /\ h[s] = g[s] + IF a \in s THEN n ELSE 0
  <2> DEFINE B == {s \in SUBSET S : ~ (g[s] \in Nat /\ h[s] = g[s] + IF a \in s THEN n ELSE 0)}
  <2> SUFFICES ASSUME B # {} PROVE FALSE
    OBVIOUS
  <2>1. PICK s \in B : \A u \in B : u \subseteq s => u = s
    <3>1. B \subseteq SUBSET S
      OBVIOUS
    <3> HIDE DEF B
    <3> QED BY <3>1, SmallestSubset
  <2>2. s # {}
    <3>1. CASE s = {}
      <4>1. g[s] = 0 /\ h[s] = 0
        BY <1>3, <1>4, <3>1 DEF SumsOf
      <4> QED BY <2>1, <3>1, <4>1
    <3> QED BY <3>1
  <2>3. PICK x : x = First(s)
    OBVIOUS
  <2>4. PICK u : u = s \ {x}
    OBVIOUS
  <2>5. x \in S /\ x \in s /\ u \in SUBSET S /\ u \notin B
    BY <2>1, <2>2, <2>3, <2>4, FirstIsLeft
  <2>6. g[s] = f[x] + g[u] /\ h[s] = e[x] + h[u]
    BY <1>3, <1>4, <2>1, <2>2, <2>3, <2>4 DEF SumsOf
  <2>7. g[u] \in Nat /\ h[u] = g[u] + IF a \in u THEN n ELSE 0
    BY <2>5
  <2>8. f[x] \in Nat /\ e[x] = IF x = a THEN f[x] + n ELSE f[x]
    BY <1>2, <2>5
  <2>9. g[s] \in Nat /\ h[s] = g[s] + IF a \in s THEN n ELSE 0
    BY <2>4, <2>5, <2>6, <2>7, <2>8
  <2> QED BY <2>1, <2>9
<1> QED BY <1>3, <1>4, <1>5
-----------------------------------------------------------------------------
(* The token budget *)

Ledgers == [over : BOOLEAN, today : Nat, agent : [Agent -> Nat], task : [Task \cup {LoopTask} -> Nat]]

\* Whoever is about to spend has a task and an agent that the ledgers know.
SpendersAreKnown ==
  \A c \in Caller \cup LoopCaller : call[c].step # "idle" =>
    call[c].task \in Task \cup {LoopTask} /\ call[c].agent \in Agent

Agrees(u) == Total(u.agent) = u.today /\ Total(u.task) = u.today

LedgerInv == used \in Ledgers /\ Agrees(used) /\ SpendersAreKnown

LEMMA TasksAreFinite == IsFiniteSet(Task \cup {LoopTask})
BY LedgersAreFinite, FS_AddElement

\* A new day starts with ledgers that agree on nothing.
LEMMA ResetAgrees ==
  ASSUME NEW u \in Ledgers, Agrees(u)
  PROVE  Reset(u) \in Ledgers /\ Agrees(Reset(u))
<1>1. NothingUsed \in Ledgers
  BY DEF NothingUsed, Ledgers
<1>2. Agrees(NothingUsed)
  BY LedgersAreFinite, TasksAreFinite, SumOfNothing DEF NothingUsed, Agrees
<1> QED BY <1>1, <1>2 DEF Reset

\* Usage is added to one entry of each ledger, and to today's.
LEMMA SpendAgrees ==
  ASSUME NEW u \in Ledgers, Agrees(u), NEW a \in Agent, NEW t \in Task \cup {LoopTask}, NEW tokens \in Usage
  PROVE  Spend(u, a, t, tokens) \in Ledgers /\ Agrees(Spend(u, a, t, tokens))
<1>1. PICK r : r = Reset(u)
  OBVIOUS
<1>2. r \in Ledgers /\ Agrees(r) /\ tokens \in Nat
  BY <1>1, ResetAgrees, SchedulerBounds
<1>3. PICK s : s = Spend(u, a, t, tokens)
  OBVIOUS
<1>4. /\ s \in Ledgers /\ s.today = r.today + tokens
      /\ s.agent = [r.agent EXCEPT ![a] = @ + tokens]
      /\ s.task = [r.task EXCEPT ![t] = @ + tokens]
  <2>1. s = [r EXCEPT !.today = @ + tokens, !.agent[a] = @ + tokens, !.task[t] = @ + tokens]
    BY <1>1, <1>3 DEF Spend
  <2>2. /\ s.today = r.today + tokens
        /\ s.agent = [r.agent EXCEPT ![a] = @ + tokens]
        /\ s.task = [r.task EXCEPT ![t] = @ + tokens]
        /\ s = [over |-> r.over, today |-> s.today, agent |-> s.agent, task |-> s.task]
    BY <1>2, <2>1 DEF Ledgers
  <2>3. s.today \in Nat /\ s.agent \in [Agent -> Nat] /\ s.task \in [Task \cup {LoopTask} -> Nat]
    BY <1>2, <2>2 DEF Ledgers
  <2>4. r.over \in BOOLEAN
    BY <1>2 DEF Ledgers
  <2> QED BY <2>2, <2>3, <2>4 DEF Ledgers
<1>5. Total(s.agent) = r.today + tokens
  <2>1. r.agent \in [Agent -> Nat]
    BY <1>2 DEF Ledgers
  <2>2. IsFiniteSet(Agent)
    BY LedgersAreFinite
  <2>3. tokens \in Nat /\ s.agent = [r.agent EXCEPT ![a] = @ + tokens]
    BY <1>2, <1>4
  <2>4. Total(s.agent) = Total(r.agent) + tokens
    BY <2>1, <2>2, <2>3, SumWithMore
  <2> QED BY <1>2, <2>4 DEF Agrees
<1>6. Total(s.task) = r.today + tokens
  <2>1. r.task \in [Task \cup {LoopTask} -> Nat]
    BY <1>2 DEF Ledgers
  <2>2. IsFiniteSet(Task \cup {LoopTask})
    BY TasksAreFinite
  <2>3. tokens \in Nat /\ s.task = [r.task EXCEPT ![t] = @ + tokens]
    BY <1>2, <1>4
  <2>4. Total(s.task) = Total(r.task) + tokens
    BY <2>1, <2>2, <2>3, SumWithMore
  <2> QED BY <1>2, <2>4 DEF Agrees
<1> QED BY <1>3, <1>4, <1>5, <1>6 DEF Agrees

\* All a step does to the ledgers is a reset, the end of a day or one caller's spending.
LEMMA BudgetStep ==
  ASSUME LedgerInv, [SchedulerNext]_schedulerVars
  PROVE  \/ used' = used \/ used' = Reset(used) \/ used' = [used EXCEPT !.over = TRUE]
         \/ \E a \in Agent, t \in Task \cup {LoopTask}, tokens \in Usage : used' = Spend(used, a, t, tokens)
<1>1. ASSUME NEW c \in Caller, NEW tokens \in Usage, ExecutorReturns(c, tokens)
      PROVE  \E a \in Agent, t \in Task \cup {LoopTask} : used' = Spend(used, a, t, tokens)
  <2>1. call[c].step # "idle" /\ used' = Spend(used, call[c].agent, call[c].task, tokens)
    BY <1>1 DEF ExecutorReturns, At
  <2>2. call[c].agent \in Agent /\ call[c].task \in Task \cup {LoopTask}
    BY <2>1 DEF LedgerInv, SpendersAreKnown
  <2> QED BY <2>1, <2>2
<1>2. ASSUME NEW c \in LoopCaller, NEW tokens \in Usage, LoopReturns(c, tokens)
      PROVE  \E a \in Agent, t \in Task \cup {LoopTask} : used' = Spend(used, a, t, tokens)
  <2>1. call[c].step # "idle" /\ used' = Spend(used, call[c].agent, LoopTask, tokens)
    BY <1>2 DEF LoopReturns, At
  <2>2. call[c].agent \in Agent
    BY <2>1 DEF LedgerInv, SpendersAreKnown
  <2> QED BY <2>1, <2>2
<1>3. ASSUME ~ \E c \in Caller, tokens \in Usage : ExecutorReturns(c, tokens),
             ~ \E c \in LoopCaller, tokens \in Usage : LoopReturns(c, tokens)
      PROVE  used' = used \/ used' = Reset(used) \/ used' = [used EXCEPT !.over = TRUE]
  <2>1. CASE UNCHANGED schedulerVars \/ MinuteEnds \/ DayEnds \/ GetStatus
    BY <2>1 DEF MinuteEnds, DayEnds, GetStatus, schedulerVars
  <2>2. CASE \E t \in Task, priority \in Levels, a \in Agent, estimate \in Estimates, busy \in BOOLEAN :
               \E dependsOn \in {{}} \cup {{d} : d \in {x \in Task : plan[x] # None}} :
                 SubmitTask(t, priority, a, estimate, dependsOn, busy)
    <3>1. PICK t \in Task, priority \in Levels, a \in Agent, estimate \in Estimates, busy \in BOOLEAN, dependsOn \in SUBSET Task :
            SubmitTask(t, priority, a, estimate, dependsOn, busy)
      BY <2>2
    <3>2. used' = Reset(used)
      BY <3>1, Zenon DEF SubmitTask
    <3> QED BY <3>2
  <2>3. CASE \E t \in Task : CancelTask(t)
    BY <2>3 DEF CancelTask
  <2>4. CASE \E c \in Caller : \/ \E busy \in BOOLEAN : ExecuteNext(c, busy) \/ CheckAgain(c, busy)
                              \/ WaitEnds(c) \/ StartExecutor(c) \/ ExecutorThrows(c) \/ RunsLate(c)
    BY <2>4 DEF ExecuteNext, CheckAgain, WaitEnds, StartExecutor, ExecutorThrows, RunsLate
  <2>5. CASE \E c \in LoopCaller : (\E a \in Agent, busy \in BOOLEAN : StartLoop(c, a, busy)) \/ LoopThrows(c)
    BY <2>5 DEF StartLoop, LoopThrows
  <2> QED BY <1>3, <2>1, <2>2, <2>3, <2>4, <2>5 DEF SchedulerNext
<1> QED BY <1>1, <1>2, <1>3

\* A dispatch that takes anything takes what is in the queue.
LEMMA DispatchTakesOne ==
  ASSUME SchedulerInv, NEW c \in Caller, NEW busy \in BOOLEAN, ExecuteNext(c, busy), ~ UNCHANGED call
  PROVE  \E place \in 1 .. Len(queue), step \in {"cleared", "waiting"} : call' = [call EXCEPT ![c] =
            [step |-> step, task |-> queue[place], agent |-> plan[queue[place]].agent]]
<1> DEFINE left == running \ late
<1>1. PICK place : place = IF Cardinality(left) >= RunningLimit THEN 0
                           ELSE SelectInSeq(queue, LAMBDA q : Ready(q, left))
  OBVIOUS
<1>2. /\ place # 0
      /\ call' = [call EXCEPT ![c] =
           [step |-> IF Clear(window, plan[queue[place]].estimate, busy) THEN "cleared" ELSE "waiting",
            task |-> queue[place], agent |-> plan[queue[place]].agent]]
  BY <1>1 DEF ExecuteNext
<1>3. place \in 1 .. Len(queue)
  <2> DEFINE I == {i \in 1 .. Len(queue) : Ready(queue[i], left)}
  <2>1. place = IF I # {} THEN Min(I) ELSE 0
    BY <1>1, <1>2 DEF SelectInSeq
  <2>2. I \subseteq Nat /\ I \subseteq 1 .. Len(queue)
    BY LenProperties DEF SchedulerInv, SchedulerType
  <2> HIDE DEF I
  <2> QED BY <1>2, <2>1, <2>2, MinOfNaturals
<1> QED BY <1>2, <1>3

\* A call gets its task and its agent from a submission or a loop, and keeps them.
LEMMA CallStep ==
  ASSUME SchedulerInv, LedgerInv, [SchedulerNext]_schedulerVars
  PROVE  SpendersAreKnown'
<1>1. CASE UNCHANGED call
  BY <1>1 DEF LedgerInv, SpendersAreKnown
<1>2. ASSUME NEW c \in Caller \cup LoopCaller, Return(c) PROVE SpendersAreKnown'
  BY <1>2 DEF LedgerInv, SpendersAreKnown, Return, Idle, SchedulerInv, SchedulerType
<1>3. ASSUME NEW c \in Caller \cup LoopCaller, NEW from, NEW to, At(c, from), from # "idle", Go(c, to)
      PROVE  SpendersAreKnown'
  <2>1. PICK r : r = [call[c] EXCEPT !.step = to]
    OBVIOUS
  <2>2. call' = [call EXCEPT ![c] = r]
    BY <1>3, <2>1 DEF Go
  <2>3. r.task = call[c].task /\ r.agent = call[c].agent
    BY <2>1 DEF SchedulerInv, SchedulerType
  <2>4. call[c].task \in Task \cup {LoopTask} /\ call[c].agent \in Agent
    BY <1>3 DEF At, LedgerInv, SpendersAreKnown
  <2> QED BY <2>2, <2>3, <2>4 DEF LedgerInv, SpendersAreKnown, SchedulerInv, SchedulerType
<1>4. ASSUME NEW c \in Caller, NEW busy \in BOOLEAN, ExecuteNext(c, busy) PROVE SpendersAreKnown'
  <2>1. CASE UNCHANGED call
    BY <1>1, <2>1
  <2>2. CASE ~ UNCHANGED call
    <3>1. PICK place \in 1 .. Len(queue), step \in {"cleared", "waiting"} : call' = [call EXCEPT ![c] =
            [step |-> step, task |-> queue[place], agent |-> plan[queue[place]].agent]]
      BY <1>4, <2>2, DispatchTakesOne
    <3>2. queue[place] \in Task /\ queue[place] \in ToSet(queue)
      BY <3>1, LenProperties DEF SchedulerInv, SchedulerType, ToSet
    <3>3. plan[queue[place]] \in Plans
      BY <3>2 DEF SchedulerInv, SchedulerType, WasSubmitted
    <3> QED BY <3>1, <3>2, <3>3 DEF LedgerInv, SpendersAreKnown, SchedulerInv, SchedulerType, Plans
  <2> QED BY <2>1, <2>2
<1>5. ASSUME NEW c \in LoopCaller, NEW a \in Agent, NEW busy \in BOOLEAN, StartLoop(c, a, busy) PROVE SpendersAreKnown'
  BY <1>1, <1>5 DEF StartLoop, LedgerInv, SpendersAreKnown, SchedulerInv, SchedulerType
<1>6. ASSUME NEW c \in Caller, NEW busy \in BOOLEAN, CheckAgain(c, busy) PROVE SpendersAreKnown'
  BY <1>1, <1>3, <1>6 DEF CheckAgain
<1>7. ASSUME NEW c \in Caller, StartExecutor(c) PROVE SpendersAreKnown'
  BY <1>3, <1>7 DEF StartExecutor
<1>8. ASSUME NEW c \in Caller,
             WaitEnds(c) \/ ExecutorThrows(c) \/ \E tokens \in Usage : ExecutorReturns(c, tokens)
      PROVE  SpendersAreKnown'
  BY <1>2, <1>8 DEF WaitEnds, ExecutorThrows, ExecutorReturns
<1>9. ASSUME NEW c \in LoopCaller, LoopThrows(c) \/ \E tokens \in Usage : LoopReturns(c, tokens)
      PROVE  SpendersAreKnown'
  BY <1>2, <1>9 DEF LoopThrows, LoopReturns
<1>10. CASE UNCHANGED schedulerVars \/ GetStatus \/ MinuteEnds \/ DayEnds \/ (\E t \in Task : CancelTask(t))
            \/ (\E c \in Caller : RunsLate(c))
            \/ \E t \in Task, priority \in Levels, a \in Agent, estimate \in Estimates, busy \in BOOLEAN :
                 \E dependsOn \in {{}} \cup {{d} : d \in {x \in Task : plan[x] # None}} :
                   SubmitTask(t, priority, a, estimate, dependsOn, busy)
  <2>1. CASE \E t \in Task, priority \in Levels, a \in Agent, estimate \in Estimates, busy \in BOOLEAN :
               \E dependsOn \in {{}} \cup {{d} : d \in {x \in Task : plan[x] # None}} :
                 SubmitTask(t, priority, a, estimate, dependsOn, busy)
    <3>1. PICK t \in Task, priority \in Levels, a \in Agent, estimate \in Estimates, busy \in BOOLEAN, dependsOn \in SUBSET Task :
            SubmitTask(t, priority, a, estimate, dependsOn, busy)
      BY <2>1
    <3>2. UNCHANGED call
      BY <3>1, Zenon DEF SubmitTask
    <3> QED BY <1>1, <3>2
  <2> QED BY <1>1, <1>10, <2>1 DEF schedulerVars, GetStatus, MinuteEnds, DayEnds, CancelTask, RunsLate
<1> QED BY <1>4, <1>5, <1>6, <1>7, <1>8, <1>9, <1>10 DEF SchedulerNext

LEMMA LedgerInvInit == SchedulerInit => LedgerInv
<1> SUFFICES ASSUME SchedulerInit PROVE LedgerInv
  OBVIOUS
<1>1. used = NothingUsed /\ \A c \in Caller \cup LoopCaller : call[c].step = "idle"
  BY DEF SchedulerInit, Idle
<1>2. used \in Ledgers
  BY <1>1 DEF NothingUsed, Ledgers
<1>3. Agrees(used)
  BY <1>1, LedgersAreFinite, TasksAreFinite, SumOfNothing DEF NothingUsed, Agrees
<1> QED BY <1>1, <1>2, <1>3 DEF LedgerInv, SpendersAreKnown

LEMMA LedgerInvNext == SchedulerInv /\ LedgerInv /\ [SchedulerNext]_schedulerVars => LedgerInv'
<1> SUFFICES ASSUME SchedulerInv, LedgerInv, [SchedulerNext]_schedulerVars PROVE LedgerInv'
  OBVIOUS
<1>1. used \in Ledgers /\ Agrees(used)
  BY DEF LedgerInv
<1>2. used' \in Ledgers /\ Agrees(used')
  <2>1. CASE used' = [used EXCEPT !.over = TRUE]
    BY <1>1, <2>1 DEF Ledgers, Agrees
  <2>2. CASE used' = used \/ used' = Reset(used)
    BY <1>1, <2>2, ResetAgrees
  <2>3. CASE \E a \in Agent, t \in Task \cup {LoopTask}, tokens \in Usage : used' = Spend(used, a, t, tokens)
    BY <1>1, <2>3, SpendAgrees
  <2> QED BY <2>1, <2>2, <2>3, BudgetStep
<1> QED BY <1>2, CallStep DEF LedgerInv

\* LedgerAgrees, in every instance: however executions, loops, checks and midnights
\* interleave, what the day, the agents and the tasks have used is the same sum.  A
\* call that began before midnight spends after it, and whichever check comes first
\* resets the three ledgers together.
THEOREM LedgersAlwaysAgree == SchedulerSpec => []LedgerAgrees
<1>1. LedgerInv => LedgerAgrees
  BY DEF LedgerInv, Agrees, Total, LedgerAgrees
<1> QED BY <1>1, SchedulerInvInit, SchedulerInvNext, LedgerInvInit, LedgerInvNext, PTL DEF SchedulerSpec
=============================================================================
