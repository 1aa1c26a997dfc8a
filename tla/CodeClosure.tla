----------------------------- MODULE CodeClosure -----------------------------
(***************************************************************************)
(* executeCodeClosure (src/src/lib/execution-closure/engine.ts), the tool  *)
(* execute_code_closure that agents call, and the git tools beside it.     *)
(* Closures of one process share one working tree, its index and its       *)
(* branch.  Files are written across awaits; the commands after them run   *)
(* in execSync, so that from the type check to the commit the process      *)
(* begins nothing else.  A rename that was handed to the thread pool before *)
(* may still finish meanwhile: here it is one step, done or not begun.     *)
(* The files are those under src/, which is what lint reads.               *)
(*                                                                         *)
(* A version of a file is the closure that wrote it, Old, or Gone.         *)
(***************************************************************************)
EXTENDS Integers, FiniteSets

CONSTANTS Closure, File, Old, Gone,
          FileSets,                   \* what a closure may be called with
          LintBreaking, TestBreaking, \* closures whose content breaks the check
          Deleting, SkippingTests,    \* closures called with that option
          MaxAdds                     \* a bound of the model

ASSUME ClosureNames ==
  /\ Old # Gone /\ {Old, Gone} \cap Closure = {}
  /\ MaxAdds \in Nat /\ FileSets \subseteq SUBSET File \ {{}}
  /\ LintBreaking \cup TestBreaking \cup Deleting \cup SkippingTests \subseteq Closure

VARIABLES tree, index, head,  \* File -> version
          work,               \* Closure -> its call
          added               \* uses of the tool git_add

closureVars == <<tree, index, head, work, added>>
repository == <<tree, index, head>>

NotCalled == [step |-> "absent", files |-> {}, todo |-> {}, success |-> FALSE]

ClosureInit ==
  /\ tree = [f \in File |-> Old] /\ index = tree /\ head = tree
  /\ work = [c \in Closure |-> NotCalled]
  /\ added = 0

AtStep(c, step) == work[c].step = step

\* The result, behind one more audit whose failure is swallowed too.
Finish(c, success) ==
  work' = [work EXCEPT ![c] = [@ EXCEPT !.step = "done", !.todo = {}, !.success = success]]

Version(c) == IF c \in Deleting THEN Gone ELSE c

\* The plan is made and its audit awaited; the audit's failure is swallowed.
CallClosure(c, files) ==
  /\ AtStep(c, "absent")
  /\ work' = [work EXCEPT ![c] = [NotCalled EXCEPT !.step = "write", !.files = files,
                                                    !.todo = files]]
  /\ UNCHANGED <<repository, added>>

\* One rename or unlink of executeFileWrites.
WriteFile(c, f) ==
  /\ AtStep(c, "write") /\ f \in work[c].todo
  /\ tree' = [tree EXCEPT ![f] = Version(c)]
  /\ work' = [work EXCEPT ![c].todo = @ \ {f}]
  /\ UNCHANGED <<index, head, added>>

\* No content, too large, not an allowed extension or path: the files before
\* it stay written.
WriteRefused(c) ==
  /\ AtStep(c, "write") /\ work[c].todo # {}
  /\ Finish(c, FALSE)
  /\ UNCHANGED <<repository, added>>

-----------------------------------------------------------------------------
(* typecheck, lint, test, git_add, git_commit: one after the other *)

TestsPass(c) == c \in SkippingTests \/ \A f \in File : tree[f] \notin TestBreaking

\* A plan that leaves lint out with the tests.
ChecksSkipped(c) == TestsPass(c) /\ (c \in SkippingTests \/ \A f \in File : tree[f] \notin LintBreaking)

\* eslint reads the whole of src/, the type check the files of the closure.
ChecksPass(c) == TestsPass(c) /\ \A f \in File : tree[f] \notin LintBreaking

\* git add of a path that neither the tree nor the index has fails as a whole.
CanAdd(c) == \A f \in work[c].files : tree[f] # Gone \/ index[f] # Gone

Staged(c) == [f \in File |-> IF f \in work[c].files THEN tree[f] ELSE index[f]]

Checkable(c) == AtStep(c, "write") /\ work[c].todo = {}

\* A check that fails, or any command that times out before git add.
ChecksFail(c) ==
  /\ Checkable(c)
  /\ Finish(c, FALSE)
  /\ UNCHANGED <<repository, added>>

\* The commit is refused, by a hook or with nothing to commit, and what was
\* staged stays staged.
CommitFails(c) ==
  /\ Checkable(c) /\ ChecksPass(c) /\ CanAdd(c)
  /\ index' = Staged(c)
  /\ Finish(c, FALSE)
  /\ UNCHANGED <<tree, head, added>>

\* The commit takes the whole index.
Commit(c) ==
  /\ Checkable(c) /\ ChecksPass(c) /\ CanAdd(c) /\ Staged(c) # head
  /\ index' = Staged(c) /\ head' = Staged(c)
  /\ Finish(c, TRUE)
  /\ UNCHANGED <<tree, added>>

\* The process ends with all its calls; the working tree stays.
ProcessEnds ==
  /\ \E c \in Closure : AtStep(c, "write")
  /\ work' = [c \in Closure |-> IF AtStep(c, "write")
                                THEN [work[c] EXCEPT !.step = "done", !.todo = {}] ELSE work[c]]
  /\ UNCHANGED <<repository, added>>

-----------------------------------------------------------------------------
(* The tools git_add, of '.' by default, and git_commit *)

GitAddTool ==
  /\ added < MaxAdds /\ added' = added + 1
  /\ index' = tree
  /\ UNCHANGED <<tree, head, work>>

GitCommitTool ==
  /\ index # head
  /\ head' = index
  /\ UNCHANGED <<tree, index, work, added>>

ClosureNext ==
  \/ \E c \in Closure, files \in FileSets : CallClosure(c, files)
  \/ \E c \in Closure :
       \/ \E f \in File : WriteFile(c, f)
       \/ WriteRefused(c) \/ ChecksFail(c) \/ CommitFails(c) \/ Commit(c)
  \/ ProcessEnds \/ GitAddTool \/ GitCommitTool

ClosureSpec == ClosureInit /\ [][ClosureNext]_closureVars

-----------------------------------------------------------------------------
(* Properties *)

\* Unless agents stage files themselves, nothing that lint refuses is staged
\* or committed, although failed, overlapping and interrupted closures leave
\* their files in the tree and in the index that the next closure commits.  (Of
\* files under src/, and while no rename is in the thread pool: see above.)
CommittedWasChecked ==
  added = 0 => \A f \in File : index[f] \notin LintBreaking /\ head[f] \notin LintBreaking

-----------------------------------------------------------------------------
(* Statements that the code does not keep *)

\* With the git tools in use, too.
CommittedWasCheckedAlways == \A f \in File : head[f] \notin LintBreaking

\* What fails the tests is committed only by a closure told to skip them.
TestedUnlessSkipped ==
  [][\A c \in Closure \ SkippingTests : AtStep(c, "write") /\ work'[c].success
        => \A f \in File : head'[f] \in TestBreaking => head[f] = head'[f]]_closureVars

\* A closure that reports success has committed what it wrote.
SuccessIsOwn ==
  [][\A c \in Closure : AtStep(c, "write") /\ work'[c].success
        => \A f \in work[c].files : head'[f] = Version(c)]_closureVars

\* A closure that fails leaves no file behind.
FailureLeavesNothing ==
  \A c \in Closure : AtStep(c, "done") /\ ~work[c].success => \A f \in File : tree[f] # c
=============================================================================
