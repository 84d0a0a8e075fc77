------------------------------ MODULE CodexLoop ------------------------------
(***************************************************************************)
(* tools/cse_codex_loop.py: one invocation takes one task that was handed  *)
(* to the local loop, has Codex change a worktree of its own, enforces the *)
(* scope, runs the validations, asks a read-only reviewer, publishes a     *)
(* draft pull request and answers on the issue.  A review that requests    *)
(* changes is followed by one correction and one more review.              *)
(*                                                                         *)
(* Invocations take no lock: the scheduler starts one at a time, an        *)
(* operator may start another.  Any call may fail, a call that fails may   *)
(* have been carried out, and an invocation may die anywhere.              *)
(***************************************************************************)
EXTENDS BridgeTasks

CONSTANT Loops

VARIABLES loops,       \* invocations: the step, the task, the round, the answer,
                       \* the files, what passed since Codex last wrote them
          loopTrees    \* tasks with a worktree

loopVars == <<loops, loopTrees>>

LoopOff == [at |-> "off", task |-> None, round |-> 1, says |-> None,
            files |-> None, passed |-> {}]

LoopInit ==
  /\ loops = [l \in Loops |-> LoopOff]
  /\ loopTrees = {}

LoopAt(l, at)   == loops[l].at = at
LoopMoves(l, at) == loops' = [loops EXCEPT ![l].at = at]
LoopWrites(l, files, passed, at) ==
  loops' = [loops EXCEPT ![l].at = at, ![l].files = files, ![l].passed = passed]
LoopEnds(l)     == loops' = [loops EXCEPT ![l] = LoopOff]
LoopSays(l, says) ==
  loops' = [loops EXCEPT ![l].at = "answer", ![l].says = says]

PushLoopTree(l) == Push(loops[l].task, loops[l].files, l, loops[l].passed)

\* A variant that takes any approved task.
SelectApproved == {t \in Tasks : TaskReady(t)}

\* The tasks that were handed over.
SelectLocalGateIssue == {t \in Tasks : LocalGateReady(t)}

\* The lowest one is taken.  Its issue and comments are read once more, and a
\* body without the sections ends the run without a comment, as it would for
\* an issue an operator names.
LoopSelects(l) ==
  /\ LoopAt(l, "off") /\ SelectLocalGateIssue # {}
  /\ LET t == Min(SelectLocalGateIssue) IN
     /\ LocalGateReady(t) /\ Parses(t)
     /\ loops' = [loops EXCEPT ![l].at = "start", ![l].task = t]
  /\ UNCHANGED <<taskVars, loopTrees, mishaps>>

LoopStarts(l) ==
  /\ LoopAt(l, "start")
  /\ Post(loops[l].task, "RUNNING", l)
  /\ LoopMoves(l, "worktree")
  /\ UNCHANGED <<originVars, loopTrees, mishaps>>

\* The directory and the branch must be new, here and on origin.  The local
\* branch outlives its worktree only when origin has it.
CreateWorktree(l) ==
  /\ LoopAt(l, "worktree")
  /\ IF loops[l].task \notin loopTrees /\ branch[loops[l].task] = None
     THEN /\ loopTrees' = loopTrees \cup {loops[l].task}
          /\ LoopWrites(l, "base", {}, "codex")
     ELSE LoopSays(l, "FAILED") /\ UNCHANGED loopTrees
  /\ UNCHANGED <<taskVars, mishaps>>

\* Codex writes where it likes below the worktree.
RunCodexPass(l) ==
  /\ LoopAt(l, "codex")
  /\ \E files \in Files : LoopWrites(l, files, {}, "validate")
  /\ UNCHANGED <<taskVars, loopTrees, mishaps>>

\* The commands run when the scope is kept, and may leave files of their own.
RunValidations(l) ==
  /\ LoopAt(l, "validate")
  /\ \/ /\ InScope(loops[l].files)
        /\ \E files \in {"inside", "outside"} :
             LoopWrites(l, files, {"validations"}, "review")
     \/ LoopSays(l, "FAILED")
  /\ UNCHANGED <<taskVars, loopTrees, mishaps>>

LoopApproved(l) ==
  LoopWrites(l, loops[l].files, loops[l].passed \cup {"review"}, "publish")

\* The reviewer reads.  Requested changes are corrected once.
RunReview(l) ==
  /\ LoopAt(l, "review")
  /\ \/ LoopApproved(l)
     \/ /\ loops[l].round = 1
        /\ loops' = [loops EXCEPT ![l].at = "codex", ![l].round = 2]
     \/ LoopSays(l, "NEEDS_HUMAN")
  /\ UNCHANGED <<taskVars, loopTrees, mishaps>>

\* A variant that trusts the scope that was enforced before the validations.
PublishAnything(l) ==
  /\ LoopAt(l, "publish")
  /\ PushLoopTree(l) /\ LoopMoves(l, "pull request")
  /\ UNCHANGED <<newest, answers, pullRequest, loopTrees, mishaps>>

\* publish: the scope again, over what the validations left too, then the
\* commit of exactly these paths and the push.
LoopPublishes(l) ==
  /\ LoopAt(l, "publish")
  /\ IF InScope(loops[l].files) /\ branch[loops[l].task] = None
     THEN PushLoopTree(l) /\ LoopMoves(l, "pull request")
     ELSE LoopSays(l, "FAILED") /\ UNCHANGED branch
  /\ UNCHANGED <<newest, answers, pullRequest, loopTrees, mishaps>>

LoopOpensPr(l) ==
  /\ LoopAt(l, "pull request")
  /\ CreateDraftPr(loops[l].task)
  /\ LoopMoves(l, "cleanup")
  /\ UNCHANGED <<newest, answers, branch, loopTrees, mishaps>>

\* Nothing but what was pushed: no other file, the task's branch, its commit.
PublishedWorktreeIsClean(l) ==
  /\ branch[loops[l].task].by = l
  /\ branch[loops[l].task].files = loops[l].files

\* The worktree is removed when it is clean and its head is what was pushed;
\* after three attempts it is kept, and the answer is PASS all the same.
RemoveSuccessfulWorktree(l) ==
  /\ LoopAt(l, "cleanup")
  /\ \/ /\ PublishedWorktreeIsClean(l)
        /\ loopTrees' = loopTrees \ {loops[l].task}
     \/ UNCHANGED loopTrees
  /\ LoopSays(l, "PASS")
  /\ UNCHANGED <<taskVars, mishaps>>

LoopAnswers(l) ==
  /\ LoopAt(l, "answer")
  /\ Post(loops[l].task, loops[l].says, l)
  /\ LoopEnds(l)
  /\ UNCHANGED <<originVars, loopTrees, mishaps>>

\* A comment fails, or only its reply is lost.  A PASS that failed is followed
\* by an attempt to answer FAILED, every other one ends the run.
LoopCommentFails(l) ==
  /\ Mishap
  /\ \/ LoopAt(l, "start") /\ LoopEnds(l)
     \/ LoopAt(l, "answer") /\ loops[l].says = "PASS" /\ LoopSays(l, "FAILED")
     \/ LoopAt(l, "answer") /\ loops[l].says # "PASS" /\ LoopEnds(l)
  /\ LET says == IF LoopAt(l, "start") THEN "RUNNING" ELSE loops[l].says IN
     Post(loops[l].task, says, l) \/ UNCHANGED <<newest, answers>>
  /\ UNCHANGED <<originVars, loopTrees>>

\* A command or a call fails in the middle of the work, or only its reply is
\* lost.
LoopFails(l) ==
  /\ Mishap
  /\ loops[l].at \in {"worktree", "codex", "validate", "review", "publish",
                      "pull request"}
  /\ LoopSays(l, "FAILED")
  /\ \/ LoopAt(l, "publish") /\ InScope(loops[l].files) /\ PushLoopTree(l)
     \/ UNCHANGED branch
  /\ \/ LoopAt(l, "pull request") /\ CreateDraftPr(loops[l].task)
     \/ UNCHANGED pullRequest
  /\ UNCHANGED <<newest, answers, loopTrees>>

LoopStep(l) ==
  \/ LoopSelects(l)   \/ LoopStarts(l)     \/ CreateWorktree(l)
  \/ RunCodexPass(l)  \/ RunValidations(l) \/ RunReview(l)
  \/ LoopPublishes(l) \/ LoopOpensPr(l)    \/ RemoveSuccessfulWorktree(l)
  \/ LoopAnswers(l)   \/ LoopCommentFails(l) \/ LoopFails(l)

LoopDies(l) ==
  /\ ~LoopAt(l, "off")
  /\ LoopEnds(l)
  /\ UNCHANGED <<taskVars, loopTrees>>
=============================================================================
