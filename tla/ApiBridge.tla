------------------------------ MODULE ApiBridge ------------------------------
(***************************************************************************)
(* tools/cse_bridge_local.py and what it calls: a scheduled worker that    *)
(* takes a lock file, selects the lowest approved task (cse_bridge_poll),  *)
(* makes a worktree, lets the model edit it through bounded tools          *)
(* (cse_api_bridge), validates, publishes a draft pull request, answers on *)
(* the issue and removes the worktree.  One correction pass follows a      *)
(* failed validation.                                                      *)
(*                                                                         *)
(* The lock file holds the number of the process that made it, and is      *)
(* empty between its creation and the write of that number.  A worker      *)
(* writes into the file it made, whether or not that still has the name.   *)
(***************************************************************************)
EXTENDS BridgeTasks

CONSTANT Bridges

VARIABLES bridges,       \* workers: the step, the task, the pass, the answer,
                         \* the files, what passed since the model wrote them
          bridgeTrees,   \* tasks with a worktree
          lock           \* None, or who made the file (None when that process is
                         \* gone) and whether its number is in it

bridgeVars == <<bridges, bridgeTrees, lock>>

BridgeOff == [at |-> "off", task |-> None, pass |-> 1, says |-> None,
              files |-> None, passed |-> {}]

BridgeInit ==
  /\ bridges = [b \in Bridges |-> BridgeOff]
  /\ bridgeTrees = {}
  /\ lock = None

BridgeAt(b, at)    == bridges[b].at = at
BridgeMoves(b, at) == bridges' = [bridges EXCEPT ![b].at = at]
BridgeEnds(b)      == bridges' = [bridges EXCEPT ![b] = BridgeOff]
BridgeSays(b, says) ==
  bridges' = [bridges EXCEPT ![b].at = "answer", ![b].says = says]

BridgeWrites(b, files, passed, at) ==
  bridges' = [bridges EXCEPT ![b].at = at, ![b].files = files,
                             ![b].passed = passed]

PushBridgeTree(b) ==
  Push(bridges[b].task, bridges[b].files, b, bridges[b].passed)

-----------------------------------------------------------------------------
(* SingleInstanceLock                                                      *)

\* The file is created exclusively, or there is one to look at.
OpensLock(b) ==
  /\ bridges[b].at \in {"off", "open again"}
  /\ IF lock = None
     THEN lock' = [of |-> b, numbered |-> FALSE] /\ BridgeMoves(b, "owns")
     ELSE /\ bridges' = [bridges EXCEPT ![b].at = "refused",
                           ![b].pass = IF BridgeAt(b, "off") THEN 1 ELSE 2]
          /\ UNCHANGED lock
  /\ UNCHANGED <<taskVars, bridgeTrees, mishaps>>

\* There is a lock file, and it is the one this worker made and has open.
Made(b) == lock # None /\ lock.of = b

\* When another worker has removed the file, the number goes where no other
\* process finds it.
WritesLock(b) ==
  /\ BridgeAt(b, "owns")
  /\ lock' = IF Made(b) THEN [lock EXCEPT !.numbered = TRUE] ELSE lock
  /\ bridges' = [bridges EXCEPT ![b].at = "locked", ![b].pass = 1]
  /\ UNCHANGED <<taskVars, bridgeTrees, mishaps>>

\* Only a number whose process is gone lets the worker go on; a file that is
\* gone or holds no number counts as a worker that runs.
ReadsLock(b) ==
  /\ BridgeAt(b, "refused")
  /\ IF Made(None) /\ lock.numbered THEN BridgeMoves(b, "unlink") ELSE BridgeEnds(b)
  /\ UNCHANGED <<taskVars, bridgeTrees, lock, mishaps>>

\* The file is removed, whichever it is by now; on Windows one that is open is
\* not.  The second removal is not followed by another attempt.
UnlinksLock(b) ==
  /\ BridgeAt(b, "unlink")
  /\ \/ /\ lock' = None
        /\ IF bridges[b].pass = 1 THEN BridgeMoves(b, "open again")
           ELSE BridgeEnds(b)
     \/ lock # None /\ ~Made(None) /\ BridgeEnds(b) /\ UNCHANGED lock
  /\ UNCHANGED <<taskVars, bridgeTrees, mishaps>>

\* So is the file at the end, whoever made it; one that another worker has open
\* stays.
ReleasesLock(b) ==
  /\ BridgeAt(b, "unlock")
  /\ \/ lock' = None
     \/ lock # None /\ ~Made(b) /\ ~Made(None) /\ UNCHANGED lock
  /\ BridgeEnds(b)
  /\ UNCHANGED <<taskVars, bridgeTrees, mishaps>>

-----------------------------------------------------------------------------
(* run_once and execute                                                    *)

SelectTask == {t \in Tasks : TaskReady(t)}

BridgeSelects(b) ==
  /\ BridgeAt(b, "locked")
  /\ IF SelectTask = {} \/ ~Parses(Min(SelectTask))
     THEN BridgeMoves(b, "unlock")
     ELSE bridges' = [bridges EXCEPT ![b].at = "worktree",
                                     ![b].task = Min(SelectTask)]
  /\ UNCHANGED <<taskVars, bridgeTrees, lock, mishaps>>

\* A directory of an earlier run, or a branch on origin, ends the run without
\* a comment.
BridgeCreatesWorktree(b) ==
  /\ BridgeAt(b, "worktree")
  /\ IF bridges[b].task \notin bridgeTrees /\ branch[bridges[b].task] = None
     THEN /\ bridgeTrees' = bridgeTrees \cup {bridges[b].task}
          /\ BridgeWrites(b, "base", {}, "execute")
     ELSE BridgeMoves(b, "unlock") /\ UNCHANGED bridgeTrees
  /\ UNCHANGED <<taskVars, lock, mishaps>>

\* The comments are read again: an answer by another worker is a result 0.
ExecuteReads(b) ==
  /\ BridgeAt(b, "execute")
  /\ BridgeMoves(b, IF TerminalState(bridges[b].task) THEN "remove"
                    ELSE IF Approved(bridges[b].task) THEN "start"
                    ELSE "unlock")
  /\ UNCHANGED <<taskVars, bridgeTrees, lock, mishaps>>

ExecuteStarts(b) ==
  /\ BridgeAt(b, "start")
  /\ Post(bridges[b].task, "RUNNING", b)
  /\ BridgeMoves(b, "branch")
  /\ UNCHANGED <<originVars, bridgeTrees, lock, mishaps>>

PrepareBranch(b) ==
  /\ BridgeAt(b, "branch")
  /\ BridgeMoves(b, IF branch[bridges[b].task] = None /\
                       bridges[b].files = "base"
                    THEN "model" ELSE "unlock")
  /\ UNCHANGED <<taskVars, bridgeTrees, lock, mishaps>>

\* The model writes through tools that refuse a path outside the allowed ones;
\* files that a validation left outside stay.
RunModel(b) ==
  /\ BridgeAt(b, "model")
  /\ \E files \in IF bridges[b].files = "outside" THEN {"outside"}
                ELSE {"base", "inside"} : BridgeWrites(b, files, {}, "validate")
  /\ UNCHANGED <<taskVars, bridgeTrees, lock, mishaps>>

BridgeCorrects(b, files) ==
  bridges' = [bridges EXCEPT ![b].at = "model", ![b].pass = 2, ![b].files = files]

\* What does not pass is corrected once; after that a bad scope is an error,
\* and failing commands are told to the owner.  The commands may leave files.
BridgeValidates(b) ==
  /\ BridgeAt(b, "validate")
  /\ \/ /\ InScope(bridges[b].files)
        /\ \E files \in {"inside", "outside"} :
             \/ BridgeWrites(b, files, {"validations"}, "publish")
             \/ bridges[b].pass = 1 /\ BridgeCorrects(b, files)
     \/ /\ InScope(bridges[b].files) /\ bridges[b].pass = 2
        /\ BridgeSays(b, "NEEDS_HUMAN")
     \/ /\ ~InScope(bridges[b].files)
        /\ IF bridges[b].pass = 1 THEN BridgeCorrects(b, bridges[b].files)
           ELSE BridgeMoves(b, "unlock")
  /\ UNCHANGED <<taskVars, bridgeTrees, lock, mishaps>>

BridgePublishes(b) ==
  /\ BridgeAt(b, "publish")
  /\ IF InScope(bridges[b].files) /\ branch[bridges[b].task] = None
     THEN PushBridgeTree(b) /\ BridgeMoves(b, "pull request")
     ELSE BridgeMoves(b, "unlock") /\ UNCHANGED branch
  /\ UNCHANGED <<newest, answers, pullRequest, bridgeTrees, lock, mishaps>>

BridgeOpensPr(b) ==
  /\ BridgeAt(b, "pull request")
  /\ CreateDraftPr(bridges[b].task)
  /\ BridgeSays(b, "PASS")
  /\ UNCHANGED <<newest, answers, branch, bridgeTrees, lock, mishaps>>

\* A variant that answers as soon as the branch is pushed.
AnswerBeforePr(b) ==
  /\ bridges[b].at \in {"answer", "pull request"}
  /\ Post(bridges[b].task, IF BridgeAt(b, "answer") THEN bridges[b].says
                           ELSE "PASS", b)
  /\ BridgeMoves(b, "unlock")
  /\ UNCHANGED <<originVars, bridgeTrees, lock, mishaps>>

BridgeAnswers(b) ==
  /\ BridgeAt(b, "answer")
  /\ Post(bridges[b].task, bridges[b].says, b)
  /\ BridgeMoves(b, IF bridges[b].says = "PASS" THEN "remove" ELSE "unlock")
  /\ UNCHANGED <<originVars, bridgeTrees, lock, mishaps>>

\* A variant that removes the worktree of every run.
RemoveAlways(b) ==
  /\ bridges[b].at \in {"remove", "unlock"} /\ bridges[b].task # None
  /\ bridgeTrees' = bridgeTrees \ {bridges[b].task}
  /\ BridgeMoves(b, "unlock")
  /\ UNCHANGED <<taskVars, lock, mishaps>>

\* After a result 0 only.
BridgeRemoves(b) ==
  /\ BridgeAt(b, "remove")
  /\ bridgeTrees' = bridgeTrees \ {bridges[b].task}
  /\ BridgeMoves(b, "unlock")
  /\ UNCHANGED <<taskVars, lock, mishaps>>

\* A call fails, or only its reply is lost: the error ends the run, and no
\* comment tells it.
BridgeFails(b) ==
  /\ Mishap
  /\ bridges[b].at \in {"locked", "worktree", "execute", "start", "branch",
       "model", "validate", "publish", "pull request", "answer", "remove"}
  /\ \/ BridgeAt(b, "publish") /\ InScope(bridges[b].files) /\ PushBridgeTree(b)
     \/ UNCHANGED branch
  /\ \/ BridgeAt(b, "start") /\ Post(bridges[b].task, "RUNNING", b)
     \/ BridgeAt(b, "answer") /\ Post(bridges[b].task, bridges[b].says, b)
     \/ UNCHANGED <<newest, answers>>
  /\ \/ BridgeAt(b, "pull request") /\ CreateDraftPr(bridges[b].task)
     \/ UNCHANGED pullRequest
  /\ BridgeMoves(b, "unlock")
  /\ UNCHANGED <<bridgeTrees, lock>>

BridgeStep(b) ==
  \/ OpensLock(b)     \/ WritesLock(b)    \/ ReadsLock(b)   \/ UnlinksLock(b)
  \/ ReleasesLock(b)  \/ BridgeSelects(b) \/ BridgeCreatesWorktree(b)
  \/ ExecuteReads(b)  \/ ExecuteStarts(b) \/ PrepareBranch(b)
  \/ RunModel(b)      \/ BridgeValidates(b) \/ BridgePublishes(b)
  \/ BridgeOpensPr(b) \/ BridgeAnswers(b)   \/ BridgeRemoves(b)
  \/ BridgeFails(b)

\* The process dies; its number in the lock file names no process any more.
BridgeDies(b) ==
  /\ ~BridgeAt(b, "off")
  /\ BridgeEnds(b)
  /\ lock' = IF Made(b) THEN [lock EXCEPT !.of = None] ELSE lock
  /\ UNCHANGED <<taskVars, bridgeTrees>>
=============================================================================
