----------------------------- MODULE BridgeTasks -----------------------------
(***************************************************************************)
(* What the local workers share: the issues of the repository, whose       *)
(* comments say where a task stands, and the branches and pull requests    *)
(* on origin.  A worker learns about another one only from these.          *)
(*                                                                         *)
(* A worktree is known by what the workers ask of its files: are they the  *)
(* base, and does a change lie outside the allowed paths.                  *)
(***************************************************************************)
EXTENDS Integers, Sequences, FiniteSets, FiniteSetsExt

CONSTANTS Tasks,          \* numbers of issues
          WellFormed,     \* those whose body has every section it must have
          None,
          MaxApprovals,   \* comments of the owner that approve a task
          MaxMishaps      \* calls that fail and workers that die

ASSUME TasksAssumption ==
  /\ Tasks \subseteq Nat /\ IsFiniteSet(Tasks) /\ WellFormed \subseteq Tasks
  /\ {MaxApprovals, MaxMishaps} \subseteq Nat

VARIABLES newest,       \* per task, the newest approval or start on its issue
          answers,      \* per task, the final comments, a PASS with its worker
          branch,       \* per task, what its branch on origin holds, or None
          pullRequest,  \* tasks with an open pull request
          approvals, mishaps

originVars == <<branch, pullRequest>>
taskVars   == <<newest, answers, originVars>>

\* A handoff is an approval that asks for the local gate.
Approvals == {"approved", "handoff"}
Terminals == {"PASS", "FAILED", "NEEDS_HUMAN"}

\* The files of a worktree: those of the base, changed inside the allowed
\* paths only, or outside as well.
Files == {"base", "inside", "outside"}
InScope(files) == files = "inside"

TasksInit ==
  /\ newest = [t \in Tasks |-> None]
  /\ answers = [t \in Tasks |-> {}]
  /\ branch = [t \in Tasks |-> None]
  /\ pullRequest = {}
  /\ approvals = 0 /\ mishaps = 0

\* parse_task: the body of the issue has its sections, and its commands are
\* among those that may run.
Parses(t) == t \in WellFormed

-----------------------------------------------------------------------------
(* Where a task stands                                                     *)

TerminalState(t) == answers[t] # {}
Approved(t) == newest[t] # None

\* No worker has answered, and the owner approved after the last one started.
TaskReady(t) == ~TerminalState(t) /\ newest[t] \in Approvals

\* The same, and the newest approval hands the task to the local loop.
LocalGateReady(t) == TaskReady(t) /\ newest[t] = "handoff"

-----------------------------------------------------------------------------
(* The calls to GitHub and to origin                                       *)

Post(t, says, by) ==
  IF says \in Terminals
  THEN /\ answers' = [answers EXCEPT ![t] =
                        @ \cup {[says |-> says,
                                by |-> IF says = "PASS" THEN by ELSE None]}]
       /\ UNCHANGED newest
  ELSE /\ newest' = [newest EXCEPT ![t] = says]
       /\ UNCHANGED answers

\* A push is never forced: a branch that exists refuses other work.
Push(t, files, by, passed) ==
  /\ branch[t] = None
  /\ branch' = [branch EXCEPT ![t] =
                  [files |-> files, by |-> by, passed |-> passed]]

CreateDraftPr(t) == pullRequest' = pullRequest \cup {t}

\* A call fails, or a worker dies.
Mishap == mishaps < MaxMishaps /\ mishaps' = mishaps + 1

\* The owner approves a task, again after a run that was lost.  A task that is
\* answered stays answered, so approving it would change nothing.
Approve(t) ==
  /\ ~TerminalState(t)
  /\ approvals < MaxApprovals
  /\ approvals' = approvals + 1
  /\ \E says \in Approvals : Post(t, says, None)
  /\ UNCHANGED <<originVars, mishaps>>
=============================================================================
