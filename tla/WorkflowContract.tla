-------------------------- MODULE WorkflowContract --------------------------
(***************************************************************************)
(* The contract of a resumable workflow: the authorization that issue      *)
(* comments carry (tools/cse_orchestrator/workflow_authorization.py), what *)
(* its parser accepts, and which comment is in force.  Texts, hashes and   *)
(* secrets are left out.                                                   *)
(***************************************************************************)
EXTENDS Naturals, Sequences, FiniteSets, FiniteSetsExt, SequencesExt

CONSTANTS
  Comments,   \* the authorization comments of the issue, in order of their id
  Mine        \* the index in Comments of the authorization the runs are for

(***************************************************************************)
(* Authorizations                                                          *)
(***************************************************************************)
Kinds == {"command", "artifact_verify", "commit", "push", "draft_pr",
          "issue_comment"}
Capabilities == {"Code", "Device", "Publish"}
FailureClasses == {"unsafe", "resumable", "external", "decision"}
Counters == {"command", "commit", "push", "draft_pr", "github_comment"}

\* The budget a stage draws on.
BudgetCounter(kind) ==
  CASE kind \in {"commit", "push", "draft_pr"} -> kind
    [] kind = "issue_comment" -> "github_comment"
    [] OTHER -> "command"

\* _stage: the fields of one stage.
StageValid(s) ==
  /\ s.kind \in Kinds
  /\ s.capability \in Capabilities
  /\ s.retry \in Nat
  /\ s.reusable \in BOOLEAN
  /\ s.class \in FailureClasses

\* The budgets cover every stage once, and the corrections every retry.
BudgetsCover(a) ==
  LET stages == DOMAIN a.stages
      Of(c)  == Cardinality({i \in stages : BudgetCounter(a.stages[i].kind) = c})
  IN  /\ \A c \in Counters : a.budgets[c] \in Nat /\ Of(c) <= a.budgets[c]
      /\ MapThenSumSet(LAMBDA i : a.stages[i].retry, stages) <= a.budgets.correction

\* A device stage needs the contracts of the device and of the artifact, and
\* is a command (of adb, with the serial of the device).
DeviceCovered(a) ==
  LET device == {i \in DOMAIN a.stages : a.stages[i].capability = "Device"}
  IN  /\ device # {} => a.device
      /\ a.device => a.artifact /\ \A i \in device : a.stages[i].kind = "command"

\* parse_workflow_authorization, but for the date.
AuthorizationValid(a) ==
  /\ a.stages # <<>>
  /\ \A i \in DOMAIN a.stages : StageValid(a.stages[i])
  /\ \A i, j \in DOMAIN a.stages :
        a.stages[i].name = a.stages[j].name => i = j
  /\ a.reused \subseteq DOMAIN a.stages
  /\ BudgetsCover(a)
  /\ DeviceCovered(a)

\* parse_workflow_authorization_comment at a time.
Parses(a, now) == AuthorizationValid(a) /\ now < a.expires

\* select_latest_workflow_authorization: the comments that parse, each taken if
\* it continues the chain.  0 when none is in force.
Select(now) ==
  FoldLeft(LAMBDA active, id :
             IF Parses(Comments[id], now) /\ Comments[id].supersedes = active
             THEN id ELSE active,
           0, [i \in DOMAIN Comments |-> i])

Stages == Comments[Mine].stages
Budgets == Comments[Mine].budgets
Publishes == Comments[Mine].publish
Reused == Comments[Mine].reused
StageIds == DOMAIN Stages
LastStage == Len(Stages)

\* The authorization the runs are for parses; its stages are a list.
ASSUME CommentsAreRead ==
  /\ Mine \in DOMAIN Comments
  /\ AuthorizationValid(Comments[Mine])
  /\ LastStage \in Nat /\ StageIds = 1..LastStage
=============================================================================
