---------------------------- MODULE ActionPolicy ----------------------------
(***************************************************************************)
(* The admission policy of the orchestrator (policy.py, state.py): which   *)
(* state of a piece of work may follow which, and what a request to move   *)
(* needs.  The policy keeps nothing: it judges the request it is given.    *)
(*                                                                         *)
(* A request names the states from and to, the pending action, the resume  *)
(* state, the source as it is now, the authorization if there is one,      *)
(* what becomes of the gates it skips, the evidence of earlier gates, the  *)
(* counters of the budget, and whether it repeats an operation that        *)
(* failed.  Expected state, level and capability follow from the action.   *)
(* Left out: the hard stop, which only denies, and the shape of the JSON.  *)
(***************************************************************************)
EXTENDS Naturals, FiniteSets

Terminal == {"PREFLIGHT_BLOCKED", "BLOCKED", "FAILED", "CANCELLED", "COMPLETED"}

Documented ==
  [ IDLE                     |-> {"OBSERVING"},
    OBSERVING                |-> {"SCOPE_VALIDATED", "PREFLIGHT_BLOCKED"},
    SCOPE_VALIDATED          |-> {"AWAITING_APPROVAL"},
    AWAITING_APPROVAL        |-> {"CODEX_AUTHORIZED", "ACTION_AUTHORIZED"},
    CODEX_AUTHORIZED         |-> {"CODEX_RUNNING"},
    ACTION_AUTHORIZED        |-> {"ACTION_RUNNING"},
    CODEX_RUNNING            |-> {"RESULT_RECEIVED"},
    ACTION_RUNNING           |-> {"RESULT_RECEIVED"},
    RESULT_RECEIVED          |-> {"DETERMINISTIC_VALIDATION"},
    DETERMINISTIC_VALIDATION |->
      {"FOCUSED_PASS", "FULL_PASS", "CHECKPOINT_COMMITTED", "ARTIFACT_BUILT",
       "DEVICE_ACCEPTANCE", "COMPLETED", "FAILED", "BLOCKED"},
    FOCUSED_PASS             |-> {"AWAITING_APPROVAL", "SOURCE_VALIDATED"},
    FULL_PASS                |-> {"SOURCE_VALIDATED"},
    SOURCE_VALIDATED         |-> {"AWAITING_APPROVAL"},
    CHECKPOINT_COMMITTED     |-> {"AWAITING_APPROVAL", "PUBLISH_READY"},
    ARTIFACT_BUILT           |-> {"AWAITING_APPROVAL", "PUBLISH_READY"},
    DEVICE_ACCEPTANCE        |-> {"PUBLISH_READY"},
    PUBLISH_READY            |-> {"AWAITING_APPROVAL", "COMPLETED"} ]

States == (DOMAIN Documented) \union Terminal

Successors(from) ==
  IF from \in Terminal THEN {} ELSE Documented[from] \union {"CANCELLED"}

CanMove(from, to) == to \in Successors(from)

CodeActions    == {"CODE_CHANGE", "CORRECTION"}
GenericActions == {"FULL_VALIDATION", "CHECKPOINT_COMMIT", "BUILD", "DEVICE", "PUBLISH"}
Actions        == CodeActions \union GenericActions

SuccessState ==
  [ CODE_CHANGE       |-> "FOCUSED_PASS",         CORRECTION |-> "FOCUSED_PASS",
    FULL_VALIDATION   |-> "FULL_PASS",
    CHECKPOINT_COMMIT |-> "CHECKPOINT_COMMITTED", BUILD      |-> "ARTIFACT_BUILT",
    DEVICE            |-> "DEVICE_ACCEPTANCE",    PUBLISH    |-> "COMPLETED" ]

ResumeState ==
  [ CODE_CHANGE       |-> "SCOPE_VALIDATED",  CORRECTION |-> "SCOPE_VALIDATED",
    FULL_VALIDATION   |-> "FOCUSED_PASS",
    CHECKPOINT_COMMIT |-> "SOURCE_VALIDATED", BUILD      |-> "CHECKPOINT_COMMITTED",
    DEVICE            |-> "ARTIFACT_BUILT",   PUBLISH    |-> "PUBLISH_READY" ]

Counter ==
  [ CODE_CHANGE       |-> "primary",           CORRECTION |-> "correction",
    FULL_VALIDATION   |-> "full_gate",
    CHECKPOINT_COMMIT |-> "checkpoint_commit", BUILD      |-> "build",
    DEVICE            |-> "device",            PUBLISH    |-> "publish" ]

Counters == {Counter[a] : a \in Actions} \union {"same_operation_retry"}

AwaitingActions(from) == {a \in Actions : ResumeState[a] = from}

\* The gates that a move leaves out.
SkippedGates(from, to) ==
  CASE from = "FOCUSED_PASS" /\ to = "SOURCE_VALIDATED"      -> {"FULL_VALIDATION"}
    [] from = "CHECKPOINT_COMMITTED" /\ to = "PUBLISH_READY" -> {"BUILD", "DEVICE"}
    [] from = "ARTIFACT_BUILT" /\ to = "PUBLISH_READY"       -> {"DEVICE"}
    [] from = "PUBLISH_READY" /\ to = "COMPLETED"            -> {"PUBLISH"}
    [] OTHER                                                 -> {}

RunningState(a) == IF a \in CodeActions THEN "CODEX_RUNNING" ELSE "ACTION_RUNNING"
AuthorizedState(a) ==
  IF a \in CodeActions THEN "CODEX_AUTHORIZED" ELSE "ACTION_AUTHORIZED"
AuthorizationStates == {"AWAITING_APPROVAL", "CODEX_AUTHORIZED", "ACTION_AUTHORIZED"}

\* Mutant: an approval for another source counts.
AuthorizedAnySource(q) ==
  /\ q.authorization.status = "valid"
  /\ ~q.authorization.consumed
  /\ ~q.authorization.superseded
  /\ ~q.authorization.expired
  /\ q.authorization.action = q.action

Authorized(q) ==
  /\ q.authorization.status = "valid"
  /\ ~q.authorization.consumed
  /\ ~q.authorization.superseded
  /\ ~q.authorization.expired
  /\ q.authorization.action = q.action
  /\ q.authorization.source = q.source

\* A gate is skipped as not required, or because one earlier result of it is
\* on file, a PASS on this very source.
GatesAccounted(q) ==
  /\ DOMAIN q.dispositions = SkippedGates(q.from, q.to)
  /\ \A g \in DOMAIN q.dispositions :
       q.dispositions[g] = "reused" =>
         {e \in q.evidence : e.gate = g} = {[gate |-> g, status |-> "PASS", source |-> q.source]}

\* The counters that a start takes from.
Spent(q) ==
  {Counter[q.action]} \union (IF q.retry THEN {"same_operation_retry"} ELSE {})

BudgetAdmits(q, budget) ==
  /\ q.retry => q.action = "CORRECTION"
  /\ \A c \in Spent(q) : q.used[c] < budget[c]
  /\ ~ /\ q.action = "FULL_VALIDATION" /\ q.used["full_gate"] > 0
       /\ q.revision = q.source

IsStart(q) == q.to = RunningState(q.action)

\* A move to AWAITING_APPROVAL is answered with allowed FALSE and no blocker;
\* the caller waits.
MayAwait(q) ==
  /\ q.to = "AWAITING_APPROVAL" /\ CanMove(q.from, q.to)
  /\ q.resume = ResumeState[q.action]
  /\ q.action \in AwaitingActions(q.from)

\* Mutant: the resume state of the action is not compared.
AllowedFromAnywhere(q, budget) ==
  /\ q.to # "AWAITING_APPROVAL" /\ CanMove(q.from, q.to)
  /\ GatesAccounted(q)
  /\ q.from \in AuthorizationStates =>
       /\ q.from = "AWAITING_APPROVAL" => q.to = AuthorizedState(q.action)
       /\ q.from # "AWAITING_APPROVAL" => q.from = AuthorizedState(q.action)
       /\ Authorized(q)
  /\ IsStart(q) => BudgetAdmits(q, budget)
  /\ q.from = "DETERMINISTIC_VALIDATION" /\ q.to \notin {"FAILED", "BLOCKED"} =>
       q.to = SuccessState[q.action]

Allowed(q, budget) ==
  /\ q.to # "AWAITING_APPROVAL" /\ CanMove(q.from, q.to)
  /\ q.resume = ResumeState[q.action]
  /\ GatesAccounted(q)
  /\ q.from \in AuthorizationStates =>
       /\ q.from = "AWAITING_APPROVAL" => q.to = AuthorizedState(q.action)
       /\ q.from # "AWAITING_APPROVAL" => q.from = AuthorizedState(q.action)
       /\ Authorized(q)
  /\ IsStart(q) => BudgetAdmits(q, budget)
  /\ q.from = "DETERMINISTIC_VALIDATION" /\ q.to \notin {"FAILED", "BLOCKED"} =>
       q.to = SuccessState[q.action]
=============================================================================
