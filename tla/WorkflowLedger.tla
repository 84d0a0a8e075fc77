--------------------------- MODULE WorkflowLedger ---------------------------
(***************************************************************************)
(* What a workflow's ledger says (tools/cse_orchestrator/workflow_store.py *)
(* project_workflow_events): one disjunct of Accepts and one branch of     *)
(* After for each event.  A ledger is modelled by what its replay gives,   *)
(* which is all the coordinator reads of it.                               *)
(***************************************************************************)
EXTENDS WorkflowContract

CONSTANT NoTarget   \* "no target has been observed yet"

Statuses == {"NEW", "RUNNING", "PAUSED_EXTERNAL", "AWAITING_USER_DECISION",
             "RESUMABLE_FAILURE", "UNSAFE_BLOCKED", "COMPLETED"}
Stopped == {"AWAITING_USER_DECISION", "UNSAFE_BLOCKED", "COMPLETED"}

\* The replay of no event.
NewProjection ==
  [status |-> "NEW", index |-> 1, attempts |-> [i \in StageIds |-> 0],
   active |-> FALSE, spent |-> [c \in Counters |-> 0], target |-> NoTarget,
   artifact |-> FALSE, published |-> {}, keys |-> {}, events |-> 0]

\* A stage result is accepted for the stage whose turn it is.
AtStage(p, e) == p.index \in StageIds /\ e.stage = p.index

\* The checks of project_workflow_events.
AcceptsStart(p, e) ==
  e.type = "workflow_started" /\ p.status = "NEW" /\ p.events = 0

AcceptsResume(p, e) ==
  /\ e.type = "workflow_resumed"
  /\ p.status \in {"PAUSED_EXTERNAL", "RESUMABLE_FAILURE"}
  /\ e.stage = p.index

AcceptsAdmission(p, e) ==
  /\ e.type = "stage_admitted"
  /\ p.status = "RUNNING"
  /\ AtStage(p, e)
  /\ e.attempt = p.attempts[p.index] + 1
  /\ ~p.active

AcceptsPass(p, e) ==
  /\ e.type \in {"stage_passed", "stage_reused"}
  /\ p.status = "RUNNING"
  /\ AtStage(p, e)
  /\ p.active <=> e.type = "stage_passed"

AcceptsPause(p, e) ==
  /\ e.type = "stage_paused"
  /\ p.status = "RUNNING"
  /\ AtStage(p, e)
  /\ p.active

AcceptsFailure(p, e) ==
  /\ e.type = "stage_failed"
  /\ p.status = "RUNNING"
  /\ AtStage(p, e)
  /\ p.active \/ ~e.commanded

AcceptsEnd(p, e) ==
  \/ e.type = "workflow_failed" /\ p.status = "RUNNING"
  \/ e.type = "workflow_completed" /\ p.status = "RUNNING" /\ p.index = LastStage + 1

Accepts(p, e) ==
  \/ e.type \in {"target_observed", "github_evidence"}
  \/ AcceptsStart(p, e) \/ AcceptsResume(p, e) \/ AcceptsAdmission(p, e)
  \/ AcceptsPass(p, e) \/ AcceptsPause(p, e) \/ AcceptsFailure(p, e)
  \/ AcceptsEnd(p, e)

\* Mutant: one attempt too many.
OneTooMany(p, e) ==
  IF e.class = "resumable" /\ p.attempts[p.index] <= Stages[p.index].retry + 1
  THEN "RESUMABLE_FAILURE"
  ELSE "UNSAFE_BLOCKED"

\* A resumable failure is one while attempts are left.
AfterFailure(p, e) ==
  IF e.class = "resumable" /\ p.attempts[p.index] <= Stages[p.index].retry
  THEN "RESUMABLE_FAILURE"
  ELSE IF e.class = "decision" THEN "AWAITING_USER_DECISION"
  ELSE "UNSAFE_BLOCKED"

AfterAdmission(p, e) ==
  [p EXCEPT !.active = TRUE, !.attempts[e.stage] = e.attempt,
            !.spent[BudgetCounter(Stages[e.stage].kind)] = @ + 1]

AfterPass(p, e) ==
  [p EXCEPT !.artifact = @ \/ e.artifact,
            !.published = @ \union e.published,
            !.target = e.target,
            !.index = @ + 1,
            !.active = FALSE]

\* The projection after one more event that it accepts.
After(p, e) ==
  LET q == [p EXCEPT !.events = @ + 1] IN
  CASE e.type \in {"workflow_started", "workflow_resumed"} ->
         [q EXCEPT !.status = "RUNNING"]
    [] e.type = "target_observed" -> [q EXCEPT !.target = e.target]
    [] e.type = "stage_admitted" -> AfterAdmission(q, e)
    [] e.type \in {"stage_passed", "stage_reused"} -> AfterPass(q, e)
    [] e.type = "stage_paused" ->
         [q EXCEPT !.status = "PAUSED_EXTERNAL", !.active = FALSE]
    [] e.type = "stage_failed" ->
         [q EXCEPT !.status = AfterFailure(q, e), !.active = FALSE]
    [] e.type = "github_evidence" ->
         [q EXCEPT !.spent.github_comment = @ + 1, !.keys = @ \union {e.key}]
    [] e.type = "workflow_failed" -> [q EXCEPT !.status = "UNSAFE_BLOCKED"]
    [] e.type = "workflow_completed" -> [q EXCEPT !.status = "COMPLETED"]
=============================================================================
