---------------------------- MODULE Orchestrator ----------------------------
(***************************************************************************)
(* One piece of work under the orchestrator, from IDLE to a terminal       *)
(* state.  The owner comments approvals; observe reads them and the        *)
(* repository; the policy (ActionPolicy) admits or denies every move; an   *)
(* admitted start becomes a plan; processes execute plans over the ledger  *)
(* of the run (ActionLedger).                                              *)
(*                                                                         *)
(* Who puts these calls together is outside src/: here a host that records *)
(* what it was told, never names a resume state it has not reached, offers *)
(* as evidence only gates that ran, and otherwise asks for whatever it     *)
(* likes.  Denied, it stays where it is.                                   *)
(*                                                                         *)
(* The repository is one file: head is the version committed, worktree the *)
(* version on disk.  Versions count up.                                    *)
(*                                                                         *)
(* Bounds: MaxVersions, MaxComments, MaxRuns (observations), MaxMishaps    *)
(* (processes that die or overlap), Budget (what the approvals grant).     *)
(***************************************************************************)
EXTENDS ActionLedger, Integers, FiniteSets, SequencesExt

CONSTANTS MaxVersions, MaxComments,
          Budget,       \* counter -> how many starts it admits
          Waivable,     \* gates this work does not require
          None

ASSUME OrchestratorAssumption ==
  /\ {MaxVersions, MaxComments} \subseteq Nat
  /\ Budget \in [Counters -> Nat] /\ Waivable \subseteq Actions
  /\ None \notin Outcomes

VARIABLES head, worktree, newest,      \* newest: the last version made
          comments, observation, runs,
          state, resume, plan, result, \* what the host knows of this work
          account,                     \* per gate, how it was settled
          used, revision, evidence,    \* what it keeps from one work to the next
          pullRequest

repository == <<head, worktree, newest>>
hostVars   == <<state, resume, plan, result, account>>
keptVars   == <<used, revision, evidence>>
issueVars  == <<comments, observation, runs>>

Source == [head |-> head, modified |-> worktree # head]

vars == <<repository, issueVars, hostVars, keptVars, pullRequest, ledgerVars>>

Open == [a \in Actions |-> "open"]

Init ==
  /\ head = 0 /\ worktree = 0 /\ newest = 0
  /\ comments = <<>> /\ observation = None /\ runs = 0
  /\ state = "IDLE" /\ resume = None /\ plan = None /\ result = None
  /\ account = Open
  /\ used = [c \in Counters |-> 0] /\ revision = None /\ evidence = {}
  /\ pullRequest = FALSE
  /\ LedgerInit

-----------------------------------------------------------------------------
(* The owner and the repository.                                           *)

\* Someone writes the file, while an approval is awaited, a plan waits or a
\* gate has passed.
Edit ==
  /\ state \in AuthorizationStates \union {"CODEX_RUNNING", "ACTION_RUNNING", "FULL_PASS"}
  /\ newest < MaxVersions
  /\ newest' = newest + 1 /\ worktree' = newest'
  /\ UNCHANGED <<head, issueVars, hostVars, keptVars, pullRequest, ledgerVars>>

\* The owner approves what the work waits for, as the source is now, when the
\* last approval does not cover it.  A comment replaces the last one; after an
\* expired one it may also start anew.  A correction follows a change.
Approve(a) ==
  LET last == Len(comments)
      covered == last > 0 /\ comments[last].action = a /\ comments[last].source = Source
                 /\ ~comments[last].expired
  IN /\ last < MaxComments
     /\ state \in {"OBSERVING", "AWAITING_APPROVAL"}
     /\ ResumeState[a] = IF state = "OBSERVING" THEN "SCOPE_VALIDATED" ELSE resume
     /\ (a = "CORRECTION") = (a \in CodeActions /\ used["primary"] > 0)
     /\ ~covered
     /\ \E replaced \in {last} \union {c \in {0} : last > 0 /\ comments[last].expired} :
          comments' = Append(comments,
             [action |-> a, source |-> Source, head |-> head, replaces |-> replaced,
              expired |-> FALSE])
     /\ UNCHANGED <<repository, observation, runs, hostVars, keptVars, pullRequest,
                    ledgerVars>>

Expire(c) ==
  /\ ~comments[c].expired
  /\ state \in AuthorizationStates
  /\ comments' = [comments EXCEPT ![c].expired = TRUE]
  /\ UNCHANGED <<repository, observation, runs, hostVars, keptVars, pullRequest,
                 ledgerVars>>

-----------------------------------------------------------------------------
(* observe.                                                                *)

\* The approval that counts: comments are taken in order, expired ones left
\* out; one replaces the active one only by naming it.
Selected ==
  FoldLeftDomain(LAMBDA active, c :
      IF /\ ~comments[c].expired
         /\ comments[c].replaces = active
      THEN c ELSE active,
    0, comments)

\* Without an approval the work stays in OBSERVING; one that is about another
\* commit blocks it.
Observed(c) ==
  IF c = 0 THEN IF comments = <<>> THEN "OBSERVING" ELSE "PREFLIGHT_BLOCKED"
  ELSE IF comments[c].head = head THEN "SCOPE_VALIDATED" ELSE "PREFLIGHT_BLOCKED"

\* Every observation draws a new run, so a new ledger.
Observe ==
  /\ state \in {"OBSERVING", "AWAITING_APPROVAL"} /\ runs < MaxRuns
  /\ runs' = runs + 1
  /\ \E c \in 0..Len(comments) :
       /\ c = Selected
       /\ observation' = [run |-> runs', state |-> Observed(c), approval |-> c,
                          source |-> Source]
  /\ observation # None => [observation EXCEPT !.run = runs'] # observation'
  /\ state' = IF state = "OBSERVING" THEN observation'.state ELSE state
  /\ UNCHANGED <<repository, comments, resume, plan, result, account, keptVars,
                 pullRequest, ledgerVars>>

-----------------------------------------------------------------------------
(* The moves of the work, each admitted by the policy.                     *)

\* Is the approval on a ledger already?
Consumed(c) ==
  \E r \in Runs : \E i \in DOMAIN ledger[r] :
    ledger[r][i].kind = "admission" /\ ledger[r][i].plan.approval = c

\* What the host hands over of the approval its observation selected.
Authorization ==
  IF observation = None \/ observation.approval = 0 THEN [status |-> "missing"]
  ELSE LET c == observation.approval
       IN [status |-> "valid", action |-> comments[c].action, source |-> comments[c].source,
           expired |-> comments[c].expired, consumed |-> Consumed(c),
           superseded |-> FALSE]

Request(a, to, dispositions, retry) ==
  [from |-> state, to |-> to, action |-> a, resume |-> resume, source |-> Source,
   authorization |-> Authorization, dispositions |-> dispositions,
   evidence |-> evidence, used |-> used, revision |-> revision, retry |-> retry]

Nothing == [g \in {} |-> "not_required"]

\* Every way to leave the gates of this move out.
Dispositions(to) ==
  {d \in [SkippedGates(state, to) -> {"not_required", "reused"}] :
     \A g \in DOMAIN d : d[g] = "not_required" => g \in Waivable}

Settle(d) ==
  [g \in Actions |->
     IF g \in DOMAIN d THEN IF d[g] = "reused" THEN "reused" ELSE "waived"
     ELSE account[g]]

Begin ==
  /\ state = "IDLE" /\ state' = "OBSERVING"
  /\ UNCHANGED <<repository, issueVars, resume, plan, result, account, keptVars,
                 pullRequest, ledgerVars>>

\* A state where an approval may be asked for is the one to resume from.
Await(a) ==
  /\ resume' = state
  /\ MayAwait([Request(a, "AWAITING_APPROVAL", Nothing, FALSE) EXCEPT !.resume = state])
  /\ state' = "AWAITING_APPROVAL"
  /\ UNCHANGED <<repository, issueVars, plan, result, account, keptVars, pullRequest,
                 ledgerVars>>

Running == state \in {"CODEX_RUNNING", "ACTION_RUNNING"}

\* The moves that start nothing and judge no result: to the authorized state,
\* over a gate to the next, to RESULT_RECEIVED once there is one, to CANCELLED.
\* The action named after a gate is one whose resume state is still on record.
Move(a, to) ==
  /\ state \notin Terminal \union {"IDLE", "OBSERVING", "DETERMINISTIC_VALIDATION"}
  /\ to # RunningState(a)
  /\ to = "RESULT_RECEIVED" => result # None
  /\ \E d \in Dispositions(to) :
       /\ Allowed(Request(a, to, d, FALSE), Budget)
       /\ account' = Settle(d)
  /\ state' = to
  /\ UNCHANGED <<repository, issueVars, resume, plan, result, keptVars, pullRequest,
                 ledgerVars>>

\* A publish is planned, and launched, when no pull request of the branch is
\* open.
Publishable(a) == a = "PUBLISH" => ~pullRequest

\* The start of an action: admitted, counted, and made a plan, for which the
\* observation must be of this source.
Start(a, retry) ==
  LET q == Request(a, RunningState(a), Nothing, retry)
  IN /\ state \notin Terminal \union {"IDLE", "OBSERVING"}
     /\ Allowed(q, Budget)
     /\ observation # None
     /\ observation.state = "SCOPE_VALIDATED" /\ observation.source = Source
     /\ Publishable(a)
     /\ plan' = [run |-> observation.run, approval |-> observation.approval,
                 fingerprint |-> [action |-> a, source |-> Source]]
     /\ used' = [c \in Counters |-> used[c] + IF c \in Spent(q) THEN 1 ELSE 0]
     /\ revision' = IF a = "FULL_VALIDATION" THEN Source ELSE revision
     /\ state' = q.to
     /\ result' = None
     /\ UNCHANGED <<repository, issueVars, resume, account, evidence, pullRequest,
                    ledgerVars>>

\* Gates whose result a later work may offer as evidence.
Reusable == {"FULL_VALIDATION", "BUILD", "DEVICE", "PUBLISH"}

\* The verdict on the result.  The host keeps what the gate that ran showed.
Validate(a, to) ==
  LET ran == plan.fingerprint.action
  IN /\ state = "DETERMINISTIC_VALIDATION"
     /\ (result = "failed") = (to \in {"FAILED", "BLOCKED"})
     /\ Allowed(Request(a, to, Nothing, FALSE), Budget)
     /\ state' = to
     /\ account' = IF result = "ok" THEN [account EXCEPT ![ran] = "passed"] ELSE account
     /\ evidence' = IF ran \notin Reusable THEN evidence
          ELSE evidence \union
                 {[gate |-> ran, status |-> IF result = "ok" THEN "PASS" ELSE "FAIL",
                   source |-> plan.fingerprint.source]}
     /\ UNCHANGED <<repository, issueVars, resume, plan, result, used, revision,
                    pullRequest, ledgerVars>>

\* A new work, with what the host kept.
Restart ==
  /\ state \in {"FAILED", "CANCELLED"} /\ runs < MaxRuns
  /\ state' = "IDLE" /\ resume' = None /\ plan' = None /\ result' = None
  /\ account' = Open /\ observation' = None
  /\ UNCHANGED <<repository, comments, runs, keptVars, pullRequest, ledgerVars>>

-----------------------------------------------------------------------------
(* The processes.                                                          *)

workVars == <<issueVars, keptVars, state, resume, plan, account>>

\* execute compares the source once more.
Launch(p) ==
  /\ Running /\ plan # None /\ result = None
  /\ plan.fingerprint.source = Source
  /\ Publishable(plan.fingerprint.action)
  /\ Execute(p, plan)
  /\ UNCHANGED <<repository, workVars, result, pullRequest>>

\* What the command leaves behind, whatever its exit code says.
Effect(a) ==
  IF a \in CodeActions
  THEN newest < MaxVersions /\ newest' = newest + 1 /\ worktree' = newest' /\ UNCHANGED head
  ELSE a = "CHECKPOINT_COMMIT" /\ head' = worktree /\ UNCHANGED <<worktree, newest>>

Effective == CodeActions \union {"CHECKPOINT_COMMIT"}

Run(p) ==
  /\ \E verdict \in Verdicts :
       /\ Command(p, verdict)
       /\ LET a == proc[p].plan.fingerprint.action
          IN \/ verdict.begun /\ Effect(a)
             \/ (verdict.outcome = "ok" => a \notin Effective) /\ UNCHANGED repository
  /\ UNCHANGED <<workVars, result, pullRequest>>

\* The result is told.  After a successful push the draft is created, or not.
Tell(p) ==
  /\ Return(p)
  /\ IF plan.fingerprint.action = "PUBLISH" /\ proc[p].outcome = "ok"
     THEN /\ pullRequest' \in BOOLEAN
          /\ result' = IF pullRequest' THEN "ok" ELSE "failed"
     ELSE result' = proc[p].outcome /\ UNCHANGED pullRequest
  /\ UNCHANGED <<repository, workVars>>

Process(p) ==
  \/ Launch(p) \/ Run(p) \/ Tell(p)
  \/ /\ Verify(p) \/ Write(p) \/ Reverify(p) \/ Die(p)
     /\ UNCHANGED <<repository, workVars, result, pullRequest>>

\* The host and the owner wait for the processes that are under way; the file
\* may be written at any time.
Host ==
  \/ Begin \/ Observe \/ Restart
  \/ \E c \in DOMAIN comments : Expire(c)
  \/ \E a \in Actions : Approve(a) \/ Await(a)
  \/ \E a \in Actions, to \in Successors(state) : Move(a, to) \/ Validate(a, to)
  \/ \E a \in Actions, retry \in BOOLEAN : Start(a, retry)

Next ==
  \/ Edit
  \/ (\A p \in Procs : At(p, "idle")) /\ Host
  \/ \E p \in Procs : Process(p)

Spec == Init /\ [][Next]_vars

-----------------------------------------------------------------------------
Before ==
  [ CODE_CHANGE |-> {}, CORRECTION |-> {}, FULL_VALIDATION |-> {},
    CHECKPOINT_COMMIT |-> {"FULL_VALIDATION"},
    BUILD   |-> {"FULL_VALIDATION", "CHECKPOINT_COMMIT"},
    DEVICE  |-> {"FULL_VALIDATION", "CHECKPOINT_COMMIT", "BUILD"},
    PUBLISH |-> GenericActions \ {"PUBLISH"} ]

\* An action runs, and the work completes, only when every gate before was
\* passed, reused or declared not required, though AWAITING_APPROVAL does not
\* remember which gate it was entered from (policy.py, RESUME_STATE_FOR_ACTION).
GatesInOrder ==
  LET settled == {g \in Actions : account[g] # "open"}
  IN /\ state \in {"CODEX_RUNNING", "ACTION_RUNNING"} =>
          /\ Before[plan.fingerprint.action] \subseteq settled
          /\ plan.fingerprint.action \in CodeActions \/ CodeActions \cap settled # {}
     /\ state = "COMPLETED" =>
          GenericActions \subseteq settled /\ CodeActions \cap settled # {}

\* What counts as passed is a success on a ledger, of a command that was
\* approved by name on the source it was planned on (policy.py,
\* _validate_authorization; runner.py, execute).
PassesAreEarned ==
  \A g \in Actions : account[g] = "passed" =>
    \E r \in Runs : \E i \in DOMAIN ledger[r] :
      LET line == ledger[r][i]
      IN /\ line.kind = "result" /\ line.outcome = "ok"
         /\ line.plan.fingerprint.action = g
         /\ comments[line.plan.approval].action = g
         /\ comments[line.plan.approval].source = line.plan.fingerprint.source
=============================================================================
