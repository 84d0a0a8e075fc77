------------------------------ MODULE Workflow ------------------------------
(***************************************************************************)
(* The coordinator of a resumable workflow (tools/cse_orchestrator/        *)
(* workflow.py, WorkflowCoordinator and DefaultStageExecutor) over its     *)
(* store (workflow_store.py, WorkflowStore).                               *)
(*                                                                         *)
(* A process is one workflow-run command.  It holds nothing between two    *)
(* runs: all it knows is the ledger, the target worktree and what GitHub   *)
(* shows.  An append is read, write, cache; any number of processes may be *)
(* between two of these, since the lock of the store is one of threads.    *)
(* An exception ends the process, so Die stands for every one of them as   *)
(* well as for a kill.                                                     *)
(***************************************************************************)
EXTENDS WorkflowLedger

CONSTANTS
  Procs,        \* the processes that may run the workflow
  MaxFaults,    \* how many faults: a death, a torn line, a comment whose call is
                \* given up, a touch of the target or of the artifact
  MaxRuns,      \* how many runs are started
  MaxNow        \* the last moment of the clock

ASSUME Bounds == MaxFaults \in Nat /\ MaxRuns \in Nat /\ MaxNow \in Nat

VARIABLES
  manifest,   \* contract-v1.json: "absent", "torn", "whole"
  ledger,     \* the replay of workflow-v1.jsonl
  sound,      \* the chain of the ledger verifies
  cached,     \* the number of events projection-v1.json is the replay of
  target,     \* the target worktree
  artifact,   \* the artifact's file: "missing", "exact", "other"
  remote,     \* the head of the branch on origin, or "none"
  pr,         \* there is an open draft pull request
  comments,   \* how many comments of the issue carry each key
  inFlight,   \* keys of comments sent by a call that was given up
  now,        \* the clock authorizations expire by
  pc,         \* where each process is
  event,      \* the event each process appends
  seen,       \* the number of events each process has read for that
  next,       \* where each process goes after its append
  todo,       \* the keys each process has to emit
  then,       \* where each process goes after its emissions
  live,       \* the target as each process last observed it
  executed,   \* history: how often the action of each stage was carried out
  overlapped, \* history: two processes have run at once
  lost,       \* history: how often a comment of a key was given up
  touched,    \* history: the target was touched while a stage was under way
  spare       \* what is left of the bounds

store == <<manifest, ledger, sound, cached>>
world == <<target, artifact, remote, pr>>
github == <<comments, inFlight, lost>>
races == <<overlapped, touched>>
locals == <<pc, event, seen, next, todo, then, live>>
vars == <<store, world, github, now, locals, executed, races, spare>>

Keys == {"workflow_started", "workflow_resumed", "workflow_blocked",
         "workflow_paused", "workflow_completed"}
          \X {0} \union {"gate_pass"} \X StageIds
Key(name) == <<name, 0>>
GatePass(i) == <<"gate_pass", i>>

\* observe_target: branch, head and the paths that git status names.  The base
\* of another branch is the head the authorization names.
Targets == [on : {"work", "other"}, work : {"initial", "commit", "foreign"},
            dirty : SUBSET {"allowed", "outside"}, staged : BOOLEAN]
HeadOf(t) == IF t.on = "work" THEN t.work ELSE "initial"
Clean(t) == t.dirty = {} /\ ~t.staged
InScope(t) == "outside" \notin t.dirty
Initial == [on |-> "work", work |-> "initial", dirty |-> {}, staged |-> FALSE]

ASSUME NoTargetAssumption == NoTarget \notin Targets

NoEvent == [type |-> "none"]

Init ==
  /\ manifest = "absent" /\ ledger = NewProjection /\ sound = TRUE /\ cached = 0
  /\ target \in {Initial, [Initial EXCEPT !.on = "other"]}
  /\ artifact \in {"missing", "exact"}
  /\ remote = "none" /\ pr = FALSE
  /\ comments = [k \in Keys |-> 0] /\ inFlight = {}
  /\ now = 0
  /\ pc = [p \in Procs |-> "idle"]
  /\ event = [p \in Procs |-> NoEvent]
  /\ seen = [p \in Procs |-> 0]
  /\ next = [p \in Procs |-> "idle"]
  /\ todo = [p \in Procs |-> <<>>]
  /\ then = [p \in Procs |-> "idle"]
  /\ live = [p \in Procs |-> NoTarget]
  /\ executed = [i \in StageIds |-> 0]
  /\ overlapped = FALSE /\ touched = FALSE
  /\ lost = [k \in Keys |-> 0]
  /\ spare = [faults |-> MaxFaults, runs |-> MaxRuns]

Goto(p, place) == pc' = [pc EXCEPT ![p] = place]

\* The process ends: it has returned its projection, or an exception has left.
End(p) ==
  /\ Goto(p, "idle")
  /\ event' = [event EXCEPT ![p] = NoEvent]
  /\ seen' = [seen EXCEPT ![p] = 0]
  /\ next' = [next EXCEPT ![p] = "idle"]
  /\ todo' = [todo EXCEPT ![p] = <<>>]
  /\ then' = [then EXCEPT ![p] = "idle"]
  /\ live' = [live EXCEPT ![p] = NoTarget]

\* Where a finished append or emission goes on; a run that is over forgets all,
\* one that acts knows the stage it was admitted to.
Arrive(p, place) ==
  IF place = "idle" THEN End(p)
  ELSE /\ Goto(p, place)
       /\ event' = [event EXCEPT ![p] = IF place = "act" THEN @ ELSE NoEvent]
       /\ seen' = [seen EXCEPT ![p] = 0]
       /\ next' = [next EXCEPT ![p] = "idle"]

\* store.append(e), then go on at place.
AppendThen(p, e, place) ==
  /\ Goto(p, "append")
  /\ event' = [event EXCEPT ![p] = e]
  /\ next' = [next EXCEPT ![p] = place]
  /\ UNCHANGED seen

\* _emit for each key, then go on at place.
EmitThen(p, keys, place) ==
  /\ Goto(p, "emit")
  /\ todo' = [todo EXCEPT ![p] = keys]
  /\ then' = [then EXCEPT ![p] = place]
  /\ live' = [live EXCEPT ![p] = NoTarget]
  /\ UNCHANGED <<event, seen, next>>

\* verify(): the chain holds and the cache is the replay of all of it.
Verified == manifest = "whole" /\ sound /\ cached = ledger.events

(***************************************************************************)
(* WorkflowStore.append                                                    *)
(***************************************************************************)

\* verify(allow_projection_recovery=True), and the replay with the new event.
AppendRead(p) ==
  /\ pc[p] = "append"
  /\ IF manifest = "whole" /\ sound /\ Accepts(ledger, event[p])
     THEN /\ Goto(p, "write")
          /\ seen' = [seen EXCEPT ![p] = ledger.events]
          /\ cached' = ledger.events
          /\ UNCHANGED <<manifest, ledger, sound, event, next, todo, then, live>>
     ELSE End(p) /\ UNCHANGED store
  /\ UNCHANGED <<world, github, now, executed, races, spare>>

\* os.write of one line.  A line whose sequence number is taken breaks the chain.
AppendWrite(p) ==
  /\ pc[p] = "write"
  /\ IF seen[p] = ledger.events
     THEN ledger' = After(ledger, event[p]) /\ UNCHANGED sound
     ELSE sound' = FALSE /\ UNCHANGED ledger
  /\ Goto(p, "cache")
  /\ UNCHANGED <<manifest, cached, world, github, now, event, seen, next, todo,
                 then, live, executed, races, spare>>

\* A death in that call leaves a line without its newline.
AppendTorn(p) ==
  /\ pc[p] = "write"
  /\ spare.faults > 0
  /\ spare' = [spare EXCEPT !.faults = @ - 1]
  /\ sound' = FALSE
  /\ End(p)
  /\ UNCHANGED <<manifest, ledger, cached, world, github, now, executed,
                 races>>

\* Mutant: no verify() behind the write.
TrustingCache(p) ==
  /\ pc[p] = "cache"
  /\ cached' = seen[p] + 1
  /\ Arrive(p, next[p])
  /\ next[p] # "idle" => UNCHANGED <<todo, then, live>>
  /\ UNCHANGED <<manifest, ledger, sound, world, github, now, executed, races,
                 spare>>

\* _write_projection and the verify() behind it.
AppendCache(p) ==
  /\ pc[p] = "cache"
  /\ cached' = seen[p] + 1
  /\ IF sound /\ seen[p] + 1 = ledger.events
     THEN /\ Arrive(p, next[p])
          /\ next[p] # "idle" => UNCHANGED <<todo, then, live>>
     ELSE End(p)
  /\ UNCHANGED <<manifest, ledger, sound, world, github, now, executed,
                 races, spare>>

(***************************************************************************)
(* WorkflowCoordinator._emit and GhIssueEvidenceSink.emit                  *)
(***************************************************************************)

\* Mutant: A key the ledger has is skipped without going on to the next.
StuckEmit(p) ==
  /\ pc[p] = "emit"
  /\ IF ~Verified THEN End(p)
     ELSE IF todo[p] = <<>>
     THEN /\ Arrive(p, then[p])
          /\ then' = [then EXCEPT ![p] = "idle"]
          /\ then[p] # "idle" => UNCHANGED <<todo, live>>
     ELSE IF todo[p][1] \in ledger.keys THEN UNCHANGED locals
     ELSE IF ledger.spent.github_comment >= Budgets.github_comment THEN End(p)
     ELSE Goto(p, "look") /\ UNCHANGED <<event, seen, next, todo, then, live>>
  /\ UNCHANGED <<store, world, github, now, executed, races, spare>>

\* A key the ledger has is not emitted again; the budget may be used up.
Emit(p) ==
  /\ pc[p] = "emit"
  /\ IF ~Verified THEN End(p)
     ELSE IF todo[p] = <<>>
     THEN /\ Arrive(p, then[p])
          /\ then' = [then EXCEPT ![p] = "idle"]
          /\ then[p] # "idle" => UNCHANGED <<todo, live>>
     ELSE IF todo[p][1] \in ledger.keys
     THEN todo' = [todo EXCEPT ![p] = Tail(@)]
          /\ UNCHANGED <<pc, event, seen, next, then, live>>
     ELSE IF ledger.spent.github_comment >= Budgets.github_comment THEN End(p)
     ELSE Goto(p, "look") /\ UNCHANGED <<event, seen, next, todo, then, live>>
  /\ UNCHANGED <<store, world, github, now, executed, races, spare>>

\* Mutant: The comments are not read before one is posted.
BlindLook(p) ==
  /\ pc[p] = "look"
  /\ Goto(p, "post")
  /\ UNCHANGED <<store, world, github, now, event, seen, next, todo, then, live,
                 executed, races, spare>>

\* The comments of the issue are read before one is posted.
LookForComment(p) ==
  LET k == todo[p][1] IN
  /\ pc[p] = "look"
  /\ \/ comments[k] > 1 /\ End(p)
     \/ /\ comments[k] <= 1
        /\ Goto(p, IF comments[k] = 1 THEN "posted" ELSE "post")
        /\ UNCHANGED <<event, seen, next, todo, then, live>>
  /\ UNCHANGED <<store, world, github, now, executed, races, spare>>

PostComment(p) ==
  /\ pc[p] = "post"
  /\ comments' = [comments EXCEPT ![todo[p][1]] = @ + 1]
  /\ Goto(p, "posted")
  /\ UNCHANGED <<store, world, inFlight, lost, now, event, seen, next, todo,
                 then, live, executed, races, spare>>

\* Mutant: The exit code of the call is not looked at.
IgnoreLoss(p) ==
  /\ pc[p] = "post"
  /\ spare.faults > 0
  /\ spare' = [spare EXCEPT !.faults = @ - 1]
  /\ inFlight' = inFlight \union {todo[p][1]}
  /\ lost' = [lost EXCEPT ![todo[p][1]] = @ + 1]
  /\ Goto(p, "posted")
  /\ UNCHANGED <<store, world, comments, now, event, seen, next, todo, then, live,
                 executed, races>>

\* gh is given up, or outlives the process that started it; the comment lands.
LoseComment(p) ==
  /\ pc[p] = "post"
  /\ spare.faults > 0
  /\ spare' = [spare EXCEPT !.faults = @ - 1]
  /\ inFlight' = inFlight \union {todo[p][1]}
  /\ lost' = [lost EXCEPT ![todo[p][1]] = @ + 1]
  /\ End(p)
  /\ UNCHANGED <<store, world, comments, now, executed, races>>

CommentLands(k) ==
  /\ k \in inFlight
  /\ inFlight' = inFlight \ {k}
  /\ comments' = [comments EXCEPT ![k] = @ + 1]
  /\ UNCHANGED <<store, world, lost, now, locals, executed, races, spare>>

RecordComment(p) ==
  /\ pc[p] = "posted"
  /\ AppendThen(p, [type |-> "github_evidence", key |-> todo[p][1]], "emit")
  /\ todo' = [todo EXCEPT ![p] = Tail(@)]
  /\ UNCHANGED <<store, world, github, now, then, live, executed, races,
                 spare>>

(***************************************************************************)
(* WorkflowCoordinator.run, up to the loop                                 *)
(***************************************************************************)

\* workflow-run --execute with the authorization the comments give.
Enter(p) ==
  /\ pc[p] = "idle"
  /\ Select(now) = Mine
  /\ spare.runs > 0
  /\ spare' = [spare EXCEPT !.runs = @ - 1]
  /\ Goto(p, "prepare")
  /\ overlapped' = (overlapped \/ \E q \in Procs \ {p} : pc[q] # "idle")
  /\ UNCHANGED <<store, world, github, now, event, seen, next, todo, then,
                 live, executed, touched>>

\* prepare_target_branch, and the checkpoint of a workflow that is not begun.
Prepare(p) ==
  LET t == [target EXCEPT !.on = "work"] IN
  /\ pc[p] = "prepare"
  /\ IF /\ target.on = "work" \/ Clean(target)
        /\ manifest = "absent" => HeadOf(t) = "initial" /\ Clean(t)
     THEN /\ target' = t
          /\ live' = [live EXCEPT ![p] = t]
          /\ Goto(p, IF manifest = "absent" THEN "create" ELSE "start")
          /\ UNCHANGED <<event, seen, next, todo, then>>
     ELSE End(p) /\ target' = (IF target.on = "work" \/ Clean(target)
                               THEN t ELSE target)
  /\ UNCHANGED <<store, artifact, remote, pr, github, now, executed,
                 races, spare>>

\* ensure_contract: _write_exclusive makes the file and then fills it.
CreateManifest(p) ==
  /\ pc[p] = "create"
  /\ IF manifest = "absent"
     THEN /\ manifest' = "torn"
          /\ Goto(p, "fill")
          /\ UNCHANGED <<event, seen, next, todo, then, live>>
     ELSE End(p) /\ UNCHANGED manifest
  /\ UNCHANGED <<ledger, sound, cached, world, github, now, executed,
                 races, spare>>

FillManifest(p) ==
  /\ pc[p] = "fill"
  /\ manifest' = "whole"
  /\ Goto(p, "start")
  /\ UNCHANGED <<ledger, sound, cached, world, github, now, event, seen, next,
                 todo, then, live, executed, races, spare>>

\* WorkflowStore.start: a stale or missing cache is rebuilt here.
Start(p) ==
  /\ pc[p] = "start"
  /\ IF manifest # "whole" \/ ~sound THEN End(p) /\ UNCHANGED cached
     ELSE /\ cached' = ledger.events
          /\ IF ledger.events = 0
             THEN /\ AppendThen(p, [type |-> "workflow_started"], "started")
                  /\ UNCHANGED <<todo, then, live>>
             ELSE /\ Goto(p, "started")
                  /\ UNCHANGED <<event, seen, next, todo, then, live>>
  /\ UNCHANGED <<manifest, ledger, sound, world, github, now, executed,
                 races, spare>>

\* The checks behind start, with the observation made before it.
Started(p) ==
  /\ pc[p] = "started"
  /\ IF /\ live[p].on = "work"
        /\ ledger.target = NoTarget => live[p] = Initial
        /\ ledger.artifact => artifact = "exact"
     THEN EmitThen(p, <<Key("workflow_started")>>, "reconcile")
     ELSE End(p)
  /\ UNCHANGED <<store, world, github, now, executed, races, spare>>

\* _reconcile_evidence: what passed and is not recorded is emitted now.
Reconcile(p) ==
  LET passed == [i \in 1..(ledger.index - 1) |-> GatePass(i)]
      ended  == IF ledger.status = "COMPLETED"
                THEN <<Key("workflow_completed")>> ELSE <<>>
  IN
  /\ pc[p] = "reconcile"
  /\ IF Verified THEN EmitThen(p, passed \o ended, "decide") ELSE End(p)
  /\ UNCHANGED <<store, world, github, now, executed, races, spare>>

Waiting == ledger.status \in {"PAUSED_EXTERNAL", "RESUMABLE_FAILURE"}
Resumed == [type |-> "workflow_resumed", stage |-> ledger.index]
Unsafe(i) == [type |-> "stage_failed", stage |-> i, class |-> "unsafe",
              commanded |-> FALSE]

\* What the ledger and the target allow: nothing, the first observation, a
\* resumption, or the end of a workflow whose target has drifted.
Decide(p) ==
  /\ pc[p] = "decide"
  /\ IF ~Verified \/ ledger.status \in Stopped \/ ~InScope(target)
     THEN End(p)
     ELSE IF ledger.target = NoTarget
     THEN /\ AppendThen(p, [type |-> "target_observed", target |-> target],
                        "loop")
          /\ UNCHANGED <<todo, then, live>>
     ELSE IF ledger.target # target
     THEN /\ IF Waiting THEN AppendThen(p, Resumed, "drifted")
                        ELSE Goto(p, "drifted") /\ UNCHANGED <<event, seen, next>>
          /\ UNCHANGED <<todo, then, live>>
     ELSE IF Waiting
     THEN /\ AppendThen(p, Resumed, "emit")
          /\ todo' = [todo EXCEPT ![p] = <<Key("workflow_resumed")>>]
          /\ then' = [then EXCEPT ![p] = "loop"]
          /\ UNCHANGED live
     ELSE /\ Goto(p, "loop")
          /\ UNCHANGED <<event, seen, next, todo, then, live>>
  /\ UNCHANGED <<store, world, github, now, executed, races, spare>>

\* Behind the last stage there is none to fail: contract.stages[...] raises.
Drifted(p) ==
  /\ pc[p] = "drifted"
  /\ IF ledger.index > LastStage THEN End(p)
     ELSE /\ AppendThen(p, Unsafe(ledger.index), "emit")
          /\ todo' = [todo EXCEPT ![p] = <<Key("workflow_blocked")>>]
          /\ then' = [then EXCEPT ![p] = "idle"]
          /\ UNCHANGED live
  /\ UNCHANGED <<store, world, github, now, executed, races, spare>>

(***************************************************************************)
(* The loop                                                                *)
(***************************************************************************)

PublishComplete == Publishes => {"commit", "push", "pr"} \subseteq ledger.published

\* Behind the last stage the target has to be clean and the work published.
Complete(p) ==
  LET failed == [type |-> "workflow_failed"] IN
  /\ pc[p] = "loop" /\ Verified /\ ledger.index > LastStage
  /\ IF ledger.status # "RUNNING" \/ ~InScope(target) THEN End(p)
     ELSE IF ~Clean(target) \/ ~PublishComplete
     THEN AppendThen(p, failed, "idle") /\ UNCHANGED <<todo, then, live>>
     ELSE /\ AppendThen(p, [type |-> "workflow_completed"], "emit")
          /\ todo' = [todo EXCEPT ![p] = <<Key("workflow_completed")>>]
          /\ then' = [then EXCEPT ![p] = "idle"]
          /\ UNCHANGED live
  /\ UNCHANGED <<store, world, github, now, executed, races, spare>>

\* A ledger that does not verify, or a status another process has written.
Leave(p) ==
  /\ pc[p] = "loop"
  /\ ~Verified \/ (ledger.index <= LastStage /\ ledger.status # "RUNNING")
  /\ End(p)
  /\ UNCHANGED <<store, world, github, now, executed, races, spare>>

AtLoop(p) ==
  pc[p] = "loop" /\ Verified /\ ledger.index <= LastStage /\ ledger.status = "RUNNING"

\* The time of this run is over.
HardStop(p) ==
  /\ AtLoop(p)
  /\ AppendThen(p, Unsafe(ledger.index), "idle")
  /\ UNCHANGED <<store, world, github, now, todo, then, live, executed,
                 races, spare>>

\* The evidence of an earlier workflow is for the target as it was authorized.
ReuseMatches == target = Initial /\ Stages[ledger.index].reusable

\* Mutant: The turn with one of its checks left out: of drift, of the budget, or the
\* admission in front of the action.
TurnWithout(p, check) ==
  LET i == ledger.index
      c == BudgetCounter(Stages[i].kind)
      admit == [type |-> "stage_admitted", stage |-> i,
                attempt |-> ledger.attempts[i] + 1]
  IN
  /\ AtLoop(p)
  /\ IF check # "drift" /\ (~InScope(target) \/ ledger.target # target)
     THEN End(p)
     ELSE IF check # "budget" /\ ledger.spent[c] >= Budgets[c]
     THEN AppendThen(p, Unsafe(i), "idle") /\ UNCHANGED <<todo, then, live>>
     ELSE IF check = "admission"
     THEN Goto(p, "act") /\ event' = [event EXCEPT ![p] = admit]
                         /\ UNCHANGED <<seen, next, todo, then, live>>
     ELSE AppendThen(p, admit, "act") /\ UNCHANGED <<todo, then, live>>
  /\ UNCHANGED <<store, world, github, now, executed, races, spare>>
BlindTurn(p) == TurnWithout(p, "drift")
CarelessTurn(p) == TurnWithout(p, "budget")
HastyTurn(p) == TurnWithout(p, "admission")

\* One turn: a drifted target ends the run, evidence to reuse or a budget may
\* settle the stage without an action, and only then is an attempt admitted.
Turn(p) ==
  LET i == ledger.index
      c == BudgetCounter(Stages[i].kind)
      reuse == [type |-> "stage_reused", stage |-> i, target |-> target,
                artifact |-> Stages[i].kind = "artifact_verify",
                published |-> {}]
      admit == [type |-> "stage_admitted", stage |-> i,
                attempt |-> ledger.attempts[i] + 1]
  IN
  /\ AtLoop(p)
  /\ IF ~InScope(target) \/ ledger.target # target
     THEN End(p)
     ELSE IF i \in Reused /\ ReuseMatches
     THEN /\ AppendThen(p, reuse, "emit")
          /\ todo' = [todo EXCEPT ![p] = <<GatePass(i)>>]
          /\ then' = [then EXCEPT ![p] = "loop"]
          /\ UNCHANGED live
     ELSE IF i \in Reused \/ ledger.spent[c] >= Budgets[c]
     THEN AppendThen(p, Unsafe(i), "idle") /\ UNCHANGED <<todo, then, live>>
     ELSE AppendThen(p, admit, "act") /\ UNCHANGED <<todo, then, live>>
  /\ UNCHANGED <<store, world, github, now, executed, races, spare>>

(***************************************************************************)
(* DefaultStageExecutor: what an action does to the world and what it      *)
(* reports.  A call that fails may have done its work all the same.        *)
(***************************************************************************)
Passed(i, published) ==
  [type |-> "stage_passed", stage |-> i, artifact |-> FALSE,
   published |-> published, target |-> NoTarget]
Failed(i, class) ==
  IF class = "external" THEN [type |-> "stage_paused", stage |-> i]
  ELSE [type |-> "stage_failed", stage |-> i, class |-> class,
        commanded |-> TRUE]
StageFailed(i) == Failed(i, Stages[i].class)

\* The action of stage i is carried out and reports e.
Reports(p, i, e) ==
  /\ pc[p] = "act" /\ i = event[p].stage
  /\ event' = [event EXCEPT ![p] = e]
  /\ executed' = [executed EXCEPT ![i] = @ + 1]
  /\ Goto(p, "report")
  /\ UNCHANGED <<store, github, now, seen, next, todo, then, live, races,
                 spare>>

\* A command may write what the workflow may write, whether it succeeds or not.
ActCommand(p, i) ==
  /\ Stages[i].kind = "command"
  /\ \E e \in {Passed(i, {}), StageFailed(i)}, wrote \in SUBSET {"allowed"} :
       /\ Reports(p, i, e)
       /\ target' = [target EXCEPT !.dirty = @ \union wrote]
  /\ UNCHANGED <<artifact, remote, pr>>

ActArtifact(p, i) ==
  /\ Stages[i].kind = "artifact_verify"
  /\ Reports(p, i, CASE artifact = "missing" -> Failed(i, "external")
                     [] artifact = "other" -> Failed(i, "unsafe")
                     [] artifact = "exact" ->
                          [Passed(i, {}) EXCEPT !.artifact = TRUE])
  /\ UNCHANGED world

\* _commit: the commit this workflow made before is taken for its own.
ActCommit(p, i) ==
  /\ Stages[i].kind = "commit"
  /\ \/ /\ HeadOf(target) # "initial"
        /\ Reports(p, i, IF HeadOf(target) = "commit" THEN Passed(i, {"commit"})
                                                    ELSE Failed(i, "unsafe"))
        /\ UNCHANGED target
     \/ /\ HeadOf(target) = "initial"
        /\ target.dirty = {} \/ ~InScope(target) \/ target.staged
        /\ Reports(p, i, Failed(i, "unsafe"))
        /\ UNCHANGED target
     \/ /\ HeadOf(target) = "initial"
        /\ target.dirty # {} /\ InScope(target) /\ ~target.staged
        /\ \/ /\ \E e \in {Passed(i, {"commit"}), StageFailed(i)} :
                   Reports(p, i, e)
              /\ target' = [target EXCEPT !.work = "commit", !.dirty = {}]
           \/ /\ Reports(p, i, StageFailed(i))
              /\ \E s \in BOOLEAN : target' = [target EXCEPT !.staged = s]
  /\ UNCHANGED <<artifact, remote, pr>>

\* _push: a remote branch at the same head is reused, another one refused.
ActPush(p, i) ==
  /\ Stages[i].kind = "push"
  /\ IF remote # "none"
     THEN /\ Reports(p, i, IF remote = HeadOf(target) THEN Passed(i, {"push"})
                                                    ELSE Failed(i, "unsafe"))
          /\ UNCHANGED remote
     ELSE \/ /\ \E e \in {Passed(i, {"push"}), StageFailed(i)} : Reports(p, i, e)
             /\ remote' = HeadOf(target)
          \/ Reports(p, i, StageFailed(i)) /\ UNCHANGED remote
  /\ UNCHANGED <<target, artifact, pr>>

\* _draft_pr: the pull request that is open is reused.
ActDraftPr(p, i) ==
  /\ Stages[i].kind = "draft_pr"
  /\ IF pr THEN Reports(p, i, Passed(i, {"pr"})) /\ UNCHANGED pr
     ELSE \/ /\ \E e \in {Passed(i, {"pr"}), StageFailed(i)} : Reports(p, i, e)
             /\ pr' = TRUE
          \/ Reports(p, i, StageFailed(i)) /\ UNCHANGED pr
  /\ UNCHANGED <<target, artifact, remote>>

ActComment(p, i) ==
  /\ Stages[i].kind = "issue_comment"
  /\ Reports(p, i, Passed(i, {}))
  /\ UNCHANGED world

Act(p) ==
  \E i \in StageIds :
    ActCommand(p, i) \/ ActArtifact(p, i) \/ ActCommit(p, i) \/ ActPush(p, i)
      \/ ActDraftPr(p, i) \/ ActComment(p, i)

\* The result is recorded, of a success with the target as it is now, and told.
Report(p) ==
  LET e == event[p] IN
  /\ pc[p] = "report"
  /\ IF e.type = "stage_passed"
     THEN IF ~InScope(target) THEN End(p)
          ELSE /\ AppendThen(p, [e EXCEPT !.target = target], "emit")
               /\ todo' = [todo EXCEPT ![p] = <<GatePass(e.stage)>>]
               /\ then' = [then EXCEPT ![p] = "loop"]
               /\ UNCHANGED live
     ELSE AppendThen(p, e, "failed") /\ UNCHANGED <<todo, then, live>>
  /\ UNCHANGED <<store, world, github, now, executed, races, spare>>

\* A resumable failure is told as a blocked workflow, and tried again.
FailureRecorded(p) ==
  /\ pc[p] = "failed"
  /\ IF ~Verified THEN End(p)
     ELSE EmitThen(p, IF ledger.status = "PAUSED_EXTERNAL"
                      THEN <<Key("workflow_paused")>>
                      ELSE <<Key("workflow_blocked")>>,
                   IF ledger.status = "RESUMABLE_FAILURE"
                   THEN "again" ELSE "idle")
  /\ UNCHANGED <<store, world, github, now, executed, races, spare>>

TryAgain(p) ==
  /\ pc[p] = "again"
  /\ AppendThen(p, Resumed, "loop")
  /\ UNCHANGED <<store, world, github, now, todo, then, live, executed,
                 races, spare>>

(***************************************************************************)
(* The environment                                                         *)
(***************************************************************************)

\* The process is killed, or a call of it raises.
Die(p) ==
  /\ pc[p] # "idle"
  /\ spare.faults > 0
  /\ spare' = [spare EXCEPT !.faults = @ - 1]
  /\ End(p)
  /\ UNCHANGED <<store, world, github, now, executed, races>>

\* From the look at the target before an admission to the one after the action.
UnderWay(p) == pc[p] \in {"act", "report"} \/ event[p].type = "stage_admitted"

\* Somebody works in the target, or the artifact is built or replaced.
Drift ==
  /\ spare.faults > 0
  /\ spare' = [spare EXCEPT !.faults = @ - 1]
  /\ touched' = (touched \/ \E p \in Procs : UnderWay(p))
  /\ \/ \E t \in {[target EXCEPT !.dirty = {}, !.staged = FALSE],
                  [target EXCEPT !.dirty = @ \union {"allowed"}],
                  [target EXCEPT !.dirty = @ \union {"outside"}],
                  [target EXCEPT !.work = "foreign"]} :
          t # target /\ target' = t /\ UNCHANGED artifact
     \/ \E f \in {"missing", "exact", "other"} \ {artifact} :
          artifact' = f /\ UNCHANGED target
  /\ UNCHANGED <<store, remote, pr, github, now, locals, executed, overlapped>>

Tick ==
  /\ now < MaxNow
  /\ now' = now + 1
  /\ UNCHANGED <<store, world, github, locals, executed, races, spare>>

Step(p) ==
  \/ AppendRead(p) \/ AppendWrite(p) \/ AppendCache(p)
  \/ Emit(p) \/ LookForComment(p) \/ PostComment(p) \/ RecordComment(p)
  \/ Prepare(p) \/ CreateManifest(p) \/ FillManifest(p) \/ Start(p)
  \/ Started(p) \/ Reconcile(p) \/ Decide(p) \/ Drifted(p)
  \/ Complete(p) \/ Leave(p) \/ Turn(p) \/ Act(p) \/ Report(p)
  \/ FailureRecorded(p) \/ TryAgain(p)

Next ==
  \/ \E p \in Procs : \/ Step(p) \/ Enter(p) \/ HardStop(p)
                      \/ AppendTorn(p) \/ LoseComment(p) \/ Die(p)
  \/ \E k \in Keys : CommentLands(k)
  \/ Drift \/ Tick

Spec == Init /\ [][Next]_vars

\* Every call a run makes has a time limit; nobody has to start a run.
FairSpec == Spec /\ \A p \in Procs : WF_vars(Step(p))

(***************************************************************************)
(* Properties                                                              *)
(***************************************************************************)
TypeOK ==
  /\ manifest \in {"absent", "torn", "whole"}
  /\ ledger.status \in Statuses
  /\ ledger.index \in 1..(LastStage + 1)
  /\ ledger.target \in Targets \union {NoTarget}
  /\ sound \in BOOLEAN /\ cached \in Nat
  /\ target \in Targets
  /\ comments \in [Keys -> Nat]
  /\ executed \in [StageIds -> Nat]

\* However many processes run, at most one is inside an action: the losers of a
\* race for the ledger find the chain broken before they act.
OneActor == Cardinality({p \in Procs : pc[p] \in {"act", "report"}}) <= 1

\* Every action that is carried out was admitted first, in a line that is on
\* disk: no crash, race or retry makes the ledger count fewer than happened.
AttemptsCounted == \A i \in StageIds : executed[i] <= ledger.attempts[i]

\* A stage that has passed is never carried out again, and none is out of turn.
PassedNotRepeated ==
  [][\A i \in StageIds : executed'[i] # executed[i] => i = ledger.index]_vars

\* The budgets bound what is spent.  Two runs can spend one comment too many.
BudgetsHold ==
  \A c \in Counters :
    ledger.spent[c] <= Budgets[c] \/ (c = "github_comment" /\ overlapped)

\* A stage is repeated within its authorized number after a failure that may be
\* resumed, and after none other.  Beside it, an external failure pauses the
\* stage, as a missing artifact does whatever the class of its stage is: each
\* new run tries again, and only the budget of commands bounds that.
Attempts(i) ==
  IF Stages[i].class = "resumable" THEN Stages[i].retry + 1 ELSE 1
MayPause(i) ==
  Stages[i].class = "external" \/ Stages[i].kind = "artifact_verify"
RetriesBounded ==
  \A i \in StageIds : MayPause(i) \/ executed[i] <= Attempts(i)

\* The issue carries a key at most once, and once more for each comment that
\* was sent by a call that was given up.
EvidenceOnce ==
  overlapped \/ \A k \in Keys : comments[k] <= 1 + lost[k]

\* A workflow that is completed has published its own work and nobody else's, if
\* its runs followed each other: an observation of the target that another run
\* was late to write is accepted behind the commit.  The fingerprint taken after
\* an action covers what others did during it.
CompletedIsPublished ==
  ledger.status = "COMPLETED" /\ Publishes /\ ~overlapped /\ ~touched
    => remote = "commit" /\ pr /\ ledger.target.work = "commit"

\* What the ledger records as told, the issue shows, whichever run told it.
RecordedIsShown == \A k \in ledger.keys : comments[k] > 0

\* Every run ends.
RunsEnd == \A p \in Procs : pc[p] # "idle" ~> pc[p] = "idle"
=============================================================================
