----------------------------- MODULE MCWorkflow -----------------------------
(* Small contracts for Workflow. *)
EXTENDS Workflow, TLC

MCStage(name, kind, capability, retry, class) ==
  [name |-> name, kind |-> kind, capability |-> capability, retry |-> retry,
   reusable |-> kind = "command", class |-> class]

(* Build, verify the artifact, commit, push, open the pull request and tell. *)
MCStages ==
  <<MCStage("build", "command", "Code", 1, "resumable"),
    MCStage("artifact", "artifact_verify", "Code", 0, "external"),
    MCStage("commit", "commit", "Publish", 0, "unsafe"),
    MCStage("push", "push", "Publish", 2, "resumable"),
    MCStage("pr", "draft_pr", "Publish", 1, "resumable"),
    MCStage("tell", "issue_comment", "Publish", 0, "decision")>>

MCBudgets == [correction |-> 4, command |-> 4, commit |-> 1, push |-> 2,
              draft_pr |-> 2, github_comment |-> 9]

MCAuthorization(expires, supersedes) ==
  [stages |-> MCStages, budgets |-> MCBudgets, reused |-> {}, device |-> FALSE,
   artifact |-> TRUE, publish |-> TRUE, expires |-> expires,
   supersedes |-> supersedes]

(* The second comment supersedes the first and is the one the runs are for. *)
MCComments == <<MCAuthorization(2, 0), MCAuthorization(2, 1)>>

(* A contract that publishes nothing: a scan with evidence to reuse, and a   *)
(* command on the device that may be tried again.                            *)
RaceStages ==
  <<MCStage("scan", "command", "Code", 0, "unsafe"),
    MCStage("smoke", "command", "Device", 1, "resumable")>>

RaceBudgets == [correction |-> 1, command |-> 3, commit |-> 0, push |-> 0,
                draft_pr |-> 0, github_comment |-> 4]

RaceAuthorization(expires, supersedes) ==
  [stages |-> RaceStages, budgets |-> RaceBudgets, reused |-> {1},
   device |-> TRUE, artifact |-> TRUE, publish |-> FALSE, expires |-> expires,
   supersedes |-> supersedes]

(* The predecessor expires first, and takes its successor with it. *)
RaceComments == <<RaceAuthorization(1, 0), RaceAuthorization(2, 1)>>

(* The processes are alike. *)
Alike == Permutations(Procs)
=============================================================================
