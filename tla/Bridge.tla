-------------------------------- MODULE Bridge --------------------------------
(***************************************************************************)
(* The two local workers over one repository: invocations of the Codex     *)
(* loop and of the API bridge.  They share the issues, origin and nothing  *)
(* else: each kind has a clone and a directory of worktrees of its own.    *)
(***************************************************************************)
EXTENDS CodexLoop, ApiBridge

\* What a branch holds: the files, the worker that pushed it, what had passed.
Branches == [files : Files, by : Loops \cup Bridges,
             passed : SUBSET {"validations", "review"}]

ASSUME WorkersAssumption == Loops \cap Bridges = {} /\ None \notin Branches

vars == <<taskVars, loopVars, bridgeVars, approvals, mishaps>>

Init == TasksInit /\ LoopInit /\ BridgeInit

Dies ==
  /\ Mishap
  /\ \/ \E l \in Loops : LoopDies(l) /\ UNCHANGED bridgeVars
     \/ \E b \in Bridges : BridgeDies(b) /\ UNCHANGED loopVars
  /\ UNCHANGED approvals

OwnerApproves ==
  (\E t \in Tasks : Approve(t)) /\ UNCHANGED <<loopVars, bridgeVars>>

LoopRuns(l) == LoopStep(l) /\ UNCHANGED <<bridgeVars, approvals>>
BridgeRuns(b) == BridgeStep(b) /\ UNCHANGED <<loopVars, approvals>>

Next ==
  \/ \E l \in Loops : LoopRuns(l)
  \/ \E b \in Bridges : BridgeRuns(b)
  \/ OwnerApproves
  \/ Dies

\* The scheduler starts a worker again and again, and a worker that runs goes
\* on.
Spec ==
  /\ Init /\ [][Next]_vars
  /\ \A l \in Loops : WF_vars(LoopRuns(l))
  /\ \A b \in Bridges : WF_vars(BridgeRuns(b))

-----------------------------------------------------------------------------
(* Properties                                                              *)

\* What is on a branch of origin is inside the allowed paths, and since its
\* last change by a model it passed the validations and, from the loop, an
\* approving review: whatever the validations left behind, whoever died or
\* raced before (cse_codex_loop.py:954, cse_api_bridge.py:719).
PublishedWasChecked ==
  \A t \in Tasks : branch[t] # None =>
    /\ InScope(branch[t].files)
    /\ "validations" \in branch[t].passed
    /\ branch[t].by \in Loops => "review" \in branch[t].passed

\* A PASS on an issue is the word of the worker whose work is on the branch,
\* and its pull request is open: whatever replies were lost, and whichever
\* other worker took the same task (cse_codex_loop.py:1378 to 1398).
PassMeansPublished ==
  \A t \in Tasks : \A a \in answers[t] :
    a.says = "PASS" =>
      /\ branch[t] # None /\ branch[t].by = a.by
      /\ t \in pullRequest

\* A worktree goes only when it holds no work, or its work is on origin
\* (cse_codex_loop.py:1129, cse_bridge_local.py:255).
NoWorkIsLost ==
  [][/\ \A t \in loopTrees \ loopTrees' :
          \E l \in Loops :
            /\ loops[l].task = t
            /\ branch[t] # None /\ branch[t].by = l
            /\ branch[t].files = loops[l].files
     /\ \A t \in bridgeTrees \ bridgeTrees' :
          \E b \in Bridges :
            /\ bridges[b].task = t
            /\ \/ bridges[b].files = "base"
               \/ /\ branch[t] # None /\ branch[t].by = b
                  /\ branch[t].files = bridges[b].files]_vars

\* When every task has a proper body, again and again no handed task waits for
\* the loop: it never takes another task, answered, running or refused, in its
\* place for ever (cse_codex_loop.py:519).
HandoffsAreTakenUp ==
  WellFormed = Tasks => []<>(\A t \in Tasks : ~LocalGateReady(t))

\* docs/314_minimal_chatgpt_openai_api_bridge.md:82: a lock left by a dead
\* process is recovered automatically.
DeadLocksAreRecovered ==
  (lock # None /\ \A b \in Bridges : BridgeAt(b, "off")) ~> lock = None
=============================================================================
