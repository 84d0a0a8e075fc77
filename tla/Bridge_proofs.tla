---------------------------- MODULE Bridge_proofs ----------------------------
(***************************************************************************)
(* Proofs about Bridge: for any number of loops and bridges, tasks,        *)
(* approvals, failed calls and deaths, what is published was checked, a    *)
(* PASS is true, and no worktree goes that holds unpublished work.         *)
(*                                                                         *)
(* A worker remembers nothing of origin but the place it has come to, so   *)
(* the invariant says what each place means: what has passed before it,    *)
(* and what is on origin behind it.  Other workers do not disturb that,    *)
(* since a push never replaces a branch.                                   *)
(***************************************************************************)
EXTENDS Bridge, WellFoundedInduction, TLAPS

-----------------------------------------------------------------------------
(* The lowest task.                                                        *)

LEMMA LeastIsOne ==
  ASSUME NEW S \in SUBSET Nat, S # {}
  PROVE  Min(S) \in S
  <1> DEFINE R == OpToRel(<, Nat)
  <1>1. IsWellFoundedOn(R, Nat)
    BY NatLessThanWellFounded
  <1>2. R = {ss \in Nat \X Nat : ss[1] < ss[2]}
    BY Zenon DEF OpToRel
  <1> HIDE DEF R
  <1>3. \E x \in S : \A y \in S : ~ (<<y, x>> \in R)
    BY <1>1, WFMin
  <1>4. \A x, y \in S : <<y, x>> \in R <=> y < x
    BY <1>2
  <1>5. PICK x \in S : \A y \in S : ~ (<<y, x>> \in R)
    BY <1>3
  <1>6. \A y \in S : ~ (y < x)
    BY <1>4, <1>5
  <1>7. \A y \in S : x <= y
    BY <1>6
  <1> QED BY <1>7 DEF Min

\* What a worker selects is a task.
LEMMA SelectedIsTask ==
  /\ SelectLocalGateIssue # {} => Min(SelectLocalGateIssue) \in Tasks
  /\ SelectTask # {} => Min(SelectTask) \in Tasks
  <1>1. SelectLocalGateIssue \in SUBSET Nat /\ SelectTask \in SUBSET Nat
    BY TasksAssumption DEF SelectLocalGateIssue, SelectTask
  <1>2. SelectLocalGateIssue \subseteq Tasks /\ SelectTask \subseteq Tasks
    BY DEF SelectLocalGateIssue, SelectTask
  <1> QED BY <1>1, <1>2, LeastIsOne

-----------------------------------------------------------------------------
(* Types.                                                                  *)

Checks == {"validations", "review"}
Answers == [says : Terminals, by : Loops \cup Bridges \cup {None}]

LoopPlaces == {"off", "start", "worktree", "codex", "validate", "review", "publish",
               "pull request", "cleanup", "answer"}
BridgePlaces == {"off", "open again", "refused", "unlink", "owns", "locked", "unlock",
                 "worktree", "execute", "start", "branch", "model", "validate",
                 "publish", "pull request", "answer", "remove"}

LoopRecords == [at : LoopPlaces, task : Tasks \cup {None}, round : {1, 2},
              says : Terminals \cup {None}, files : Files \cup {None},
              passed : SUBSET Checks]
BridgeRecords == [at : BridgePlaces, task : Tasks \cup {None}, pass : {1, 2},
                says : Terminals \cup {None}, files : Files \cup {None},
                passed : SUBSET Checks]

TypeOK ==
  /\ answers \in [Tasks -> SUBSET Answers]
  /\ branch \in [Tasks -> Branches \cup {None}]
  /\ loops \in [Loops -> LoopRecords]
  /\ bridges \in [Bridges -> BridgeRecords]

\* A worker that is under way has a task.
HaveTasks ==
  /\ \A l \in Loops : loops[l].at # "off" => loops[l].task \in Tasks
  /\ \A b \in Bridges :
       bridges[b].at \notin {"off", "open again", "refused", "unlink", "owns", "locked",
                            "unlock"}
         => bridges[b].task \in Tasks

-----------------------------------------------------------------------------
(* The invariant.                                                          *)

\* Its work is on origin.
Pushed(worker, run) ==
  /\ branch[run.task] # None
  /\ branch[run.task].by = worker /\ branch[run.task].files = run.files

\* What the place of an invocation of the loop means.
LoopKnows(l) ==
  LET run == loops[l] IN
  /\ run.at \in {"review", "publish"} =>
       "validations" \in run.passed
  /\ run.at = "publish" => "review" \in run.passed
  /\ run.at \in {"pull request", "cleanup"} \/ (run.at = "answer" /\ run.says = "PASS")
       => Pushed(l, run)
  /\ run.at = "cleanup" \/ (run.at = "answer" /\ run.says = "PASS")
       => run.task \in pullRequest

\* And of a bridge: a worktree is removed after an answer, or as it was made.
BridgeKnows(b) ==
  LET run == bridges[b] IN
  /\ run.at = "publish" => "validations" \in run.passed
  /\ run.at = "execute" => run.files = "base"
  /\ run.at = "pull request" \/ (run.at = "answer" /\ run.says = "PASS")
       => Pushed(b, run)
  /\ run.at = "answer" /\ run.says = "PASS" => run.task \in pullRequest
  /\ run.at = "remove" => run.files = "base" \/ Pushed(b, run)

IInv ==
  /\ TypeOK /\ HaveTasks
  /\ \A l \in Loops : LoopKnows(l)
  /\ \A b \in Bridges : BridgeKnows(b)
  /\ PublishedWasChecked /\ PassMeansPublished

\* Origin only grows.
Grows ==
  /\ \A t \in Tasks : branch[t] # None => branch'[t] = branch[t]
  /\ pullRequest \subseteq pullRequest'

LEMMA OffRecords == LoopOff \in LoopRecords /\ BridgeOff \in BridgeRecords
  <1>1. LoopOff \in LoopRecords
    BY DEF LoopOff, LoopRecords, LoopPlaces
  <1>2. BridgeOff \in BridgeRecords
    BY DEF BridgeOff, BridgeRecords, BridgePlaces
  <1> QED BY <1>1, <1>2

LEMMA Starts == Init => IInv
  <1> SUFFICES ASSUME Init PROVE IInv
    OBVIOUS
  <1> USE DEF Init, TasksInit, LoopInit, BridgeInit
  <1>1. TypeOK
    <2>1. answers \in [Tasks -> SUBSET Answers] /\ branch \in [Tasks -> Branches \cup {None}]
      OBVIOUS
    <2>2. loops \in [Loops -> LoopRecords]
      BY OffRecords
    <2>3. bridges \in [Bridges -> BridgeRecords]
      BY OffRecords
    <2> QED BY <2>1, <2>2, <2>3 DEF TypeOK
  <1>2. HaveTasks /\ \A l \in Loops : LoopKnows(l)
    BY DEF HaveTasks, LoopKnows, LoopOff, BridgeOff
  <1>3. \A b \in Bridges : BridgeKnows(b)
    BY DEF BridgeKnows, BridgeOff
  <1>4. PublishedWasChecked /\ PassMeansPublished
    BY DEF PublishedWasChecked, PassMeansPublished
  <1> QED BY <1>1, <1>2, <1>3, <1>4 DEF IInv

\* What holds of a worker holds on while it waits and origin grows.
LEMMA WaitingKnows ==
  ASSUME IInv, Grows
  PROVE  /\ \A l \in Loops : loops'[l] = loops[l] => LoopKnows(l)'
         /\ \A b \in Bridges : bridges'[b] = bridges[b] => BridgeKnows(b)'
  <1>1. ASSUME NEW l \in Loops, loops'[l] = loops[l]
        PROVE  LoopKnows(l)'
    <2>1. LoopKnows(l) /\ (loops[l].at # "off" => loops[l].task \in Tasks)
      BY DEF IInv, HaveTasks
    <2> QED BY <1>1, <2>1 DEF LoopKnows, Pushed, Grows
  <1>2. ASSUME NEW b \in Bridges, bridges'[b] = bridges[b]
        PROVE  BridgeKnows(b)'
    <2>1. /\ BridgeKnows(b)
          /\ bridges[b].at \in {"pull request", "answer", "remove"}
               => bridges[b].task \in Tasks
      BY DEF IInv, HaveTasks
    <2> QED BY <1>2, <2>1 DEF BridgeKnows, Pushed, Grows
  <1> QED BY <1>1, <1>2

-----------------------------------------------------------------------------
(* The calls to GitHub and to origin.                                      *)

AnswersTyped == answers \in [Tasks -> SUBSET Answers]
BranchTyped  == branch \in [Tasks -> Branches \cup {None}]

\* A comment adds at most one answer, and none that was not given.
LEMMA PostAdds ==
  ASSUME AnswersTyped, NEW t \in Tasks, NEW says, NEW by \in Loops \cup Bridges \cup {None},
         Post(t, says, by)
  PROVE  /\ AnswersTyped'
         /\ \A u \in Tasks : \A a \in answers'[u] :
              \/ a \in answers[u]
              \/ u = t /\ a.says = says /\ (says = "PASS" => a.by = by)
  <1>1. CASE says \notin Terminals
    BY <1>1 DEF Post, AnswersTyped
  <1>2. CASE says \in Terminals
    <2> DEFINE answer == [says |-> says, by |-> IF says = "PASS" THEN by ELSE None]
    <2>1. answers' = [answers EXCEPT ![t] = @ \cup {answer}]
      BY <1>2 DEF Post
    <2>2. answer \in Answers
      BY <1>2 DEF Answers
    <2>3. answer.says = says /\ (says = "PASS" => answer.by = by)
      OBVIOUS
    <2> HIDE DEF answer
    <2> QED BY <2>1, <2>2, <2>3 DEF AnswersTyped
  <1> QED BY <1>1, <1>2

\* A push makes one branch and replaces none.
LEMMA PushAdds ==
  ASSUME BranchTyped, NEW t \in Tasks, NEW files \in Files, NEW by \in Loops \cup Bridges,
         NEW passed \in SUBSET Checks, Push(t, files, by, passed)
  PROVE  /\ BranchTyped'
         /\ \A u \in Tasks : u # t => branch'[u] = branch[u]
         /\ branch[t] = None /\ branch'[t] # None
         /\ branch'[t].files = files /\ branch'[t].by = by /\ branch'[t].passed = passed
  <1> DEFINE work == [files |-> files, by |-> by, passed |-> passed]
  <1>4. work \in Branches
    BY DEF Branches, Checks
  <1>1. work \in Branches /\ work # None
    BY <1>4, WorkersAssumption
  <1>2. work.files = files /\ work.by = by /\ work.passed = passed
    OBVIOUS
  <1>3. branch[t] = None /\ branch' = [branch EXCEPT ![t] = work]
    BY DEF Push
  <1> HIDE DEF work
  <1> QED BY <1>1, <1>2, <1>3 DEF BranchTyped

-----------------------------------------------------------------------------
(* The steps of a worker: what is left to show of each.                    *)

\* Every answer and every branch that is new is one that may be.
AnswersAreTrue ==
  \A t \in Tasks : \A a \in answers'[t] \ answers[t] :
    a.says = "PASS" => branch'[t] # None /\ branch'[t].by = a.by /\ t \in pullRequest'

BranchesAreChecked ==
  \A t \in Tasks : branch'[t] # branch[t] =>
    /\ InScope(branch'[t].files)
    /\ "validations" \in branch'[t].passed
    /\ branch'[t].by \in Loops => "review" \in branch'[t].passed

OriginKept ==
  AnswersTyped' /\ BranchTyped' /\ Grows /\ AnswersAreTrue /\ BranchesAreChecked

LEMMA NothingPosted ==
  ASSUME TypeOK, UNCHANGED <<answers, branch>>, pullRequest \subseteq pullRequest'
  PROVE  OriginKept
  BY DEF TypeOK, OriginKept, AnswersTyped, BranchTyped, Grows, AnswersAreTrue,
         BranchesAreChecked

LEMMA PostKeepsOrigin ==
  ASSUME TypeOK, NEW t \in Tasks, NEW says, NEW by \in Loops \cup Bridges \cup {None},
         Post(t, says, by), UNCHANGED originVars,
         says = "PASS" => branch[t] # None /\ branch[t].by = by /\ t \in pullRequest
  PROVE  OriginKept
  <1>1. AnswersTyped /\ BranchTyped
    BY DEF TypeOK, AnswersTyped, BranchTyped
  <1>2. branch' = branch /\ pullRequest' = pullRequest
    BY DEF originVars
  <1>3. AnswersAreTrue
    BY <1>1, <1>2, PostAdds DEF AnswersAreTrue
  <1> QED BY <1>1, <1>2, <1>3, PostAdds DEF OriginKept, Grows, BranchesAreChecked, BranchTyped

LEMMA PushKeepsOrigin ==
  ASSUME TypeOK, NEW t \in Tasks, NEW files \in Files, NEW by \in Loops \cup Bridges,
         NEW passed \in SUBSET Checks, Push(t, files, by, passed),
         UNCHANGED <<answers, pullRequest>>,
         InScope(files), "validations" \in passed, by \in Loops => "review" \in passed
  PROVE  OriginKept
  <1>1. AnswersTyped /\ BranchTyped
    BY DEF TypeOK, AnswersTyped, BranchTyped
  <1>2. Grows /\ BranchesAreChecked /\ BranchTyped'
    BY <1>1, PushAdds DEF Grows, BranchesAreChecked
  <1> QED BY <1>1, <1>2 DEF OriginKept, AnswersAreTrue, AnswersTyped

-----------------------------------------------------------------------------
(* What a worker writes down.                                              *)

LoopsTyped == loops \in [Loops -> LoopRecords]

\* Only this invocation moved, and what is known of it holds where it is now.
LoopGoesOn(l) ==
  /\ LoopsTyped'
  /\ \A k \in Loops \ {l} : loops'[k] = loops[k]
  /\ loops'[l].at # "off" => loops'[l].task \in Tasks
  /\ LoopKnows(l)'

\* Its record but for the task, which stays.
LoopBecomes(l, at, says, files, passed) ==
  /\ LoopsTyped' /\ \A k \in Loops \ {l} : loops'[k] = loops[k]
  /\ loops'[l].at = at /\ loops'[l].says = says
  /\ loops'[l].files = files /\ loops'[l].passed = passed
  /\ loops'[l].task = loops[l].task

LEMMA LoopRecordSet ==
  ASSUME TypeOK, NEW l \in Loops, NEW run \in LoopRecords,
         loops' = [loops EXCEPT ![l] = run]
  PROVE  LoopsTyped' /\ loops'[l] = run /\ \A k \in Loops \ {l} : loops'[k] = loops[k]
  BY DEF TypeOK, LoopsTyped

\* The four ways in which an invocation changes what it knows.
LEMMA LoopMoved ==
  ASSUME TypeOK, NEW l \in Loops, NEW at \in LoopPlaces, LoopMoves(l, at)
  PROVE  LoopBecomes(l, at, loops[l].says, loops[l].files, loops[l].passed)
  <1>0. loops[l] \in LoopRecords
    BY DEF TypeOK
  <1>1. [loops[l] EXCEPT !.at = at] \in LoopRecords
    BY <1>0 DEF LoopRecords
  <1>2. loops' = [loops EXCEPT ![l] = [loops[l] EXCEPT !.at = at]]
    BY DEF LoopMoves
  <1>3. /\ LoopsTyped' /\ loops'[l] = [loops[l] EXCEPT !.at = at]
        /\ \A k \in Loops \ {l} : loops'[k] = loops[k]
    BY <1>1, <1>2, LoopRecordSet
  <1> QED BY <1>0, <1>3 DEF LoopBecomes, LoopRecords

LEMMA LoopWritten ==
  ASSUME TypeOK, NEW l \in Loops, NEW at \in LoopPlaces, NEW files \in Files \cup {None},
         NEW passed \in SUBSET Checks, LoopWrites(l, files, passed, at)
  PROVE  LoopBecomes(l, at, loops[l].says, files, passed)
  <1> DEFINE run == [loops[l] EXCEPT !.at = at, !.files = files, !.passed = passed]
  <1>0. loops[l] \in LoopRecords
    BY DEF TypeOK
  <1>1. run \in LoopRecords
    BY <1>0 DEF LoopRecords
  <1>2. loops' = [loops EXCEPT ![l] = run]
    BY DEF LoopWrites
  <1>3. LoopsTyped' /\ loops'[l] = run /\ \A k \in Loops \ {l} : loops'[k] = loops[k]
    BY <1>1, <1>2, LoopRecordSet
  <1> QED BY <1>0, <1>3 DEF LoopBecomes, LoopRecords

LEMMA LoopSaid ==
  ASSUME TypeOK, NEW l \in Loops, NEW says \in Terminals, LoopSays(l, says)
  PROVE  LoopBecomes(l, "answer", says, loops[l].files, loops[l].passed)
  <1> DEFINE run == [loops[l] EXCEPT !.at = "answer", !.says = says]
  <1>0. loops[l] \in LoopRecords /\ "answer" \in LoopPlaces
    BY DEF TypeOK, LoopPlaces
  <1>1. run \in LoopRecords
    BY <1>0 DEF LoopRecords
  <1>2. loops' = [loops EXCEPT ![l] = run]
    BY DEF LoopSays
  <1>3. LoopsTyped' /\ loops'[l] = run /\ \A k \in Loops \ {l} : loops'[k] = loops[k]
    BY <1>1, <1>2, LoopRecordSet
  <1> QED BY <1>0, <1>3 DEF LoopBecomes, LoopRecords

LEMMA LoopEnded ==
  ASSUME TypeOK, NEW l \in Loops, LoopEnds(l)
  PROVE  LoopGoesOn(l)
  <1>1. LoopsTyped' /\ loops'[l] = LoopOff /\ \A k \in Loops \ {l} : loops'[k] = loops[k]
    BY OffRecords, LoopRecordSet DEF LoopEnds
  <1> QED BY <1>1 DEF LoopGoesOn, LoopKnows, LoopOff

\* An answer that claims nothing needs nothing.
LEMMA LoopSaidNo ==
  ASSUME TypeOK, HaveTasks, NEW l \in Loops, loops[l].at # "off",
         NEW says \in {"FAILED", "NEEDS_HUMAN"}, LoopSays(l, says)
  PROVE  LoopGoesOn(l)
  <1>1. LoopBecomes(l, "answer", says, loops[l].files, loops[l].passed)
    BY LoopSaid DEF Terminals
  <1>2. loops[l].task \in Tasks
    BY DEF HaveTasks
  <1> QED BY <1>1, <1>2 DEF LoopBecomes, LoopGoesOn, LoopKnows

-----------------------------------------------------------------------------
(* The steps of the loop.                                                  *)

LEMMA LoopRunsOn ==
  ASSUME IInv, NEW l \in Loops, LoopRuns(l)
  PROVE  OriginKept /\ LoopGoesOn(l)
  <1> DEFINE run == loops[l]
  <1>1. /\ TypeOK /\ HaveTasks /\ run \in LoopRecords /\ LoopKnows(l)
        /\ run.at # "off" => run.task \in Tasks
    BY DEF IInv, TypeOK, HaveTasks
  <1>2. UNCHANGED taskVars => OriginKept
    BY <1>1, NothingPosted DEF taskVars, originVars
  <1>3. {"start", "worktree", "codex", "validate", "review", "publish", "pull request",
         "cleanup", "answer"} \subseteq LoopPlaces
    BY DEF LoopPlaces
  <1>4. \A says \in {"FAILED", "NEEDS_HUMAN"} :
          run.at # "off" /\ LoopSays(l, says) => LoopGoesOn(l)
    BY <1>1, LoopSaidNo
  <1>5. CASE LoopSelects(l)
    <2> DEFINE t == Min(SelectLocalGateIssue)
               new == [run EXCEPT !.at = "start", !.task = t]
    <2>1. t \in Tasks /\ UNCHANGED taskVars
      BY <1>5, SelectedIsTask DEF LoopSelects
    <2>2. loops' = [loops EXCEPT ![l] = new]
      BY <1>5 DEF LoopSelects
    <2> HIDE DEF t
    <2>3. new \in LoopRecords /\ new.at = "start" /\ new.task \in Tasks
      BY <1>1, <1>3, <2>1 DEF LoopRecords
    <2> HIDE DEF new
    <2>4. LoopsTyped' /\ loops'[l] = new /\ \A k \in Loops \ {l} : loops'[k] = loops[k]
      BY <1>1, <2>2, <2>3, LoopRecordSet
    <2> QED BY <1>2, <2>1, <2>3, <2>4 DEF LoopGoesOn, LoopKnows
  <1>6. CASE LoopStarts(l)
    <2>1. OriginKept
      BY <1>1, <1>6, PostKeepsOrigin DEF LoopStarts, LoopAt
    <2>2. LoopGoesOn(l)
      BY <1>1, <1>3, <1>6, LoopMoved DEF LoopStarts, LoopAt, LoopBecomes, LoopGoesOn,
         LoopKnows
    <2> QED BY <2>1, <2>2
  <1>7. CASE CreateWorktree(l)
    <2>1. CASE LoopWrites(l, "base", {}, "codex")
      <3>1. LoopBecomes(l, "codex", run.says, "base", {})
        BY <1>1, <1>3, <2>1, LoopWritten DEF Files
      <3> QED BY <1>1, <1>2, <1>7, <3>1
              DEF CreateWorktree, LoopAt, LoopBecomes, LoopGoesOn, LoopKnows
    <2> QED BY <1>1, <1>2, <1>4, <1>7, <2>1 DEF CreateWorktree, LoopAt
  <1>8. CASE RunCodexPass(l)
    <2>1. PICK files \in Files : LoopWrites(l, files, {}, "validate")
      BY <1>8 DEF RunCodexPass
    <2>2. LoopBecomes(l, "validate", run.says, files, {})
      BY <1>1, <1>3, <2>1, LoopWritten
    <2> QED BY <1>1, <1>2, <1>8, <2>2
            DEF RunCodexPass, LoopAt, LoopBecomes, LoopGoesOn, LoopKnows
  <1>9. CASE RunValidations(l)
    <2>1. ASSUME NEW files \in {"inside", "outside"},
                 LoopWrites(l, files, {"validations"}, "review")
          PROVE  LoopGoesOn(l)
      <3>1. files \in Files /\ {"validations"} \subseteq Checks
        BY DEF Files, Checks
      <3>2. LoopBecomes(l, "review", run.says, files, {"validations"})
        BY <1>1, <1>3, <2>1, <3>1, LoopWritten
      <3> QED BY <1>1, <1>9, <3>2
              DEF RunValidations, LoopAt, LoopBecomes, LoopGoesOn, LoopKnows
    <2> QED BY <1>1, <1>2, <1>4, <1>9, <2>1 DEF RunValidations, LoopAt
  <1>10. CASE RunReview(l)
    <2>1. CASE LoopApproved(l)
      <3>1. run.passed \cup {"review"} \in SUBSET Checks /\ run.files \in Files \cup {None}
        BY <1>1 DEF LoopRecords, Checks
      <3>2. LoopBecomes(l, "publish", run.says, run.files, run.passed \cup {"review"})
        BY <1>1, <1>3, <2>1, <3>1, LoopWritten DEF LoopApproved
      <3> QED BY <1>1, <1>2, <1>10, <3>2
              DEF RunReview, LoopAt, LoopBecomes, LoopGoesOn, LoopKnows
    <2>2. CASE loops' = [loops EXCEPT ![l].at = "codex", ![l].round = 2]
      <3> DEFINE new == [run EXCEPT !.at = "codex", !.round = 2]
      <3>1. new \in LoopRecords /\ new.at = "codex" /\ new.task = run.task
        BY <1>1, <1>3 DEF LoopRecords
      <3>2. loops' = [loops EXCEPT ![l] = new]
        BY <2>2
      <3> HIDE DEF new
      <3>3. LoopsTyped' /\ loops'[l] = new /\ \A k \in Loops \ {l} : loops'[k] = loops[k]
        BY <1>1, <3>1, <3>2, LoopRecordSet
      <3> QED BY <1>1, <1>2, <1>10, <3>1, <3>3
              DEF RunReview, LoopAt, LoopGoesOn, LoopKnows
    <2> QED BY <1>1, <1>2, <1>4, <1>10, <2>1, <2>2 DEF RunReview, LoopAt
  <1>11. ASSUME LoopAt(l, "publish"), InScope(run.files), PushLoopTree(l),
                UNCHANGED <<answers, pullRequest>>
         PROVE  /\ OriginKept
                /\ branch'[run.task] # None /\ branch'[run.task].by = l
                /\ branch'[run.task].files = run.files
    <2>1. /\ run.task \in Tasks /\ run.files \in Files /\ run.passed \in SUBSET Checks
          /\ {"validations", "review"} \subseteq run.passed /\ BranchTyped
      BY <1>1, <1>11 DEF LoopAt, LoopKnows, LoopRecords, InScope, Files, TypeOK, BranchTyped
    <2>2. Push(run.task, run.files, l, run.passed)
      BY <1>11 DEF PushLoopTree
    <2>3. OriginKept
      BY <1>1, <1>11, <2>1, <2>2, PushKeepsOrigin
    <2> QED BY <2>1, <2>2, <2>3, PushAdds
  <1>12. CASE LoopPublishes(l)
    <2>1. CASE PushLoopTree(l) /\ InScope(run.files) /\ LoopMoves(l, "pull request")
      <3>1. /\ OriginKept /\ branch'[run.task] # None /\ branch'[run.task].by = l
            /\ branch'[run.task].files = run.files
        BY <1>11, <1>12, <2>1 DEF LoopPublishes
      <3>2. LoopBecomes(l, "pull request", run.says, run.files, run.passed)
        BY <1>1, <1>3, <2>1, LoopMoved
      <3> QED BY <1>1, <1>12, <3>1, <3>2
              DEF LoopPublishes, LoopAt, LoopBecomes, LoopGoesOn, LoopKnows, Pushed
    <2>2. CASE LoopSays(l, "FAILED") /\ UNCHANGED branch
      BY <1>1, <1>2, <1>4, <1>12, <2>2 DEF LoopPublishes, LoopAt, taskVars, originVars
    <2> QED BY <1>12, <2>1, <2>2 DEF LoopPublishes
  <1>13. CASE LoopOpensPr(l)
    <2>1. /\ OriginKept /\ branch' = branch /\ run.task \in pullRequest' /\ Pushed(l, run)
      BY <1>1, <1>13, NothingPosted DEF LoopOpensPr, CreateDraftPr, LoopAt, LoopKnows
    <2>2. LoopBecomes(l, "cleanup", run.says, run.files, run.passed)
      BY <1>1, <1>3, <1>13, LoopMoved DEF LoopOpensPr
    <2> QED BY <1>1, <1>13, <2>1, <2>2
            DEF LoopOpensPr, LoopAt, LoopBecomes, LoopGoesOn, LoopKnows, Pushed
  <1>14. CASE RemoveSuccessfulWorktree(l)
    <2>1. LoopBecomes(l, "answer", "PASS", run.files, run.passed)
      BY <1>1, <1>14, LoopSaid DEF RemoveSuccessfulWorktree, Terminals
    <2>2. UNCHANGED <<branch, pullRequest>> /\ OriginKept
      BY <1>2, <1>14 DEF RemoveSuccessfulWorktree, taskVars, originVars
    <2>3. run.task \in Tasks /\ Pushed(l, run) /\ run.task \in pullRequest
      BY <1>1, <1>14 DEF RemoveSuccessfulWorktree, LoopAt, LoopKnows
    <2> QED BY <2>1, <2>2, <2>3 DEF LoopBecomes, LoopGoesOn, LoopKnows, Pushed
  <1>15. CASE LoopAnswers(l)
    <2>1. run.task \in Tasks /\ (run.says = "PASS" => Pushed(l, run) /\ run.task \in pullRequest)
      BY <1>1, <1>15 DEF LoopAnswers, LoopAt, LoopKnows
    <2>2. OriginKept
      BY <1>1, <1>15, <2>1, PostKeepsOrigin DEF LoopAnswers, Pushed
    <2> QED BY <1>1, <1>15, <2>2, LoopEnded DEF LoopAnswers
  <1>16. CASE LoopCommentFails(l)
    <2> DEFINE says == IF LoopAt(l, "start") THEN "RUNNING" ELSE run.says
    <2>1. /\ run.task \in Tasks /\ UNCHANGED originVars
          /\ says = "PASS" => Pushed(l, run) /\ run.task \in pullRequest
      BY <1>1, <1>16 DEF LoopCommentFails, LoopAt, LoopKnows
    <2>2. Post(run.task, says, l) \/ UNCHANGED <<newest, answers>>
      BY <1>16 DEF LoopCommentFails
    <2> HIDE DEF says
    <2>3. OriginKept
      <3>1. CASE Post(run.task, says, l)
        BY <1>1, <2>1, <3>1, PostKeepsOrigin DEF Pushed
      <3>2. CASE UNCHANGED <<newest, answers>>
        BY <1>1, <2>1, <3>2, NothingPosted DEF originVars
      <3> QED BY <2>2, <3>1, <3>2
    <2>4. LoopGoesOn(l)
      BY <1>1, <1>4, <1>16, LoopEnded DEF LoopCommentFails, LoopAt
    <2> QED BY <2>3, <2>4
  <1>17. CASE LoopFails(l)
    <2>1. LoopGoesOn(l)
      BY <1>1, <1>4, <1>17 DEF LoopFails
    <2>2. OriginKept
      <3>1. UNCHANGED answers /\ pullRequest \subseteq pullRequest'
        BY <1>17 DEF LoopFails, CreateDraftPr
      <3>2. CASE LoopAt(l, "publish") /\ InScope(run.files) /\ PushLoopTree(l)
        <4>1. UNCHANGED pullRequest
          BY <1>17, <3>2 DEF LoopFails, LoopAt
        <4> QED BY <1>11, <3>1, <3>2, <4>1
      <3>3. CASE UNCHANGED branch
        BY <1>1, <3>1, <3>3, NothingPosted
      <3> QED BY <1>17, <3>2, <3>3 DEF LoopFails
    <2> QED BY <2>1, <2>2
  <1> QED BY <1>5, <1>6, <1>7, <1>8, <1>9, <1>10, <1>12, <1>13, <1>14, <1>15, <1>16, <1>17
          DEF LoopRuns, LoopStep

-----------------------------------------------------------------------------
(* The same of a bridge.                                                   *)

BridgesTyped == bridges \in [Bridges -> BridgeRecords]

\* Where a bridge has not taken a task, or is done with it.
Idle == {"off", "open again", "refused", "unlink", "owns", "locked", "unlock"}

BridgeGoesOn(b) ==
  /\ BridgesTyped'
  /\ \A c \in Bridges \ {b} : bridges'[c] = bridges[c]
  /\ bridges'[b].at \notin Idle => bridges'[b].task \in Tasks
  /\ BridgeKnows(b)'

\* Its record but for the task, which stays.
BridgeBecomes(b, at, says, files, passed) ==
  /\ BridgesTyped' /\ \A c \in Bridges \ {b} : bridges'[c] = bridges[c]
  /\ bridges'[b].at = at /\ bridges'[b].says = says
  /\ bridges'[b].files = files /\ bridges'[b].passed = passed
  /\ bridges'[b].task = bridges[b].task

LEMMA BridgeRecordSet ==
  ASSUME TypeOK, NEW b \in Bridges, NEW run \in BridgeRecords,
         bridges' = [bridges EXCEPT ![b] = run]
  PROVE  BridgesTyped' /\ bridges'[b] = run /\ \A c \in Bridges \ {b} : bridges'[c] = bridges[c]
  BY DEF TypeOK, BridgesTyped

LEMMA BridgeMoved ==
  ASSUME TypeOK, NEW b \in Bridges, NEW at \in BridgePlaces, BridgeMoves(b, at)
  PROVE  BridgeBecomes(b, at, bridges[b].says, bridges[b].files, bridges[b].passed)
  <1> DEFINE run == [bridges[b] EXCEPT !.at = at]
  <1>0. bridges[b] \in BridgeRecords
    BY DEF TypeOK
  <1>1. run \in BridgeRecords
    BY <1>0 DEF BridgeRecords
  <1>2. bridges' = [bridges EXCEPT ![b] = run]
    BY DEF BridgeMoves
  <1>3. BridgesTyped' /\ bridges'[b] = run /\ \A c \in Bridges \ {b} : bridges'[c] = bridges[c]
    BY <1>1, <1>2, BridgeRecordSet
  <1> QED BY <1>0, <1>3 DEF BridgeBecomes, BridgeRecords

\* The pass is counted, and the files are those that were found.
LEMMA BridgeCounted ==
  ASSUME TypeOK, NEW b \in Bridges, NEW at \in BridgePlaces, NEW pass \in {1, 2},
         NEW files \in Files \cup {None},
         bridges' = [bridges EXCEPT ![b] =
                       [bridges[b] EXCEPT !.at = at, !.pass = pass, !.files = files]]
  PROVE  BridgeBecomes(b, at, bridges[b].says, files, bridges[b].passed)
  <1> DEFINE run == [bridges[b] EXCEPT !.at = at, !.pass = pass, !.files = files]
  <1>0. bridges[b] \in BridgeRecords
    BY DEF TypeOK
  <1>1. run \in BridgeRecords
    BY <1>0 DEF BridgeRecords
  <1>2. bridges' = [bridges EXCEPT ![b] = run]
    OBVIOUS
  <1>3. BridgesTyped' /\ bridges'[b] = run /\ \A c \in Bridges \ {b} : bridges'[c] = bridges[c]
    BY <1>1, <1>2, BridgeRecordSet
  <1>4. /\ run.at = at /\ run.files = files /\ run.says = bridges[b].says
        /\ run.passed = bridges[b].passed /\ run.task = bridges[b].task
    BY <1>0 DEF BridgeRecords
  <1> HIDE DEF run
  <1> QED BY <1>3, <1>4 DEF BridgeBecomes

LEMMA BridgeWritten ==
  ASSUME TypeOK, NEW b \in Bridges, NEW at \in BridgePlaces, NEW files \in Files \cup {None},
         NEW passed \in SUBSET Checks, BridgeWrites(b, files, passed, at)
  PROVE  BridgeBecomes(b, at, bridges[b].says, files, passed)
  <1> DEFINE run == [bridges[b] EXCEPT !.at = at, !.files = files, !.passed = passed]
  <1>0. bridges[b] \in BridgeRecords
    BY DEF TypeOK
  <1>1. run \in BridgeRecords
    BY <1>0 DEF BridgeRecords
  <1>2. bridges' = [bridges EXCEPT ![b] = run]
    BY DEF BridgeWrites
  <1>3. BridgesTyped' /\ bridges'[b] = run /\ \A c \in Bridges \ {b} : bridges'[c] = bridges[c]
    BY <1>1, <1>2, BridgeRecordSet
  <1> QED BY <1>0, <1>3 DEF BridgeBecomes, BridgeRecords

LEMMA BridgeSaid ==
  ASSUME TypeOK, NEW b \in Bridges, NEW says \in Terminals, BridgeSays(b, says)
  PROVE  BridgeBecomes(b, "answer", says, bridges[b].files, bridges[b].passed)
  <1> DEFINE run == [bridges[b] EXCEPT !.at = "answer", !.says = says]
  <1>0. bridges[b] \in BridgeRecords /\ "answer" \in BridgePlaces
    BY DEF TypeOK, BridgePlaces
  <1>1. run \in BridgeRecords
    BY <1>0 DEF BridgeRecords
  <1>2. bridges' = [bridges EXCEPT ![b] = run]
    BY DEF BridgeSays
  <1>3. BridgesTyped' /\ bridges'[b] = run /\ \A c \in Bridges \ {b} : bridges'[c] = bridges[c]
    BY <1>1, <1>2, BridgeRecordSet
  <1> QED BY <1>0, <1>3 DEF BridgeBecomes, BridgeRecords

LEMMA BridgeEnded ==
  ASSUME TypeOK, NEW b \in Bridges, BridgeEnds(b)
  PROVE  BridgeGoesOn(b)
  <1>1. /\ BridgesTyped' /\ bridges'[b] = BridgeOff
        /\ \A c \in Bridges \ {b} : bridges'[c] = bridges[c]
    BY OffRecords, BridgeRecordSet DEF BridgeEnds
  <1> QED BY <1>1 DEF BridgeGoesOn, BridgeKnows, BridgeOff, Idle

\* Without a task nothing has to hold.
LEMMA BridgeIdles ==
  ASSUME TypeOK, NEW b \in Bridges, NEW at \in Idle, NEW says, NEW files, NEW passed,
         BridgeBecomes(b, at, says, files, passed)
  PROVE  BridgeGoesOn(b)
  BY DEF BridgeBecomes, BridgeGoesOn, BridgeKnows, Idle

LEMMA BridgeMovesIdle ==
  ASSUME TypeOK, NEW b \in Bridges, NEW at \in Idle, BridgeMoves(b, at)
  PROVE  BridgeGoesOn(b)
  <1>1. at \in BridgePlaces
    BY DEF BridgePlaces, Idle
  <1> QED BY <1>1, BridgeMoved, BridgeIdles

-----------------------------------------------------------------------------
(* The steps of a bridge.                                                  *)

LEMMA BridgeRunsOn ==
  ASSUME IInv, NEW b \in Bridges, BridgeRuns(b)
  PROVE  OriginKept /\ BridgeGoesOn(b)
  <1> DEFINE run == bridges[b]
  <1>1. /\ TypeOK /\ HaveTasks /\ run \in BridgeRecords /\ BridgeKnows(b)
        /\ run.at \notin Idle => run.task \in Tasks
    BY DEF IInv, TypeOK, HaveTasks, Idle
  <1>2. UNCHANGED taskVars => OriginKept
    BY <1>1, NothingPosted DEF taskVars, originVars
  <1>3. {"refused", "locked", "worktree", "execute", "start", "branch", "model", "validate",
         "publish", "pull request", "answer", "remove"} \subseteq BridgePlaces
    BY DEF BridgePlaces
  <1>4. {"off", "open again", "refused", "unlink", "owns", "locked", "unlock"} = Idle
    BY DEF Idle
  <1>5. \A at \in Idle : BridgeMoves(b, at) => BridgeGoesOn(b)
    BY <1>1, BridgeMovesIdle
  <1>6. ASSUME NEW at \in {"refused", "locked"}, NEW pass \in {1, 2},
               bridges' = [bridges EXCEPT ![b].at = at, ![b].pass = pass]
        PROVE  BridgeGoesOn(b)
    <2>1. [run EXCEPT !.at = at, !.pass = pass]
            = [run EXCEPT !.at = at, !.pass = pass, !.files = run.files]
      BY <1>1 DEF BridgeRecords
    <2>2. bridges' = [bridges EXCEPT ![b] = [run EXCEPT !.at = at, !.pass = pass]]
      BY <1>6
    <2>3. run.files \in Files \cup {None}
      BY <1>1 DEF BridgeRecords
    <2>4. BridgeBecomes(b, at, run.says, run.files, run.passed)
      BY <1>1, <1>3, <2>1, <2>2, <2>3, BridgeCounted
    <2> QED BY <1>1, <1>4, <2>4, BridgeIdles
  <1>7. CASE OpensLock(b)
    <2>1. OriginKept
      BY <1>2, <1>7 DEF OpensLock
    <2>2. CASE BridgeMoves(b, "owns")
      BY <1>4, <1>5, <2>1, <2>2
    <2>3. CASE bridges' = [bridges EXCEPT ![b].at = "refused",
                             ![b].pass = IF BridgeAt(b, "off") THEN 1 ELSE 2]
      BY <1>6, <2>1, <2>3
    <2> QED BY <1>7, <2>2, <2>3 DEF OpensLock
  <1>8. CASE WritesLock(b)
    BY <1>2, <1>6, <1>8 DEF WritesLock
  <1>9. CASE ReadsLock(b)
    BY <1>1, <1>2, <1>4, <1>5, <1>9, BridgeEnded DEF ReadsLock
  <1>10. CASE UnlinksLock(b)
    BY <1>1, <1>2, <1>4, <1>5, <1>10, BridgeEnded DEF UnlinksLock
  <1>11. CASE ReleasesLock(b)
    BY <1>1, <1>2, <1>11, BridgeEnded DEF ReleasesLock
  <1>12. CASE BridgeSelects(b)
    <2> DEFINE t == Min(SelectTask)
               new == [run EXCEPT !.at = "worktree", !.task = t]
    <2>1. OriginKept
      BY <1>2, <1>12 DEF BridgeSelects
    <2>2. CASE BridgeMoves(b, "unlock")
      BY <1>4, <1>5, <2>1, <2>2
    <2>3. CASE ~BridgeMoves(b, "unlock")
      <3>1. t \in Tasks
        BY <1>12, <2>3, SelectedIsTask DEF BridgeSelects
      <3>2. bridges' = [bridges EXCEPT ![b] = new]
        BY <1>12, <2>3 DEF BridgeSelects
      <3> HIDE DEF t
      <3>3. new \in BridgeRecords /\ new.at = "worktree" /\ new.task \in Tasks
        BY <1>1, <1>3, <3>1 DEF BridgeRecords
      <3> HIDE DEF new
      <3>4. BridgesTyped' /\ bridges'[b] = new /\ \A c \in Bridges \ {b} : bridges'[c] = bridges[c]
        BY <1>1, <3>2, <3>3, BridgeRecordSet
      <3> QED BY <2>1, <3>3, <3>4 DEF BridgeGoesOn, BridgeKnows
    <2> QED BY <2>2, <2>3
  <1>13. CASE BridgeCreatesWorktree(b)
    <2>1. OriginKept /\ run.task \in Tasks
      BY <1>1, <1>2, <1>13 DEF BridgeCreatesWorktree, BridgeAt, Idle
    <2>2. CASE BridgeWrites(b, "base", {}, "execute")
      <3>1. BridgeBecomes(b, "execute", run.says, "base", {})
        BY <1>1, <1>3, <2>2, BridgeWritten DEF Files
      <3> QED BY <2>1, <3>1 DEF BridgeBecomes, BridgeGoesOn, BridgeKnows
    <2> QED BY <1>4, <1>5, <1>13, <2>1, <2>2 DEF BridgeCreatesWorktree
  <1>14. CASE ExecuteReads(b)
    <2>1. OriginKept /\ run.task \in Tasks /\ run.files = "base"
      BY <1>1, <1>2, <1>14 DEF ExecuteReads, BridgeAt, BridgeKnows, Idle
    <2>2. ASSUME NEW at \in {"remove", "start"}, BridgeMoves(b, at)
          PROVE  BridgeGoesOn(b)
      <3>1. BridgeBecomes(b, at, run.says, run.files, run.passed)
        BY <1>1, <1>3, <2>2, BridgeMoved
      <3> QED BY <2>1, <3>1 DEF BridgeBecomes, BridgeGoesOn, BridgeKnows
    <2> QED BY <1>4, <1>5, <1>14, <2>1, <2>2 DEF ExecuteReads
  <1>15. CASE ExecuteStarts(b)
    <2>1. run.task \in Tasks
      BY <1>1, <1>15 DEF ExecuteStarts, BridgeAt, Idle
    <2>2. OriginKept
      BY <1>1, <1>15, <2>1, PostKeepsOrigin DEF ExecuteStarts
    <2>3. BridgeBecomes(b, "branch", run.says, run.files, run.passed)
      BY <1>1, <1>3, <1>15, BridgeMoved DEF ExecuteStarts
    <2> QED BY <2>1, <2>2, <2>3 DEF BridgeBecomes, BridgeGoesOn, BridgeKnows
  <1>16. CASE PrepareBranch(b)
    <2>1. OriginKept /\ run.task \in Tasks
      BY <1>1, <1>2, <1>16 DEF PrepareBranch, BridgeAt, Idle
    <2>2. CASE BridgeMoves(b, "model")
      <3>1. BridgeBecomes(b, "model", run.says, run.files, run.passed)
        BY <1>1, <1>3, <2>2, BridgeMoved
      <3> QED BY <2>1, <3>1 DEF BridgeBecomes, BridgeGoesOn, BridgeKnows
    <2> QED BY <1>4, <1>5, <1>16, <2>1, <2>2 DEF PrepareBranch
  <1>17. CASE RunModel(b)
    <2>1. OriginKept /\ run.task \in Tasks
      BY <1>1, <1>2, <1>17 DEF RunModel, BridgeAt, Idle
    <2>2. PICK files \in Files : BridgeWrites(b, files, {}, "validate")
      BY <1>17 DEF RunModel, Files
    <2>3. BridgeBecomes(b, "validate", run.says, files, {})
      BY <1>1, <1>3, <2>2, BridgeWritten
    <2> QED BY <2>1, <2>3 DEF BridgeBecomes, BridgeGoesOn, BridgeKnows
  <1>18. CASE BridgeValidates(b)
    <2>1. OriginKept /\ run.task \in Tasks
      BY <1>1, <1>2, <1>18 DEF BridgeValidates, BridgeAt, Idle
    <2>2. ASSUME NEW files \in Files, BridgeWrites(b, files, {"validations"}, "publish")
          PROVE  BridgeGoesOn(b)
      <3>1. BridgeBecomes(b, "publish", run.says, files, {"validations"})
        BY <1>1, <1>3, <2>2, BridgeWritten DEF Checks
      <3> QED BY <2>1, <3>1 DEF BridgeBecomes, BridgeGoesOn, BridgeKnows
    <2>3. ASSUME NEW files \in Files \cup {None}, BridgeCorrects(b, files)
          PROVE  BridgeGoesOn(b)
      <3>1. bridges' = [bridges EXCEPT ![b] =
                          [run EXCEPT !.at = "model", !.pass = 2, !.files = files]]
        BY <2>3 DEF BridgeCorrects
      <3>2. BridgeBecomes(b, "model", run.says, files, run.passed)
        BY <1>1, <1>3, <3>1, BridgeCounted
      <3> QED BY <2>1, <3>2 DEF BridgeBecomes, BridgeGoesOn, BridgeKnows
    <2>4. CASE BridgeSays(b, "NEEDS_HUMAN")
      <3>1. BridgeBecomes(b, "answer", "NEEDS_HUMAN", run.files, run.passed)
        BY <1>1, <2>4, BridgeSaid DEF Terminals
      <3> QED BY <2>1, <3>1 DEF BridgeBecomes, BridgeGoesOn, BridgeKnows
    <2>5. run.files \in Files \cup {None} /\ {"inside", "outside"} \subseteq Files
      BY <1>1 DEF BridgeRecords, Files
    <2> QED BY <1>4, <1>5, <1>18, <2>1, <2>2, <2>3, <2>4, <2>5 DEF BridgeValidates
  <1>19. ASSUME BridgeAt(b, "publish"), InScope(run.files), PushBridgeTree(b),
                UNCHANGED <<answers, pullRequest>>
         PROVE  /\ OriginKept
                /\ branch'[run.task] # None /\ branch'[run.task].by = b
                /\ branch'[run.task].files = run.files
    <2>1. /\ run.task \in Tasks /\ run.files \in Files /\ run.passed \in SUBSET Checks
          /\ "validations" \in run.passed /\ BranchTyped /\ b \notin Loops
      BY <1>1, <1>19, WorkersAssumption
         DEF BridgeAt, BridgeKnows, BridgeRecords, InScope, Files, TypeOK, BranchTyped, Idle
    <2>2. Push(run.task, run.files, b, run.passed)
      BY <1>19 DEF PushBridgeTree
    <2>3. OriginKept
      BY <1>1, <1>19, <2>1, <2>2, PushKeepsOrigin
    <2> QED BY <2>1, <2>2, <2>3, PushAdds
  <1>20. CASE BridgePublishes(b)
    <2>1. CASE PushBridgeTree(b) /\ InScope(run.files) /\ BridgeMoves(b, "pull request")
      <3>1. /\ OriginKept /\ branch'[run.task] # None /\ branch'[run.task].by = b
            /\ branch'[run.task].files = run.files
        BY <1>19, <1>20, <2>1 DEF BridgePublishes
      <3>2. BridgeBecomes(b, "pull request", run.says, run.files, run.passed)
        BY <1>1, <1>3, <2>1, BridgeMoved
      <3>3. run.task \in Tasks
        BY <1>1, <1>20 DEF BridgePublishes, BridgeAt, Idle
      <3> QED BY <3>1, <3>2, <3>3 DEF BridgeBecomes, BridgeGoesOn, BridgeKnows, Pushed
    <2>2. CASE BridgeMoves(b, "unlock") /\ UNCHANGED branch
      BY <1>1, <1>2, <1>4, <1>5, <1>20, <2>2 DEF BridgePublishes, taskVars, originVars
    <2> QED BY <1>20, <2>1, <2>2 DEF BridgePublishes
  <1>21. CASE BridgeOpensPr(b)
    <2>1. /\ run.task \in Tasks /\ OriginKept /\ branch' = branch
          /\ run.task \in pullRequest' /\ Pushed(b, run)
      BY <1>1, <1>21, NothingPosted
         DEF BridgeOpensPr, CreateDraftPr, BridgeAt, BridgeKnows, Idle
    <2>2. BridgeBecomes(b, "answer", "PASS", run.files, run.passed)
      BY <1>1, <1>21, BridgeSaid DEF BridgeOpensPr, Terminals
    <2> QED BY <2>1, <2>2 DEF BridgeBecomes, BridgeGoesOn, BridgeKnows, Pushed
  <1>22. ASSUME BridgeAt(b, "answer"), Post(run.task, run.says, b), UNCHANGED originVars
         PROVE  OriginKept /\ run.task \in Tasks /\ (run.says = "PASS" => Pushed(b, run))
    <2>1. /\ run.task \in Tasks
          /\ run.says = "PASS" => Pushed(b, run) /\ run.task \in pullRequest
      BY <1>1, <1>22 DEF BridgeAt, BridgeKnows, Idle
    <2>2. OriginKept
      BY <1>1, <1>22, <2>1, PostKeepsOrigin DEF Pushed
    <2> QED BY <2>1, <2>2
  <1>23. CASE BridgeAnswers(b)
    <2>1. /\ OriginKept /\ run.task \in Tasks /\ branch' = branch
          /\ run.says = "PASS" => Pushed(b, run)
      BY <1>22, <1>23 DEF BridgeAnswers, originVars
    <2>2. CASE run.says = "PASS"
      <3>1. BridgeBecomes(b, "remove", run.says, run.files, run.passed)
        BY <1>1, <1>3, <1>23, <2>2, BridgeMoved DEF BridgeAnswers
      <3> QED BY <2>1, <2>2, <3>1 DEF BridgeBecomes, BridgeGoesOn, BridgeKnows, Pushed
    <2> QED BY <1>4, <1>5, <1>23, <2>1, <2>2 DEF BridgeAnswers
  <1>24. CASE BridgeRemoves(b)
    BY <1>2, <1>4, <1>5, <1>24 DEF BridgeRemoves
  <1>25. CASE BridgeFails(b)
    <2>1. BridgeGoesOn(b)
      BY <1>4, <1>5, <1>25 DEF BridgeFails
    <2>2. /\ pullRequest \subseteq pullRequest'
          /\ ~BridgeAt(b, "pull request") => UNCHANGED pullRequest
      BY <1>25 DEF BridgeFails, CreateDraftPr
    <2>3. CASE BridgeAt(b, "publish") /\ InScope(run.files) /\ PushBridgeTree(b)
      <3>1. UNCHANGED <<answers, pullRequest>>
        BY <1>25, <2>2, <2>3 DEF BridgeFails, BridgeAt
      <3> QED BY <1>19, <2>1, <2>3, <3>1
    <2>4. CASE UNCHANGED branch
      <3>1. CASE BridgeAt(b, "start") /\ Post(run.task, "RUNNING", b)
        <4>1. run.task \in Tasks /\ UNCHANGED originVars
          BY <1>1, <2>2, <2>4, <3>1 DEF BridgeAt, Idle, originVars
        <4> QED BY <1>1, <2>1, <3>1, <4>1, PostKeepsOrigin
      <3>2. CASE BridgeAt(b, "answer") /\ Post(run.task, run.says, b)
        <4>1. UNCHANGED originVars
          BY <2>2, <2>4, <3>2 DEF BridgeAt, originVars
        <4> QED BY <1>22, <2>1, <3>2, <4>1
      <3>3. CASE UNCHANGED <<newest, answers>>
        BY <1>1, <2>1, <2>2, <2>4, <3>3, NothingPosted
      <3> QED BY <1>25, <3>1, <3>2, <3>3 DEF BridgeFails
    <2> QED BY <1>25, <2>3, <2>4 DEF BridgeFails
  <1> QED BY <1>7, <1>8, <1>9, <1>10, <1>11, <1>12, <1>13, <1>14, <1>15, <1>16, <1>17,
             <1>18, <1>20, <1>21, <1>23, <1>24, <1>25
          DEF BridgeRuns, BridgeStep

-----------------------------------------------------------------------------
(* Every step.                                                             *)

\* What one worker does leaves the invariant, when origin is kept.
LEMMA WorkerKeeps ==
  ASSUME IInv, OriginKept,
         \/ bridges' = bridges /\ \E l \in Loops : LoopGoesOn(l)
         \/ loops' = loops /\ \E b \in Bridges : BridgeGoesOn(b)
         \/ loops' = loops /\ bridges' = bridges
  PROVE  IInv'
  <1>1. /\ \A l \in Loops : loops'[l] = loops[l] => LoopKnows(l)'
        /\ \A b \in Bridges : bridges'[b] = bridges[b] => BridgeKnows(b)'
    BY WaitingKnows DEF OriginKept
  <1>2. /\ LoopsTyped'
        /\ \A l \in Loops : /\ LoopKnows(l)'
                            /\ loops'[l].at # "off" => loops'[l].task \in Tasks
    <2>1. CASE loops' = loops
      BY <1>1, <2>1 DEF IInv, TypeOK, LoopsTyped, HaveTasks
    <2>2. CASE \E l \in Loops : LoopGoesOn(l)
      BY <1>1, <2>2 DEF IInv, HaveTasks, LoopGoesOn
    <2> QED BY <2>1, <2>2
  <1>3. /\ BridgesTyped'
        /\ \A b \in Bridges : /\ BridgeKnows(b)'
                              /\ bridges'[b].at \notin Idle => bridges'[b].task \in Tasks
    <2>1. CASE bridges' = bridges
      BY <1>1, <2>1 DEF IInv, TypeOK, BridgesTyped, HaveTasks, Idle
    <2>2. CASE \E b \in Bridges : BridgeGoesOn(b)
      BY <1>1, <2>2 DEF IInv, HaveTasks, BridgeGoesOn, Idle
    <2> QED BY <2>1, <2>2
  <1>4. PublishedWasChecked'
    BY DEF IInv, OriginKept, BranchesAreChecked, PublishedWasChecked
  <1>5. PassMeansPublished'
    BY DEF IInv, OriginKept, Grows, AnswersAreTrue, PassMeansPublished
  <1>6. TypeOK' /\ HaveTasks'
    BY <1>2, <1>3 DEF TypeOK, HaveTasks, OriginKept, AnswersTyped, BranchTyped,
       LoopsTyped, BridgesTyped, Idle
  <1> QED BY <1>2, <1>3, <1>4, <1>5, <1>6 DEF IInv

LEMMA DeathKeeps == IInv /\ Dies => IInv'
  <1> SUFFICES ASSUME IInv, Dies PROVE IInv'
    OBVIOUS
  <1>1. TypeOK
    BY DEF IInv
  <1>2. OriginKept
    BY <1>1, NothingPosted DEF Dies, LoopDies, BridgeDies, taskVars, originVars
  <1>3. CASE \E l \in Loops : LoopDies(l) /\ UNCHANGED bridgeVars
    BY <1>1, <1>2, <1>3, LoopEnded, WorkerKeeps DEF LoopDies, bridgeVars
  <1>4. CASE \E b \in Bridges : BridgeDies(b) /\ UNCHANGED loopVars
    BY <1>1, <1>2, <1>4, BridgeEnded, WorkerKeeps DEF BridgeDies, loopVars
  <1> QED BY <1>3, <1>4 DEF Dies

LEMMA ApprovalKeeps == IInv /\ OwnerApproves => IInv'
  <1> SUFFICES ASSUME IInv, OwnerApproves PROVE IInv'
    OBVIOUS
  <1>1. TypeOK
    BY DEF IInv
  <1>2. PICK t \in Tasks : Approve(t)
    BY DEF OwnerApproves
  <1>3. PICK says \in Approvals : Post(t, says, None)
    BY <1>2 DEF Approve
  <1>4. says # "PASS"
    BY DEF Approvals
  <1>5. OriginKept
    BY <1>1, <1>2, <1>3, <1>4, PostKeepsOrigin DEF Approve
  <1> QED BY <1>5, WorkerKeeps DEF OwnerApproves, loopVars, bridgeVars

LEMMA StepsKeep == IInv /\ [Next]_vars => IInv'
  <1> SUFFICES ASSUME IInv, [Next]_vars PROVE IInv'
    OBVIOUS
  <1>1. ASSUME NEW l \in Loops, LoopRuns(l) PROVE IInv'
    BY <1>1, LoopRunsOn, WorkerKeeps DEF LoopRuns, bridgeVars
  <1>2. ASSUME NEW b \in Bridges, BridgeRuns(b) PROVE IInv'
    BY <1>2, BridgeRunsOn, WorkerKeeps DEF BridgeRuns, loopVars
  <1>3. CASE OwnerApproves
    BY <1>3, ApprovalKeeps
  <1>4. CASE Dies
    BY <1>4, DeathKeeps
  <1>5. CASE UNCHANGED vars
    <2>1. UNCHANGED <<taskVars, loopVars, bridgeVars>> /\ TypeOK
      BY <1>5 DEF vars, IInv
    <2>2. OriginKept
      BY <2>1, NothingPosted DEF taskVars, originVars
    <2> QED BY <2>1, <2>2, WorkerKeeps DEF loopVars, bridgeVars
  <1> QED BY <1>1, <1>2, <1>3, <1>4, <1>5 DEF Next

LEMMA Invariant == Spec => []IInv
  <1> QED BY Starts, StepsKeep, PTL DEF Spec

-----------------------------------------------------------------------------
(* Theorems.                                                               *)

\* For any number of workers: what is on a branch is inside the scope and
\* passed the validations, and the loop's an approving review, however the
\* workers race, fail and die (cse_codex_loop.py:954, cse_api_bridge.py:719).
THEOREM PublishedIsChecked == Spec => []PublishedWasChecked
  <1>1. IInv => PublishedWasChecked
    BY DEF IInv
  <1> QED BY <1>1, Invariant, PTL

\* A PASS is the word of the worker whose work is on the branch, and its pull
\* request is open (cse_codex_loop.py:1378 to 1398).
THEOREM PassIsPublished == Spec => []PassMeansPublished
  <1>1. IInv => PassMeansPublished
    BY DEF IInv
  <1> QED BY <1>1, Invariant, PTL

\* A worktree goes only empty, or when its work is on origin
\* (cse_codex_loop.py:1129, cse_bridge_local.py:255).
THEOREM WorkIsKept == Spec => NoWorkIsLost
  <1> DEFINE LoopTreesKept ==
               \A t \in loopTrees \ loopTrees' :
                 \E l \in Loops :
                   /\ loops[l].task = t
                   /\ branch[t] # None /\ branch[t].by = l
                   /\ branch[t].files = loops[l].files
             BridgeTreesKept ==
               \A t \in bridgeTrees \ bridgeTrees' :
                 \E b \in Bridges :
                   /\ bridges[b].task = t
                   /\ \/ bridges[b].files = "base"
                      \/ /\ branch[t] # None /\ branch[t].by = b
                         /\ branch[t].files = bridges[b].files
  <1>1. ASSUME IInv, [Next]_vars
        PROVE  LoopTreesKept /\ BridgeTreesKept
    <2>1. ASSUME NEW l \in Loops, LoopStep(l)
          PROVE  LoopTreesKept
      <3>1. CASE RemoveSuccessfulWorktree(l)
        <4>1. Pushed(l, loops[l])
          BY <1>1, <3>1 DEF RemoveSuccessfulWorktree, LoopAt, IInv, LoopKnows
        <4>2. loopTrees \ loopTrees' \subseteq {loops[l].task}
          BY <3>1 DEF RemoveSuccessfulWorktree
        <4> QED BY <4>1, <4>2 DEF Pushed
      <3>2. CASE loopTrees \subseteq loopTrees'
        BY <3>2
      <3> QED BY <2>1, <3>1, <3>2
              DEF LoopStep, LoopSelects, LoopStarts, CreateWorktree, RunCodexPass,
                  RunValidations, RunReview, LoopPublishes, LoopOpensPr, LoopAnswers,
                  LoopCommentFails, LoopFails
    <2>2. ASSUME NEW b \in Bridges, BridgeStep(b)
          PROVE  BridgeTreesKept
      <3>1. CASE BridgeRemoves(b)
        <4>1. bridges[b].files = "base" \/ Pushed(b, bridges[b])
          BY <1>1, <3>1 DEF BridgeRemoves, BridgeAt, IInv, BridgeKnows
        <4>2. bridgeTrees \ bridgeTrees' \subseteq {bridges[b].task}
          BY <3>1 DEF BridgeRemoves
        <4> QED BY <4>1, <4>2 DEF Pushed
      <3>2. CASE bridgeTrees \subseteq bridgeTrees'
        BY <3>2
      <3> QED BY <2>2, <3>1, <3>2
              DEF BridgeStep, OpensLock, WritesLock, ReadsLock, UnlinksLock, ReleasesLock,
                  BridgeSelects, BridgeCreatesWorktree, ExecuteReads, ExecuteStarts,
                  PrepareBranch, RunModel, BridgeValidates, BridgePublishes, BridgeOpensPr,
                  BridgeAnswers, BridgeFails
    <2>3. CASE loopTrees' = loopTrees /\ bridgeTrees' = bridgeTrees
      BY <2>3
    <2>4. CASE \E l \in Loops : LoopRuns(l)
      BY <2>1, <2>4 DEF LoopRuns, bridgeVars
    <2>5. CASE \E b \in Bridges : BridgeRuns(b)
      BY <2>2, <2>5 DEF BridgeRuns, loopVars
    <2> QED BY <1>1, <2>3, <2>4, <2>5
            DEF Next, OwnerApproves, Dies, LoopDies, BridgeDies, vars, loopVars, bridgeVars
  <1>2. IInv /\ [Next]_vars => [LoopTreesKept /\ BridgeTreesKept]_vars
    BY <1>1
  <1> QED BY <1>2, Invariant, PTL DEF Spec, NoWorkIsLost
=============================================================================
