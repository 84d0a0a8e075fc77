--------------------------- MODULE Workflow_proofs ---------------------------
(***************************************************************************)
(* Proofs about the coordinator, for any contract, any number of processes *)
(* that run it at once, and deaths and torn lines without bound.           *)
(*                                                                         *)
(* No lock keeps processes apart.  What does is that an append is refused  *)
(* when the chain it ends is not the one that was read: of those that race *)
(* to admit a stage, one finds the chain whole behind its line, and while  *)
(* that line is the last word on the stage, the ledger accepts no other.   *)
(***************************************************************************)
EXTENDS Workflow, FiniteSetTheorems, TLAPS

Places == {"idle", "append", "write", "cache", "emit", "look", "post", "posted",
           "prepare", "create", "fill", "start", "started", "reconcile",
           "decide", "drifted", "loop", "act", "report", "failed", "again"}
Fields == {"status", "index", "attempts", "active", "spent", "target",
           "artifact", "published", "keys", "events"}

\* What the proofs need to know of the shape of the ledger.
Shape(l) ==
  /\ DOMAIN l = Fields
  /\ l.status \in Statuses /\ l.active \in BOOLEAN
  /\ l.index \in Nat /\ l.events \in Nat
  /\ l.attempts \in [StageIds -> Nat]

Nexts == {"idle", "started", "emit", "loop", "act", "drifted", "failed"}
Thens == {"idle", "reconcile", "decide", "loop", "again"}

LocalsTyped ==
  /\ pc \in [Procs -> Places]
  /\ seen \in [Procs -> Nat]
  /\ next \in [Procs -> Nexts]
  /\ then \in [Procs -> Thens]
  /\ DOMAIN event = Procs

Typed ==
  /\ Shape(ledger) /\ LocalsTyped
  /\ artifact \in {"missing", "exact", "other"}
  /\ executed \in [StageIds -> Nat]

\* What the action of a stage has reported.
IsResult(e) ==
  \/ e.type \in {"stage_passed", "stage_paused"}
  \/ e.type = "stage_failed" /\ e.commanded

\* Only results settle a stage that is under way; a stage is blocked otherwise.
WellFormed(e) == e.type = "stage_failed" /\ ~e.commanded => e.class = "unsafe"

\* A process that is in an action, or has its result still to write.
Holding(p) ==
  \/ pc[p] \in {"act", "report"}
  \/ pc[p] \in {"append", "write"} /\ IsResult(event[p])

\* A process that will find that it has won the race for a stage.
Claims(p) ==
  /\ pc[p] = "cache" /\ next[p] = "act"
  /\ sound /\ seen[p] + 1 = ledger.events

\* The stage a process was admitted to is the one whose turn it is, and the
\* ledger has counted the attempt.
Admitted(p) ==
  /\ event[p].type = "stage_admitted"
  /\ event[p].stage \in StageIds /\ event[p].stage = ledger.index
  /\ executed[event[p].stage] + 1 <= ledger.attempts[event[p].stage]

EventFits(p) ==
  /\ pc[p] \in {"append", "write", "cache"} =>
       /\ WellFormed(event[p])
       /\ next[p] = "act" => event[p].type = "stage_admitted"
  /\ pc[p] = "report" => IsResult(event[p]) /\ "type" \in DOMAIN event[p]

\* What is about to be written was accepted behind the events it was read with.
WriteAccepted(p) ==
  pc[p] = "write" =>
    /\ seen[p] <= ledger.events
    /\ seen[p] = ledger.events => Accepts(ledger, event[p])

\* While the chain is whole, each line behind it was written by one process.
LinesDiffer ==
  sound => \A p, q \in Procs :
             pc[p] = "cache" =>
               /\ seen[p] + 1 <= ledger.events
               /\ pc[q] = "cache" /\ seen[q] = seen[p] => q = p

OneHolder == \A p, q \in Procs : Holding(p) /\ Holding(q) => p = q

\* While a process holds a stage, no other can be admitted, or ever will be.
HeldIsClosed ==
  \A p \in Procs : Holding(p) => ledger.active \/ ledger.status \in Stopped

ClaimIsFree ==
  \A p \in Procs : Claims(p) => ledger.active /\ \A q \in Procs : ~Holding(q)

AdmittedToAct ==
  \A p \in Procs : pc[p] = "act" \/ Claims(p) => Admitted(p)

IInv ==
  /\ Typed
  /\ \A p \in Procs : EventFits(p) /\ WriteAccepted(p)
  /\ LinesDiffer /\ OneHolder /\ HeldIsClosed /\ ClaimIsFree /\ AdmittedToAct
  /\ AttemptsCounted

-----------------------------------------------------------------------------
(* What an event does to the ledger                                        *)

\* An event that is accepted is one more line, and keeps the shape.
LEMMA AfterShape ==
  ASSUME NEW l, Shape(l), NEW e, Accepts(l, e)
  PROVE  Shape(After(l, e)) /\ After(l, e).events = l.events + 1
<1> DEFINE q == [l EXCEPT !.events = @ + 1]
<1> USE DEF Shape, Fields, Statuses
<1>1. Shape(q) /\ q.events = l.events + 1 /\ q.attempts = l.attempts
      /\ q.index = l.index
  OBVIOUS
<1> HIDE DEF q
<1>2. CASE e.type \in {"workflow_started", "workflow_resumed"}
  BY <1>1, <1>2 DEF After, q
<1>3. CASE e.type = "target_observed"
  BY <1>1, <1>3 DEF After, q
<1>4. CASE e.type = "stage_admitted"
  <2>1. /\ e.stage = l.index /\ l.index \in StageIds
        /\ e.attempt = l.attempts[l.index] + 1
    BY <1>4 DEF Accepts, AcceptsStart, AcceptsResume, AcceptsAdmission,
                AcceptsPass, AcceptsPause, AcceptsFailure, AcceptsEnd, AtStage
  <2>2. After(l, e) = AfterAdmission(q, e)
    BY <1>4 DEF After, q
  <2>3. e.attempt \in Nat
    BY <2>1
  <2> QED
    BY <1>1, <2>1, <2>2, <2>3 DEF AfterAdmission
<1>5. CASE e.type \in {"stage_passed", "stage_reused"}
  <2>1. After(l, e) = AfterPass(q, e)
    BY <1>5 DEF After, q
  <2> QED
    BY <1>1, <2>1 DEF AfterPass
<1>6. CASE e.type = "stage_paused"
  BY <1>1, <1>6 DEF After, q
<1>7. CASE e.type = "stage_failed"
  <2>1. After(l, e) = [q EXCEPT !.status = AfterFailure(q, e), !.active = FALSE]
    BY <1>7 DEF After, q
  <2>2. AfterFailure(q, e) \in Statuses
    BY DEF AfterFailure
  <2> QED
    BY <1>1, <2>1, <2>2
<1>8. CASE e.type = "github_evidence"
  BY <1>1, <1>8 DEF After, q
<1>9. CASE e.type = "workflow_failed"
  BY <1>1, <1>9 DEF After, q
<1>10. CASE e.type = "workflow_completed"
  BY <1>1, <1>10 DEF After, q
<1> QED
  BY <1>2, <1>3, <1>4, <1>5, <1>6, <1>7, <1>8, <1>9, <1>10
     DEF Accepts, AcceptsStart, AcceptsResume, AcceptsAdmission, AcceptsPass,
         AcceptsPause, AcceptsFailure, AcceptsEnd

\* An admission opens a stage nobody holds, and counts the attempt.
LEMMA AfterAdmitted ==
  ASSUME NEW l, Shape(l), NEW e, Accepts(l, e), e.type = "stage_admitted"
  PROVE  /\ ~l.active /\ l.status \notin Stopped
         /\ e.stage = l.index /\ e.stage \in StageIds
         /\ After(l, e).active /\ After(l, e).index = l.index
         /\ After(l, e).attempts =
              [l.attempts EXCEPT ![e.stage] = l.attempts[e.stage] + 1]
<1>1. AcceptsAdmission(l, e)
  BY DEF Accepts, AcceptsStart, AcceptsResume, AcceptsAdmission,
         AcceptsPass, AcceptsPause, AcceptsFailure, AcceptsEnd
<1>2. After(l, e) = AfterAdmission([l EXCEPT !.events = @ + 1], e)
  BY DEF After
<1> QED
  BY <1>1, <1>2 DEF AcceptsAdmission, AtStage, AfterAdmission, Shape, Fields, Stopped

\* Any other event counts no attempt.
LEMMA AfterOthers ==
  ASSUME NEW l, Shape(l), NEW e, Accepts(l, e), e.type # "stage_admitted"
  PROVE  After(l, e).attempts = l.attempts
<1> DEFINE q == [l EXCEPT !.events = @ + 1]
<1>1. Shape(q) /\ q.attempts = l.attempts
  BY DEF Shape, Fields
<1>2. \/ e.type \in {"workflow_started", "workflow_resumed", "target_observed",
                     "stage_paused", "stage_failed", "github_evidence",
                     "workflow_failed", "workflow_completed"}
      \/ e.type \in {"stage_passed", "stage_reused"}
  BY DEF Accepts, AcceptsStart, AcceptsResume, AcceptsAdmission, AcceptsPass,
         AcceptsPause, AcceptsFailure, AcceptsEnd
<1>3. CASE e.type \in {"stage_passed", "stage_reused"}
  <2>1. After(l, e) = AfterPass(q, e)
    BY <1>3 DEF After
  <2> HIDE DEF q
  <2> QED
    BY <1>1, <2>1 DEF AfterPass, Shape, Fields
<1>4. CASE e.type \in {"workflow_started", "workflow_resumed", "target_observed",
                     "stage_paused", "stage_failed", "github_evidence",
                     "workflow_failed", "workflow_completed"}
  BY <1>1, <1>4 DEF After, Shape, Fields
<1> QED
  BY <1>2, <1>3, <1>4

\* What another process appends to a stage that is held leaves its turn, and
\* leaves it open or blocks the workflow for good.
LEMMA AfterHeld ==
  ASSUME NEW l, Shape(l), NEW e, Accepts(l, e), WellFormed(e), ~IsResult(e),
         l.active \/ l.status \in Stopped
  PROVE  /\ After(l, e).index = l.index
         /\ After(l, e).active \/ After(l, e).status \in Stopped
<1> DEFINE q == [l EXCEPT !.events = @ + 1]
<1>1. /\ Shape(q) /\ q.index = l.index /\ q.active = l.active
      /\ q.status = l.status
  BY DEF Shape, Fields
<1> USE DEF Shape, Fields, Stopped
<1>2. e.type \in {"target_observed", "github_evidence", "workflow_started",
                  "workflow_resumed", "stage_admitted", "stage_failed",
                  "workflow_failed", "workflow_completed"}
  BY DEF Accepts, AcceptsStart, AcceptsResume, AcceptsAdmission, AcceptsPass,
         AcceptsPause, AcceptsFailure, AcceptsEnd, IsResult
<1>3. CASE e.type \in {"workflow_started", "workflow_resumed"}
  <2>1. l.status \in {"NEW", "PAUSED_EXTERNAL", "RESUMABLE_FAILURE"}
    BY <1>3 DEF Accepts, AcceptsStart, AcceptsResume, AcceptsAdmission,
                AcceptsPass, AcceptsPause, AcceptsFailure, AcceptsEnd
  <2>2. After(l, e) = [q EXCEPT !.status = "RUNNING"]
    BY <1>3 DEF After
  <2> HIDE DEF q
  <2> QED
    BY <1>1, <2>1, <2>2
<1>4. CASE e.type = "stage_admitted"
  BY <1>4, AfterAdmitted
<1>5. CASE e.type = "stage_failed"
  <2>1. e.class = "unsafe"
    BY <1>5 DEF WellFormed, IsResult
  <2>2. After(l, e) = [q EXCEPT !.status = AfterFailure(q, e), !.active = FALSE]
    BY <1>5 DEF After
  <2>3. AfterFailure(q, e) = "UNSAFE_BLOCKED"
    BY <2>1 DEF AfterFailure
  <2> HIDE DEF q
  <2> QED
    BY <1>1, <2>2, <2>3
<1>6. CASE e.type \in {"target_observed", "github_evidence", "workflow_failed",
                       "workflow_completed"}
  BY <1>1, <1>6 DEF After
<1> QED
  BY <1>2, <1>3, <1>4, <1>5, <1>6

-----------------------------------------------------------------------------
(* Moves of a process that change nothing the others rely on               *)

\* The step is of p alone, and keeps the types of what is its own.
Alone(p) ==
  /\ LocalsTyped'
  /\ \A q \in Procs \ {p} : /\ pc'[q] = pc[q] /\ event'[q] = event[q]
                            /\ seen'[q] = seen[q] /\ next'[q] = next[q]

\* It leads to a place where p neither acts nor writes.
Quiet(p) ==
  /\ Alone(p)
  /\ pc'[p] \notin {"write", "cache", "act", "report"}
  /\ pc'[p] = "append" => /\ WellFormed(event'[p]) /\ ~IsResult(event'[p])
                          /\ next'[p] = "act" => event'[p].type = "stage_admitted"

QuietPlaces == Places \ {"append", "write", "cache", "act", "report"}

\* The forms of a quiet step: a process ends, goes on, arrives from an append
\* or an emission, turns to an append that is no result, or to emissions.
LEMMA EndQuiet ==
  ASSUME LocalsTyped, NEW p \in Procs, End(p)
  PROVE  Quiet(p) /\ Alone(p) /\ pc'[p] = "idle"
BY DEF LocalsTyped, End, Goto, Quiet, Alone, Places, Nexts, Thens

LEMMA GotoQuiet ==
  ASSUME LocalsTyped, NEW p \in Procs, NEW place \in QuietPlaces, Goto(p, place),
         UNCHANGED <<event, seen, next>>, then' \in [Procs -> Thens]
  PROVE  Quiet(p)
BY DEF LocalsTyped, Goto, Quiet, Alone, QuietPlaces, Places, Nexts

LEMMA ArriveQuiet ==
  ASSUME LocalsTyped, NEW p \in Procs, NEW place \in QuietPlaces,
         Arrive(p, place), place # "idle" => then' \in [Procs -> Thens]
  PROVE  Quiet(p)
<1>1. CASE place = "idle"
  BY <1>1, EndQuiet DEF Arrive
<1>2. CASE place # "idle"
  <2>1. place # "act" /\ then' \in [Procs -> Thens]
    BY <1>2 DEF QuietPlaces
  <2>2. /\ pc' = [pc EXCEPT ![p] = place]
        /\ event' = [event EXCEPT ![p] = NoEvent]
        /\ seen' = [seen EXCEPT ![p] = 0] /\ next' = [next EXCEPT ![p] = "idle"]
    BY <1>2, <2>1 DEF Arrive, Goto
  <2>3. /\ place \in Places
        /\ place \notin {"append", "write", "cache", "act", "report"}
    BY DEF QuietPlaces
  <2>4. LocalsTyped'
    BY <2>1, <2>2, <2>3 DEF LocalsTyped, Nexts
  <2> QED
    BY <2>2, <2>3, <2>4 DEF LocalsTyped, Quiet, Alone
<1> QED
  BY <1>1, <1>2

LEMMA AppendQuiet ==
  ASSUME LocalsTyped, NEW p \in Procs, NEW e, NEW place \in Nexts,
         AppendThen(p, e, place), WellFormed(e), ~IsResult(e),
         place = "act" => e.type = "stage_admitted", then' \in [Procs -> Thens]
  PROVE  Quiet(p)
BY DEF LocalsTyped, AppendThen, Goto, Quiet, Alone, Places, Nexts

LEMMA EmitThenQuiet ==
  ASSUME LocalsTyped, NEW p \in Procs, NEW keys, NEW place \in Thens,
         EmitThen(p, keys, place)
  PROVE  Quiet(p)
BY DEF LocalsTyped, EmitThen, Goto, Quiet, Alone, Places, Nexts, Thens

\* The ledger is as it was, and p holds no stage it did not hold.
LEMMA MoveKeeps ==
  ASSUME IInv, NEW p \in Procs, Alone(p), UNCHANGED ledger, sound' => sound,
         artifact' \in {"missing", "exact", "other"},
         executed' \in [StageIds -> Nat],
         pc'[p] \notin {"cache", "act"}, Holding(p)' => Holding(p),
         EventFits(p)', WriteAccepted(p)',
         executed' = executed \/ (Holding(p) /\ AttemptsCounted')
  PROVE  IInv'
<1> USE DEF IInv
<1>1. \A q \in Procs : Holding(q)' => Holding(q)
  BY DEF Alone, Holding
<1>2. \A q \in Procs : Claims(q)' => Claims(q)
  BY DEF Alone, Claims
<1>3. \A q \in Procs : EventFits(q)' /\ WriteAccepted(q)'
  BY DEF Alone, EventFits, WriteAccepted
<1>4. LinesDiffer'
  BY DEF Alone, LinesDiffer
<1>5. OneHolder' /\ HeldIsClosed' /\ ClaimIsFree'
  BY <1>1, <1>2 DEF OneHolder, HeldIsClosed, ClaimIsFree
<1>6. AttemptsCounted'
  BY DEF AttemptsCounted
<1>7. ASSUME NEW q \in Procs, pc'[q] = "act" \/ Claims(q)'
      PROVE  Admitted(q)'
  <2>1. q # p /\ event'[q] = event[q]
    BY <1>7 DEF Alone, Claims
  <2>2. pc[q] = "act" \/ Claims(q)
    BY <1>2, <1>7, <2>1 DEF Alone
  <2>3. ~Holding(p)
    BY <2>1, <2>2 DEF OneHolder, ClaimIsFree, Holding
  <2> QED
    BY <2>1, <2>2, <2>3 DEF AdmittedToAct, Admitted
<1>8. Typed'
  BY DEF Typed, Alone, Shape
<1> QED
  BY <1>3, <1>4, <1>5, <1>6, <1>7, <1>8 DEF AdmittedToAct

\* A quiet step keeps the invariant.
LEMMA QuietKeeps ==
  ASSUME IInv, NEW p \in Procs, Quiet(p), UNCHANGED <<ledger, executed>>,
         sound' => sound, artifact' \in {"missing", "exact", "other"}
  PROVE  IInv'
<1>1. Alone(p) /\ pc'[p] \notin {"cache", "act"}
  BY DEF Quiet
<1>2. ~Holding(p)' /\ EventFits(p)' /\ WriteAccepted(p)'
  BY DEF Quiet, Holding, EventFits, WriteAccepted
<1>3. executed' \in [StageIds -> Nat]
  BY DEF IInv, Typed
<1> QED
  BY <1>1, <1>2, <1>3, MoveKeeps

\* Nothing of the workflow moves.
LEMMA RestKeeps ==
  ASSUME IInv, UNCHANGED <<ledger, sound, executed, pc, event, seen, next, then>>,
         artifact' \in {"missing", "exact", "other"}
  PROVE  IInv'
BY DEF IInv, Typed, Shape, LocalsTyped, EventFits, WriteAccepted, LinesDiffer,
       OneHolder, HeldIsClosed, ClaimIsFree, AdmittedToAct, AttemptsCounted,
       Holding, Claims, Admitted

-----------------------------------------------------------------------------
(* The append                                                              *)

\* What is accepted is remembered with the events it was accepted behind.
LEMMA AppendReadKeeps ==
  ASSUME IInv, NEW p \in Procs, AppendRead(p)
  PROVE  IInv'
<1>1. LocalsTyped /\ Shape(ledger) /\ artifact' \in {"missing", "exact", "other"}
      /\ executed' = executed /\ executed \in [StageIds -> Nat]
  BY DEF IInv, Typed, AppendRead, world
<1>2. CASE End(p) /\ UNCHANGED store
  BY <1>1, <1>2, EndQuiet, QuietKeeps DEF store
<1>3. CASE /\ Accepts(ledger, event[p]) /\ Goto(p, "write")
           /\ seen' = [seen EXCEPT ![p] = ledger.events]
           /\ UNCHANGED <<ledger, sound, event, next, then>>
  <2>1. Alone(p) /\ pc'[p] = "write" /\ seen'[p] = ledger.events
    BY <1>1, <1>3 DEF LocalsTyped, Alone, Goto, Places, Shape
  <2>2. pc[p] = "append"
    BY DEF AppendRead
  <2>3. Holding(p)' => Holding(p)
    BY <1>3, <2>1, <2>2 DEF Holding
  <2>4. EventFits(p)'
    BY <1>3, <2>1, <2>2 DEF IInv, EventFits
  <2>5. WriteAccepted(p)'
    <3>1. ledger.events <= ledger.events
      BY <1>1 DEF Shape
    <3>2. seen'[p] <= ledger'.events /\ Accepts(ledger', event'[p])
      BY <1>3, <2>1, <3>1
    <3> QED
      BY <3>2 DEF WriteAccepted
  <2> QED
    BY <1>1, <1>3, <2>1, <2>3, <2>4, <2>5, MoveKeeps
<1> QED
  BY <1>2, <1>3 DEF AppendRead

\* The write that counts: behind the last line that was read.
LEMMA WriteKeeps ==
  ASSUME IInv, NEW p \in Procs, pc[p] = "write", seen[p] = ledger.events,
         Goto(p, "cache"), ledger' = After(ledger, event[p]),
         UNCHANGED <<sound, artifact, executed, event, seen, next, then>>
  PROVE  IInv'
<1> DEFINE e == event[p]
<1> USE DEF IInv
<1>1. Accepts(ledger, e) /\ Shape(ledger) /\ WellFormed(e)
  BY DEF WriteAccepted, EventFits, Typed
<1>2. Shape(ledger') /\ ledger'.events = ledger.events + 1
  BY <1>1, AfterShape
<1>3. /\ Alone(p) /\ pc'[p] = "cache" /\ seen'[p] = ledger.events
      /\ ledger.events \in Nat /\ \A q \in Procs : seen[q] \in Nat
  BY <1>1 DEF Typed, LocalsTyped, Alone, Goto, Places, Shape
<1>4. Typed'
  BY <1>2, <1>3 DEF Typed, Alone
<1>5. \A q \in Procs : EventFits(q)' /\ WriteAccepted(q)'
  BY <1>2, <1>3 DEF Alone, EventFits, WriteAccepted
<1>6. LinesDiffer'
  BY <1>2, <1>3 DEF Alone, LinesDiffer
<1>7. \A q \in Procs : Holding(q)' => Holding(q) /\ q # p
  BY <1>3 DEF Alone, Holding
<1>8. OneHolder'
  BY <1>7 DEF OneHolder
<1>9. \A q \in Procs : Claims(q)' => q = p /\ next[p] = "act"
  BY <1>2, <1>3 DEF Alone, Claims, LinesDiffer
<1>10. (\E q \in Procs \ {p} : Holding(q)) => ~IsResult(e)
  BY DEF OneHolder, Holding
<1>11. ASSUME NEW q \in Procs \ {p}, Holding(q)
       PROVE  /\ ledger'.index = ledger.index
              /\ ledger'.active \/ ledger'.status \in Stopped
  BY <1>1, <1>10, <1>11, AfterHeld DEF HeldIsClosed
<1>12. HeldIsClosed'
  BY <1>7, <1>11 DEF HeldIsClosed
<1>13. CASE e.type = "stage_admitted"
  <2>1. /\ ~ledger.active /\ ledger.status \notin Stopped
        /\ e.stage = ledger.index /\ e.stage \in StageIds
        /\ ledger'.active /\ ledger'.index = ledger.index
        /\ ledger'.attempts =
             [ledger.attempts EXCEPT ![e.stage] = ledger.attempts[e.stage] + 1]
    BY <1>1, <1>13, AfterAdmitted
  <2>2. \A q \in Procs : ~Holding(q)
    BY <2>1 DEF HeldIsClosed
  <2>3. /\ ledger.attempts \in [StageIds -> Nat] /\ executed \in [StageIds -> Nat]
        /\ \A i \in StageIds : executed[i] <= ledger.attempts[i]
    BY <1>1 DEF Shape, Typed, AttemptsCounted
  <2>4. AttemptsCounted'
    BY <2>1, <2>3 DEF AttemptsCounted
  <2>5. ClaimIsFree'
    BY <1>7, <2>1, <2>2 DEF ClaimIsFree
  <2>6. \A q \in Procs : pc'[q] # "act"
    BY <1>7, <2>2 DEF Holding
  <2>7. Admitted(p)'
    BY <1>13, <2>1, <2>3 DEF Admitted
  <2>8. AdmittedToAct'
    BY <1>9, <2>6, <2>7 DEF AdmittedToAct
  <2> QED
    BY <1>4, <1>5, <1>6, <1>8, <1>12, <2>4, <2>5, <2>8
<1>14. CASE e.type # "stage_admitted"
  <2>1. ledger'.attempts = ledger.attempts
    BY <1>1, <1>14, AfterOthers
  <2>2. next[p] # "act"
    BY <1>14 DEF EventFits
  <2>3. \A q \in Procs : ~Claims(q)'
    BY <1>9, <2>2
  <2>4. AttemptsCounted' /\ ClaimIsFree'
    BY <2>1, <2>3 DEF AttemptsCounted, ClaimIsFree
  <2>5. ASSUME NEW q \in Procs, pc'[q] = "act"
        PROVE  Admitted(q)'
    <3>1. q # p /\ pc[q] = "act" /\ event'[q] = event[q]
      BY <1>3, <2>5 DEF Alone
    <3>2. ledger'.index = ledger.index
      BY <1>11, <3>1 DEF Holding
    <3> QED
      BY <2>1, <3>1, <3>2 DEF AdmittedToAct, Admitted
  <2> QED
    BY <1>4, <1>5, <1>6, <1>8, <1>12, <2>3, <2>4, <2>5 DEF AdmittedToAct
<1> QED
  BY <1>13, <1>14

\* A line whose number is taken breaks the chain: nobody claims anything.
LEMMA BrokenWriteKeeps ==
  ASSUME IInv, NEW p \in Procs, pc[p] = "write", Goto(p, "cache"),
         UNCHANGED <<ledger, artifact, executed, event, seen, next, then>>,
         ~sound'
  PROVE  IInv'
<1> USE DEF IInv
<1>1. Alone(p) /\ pc'[p] = "cache"
  BY DEF Typed, LocalsTyped, Alone, Goto, Places
<1>2. Typed'
  BY <1>1 DEF Typed, Alone, Shape
<1>3. \A q \in Procs : EventFits(q)' /\ WriteAccepted(q)'
  BY <1>1 DEF Alone, EventFits, WriteAccepted
<1>4. LinesDiffer' /\ \A q \in Procs : ~Claims(q)'
  BY DEF LinesDiffer, Claims
<1>5. \A q \in Procs : Holding(q)' => Holding(q)
  BY <1>1 DEF Alone, Holding
<1>6. OneHolder' /\ HeldIsClosed' /\ ClaimIsFree' /\ AttemptsCounted'
  BY <1>4, <1>5 DEF OneHolder, HeldIsClosed, ClaimIsFree, AttemptsCounted
<1>7. AdmittedToAct'
  BY <1>1, <1>4 DEF Alone, AdmittedToAct, Admitted
<1> QED
  BY <1>2, <1>3, <1>4, <1>6, <1>7

\* A process goes on to its action when its line is the last of a whole chain.
LEMMA AppendCacheKeeps ==
  ASSUME IInv, NEW p \in Procs, AppendCache(p)
  PROVE  IInv'
<1>1. /\ LocalsTyped /\ UNCHANGED <<ledger, sound, artifact, executed>>
      /\ artifact \in {"missing", "exact", "other"} /\ pc[p] = "cache"
  BY DEF IInv, Typed, AppendCache, world
<1>2. CASE End(p)
  BY <1>1, <1>2, EndQuiet, QuietKeeps
<1>3. CASE /\ sound /\ seen[p] + 1 = ledger.events /\ Arrive(p, next[p])
           /\ next[p] # "idle" => UNCHANGED then
  <2>1. CASE next[p] # "act"
    <3>1. next[p] \in QuietPlaces
      BY <1>1, <2>1 DEF LocalsTyped, Nexts, QuietPlaces, Places
    <3>2. Quiet(p)
      BY <1>1, <1>3, <3>1, ArriveQuiet DEF LocalsTyped
    <3> QED
      BY <1>1, <3>2, QuietKeeps
  <2>2. CASE next[p] = "act"
    <3> USE DEF IInv
    <3>1. Claims(p)
      BY <1>1, <1>3, <2>2 DEF Claims
    <3>2. Admitted(p) /\ ledger.active /\ \A q \in Procs : ~Holding(q)
      BY <3>1 DEF AdmittedToAct, ClaimIsFree
    <3>3. Alone(p) /\ pc'[p] = "act" /\ event'[p] = event[p]
      BY <1>1, <1>3, <2>2
         DEF LocalsTyped, Arrive, Goto, Alone, Places, Nexts
    <3>4. Typed'
      BY <1>1, <3>3 DEF Typed, Alone, Shape
    <3>5. \A q \in Procs : EventFits(q)' /\ WriteAccepted(q)'
      BY <1>1, <3>3 DEF Alone, EventFits, WriteAccepted
    <3>6. LinesDiffer'
      BY <1>1, <3>3 DEF Alone, LinesDiffer
    <3>7. \A q \in Procs : Holding(q)' => q = p
      BY <3>2, <3>3 DEF Alone, Holding
    <3>8. \A q \in Procs : ~Claims(q)'
      <4>1. ASSUME NEW q \in Procs, Claims(q)'
            PROVE  q = p
        <5>1. ~(q = p) => Claims(q) /\ seen[q] = seen[p]
          BY <1>1, <1>3, <3>3, <4>1 DEF Alone, Claims, LocalsTyped
        <5> QED
          BY <1>1, <1>3, <5>1 DEF LinesDiffer, Claims
      <4> QED
        BY <3>3, <4>1 DEF Claims
    <3>9. OneHolder' /\ HeldIsClosed' /\ ClaimIsFree' /\ AttemptsCounted'
      BY <1>1, <3>2, <3>7, <3>8
         DEF OneHolder, HeldIsClosed, ClaimIsFree, AttemptsCounted
    <3>10. AdmittedToAct'
      <4>1. \A q \in Procs : pc'[q] = "act" => q = p
        BY <3>7 DEF Holding
      <4> QED
        BY <1>1, <3>2, <3>3, <3>8, <4>1 DEF AdmittedToAct, Admitted
    <3> QED
      BY <3>4, <3>5, <3>6, <3>9, <3>10
  <2> QED
    BY <2>1, <2>2
<1> QED
  BY <1>2, <1>3 DEF AppendCache

-----------------------------------------------------------------------------
(* The other steps                                                         *)

\* What a run does but for its appends, its actions and what they report.
CoordinatorStep(p) ==
  \/ Emit(p) \/ LookForComment(p) \/ PostComment(p) \/ RecordComment(p)
  \/ Prepare(p) \/ CreateManifest(p) \/ FillManifest(p) \/ Start(p)
  \/ Started(p) \/ Reconcile(p) \/ Decide(p) \/ Drifted(p)
  \/ Complete(p) \/ Leave(p) \/ Turn(p) \/ FailureRecorded(p) \/ TryAgain(p)
  \/ Enter(p) \/ HardStop(p) \/ AppendTorn(p) \/ LoseComment(p) \/ Die(p)

\* All of it leads to a quiet place.
LEMMA CoordinatorQuiet ==
  ASSUME IInv, NEW p \in Procs, CoordinatorStep(p)
  PROVE  Quiet(p)
<1>1. LocalsTyped
  BY DEF IInv, Typed
<1> DEFINE Wait(place) == Goto(p, place) /\ UNCHANGED <<event, seen, next, then>>
           Tell(e, place) == AppendThen(p, e, place) /\ UNCHANGED then
           TellThen(e, place) == /\ AppendThen(p, e, "emit")
                                 /\ then' = [then EXCEPT ![p] = place]
<1> USE DEF WellFormed, IsResult
\* The forms such a step takes.
<1>2. End(p) => Quiet(p)
  BY <1>1, EndQuiet
<1>3. \A place \in QuietPlaces : Wait(place) => Quiet(p)
  BY <1>1, GotoQuiet DEF LocalsTyped
<1>4. \A e : \A place \in Nexts \ {"act"} :
        Tell(e, place) /\ WellFormed(e) /\ ~IsResult(e) => Quiet(p)
  BY <1>1, AppendQuiet DEF LocalsTyped
<1>5. \A e : \A place \in Thens :
        TellThen(e, place) /\ WellFormed(e) /\ ~IsResult(e) => Quiet(p)
  <2> SUFFICES ASSUME NEW e, NEW place \in Thens, TellThen(e, place),
                      WellFormed(e), ~IsResult(e)
               PROVE  Quiet(p)
    OBVIOUS
  <2>1. then' \in [Procs -> Thens] /\ "emit" \in Nexts
    BY <1>1 DEF LocalsTyped, Nexts
  <2> QED
    BY <1>1, <2>1, AppendQuiet
<1>6. \A keys : \A place \in Thens : EmitThen(p, keys, place) => Quiet(p)
  BY <1>1, EmitThenQuiet
<1>7. {"look", "posted", "post", "create", "start", "fill", "started", "drifted",
       "loop", "prepare"} \subseteq QuietPlaces
  BY DEF QuietPlaces, Places
<1>8. {"emit", "started", "loop", "drifted", "idle", "failed"} \subseteq Nexts \ {"act"}
      /\ {"reconcile", "decide", "loop", "idle", "again"} = Thens
  BY DEF Nexts, Thens
<1> HIDE DEF WellFormed, IsResult
\* What the coordinator appends is no result, and blocks when it fails a stage.
<1>9. /\ \A k : LET e == [type |-> "github_evidence", key |-> k]
                IN  WellFormed(e) /\ ~IsResult(e)
      /\ \A t : LET e == [type |-> "target_observed", target |-> t]
                IN  WellFormed(e) /\ ~IsResult(e)
      /\ \A i : WellFormed(Unsafe(i)) /\ ~IsResult(Unsafe(i))
      /\ WellFormed(Resumed) /\ ~IsResult(Resumed)
      /\ \A t \in {"workflow_started", "workflow_failed", "workflow_completed"} :
           WellFormed([type |-> t]) /\ ~IsResult([type |-> t])
  BY DEF WellFormed, IsResult, Unsafe, Resumed
<1>10. CASE Emit(p)
  <2>1. CASE /\ Arrive(p, then[p]) /\ then' = [then EXCEPT ![p] = "idle"]
    <3>1. then[p] \in QuietPlaces /\ then' \in [Procs -> Thens]
      BY <1>1, <2>1 DEF LocalsTyped, QuietPlaces, Places, Thens
    <3> QED
      BY <1>1, <2>1, <3>1, ArriveQuiet
  <2>2. CASE UNCHANGED <<pc, event, seen, next, then>> /\ pc[p] = "emit"
    BY <1>1, <2>2 DEF LocalsTyped, Quiet, Alone
  <2> QED
    BY <1>2, <1>3, <1>7, <1>10, <2>1, <2>2 DEF Emit
<1>11. CASE LookForComment(p)
  BY <1>2, <1>3, <1>7, <1>11 DEF LookForComment
<1>12. CASE PostComment(p)
  BY <1>3, <1>7, <1>12 DEF PostComment
<1>13. CASE RecordComment(p)
  BY <1>4, <1>8, <1>9, <1>13 DEF RecordComment
<1>14. CASE Prepare(p)
  BY <1>2, <1>3, <1>7, <1>14 DEF Prepare
<1>15. CASE CreateManifest(p)
  BY <1>2, <1>3, <1>7, <1>15 DEF CreateManifest
<1>16. CASE FillManifest(p)
  BY <1>3, <1>7, <1>16 DEF FillManifest
<1>17. CASE Start(p)
  BY <1>2, <1>3, <1>4, <1>7, <1>8, <1>9, <1>17 DEF Start
<1>18. CASE Started(p)
  BY <1>2, <1>6, <1>8, <1>18 DEF Started
<1>19. CASE Reconcile(p)
  BY <1>2, <1>6, <1>8, <1>19 DEF Reconcile
<1>20. CASE Decide(p)
  BY <1>2, <1>3, <1>4, <1>5, <1>7, <1>8, <1>9, <1>20 DEF Decide
<1>21. CASE Drifted(p)
  BY <1>2, <1>5, <1>8, <1>9, <1>21 DEF Drifted
<1>22. CASE Complete(p)
  BY <1>2, <1>4, <1>5, <1>8, <1>9, <1>22 DEF Complete
<1>23. CASE Leave(p) \/ AppendTorn(p) \/ LoseComment(p) \/ Die(p)
  BY <1>2, <1>23 DEF Leave, AppendTorn, LoseComment, Die
<1>24. CASE Turn(p)
  <2> DEFINE i == ledger.index
             reuse == [type |-> "stage_reused", stage |-> i, target |-> target,
                       artifact |-> Stages[i].kind = "artifact_verify",
                       published |-> {}]
             admit == [type |-> "stage_admitted", stage |-> i,
                       attempt |-> ledger.attempts[i] + 1]
  <2>1. /\ WellFormed(reuse) /\ ~IsResult(reuse)
        /\ WellFormed(admit) /\ ~IsResult(admit) /\ admit.type = "stage_admitted"
    BY DEF WellFormed, IsResult
  <2> HIDE DEF reuse, admit
  <2>2. \/ End(p) \/ TellThen(reuse, "loop") \/ Tell(Unsafe(i), "idle")
        \/ Tell(admit, "act")
    BY <1>24 DEF Turn, reuse, admit
  <2>3. CASE Tell(admit, "act")
    <3>1. then' \in [Procs -> Thens] /\ "act" \in Nexts
      BY <1>1, <2>3 DEF LocalsTyped, Nexts
    <3> QED
      BY <1>1, <2>1, <2>3, <3>1, AppendQuiet
  <2> QED
    BY <1>2, <1>4, <1>5, <1>8, <1>9, <2>1, <2>2, <2>3
<1>25. CASE FailureRecorded(p)
  BY <1>2, <1>6, <1>8, <1>25 DEF FailureRecorded
<1>26. CASE TryAgain(p)
  BY <1>4, <1>8, <1>9, <1>26 DEF TryAgain
<1>27. CASE Enter(p)
  BY <1>3, <1>7, <1>27 DEF Enter
<1>28. CASE HardStop(p)
  BY <1>4, <1>8, <1>9, <1>28 DEF HardStop
<1> QED
  BY <1>10, <1>11, <1>12, <1>13, <1>14, <1>15, <1>16, <1>17, <1>18, <1>19,
     <1>20, <1>21, <1>22, <1>23, <1>24, <1>25, <1>26, <1>27, <1>28
     DEF CoordinatorStep

\* None of it writes to the ledger, carries an action out or mends a chain.
LEMMA CoordinatorKeeps ==
  ASSUME IInv, NEW p \in Procs, CoordinatorStep(p)
  PROVE  IInv' /\ UNCHANGED executed
<1>1. /\ UNCHANGED <<ledger, executed, artifact>>
      /\ sound' => sound
  BY DEF CoordinatorStep, Emit, LookForComment, PostComment, RecordComment,
         Prepare, CreateManifest, FillManifest, Start, Started, Reconcile, Decide,
         Drifted, Complete, Leave, Turn, FailureRecorded, TryAgain, Enter,
         HardStop, AppendTorn, LoseComment, Die, store, world
<1>2. artifact' \in {"missing", "exact", "other"}
  BY <1>1 DEF IInv, Typed
<1> QED
  BY <1>1, <1>2, CoordinatorQuiet, QuietKeeps

\* A result comes from the process that was admitted, and uses up the attempt.
LEMMA ReportsKeep ==
  ASSUME IInv, NEW p \in Procs, NEW i, NEW e, Reports(p, i, e),
         IsResult(e), "type" \in DOMAIN e, UNCHANGED artifact
  PROVE  /\ IInv'
         /\ \A j \in StageIds : executed'[j] # executed[j] => j = ledger.index
<1>1. /\ pc[p] = "act" /\ Typed /\ AttemptsCounted /\ Admitted(p)
      /\ i = event[p].stage
  BY DEF IInv, AdmittedToAct, Reports
<1>2. /\ i \in StageIds /\ i = ledger.index
      /\ executed[i] + 1 <= ledger.attempts[i]
      /\ executed \in [StageIds -> Nat] /\ LocalsTyped
  BY <1>1 DEF Admitted, Typed
<1>3. /\ executed' = [executed EXCEPT ![i] = executed[i] + 1]
      /\ UNCHANGED <<ledger, sound, seen, next, then>>
      /\ event' = [event EXCEPT ![p] = e] /\ Goto(p, "report")
  BY DEF Reports, store
<1>4. Alone(p) /\ pc'[p] = "report" /\ event'[p] = e
  BY <1>2, <1>3 DEF LocalsTyped, Alone, Goto, Places
<1>5. Holding(p) /\ EventFits(p)' /\ WriteAccepted(p)'
  BY <1>1, <1>4 DEF Holding, EventFits, WriteAccepted
<1>6. executed' \in [StageIds -> Nat] /\ AttemptsCounted'
  BY <1>1, <1>2, <1>3 DEF AttemptsCounted
<1>7. artifact' \in {"missing", "exact", "other"}
  BY <1>1 DEF Typed
<1>8. IInv'
  BY <1>3, <1>4, <1>5, <1>6, <1>7, MoveKeeps
<1> QED
  BY <1>2, <1>3, <1>8

\* An action happens in its turn, whatever it does and reports.
LEMMA ActKeeps ==
  ASSUME IInv, NEW p \in Procs, Act(p)
  PROVE  /\ IInv'
         /\ \A j \in StageIds : executed'[j] # executed[j] => j = ledger.index
<1>1. PICK i \in StageIds : \/ ActCommand(p, i) \/ ActArtifact(p, i)
                            \/ ActCommit(p, i) \/ ActPush(p, i)
                            \/ ActDraftPr(p, i) \/ ActComment(p, i)
  BY DEF Act
<1>2. UNCHANGED artifact
  BY <1>1 DEF ActCommand, ActArtifact, ActCommit, ActPush, ActDraftPr, ActComment,
              world
<1> DEFINE Tells(e) == IsResult(e) /\ "type" \in DOMAIN e
<1>3. /\ \A published : Tells(Passed(i, published))
      /\ Tells([Passed(i, {}) EXCEPT !.artifact = TRUE])
      /\ \A class : Tells(Failed(i, class))
      /\ Tells(StageFailed(i))
  BY DEF Passed, Failed, StageFailed, IsResult
<1>4. artifact \in {"missing", "exact", "other"}
  BY DEF IInv, Typed
<1> HIDE DEF Tells
<1>5. \E e : Reports(p, i, e) /\ Tells(e)
  <2>1. CASE ActCommand(p, i)
    BY <1>3, <2>1 DEF ActCommand
  <2>2. CASE ActArtifact(p, i)
    BY <1>3, <1>4, <2>2 DEF ActArtifact
  <2>3. CASE ActCommit(p, i)
    BY <1>3, <2>3 DEF ActCommit
  <2>4. CASE ActPush(p, i)
    BY <1>3, <2>4 DEF ActPush
  <2>5. CASE ActDraftPr(p, i)
    BY <1>3, <2>5 DEF ActDraftPr
  <2>6. CASE ActComment(p, i)
    BY <1>3, <2>6 DEF ActComment
  <2> QED
    BY <1>1, <2>1, <2>2, <2>3, <2>4, <2>5, <2>6
<1> QED
  BY <1>2, <1>5, ReportsKeep DEF Tells

\* The result is held until it is written.
LEMMA ReportKeeps ==
  ASSUME IInv, NEW p \in Procs, Report(p)
  PROVE  IInv'
<1> DEFINE e == event[p]
<1>1. /\ pc[p] = "report" /\ LocalsTyped /\ executed \in [StageIds -> Nat]
      /\ artifact \in {"missing", "exact", "other"}
      /\ IsResult(e) /\ "type" \in DOMAIN e
  BY DEF IInv, Typed, EventFits, Report
<1>2. UNCHANGED <<ledger, sound, artifact, executed>>
  BY DEF Report, store, world
<1>3. CASE End(p)
  BY <1>1, <1>2, <1>3, EndQuiet, QuietKeeps
<1>4. ASSUME NEW told, NEW place \in Nexts \ {"act"}, AppendThen(p, told, place),
             IsResult(told), then' \in [Procs -> Thens]
      PROVE  IInv'
  <2>1. Alone(p) /\ pc'[p] = "append" /\ event'[p] = told /\ next'[p] = place
    BY <1>1, <1>4 DEF LocalsTyped, AppendThen, Goto, Alone, Places
  <2>2. Holding(p) /\ EventFits(p)' /\ WriteAccepted(p)'
    BY <1>1, <1>4, <2>1 DEF Holding, EventFits, WriteAccepted, WellFormed, IsResult
  <2> QED
    BY <1>1, <1>2, <2>1, <2>2, MoveKeeps
<1>5. CASE /\ e.type = "stage_passed"
           /\ AppendThen(p, [e EXCEPT !.target = target], "emit")
           /\ then' = [then EXCEPT ![p] = "loop"]
  <2>1. IsResult([e EXCEPT !.target = target])
    BY <1>1, <1>5 DEF IsResult
  <2>2. then' \in [Procs -> Thens] /\ "emit" \in Nexts
    BY <1>1, <1>5 DEF LocalsTyped, Thens, Nexts
  <2> QED
    BY <1>4, <1>5, <2>1, <2>2
<1>6. CASE AppendThen(p, e, "failed") /\ UNCHANGED then
  BY <1>1, <1>4, <1>6 DEF LocalsTyped, Nexts
<1> QED
  BY <1>3, <1>5, <1>6 DEF Report

-----------------------------------------------------------------------------
(* The invariant and the properties                                        *)

\* Every step keeps the invariant, and acts in turn only.
LEMMA StepKeeps ==
  ASSUME IInv, [Next]_vars
  PROVE  /\ IInv'
         /\ \A j \in StageIds : executed'[j] # executed[j] => j = ledger.index
<1>1. ASSUME NEW p \in Procs, AppendRead(p) \/ AppendCache(p) \/ Report(p)
      PROVE  IInv' /\ UNCHANGED executed
  BY <1>1, AppendReadKeeps, AppendCacheKeeps, ReportKeeps
     DEF AppendRead, AppendCache, Report
<1>2. ASSUME NEW p \in Procs, AppendWrite(p)
      PROVE  IInv' /\ UNCHANGED executed
  <2>1. /\ pc[p] = "write" /\ Goto(p, "cache")
        /\ UNCHANGED <<artifact, executed, event, seen, next, then>>
    BY <1>2 DEF AppendWrite, world
  <2>2. CASE seen[p] = ledger.events
    BY <1>2, <2>1, <2>2, WriteKeeps DEF AppendWrite
  <2>3. CASE seen[p] # ledger.events
    BY <1>2, <2>1, <2>3, BrokenWriteKeeps DEF AppendWrite
  <2> QED
    BY <2>1, <2>2, <2>3
<1>3. ASSUME NEW p \in Procs, CoordinatorStep(p)
      PROVE  IInv' /\ UNCHANGED executed
  BY <1>3, CoordinatorKeeps
<1>4. CASE \/ \E k \in Keys : CommentLands(k)
           \/ Drift \/ Tick \/ UNCHANGED vars
  <2>1. /\ UNCHANGED <<ledger, sound, executed, pc, event, seen, next, then>>
        /\ artifact' \in {"missing", "exact", "other"}
    BY <1>4 DEF CommentLands, Drift, Tick, vars, store, world, locals, IInv, Typed
  <2> QED
    BY <2>1, RestKeeps
<1> QED
  BY <1>1, <1>2, <1>3, <1>4, ActKeeps DEF Next, Step, CoordinatorStep

\* The invariant holds however processes overlap, die and tear lines.
THEOREM WorkflowInvariant == Spec => []IInv
<1>1. Init => IInv
  <2> SUFFICES ASSUME Init PROVE IInv
    OBVIOUS
  <2>1. Typed
    BY DEF Init, Typed, LocalsTyped, Shape, Fields, Statuses, Places, Nexts, Thens,
           NewProjection
  <2>2. \A p \in Procs : EventFits(p) /\ WriteAccepted(p) /\ ~Holding(p) /\ ~Claims(p)
    BY DEF Init, EventFits, WriteAccepted, Holding, Claims
  <2>3. LinesDiffer /\ AttemptsCounted
    BY DEF Init, LinesDiffer, AttemptsCounted, NewProjection
  <2>4. \A p \in Procs : pc[p] # "act"
    BY DEF Init
  <2> QED
    BY <2>1, <2>2, <2>3, <2>4
       DEF IInv, OneHolder, HeldIsClosed, ClaimIsFree, AdmittedToAct
<1> QED
  BY <1>1, StepKeeps, PTL DEF Spec

\* However many processes run the workflow at once, at most one is inside an
\* action: without a lock, by the chain of the ledger (workflow_store.py).
THEOREM OneActsAtATime == Spec => []OneActor
<1>1. IInv => OneActor
  <2> SUFFICES ASSUME IInv PROVE OneActor
    OBVIOUS
  <2> DEFINE S == {p \in Procs : pc[p] \in {"act", "report"}}
  <2>1. \A p, q \in S : p = q
    BY DEF IInv, OneHolder, Holding
  <2>2. CASE S = {}
    BY <2>2, FS_EmptySet DEF OneActor
  <2>3. CASE S # {}
    <3>1. PICK p \in S : S = {p}
      BY <2>1, <2>3
    <3> QED
      <4>1. Cardinality(S) = 1
        BY <3>1, FS_Singleton
      <4> QED
        BY <4>1 DEF OneActor
  <2> QED
    BY <2>2, <2>3
<1> QED
  BY <1>1, WorkflowInvariant, PTL

\* No crash, race or retry makes the ledger count fewer actions than happened.
THEOREM EveryAttemptCounts == Spec => []AttemptsCounted
<1>1. IInv => AttemptsCounted
  BY DEF IInv
<1> QED
  BY <1>1, WorkflowInvariant, PTL

\* A stage that has passed is never carried out again, and none out of turn.
THEOREM StagesInTurn == Spec => PassedNotRepeated
<1>1. IInv /\ [Next]_vars
        => [\A i \in StageIds : executed'[i] # executed[i] => i = ledger.index]_vars
  BY StepKeeps
<1> QED
  BY <1>1, WorkflowInvariant, PTL DEF Spec, PassedNotRepeated

-----------------------------------------------------------------------------
(* Budgets, evidence and retries                                           *)

\* A process that has an event to write or to report.
Pending(p) == pc[p] \in {"report", "append", "write"}
Emitting(p) == pc[p] \in {"look", "post", "posted"}

\* The part of the ledger these invariants count.
Counted(l) ==
  /\ l.spent \in [Counters -> Nat] /\ l.keys \subseteq Keys
  /\ l.index \in 1..(LastStage + 1)

Tallies ==
  /\ Counted(ledger)
  /\ comments \in [Keys -> Nat] /\ lost \in [Keys -> Nat]
  /\ todo \in [Procs -> Seq(Keys)]

\* Runs that do not overlap follow each other.
OneAtATime ==
  overlapped \/ \A p, q \in Procs : pc[p] # "idle" /\ pc[q] # "idle" => p = q

\* A comment that is still on its way was sent by a call that was given up.
OnTheWay(k) == IF k \in inFlight THEN 1 ELSE 0
CommentsAccounted ==
  \A k \in Keys : /\ OnTheWay(k) <= lost[k]
                  /\ ~overlapped => comments[k] + OnTheWay(k) <= 1 + lost[k]

\* One that is about to be sent was not found, and is not on its way but for those.
NotYetTold(p) ==
  LET k == todo[p][1] IN
  pc[p] = "post" => overlapped \/ comments[k] + OnTheWay(k) <= lost[k]

\* What is to be recorded is on the issue.
Evidence(p) == Pending(p) /\ event[p].type = "github_evidence"
ShownFirst(p) ==
  /\ Emitting(p) => todo[p] # <<>>
  /\ pc[p] = "posted" => comments[todo[p][1]] > 0
  /\ Evidence(p) => event[p].key \in Keys /\ comments[event[p].key] > 0

\* There is room for a comment, unless another run takes it.
RoomToTell(p) ==
  Emitting(p) \/ Evidence(p) =>
    overlapped \/ ledger.spent.github_comment < Budgets.github_comment

\* An admission that can still be accepted finds the budget it was checked for:
\* what was spent since was spent on its stage, and took its attempt.
RoomFor(e) ==
  LET c == BudgetCounter(Stages[e.stage].kind) IN
  /\ e.stage \in StageIds /\ e.stage <= ledger.index
  /\ e.attempt <= ledger.attempts[e.stage] + 1
  /\ \/ e.stage < ledger.index \/ e.attempt < ledger.attempts[e.stage] + 1
     \/ ledger.spent[c] < Budgets[c] \/ (c = "github_comment" /\ overlapped)
RoomToAct(p) ==
  Pending(p) /\ event[p].type = "stage_admitted" =>
    event[p].attempt \in Nat /\ RoomFor(event[p])

\* A pause and a resumable failure are of stages that may end so.
FailureFits(p) ==
  LET e == event[p] IN
  Pending(p) =>
    /\ IsResult(e) => e.stage \in StageIds
    /\ e.type = "stage_paused" => MayPause(e.stage)
    /\ e.type = "stage_failed" /\ e.class = "resumable" =>
         Stages[e.stage].class = "resumable"

Fits(p) ==
  NotYetTold(p) /\ ShownFirst(p) /\ RoomToTell(p) /\ RoomToAct(p) /\ FailureFits(p)

\* A stage that can be admitted once more has an attempt left.
AttemptsLeft ==
  \A i \in StageIds : \/ MayPause(i)
    \/ /\ ledger.attempts[i] <= Attempts(i)
       /\ i > ledger.index => ledger.attempts[i] = 0
       /\ i = ledger.index /\ ~ledger.active /\ ledger.status \notin Stopped =>
            ledger.attempts[i] < Attempts(i)

CountInv ==
  /\ Tallies /\ OneAtATime /\ CommentsAccounted /\ RecordedIsShown /\ AttemptsLeft
  /\ BudgetsHold /\ \A p \in Procs : Fits(p)

-----------------------------------------------------------------------------
(* What an event counts                                                    *)

\* The contract: its stages are a list, with a kind, a class and retries each.
LEMMA Contract ==
  /\ LastStage \in Nat /\ StageIds = 1..LastStage
  /\ \A c \in Counters : Budgets[c] \in Nat
  /\ \A i \in StageIds : /\ BudgetCounter(Stages[i].kind) \in Counters
                         /\ Stages[i].retry \in Nat /\ Attempts(i) \in Nat \ {0}
<1>1. AuthorizationValid(Comments[Mine]) /\ LastStage \in Nat /\ StageIds = 1..LastStage
  BY CommentsAreRead
<1>2. \A c \in Counters : Budgets[c] \in Nat
  BY <1>1 DEF AuthorizationValid, BudgetsCover, Budgets
<1>3. \A i \in StageIds : StageValid(Stages[i])
  BY <1>1 DEF AuthorizationValid, StageIds, Stages
<1>4. ASSUME NEW i \in StageIds
      PROVE  /\ BudgetCounter(Stages[i].kind) \in Counters
             /\ Stages[i].retry \in Nat /\ Attempts(i) \in Nat \ {0}
  <2>1. Stages[i].kind \in Kinds /\ Stages[i].retry \in Nat
    BY <1>3 DEF StageValid
  <2> QED
    BY <2>1 DEF Kinds, BudgetCounter, Counters, Attempts
<1> QED
  BY <1>1, <1>2, <1>4

Spends(e, c) ==
  IF \/ e.type = "stage_admitted" /\ c = BudgetCounter(Stages[e.stage].kind)
     \/ e.type = "github_evidence" /\ c = "github_comment"
  THEN 1 ELSE 0
Passes(e) == e.type \in {"stage_passed", "stage_reused"}

\* What an accepted event adds to the tallies of the ledger.
LEMMA AfterTallies ==
  ASSUME NEW l, Shape(l), Counted(l), NEW e, Accepts(l, e)
  PROVE  /\ After(l, e).spent \in [Counters -> Nat]
         /\ \A c \in Counters : After(l, e).spent[c] = l.spent[c] + Spends(e, c)
         /\ After(l, e).keys =
              l.keys \union (IF e.type = "github_evidence" THEN {e.key} ELSE {})
         /\ Passes(e) => /\ l.index \in StageIds /\ After(l, e).index = l.index + 1
                         /\ ~After(l, e).active
         /\ ~Passes(e) => After(l, e).index = l.index
<1> DEFINE q == [l EXCEPT !.events = @ + 1]
<1> USE DEF Shape, Fields, Counted
<1>1. /\ Shape(q) /\ q.spent = l.spent /\ q.keys = l.keys /\ q.index = l.index
      /\ q.spent \in [Counters -> Nat] /\ q.index \in Nat
  OBVIOUS
<1>2. \A c \in Counters : l.spent[c] = l.spent[c] + 0
  OBVIOUS
<1> HIDE DEF q
<1>3. CASE e.type = "stage_admitted"
  <2>1. e.stage = l.index /\ l.index \in StageIds
    BY <1>3 DEF Accepts, AcceptsStart, AcceptsResume, AcceptsAdmission,
                AcceptsPass, AcceptsPause, AcceptsFailure, AcceptsEnd, AtStage
  <2>2. After(l, e) = AfterAdmission(q, e)
    BY <1>3 DEF After, q
  <2>3. After(l, e).keys = l.keys /\ After(l, e).index = l.index
    BY <1>1, <2>2 DEF AfterAdmission
  <2>4. After(l, e).spent =
          [l.spent EXCEPT ![BudgetCounter(Stages[e.stage].kind)] = @ + 1]
    BY <1>1, <2>2 DEF AfterAdmission
  <2>5. BudgetCounter(Stages[e.stage].kind) \in Counters
    BY <2>1, Contract
  <2> QED
    BY <1>1, <1>3, <2>3, <2>4, <2>5 DEF Spends, Passes
<1>4. CASE Passes(e)
  <2>1. After(l, e) = AfterPass(q, e)
    BY <1>4 DEF After, q, Passes
  <2>2. l.index \in StageIds
    BY <1>4 DEF Passes, Accepts, AcceptsStart, AcceptsResume, AcceptsAdmission,
                AcceptsPass, AcceptsPause, AcceptsFailure, AcceptsEnd, AtStage
  <2> QED
    BY <1>1, <1>2, <1>4, <2>1, <2>2 DEF AfterPass, Spends, Passes
<1>5. CASE e.type = "github_evidence"
  <2>1. After(l, e) = [q EXCEPT !.spent.github_comment = @ + 1,
                                !.keys = @ \union {e.key}]
    BY <1>5 DEF After, q
  <2>2. After(l, e).keys = l.keys \union {e.key} /\ After(l, e).index = l.index
    BY <1>1, <2>1
  <2>3. After(l, e).spent = [l.spent EXCEPT !["github_comment"] = @ + 1]
    BY <1>1, <2>1
  <2> QED
    BY <1>1, <1>5, <2>2, <2>3 DEF Spends, Passes, Counters
<1>6. CASE e.type \in {"workflow_started", "workflow_resumed", "target_observed",
                      "stage_paused", "stage_failed", "workflow_failed",
                      "workflow_completed"}
  <2>1. /\ After(l, e).spent = l.spent /\ After(l, e).keys = l.keys
        /\ After(l, e).index = l.index
    BY <1>1, <1>6 DEF After, q
  <2> QED
    BY <1>2, <1>6, <2>1 DEF Spends, Passes
<1> QED
  BY <1>3, <1>4, <1>5, <1>6
     DEF Passes, Accepts, AcceptsStart, AcceptsResume, AcceptsAdmission, AcceptsPass,
         AcceptsPause, AcceptsFailure, AcceptsEnd

\* A stage opens for another attempt by a pause, or by a failure that is resumed
\* while attempts are left; else it was open.
LEMMA AfterOpen ==
  ASSUME NEW l, Shape(l), NEW e, Accepts(l, e), ~Passes(e),
         ~After(l, e).active, After(l, e).status \notin Stopped
  PROVE  /\ e.type # "stage_admitted"
         /\ \/ ~l.active /\ l.status \notin Stopped
            \/ e.type = "stage_paused" /\ e.stage = l.index
            \/ /\ e.type = "stage_failed" /\ e.class = "resumable"
               /\ e.stage = l.index
               /\ l.attempts[l.index] <= Stages[l.index].retry
<1> DEFINE q == [l EXCEPT !.events = @ + 1]
<1> USE DEF Shape, Fields, Stopped
<1>1. /\ Shape(q) /\ q.index = l.index /\ q.active = l.active
      /\ q.status = l.status /\ q.attempts = l.attempts
  OBVIOUS
<1> HIDE DEF q
<1>2. e.type # "stage_admitted"
  BY AfterAdmitted
<1>3. CASE e.type \in {"workflow_started", "workflow_resumed"}
  <2>1. l.status \in {"NEW", "PAUSED_EXTERNAL", "RESUMABLE_FAILURE"}
    BY <1>3 DEF Accepts, AcceptsStart, AcceptsResume, AcceptsAdmission,
                AcceptsPass, AcceptsPause, AcceptsFailure, AcceptsEnd
  <2>2. After(l, e) = [q EXCEPT !.status = "RUNNING"]
    BY <1>3 DEF After, q
  <2> QED
    BY <1>1, <1>2, <2>1, <2>2
<1>4. CASE e.type = "stage_paused"
  BY <1>2, <1>4 DEF Accepts, AcceptsStart, AcceptsResume, AcceptsAdmission,
              AcceptsPass, AcceptsPause, AcceptsFailure, AcceptsEnd, AtStage
<1>5. CASE e.type = "stage_failed"
  <2>1. After(l, e) = [q EXCEPT !.status = AfterFailure(q, e), !.active = FALSE]
    BY <1>5 DEF After, q
  <2>2. AfterFailure(q, e) \notin Stopped
    BY <1>1, <2>1
  <2>3. e.class = "resumable" /\ l.attempts[l.index] <= Stages[l.index].retry
    BY <1>1, <2>2 DEF AfterFailure
  <2>4. e.stage = l.index
    BY <1>5 DEF Accepts, AcceptsStart, AcceptsResume, AcceptsAdmission,
                AcceptsPass, AcceptsPause, AcceptsFailure, AcceptsEnd, AtStage
  <2> QED
    BY <1>2, <1>5, <2>3, <2>4
<1>6. CASE e.type \in {"target_observed", "github_evidence"}
  BY <1>1, <1>2, <1>6 DEF After, q
<1>7. CASE e.type \in {"workflow_failed", "workflow_completed"}
  BY <1>1, <1>7 DEF After, q
<1> QED
  BY <1>2, <1>3, <1>4, <1>5, <1>6, <1>7
     DEF Passes, Accepts, AcceptsStart, AcceptsResume, AcceptsAdmission, AcceptsPass,
         AcceptsPause, AcceptsFailure, AcceptsEnd

-----------------------------------------------------------------------------
(* The steps                                                               *)

\* The step is p's, and leaves the emissions of the others.
Own(p) ==
  /\ Alone(p) /\ todo' \in [Procs -> Seq(Keys)]
  /\ \A q \in Procs \ {p} : todo'[q] = todo[q]

\* A step that leaves the ledger and the comments alone.
LEMMA MoveCounts ==
  ASSUME IInv, CountInv, NEW p \in Procs, Own(p), pc[p] # "idle", Fits(p)',
         UNCHANGED <<ledger, github, overlapped>>
  PROVE  CountInv'
<1> USE DEF CountInv
<1>1. UNCHANGED <<comments, inFlight, lost>>
  BY DEF github
<1>2. Tallies'
  BY <1>1 DEF Tallies, Counted, Own
<1>3. OneAtATime'
  BY DEF OneAtATime, Own, Alone
<1>4. CommentsAccounted' /\ RecordedIsShown' /\ AttemptsLeft' /\ BudgetsHold'
  BY <1>1 DEF CommentsAccounted, OnTheWay, RecordedIsShown, AttemptsLeft, BudgetsHold
<1>5. ASSUME NEW q \in Procs, q # p
      PROVE  Fits(q)'
  <2>1. /\ pc'[q] = pc[q] /\ event'[q] = event[q] /\ todo'[q] = todo[q]
    BY <1>5 DEF Own, Alone
  <2> QED
    BY <1>1, <2>1 DEF Fits, NotYetTold, ShownFirst, RoomToTell, RoomToAct, FailureFits,
                 Pending, Emitting, Evidence, OnTheWay, RoomFor
<1> QED
  BY <1>2, <1>3, <1>4, <1>5

\* A place that says nothing of comments, and an event that says nothing of
\* comments, budgets and attempts.
PlainEvent(e) ==
  /\ e.type \notin {"github_evidence", "stage_admitted"}
  /\ ~IsResult(e) /\ (e.type = "stage_failed" => e.class = "unsafe")
Plain(p) ==
  /\ pc[p] \notin {"look", "post", "posted", "report"}
  /\ Pending(p) => PlainEvent(event[p])

LEMMA PlainFits ==
  ASSUME NEW p \in Procs, Plain(p)'
  PROVE  Fits(p)'
BY DEF Plain, PlainEvent, Fits, NotYetTold, ShownFirst, RoomToTell, RoomToAct,
       FailureFits, Pending, Emitting, Evidence, IsResult

\* The write that counts.
LEMMA WriteCounts ==
  ASSUME IInv, CountInv, NEW p \in Procs, AppendWrite(p), seen[p] = ledger.events
  PROVE  CountInv'
<1> DEFINE e == event[p]
<1> USE DEF CountInv
<1>1. /\ Accepts(ledger, e) /\ Shape(ledger) /\ Counted(ledger)
      /\ pc[p] = "write" /\ Pending(p) /\ LocalsTyped
  BY DEF IInv, WriteAccepted, Typed, AppendWrite, Tallies, Pending
<1>2. /\ ledger' = After(ledger, e) /\ pc' = [pc EXCEPT ![p] = "cache"]
      /\ UNCHANGED <<comments, inFlight, lost, event, todo, overlapped>>
  BY DEF AppendWrite, Goto, github, races
<1>3. pc'[p] = "cache" /\ \A q \in Procs : q # p => pc'[q] = pc[q]
  BY <1>1, <1>2 DEF LocalsTyped
<1>4. Fits(p) /\ FailureFits(p) /\ RoomToAct(p) /\ ShownFirst(p) /\ RoomToTell(p)
  BY DEF Fits
<1>5. /\ ledger'.spent \in [Counters -> Nat]
      /\ \A c \in Counters : ledger'.spent[c] = ledger.spent[c] + Spends(e, c)
      /\ ledger'.keys =
           ledger.keys \union (IF e.type = "github_evidence" THEN {e.key} ELSE {})
      /\ Passes(e) => /\ ledger.index \in StageIds /\ ledger'.index = ledger.index + 1
                      /\ ~ledger'.active
      /\ ~Passes(e) => ledger'.index = ledger.index
  BY <1>1, <1>2, AfterTallies
<1>6. /\ Shape(ledger') /\ ledger.attempts \in [StageIds -> Nat]
      /\ ledger.spent \in [Counters -> Nat]
      /\ ledger.index \in 1..(LastStage + 1)
  BY <1>1, <1>2, AfterShape DEF Shape, Counted
<1>7. e.type = "github_evidence" => e.key \in Keys /\ comments[e.key] > 0
  BY <1>1, <1>4 DEF ShownFirst, Evidence
<1>8. e.type = "stage_admitted" =>
        /\ e.stage = ledger.index /\ e.stage \in StageIds
        /\ e.attempt = ledger.attempts[e.stage] + 1
        /\ ledger'.attempts =
             [ledger.attempts EXCEPT ![e.stage] = ledger.attempts[e.stage] + 1]
        /\ ~ledger.active /\ ledger.status \notin Stopped /\ ledger'.active
  <2>1. e.type = "stage_admitted" => AcceptsAdmission(ledger, e)
    BY <1>1 DEF Accepts, AcceptsStart, AcceptsResume, AcceptsAdmission,
                AcceptsPass, AcceptsPause, AcceptsFailure, AcceptsEnd
  <2> QED
    BY <1>1, <1>2, <2>1, AfterAdmitted DEF AcceptsAdmission, AtStage
<1>9. e.type # "stage_admitted" => ledger'.attempts = ledger.attempts
  BY <1>1, <1>2, AfterOthers
<1>10. Tallies'
  <2>1. ledger'.index \in 1..(LastStage + 1)
    BY <1>5, <1>6, Contract
  <2>2. ledger'.keys \subseteq Keys
    BY <1>1, <1>5, <1>7 DEF Counted
  <2>3. Counted(ledger')
    BY <1>5, <2>1, <2>2 DEF Counted
  <2> QED
    BY <1>2, <2>3 DEF Tallies
<1>11. OneAtATime' /\ CommentsAccounted'
  BY <1>1, <1>2, <1>3 DEF OneAtATime, CommentsAccounted, OnTheWay
<1>12. RecordedIsShown'
  BY <1>2, <1>5, <1>7 DEF RecordedIsShown
<1>13. BudgetsHold'
  <2> SUFFICES ASSUME NEW c \in Counters
               PROVE  ledger'.spent[c] <= Budgets[c] \/ (c = "github_comment" /\ overlapped')
    BY DEF BudgetsHold
  <2>1. ledger'.spent[c] = ledger.spent[c] + Spends(e, c)
    BY <1>5
  <2>2. CASE Spends(e, c) = 0
    BY <1>2, <1>6, <2>1, <2>2 DEF BudgetsHold
  <2>3. CASE e.type = "stage_admitted" /\ c = BudgetCounter(Stages[e.stage].kind)
    <3>1. ledger.spent[c] < Budgets[c] \/ (c = "github_comment" /\ overlapped)
      BY <1>1, <1>4, <1>6, <1>8, <2>3 DEF RoomToAct, RoomFor
    <3> QED
      BY <1>2, <1>6, <2>1, <2>3, <3>1, Contract DEF Spends
  <2>4. CASE e.type = "github_evidence" /\ c = "github_comment"
    <3>1. overlapped \/ ledger.spent[c] < Budgets[c]
      BY <1>1, <1>4, <2>4 DEF RoomToTell, Evidence
    <3> QED
      BY <1>2, <1>6, <2>1, <2>4, <3>1, Contract DEF Spends
  <2> QED
    BY <2>2, <2>3, <2>4 DEF Spends
<1>14. AttemptsLeft'
  <2> SUFFICES ASSUME NEW i \in StageIds, ~MayPause(i)
               PROVE  /\ ledger'.attempts[i] <= Attempts(i)
                      /\ i > ledger'.index => ledger'.attempts[i] = 0
                      /\ i = ledger'.index /\ ~ledger'.active /\ ledger'.status \notin Stopped =>
                           ledger'.attempts[i] < Attempts(i)
    BY DEF AttemptsLeft
  <2>1. /\ ledger.attempts[i] <= Attempts(i)
        /\ i > ledger.index => ledger.attempts[i] = 0
        /\ i = ledger.index /\ ~ledger.active /\ ledger.status \notin Stopped =>
             ledger.attempts[i] < Attempts(i)
    BY DEF AttemptsLeft
  <2>2. i \in Nat /\ Attempts(i) \in Nat \ {0} /\ ledger.attempts[i] \in Nat
    BY <1>6, Contract
  <2>3. CASE e.type = "stage_admitted"
    <3>1. ledger'.index = ledger.index
      BY <1>5, <2>3 DEF Passes
    <3> QED
      BY <1>6, <1>8, <2>1, <2>2, <2>3, <3>1
  <2>4. CASE Passes(e)
    <3>1. ledger'.attempts = ledger.attempts
      BY <1>9, <2>4 DEF Passes
    <3> QED
      BY <1>5, <1>6, <2>1, <2>2, <2>4, <3>1
  <2>5. CASE e.type # "stage_admitted" /\ ~Passes(e)
    <3>1. ledger'.attempts = ledger.attempts /\ ledger'.index = ledger.index
      BY <1>5, <1>9, <2>5
    <3>2. CASE i = ledger.index /\ ~ledger'.active /\ ledger'.status \notin Stopped
      <4>1. \/ ~ledger.active /\ ledger.status \notin Stopped
            \/ e.type = "stage_paused" /\ e.stage = ledger.index
            \/ /\ e.type = "stage_failed" /\ e.class = "resumable"
               /\ e.stage = ledger.index
               /\ ledger.attempts[ledger.index] <= Stages[ledger.index].retry
        BY <1>1, <1>2, <2>5, <3>2, AfterOpen
      <4>2. ~(e.type = "stage_paused" /\ e.stage = ledger.index)
        BY <1>1, <1>4, <3>2 DEF FailureFits
      <4>3. CASE /\ e.type = "stage_failed" /\ e.class = "resumable"
                 /\ e.stage = ledger.index
                 /\ ledger.attempts[ledger.index] <= Stages[ledger.index].retry
        <5>1. Stages[i].class = "resumable"
          BY <1>1, <1>4, <3>2, <4>3 DEF FailureFits
        <5> QED
          BY <2>1, <2>2, <3>1, <3>2, <4>3, <5>1, Contract DEF Attempts
      <4> QED
        BY <2>1, <3>1, <3>2, <4>1, <4>2, <4>3
    <3> QED
      BY <2>1, <3>1, <3>2
  <2> QED
    BY <2>3, <2>4, <2>5
<1>15. ASSUME NEW q \in Procs
       PROVE  Fits(q)'
  <2>1. CASE q = p
    BY <1>3, <2>1, PlainFits DEF Plain, Pending
  <2>2. CASE q # p /\ (Emitting(q) \/ Pending(q))
    <3>1. pc'[q] = pc[q] /\ event'[q] = event[q] /\ todo'[q] = todo[q] /\ Fits(q)
      BY <1>2, <1>3, <2>2
    <3>2. overlapped
      BY <1>1, <2>2 DEF OneAtATime, Emitting, Pending
    <3>3. NotYetTold(q)' /\ ShownFirst(q)' /\ FailureFits(q)'
      BY <1>2, <3>1 DEF Fits, NotYetTold, ShownFirst, FailureFits, Pending, Emitting,
                        Evidence, OnTheWay
    <3>4. RoomToTell(q)'
      BY <1>2, <3>2 DEF RoomToTell
    <3>5. RoomToAct(q)'
      <4> SUFFICES ASSUME Pending(q), event[q].type = "stage_admitted"
                   PROVE  event[q].attempt \in Nat /\ RoomFor(event[q])'
        BY <1>2, <3>1 DEF RoomToAct, Pending
      <4> DEFINE a == event[q]
                 c == BudgetCounter(Stages[a.stage].kind)
      <4>1. /\ a.stage \in StageIds /\ a.stage <= ledger.index /\ a.attempt \in Nat
            /\ a.attempt <= ledger.attempts[a.stage] + 1
            /\ \/ a.stage < ledger.index \/ a.attempt < ledger.attempts[a.stage] + 1
               \/ ledger.spent[c] < Budgets[c] \/ (c = "github_comment" /\ overlapped)
        BY <3>1 DEF Fits, RoomToAct, RoomFor
      <4>2. a.stage \in Nat /\ c \in Counters /\ ledger.attempts[a.stage] \in Nat
        <5>1. a.stage \in 1..LastStage /\ LastStage \in Nat /\ a.stage \in StageIds
          BY <4>1, Contract
        <5>2. c \in Counters
          BY <5>1, Contract
        <5> QED
          BY <1>6, <5>1, <5>2
      <4> HIDE DEF c, a
      <4>3. /\ a.stage <= ledger'.index
            /\ a.attempt <= ledger'.attempts[a.stage] + 1
            /\ \/ a.stage < ledger'.index \/ a.attempt < ledger'.attempts[a.stage] + 1
               \/ ledger'.spent[c] < Budgets[c] \/ (c = "github_comment" /\ overlapped)
        <5>1. CASE e.type = "stage_admitted"
          <6>1. ledger'.index = ledger.index
            BY <1>5, <5>1 DEF Passes
          <6>2. CASE a.stage = e.stage
            BY <1>6, <1>8, <4>1, <4>2, <5>1, <6>1, <6>2
          <6>3. CASE a.stage # e.stage
            BY <1>6, <1>8, <4>1, <4>2, <5>1, <6>1, <6>3
          <6> QED
            BY <6>2, <6>3
        <5>2. CASE Passes(e)
          BY <1>5, <1>6, <1>9, <4>1, <4>2, <5>2 DEF Passes
        <5>3. CASE e.type # "stage_admitted" /\ ~Passes(e)
          <6>1. ledger'.spent[c] = ledger.spent[c] \/ c = "github_comment"
            BY <1>5, <1>6, <4>2, <5>3 DEF Spends
          <6> QED
            BY <1>5, <1>9, <3>2, <4>1, <5>3, <6>1
        <5> QED
          BY <5>1, <5>2, <5>3
      <4> QED
        BY <1>2, <3>1, <4>1, <4>3 DEF RoomFor, c, a
    <3> QED
      BY <3>3, <3>4, <3>5 DEF Fits
  <2>3. CASE q # p /\ ~(Emitting(q) \/ Pending(q))
    <3>1. Plain(q)'
      BY <1>3, <2>3 DEF Plain, Pending, Emitting
    <3> QED
      BY <3>1, PlainFits
  <2> QED
    BY <2>1, <2>2, <2>3
<1> QED
  BY <1>10, <1>11, <1>12, <1>13, <1>14, <1>15

\* What a process has to tell changes by its own steps, to keys of the contract.
LEMMA TodoMoves ==
  ASSUME IInv, CountInv, NEW p \in Procs,
         CoordinatorStep(p) \/ AppendRead(p) \/ AppendWrite(p) \/ AppendCache(p)
           \/ Act(p) \/ Report(p)
  PROVE  todo' \in [Procs -> Seq(Keys)] /\ \A q \in Procs \ {p} : todo'[q] = todo[q]
<1> DEFINE Good == todo' \in [Procs -> Seq(Keys)] /\ \A q \in Procs \ {p} : todo'[q] = todo[q]
           Sets(s) == todo' = [todo EXCEPT ![p] = s]
<1>1. todo \in [Procs -> Seq(Keys)]
  BY DEF CountInv, Tallies
<1>2. \A s \in Seq(Keys) : Sets(s) => Good
  BY <1>1
<1>3. UNCHANGED todo => Good
  BY <1>1
<1>4. End(p) => Good
  <2>1. <<>> \in Seq(Keys) /\ (End(p) => Sets(<<>>))
    BY DEF End
  <2> QED
    BY <1>2, <2>1
<1>5. /\ \A n \in {"workflow_started", "workflow_resumed", "workflow_blocked",
                    "workflow_paused", "workflow_completed"} :
           Key(n) \in Keys /\ <<Key(n)>> \in Seq(Keys)
      /\ \A i \in StageIds : GatePass(i) \in Keys /\ <<GatePass(i)>> \in Seq(Keys)
  BY DEF Keys, Key, GatePass
<1> SUFFICES Good
  OBVIOUS
<1> HIDE DEF Good, Sets
<1>6. \A s \in Seq(Keys) : \A place : EmitThen(p, s, place) => Good
  <2>1. \A s, place : EmitThen(p, s, place) => Sets(s)
    BY DEF EmitThen, Sets
  <2> QED
    BY <1>2, <2>1
<1>7. todo[p] # <<>> => Tail(todo[p]) \in Seq(Keys)
  BY <1>1
<1>8. \A place : Arrive(p, place) /\ (place # "idle" => UNCHANGED todo) => Good
  BY <1>3, <1>4 DEF Arrive
<1>9. CASE Emit(p)
  <2>1. todo' = [todo EXCEPT ![p] = Tail(todo[p])] => Sets(Tail(todo[p]))
    BY DEF Sets
  <2>2. \/ End(p) \/ UNCHANGED todo
        \/ Arrive(p, then[p]) /\ (then[p] # "idle" => UNCHANGED todo)
        \/ todo[p] # <<>> /\ todo' = [todo EXCEPT ![p] = Tail(todo[p])]
    BY <1>9 DEF Emit
  <2> QED
    BY <1>2, <1>3, <1>4, <1>7, <1>8, <2>1, <2>2
<1>10. CASE RecordComment(p)
  <2>1. todo[p] # <<>> /\ Sets(Tail(todo[p]))
    BY <1>10 DEF RecordComment, CountInv, Fits, ShownFirst, Emitting, Sets
  <2> QED
    BY <1>2, <1>7, <2>1
<1>11. CASE Started(p)
  BY <1>4, <1>5, <1>6, <1>11 DEF Started
<1>12. CASE Reconcile(p)
  <2> DEFINE passed == [i \in 1..(ledger.index - 1) |-> GatePass(i)]
             ended  == IF ledger.status = "COMPLETED"
                       THEN <<Key("workflow_completed")>> ELSE <<>>
  <2>1. ledger.index \in 1..(LastStage + 1) /\ LastStage \in Nat /\ StageIds = 1..LastStage
    BY Contract DEF CountInv, Tallies, Counted
  <2>2. passed \in Seq(Keys)
    <3>1. \A i \in 1..(ledger.index - 1) : GatePass(i) \in Keys
      BY <1>5, <2>1
    <3>2. ledger.index - 1 \in Nat
      BY <2>1
    <3> QED
      BY <3>1, <3>2
  <2>3. ended \in Seq(Keys)
    BY <1>5
  <2>4. passed \o ended \in Seq(Keys)
    BY <2>2, <2>3
  <2>5. EmitThen(p, passed \o ended, "decide") \/ End(p)
    BY <1>12 DEF Reconcile
  <2> QED
    BY <1>4, <1>6, <2>4, <2>5
<1>13. CASE Decide(p)
  BY <1>2, <1>3, <1>4, <1>5, <1>13 DEF Decide, Sets
<1>14. CASE Drifted(p)
  BY <1>2, <1>4, <1>5, <1>14 DEF Drifted, Sets
<1>15. CASE Complete(p)
  BY <1>2, <1>3, <1>4, <1>5, <1>15 DEF Complete, Sets
<1>16. CASE Turn(p)
  <2>1. ledger.index \in StageIds
    BY <1>16, Contract DEF Turn, AtLoop, CountInv, Tallies, Counted
  <2>2. \/ End(p) \/ UNCHANGED todo \/ Sets(<<GatePass(ledger.index)>>)
    BY <1>16 DEF Turn, Sets
  <2> QED
    BY <1>2, <1>3, <1>4, <1>5, <2>1, <2>2
<1>17. CASE Report(p)
  <2>1. event[p].type = "stage_passed" => event[p].stage \in StageIds
    BY <1>17 DEF Report, CountInv, Fits, FailureFits, Pending, IsResult
  <2>2. \/ End(p) \/ UNCHANGED todo
        \/ event[p].type = "stage_passed" /\ Sets(<<GatePass(event[p].stage)>>)
    BY <1>17 DEF Report, Sets
  <2> QED
    BY <1>2, <1>3, <1>4, <1>5, <2>1, <2>2
<1>18. CASE FailureRecorded(p)
  BY <1>4, <1>5, <1>6, <1>18 DEF FailureRecorded
<1>19. CASE AppendCache(p)
  BY <1>4, <1>8, <1>19 DEF AppendCache
<1>20. CASE Act(p)
  <2>1. UNCHANGED todo
    BY <1>20 DEF Act, ActCommand, ActArtifact, ActCommit, ActPush, ActDraftPr,
                 ActComment, Reports
  <2> QED
    BY <1>3, <2>1
<1>21. CASE \/ AppendRead(p) \/ AppendWrite(p) \/ LookForComment(p) \/ PostComment(p)
            \/ Prepare(p) \/ CreateManifest(p) \/ FillManifest(p) \/ Start(p)
            \/ Leave(p) \/ TryAgain(p) \/ Enter(p) \/ HardStop(p) \/ AppendTorn(p)
            \/ LoseComment(p) \/ Die(p)
  BY <1>3, <1>4, <1>21
     DEF AppendRead, AppendWrite, LookForComment, PostComment, Prepare, CreateManifest,
         FillManifest, Start, Leave, TryAgain, Enter, HardStop, AppendTorn, LoseComment,
         Die
<1> QED
  BY <1>9, <1>10, <1>11, <1>12, <1>13, <1>14, <1>15, <1>16, <1>17, <1>18, <1>19, <1>20,
     <1>21 DEF CoordinatorStep

\* The comment that is posted was not on the issue, nor on its way.
LEMMA PostCounts ==
  ASSUME IInv, CountInv, NEW p \in Procs, Own(p), PostComment(p)
  PROVE  CountInv'
<1> DEFINE k == todo[p][1]
<1> USE DEF CountInv
<1>1. /\ pc[p] = "post" /\ Emitting(p) /\ todo[p] \in Seq(Keys) /\ todo[p] # <<>>
      /\ LocalsTyped /\ comments \in [Keys -> Nat] /\ lost \in [Keys -> Nat]
  BY DEF PostComment, Emitting, Fits, ShownFirst, Tallies, IInv, Typed
<1>2. k \in Keys
  BY <1>1
<1>3. /\ comments' = [comments EXCEPT ![k] = @ + 1] /\ pc' = [pc EXCEPT ![p] = "posted"]
      /\ UNCHANGED <<ledger, executed, inFlight, lost, event, todo, overlapped>>
  BY DEF PostComment, Goto, store, races
<1>4. /\ comments' \in [Keys -> Nat] /\ comments'[k] = comments[k] + 1
      /\ \A j \in Keys : comments'[j] >= comments[j] /\ (j # k => comments'[j] = comments[j])
  BY <1>1, <1>2, <1>3
<1>5. pc'[p] = "posted" /\ \A q \in Procs : q # p => pc'[q] = pc[q]
  BY <1>1, <1>3 DEF LocalsTyped
<1>6. Tallies'
  BY <1>3, <1>4 DEF Tallies, Counted
<1>7. OneAtATime'
  BY <1>1, <1>3, <1>5 DEF OneAtATime
<1>8. overlapped \/ comments[k] + OnTheWay(k) <= lost[k]
  BY <1>1 DEF Fits, NotYetTold
<1>9. CommentsAccounted'
  <2> SUFFICES ASSUME NEW j \in Keys
               PROVE  /\ OnTheWay(j)' <= lost'[j]
                      /\ ~overlapped => comments'[j] + OnTheWay(j)' <= 1 + lost'[j]
    BY <1>3 DEF CommentsAccounted
  <2>1. /\ OnTheWay(j) <= lost[j]
        /\ ~overlapped => comments[j] + OnTheWay(j) <= 1 + lost[j]
        /\ OnTheWay(j)' = OnTheWay(j)
        /\ OnTheWay(j) \in {0, 1} /\ lost' = lost /\ comments[j] \in Nat /\ lost[j] \in Nat
    <3>1. /\ OnTheWay(j) <= lost[j]
          /\ ~overlapped => comments[j] + OnTheWay(j) <= 1 + lost[j]
      BY DEF CommentsAccounted
    <3>2. OnTheWay(j)' = OnTheWay(j) /\ OnTheWay(j) \in {0, 1}
      BY <1>3 DEF OnTheWay
    <3> QED
      BY <1>1, <1>3, <3>1, <3>2
  <2>2. CASE j = k
    BY <1>4, <1>8, <2>1, <2>2
  <2>3. CASE j # k
    BY <1>4, <2>1, <2>3
  <2> QED
    BY <2>2, <2>3
<1>10. RecordedIsShown'
  BY <1>1, <1>3, <1>4 DEF RecordedIsShown, Tallies, Counted
<1>11. AttemptsLeft' /\ BudgetsHold'
  BY <1>3 DEF AttemptsLeft, BudgetsHold
<1>12. ASSUME NEW q \in Procs
       PROVE  Fits(q)'
  <2>1. CASE q = p
    <3>1. NotYetTold(q)' /\ RoomToAct(q)' /\ FailureFits(q)'
      BY <1>5, <2>1 DEF NotYetTold, RoomToAct, FailureFits, Pending
    <3>2. ShownFirst(q)'
      BY <1>1, <1>2, <1>3, <1>4, <1>5, <2>1 DEF ShownFirst, Evidence, Pending
    <3>3. RoomToTell(q)'
      BY <1>1, <1>3, <2>1 DEF Fits, RoomToTell
    <3> QED
      BY <3>1, <3>2, <3>3 DEF Fits
  <2>2. CASE q # p
    <3>1. pc'[q] = pc[q] /\ event'[q] = event[q] /\ todo'[q] = todo[q] /\ Fits(q)
      BY <1>3, <1>5, <2>2
    <3>2. NotYetTold(q)'
      BY <1>1, <1>3, <2>2, <3>1 DEF OneAtATime, NotYetTold
    <3>3. ShownFirst(q)'
      <4>1. todo[q] \in Seq(Keys)
        BY DEF Tallies
      <4>2. todo[q] # <<>> => todo[q][1] \in Keys
        BY <4>1
      <4>3. ShownFirst(q)
        BY <3>1 DEF Fits
      <4> QED
        BY <1>1, <1>4, <3>1, <4>2, <4>3 DEF ShownFirst, Evidence, Pending, Emitting
    <3>4. RoomToTell(q)' /\ RoomToAct(q)' /\ FailureFits(q)'
      BY <1>3, <3>1 DEF Fits, RoomToTell, RoomToAct, FailureFits, Pending, Emitting,
                        Evidence, RoomFor
    <3> QED
      BY <3>2, <3>3, <3>4 DEF Fits
  <2> QED
    BY <2>1, <2>2
<1> QED
  BY <1>6, <1>7, <1>9, <1>10, <1>11, <1>12

\* A call that is given up is counted, and its comment is on its way.
LEMMA LossCounts ==
  ASSUME IInv, CountInv, NEW p \in Procs, Own(p), LoseComment(p)
  PROVE  CountInv'
<1> DEFINE k == todo[p][1]
<1> USE DEF CountInv
<1>1. /\ pc[p] = "post" /\ Emitting(p) /\ todo[p] \in Seq(Keys) /\ todo[p] # <<>>
      /\ LocalsTyped /\ comments \in [Keys -> Nat] /\ lost \in [Keys -> Nat]
  BY DEF LoseComment, Emitting, Fits, ShownFirst, Tallies, IInv, Typed
<1>2. k \in Keys
  BY <1>1
<1>3. /\ lost' = [lost EXCEPT ![k] = @ + 1] /\ inFlight' = inFlight \union {k}
      /\ End(p) /\ UNCHANGED <<ledger, executed, comments, overlapped>>
  BY DEF LoseComment, store, races
<1>4. /\ lost' \in [Keys -> Nat] /\ lost'[k] = lost[k] + 1
      /\ \A j \in Keys : j # k => lost'[j] = lost[j] /\ OnTheWay(j)' = OnTheWay(j)
  BY <1>1, <1>2, <1>3 DEF OnTheWay
<1>5. /\ pc'[p] = "idle"
      /\ \A q \in Procs : q # p =>
           pc'[q] = pc[q] /\ event'[q] = event[q] /\ todo'[q] = todo[q]
  BY <1>1, <1>3 DEF LocalsTyped, End, Goto, Own, Alone
<1>6. Tallies'
  BY <1>3, <1>4 DEF Tallies, Counted, Own
<1>7. OneAtATime'
  BY <1>1, <1>3, <1>5 DEF OneAtATime
<1>8. CommentsAccounted'
  <2> SUFFICES ASSUME NEW j \in Keys
               PROVE  /\ OnTheWay(j)' <= lost'[j]
                      /\ ~overlapped => comments'[j] + OnTheWay(j)' <= 1 + lost'[j]
    BY <1>3 DEF CommentsAccounted
  <2>1. /\ OnTheWay(j) <= lost[j]
        /\ ~overlapped => comments[j] + OnTheWay(j) <= 1 + lost[j]
        /\ comments' = comments
        /\ OnTheWay(j) \in {0, 1} /\ OnTheWay(j)' \in {0, 1}
        /\ comments[j] \in Nat /\ lost[j] \in Nat
    <3>1. /\ OnTheWay(j) <= lost[j]
          /\ ~overlapped => comments[j] + OnTheWay(j) <= 1 + lost[j]
      BY DEF CommentsAccounted
    <3>2. OnTheWay(j) \in {0, 1} /\ OnTheWay(j)' \in {0, 1}
      BY DEF OnTheWay
    <3> QED
      BY <1>1, <1>3, <3>1, <3>2
  <2>2. CASE j = k
    <3>1. overlapped \/ comments[k] + OnTheWay(k) <= lost[k]
      BY <1>1, <1>3 DEF Fits, NotYetTold
    <3> QED
      BY <1>4, <2>1, <2>2, <3>1
  <2>3. CASE j # k
    BY <1>4, <2>1, <2>3
  <2> QED
    BY <2>2, <2>3
<1>9. RecordedIsShown' /\ AttemptsLeft' /\ BudgetsHold'
  BY <1>3 DEF RecordedIsShown, AttemptsLeft, BudgetsHold
<1>10. ASSUME NEW q \in Procs
       PROVE  Fits(q)'
  <2>1. CASE q = p
    BY <1>5, <2>1, PlainFits DEF Plain, Pending
  <2>2. CASE q # p
    <3>1. pc'[q] = pc[q] /\ event'[q] = event[q] /\ todo'[q] = todo[q] /\ Fits(q)
      BY <1>5, <2>2
    <3>2. NotYetTold(q)'
      BY <1>1, <1>3, <2>2, <3>1 DEF OneAtATime, NotYetTold
    <3>3. /\ ShownFirst(q)' /\ RoomToTell(q)' /\ RoomToAct(q)' /\ FailureFits(q)'
      BY <1>3, <3>1 DEF Fits, ShownFirst, RoomToTell, RoomToAct, FailureFits, Pending,
                        Emitting, Evidence, RoomFor
    <3> QED
      BY <3>2, <3>3 DEF Fits
  <2> QED
    BY <2>1, <2>2
<1> QED
  BY <1>6, <1>7, <1>8, <1>9, <1>10

\* A comment that was on its way lands.
LEMMA LandingCounts ==
  ASSUME IInv, CountInv, NEW k \in Keys, CommentLands(k)
  PROVE  CountInv'
<1> USE DEF CountInv
<1>1. /\ k \in inFlight /\ inFlight' = inFlight \ {k}
      /\ comments' = [comments EXCEPT ![k] = @ + 1]
      /\ UNCHANGED <<ledger, executed, lost, pc, event, todo, overlapped>>
  BY DEF CommentLands, store, locals, races
<1>2. comments \in [Keys -> Nat] /\ lost \in [Keys -> Nat] /\ todo \in [Procs -> Seq(Keys)]
  BY DEF Tallies
<1>3. /\ comments' \in [Keys -> Nat]
      /\ \A j \in Keys : /\ comments'[j] >= comments[j]
                        /\ comments'[j] + OnTheWay(j)' = comments[j] + OnTheWay(j)
  BY <1>1, <1>2 DEF OnTheWay
<1>4. Tallies' /\ OneAtATime' /\ AttemptsLeft' /\ BudgetsHold'
  BY <1>1, <1>3 DEF Tallies, Counted, OneAtATime, AttemptsLeft, BudgetsHold
<1>5. CommentsAccounted'
  <2> SUFFICES ASSUME NEW j \in Keys
               PROVE  /\ OnTheWay(j)' <= lost'[j]
                      /\ ~overlapped => comments'[j] + OnTheWay(j)' <= 1 + lost'[j]
    BY <1>1 DEF CommentsAccounted
  <2>1. /\ OnTheWay(j) <= lost[j]
        /\ ~overlapped => comments[j] + OnTheWay(j) <= 1 + lost[j]
    BY DEF CommentsAccounted
  <2>2. OnTheWay(j) \in {0, 1} /\ OnTheWay(j)' \in {0, 1} /\ OnTheWay(j)' <= OnTheWay(j)
    BY <1>1 DEF OnTheWay
  <2> QED
    BY <1>1, <1>2, <1>3, <2>1, <2>2
<1>6. RecordedIsShown'
  BY <1>1, <1>2, <1>3 DEF RecordedIsShown, Tallies, Counted
<1>7. ASSUME NEW q \in Procs
      PROVE  Fits(q)'
  <2>1. Fits(q) /\ (todo[q] # <<>> => todo[q][1] \in Keys)
    BY <1>2
  <2>2. NotYetTold(q)'
    BY <1>1, <1>3, <2>1 DEF Fits, NotYetTold, ShownFirst, Emitting
  <2>3. ShownFirst(q)'
    BY <1>1, <1>2, <1>3, <2>1 DEF Fits, ShownFirst, Evidence, Pending, Emitting
  <2>4. RoomToTell(q)' /\ RoomToAct(q)' /\ FailureFits(q)'
    BY <1>1, <2>1 DEF Fits, RoomToTell, RoomToAct, FailureFits, Pending, Emitting,
                      Evidence, RoomFor
  <2> QED
    BY <2>2, <2>3, <2>4 DEF Fits
<1> QED
  BY <1>4, <1>5, <1>6, <1>7

\* A run that begins beside another is one that overlaps.
LEMMA EnterCounts ==
  ASSUME IInv, CountInv, NEW p \in Procs, Own(p), Enter(p)
  PROVE  CountInv'
<1> USE DEF CountInv
<1>1. /\ pc[p] = "idle" /\ pc' = [pc EXCEPT ![p] = "prepare"] /\ LocalsTyped
      /\ overlapped' = (overlapped \/ \E q \in Procs \ {p} : pc[q] # "idle")
      /\ UNCHANGED <<ledger, executed, comments, inFlight, lost, event, todo>>
  BY DEF Enter, Goto, store, github, IInv, Typed
<1>2. pc'[p] = "prepare" /\ \A q \in Procs : q # p => pc'[q] = pc[q]
  BY <1>1 DEF LocalsTyped
<1>3. Tallies' /\ RecordedIsShown' /\ AttemptsLeft'
  BY <1>1 DEF Tallies, Counted, RecordedIsShown, AttemptsLeft
<1>4. OneAtATime'
  BY <1>1, <1>2 DEF OneAtATime
<1>5. CommentsAccounted' /\ BudgetsHold'
  BY <1>1 DEF CommentsAccounted, BudgetsHold, OnTheWay
<1>6. ASSUME NEW q \in Procs
      PROVE  Fits(q)'
  <2>1. CASE q = p
    BY <1>2, <2>1, PlainFits DEF Plain, Pending
  <2>2. CASE q # p
    BY <1>1, <1>2, <2>2 DEF Fits, NotYetTold, ShownFirst, RoomToTell, RoomToAct,
                            FailureFits, Pending, Emitting, Evidence, OnTheWay, RoomFor
  <2> QED
    BY <2>1, <2>2
<1> QED
  BY <1>3, <1>4, <1>5, <1>6

\* What an action reports fits its stage.
ResultFits(e, i) ==
  /\ IsResult(e) /\ e.stage = i
  /\ e.type = "stage_paused" => MayPause(i)
  /\ e.type = "stage_failed" /\ e.class = "resumable" => Stages[i].class = "resumable"

\* The appends of the coordinator but for the admission and the evidence are plain.
LEMMA PlainMoves ==
  ASSUME IInv, CountInv, NEW p \in Procs, CoordinatorStep(p), ~PostComment(p),
         ~LoseComment(p), ~Enter(p)
  PROVE  Fits(p)' /\ pc[p] # "idle" /\ UNCHANGED <<github, overlapped>>
<1>1. LocalsTyped /\ Fits(p)
  BY DEF IInv, Typed, CountInv
<1>2. UNCHANGED <<github, overlapped, ledger>>
  BY DEF CoordinatorStep, Emit, LookForComment, RecordComment, Prepare, CreateManifest,
         FillManifest, Start, Started, Reconcile, Decide, Drifted, Complete, Leave, Turn,
         FailureRecorded, TryAgain, HardStop, AppendTorn, Die, store, races
<1>3. pc[p] # "idle"
  BY DEF CoordinatorStep, Emit, LookForComment, RecordComment, Prepare, CreateManifest,
         FillManifest, Start, Started, Reconcile, Decide, Drifted, Complete, Leave, Turn,
         FailureRecorded, TryAgain, HardStop, AppendTorn, Die, AtLoop
<1> DEFINE Quietly == {"idle", "emit", "prepare", "create", "fill", "start", "started",
                       "reconcile", "decide", "drifted", "loop", "failed", "again"}
<1> SUFFICES Fits(p)'
  BY <1>2, <1>3
\* The forms such a step takes.
<1>4. \A place \in Quietly : Goto(p, place) => Fits(p)'
  <2> SUFFICES ASSUME NEW place \in Quietly, Goto(p, place) PROVE Plain(p)'
    BY PlainFits
  <2> QED
    BY <1>1 DEF Goto, Plain, Pending, LocalsTyped
<1>5. End(p) => Fits(p)'
  BY <1>4 DEF End
<1>6. \A e : \A place : AppendThen(p, e, place) /\ PlainEvent(e) => Fits(p)'
  <2> SUFFICES ASSUME NEW e, NEW place, AppendThen(p, e, place), PlainEvent(e)
               PROVE  Plain(p)'
    BY PlainFits
  <2> QED
    BY <1>1 DEF AppendThen, Goto, Plain, Pending, LocalsTyped
<1>7. \A keys : \A place : EmitThen(p, keys, place) => Fits(p)'
  BY <1>4 DEF EmitThen
<1>8. /\ \A t : PlainEvent([type |-> "target_observed", target |-> t])
      /\ \A i : PlainEvent(Unsafe(i))
      /\ PlainEvent(Resumed)
      /\ \A t \in {"workflow_started", "workflow_failed", "workflow_completed"} :
           PlainEvent([type |-> t])
      /\ \A i, t, a, b : PlainEvent([type |-> "stage_reused", stage |-> i, target |-> t,
                                    artifact |-> a, published |-> b])
  BY DEF PlainEvent, IsResult, Unsafe, Resumed
<1>9. CASE Emit(p)
  <2>1. CASE Arrive(p, then[p])
    <3>1. then[p] \in Thens
      BY <1>1 DEF LocalsTyped
    <3>2. then[p] \in Quietly
      BY <3>1 DEF Thens
    <3>3. Goto(p, then[p]) \/ End(p)
      BY <2>1 DEF Arrive
    <3> QED
      BY <1>4, <1>5, <3>2, <3>3
  <2>2. CASE UNCHANGED pc /\ pc[p] = "emit"
    <3>1. Plain(p)'
      BY <1>1, <2>2 DEF Plain, Pending
    <3> QED
      BY <3>1, PlainFits
  <2>3. CASE /\ todo[p] # <<>> /\ ledger.spent.github_comment < Budgets.github_comment
             /\ Goto(p, "look") /\ UNCHANGED <<event, todo>>
    <3>1. pc'[p] = "look"
      BY <1>1, <2>3 DEF Goto, LocalsTyped
    <3>2. NotYetTold(p)' /\ RoomToAct(p)' /\ FailureFits(p)' /\ ShownFirst(p)'
      BY <2>3, <3>1 DEF NotYetTold, RoomToAct, FailureFits, ShownFirst, Evidence, Pending
    <3>3. RoomToTell(p)'
      BY <1>2, <2>3, <3>1 DEF RoomToTell
    <3> QED
      BY <3>2, <3>3 DEF Fits
  <2>4. ledger.spent.github_comment \in Nat /\ Budgets.github_comment \in Nat
    BY Contract DEF CountInv, Tallies, Counted, Counters
  <2>5. ledger.spent.github_comment >= Budgets.github_comment
          \/ ledger.spent.github_comment < Budgets.github_comment
    BY <2>4
  <2> QED
    BY <1>5, <1>9, <2>1, <2>2, <2>3, <2>5 DEF Emit
<1>10. CASE LookForComment(p)
  <2> DEFINE k == todo[p][1]
  <2>1. CASE End(p)
    BY <1>5, <2>1
  <2>2. CASE /\ comments[k] <= 1 /\ UNCHANGED <<event, todo>>
             /\ Goto(p, IF comments[k] = 1 THEN "posted" ELSE "post")
    <3>1. pc[p] = "look" /\ Emitting(p)
      BY <1>10 DEF LookForComment, Emitting
    <3>2. /\ todo[p] # <<>> /\ todo[p] \in Seq(Keys)
          /\ comments \in [Keys -> Nat] /\ lost \in [Keys -> Nat]
      BY <1>1, <3>1 DEF Fits, ShownFirst, CountInv, Tallies
    <3>3. k \in Keys /\ comments[k] \in Nat /\ lost[k] \in Nat
      BY <3>2
    <3>4. pc'[p] = (IF comments[k] = 1 THEN "posted" ELSE "post")
      BY <1>1, <2>2 DEF Goto, LocalsTyped
    <3>5. UNCHANGED <<comments, inFlight, lost, todo, event, overlapped>>
      BY <1>2, <2>2 DEF github
    <3>6. NotYetTold(p)'
      <4>1. comments[k] = 0 => comments[k] + OnTheWay(k) <= lost[k]
        <5>1. OnTheWay(k) <= lost[k] /\ OnTheWay(k) \in {0, 1}
          BY <3>3 DEF CountInv, CommentsAccounted, OnTheWay
        <5> QED
          BY <3>3, <5>1
      <4> QED
        BY <2>2, <3>3, <3>4, <3>5, <4>1 DEF NotYetTold, OnTheWay
    <3>7. ShownFirst(p)'
      BY <2>2, <3>2, <3>3, <3>4, <3>5 DEF ShownFirst, Evidence, Pending
    <3>8. RoomToTell(p)'
      BY <1>1, <1>2, <3>1 DEF Fits, RoomToTell
    <3>9. RoomToAct(p)' /\ FailureFits(p)'
      BY <3>4 DEF RoomToAct, FailureFits, Pending
    <3> QED
      BY <3>6, <3>7, <3>8, <3>9 DEF Fits
  <2> QED
    BY <1>10, <2>1, <2>2 DEF LookForComment
<1>11. CASE RecordComment(p)
  <2>1. /\ pc[p] = "posted" /\ Emitting(p) /\ todo[p] # <<>> /\ comments[todo[p][1]] > 0
        /\ todo[p] \in Seq(Keys) /\ RoomToTell(p)
    BY <1>1, <1>11 DEF RecordComment, Emitting, Fits, ShownFirst, CountInv, Tallies
  <2>2. todo[p][1] \in Keys
    BY <2>1
  <2>3. /\ pc'[p] = "append" /\ event'[p] = [type |-> "github_evidence", key |-> todo[p][1]]
        /\ UNCHANGED comments
    BY <1>1, <1>2, <1>11 DEF RecordComment, AppendThen, Goto, LocalsTyped, github
  <2>4. NotYetTold(p)' /\ RoomToAct(p)' /\ FailureFits(p)'
    BY <2>3 DEF NotYetTold, RoomToAct, FailureFits, IsResult
  <2>5. ShownFirst(p)'
    BY <2>1, <2>2, <2>3 DEF ShownFirst, Emitting
  <2>6. RoomToTell(p)'
    BY <1>2, <2>1 DEF RoomToTell
  <2> QED
    BY <2>4, <2>5, <2>6 DEF Fits
<1>12. CASE Turn(p)
  <2> DEFINE i == ledger.index
             c == BudgetCounter(Stages[i].kind)
             reuse == [type |-> "stage_reused", stage |-> i, target |-> target,
                       artifact |-> Stages[i].kind = "artifact_verify",
                       published |-> {}]
             admit == [type |-> "stage_admitted", stage |-> i,
                       attempt |-> ledger.attempts[i] + 1]
  <2>1. \/ End(p) \/ AppendThen(p, reuse, "emit") \/ AppendThen(p, Unsafe(i), "idle")
        \/ ~(ledger.spent[c] >= Budgets[c]) /\ AppendThen(p, admit, "act")
    BY <1>12 DEF Turn
  <2>2. /\ i \in StageIds /\ i \in Nat /\ c \in Counters /\ ledger.attempts[i] \in Nat
        /\ Budgets[c] \in Nat /\ ledger.spent[c] \in Nat
    <3>1. i \in StageIds
      BY <1>12, Contract DEF Turn, AtLoop, CountInv, Tallies, Counted
    <3>2. i \in Nat /\ c \in Counters /\ \A d \in Counters : Budgets[d] \in Nat
      BY <3>1, Contract
    <3> QED
      BY <3>1, <3>2 DEF CountInv, Tallies, Counted, IInv, Typed, Shape
  <2>3. CASE ~(ledger.spent[c] >= Budgets[c]) /\ AppendThen(p, admit, "act")
    <3>1. pc'[p] = "append" /\ event'[p] = admit
      BY <1>1, <2>3 DEF AppendThen, Goto, LocalsTyped
    <3>2. ledger.spent[c] < Budgets[c]
      BY <2>2, <2>3
    <3>3. NotYetTold(p)' /\ FailureFits(p)' /\ ShownFirst(p)' /\ RoomToTell(p)'
      BY <3>1 DEF NotYetTold, FailureFits, ShownFirst, RoomToTell, IsResult, Evidence,
                  Emitting
    <3>4. RoomToAct(p)'
      BY <1>2, <2>2, <3>1, <3>2 DEF RoomToAct, RoomFor
    <3> QED
      BY <3>3, <3>4 DEF Fits
  <2> HIDE DEF i, c, admit
  <2> QED
    BY <1>5, <1>6, <1>8, <2>1, <2>3
<1>13. CASE Prepare(p) \/ CreateManifest(p) \/ FillManifest(p) \/ Leave(p)
            \/ AppendTorn(p) \/ Die(p)
  BY <1>4, <1>5, <1>13 DEF Prepare, CreateManifest, FillManifest, Leave, AppendTorn, Die
<1>14. CASE Start(p) \/ Started(p) \/ Reconcile(p) \/ FailureRecorded(p)
  BY <1>4, <1>5, <1>6, <1>7, <1>8, <1>14 DEF Start, Started, Reconcile, FailureRecorded
<1>15. CASE Decide(p)
  BY <1>4, <1>5, <1>6, <1>8, <1>15 DEF Decide
<1>16. CASE Drifted(p) \/ Complete(p) \/ TryAgain(p) \/ HardStop(p)
  BY <1>5, <1>6, <1>8, <1>16 DEF Drifted, Complete, TryAgain, HardStop
<1> QED
  BY <1>9, <1>10, <1>11, <1>12, <1>13, <1>14, <1>15, <1>16
     DEF CoordinatorStep

\* What was read is written as it was to be appended, or not at all.
LEMMA ReadFits ==
  ASSUME IInv, CountInv, NEW p \in Procs, AppendRead(p) \/ AppendCache(p)
  PROVE  Fits(p)'
<1>1. LocalsTyped /\ Fits(p)
  BY DEF IInv, Typed, CountInv
<1>2. End(p) => Plain(p)'
  BY <1>1 DEF End, Goto, Plain, Pending, LocalsTyped
<1>3. CASE AppendRead(p) /\ Goto(p, "write") /\ UNCHANGED event
  <2>1. /\ pc[p] = "append" /\ pc'[p] = "write" /\ event'[p] = event[p]
        /\ UNCHANGED <<ledger, comments, overlapped>>
    BY <1>1, <1>3 DEF AppendRead, Goto, LocalsTyped, store, github, races
  <2> QED
    BY <1>1, <2>1 DEF Fits, NotYetTold, ShownFirst, RoomToTell, RoomToAct, FailureFits,
                      Pending, Emitting, Evidence, RoomFor
<1>4. CASE AppendCache(p) /\ Arrive(p, next[p])
  <2>1. End(p) \/ (Goto(p, next[p]) /\ next[p] \in Nexts)
    BY <1>1, <1>4 DEF Arrive, LocalsTyped
  <2>2. Plain(p)'
    BY <1>1, <1>2, <2>1 DEF Goto, Plain, Pending, LocalsTyped, Nexts
  <2> QED
    BY <2>2, PlainFits
<1> QED
  BY <1>2, <1>3, <1>4, PlainFits DEF AppendRead, AppendCache

\* What an action reports is of its stage.
LEMMA ActFits ==
  ASSUME IInv, CountInv, NEW p \in Procs, Act(p)
  PROVE  /\ Fits(p)' /\ Alone(p) /\ pc[p] # "idle"
         /\ UNCHANGED <<ledger, github, overlapped>>
<1>1. PICK i \in StageIds : \/ ActCommand(p, i) \/ ActArtifact(p, i)
                            \/ ActCommit(p, i) \/ ActPush(p, i)
                            \/ ActDraftPr(p, i) \/ ActComment(p, i)
  BY DEF Act
<1>2. LocalsTyped /\ artifact \in {"missing", "exact", "other"}
  BY DEF IInv, Typed
<1>3. /\ \A published : ResultFits(Passed(i, published), i)
      /\ ResultFits([Passed(i, {}) EXCEPT !.artifact = TRUE], i)
      /\ ResultFits(Failed(i, "unsafe"), i)
  BY DEF ResultFits, Passed, Failed, IsResult
<1>4. ResultFits(StageFailed(i), i)
  BY DEF ResultFits, Failed, StageFailed, IsResult, MayPause
<1>5. Stages[i].kind = "artifact_verify" => ResultFits(Failed(i, "external"), i)
  BY DEF ResultFits, Failed, IsResult, MayPause
<1>6. \E e : Reports(p, i, e) /\ ResultFits(e, i)
  <2>1. CASE ActCommand(p, i)
    BY <1>3, <1>4, <2>1 DEF ActCommand
  <2>2. CASE ActArtifact(p, i)
    BY <1>2, <1>3, <1>5, <2>2 DEF ActArtifact
  <2>3. CASE ActCommit(p, i)
    BY <1>3, <1>4, <2>3 DEF ActCommit
  <2>4. CASE ActPush(p, i)
    BY <1>3, <1>4, <2>4 DEF ActPush
  <2>5. CASE ActDraftPr(p, i)
    BY <1>3, <1>4, <2>5 DEF ActDraftPr
  <2>6. CASE ActComment(p, i)
    BY <1>3, <2>6 DEF ActComment
  <2> QED
    BY <1>1, <2>1, <2>2, <2>3, <2>4, <2>5, <2>6
<1>7. PICK e : Reports(p, i, e) /\ ResultFits(e, i)
  BY <1>6
<1>8. /\ pc[p] = "act" /\ pc' = [pc EXCEPT ![p] = "report"] /\ event' = [event EXCEPT ![p] = e]
      /\ UNCHANGED <<ledger, github, overlapped, seen, next, then>>
  BY <1>7 DEF Reports, Goto, store, races
<1>9. Alone(p) /\ pc'[p] = "report" /\ event'[p] = e
  BY <1>2, <1>8 DEF LocalsTyped, Alone, Places
<1>10. Fits(p)'
  BY <1>7, <1>9 DEF ResultFits, Fits, NotYetTold, ShownFirst, RoomToTell, RoomToAct,
                    FailureFits, Pending, Emitting, Evidence, IsResult
<1> QED
  BY <1>8, <1>9, <1>10

\* A result is told of the stage it is of.
LEMMA ReportFits ==
  ASSUME IInv, CountInv, NEW p \in Procs, Report(p)
  PROVE  Fits(p)'
<1> DEFINE e == event[p]
<1>1. /\ pc[p] = "report" /\ LocalsTyped /\ Fits(p) /\ IsResult(e) /\ "type" \in DOMAIN e
  BY DEF IInv, Typed, CountInv, Report, EventFits
<1>2. FailureFits(p) /\ Pending(p)
  BY <1>1 DEF Fits, Pending
<1>3. CASE End(p)
  <2>1. Plain(p)'
    BY <1>1, <1>3 DEF End, Goto, Plain, Pending, LocalsTyped
  <2> QED
    BY <2>1, PlainFits
<1>4. ASSUME NEW told, NEW place, AppendThen(p, told, place),
             told = e \/ (e.type = "stage_passed" /\ told = [e EXCEPT !.target = target])
      PROVE  Fits(p)'
  <2>1. pc'[p] = "append" /\ event'[p] = told
    BY <1>1, <1>4 DEF AppendThen, Goto, LocalsTyped
  <2>2. CASE told = e
    BY <1>1, <1>2, <2>1, <2>2 DEF Fits, NotYetTold, ShownFirst, RoomToTell, RoomToAct,
       FailureFits, Pending, Emitting, Evidence, IsResult
  <2>3. CASE e.type = "stage_passed" /\ told = [e EXCEPT !.target = target]
    <3>1. told.type = "stage_passed"
      BY <1>1, <2>3
    <3>2. e.stage \in StageIds /\ told.stage = e.stage
      BY <1>1, <1>2, <2>3 DEF FailureFits, IsResult
    <3> QED
      BY <2>1, <3>1, <3>2 DEF Fits, NotYetTold, ShownFirst, RoomToTell, RoomToAct,
         FailureFits, Pending, Emitting, Evidence, IsResult
  <2> QED
    BY <1>4, <2>2, <2>3
<1> QED
  BY <1>3, <1>4 DEF Report

\* Every step keeps it.
LEMMA StepCounts ==
  ASSUME IInv, CountInv, [Next]_vars
  PROVE  CountInv'
<1>1. LocalsTyped
  BY DEF IInv, Typed
<1>2. ASSUME NEW p \in Procs, CoordinatorStep(p)
      PROVE  CountInv'
  <2>1. Quiet(p)
    BY <1>2, CoordinatorQuiet
  <2>2. Own(p) /\ UNCHANGED executed
    BY <1>2, <2>1, TodoMoves, CoordinatorKeeps DEF Own, Quiet
  <2>3. ledger' = ledger
    BY <1>2 DEF CoordinatorStep, Emit, LookForComment, PostComment, RecordComment,
         Prepare, CreateManifest, FillManifest, Start, Started, Reconcile, Decide,
         Drifted, Complete, Leave, Turn, FailureRecorded, TryAgain, Enter,
         HardStop, AppendTorn, LoseComment, Die, store
  <2>4. CASE PostComment(p) \/ LoseComment(p) \/ Enter(p)
    BY <2>2, <2>4, PostCounts, LossCounts, EnterCounts
  <2>5. CASE ~(PostComment(p) \/ LoseComment(p) \/ Enter(p))
    <3>1. Fits(p)' /\ pc[p] # "idle" /\ UNCHANGED <<github, overlapped>>
      BY <1>2, <2>5, PlainMoves
    <3> QED
      BY <2>2, <2>3, <3>1, MoveCounts
  <2> QED
    BY <2>4, <2>5
<1>3. ASSUME NEW p \in Procs, AppendRead(p) \/ AppendCache(p)
      PROVE  CountInv'
  <2>1. /\ pc[p] # "idle" /\ UNCHANGED <<ledger, executed, github, overlapped>>
        /\ Fits(p)'
    BY <1>3, ReadFits DEF AppendRead, AppendCache, store, races
  <2>2. todo' \in [Procs -> Seq(Keys)] /\ \A q \in Procs \ {p} : todo'[q] = todo[q]
    BY <1>3, TodoMoves
  <2>3. IInv'
    BY <1>3, AppendReadKeeps, AppendCacheKeeps
  <2>4. Alone(p)
    <3>1. LocalsTyped'
      BY <2>3 DEF IInv, Typed
    <3>2. \A q \in Procs \ {p} : /\ pc'[q] = pc[q] /\ event'[q] = event[q]
                                 /\ seen'[q] = seen[q] /\ next'[q] = next[q]
      BY <1>1, <1>3 DEF AppendRead, AppendCache, Arrive, End, Goto, LocalsTyped
    <3> QED
      BY <3>1, <3>2 DEF Alone
  <2> QED
    BY <2>1, <2>2, <2>4, MoveCounts DEF Own
<1>4. ASSUME NEW p \in Procs, AppendWrite(p)
      PROVE  CountInv'
  <2>1. CASE seen[p] = ledger.events
    BY <1>4, <2>1, WriteCounts
  <2>2. CASE seen[p] # ledger.events
    <3>1. /\ pc[p] = "write" /\ Goto(p, "cache")
          /\ UNCHANGED <<ledger, executed, github, overlapped, event, seen, next, then, todo>>
      BY <1>4, <2>2 DEF AppendWrite, races
    <3>2. Alone(p) /\ pc'[p] = "cache"
      BY <1>1, <3>1 DEF Goto, Alone, LocalsTyped, Places
    <3>3. Fits(p)'
      BY <3>2, PlainFits DEF Plain, Pending
    <3> QED
      BY <3>1, <3>2, <3>3, MoveCounts DEF Own, CountInv, Tallies
  <2> QED
    BY <2>1, <2>2
<1>5. ASSUME NEW p \in Procs, Act(p)
      PROVE  CountInv'
  <2>1. /\ Fits(p)' /\ Alone(p) /\ pc[p] # "idle"
        /\ UNCHANGED <<ledger, github, overlapped>>
    BY <1>5, ActFits
  <2>2. todo' \in [Procs -> Seq(Keys)] /\ \A q \in Procs \ {p} : todo'[q] = todo[q]
    BY <1>5, TodoMoves
  <2> QED
    BY <2>1, <2>2, MoveCounts DEF Own
<1>6. ASSUME NEW p \in Procs, Report(p)
      PROVE  CountInv'
  <2>1. Fits(p)' /\ pc[p] # "idle" /\ UNCHANGED <<ledger, executed, github, overlapped>>
    BY <1>6, ReportFits DEF Report, store, races
  <2>2. todo' \in [Procs -> Seq(Keys)] /\ \A q \in Procs \ {p} : todo'[q] = todo[q]
    BY <1>6, TodoMoves
  <2>3. Alone(p)
    <3>1. LocalsTyped'
      BY <1>6, ReportKeeps DEF IInv, Typed
    <3>2. \A q \in Procs \ {p} : /\ pc'[q] = pc[q] /\ event'[q] = event[q]
                                 /\ seen'[q] = seen[q] /\ next'[q] = next[q]
      BY <1>1, <1>6 DEF Report, AppendThen, End, Goto, LocalsTyped
    <3> QED
      BY <3>1, <3>2 DEF Alone
  <2> QED
    BY <2>1, <2>2, <2>3, MoveCounts DEF Own
<1>7. CASE Drift \/ Tick \/ UNCHANGED vars
  <2>1. UNCHANGED <<ledger, executed, pc, event, todo, overlapped, comments, inFlight, lost>>
    BY <1>7 DEF Drift, Tick, vars, store, github, locals, races
  <2> QED
    BY <2>1 DEF CountInv, Tallies, Counted, OneAtATime, CommentsAccounted, OnTheWay,
                RecordedIsShown, AttemptsLeft, BudgetsHold, Fits, NotYetTold, ShownFirst,
                RoomToTell, RoomToAct, FailureFits, Pending, Emitting, Evidence, RoomFor
<1>8. CASE \E k \in Keys : CommentLands(k)
  BY <1>8, LandingCounts
<1> QED
  BY <1>2, <1>3, <1>4, <1>5, <1>6, <1>7, <1>8 DEF Next, Step, CoordinatorStep

\* What the ledger counts, for any contract, overlapping runs, deaths and losses.
THEOREM CountsInvariant == Spec => []CountInv
<1>1. Init => CountInv
  <2> SUFFICES ASSUME Init PROVE CountInv
    OBVIOUS
  <2>1. /\ ledger = NewProjection /\ comments = [k \in Keys |-> 0] /\ inFlight = {}
        /\ lost = [k \in Keys |-> 0] /\ pc = [p \in Procs |-> "idle"]
        /\ todo = [p \in Procs |-> <<>>]
    BY DEF Init
  <2>2. Counted(ledger)
    BY <2>1, Contract DEF Counted, NewProjection
  <2>3. Tallies /\ OneAtATime /\ RecordedIsShown
    BY <2>1, <2>2 DEF Tallies, OneAtATime, RecordedIsShown, NewProjection
  <2>4. CommentsAccounted
    BY <2>1 DEF CommentsAccounted, OnTheWay
  <2>5. AttemptsLeft
    BY <2>1, Contract DEF AttemptsLeft, NewProjection
  <2>6. BudgetsHold
    BY <2>1, Contract DEF BudgetsHold, NewProjection
  <2>7. \A p \in Procs : Fits(p)
    BY <2>1 DEF Fits, NotYetTold, ShownFirst, RoomToTell, RoomToAct, FailureFits,
                Pending, Emitting, Evidence
  <2> QED
    BY <2>3, <2>4, <2>5, <2>6, <2>7 DEF CountInv
<1>2. IInv /\ CountInv /\ [Next]_vars => CountInv'
  BY StepCounts
<1> QED
  BY <1>1, <1>2, WorkflowInvariant, PTL DEF Spec

\* No budget of the authorization is overspent, through any failures, restarts
\* and races, but for the comments of runs that overlap (workflow_store.py).
THEOREM BudgetsAreKept == Spec => []BudgetsHold
<1>1. CountInv => BudgetsHold
  BY DEF CountInv
<1> QED
  BY <1>1, CountsInvariant, PTL

\* A stage is repeated within the number that is authorized for it, and one that
\* cannot be resumed is never repeated (workflow_store.py, workflow.py).
THEOREM RetriesAreBounded == Spec => []RetriesBounded
<1>1. IInv /\ CountInv => RetriesBounded
  <2> SUFFICES ASSUME IInv, CountInv, NEW i \in StageIds, ~MayPause(i)
               PROVE  executed[i] <= Attempts(i)
    BY DEF RetriesBounded
  <2>1. executed[i] <= ledger.attempts[i] /\ ledger.attempts[i] <= Attempts(i)
    BY DEF IInv, AttemptsCounted, CountInv, AttemptsLeft
  <2>2. executed[i] \in Nat /\ ledger.attempts[i] \in Nat /\ Attempts(i) \in Nat
    BY Contract DEF IInv, Typed, Shape
  <2> QED
    BY <2>1, <2>2
<1> QED
  BY <1>1, WorkflowInvariant, CountsInvariant, PTL

\* Each key is told once, and once more for each comment whose call was given up
\* (GhIssueEvidenceSink.emit), while runs follow each other.
THEOREM EvidenceIsToldOnce == Spec => []EvidenceOnce
<1>1. CountInv => EvidenceOnce
  <2> SUFFICES ASSUME CountInv, ~overlapped, NEW k \in Keys
               PROVE  comments[k] <= 1 + lost[k]
    BY DEF EvidenceOnce
  <2>1. comments[k] + OnTheWay(k) <= 1 + lost[k]
    BY DEF CountInv, CommentsAccounted
  <2>2. comments[k] \in Nat /\ lost[k] \in Nat /\ OnTheWay(k) \in Nat
    BY DEF CountInv, Tallies, OnTheWay
  <2> QED
    BY <2>1, <2>2
<1> QED
  BY <1>1, CountsInvariant, PTL

\* What the ledger records as told is on the issue, whichever run told it.
THEOREM WhatIsRecordedIsShown == Spec => []RecordedIsShown
<1>1. CountInv => RecordedIsShown
  BY DEF CountInv
<1> QED
  BY <1>1, CountsInvariant, PTL

-----------------------------------------------------------------------------
(* What a completed workflow has published                                 *)

\* The stages that publish come in their order.  The parser does not ask for it.
CommitsFirst ==
  \A i, j \in StageIds :
    Stages[i].kind = "commit" /\ Stages[j].kind = "push" => i < j

\* The target was touched between actions only, by one run at a time.
Undisturbed == ~overlapped /\ ~touched

\* What the ledger says was published is on origin, and is the work in the target.
PublishedIsThere ==
  /\ target \in Targets
  /\ "push" \in ledger.published => remote # "none"
  /\ "pr" \in ledger.published => pr
  /\ remote # "none" =>
       \E j \in StageIds : Stages[j].kind = "push" /\ j <= ledger.index
  /\ ledger.status = "COMPLETED" => PublishComplete

OwnWork ==
  Undisturbed /\ "commit" \in ledger.published =>
    /\ ledger.target \in Targets /\ ledger.target.work = "commit"
    /\ remote \in {"none", "commit"}

\* What a passed stage reports it has published is there.
PassDomain == {"type", "stage", "artifact", "published", "target"}
ReportsPublished(e) ==
  /\ DOMAIN e = PassDomain
  /\ "push" \in e.published => remote # "none"
  /\ "pr" \in e.published => pr
  /\ "commit" \in e.published => Stages[e.stage].kind = "commit"
Committed(e) == "commit" \in ledger.published \union e.published

\* A process in an action, or with an event to write, knows the target.
KnowsTarget(p) ==
  LET e == event[p]
      pending == pc[p] \in {"append", "write"}
  IN
  /\ pc[p] \notin {"idle", "prepare"} => target.on = "work"
  /\ pc[p] \in {"append", "write", "cache", "act"} /\ e.type = "stage_admitted"
       /\ Undisturbed => ledger.target = target
  /\ pc[p] = "report" /\ e.type = "stage_passed" =>
       /\ ReportsPublished(e)
       /\ (Undisturbed /\ Committed(e) => target.work = "commit")
  /\ pending /\ e.type = "stage_passed" =>
       /\ ReportsPublished(e) /\ e.target \in Targets
       /\ (Undisturbed /\ Committed(e) => e.target.work = "commit")
  /\ pending /\ e.type = "stage_reused" =>
       e.published = {} /\ (Undisturbed => e.target = ledger.target)
  /\ pending /\ e.type = "target_observed" =>
       e.target \in Targets /\ (Undisturbed => ledger.target = NoTarget)
  /\ pending /\ e.type = "workflow_completed" => PublishComplete

PublishInv == PublishedIsThere /\ OwnWork /\ \A p \in Procs : KnowsTarget(p)

\* What an accepted event says of the work.
LEMMA AfterPublished ==
  ASSUME NEW l, Shape(l), NEW e, Accepts(l, e)
  PROVE  /\ Passes(e) =>
              /\ e.stage = l.index /\ e.stage \in StageIds
              /\ After(l, e).published = l.published \union e.published
         /\ ~Passes(e) => After(l, e).published = l.published
         /\ After(l, e).target =
              IF Passes(e) \/ e.type = "target_observed" THEN e.target ELSE l.target
         /\ After(l, e).status = "COMPLETED" =>
              l.status = "COMPLETED" \/ e.type = "workflow_completed"
<1> DEFINE q == [l EXCEPT !.events = @ + 1]
<1> USE DEF Shape, Fields
<1>1. /\ Shape(q) /\ q.published = l.published /\ q.target = l.target
      /\ q.status = l.status /\ q.attempts = l.attempts /\ q.index = l.index
  OBVIOUS
<1> HIDE DEF q
<1>2. CASE Passes(e)
  <2>1. After(l, e) = AfterPass(q, e)
    BY <1>2 DEF After, q, Passes
  <2>2. e.stage = l.index /\ e.stage \in StageIds
    BY <1>2 DEF Passes, Accepts, AcceptsStart, AcceptsResume, AcceptsAdmission,
                AcceptsPass, AcceptsPause, AcceptsFailure, AcceptsEnd, AtStage
  <2>3. After(l, e).status = l.status
    BY <1>1, <2>1 DEF AfterPass
  <2> QED
    BY <1>1, <1>2, <2>1, <2>2, <2>3 DEF AfterPass
<1>3. CASE e.type = "stage_admitted"
  <2>1. After(l, e) = AfterAdmission(q, e)
    BY <1>3 DEF After, q
  <2>2. /\ After(l, e).published = l.published /\ After(l, e).target = l.target
        /\ After(l, e).status = l.status
    BY <1>1, <2>1 DEF AfterAdmission
  <2> QED
    BY <1>3, <2>2 DEF Passes
<1>4. CASE e.type = "stage_failed"
  <2>1. After(l, e) = [q EXCEPT !.status = AfterFailure(q, e), !.active = FALSE]
    BY <1>4 DEF After, q
  <2>2. AfterFailure(q, e) # "COMPLETED"
    BY DEF AfterFailure
  <2> QED
    BY <1>1, <1>4, <2>1, <2>2 DEF Passes
<1>5. CASE e.type = "github_evidence"
  <2>1. After(l, e) = [q EXCEPT !.spent.github_comment = @ + 1,
                                !.keys = @ \union {e.key}]
    BY <1>5 DEF After, q
  <2> QED
    BY <1>1, <1>5, <2>1 DEF Passes
<1>6. CASE e.type = "target_observed"
  <2>1. After(l, e) = [q EXCEPT !.target = e.target]
    BY <1>6 DEF After, q
  <2> QED
    BY <1>1, <1>6, <2>1 DEF Passes
<1>7. CASE e.type \in {"workflow_started", "workflow_resumed", "stage_paused",
                      "workflow_failed", "workflow_completed"}
  <2>1. /\ After(l, e).published = l.published /\ After(l, e).target = l.target
        /\ After(l, e).status = "COMPLETED" => e.type = "workflow_completed"
    BY <1>1, <1>7 DEF After, q
  <2> QED
    BY <1>7, <2>1 DEF Passes
<1> QED
  BY <1>2, <1>3, <1>4, <1>5, <1>6, <1>7
     DEF Passes, Accepts, AcceptsStart, AcceptsResume, AcceptsAdmission, AcceptsPass,
         AcceptsPause, AcceptsFailure, AcceptsEnd

\* A step of p that leaves the target and what is published alone.
LEMMA MovePublishes ==
  ASSUME PublishInv, NEW p \in Procs, Alone(p), KnowsTarget(p)',
         UNCHANGED <<ledger, target, remote, pr, touched>>, overlapped => overlapped'
  PROVE  PublishInv'
<1> USE DEF PublishInv
<1>1. PublishedIsThere' /\ OwnWork'
  BY DEF PublishedIsThere, PublishComplete, OwnWork, Undisturbed
<1>2. ASSUME NEW q \in Procs, q # p
      PROVE  KnowsTarget(q)'
  <2>1. pc'[q] = pc[q] /\ event'[q] = event[q] /\ KnowsTarget(q)
    BY <1>2 DEF Alone
  <2> QED
    BY <2>1 DEF KnowsTarget, Undisturbed, ReportsPublished, Committed, PublishComplete
<1> QED
  BY <1>1, <1>2

\* An event and a place that say nothing of the target.
NamesTarget == {"stage_admitted", "stage_passed", "stage_reused", "target_observed",
                "workflow_completed"}
Blind(p) ==
  /\ pc[p] \notin {"act", "report"}
  /\ pc[p] \in {"append", "write"} => event[p].type \notin NamesTarget
  /\ pc[p] = "cache" => event[p].type # "stage_admitted"
  /\ pc[p] \notin {"idle", "prepare"} => target.on = "work"

LEMMA BlindKnows ==
  ASSUME NEW p \in Procs, Blind(p)'
  PROVE  KnowsTarget(p)'
BY DEF Blind, NamesTarget, KnowsTarget

\* The write that counts.
LEMMA WritePublishes ==
  ASSUME CommitsFirst, IInv, CountInv, PublishInv, NEW p \in Procs, AppendWrite(p),
         seen[p] = ledger.events
  PROVE  PublishInv'
<1> DEFINE e == event[p]
<1> USE DEF PublishInv
<1>1. /\ Accepts(ledger, e) /\ Shape(ledger) /\ Counted(ledger)
      /\ pc[p] = "write" /\ LocalsTyped /\ KnowsTarget(p)
  BY DEF IInv, WriteAccepted, Typed, AppendWrite, CountInv, Tallies
<1>2. /\ ledger' = After(ledger, e) /\ pc' = [pc EXCEPT ![p] = "cache"]
      /\ UNCHANGED <<event, target, remote, pr, overlapped, touched>>
  BY DEF AppendWrite, Goto, world, races
<1>3. pc'[p] = "cache" /\ \A q \in Procs : q # p => pc'[q] = pc[q]
  BY <1>1, <1>2 DEF LocalsTyped
<1>4. /\ Passes(e) =>
           /\ e.stage = ledger.index /\ e.stage \in StageIds
           /\ ledger'.published = ledger.published \union e.published
           /\ ledger'.index = ledger.index + 1
      /\ ~Passes(e) => ledger'.published = ledger.published /\ ledger'.index = ledger.index
      /\ ledger'.target =
           (IF Passes(e) \/ e.type = "target_observed" THEN e.target ELSE ledger.target)
      /\ ledger'.status = "COMPLETED" =>
           ledger.status = "COMPLETED" \/ e.type = "workflow_completed"
  BY <1>1, <1>2, AfterPublished, AfterTallies
<1>5. e.type = "stage_passed" =>
        /\ ReportsPublished(e) /\ e.target \in Targets
        /\ (Undisturbed /\ Committed(e) => e.target.work = "commit")
  BY <1>1 DEF KnowsTarget
<1>6. e.type = "stage_reused" =>
        e.published = {} /\ (Undisturbed => e.target = ledger.target)
  BY <1>1 DEF KnowsTarget
<1>7. ledger.published \subseteq ledger'.published
  BY <1>4
<1>8. PublishedIsThere'
  <2>1. target' \in Targets
    BY <1>2 DEF PublishedIsThere
  <2>2. "push" \in ledger'.published => remote' # "none"
    BY <1>2, <1>4, <1>5, <1>6 DEF PublishedIsThere, ReportsPublished, Passes
  <2>3. "pr" \in ledger'.published => pr'
    BY <1>2, <1>4, <1>5, <1>6 DEF PublishedIsThere, ReportsPublished, Passes
  <2>4. remote' # "none" =>
          \E j \in StageIds : Stages[j].kind = "push" /\ j <= ledger'.index
    <3>1. ledger.index \in Nat /\ ledger'.index \in Nat /\ ledger.index <= ledger'.index
      BY <1>1, <1>4 DEF Shape
    <3>2. \A j \in StageIds : j \in Nat
      BY Contract
    <3> QED
      BY <1>2, <3>1, <3>2 DEF PublishedIsThere
  <2>5. ledger'.status = "COMPLETED" => PublishComplete'
    BY <1>1, <1>4, <1>7 DEF PublishedIsThere, PublishComplete, KnowsTarget
  <2> QED
    BY <2>1, <2>2, <2>3, <2>4, <2>5 DEF PublishedIsThere
<1>9. OwnWork'
  <2> SUFFICES ASSUME Undisturbed, "commit" \in ledger'.published
               PROVE  /\ ledger'.target \in Targets /\ ledger'.target.work = "commit"
                      /\ remote \in {"none", "commit"}
    BY <1>2 DEF OwnWork, Undisturbed
  <2>1. CASE e.type = "stage_passed"
    <3>1. Committed(e)
      BY <1>4, <2>1 DEF Committed, Passes
    <3>2. ledger'.target = e.target
      BY <1>4, <2>1 DEF Passes
    <3>3. remote \in {"none", "commit"}
      <4>1. CASE "commit" \in ledger.published
        BY <4>1 DEF OwnWork
      <4>2. CASE "commit" \notin ledger.published
        <5>1. Stages[ledger.index].kind = "commit" /\ ledger.index \in StageIds
          BY <1>4, <1>5, <2>1, <3>1, <4>2 DEF Committed, ReportsPublished, Passes
        <5>2. \A j \in StageIds : Stages[j].kind = "push" => ledger.index < j
          BY <5>1 DEF CommitsFirst
        <5>3. \A j \in StageIds : j \in Nat /\ ledger.index \in Nat
          BY <5>1, Contract
        <5> QED
          BY <5>2, <5>3 DEF PublishedIsThere
      <4> QED
        BY <4>1, <4>2
    <3> QED
      BY <1>5, <2>1, <3>1, <3>2, <3>3
  <2>2. CASE e.type = "stage_reused"
    BY <1>4, <1>6, <2>2 DEF OwnWork, Passes
  <2>3. CASE e.type = "target_observed"
    <3>1. ledger.target = NoTarget /\ "commit" \in ledger.published
      BY <1>1, <1>4, <2>3 DEF KnowsTarget, Passes
    <3> QED
      BY <3>1, NoTargetAssumption DEF OwnWork
  <2>4. CASE ~Passes(e) /\ e.type # "target_observed"
    BY <1>4, <2>4 DEF OwnWork
  <2> QED
    BY <2>1, <2>2, <2>3, <2>4 DEF Passes
<1>10. ASSUME NEW q \in Procs
       PROVE  KnowsTarget(q)'
  <2>1. KnowsTarget(q)
    OBVIOUS
  <2>2. CASE q = p
    <3>1. target'.on = "work"
      BY <1>1, <1>2 DEF KnowsTarget
    <3>2. e.type = "stage_admitted" /\ Undisturbed => ledger'.target = target'
      BY <1>1, <1>2, <1>4 DEF KnowsTarget, Passes
    <3> QED
      BY <1>2, <1>3, <2>2, <3>1, <3>2 DEF KnowsTarget, Undisturbed
  <2>3. CASE q # p
    <3>1. pc'[q] = pc[q] /\ event'[q] = event[q]
      BY <1>2, <1>3, <2>3
    <3>2. pc[q] # "idle" => ~Undisturbed
      BY <1>1, <2>3 DEF CountInv, OneAtATime, Undisturbed
    <3>3. PublishComplete => PublishComplete'
      BY <1>7 DEF PublishComplete
    <3>4. Undisturbed' = Undisturbed /\ UNCHANGED <<target, remote, pr>>
      BY <1>2 DEF Undisturbed
    <3> QED
      BY <2>1, <3>1, <3>2, <3>3, <3>4 DEF KnowsTarget, ReportsPublished
  <2> QED
    BY <2>2, <2>3
<1> QED
  BY <1>8, <1>9, <1>10

\* A step of p that changes the target: no other run is under way, or they overlap.
LEMMA WorkPublishes ==
  ASSUME CountInv, PublishInv, NEW p \in Procs, Alone(p), pc[p] # "idle", KnowsTarget(p)',
         UNCHANGED <<ledger, overlapped, touched>>,
         target' \in Targets, target.on = "work" => target'.on = "work",
         remote # "none" => remote' # "none", pr => pr',
         remote' # remote =>
           /\ \E j \in StageIds : Stages[j].kind = "push" /\ j <= ledger.index
           /\ Undisturbed /\ "commit" \in ledger.published => remote' = "commit"
  PROVE  PublishInv'
<1> USE DEF PublishInv
<1>1. PublishedIsThere'
  BY DEF PublishedIsThere, PublishComplete
<1>2. OwnWork'
  BY DEF OwnWork, Undisturbed
<1>3. ASSUME NEW q \in Procs, q # p
      PROVE  KnowsTarget(q)'
  <2>1. pc'[q] = pc[q] /\ event'[q] = event[q] /\ KnowsTarget(q)
    BY <1>3 DEF Alone
  <2>2. pc[q] # "idle" => ~Undisturbed
    BY <1>3 DEF CountInv, OneAtATime, Undisturbed
  <2>3. Undisturbed' = Undisturbed /\ (PublishComplete => PublishComplete')
    BY DEF Undisturbed, PublishComplete
  <2> QED
    BY <2>1, <2>2, <2>3 DEF KnowsTarget, ReportsPublished, Committed
<1> QED
  BY <1>1, <1>2, <1>3

\* What the coordinator does but for the branch it prepares.
LEMMA CoordinatorKnows ==
  ASSUME IInv, CountInv, PublishInv, NEW p \in Procs, CoordinatorStep(p), ~Prepare(p)
  PROVE  KnowsTarget(p)' /\ UNCHANGED <<ledger, target, remote, pr, touched>>
<1>1. LocalsTyped /\ KnowsTarget(p) /\ Shape(ledger) /\ target \in Targets
  BY DEF IInv, Typed, PublishInv, PublishedIsThere
<1>2. UNCHANGED <<ledger, target, remote, pr, touched>>
  BY DEF CoordinatorStep, Emit, LookForComment, PostComment, RecordComment, CreateManifest,
         FillManifest, Start, Started, Reconcile, Decide, Drifted, Complete, Leave, Turn,
         FailureRecorded, TryAgain, Enter, HardStop, AppendTorn, LoseComment, Die, store,
         world, races
<1> SUFFICES KnowsTarget(p)'
  BY <1>2
<1>3. CASE Enter(p)
  <2>1. Blind(p)'
    BY <1>1, <1>3 DEF Enter, Goto, Blind, LocalsTyped
  <2> QED
    BY <2>1, BlindKnows
<1>4. CASE ~Enter(p)
  <2>1. pc[p] \notin {"idle", "prepare"} \/ Die(p)
    BY <1>4 DEF CoordinatorStep, Emit, LookForComment, PostComment, RecordComment,
         CreateManifest, FillManifest, Start, Started, Reconcile, Decide, Drifted,
         Complete, Leave, Turn, FailureRecorded, TryAgain, HardStop, AppendTorn,
         LoseComment, AtLoop
  <2>2. pc[p] \notin {"idle", "prepare"} => target'.on = "work"
    BY <1>1, <1>2 DEF KnowsTarget
  <2> DEFINE Quietly == {"emit", "look", "post", "posted", "create", "fill", "start",
                         "started", "reconcile", "decide", "drifted", "loop", "failed",
                         "again"}
  <2>3. End(p) => KnowsTarget(p)'
    <3>1. End(p) => Blind(p)'
      BY <1>1 DEF End, Goto, Blind, LocalsTyped
    <3> QED
      BY <3>1, BlindKnows
  <2>4. CASE Die(p) \/ Leave(p) \/ AppendTorn(p) \/ LoseComment(p)
    BY <2>3, <2>4 DEF Die, Leave, AppendTorn, LoseComment
  <2> SUFFICES ASSUME pc[p] \notin {"idle", "prepare"} PROVE KnowsTarget(p)'
    BY <2>1, <2>4
  <2>5. target'.on = "work"
    BY <2>2
  <2>6. \A place \in Quietly : Goto(p, place) => KnowsTarget(p)'
    <3> SUFFICES ASSUME NEW place \in Quietly, Goto(p, place) PROVE Blind(p)'
      BY BlindKnows
    <3> QED
      BY <1>1, <2>5 DEF Goto, Blind, LocalsTyped
  <2>7. \A e : \A place :
          AppendThen(p, e, place) /\ e.type \notin NamesTarget => KnowsTarget(p)'
    <3> SUFFICES ASSUME NEW e, NEW place, AppendThen(p, e, place), e.type \notin NamesTarget
                 PROVE  Blind(p)'
      BY BlindKnows
    <3> QED
      BY <1>1, <2>5 DEF AppendThen, Goto, Blind, LocalsTyped
  <2>8. \A keys : \A place : EmitThen(p, keys, place) => KnowsTarget(p)'
    BY <2>6 DEF EmitThen
  <2>9. /\ \A k : [type |-> "github_evidence", key |-> k].type \notin NamesTarget
        /\ \A i : Unsafe(i).type \notin NamesTarget
        /\ Resumed.type \notin NamesTarget
        /\ \A t \in {"workflow_started", "workflow_failed"} : [type |-> t].type \notin NamesTarget
    BY DEF NamesTarget, Unsafe, Resumed
  <2>10. CASE Emit(p)
    <3>1. CASE Arrive(p, then[p])
      <4>1. then[p] \in Thens
        BY <1>1 DEF LocalsTyped
      <4>2. then[p] \in Quietly \/ then[p] = "idle"
        BY <4>1 DEF Thens
      <4>3. Goto(p, then[p]) \/ End(p)
        BY <3>1 DEF Arrive
      <4>4. then[p] = "idle" => End(p)
        BY <3>1 DEF Arrive
      <4> QED
        BY <2>3, <2>6, <4>2, <4>3, <4>4
    <3>2. CASE UNCHANGED pc /\ pc[p] = "emit"
      <4>1. Blind(p)'
        BY <1>1, <2>5, <3>2 DEF Blind
      <4> QED
        BY <4>1, BlindKnows
    <3> QED
      BY <2>3, <2>6, <2>10, <3>1, <3>2 DEF Emit
  <2>11. CASE LookForComment(p) \/ PostComment(p) \/ RecordComment(p)
    BY <2>3, <2>6, <2>7, <2>9, <2>11 DEF LookForComment, PostComment, RecordComment
  <2>12. CASE CreateManifest(p) \/ FillManifest(p) \/ Start(p) \/ Started(p) \/ Reconcile(p)
    BY <2>3, <2>6, <2>7, <2>8, <2>9, <2>12
       DEF CreateManifest, FillManifest, Start, Started, Reconcile
  <2>13. CASE Drifted(p) \/ FailureRecorded(p) \/ TryAgain(p) \/ HardStop(p)
    BY <2>3, <2>7, <2>8, <2>9, <2>13 DEF Drifted, FailureRecorded, TryAgain, HardStop
  <2>14. CASE Decide(p)
    <3> DEFINE e == [type |-> "target_observed", target |-> target]
    <3>1. CASE ledger.target = NoTarget /\ AppendThen(p, e, "loop")
      <4>1. pc'[p] = "append" /\ event'[p] = e
        BY <1>1, <3>1 DEF AppendThen, Goto, LocalsTyped
      <4> QED
        BY <1>1, <1>2, <2>5, <3>1, <4>1 DEF KnowsTarget
    <3> QED
      BY <2>3, <2>6, <2>7, <2>9, <2>14, <3>1 DEF Decide
  <2>15. CASE Complete(p)
    <3>1. CASE PublishComplete /\ AppendThen(p, [type |-> "workflow_completed"], "emit")
      <4>1. pc'[p] = "append" /\ event'[p] = [type |-> "workflow_completed"]
        BY <1>1, <3>1 DEF AppendThen, Goto, LocalsTyped
      <4>2. PublishComplete'
        BY <1>2, <3>1 DEF PublishComplete
      <4> QED
        BY <2>5, <4>1, <4>2 DEF KnowsTarget
    <3> QED
      BY <2>3, <2>7, <2>9, <2>15, <3>1 DEF Complete
  <2>16. CASE Turn(p)
    <3> DEFINE i == ledger.index
               reuse == [type |-> "stage_reused", stage |-> i, target |-> target,
                         artifact |-> Stages[i].kind = "artifact_verify",
                         published |-> {}]
               admit == [type |-> "stage_admitted", stage |-> i,
                         attempt |-> ledger.attempts[i] + 1]
    <3>1. \/ End(p) \/ AppendThen(p, Unsafe(i), "idle")
          \/ ledger.target = target /\ AppendThen(p, reuse, "emit")
          \/ ledger.target = target /\ AppendThen(p, admit, "act")
      BY <2>16 DEF Turn
    <3>2. CASE ledger.target = target /\ AppendThen(p, reuse, "emit")
      <4>1. pc'[p] = "append" /\ event'[p] = reuse
        BY <1>1, <3>2 DEF AppendThen, Goto, LocalsTyped
      <4> QED
        BY <1>2, <2>5, <3>2, <4>1 DEF KnowsTarget
    <3>3. CASE ledger.target = target /\ AppendThen(p, admit, "act")
      <4>1. pc'[p] = "append" /\ event'[p] = admit
        BY <1>1, <3>3 DEF AppendThen, Goto, LocalsTyped
      <4> QED
        BY <1>2, <2>5, <3>3, <4>1 DEF KnowsTarget
    <3> HIDE DEF i
    <3> QED
      BY <2>3, <2>7, <2>9, <3>1, <3>2, <3>3
  <2> QED
    BY <1>4, <2>4, <2>10, <2>11, <2>12, <2>13, <2>14, <2>15, <2>16 DEF CoordinatorStep
<1> QED
  BY <1>3, <1>4

\* The branch is the workflow's own from here on.
LEMMA PreparePublishes ==
  ASSUME IInv, CountInv, PublishInv, NEW p \in Procs, Prepare(p)
  PROVE  PublishInv'
<1>1. LocalsTyped /\ target \in Targets /\ pc[p] = "prepare"
  BY DEF IInv, Typed, PublishInv, PublishedIsThere, Prepare
<1>2. UNCHANGED <<ledger, remote, pr, overlapped, touched>>
  BY DEF Prepare, store, races
<1>3. target' = [target EXCEPT !.on = "work"] \/ target' = target
  BY DEF Prepare
<1>4. target' \in Targets /\ (target.on = "work" => target'.on = "work")
  BY <1>1, <1>3 DEF Targets
<1>5. Alone(p)
  BY CoordinatorQuiet DEF CoordinatorStep, Quiet
<1>6. KnowsTarget(p)'
  <2>1. CASE End(p)
    <3>1. Blind(p)'
      BY <1>1, <2>1 DEF End, Goto, Blind, LocalsTyped
    <3> QED
      BY <3>1, BlindKnows
  <2>2. CASE /\ target' = [target EXCEPT !.on = "work"]
             /\ Goto(p, IF manifest = "absent" THEN "create" ELSE "start")
    <3>1. target'.on = "work"
      BY <1>1, <2>2 DEF Targets
    <3>2. Blind(p)'
      BY <1>1, <2>2, <3>1 DEF Goto, Blind, LocalsTyped
    <3> QED
      BY <3>2, BlindKnows
  <2> QED
    BY <2>1, <2>2 DEF Prepare
<1> QED
  BY <1>1, <1>2, <1>4, <1>5, <1>6, WorkPublishes

\* An event is read and found behind its line as it was to be appended.
LEMMA AppendKnows ==
  ASSUME IInv, PublishInv, NEW p \in Procs,
         AppendRead(p) \/ AppendCache(p) \/ (AppendWrite(p) /\ UNCHANGED ledger)
  PROVE  KnowsTarget(p)' /\ UNCHANGED <<ledger, target, remote, pr, touched, overlapped>>
<1>1. LocalsTyped /\ KnowsTarget(p) /\ target \in Targets
  BY DEF IInv, Typed, PublishInv, PublishedIsThere
<1>2. /\ UNCHANGED <<ledger, target, remote, pr, touched, overlapped>>
      /\ pc[p] \in {"append", "write", "cache"}
  BY DEF AppendRead, AppendCache, AppendWrite, world, store, races
<1>3. target.on = "work"
  BY <1>1, <1>2 DEF KnowsTarget
<1>4. CASE End(p)
  <2>1. Blind(p)'
    BY <1>1, <1>4 DEF End, Goto, Blind, LocalsTyped
  <2> QED
    BY <1>2, <2>1, BlindKnows
<1>5. CASE /\ Goto(p, "write") \/ Goto(p, "cache")
           /\ UNCHANGED event /\ pc[p] \in {"append", "write"}
  <2>1. pc'[p] \in {"write", "cache"} /\ event'[p] = event[p]
    BY <1>1, <1>5 DEF Goto, LocalsTyped
  <2> QED
    BY <1>1, <1>2, <1>5, <2>1 DEF KnowsTarget, ReportsPublished, Committed, Undisturbed,
                                  PublishComplete
<1>6. CASE AppendCache(p) /\ Arrive(p, next[p])
  <2>1. CASE next[p] = "act"
    <3>1. pc[p] = "cache" /\ pc'[p] = "act" /\ event'[p] = event[p]
      BY <1>1, <1>6, <2>1 DEF AppendCache, Arrive, Goto, LocalsTyped
    <3> QED
      BY <1>1, <1>2, <1>3, <3>1 DEF KnowsTarget, Undisturbed
  <2>2. CASE next[p] # "act"
    <3>1. End(p) \/ (Goto(p, next[p]) /\ next[p] \in Nexts)
      BY <1>1, <1>6 DEF Arrive, LocalsTyped
    <3>2. Blind(p)'
      BY <1>1, <1>2, <1>3, <2>2, <3>1 DEF End, Goto, Blind, LocalsTyped, Nexts
    <3> QED
      BY <1>2, <3>2, BlindKnows
  <2> QED
    BY <2>1, <2>2
<1> QED
  BY <1>4, <1>5, <1>6 DEF AppendRead, AppendCache, AppendWrite

\* What is told of an action: of what it did, or of its failure.
ToldTrue(e) ==
  e.type = "stage_passed" =>
    /\ DOMAIN e = PassDomain
    /\ "push" \in e.published => remote' # "none"
    /\ "pr" \in e.published => pr'
    /\ "commit" \in e.published => Stages[e.stage].kind = "commit" /\ target'.work = "commit"

\* An action passes for what is done, and does its work on the target as recorded.
LEMMA ActPublishes ==
  ASSUME IInv, CountInv, PublishInv, NEW p \in Procs, Act(p)
  PROVE  PublishInv'
<1> USE DEF PublishInv
<1>1. /\ LocalsTyped /\ artifact \in {"missing", "exact", "other"} /\ KnowsTarget(p)
      /\ target \in Targets
  BY DEF IInv, Typed, PublishedIsThere
<1>2. PICK i \in StageIds : \/ ActCommand(p, i) \/ ActArtifact(p, i)
                            \/ ActCommit(p, i) \/ ActPush(p, i)
                            \/ ActDraftPr(p, i) \/ ActComment(p, i)
  BY DEF Act
<1>3. \E e : Reports(p, i, e)
  BY <1>2 DEF ActCommand, ActArtifact, ActCommit, ActPush, ActDraftPr, ActComment
<1>4. /\ pc[p] = "act" /\ i = event[p].stage
      /\ UNCHANGED <<ledger, overlapped, touched, seen, next, then>>
  BY <1>3 DEF Reports, store, races
<1>5. /\ i = ledger.index /\ target.on = "work" /\ (Undisturbed => ledger.target = target)
  <2>1. Admitted(p)
    BY <1>4 DEF IInv, AdmittedToAct
  <2> QED
    BY <1>1, <1>4, <2>1 DEF Admitted, KnowsTarget
<1>6. HeadOf(target) = target.work /\ target.work \in {"initial", "commit", "foreign"}
  BY <1>1, <1>5 DEF HeadOf, Targets
<1>7. Undisturbed /\ "commit" \in ledger.published => target.work = "commit"
  BY <1>5 DEF OwnWork
\* What the failures and the stages that publish nothing say.
<1>8. /\ \A class : Failed(i, class).type # "stage_passed"
      /\ StageFailed(i).type # "stage_passed"
  BY DEF Failed, StageFailed
<1>9. /\ ToldTrue(Passed(i, {})) /\ ToldTrue([Passed(i, {}) EXCEPT !.artifact = TRUE])
      /\ remote' # "none" => ToldTrue(Passed(i, {"push"}))
      /\ pr' => ToldTrue(Passed(i, {"pr"}))
      /\ Stages[i].kind = "commit" /\ target'.work = "commit" => ToldTrue(Passed(i, {"commit"}))
  BY DEF ToldTrue, Passed, PassDomain
<1>10. /\ \A class : ToldTrue(Failed(i, class))
       /\ ToldTrue(StageFailed(i))
  BY <1>8 DEF ToldTrue
<1>11. /\ \E e : Reports(p, i, e) /\ ToldTrue(e)
       /\ target' \in Targets /\ target'.on = "work"
       /\ target'.work \in {target.work, "commit"}
       /\ remote # "none" => remote' # "none"
       /\ remote' # remote => Stages[i].kind = "push" /\ remote' = HeadOf(target)
       /\ pr => pr'
  <2>1. CASE ActCommand(p, i)
    <3>1. PICK e \in {Passed(i, {}), StageFailed(i)}, wrote \in SUBSET {"allowed"} :
            /\ Reports(p, i, e)
            /\ target' = [target EXCEPT !.dirty = @ \union wrote]
      BY <2>1 DEF ActCommand
    <3>2. target' \in Targets /\ target'.on = "work" /\ target'.work = target.work
      BY <1>1, <1>5, <3>1 DEF Targets
    <3>3. UNCHANGED <<remote, pr>>
      BY <2>1 DEF ActCommand
    <3> QED
      BY <1>9, <1>10, <3>1, <3>2, <3>3
  <2>2. CASE ActArtifact(p, i)
    <3>1. UNCHANGED <<target, remote, pr>>
      BY <2>2 DEF ActArtifact, world
    <3>2. \E e : Reports(p, i, e) /\ ToldTrue(e)
      BY <1>1, <1>9, <1>10, <2>2 DEF ActArtifact
    <3> QED
      BY <1>1, <1>5, <3>1, <3>2
  <2>3. CASE ActCommit(p, i)
    <3>1. UNCHANGED <<remote, pr>> /\ Stages[i].kind = "commit"
      BY <2>3 DEF ActCommit
    <3>2. \/ UNCHANGED target
          \/ target' = [target EXCEPT !.work = "commit", !.dirty = {}]
          \/ \E s \in BOOLEAN : target' = [target EXCEPT !.staged = s]
      BY <2>3 DEF ActCommit
    <3>3. /\ target' \in Targets /\ target'.on = "work"
          /\ target'.work \in {target.work, "commit"}
      BY <1>1, <1>5, <3>2 DEF Targets
    <3>4. \E e : Reports(p, i, e) /\ ToldTrue(e)
      <4>1. \/ Reports(p, i, Failed(i, "unsafe")) \/ Reports(p, i, StageFailed(i))
            \/ Reports(p, i, Passed(i, {"commit"})) /\ HeadOf(target) = "commit"
                 /\ UNCHANGED target
            \/ Reports(p, i, Passed(i, {"commit"})) /\
                 target' = [target EXCEPT !.work = "commit", !.dirty = {}]
        BY <2>3 DEF ActCommit
      <4>2. target' = [target EXCEPT !.work = "commit", !.dirty = {}] => target'.work = "commit"
        BY <1>1 DEF Targets
      <4> QED
        BY <1>6, <1>9, <1>10, <3>1, <4>1, <4>2
    <3> QED
      BY <3>1, <3>3, <3>4
  <2>4. CASE ActPush(p, i)
    <3>1. UNCHANGED <<target, pr>> /\ Stages[i].kind = "push"
      BY <2>4 DEF ActPush
    <3>2. UNCHANGED remote \/ (remote = "none" /\ remote' = HeadOf(target))
      BY <2>4 DEF ActPush
    <3>3. HeadOf(target) # "none"
      BY <1>6
    <3>4. \E e : Reports(p, i, e) /\ ToldTrue(e)
      <4>1. \/ Reports(p, i, Failed(i, "unsafe")) \/ Reports(p, i, StageFailed(i))
            \/ Reports(p, i, Passed(i, {"push"})) /\ remote' # "none"
        BY <2>4, <3>3 DEF ActPush
      <4> QED
        BY <1>9, <1>10, <4>1
    <3> QED
      BY <1>1, <1>5, <3>1, <3>2, <3>3, <3>4
  <2>5. CASE ActDraftPr(p, i)
    <3>1. UNCHANGED <<target, remote>> /\ (pr => pr')
      BY <2>5 DEF ActDraftPr
    <3>2. \E e : Reports(p, i, e) /\ ToldTrue(e)
      BY <1>9, <1>10, <2>5 DEF ActDraftPr
    <3> QED
      BY <1>1, <1>5, <3>1, <3>2
  <2>6. CASE ActComment(p, i)
    <3>1. UNCHANGED <<target, remote, pr>>
      BY <2>6 DEF ActComment, world
    <3> QED
      BY <1>1, <1>5, <1>9, <2>6, <3>1 DEF ActComment
  <2> QED
    BY <1>2, <2>1, <2>2, <2>3, <2>4, <2>5, <2>6
<1>12. PICK e : Reports(p, i, e) /\ ToldTrue(e)
  BY <1>11
<1>13. Alone(p) /\ pc'[p] = "report" /\ event'[p] = e
  BY <1>1, <1>4, <1>12 DEF Reports, Goto, LocalsTyped, Alone, Places
<1>14. KnowsTarget(p)'
  <2>1. e.type = "stage_passed" => ReportsPublished(e)'
    BY <1>12 DEF ToldTrue, ReportsPublished
  <2>2. e.type = "stage_passed" /\ Undisturbed' /\ Committed(e)' => target'.work = "commit"
    BY <1>4, <1>7, <1>11, <1>12 DEF ToldTrue, Committed, Undisturbed
  <2> QED
    BY <1>11, <1>13, <2>1, <2>2 DEF KnowsTarget
<1>15. remote' # remote =>
         /\ \E j \in StageIds : Stages[j].kind = "push" /\ j <= ledger.index
         /\ Undisturbed /\ "commit" \in ledger.published => remote' = "commit"
  <2>1. ledger.index <= ledger.index
    BY DEF IInv, Typed, Shape
  <2> QED
    BY <1>5, <1>6, <1>7, <1>11, <2>1
<1> QED
  BY <1>4, <1>11, <1>13, <1>14, <1>15, WorkPublishes

\* A success is recorded with the target as it is.
LEMMA ReportPublishes ==
  ASSUME IInv, CountInv, PublishInv, NEW p \in Procs, Report(p)
  PROVE  PublishInv'
<1> DEFINE e == event[p]
<1>1. /\ LocalsTyped /\ KnowsTarget(p) /\ target \in Targets /\ pc[p] = "report"
      /\ IsResult(e) /\ "type" \in DOMAIN e
  BY DEF IInv, Typed, PublishInv, PublishedIsThere, Report, EventFits
<1>2. UNCHANGED <<ledger, target, remote, pr, touched, overlapped>>
  BY DEF Report, world, store, races
<1>3. Alone(p)
  <2>1. LocalsTyped'
    BY ReportKeeps DEF IInv, Typed
  <2>2. \A q \in Procs \ {p} : /\ pc'[q] = pc[q] /\ event'[q] = event[q]
                               /\ seen'[q] = seen[q] /\ next'[q] = next[q]
    BY <1>1 DEF Report, AppendThen, End, Goto, LocalsTyped
  <2> QED
    BY <2>1, <2>2 DEF Alone
<1>4. target.on = "work"
  BY <1>1 DEF KnowsTarget
<1>5. KnowsTarget(p)'
  <2>1. CASE End(p)
    <3>1. Blind(p)'
      BY <1>1, <2>1 DEF End, Goto, Blind, LocalsTyped
    <3> QED
      BY <3>1, BlindKnows
  <2>2. CASE e.type = "stage_passed" /\ AppendThen(p, [e EXCEPT !.target = target], "emit")
    <3> DEFINE f == [e EXCEPT !.target = target]
    <3>1. /\ ReportsPublished(e)
          /\ (Undisturbed /\ Committed(e) => target.work = "commit")
      BY <1>1, <2>2 DEF KnowsTarget
    <3>2. /\ DOMAIN f = PassDomain /\ f.type = "stage_passed" /\ f.target = target
          /\ f.published = e.published /\ f.stage = e.stage
      BY <2>2, <3>1 DEF ReportsPublished, PassDomain
    <3>3. pc'[p] = "append" /\ event'[p] = f
      BY <1>1, <2>2 DEF AppendThen, Goto, LocalsTyped
    <3> HIDE DEF f
    <3> QED
      BY <1>1, <1>2, <1>4, <3>1, <3>2, <3>3
         DEF KnowsTarget, ReportsPublished, Committed, Undisturbed
  <2>3. CASE e.type # "stage_passed" /\ AppendThen(p, e, "failed")
    <3>1. Blind(p)'
      BY <1>1, <1>2, <1>4, <2>3 DEF AppendThen, Goto, Blind, NamesTarget, IsResult, LocalsTyped
    <3> QED
      BY <3>1, BlindKnows
  <2> QED
    BY <2>1, <2>2, <2>3 DEF Report
<1> QED
  BY <1>2, <1>3, <1>5, MovePublishes

\* Who touches the target while a stage is under way disturbs it.
LEMMA DriftPublishes ==
  ASSUME IInv, PublishInv, Drift
  PROVE  PublishInv'
<1> USE DEF PublishInv
<1>1. /\ UNCHANGED <<ledger, remote, pr, pc, event, overlapped>>
      /\ touched' = (touched \/ \E p \in Procs : UnderWay(p))
  BY DEF Drift, store, locals
<1>2. target \in Targets
  BY DEF PublishedIsThere
<1>3. target' \in Targets /\ target'.on = target.on
  <2>1. \/ target' = [target EXCEPT !.dirty = {}, !.staged = FALSE]
        \/ target' = [target EXCEPT !.dirty = @ \union {"allowed"}]
        \/ target' = [target EXCEPT !.dirty = @ \union {"outside"}]
        \/ target' = [target EXCEPT !.work = "foreign"]
        \/ target' = target
    BY DEF Drift
  <2> QED
    BY <1>2, <2>1 DEF Targets
<1>4. PublishedIsThere' /\ OwnWork'
  BY <1>1, <1>3 DEF PublishedIsThere, PublishComplete, OwnWork, Undisturbed
<1>5. ASSUME NEW q \in Procs
      PROVE  KnowsTarget(q)'
  <2>1. KnowsTarget(q) /\ pc' = pc /\ event' = event
    BY <1>1
  <2>2. UnderWay(q) => ~Undisturbed'
    BY <1>1 DEF Undisturbed
  <2>3. /\ Undisturbed' => Undisturbed
        /\ (PublishComplete => PublishComplete')
    BY <1>1 DEF Undisturbed, PublishComplete
  <2> QED
    BY <1>1, <1>3, <2>1, <2>2, <2>3 DEF KnowsTarget, UnderWay, ReportsPublished, Committed
<1> QED
  BY <1>4, <1>5

LEMMA StepPublishes ==
  ASSUME CommitsFirst, IInv, CountInv, PublishInv, [Next]_vars
  PROVE  PublishInv'
<1>1. ASSUME NEW p \in Procs, CoordinatorStep(p), ~Prepare(p)
      PROVE  PublishInv'
  <2>1. Alone(p)
    BY <1>1, CoordinatorQuiet DEF Quiet
  <2>2. overlapped => overlapped'
    BY <1>1 DEF CoordinatorStep, Emit, LookForComment, PostComment, RecordComment,
         CreateManifest, FillManifest, Start, Started, Reconcile, Decide, Drifted,
         Complete, Leave, Turn, FailureRecorded, TryAgain, Enter, HardStop, AppendTorn,
         LoseComment, Die, races
  <2> QED
    BY <1>1, <2>1, <2>2, CoordinatorKnows, MovePublishes
<1>2. ASSUME NEW p \in Procs,
             AppendRead(p) \/ AppendCache(p) \/ (AppendWrite(p) /\ UNCHANGED ledger)
      PROVE  PublishInv'
  <2>1. LocalsTyped /\ LocalsTyped'
    BY <1>2, StepKeeps DEF IInv, Typed
  <2>2. Alone(p)
    <3>1. \A q \in Procs \ {p} : /\ pc'[q] = pc[q] /\ event'[q] = event[q]
                                 /\ seen'[q] = seen[q] /\ next'[q] = next[q]
      BY <1>2, <2>1 DEF AppendRead, AppendCache, AppendWrite, Arrive, End, Goto, LocalsTyped
    <3> QED
      BY <2>1, <3>1 DEF Alone
  <2> QED
    BY <1>2, <2>2, AppendKnows, MovePublishes
<1>3. ASSUME NEW p \in Procs, AppendWrite(p)
      PROVE  PublishInv'
  <2>1. CASE seen[p] = ledger.events
    BY <1>3, <2>1, WritePublishes
  <2>2. CASE seen[p] # ledger.events
    <3>1. UNCHANGED ledger
      BY <1>3, <2>2 DEF AppendWrite
    <3> QED
      BY <1>2, <1>3, <3>1
  <2> QED
    BY <2>1, <2>2
<1>4. CASE \/ \E k \in Keys : CommentLands(k)
           \/ Tick \/ UNCHANGED vars
  <2>1. UNCHANGED <<ledger, target, remote, pr, pc, event, overlapped, touched>>
    BY <1>4 DEF CommentLands, Tick, vars, store, world, locals, races
  <2> QED
    BY <2>1 DEF PublishInv, PublishedIsThere, PublishComplete, OwnWork, Undisturbed,
                KnowsTarget, ReportsPublished, Committed
<1> QED
  BY <1>1, <1>2, <1>3, <1>4, PreparePublishes, ActPublishes, ReportPublishes, DriftPublishes
     DEF Next, Step, CoordinatorStep

\* A workflow whose commit comes before its push, and whose runs follow each other,
\* is completed only with its own commit on origin and the pull request open,
\* through deaths, losses, retries and work of others between its actions.
THEOREM CompletedWorkIsPublished ==
  ASSUME CommitsFirst PROVE Spec => []CompletedIsPublished
<1>1. Init => PublishInv
  <2> SUFFICES ASSUME Init PROVE PublishInv
    OBVIOUS
  <2>1. target \in Targets
    <3>1. Initial \in Targets
      BY DEF Initial, Targets
    <3>2. [Initial EXCEPT !.on = "other"] \in Targets
      BY <3>1 DEF Targets
    <3> QED
      BY <3>1, <3>2 DEF Init
  <2>2. PublishedIsThere /\ OwnWork
    BY <2>1 DEF Init, PublishedIsThere, OwnWork, NewProjection
  <2>3. \A p \in Procs : KnowsTarget(p)
    BY DEF Init, KnowsTarget
  <2> QED
    BY <2>2, <2>3 DEF PublishInv
<1>2. IInv /\ CountInv /\ PublishInv /\ [Next]_vars => PublishInv'
  BY CommitsFirst, StepPublishes
<1>3. PublishInv => CompletedIsPublished
  BY DEF PublishInv, PublishedIsThere, OwnWork, CompletedIsPublished, PublishComplete,
         Undisturbed
<1> QED
  BY <1>1, <1>2, <1>3, WorkflowInvariant, CountsInvariant, PTL DEF Spec
=============================================================================
