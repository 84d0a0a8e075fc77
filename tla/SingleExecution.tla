--------------------------- MODULE SingleExecution ---------------------------
(***************************************************************************)
(* What the ledger of a run promises of an approved action (ledger.py,     *)
(* runner.py): it is taken up by one process at a time, its command starts *)
(* at most once, and one result is recorded of it, which stands.  A death  *)
(* may leave it without a result, never with a second attempt.             *)
(*                                                                         *)
(* There are no files here, no admissions, no order of verification and    *)
(* write: those are how ActionLedger keeps the promise.                    *)
(***************************************************************************)
VARIABLES
  claimed,   \* who is about to carry out what: records of work and by
  begun,     \* the works whose command was started
  answers    \* the results there are: records of work, line and outcome

evars == <<claimed, begun, answers>>

Init == claimed = {} /\ begun = {} /\ answers = {}

Claimed(work)  == \E c \in claimed : c.work = work
Answered(work) == \E a \in answers : a.work = work

\* A process takes up a work that nobody has, and that was neither started nor
\* given a result.
Claim(c) ==
  /\ ~Claimed(c.work) /\ c.work \notin begun /\ ~Answered(c.work)
  /\ claimed' = claimed \union {c}
  /\ UNCHANGED <<begun, answers>>

\* It starts the command, or cannot, or dies before.
CarryOut(c) ==
  /\ claimed' = claimed \ {c}
  /\ begun' \in {begun, begun \union {c.work}}
  /\ UNCHANGED answers

\* The result of a work is recorded when the work is over; a success is one of
\* a command that was started.
Answer(a) ==
  /\ ~Claimed(a.work) /\ ~Answered(a.work)
  /\ a.outcome = "ok" => a.work \in begun
  /\ answers' = answers \union {a}
  /\ UNCHANGED <<claimed, begun>>

Next ==
  \/ \E c \in claimed' \ claimed : Claim(c)
  \/ \E c \in claimed : CarryOut(c)
  \/ \E a \in answers' \ answers : Answer(a)

Spec == Init /\ [][Next]_evars
=============================================================================
