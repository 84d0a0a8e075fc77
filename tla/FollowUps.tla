------------------------------ MODULE FollowUps ------------------------------
(***************************************************************************)
(* The follow-up items of the desktop application: one record and its      *)
(* append-only history, and the commands of FollowUpApplicationService.    *)
(*                                                                         *)
(* A record here is the pair [item, history] one transaction reads and     *)
(* writes.  A command is an operator: it takes the record, the revision    *)
(* the caller's page showed and the instant of the clock, and returns      *)
(* [rec, answer].  A command that raises leaves the record as it was (the  *)
(* unit of work rolls back); "saved" is returned as well by the calls that *)
(* find nothing to do and return the current item.                         *)
(*                                                                         *)
(* Of the data, kept are the fields the guards and views read: status,     *)
(* project, observation, attention, deadline, importance, the person       *)
(* waited for, outcome and the closing instants.  Titles, notes and other  *)
(* texts are left out.                                                     *)
(***************************************************************************)
EXTENDS Naturals, Sequences

CONSTANTS None,        \* the value of a field that is not set
          PerDay       \* instants of the model in one local day

ASSUME PerDayAssumption == PerDay \in Nat \ {0}

Planned  == {"active", "waiting"}
Open     == {"inbox"} \cup Planned
Terminal == {"completed", "cancelled"}

\* Instants are numbered from a local midnight, so the date in Istanbul of an
\* instant is the day it falls in.
LocalDay(instant) == instant \div PerDay

-----------------------------------------------------------------------------
(* The record                                                              *)

NewItem(at) ==
  [status |-> "inbox", project |-> None, observation |-> None,
   attention |-> None, deadline |-> None, important |-> FALSE,
   person |-> None, outcome |-> None, completed |-> None,
   cancelled |-> None, revision |-> 1, updated |-> at]

\* What the constructor of the item lets through.
WellFormed(item) ==
  /\ item.observation # None => item.project # None
  /\ item.status \in Planned => item.attention # None
  /\ item.status = "completed" =>
       /\ item.completed # None /\ item.cancelled = None
       /\ item.outcome \notin {None, "cancelled"}
  /\ item.status = "cancelled" =>
       /\ item.cancelled # None /\ item.completed = None
       /\ item.outcome = "cancelled"
  /\ item.status \in Open =>
       item.outcome = None /\ item.completed = None /\ item.cancelled = None

\* What the CHECKs of the table let through; which project an observation goes
\* with is its foreign key, and held by the commands that tie the two.
RowAccepted(item) ==
  /\ item.observation # None => item.project # None
  /\ item.status \in Terminal \cup {"inbox"} \/ item.attention # None
  /\ \/ /\ item.status = "completed"
        /\ item.outcome \in {"completed", "not_required", "converted"}
        /\ item.completed # None /\ item.cancelled = None
     \/ /\ item.status = "cancelled" /\ item.outcome = "cancelled"
        /\ item.cancelled # None /\ item.completed = None
     \/ /\ item.status \in Open /\ item.outcome = None
        /\ item.completed = None /\ item.cancelled = None

\* The types the table of events lets through since its fourth version.
EventTypes ==
  {"created", "scheduled", "rescheduled", "waiting_started", "completed",
   "cancelled", "reopened", "observation_linked", "converted",
   "details_updated", "moved_to_inbox", "project_changed"}

NextSequence(history) ==
  IF history = <<>> THEN 1 ELSE history[Len(history)].sequence + 1

\* One event: its place, its type, the revision its payload names, when it
\* was recorded and the fields the payload tells.
Event(history, type, revision, at, told) ==
  [sequence |-> NextSequence(history), type |-> type, revision |-> revision,
   at |-> at, told |-> told]

\* The repository writes nothing when only the revision would differ.
RepositoryUpdate(current, next) ==
  IF [next EXCEPT !.revision = current.revision] = current
  THEN current ELSE next

Refused(rec, why) == [rec |-> rec, answer |-> why]
Unchanged(rec)    == [rec |-> rec, answer |-> "saved"]

\* The tail every command shares: the changed item with the next revision,
\* its construction, the row, the event.
Revise(rec, changed, type, at, told) ==
  LET next   == [changed EXCEPT !.revision = rec.item.revision + 1,
                                !.updated  = at]
      stored == RepositoryUpdate(rec.item, next)
  IN  IF ~WellFormed(next) \/ ~RowAccepted(stored) \/ type \notin EventTypes
      THEN Refused(rec, "invalid")
      ELSE [rec |-> [item |-> stored,
                     history |-> Append(rec.history,
                                        Event(rec.history, type,
                                              stored.revision, at, told))],
            answer |-> "saved"]

\* Where the commands may send an item, and how they may complete it; their
\* constructors refuse the rest before anything is read.
SchedulesTo(target)    == target \in Planned
CompletesWith(outcome) == outcome \in {"completed", "not_required"}

Current(rec, expected) == rec.item.revision = expected

-----------------------------------------------------------------------------
(* The commands                                                            *)

CreateFollowUp(at) ==
  [item |-> NewItem(at),
   history |-> <<Event(<<>>, "created", 1, at, [status |-> "inbox"])>>]

UpdateDetails(rec, expected, important, deadline, person, at) ==
  LET item == rec.item IN
  IF ~Current(rec, expected) THEN Refused(rec, "conflict")
  ELSE IF <<item.important, item.deadline, item.person>>
            = <<important, deadline, person>> THEN Unchanged(rec)
  ELSE Revise(rec, [item EXCEPT !.important = important,
                                !.deadline = deadline, !.person = person],
              "details_updated", at, << >>)

Schedule(rec, expected, attention, target, at) ==
  LET item == rec.item IN
  IF ~SchedulesTo(target) THEN Refused(rec, "invalid")
  ELSE IF ~Current(rec, expected) THEN Refused(rec, "conflict")
  ELSE IF item.status \in Terminal THEN Refused(rec, "invalid")
  ELSE IF item.status = target /\ item.attention = attention
       THEN Unchanged(rec)
  ELSE Revise(rec, [item EXCEPT !.status = target, !.attention = attention],
              IF item.status = "inbox" THEN "scheduled" ELSE "rescheduled",
              at, [status |-> target, attention |-> attention])

MoveToInbox(rec, expected, at) ==
  LET item == rec.item IN
  IF ~Current(rec, expected) THEN Refused(rec, "conflict")
  ELSE IF item.status = "inbox" /\ item.attention = None THEN Unchanged(rec)
  ELSE IF item.status \notin Planned THEN Refused(rec, "invalid")
  ELSE Revise(rec, [item EXCEPT !.status = "inbox", !.attention = None],
              "moved_to_inbox", at, << >>)

SetProject(rec, expected, project, at) ==
  LET item == rec.item IN
  IF ~Current(rec, expected) THEN Refused(rec, "conflict")
  ELSE IF item.observation # None
       THEN IF project = item.project THEN Unchanged(rec)
            ELSE Refused(rec, "invalid")
  ELSE IF item.project = project THEN Unchanged(rec)
  ELSE Revise(rec, [item EXCEPT !.project = project],
              "project_changed", at, [project |-> project])

MarkWaiting(rec, expected, attention, person, at) ==
  LET item == rec.item IN
  IF ~Current(rec, expected) THEN Refused(rec, "conflict")
  ELSE IF item.status = "waiting"
       THEN IF item.attention = attention /\ item.person = person
            THEN Unchanged(rec) ELSE Refused(rec, "invalid")
  ELSE IF item.status \notin {"inbox", "active"} THEN Refused(rec, "invalid")
  ELSE Revise(rec, [item EXCEPT !.status = "waiting",
                                !.attention = attention, !.person = person],
              "waiting_started", at, [attention |-> attention])

\* A variant that leaves the plan of a completed item standing.
CompleteKeepsPlan(rec, expected, outcome, at) ==
  LET item == rec.item IN
  IF ~Current(rec, expected) THEN Refused(rec, "conflict")
  ELSE IF item.status \notin Open THEN Refused(rec, "invalid")
  ELSE Revise(rec, [item EXCEPT !.status = "completed", !.outcome = outcome,
                                !.completed = at, !.cancelled = None],
              "completed", at, [outcome |-> outcome])

Complete(rec, expected, outcome, at) ==
  LET item == rec.item IN
  IF ~CompletesWith(outcome) THEN Refused(rec, "invalid")
  ELSE IF ~Current(rec, expected) THEN Refused(rec, "conflict")
  ELSE IF item.status \notin Open THEN Refused(rec, "invalid")
  ELSE Revise(rec, [item EXCEPT !.status = "completed", !.outcome = outcome,
                                !.completed = at, !.cancelled = None,
                                !.attention = None],
              "completed", at, [outcome |-> outcome])

Cancel(rec, expected, at) ==
  LET item == rec.item IN
  IF ~Current(rec, expected) THEN Refused(rec, "conflict")
  ELSE IF item.status \notin Open THEN Refused(rec, "invalid")
  ELSE Revise(rec, [item EXCEPT !.status = "cancelled",
                                !.outcome = "cancelled", !.completed = None,
                                !.cancelled = at, !.attention = None],
              "cancelled", at, [outcome |-> "cancelled"])

Reopen(rec, expected, attention, at) ==
  LET item   == rec.item
      target == IF attention # None THEN "active" ELSE "inbox"
  IN
  IF ~Current(rec, expected) THEN Refused(rec, "conflict")
  ELSE IF item.status \notin Terminal THEN Refused(rec, "invalid")
  ELSE Revise(rec, [item EXCEPT !.status = target, !.attention = attention,
                                !.outcome = None, !.completed = None,
                                !.cancelled = None],
              "reopened", at, [status |-> target, attention |-> attention])

\* An observation may be tied to an item that has none yet, or has this one,
\* and whose project, if it has one, is the observation's.
ObservationFits(item, observation, project) ==
  /\ item.observation \in {None, observation}
  /\ item.project \in {None, project}

LinkObservation(rec, expected, observation, project, at) ==
  LET item == rec.item IN
  IF ~Current(rec, expected) THEN Refused(rec, "conflict")
  ELSE IF ~ObservationFits(item, observation, project)
       THEN Refused(rec, "invalid")
  ELSE IF item.observation = observation THEN Unchanged(rec)
  ELSE Revise(rec, [item EXCEPT !.observation = observation,
                                !.project = project],
              "observation_linked", at,
              [observation |-> observation, project |-> project])

ConvertToObservation(rec, expected, observation, project, at) ==
  LET item == rec.item IN
  IF ~Current(rec, expected) THEN Refused(rec, "conflict")
  ELSE IF ~ObservationFits(item, observation, project)
       THEN Refused(rec, "invalid")
  ELSE IF /\ item.status = "completed"
          /\ item.outcome = "converted"
          /\ item.observation = observation
          /\ item.project = project
          /\ item.attention = None
       THEN Unchanged(rec)
  ELSE IF item.status \notin Open THEN Refused(rec, "invalid")
  ELSE Revise(rec, [item EXCEPT !.status = "completed",
                                !.outcome = "converted", !.completed = at,
                                !.cancelled = None, !.attention = None,
                                !.observation = observation,
                                !.project = project],
              "converted", at,
              [observation |-> observation, project |-> project,
               outcome |-> "converted"])

-----------------------------------------------------------------------------
(* The views of the pages                                                  *)

\* A variant that lets the deadline count only where nothing is planned.
PlanBeforeDeadline(item) ==
  IF item.status \notin Planned THEN None
  ELSE IF item.attention = None THEN item.deadline ELSE item.attention

\* The earlier of the planned attention and the deadline of planned work.
EffectiveAttention(item) ==
  IF item.status \notin Planned THEN None
  ELSE IF item.deadline = None THEN item.attention
  ELSE IF item.attention = None THEN item.deadline
  ELSE IF item.attention <= item.deadline THEN item.attention
  ELSE item.deadline

\* The page an item is shown on, None for the closed ones.
Classify(item, today) ==
  LET due == EffectiveAttention(item) IN
  IF item.status = "inbox" THEN "inbox"
  ELSE IF due = None THEN None
  ELSE IF LocalDay(due) < today THEN "overdue"
  ELSE IF LocalDay(due) = today THEN "today"
  ELSE "upcoming"

\* The list of what needs attention now: overdue work, work of today whose
\* hour has come, important items of the inbox.
IsNow(item, now) ==
  LET due == EffectiveAttention(item) IN
  IF item.status = "inbox" THEN item.important
  ELSE /\ due # None
       /\ \/ Classify(item, LocalDay(now)) = "overdue"
          \/ Classify(item, LocalDay(now)) = "today" /\ due <= now

\* The items of one view, as a page of instant now lists them.
InView(item, view, now) ==
  IF view = "now" THEN IsNow(item, now)
  ELSE IF view = "inbox" THEN item.status = "inbox"
  ELSE Classify(item, LocalDay(now)) = view
=============================================================================
