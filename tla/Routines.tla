------------------------------ MODULE Routines ------------------------------
(***************************************************************************)
(* The routines of the desktop application: a template says on which days  *)
(* something is due, an occurrence is the entry of one such day.           *)
(* Occurrences are made late, when a page is opened: the days of the       *)
(* window that have none get one, a past day already closed as missed.     *)
(*                                                                         *)
(* Commands follow the shape of module FollowUps: [rec, answer].  Dates    *)
(* are day numbers, a month has thirty days, and a template keeps what     *)
(* decides its days: recurrence, first and last day, status, the time of   *)
(* day and the project.                                                    *)
(***************************************************************************)
EXTENDS FollowUps

CONSTANT WindowDays    \* days looked back by one pass, today included (7)

ASSUME WindowAssumption == WindowDays \in Nat \ {0}

Weekday(day)  == (day % 7) + 1
MonthDay(day) == (day % 30) + 1

-----------------------------------------------------------------------------
(* Templates                                                               *)

\* What a command asks of a plan: weekdays go with weekly, a day of the month
\* with monthly, the end is not before the start.
WellFormedPlan(plan) ==
  /\ (plan.kind = "weekly")  <=> (plan.weekdays # {})
  /\ (plan.kind = "monthly") <=> (plan.monthDay # None)
  /\ plan.end # None => plan.start <= plan.end

\* The constructor asks the same of a stored plan, and that only an inactive
\* template says when it was deactivated.
WellFormedTemplate(template) ==
  /\ WellFormedPlan(template.plan)
  /\ (template.status = "inactive") <=> (template.deactivated # None)

\* The CHECKs of the table; weekdays have a table of their own, which knows
\* nothing of the recurrence.
TemplateRowAccepted(template) ==
  /\ template.plan.end # None => template.plan.start <= template.plan.end
  /\ (template.plan.kind = "monthly") <=> (template.plan.monthDay # None)
  /\ (template.status = "inactive") <=> (template.deactivated # None)

CreateTemplate(plan, at) ==
  [item |-> [plan |-> plan, status |-> "active", deactivated |-> None,
             revision |-> 1, updated |-> at],
   history |-> <<Event(<<>>, "created", 1, at, [status |-> "active"])>>]

ReviseTemplate(rec, changed, type, at, told) ==
  LET next   == [changed EXCEPT !.revision = rec.item.revision + 1,
                                !.updated  = at]
      stored == RepositoryUpdate(rec.item, next)
  IN  IF ~WellFormedTemplate(next) \/ ~TemplateRowAccepted(stored)
      THEN Refused(rec, "invalid")
      ELSE [rec |-> [item |-> stored,
                     history |-> Append(rec.history,
                                        Event(rec.history, type,
                                              stored.revision, at, told))],
            answer |-> "saved"]

UpdateTemplate(rec, expected, plan, at) ==
  IF ~WellFormedPlan(plan) THEN Refused(rec, "invalid")
  ELSE IF ~Current(rec, expected) THEN Refused(rec, "conflict")
  ELSE IF rec.item.status # "active" THEN Refused(rec, "invalid")
  ELSE IF plan = rec.item.plan THEN Unchanged(rec)
  ELSE ReviseTemplate(rec, [rec.item EXCEPT !.plan = plan],
                      "updated", at, << >>)

DeactivateTemplate(rec, expected, at) ==
  IF ~Current(rec, expected) THEN Refused(rec, "conflict")
  ELSE IF rec.item.status = "inactive" THEN Unchanged(rec)
  ELSE ReviseTemplate(rec, [rec.item EXCEPT !.status = "inactive",
                                            !.deactivated = at],
                      "deactivated", at, [status |-> "inactive"])

\* May the template produce this day?
MatchesDate(template, day) ==
  LET plan == template.plan IN
  /\ template.status = "inactive" => day < LocalDay(template.deactivated)
  /\ plan.start <= day
  /\ plan.end # None => day <= plan.end
  /\ \/ plan.kind = "daily"
     \/ plan.kind = "weekdays" /\ Weekday(day) <= 5
     \/ plan.kind = "weekly"   /\ Weekday(day) \in plan.weekdays
     \/ plan.kind = "monthly"  /\ MonthDay(day) = plan.monthDay

\* The days of the window that ends today.
DueDates(template, today) ==
  {day \in Nat \cap (IF today + 1 < WindowDays THEN 0..today
                     ELSE (today + 1 - WindowDays)..today) :
     MatchesDate(template, day)}

-----------------------------------------------------------------------------
(* Occurrences                                                             *)

ScheduledAt(template, day) == day * PerDay + template.plan.time

WellFormedOccurrence(item) ==
  IF item.status = "open" THEN item.outcome = None /\ item.completed = None
  ELSE item.outcome # None /\ item.completed # None

\* The CHECKs of the table.
OccurrenceRowAccepted(item) ==
  \/ /\ item.status = "open"
     /\ item.outcome = None /\ item.completed = None
  \/ /\ item.status = "closed"
     /\ item.outcome \in {"completed", "no_work", "not_required", "missed"}
     /\ item.completed # None

ClosesWith(outcome) == outcome \in {"completed", "no_work", "not_required"}

ReviseOccurrence(rec, changed, type, at, told) ==
  LET next   == [changed EXCEPT !.revision = rec.item.revision + 1]
      stored == RepositoryUpdate(rec.item, next)
  IN  IF ~WellFormedOccurrence(next) \/ ~OccurrenceRowAccepted(stored)
      THEN Refused(rec, "invalid")
      ELSE [rec |-> [item |-> stored,
                     history |-> Append(rec.history,
                                        Event(rec.history, type,
                                              stored.revision, at, told))],
            answer |-> "saved"]

\* A day of a template has one row: what is there already stays, whoever made
\* it.
AddIfAbsent(existing, made) == IF existing = None THEN made ELSE existing

\* A missing day of the window: made open, and when it is past closed as
\* missed at once, by the same transaction.
NewOccurrence(template, day, today, at) ==
  LET planned == ScheduledAt(template, day)
      made    == [item |-> [status |-> "open", attention |-> planned,
                            scheduled |-> planned, outcome |-> None,
                            completed |-> None, revision |-> 1],
                  history |-> <<Event(<<>>, "created", 1, at,
                                      [status |-> "open"])>>]
  IN  IF day < today
      THEN ReviseOccurrence(made,
             [made.item EXCEPT !.status = "closed", !.outcome = "missed",
                               !.completed = at],
             "missed", at, [outcome |-> "missed"]).rec
      ELSE made

\* A variant that does not look for the entry a day already has.
RemakeOccurrences(template, occurrences, today, at) ==
  [day \in DOMAIN occurrences |->
     IF day \in DueDates(template, today)
     THEN NewOccurrence(template, day, today, at)
     ELSE occurrences[day]]

\* One pass over the window of one template: days that have an occurrence
\* keep it.
EnsureOccurrences(template, occurrences, today, at) ==
  [day \in DOMAIN occurrences |->
     IF day \in DueDates(template, today)
     THEN AddIfAbsent(occurrences[day],
                      NewOccurrence(template, day, today, at))
     ELSE occurrences[day]]

SnoozeOccurrence(rec, expected, attention, at) ==
  LET item == rec.item IN
  IF ~Current(rec, expected) THEN Refused(rec, "conflict")
  ELSE IF item.status # "open" THEN Refused(rec, "invalid")
  ELSE IF item.attention = attention THEN Unchanged(rec)
  ELSE ReviseOccurrence(rec, [item EXCEPT !.attention = attention],
                        "snoozed", at, [attention |-> attention])

CloseOccurrence(rec, expected, outcome, at) ==
  LET item == rec.item IN
  IF ~ClosesWith(outcome) THEN Refused(rec, "invalid")
  ELSE IF ~Current(rec, expected) THEN Refused(rec, "conflict")
  ELSE IF item.status # "open" THEN Refused(rec, "invalid")
  ELSE ReviseOccurrence(rec, [item EXCEPT !.status = "closed",
                                          !.outcome = outcome,
                                          !.completed = at],
                        outcome, at, [outcome |-> outcome])

ReopenOccurrence(rec, expected, attention, at) ==
  LET item == rec.item IN
  IF ~Current(rec, expected) THEN Refused(rec, "conflict")
  ELSE IF item.status # "closed" THEN Refused(rec, "invalid")
  ELSE ReviseOccurrence(rec, [item EXCEPT !.status = "open",
                                          !.outcome = None,
                                          !.completed = None,
                                          !.attention = attention],
                        "reopened", at,
                        [status |-> "open", attention |-> attention])

\* The list of the page of instant now on which an open occurrence appears.
ClassifyOccurrence(item, now) ==
  IF item.status # "open" THEN None
  ELSE IF item.attention < now THEN "overdue"
  ELSE IF LocalDay(item.attention) = LocalDay(now) THEN "today"
  ELSE "upcoming"

\* The occurrences of some views, as a page of instant now lists them.
OccurrenceInView(item, views, now) == ClassifyOccurrence(item, now) \in views
=============================================================================
