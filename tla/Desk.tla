-------------------------------- MODULE Desk --------------------------------
(***************************************************************************)
(* The desktop application at work: browser windows send requests to a     *)
(* threaded server, every command runs in one BEGIN IMMEDIATE transaction  *)
(* over the database of the data root, and a fault rolls it back whole.    *)
(* Transactions are therefore the steps of this module.  Two kinds of      *)
(* request read something before their transaction begins, and are taken   *)
(* in two steps: the posts of an observation read the clock first, and the *)
(* page of the day reads the instant it is drawn for, makes the missing    *)
(* occurrences with it and so may decide what is past with an instant that *)
(* is behind.  A form names the revision its page showed, and a page may   *)
(* be old: any revision up to the current one arrives.                     *)
(*                                                                         *)
(* Linking an item to an observation, converting it, updating a template   *)
(* and archiving an observation are calls of the services that no page     *)
(* makes; they are steps like the others.                                  *)
(***************************************************************************)
EXTENDS Routines, Observations, SequencesExt

CONSTANTS Items,          \* ids of follow-up items
          Sightings,      \* ids of observations
          Templates,      \* ids of routine templates
          Projects,       \* ids of projects
          Windows,        \* requests that can be under way at once
          Plans,          \* what a routine form can ask for
          Persons,        \* people an item can wait for
          Texts,          \* texts an observation can be given, as numbers
          Moments,        \* instants a form can ask for
          MaxInstant,     \* last instant of the clock
          MaxRevision,    \* revisions a record is taken to
          MaxRoutine,     \* and a template with its occurrences together
          Scopes          \* the sets of pages a behaviour may be about

Maybe(S) == S \cup {None}

\* What an event of an item, of an occurrence and of a template may tell.
Outcomes == {"completed", "not_required", "converted", "cancelled"}

ItemStories ==
  {<< >>} \cup [status : Open] \cup [attention : Maybe(Nat)]
    \cup [outcome : Outcomes] \cup [project : Maybe(Projects)]
    \cup [status : Open, attention : Maybe(Nat)]
    \cup [observation : Sightings, project : Projects]
    \cup [observation : Sightings, project : Projects, outcome : Outcomes]

OccurrenceOutcomes == {"completed", "no_work", "not_required", "missed"}

RoutineStories ==
  {<< >>} \cup [status : {"open", "active", "inactive"}]
    \cup [outcome : OccurrenceOutcomes] \cup [attention : Nat]
    \cup [status : {"open"}, attention : Nat]

Events(types, stories) ==
  [sequence : Nat, type : types, revision : Nat, at : Nat, told : stories]

\* The rows, and the records: a row with its history.
ItemRows ==
  [status : Open \cup Terminal, project : Maybe(Projects),
   observation : Maybe(Sightings), attention : Maybe(Nat),
   deadline : Maybe(Nat), important : BOOLEAN, person : Maybe(Persons),
   outcome : Maybe(Outcomes), completed : Maybe(Nat), cancelled : Maybe(Nat),
   revision : Nat, updated : Nat]

ObservationRows ==
  [project : Projects, observed : Nat, status : {"open", "tracking", "closed"},
   text : Texts \cup {0}, reported : Maybe(Texts), closed : Maybe(Nat),
   archived : Maybe(Nat), revision : Nat, updated : Nat]

TemplateRows ==
  [plan : Plans, status : {"active", "inactive"}, deactivated : Maybe(Nat),
   revision : Nat, updated : Nat]

OccurrenceRows ==
  [status : {"open", "closed"}, attention : Nat, scheduled : Nat,
   outcome : Maybe(OccurrenceOutcomes), completed : Maybe(Nat), revision : Nat]

ObservationEvents ==
  [type : {"observation_created", "observation_status_changed",
           "observation_details_updated", "observation_reporting_updated",
           "observation_archived"},
   revision : Nat, at : Nat]

ItemRecords == [item : ItemRows, history : Seq(Events(EventTypes, ItemStories))]

ObservationRecords == [item : ObservationRows, history : Seq(ObservationEvents)]

TemplateRecords ==
  [item : TemplateRows,
   history : Seq(Events({"created", "updated", "deactivated"}, RoutineStories))]

OccurrenceRecords ==
  [item : OccurrenceRows,
   history : Seq(Events({"created", "snoozed", "reopened"}
                          \cup OccurrenceOutcomes, RoutineStories))]

\* A request under way: the page of the day, or a call on an observation.
Calling(calls, values) ==
  [call : calls, value : values, target : Sightings, expected : Nat, at : Nat]

Requests ==
  [call : {"today"}, value : {None}, target : {None}, expected : {1}, at : Nat]
    \cup Calling({"new"}, Projects) \cup Calling({"archive"}, {None})
    \cup Calling({"status"}, {"open", "tracking", "closed"})
    \cup Calling({"details", "reporting"}, Texts)

ASSUME DeskAssumption ==
  /\ MaxInstant \in Nat
  /\ MaxRevision \in Nat \ {0}
  /\ MaxRoutine \in Nat
  /\ Moments \subseteq Nat
  /\ Plans \subseteq [kind : {"daily", "weekdays", "weekly", "monthly"},
                      weekdays : SUBSET (1..7), monthDay : Maybe(Nat),
                      start : Nat, end : Maybe(Nat),
                      time : 0..(PerDay - 1),
                      project : Maybe(Projects)]

\* A field or a record that is not set is none of those that are.
ASSUME NoneAssumption ==
  /\ None \notin Items \cup Sightings \cup Templates \cup Projects
  /\ None \notin {"inbox", "overdue", "today", "upcoming"}
  /\ None \notin ItemRecords \cup ObservationRecords
  /\ None \notin TemplateRecords \cup OccurrenceRecords

Days == 0..LocalDay(MaxInstant)

VARIABLES now,            \* the clock
          projects,       \* the projects there are
          followUps,      \* the record of every item, None where there is none
          observations,   \* the same of observations
          templates,      \* of templates
          occurrences,    \* and of the occurrence of a template on a day
          requests,       \* what each window waits for, None when nothing
          seen,           \* days on which the page of the day was drawn with
                          \* a template due, as it happened
          scope           \* the pages of this behaviour

vars == <<now, projects, followUps, observations, templates, occurrences,
          requests, seen, scope>>

\* Every variable stays in its type.
TypeOK ==
  /\ now \in 0..MaxInstant
  /\ projects \subseteq Projects
  /\ followUps \in [Items -> Maybe(ItemRecords)]
  /\ observations \in [Sightings -> Maybe(ObservationRecords)]
  /\ templates \in [Templates -> Maybe(TemplateRecords)]
  /\ occurrences \in [Templates -> [Days -> Maybe(OccurrenceRecords)]]
  /\ requests \in [Windows -> Maybe(Requests)]
  /\ seen \in [Templates -> SUBSET Days]
  /\ scope \in Scopes

Init ==
  /\ now = 0
  /\ projects = {}
  /\ followUps = [i \in Items |-> None]
  /\ observations = [o \in Sightings |-> None]
  /\ templates = [t \in Templates |-> None]
  /\ occurrences = [t \in Templates |-> [d \in Days |-> None]]
  /\ requests = [w \in Windows |-> None]
  /\ seen = [t \in Templates |-> {}]
  /\ scope \in Scopes

\* The clock moves on its own.
Tick ==
  /\ now < MaxInstant
  /\ now' = now + 1
  /\ UNCHANGED <<projects, followUps, observations, templates, occurrences,
                 requests, seen, scope>>

CreateProject(p) ==
  /\ p \notin projects
  /\ projects' = projects \cup {p}
  /\ UNCHANGED <<now, followUps, observations, templates, occurrences,
                 requests, seen, scope>>

-----------------------------------------------------------------------------
(* Follow-up items                                                         *)

Known(project) == project \in projects \cup {None}

\* A command of an item commits, or is refused and changes nothing; what the
\* page then says (409 for a conflict, 404, 400) is the answer of the result
\* and no part of the state.
Put(i, result) ==
  /\ followUps' = [followUps EXCEPT ![i] = result.rec]
  /\ UNCHANGED <<now, projects, observations, templates, occurrences,
                 requests, seen, scope>>

\* The instant of creation is read before the transaction; nothing else knows
\* the record until it commits.
CaptureFollowUp(i) ==
  /\ followUps[i] = None
  /\ Put(i, [rec |-> CreateFollowUp(now), answer |-> "saved"])

\* A page that shows revision e of the item posts one of its forms.
Form(i, e) == followUps[i] # None /\ e \in 1..followUps[i].item.revision

FollowUpDetails(i) ==
  \E e \in 1..MaxRevision, important \in BOOLEAN,
     deadline \in Moments \cup {None}, person \in Persons \cup {None} :
    /\ Form(i, e)
    /\ Put(i, UpdateDetails(followUps[i], e, important, deadline, person,
                               now))

FollowUpProject(i) ==
  \E e \in 1..MaxRevision, project \in Projects \cup {None} :
    /\ Form(i, e)
    /\ Put(i, IF Known(project)
                 THEN SetProject(followUps[i], e, project, now)
                 ELSE Refused(followUps[i], "missing"))

FollowUpSchedule(i) ==
  \E e \in 1..MaxRevision, attention \in Moments, target \in Planned :
    /\ Form(i, e)
    /\ Put(i, Schedule(followUps[i], e, attention, target, now))

FollowUpWaiting(i) ==
  \E e \in 1..MaxRevision, attention \in Moments,
     person \in Persons \cup {None} :
    /\ Form(i, e)
    /\ Put(i, MarkWaiting(followUps[i], e, attention, person, now))

FollowUpToInbox(i) ==
  \E e \in 1..MaxRevision :
    /\ Form(i, e)
    /\ Put(i, MoveToInbox(followUps[i], e, now))

FollowUpComplete(i) ==
  \E e \in 1..MaxRevision, outcome \in {"completed", "not_required"} :
    /\ Form(i, e)
    /\ Put(i, Complete(followUps[i], e, outcome, now))

FollowUpCancel(i) ==
  \E e \in 1..MaxRevision :
    /\ Form(i, e)
    /\ Put(i, Cancel(followUps[i], e, now))

FollowUpReopen(i) ==
  \E e \in 1..MaxRevision, attention \in Moments \cup {None} :
    /\ Form(i, e)
    /\ Put(i, Reopen(followUps[i], e, attention, now))

LinkFollowUp(i) ==
  \E e \in 1..MaxRevision, o \in Sightings :
    /\ Form(i, e)
    /\ Put(i, IF observations[o] = None
                 THEN Refused(followUps[i], "missing")
                 ELSE LinkObservation(followUps[i], e, o,
                                      observations[o].item.project, now))

ConvertFollowUp(i) ==
  \E e \in 1..MaxRevision, o \in Sightings :
    /\ Form(i, e)
    /\ Put(i, IF observations[o] = None
                 THEN Refused(followUps[i], "missing")
                 ELSE ConvertToObservation(followUps[i], e, o,
                                           observations[o].item.project, now))

FollowUpStep(i) ==
  \/ CaptureFollowUp(i)  \/ FollowUpDetails(i)  \/ FollowUpProject(i)
  \/ FollowUpSchedule(i) \/ FollowUpWaiting(i)  \/ FollowUpToInbox(i)
  \/ FollowUpComplete(i) \/ FollowUpCancel(i)   \/ FollowUpReopen(i)
  \/ LinkFollowUp(i)     \/ ConvertFollowUp(i)

-----------------------------------------------------------------------------
(* Observations                                                            *)

\* A post of observation o arrives: the service reads the clock, its
\* transaction is not begun.
Post(w, o, call, values) ==
  /\ requests[w] = None
  /\ observations[o] # None
  /\ \E value \in values, e \in 1..observations[o].item.revision :
       requests' = [requests EXCEPT ![w] =
                      [call |-> call, value |-> value, target |-> o,
                       expected |-> e, at |-> now]]
  /\ UNCHANGED <<now, projects, followUps, observations, templates,
                 occurrences, seen, scope>>

\* The form of an archived observation is refused before the service is called.
PostEdit(w, o) ==
  /\ observations[o] # None /\ observations[o].item.archived = None
  /\ Post(w, o, "details", Texts)

PostStatus(w, o) == Post(w, o, "status", {"open", "tracking", "closed"})

PostReporting(w, o) == Post(w, o, "reporting", Texts)

CallArchive(w, o) == Post(w, o, "archive", {None})

PostNewObservation(w, o) ==
  /\ requests[w] = None
  /\ observations[o] = None
  /\ \A v \in Windows : requests[v] # None => requests[v].target # o
  /\ \E p \in Projects :
       requests' = [requests EXCEPT ![w] =
                      [call |-> "new", value |-> p, target |-> o,
                       expected |-> 1, at |-> now]]
  /\ UNCHANGED <<now, projects, followUps, observations, templates,
                 occurrences, seen, scope>>

\* What the transaction makes of the post.
ObservationResult(post) ==
  LET rec == observations[post.target] IN
  IF post.call = "new"
  THEN IF post.value \in projects
       THEN [rec |-> CreateObservation(post.value, post.at, post.at),
             answer |-> "saved"]
       ELSE Refused(rec, "missing")
  ELSE IF post.call = "status"
  THEN UpdateObservationStatus(rec, post.expected, post.value, post.at)
  ELSE IF post.call = "details"
  THEN UpdateObservationDetails(rec, post.expected, post.value, post.at)
  ELSE IF post.call = "reporting"
  THEN UpdateReporting(rec, post.expected, post.value, post.at)
  ELSE ArchiveObservation(rec, post.expected, post.at)

CommitObservation(w) ==
  /\ requests[w] # None
  /\ requests[w].call # "today"
  /\ LET post   == requests[w]
         result == ObservationResult(post)
     IN  /\ observations' = [observations EXCEPT ![post.target] = result.rec]
         /\ requests' = [requests EXCEPT ![w] = None]
  /\ UNCHANGED <<now, projects, followUps, templates, occurrences, seen,
                 scope>>

\* The database stays locked past the busy timeout, or fails: rolled back.
RequestFails(w) ==
  /\ requests[w] # None
  /\ requests' = [requests EXCEPT ![w] = None]
  /\ UNCHANGED <<now, projects, followUps, observations, templates,
                 occurrences, seen, scope>>

-----------------------------------------------------------------------------
(* Routines                                                                *)

PutTemplate(t, result) ==
  /\ templates' = [templates EXCEPT ![t] = result.rec]
  /\ UNCHANGED <<now, projects, followUps, observations, occurrences,
                 requests, seen, scope>>

TemplateForm(t, e) ==
  templates[t] # None /\ e \in 1..templates[t].item.revision

RoutineNew(t) ==
  \E plan \in Plans :
    /\ templates[t] = None
    /\ PutTemplate(t, IF Known(plan.project) /\ WellFormedPlan(plan)
                         THEN [rec |-> CreateTemplate(plan, now),
                               answer |-> "saved"]
                         ELSE Refused(None, "invalid"))

RoutineUpdate(t) ==
  \E e \in 1..MaxRevision, plan \in Plans :
    /\ TemplateForm(t, e)
    /\ PutTemplate(t, IF Known(plan.project)
                         THEN UpdateTemplate(templates[t], e, plan, now)
                         ELSE Refused(templates[t], "missing"))

RoutineDeactivate(t) ==
  \E e \in 1..MaxRevision :
    /\ TemplateForm(t, e)
    /\ PutTemplate(t, DeactivateTemplate(templates[t], e, now))

\* GET /today reads the instant of the page.
OpenToday(w) ==
  /\ requests[w] = None
  /\ requests' = [requests EXCEPT ![w] =
                    [call |-> "today", value |-> None, target |-> None,
                     expected |-> 1, at |-> now]]
  /\ UNCHANGED <<now, projects, followUps, observations, templates,
                 occurrences, seen, scope>>

\* Its transaction: the window of every template, one after the other.
DrawToday(w) ==
  /\ requests[w] # None
  /\ requests[w].call = "today"
  /\ LET at    == requests[w].at
         today == LocalDay(at)
         drawn == {t \in Templates : templates[t] # None}
     IN  /\ occurrences' =
              [t \in Templates |->
                 IF t \in drawn
                 THEN EnsureOccurrences(templates[t].item, occurrences[t],
                                        today, at)
                 ELSE occurrences[t]]
         /\ seen' = [t \in Templates |->
                       IF /\ t \in drawn
                          /\ today = LocalDay(now)
                          /\ MatchesDate(templates[t].item, today)
                       THEN seen[t] \cup {today} ELSE seen[t]]
  /\ requests' = [requests EXCEPT ![w] = None]
  /\ UNCHANGED <<now, projects, followUps, observations, templates, scope>>

PutOccurrence(t, d, result) ==
  /\ occurrences' = [occurrences EXCEPT ![t][d] = result.rec]
  /\ UNCHANGED <<now, projects, followUps, observations, templates,
                 requests, seen, scope>>

OccurrenceForm(t, d, e) ==
  occurrences[t][d] # None /\ e \in 1..occurrences[t][d].item.revision

OccurrenceSnooze(t, d) ==
  \E e \in 1..MaxRevision, attention \in Moments :
    /\ OccurrenceForm(t, d, e)
    /\ PutOccurrence(t, d, SnoozeOccurrence(occurrences[t][d], e,
                                               attention, now))

OccurrenceClose(t, d) ==
  \E e \in 1..MaxRevision,
     outcome \in {"completed", "no_work", "not_required"} :
    /\ OccurrenceForm(t, d, e)
    /\ PutOccurrence(t, d, CloseOccurrence(occurrences[t][d], e, outcome,
                                              now))

OccurrenceReopen(t, d) ==
  \E e \in 1..MaxRevision, attention \in Moments :
    /\ OccurrenceForm(t, d, e)
    /\ PutOccurrence(t, d, ReopenOccurrence(occurrences[t][d], e,
                                               attention, now))

RoutineStep(t) ==
  \/ RoutineNew(t) \/ RoutineUpdate(t) \/ RoutineDeactivate(t)
  \/ \E d \in Days : \/ OccurrenceSnooze(t, d)
                     \/ OccurrenceClose(t, d)
                     \/ OccurrenceReopen(t, d)

-----------------------------------------------------------------------------

\* The revisions a record may still be given, a bound of the exploration: no
\* command is tried on a record that has used them up, and a template shares
\* its revisions with its occurrences.
Revisions(rec) == IF rec = None THEN 0 ELSE rec.item.revision

Room(rec) == Revisions(rec) < MaxRevision

RoutineRoom(t) ==
  /\ Room(templates[t])
  /\ \A d \in Days : Room(occurrences[t][d])
  /\ Revisions(templates[t])
       + FoldFunction(LAMBDA rec, sum : sum + Revisions(rec), 0,
                      occurrences[t])
       < MaxRoutine

Next ==
  \/ Tick
  \/ "projects" \in scope /\ \E p \in Projects : CreateProject(p)
  \/ /\ "follow-ups" \in scope
     /\ \E i \in Items : Room(followUps[i]) /\ FollowUpStep(i)
  \/ /\ "projects" \in scope
     /\ \E w \in Windows, o \in Sightings : PostNewObservation(w, o)
  \/ /\ "observations" \in scope
     /\ \E w \in Windows, o \in Sightings :
          /\ Room(observations[o])
          /\ \/ PostEdit(w, o)      \/ PostStatus(w, o)
             \/ PostReporting(w, o) \/ CallArchive(w, o)
  \/ /\ "routines" \in scope
     /\ \E t \in Templates : RoutineRoom(t) /\ RoutineStep(t)
  \/ "routines" \in scope /\ \E w \in Windows : OpenToday(w)
  \/ \E w \in Windows : CommitObservation(w) \/ DrawToday(w) \/ RequestFails(w)

Spec == Init /\ [][Next]_vars

\* The lists of the page of the day, drawn now.
DayPage ==
  LET listed(view) == {i \in Items : /\ followUps[i] # None
                                     /\ InView(followUps[i].item, view, now)}
  IN  [now |-> listed("now"), overdue |-> listed("overdue"),
       today |-> listed("today"),
       occurrences |->
         {entry \in Templates \X Days :
            LET rec == occurrences[entry[1]][entry[2]] IN
            rec # None /\ OccurrenceInView(rec.item, {"overdue", "today"}, now)}]

-----------------------------------------------------------------------------
(* Properties                                                              *)

\* The i-th event belongs to revision i, none is missing or doubled, and no
\* event is recorded before an earlier one.
Numbered(rec) ==
  /\ Len(rec.history) = rec.item.revision
  /\ \A i \in 1..Len(rec.history) : rec.history[i].revision = i
  /\ \A i, j \in 1..Len(rec.history) :
       i <= j => rec.history[i].at <= rec.history[j].at

\* The history of every record tells its revisions one by one, in the order of
\* the clock: the pages of an observation sort its events by their instant
\* alone, which the service reads before its transaction (observations.py:295,
\* repositories.py:563), so only the revision of the form keeps a delayed post
\* from being listed before what it followed.  The repository skips a write
\* that changes nothing (field_tracking_repositories.py:248), and no command
\* records an event for it.
HistoryInOrder ==
  /\ \A i \in Items : followUps[i] # None => Numbered(followUps[i])
  /\ \A o \in Sightings : observations[o] # None => Numbered(observations[o])
  /\ \A t \in Templates : templates[t] # None => Numbered(templates[t])
  /\ \A t \in Templates, d \in Days :
       occurrences[t][d] # None => Numbered(occurrences[t][d])

\* What an event says of the item: its payload and what its type means.
Means(type) ==
  IF type = "waiting_started" THEN [status |-> "waiting"]
  ELSE IF type = "moved_to_inbox"
  THEN [status |-> "inbox", attention |-> None]
  ELSE IF type \in {"completed", "converted"}
  THEN [status |-> "completed", attention |-> None]
  ELSE IF type = "cancelled"
  THEN [status |-> "cancelled", attention |-> None]
  ELSE IF type = "reopened" THEN [outcome |-> None]
  ELSE << >>

Tells(event, field) ==
  field \in DOMAIN event.told \cup DOMAIN Means(event.type)

ToldBy(event, field) ==
  IF field \in DOMAIN event.told THEN event.told[field]
                                 ELSE Means(event.type)[field]

\* Replayed, the history leaves this value: the last event that tells of the
\* field told it, or none did and it is what no record has at first.
Leaves(history, field, value) ==
  \/ \E n \in DOMAIN history :
       /\ Tells(history[n], field) /\ ToldBy(history[n], field) = value
       /\ \A m \in DOMAIN history : m > n => ~Tells(history[m], field)
  \/ /\ value = None
     /\ \A n \in DOMAIN history : ~Tells(history[n], field)

TellsItem(rec) ==
  /\ Leaves(rec.history, "status", rec.item.status)
  /\ Leaves(rec.history, "attention", rec.item.attention)
  /\ Leaves(rec.history, "outcome", rec.item.outcome)
  /\ Leaves(rec.history, "project", rec.item.project)
  /\ Leaves(rec.history, "observation", rec.item.observation)

\* The append-only history alone tells where an item stands: replaying it
\* gives its status, attention, outcome, project and observation.  The payloads
\* are written by eleven commands by hand (application/field_tracking.py:306 to
\* 836) and nothing reads them back.
HistoryTellsItem ==
  \A i \in Items : followUps[i] # None => TellsItem(followUps[i])

\* A day whose page was drawn while it lasted, with the template due, keeps
\* the entry that page showed: whatever is drawn later, by requests that read
\* their instant before or after midnight, and whatever becomes of the
\* template, the day has its occurrence and it was never closed as missed
\* (application/routines.py:379).
SeenDaysAreNotMissed ==
  \A t \in Templates : \A d \in seen[t] :
    /\ occurrences[t][d] # None
    /\ \A i \in DOMAIN occurrences[t][d].history :
         occurrences[t][d].history[i].type # "missed"

\* The lists of the pages agree with the state.  Every open item is on exactly
\* one of the four lists of follow-ups and a closed one on none; the list of
\* what is due now holds the items one of whose instants has come, and the
\* important ones of the inbox; an open occurrence leaves the page of the day
\* only for a later day (field_tracking.py:666 to 749).
DueWorkIsShown ==
  /\ \A i \in Items : followUps[i] # None =>
       LET item == followUps[i].item
           due  == {item.attention, item.deadline} \ {None}
       IN  /\ i \in DayPage.now <=>
                \/ item.status = "inbox" /\ item.important
                \/ item.status \in Planned /\ \E at \in due : at <= now
           /\ Cardinality({view \in {"inbox", "overdue", "today", "upcoming"} :
                             InView(item, view, now)})
                = IF item.status \in Open THEN 1 ELSE 0
  /\ \A t \in Templates, d \in Days : occurrences[t][d] # None =>
       LET item == occurrences[t][d].item IN
       item.status = "open" =>
         (<<t, d>> \in DayPage.occurrences
            <=> LocalDay(item.attention) <= LocalDay(now))

\* An item that is tied to an observation and the observation agree on the
\* project: the page of the item may be old, the project of the observation is
\* read by the transaction that ties the two, and no later command parts them
\* (application/field_tracking.py:451 to 498 and 874 to 892; the foreign key of
\* the pair, persistence/schema.py:126).
TiesAgree ==
  \A i \in Items : followUps[i] # None =>
    LET item == followUps[i].item IN
    item.observation # None =>
      /\ observations[item.observation] # None
      /\ item.project = observations[item.observation].item.project

\* The four kinds of records as RevisedRecords has them.
Standing(rec, sealed, tie) ==
  [row |-> rec.item, log |-> rec.history, sealed |-> sealed, tie |-> tie]

Absent == [row |-> None, log |-> << >>, sealed |-> FALSE, tie |-> None]

TieOf(item) ==
  IF item.observation = None THEN None ELSE <<item.observation, item.project>>

StandingItem(rec) ==
  IF rec = None THEN Absent ELSE Standing(rec, FALSE, TieOf(rec.item))

StandingObservation(rec) ==
  IF rec = None THEN Absent
  ELSE Standing(rec, rec.item.archived # None,
                <<rec.item.project, rec.item.observed>>)

StandingTemplate(rec) ==
  IF rec = None THEN Absent
  ELSE Standing(rec, rec.item.status = "inactive", None)

StandingOccurrence(rec) ==
  IF rec = None THEN Absent ELSE Standing(rec, FALSE, rec.item.scheduled)

StandingItems == [i \in Items |-> StandingItem(followUps[i])]

StandingObservations ==
  [o \in Sightings |-> StandingObservation(observations[o])]

StandingTemplates == [t \in Templates |-> StandingTemplate(templates[t])]

StandingOccurrences ==
  [entry \in Templates \X Days |->
     StandingOccurrence(occurrences[entry[1]][entry[2]])]

KeptItems        == INSTANCE RevisedRecords WITH records <- StandingItems
KeptObservations == INSTANCE RevisedRecords WITH records <- StandingObservations
KeptTemplates    == INSTANCE RevisedRecords WITH records <- StandingTemplates
KeptOccurrences  == INSTANCE RevisedRecords WITH records <- StandingOccurrences

\* Whatever is posted from however many pages, drawn again around midnight or
\* rolled back, no record is lost or written over and no line of its history
\* is: what is archived or deactivated stays as it is, what is tied stays tied,
\* and the tie stays true (persistence/repositories.py:262 to 500,
\* persistence/field_tracking_repositories.py:217 to 300).
RecordsAreRevised ==
  /\ KeptItems!Spec /\ KeptObservations!Spec
  /\ KeptTemplates!Spec /\ KeptOccurrences!Spec
  /\ []TiesAgree
=============================================================================
