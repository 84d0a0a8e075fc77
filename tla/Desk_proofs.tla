----------------------------- MODULE Desk_proofs -----------------------------
(***************************************************************************)
(* Proofs about the desktop application at work, for any number of         *)
(* records, windows and days.  The inductive invariant IInv says of every  *)
(* record that its history is numbered, in order and not ahead of the      *)
(* clock, of an item that its history tells it, of a post under way what   *)
(* it may still meet, of an occurrence that it was not called missed       *)
(* before its day was over, and of a day that was shown that its entry is  *)
(* kept.  A lemma for each command says what it makes of one record; the   *)
(* steps follow.                                                           *)
(*                                                                         *)
(* The last part is the refinement of RevisedRecords.  It adds what each   *)
(* command may do to a record that stands, one line of history more and no *)
(* tie undone, and two invariants: a record there is has begun its         *)
(* history, and an item agrees with its observation on the project.        *)
(***************************************************************************)
EXTENDS Desk, SequenceTheorems, FiniteSetTheorems, TLAPS

\* The record is numbered, and its last event is not after the instant.
Recorded(rec, t) ==
  Numbered(rec) /\ \A i \in 1..Len(rec.history) : rec.history[i].at <= t

\* The next event, not before what is recorded, keeps a record in order.
LEMMA RecordedNext ==
  ASSUME NEW S, \A s \in S : s.at \in Nat, NEW rec, rec.history \in Seq(S),
         rec.item.revision \in Nat, NEW at \in Nat, Recorded(rec, at),
         NEW e \in S, e.revision = rec.item.revision + 1, e.at = at,
         NEW made, made.history = Append(rec.history, e),
         made.item.revision = rec.item.revision + 1
  PROVE  made.history \in Seq(S) /\ Recorded(made, at)
<1> DEFINE h == rec.history
           g == made.history
<1>1. /\ g \in Seq(S) /\ Len(g) = Len(h) + 1 /\ Len(h) \in Nat
      /\ g[Len(h) + 1] = e /\ \A i \in 1..Len(h) : g[i] = h[i]
  BY AppendProperties
<1>2. /\ Len(h) = rec.item.revision
      /\ \A i \in 1..Len(h) : h[i].revision = i /\ h[i].at <= at
      /\ \A i, j \in 1..Len(h) : i <= j => h[i].at <= h[j].at
  BY DEF Recorded, Numbered
<1> HIDE DEF g, h
<1>3. \A i \in 1..Len(g) : i \in 1..Len(h) \/ i = Len(h) + 1
  BY <1>1
<1>4. ASSUME NEW i \in 1..Len(g) PROVE g[i].revision = i /\ g[i].at <= at
  <2>1. CASE i \in 1..Len(h)
    BY <1>1, <1>2, <2>1
  <2>2. CASE i = Len(h) + 1
    <3>1. g[i] = e
      BY <1>1, <2>2
    <3> QED
      BY <1>2, <2>2, <3>1
  <2> QED
    BY <1>3, <2>1, <2>2
<1>5. ASSUME NEW i \in 1..Len(g), NEW j \in 1..Len(g), i <= j
      PROVE  g[i].at <= g[j].at
  <2>1. CASE j \in 1..Len(h)
    <3>1. i \in 1..Len(h)
      BY <1>1, <1>3, <1>5, <2>1
    <3>2. h[i].at <= h[j].at
      BY <1>2, <1>5, <2>1, <3>1
    <3> QED
      BY <1>1, <2>1, <3>1, <3>2
  <2>2. CASE j = Len(h) + 1
    BY <1>1, <1>4, <2>2
  <2> QED
    BY <1>3, <2>1, <2>2
<1> QED
  BY <1>1, <1>2, <1>4, <1>5 DEF Recorded, Numbered, g

\* The sequence number an event is given is a number.
LEMMA NextIsNumber ==
  ASSUME NEW types, NEW stories, NEW h \in Seq(Events(types, stories))
  PROVE  NextSequence(h) \in Nat
<1>1. CASE h = << >>
  BY <1>1 DEF NextSequence
<1>2. CASE h # << >>
  <2>1. Len(h) \in 1..Len(h)
    BY <1>2
  <2>2. h[Len(h)] \in Events(types, stories)
    BY <2>1, ElementOfSeq
  <2> QED
    BY <1>2, <2>2 DEF NextSequence, Events
<1> QED
  BY <1>1, <1>2

\* The day of an instant is a number, and the instant falls in it.
LEMMA DayOfInstant ==
  ASSUME NEW x \in Nat
  PROVE  /\ LocalDay(x) \in Nat
         /\ PerDay * LocalDay(x) <= x /\ x < PerDay * LocalDay(x) + PerDay
<1>1. /\ x \div PerDay \in Int
      /\ PerDay * (x \div PerDay) <= x /\ x < PerDay * (x \div PerDay) + PerDay
  BY PerDayAssumption
<1> QED
  BY <1>1, PerDayAssumption DEF LocalDay

\* A later instant is not of an earlier day.
LEMMA DaysAdvance ==
  ASSUME NEW x \in Nat, NEW y \in Nat, x <= y
  PROVE  LocalDay(x) <= LocalDay(y)
<1> DEFINE q == LocalDay(x)
           r == LocalDay(y)
<1>1. q \in Nat /\ r \in Nat /\ PerDay * q <= x /\ y < PerDay * r + PerDay
  BY DayOfInstant
<1> HIDE DEF q, r
<1>2. ASSUME q >= r + 1 PROVE FALSE
  <2>1. PerDay * q >= PerDay * (r + 1)
    BY <1>1, <1>2, PerDayAssumption
  <2>2. PerDay * (r + 1) = PerDay * r + PerDay
    BY <1>1, PerDayAssumption
  <2> QED
    BY <1>1, <2>1, <2>2, PerDayAssumption
<1> QED
  BY <1>1, <1>2 DEF q, r

-----------------------------------------------------------------------------
(* Follow-up items. *)

ItemEvents == Events(EventTypes, ItemStories)

\* A record of an item whose last event is not after the instant.
Sound(rec, t) ==
  rec \in ItemRecords /\ WellFormed(rec.item) /\ Recorded(rec, t) /\ TellsItem(rec)

\* A record stays sound as the clock goes on.
LEMMA SoundLater ==
  ASSUME NEW rec, NEW t \in Nat, NEW at \in Nat, t <= at, Sound(rec, t)
  PROVE  Sound(rec, at)
<1>1. rec.history \in Seq(ItemEvents)
  BY DEF Sound, ItemRecords, ItemEvents
<1>2. \A s \in ItemEvents : s.at \in Nat
  BY DEF ItemEvents, Events
<1>3. \A i \in 1..Len(rec.history) : rec.history[i] \in ItemEvents
  BY <1>1, ElementOfSeq
<1> QED
  BY <1>2, <1>3 DEF Sound, Recorded

\* What an event must tell when a field goes from old to new.
Retells(e, field, old, new) ==
  IF Tells(e, field) THEN ToldBy(e, field) = new ELSE new = old

\* What an event must tell when an item changes.
Retold(e, row, changed) ==
  /\ Retells(e, "status", row.status, changed.status)
  /\ Retells(e, "attention", row.attention, changed.attention)
  /\ Retells(e, "outcome", row.outcome, changed.outcome)
  /\ Retells(e, "project", row.project, changed.project)
  /\ Retells(e, "observation", row.observation, changed.observation)

\* The last event that tells of a field decides it.
LEMMA LeavesNext ==
  ASSUME NEW h \in Seq(ItemEvents), NEW e \in ItemEvents, NEW field, NEW old, NEW new,
         Leaves(h, field, old), Retells(e, field, old, new)
  PROVE  Leaves(Append(h, e), field, new)
<1> DEFINE g == Append(h, e)
<1>1. /\ DOMAIN g = 1..(Len(h) + 1) /\ DOMAIN h = 1..Len(h) /\ Len(h) \in Nat
      /\ g[Len(h) + 1] = e /\ \A i \in 1..Len(h) : g[i] = h[i]
  BY AppendProperties
<1> HIDE DEF g
<1>2. CASE Tells(e, field)
  <2>1. ToldBy(e, field) = new
    BY <1>2 DEF Retells
  <2> QED
    BY <1>1, <1>2, <2>1 DEF Leaves, g
<1>3. CASE ~Tells(e, field)
  <2>1. new = old
    BY <1>3 DEF Retells
  <2>2. CASE \E n \in DOMAIN h :
               /\ Tells(h[n], field) /\ ToldBy(h[n], field) = old
               /\ \A m \in DOMAIN h : m > n => ~Tells(h[m], field)
    <3>1. PICK n \in DOMAIN h :
                 /\ Tells(h[n], field) /\ ToldBy(h[n], field) = old
                 /\ \A m \in DOMAIN h : m > n => ~Tells(h[m], field)
      BY <2>2
    <3>2. \A m \in DOMAIN g : m > n => ~Tells(g[m], field)
      BY <1>1, <1>3, <3>1
    <3>3. n \in DOMAIN g /\ g[n] = h[n]
      BY <1>1
    <3> QED
      BY <2>1, <3>1, <3>2, <3>3 DEF Leaves, g
  <2>3. CASE old = None /\ \A n \in DOMAIN h : ~Tells(h[n], field)
    <3>1. \A m \in DOMAIN g : ~Tells(g[m], field)
      BY <1>1, <1>3, <2>3
    <3> QED
      BY <2>1, <2>3, <3>1 DEF Leaves, g
  <2> QED
    BY <2>2, <2>3 DEF Leaves
<1> QED
  BY <1>2, <1>3

\* The fields that make two rows different.
Differ(row, other) ==
  \/ row.status # other.status \/ row.project # other.project
  \/ row.observation # other.observation \/ row.attention # other.attention
  \/ row.deadline # other.deadline \/ row.important # other.important
  \/ row.person # other.person

\* A change of an item is written with one event that tells it, or is refused.
LEMMA Revises ==
  ASSUME NEW rec, NEW t \in Nat, NEW at \in Nat, t <= at, Sound(rec, t),
         NEW changed \in ItemRows, Differ(changed, rec.item),
         NEW type \in EventTypes, NEW told \in ItemStories,
         \A e \in ItemEvents :
           e.type = type /\ e.told = told => Retold(e, rec.item, changed)
  PROVE  Sound(Revise(rec, changed, type, at, told).rec, at)
<1> DEFINE next == [changed EXCEPT !.revision = rec.item.revision + 1, !.updated = at]
           e    == Event(rec.history, type, next.revision, at, told)
           made == [item |-> next, history |-> Append(rec.history, e)]
<1>1. rec.item \in ItemRows /\ rec.history \in Seq(ItemEvents) /\ rec \in ItemRecords
  BY DEF Sound, ItemRecords, ItemEvents
<1>2. /\ next \in ItemRows /\ next.revision = rec.item.revision + 1
      /\ next.status = changed.status /\ next.project = changed.project
      /\ next.observation = changed.observation /\ next.attention = changed.attention
      /\ next.deadline = changed.deadline /\ next.important = changed.important
      /\ next.person = changed.person /\ next.outcome = changed.outcome
  <2>1. rec.item.revision + 1 \in Nat
    BY <1>1 DEF ItemRows
  <2> QED
    BY <2>1 DEF ItemRows
<1>3. Differ(next, rec.item)
  BY <1>2 DEF Differ
<1> HIDE DEF next
<1>4. RepositoryUpdate(rec.item, next) = next
  <2>1. [next EXCEPT !.revision = rec.item.revision] # rec.item
    <3> DEFINE same == [next EXCEPT !.revision = rec.item.revision]
    <3>1. /\ same.status = next.status /\ same.project = next.project
          /\ same.observation = next.observation /\ same.attention = next.attention
          /\ same.deadline = next.deadline /\ same.important = next.important
          /\ same.person = next.person
      BY <1>2 DEF ItemRows
    <3> HIDE DEF same
    <3>2. same # rec.item
      BY <1>3, <3>1 DEF Differ
    <3> QED
      BY <3>2 DEF same
  <2> QED
    BY <2>1 DEF RepositoryUpdate
<1>5. Len(rec.history) = rec.item.revision /\ rec.item.revision \in Nat
  BY <1>1 DEF Sound, Recorded, Numbered, ItemRows
<1>6. NextSequence(rec.history) \in Nat
  BY <1>1, NextIsNumber DEF ItemEvents
<1>7. /\ e \in ItemEvents /\ e.type = type /\ e.told = told
      /\ e.revision = Len(rec.history) + 1 /\ e.at = at
  BY <1>2, <1>5, <1>6 DEF Event, ItemEvents, Events
<1> HIDE DEF e
<1>8. ASSUME WellFormed(next) PROVE Sound(made, at)
  <2> DEFINE g == Append(rec.history, e)
  <2>1. made.item = next /\ made.history = g
    OBVIOUS
  <2>2. g \in Seq(ItemEvents) /\ Recorded(made, at)
    <3>1. \A s \in ItemEvents : s.at \in Nat
      BY DEF ItemEvents, Events
    <3>2. Recorded(rec, at)
      BY SoundLater DEF Sound
    <3> HIDE DEF made
    <3> QED
      BY <1>1, <1>2, <1>5, <1>7, <2>1, <3>1, <3>2, RecordedNext
  <2>3. TellsItem(made)
    <3>1. /\ Leaves(g, "status", next.status)
          /\ Leaves(g, "attention", next.attention)
          /\ Leaves(g, "outcome", next.outcome)
          /\ Leaves(g, "project", next.project)
          /\ Leaves(g, "observation", next.observation)
      BY <1>1, <1>2, <1>7, LeavesNext DEF Sound, TellsItem, Retold
    <3> QED
      BY <3>1 DEF TellsItem
  <2>4. made \in ItemRecords
    BY <1>2, <2>2 DEF ItemRecords, ItemEvents
  <2> HIDE DEF g, made
  <2> QED
    BY <1>8, <2>1, <2>2, <2>3, <2>4 DEF Sound
<1>9. Sound(rec, at)
  BY SoundLater
<1>10. \/ Revise(rec, changed, type, at, told).rec = rec
       \/ WellFormed(next) /\ Revise(rec, changed, type, at, told).rec = made
  BY <1>4 DEF Revise, Refused, next, e
<1> QED
  BY <1>8, <1>9, <1>10

\* New details tell of nothing the history replays.
LEMMA SoundDetails ==
  ASSUME NEW rec, NEW t \in Nat, NEW at \in Nat, t <= at, Sound(rec, t), NEW expected,
         NEW important \in BOOLEAN,
         NEW deadline \in Maybe(Nat),
         NEW person \in Maybe(Persons)
  PROVE  Sound(UpdateDetails(rec, expected, important, deadline, person, at).rec, at)
<1> DEFINE changed == [rec.item EXCEPT !.important = important,
                                       !.deadline = deadline,
                                       !.person = person]
<1>1. Sound(rec, at)
  BY SoundLater
<1>2. rec.item \in ItemRows
  BY DEF Sound, ItemRecords
<1>3. /\ changed \in ItemRows
      /\ changed.status = rec.item.status
      /\ changed.project = rec.item.project
      /\ changed.observation = rec.item.observation
      /\ changed.attention = rec.item.attention
      /\ changed.deadline = deadline
      /\ changed.important = important
      /\ changed.person = person
      /\ changed.outcome = rec.item.outcome
  <2>1. /\ important \in BOOLEAN
        /\ deadline \in Maybe(Nat)
        /\ person \in Maybe(Persons)
    BY DEF Maybe, Outcomes, Open, Planned, Terminal
  <2> QED
    BY <1>2, <2>1 DEF ItemRows
<1> HIDE DEF changed
<1>4. ASSUME <<rec.item.important, rec.item.deadline, rec.item.person>>
               # <<important, deadline, person>>
      PROVE  Sound(Revise(rec, changed, "details_updated", at,
                          << >>).rec, at)
  <2>1. Differ(changed, rec.item)
    BY <1>3, <1>4 DEF Differ, Open, Planned, Terminal
  <2>2. /\ "details_updated" \in EventTypes
        /\ << >> \in ItemStories
    BY DEF EventTypes, ItemStories, Maybe, Outcomes, Open, Planned
  <2>3. \A e \in ItemEvents :
          /\ e.type = "details_updated"
          /\ e.told = << >>
          => Retold(e, rec.item, changed)
    BY <1>3, <1>4 DEF Retold, Retells, Tells, ToldBy, Means
  <2> QED
    BY <1>3, <2>1, <2>2, <2>3, Revises
<1> QED
  BY <1>1, <1>4 DEF UpdateDetails, Refused, Unchanged, changed

\* A plan tells the status and the attention.
LEMMA SoundSchedule ==
  ASSUME NEW rec, NEW t \in Nat, NEW at \in Nat, t <= at, Sound(rec, t), NEW expected,
         NEW attention \in Nat,
         NEW target \in Planned
  PROVE  Sound(Schedule(rec, expected, attention, target, at).rec, at)
<1> DEFINE changed == [rec.item EXCEPT !.status = target,
                                       !.attention = attention]
<1>1. Sound(rec, at)
  BY SoundLater
<1>2. rec.item \in ItemRows
  BY DEF Sound, ItemRecords
<1>3. /\ changed \in ItemRows
      /\ changed.status = target
      /\ changed.project = rec.item.project
      /\ changed.observation = rec.item.observation
      /\ changed.attention = attention
      /\ changed.deadline = rec.item.deadline
      /\ changed.important = rec.item.important
      /\ changed.person = rec.item.person
      /\ changed.outcome = rec.item.outcome
  <2>1. /\ target \in Open \cup Terminal
        /\ attention \in Maybe(Nat)
    BY DEF Maybe, Outcomes, Open, Planned, Terminal
  <2> QED
    BY <1>2, <2>1 DEF ItemRows
<1> HIDE DEF changed
<1>4. ASSUME ~(rec.item.status = target /\ rec.item.attention = attention),
             NEW type \in {"scheduled", "rescheduled"}
      PROVE  Sound(Revise(rec, changed, type, at,
                          [status |-> target, attention |-> attention]).rec, at)
  <2>1. Differ(changed, rec.item)
    BY <1>3, <1>4 DEF Differ, Open, Planned, Terminal
  <2>2. /\ type \in EventTypes
        /\ [status |-> target, attention |-> attention] \in ItemStories
    BY DEF EventTypes, ItemStories, Maybe, Outcomes, Open, Planned
  <2>3. \A e \in ItemEvents :
          /\ e.type = type
          /\ e.told = [status |-> target, attention |-> attention]
          => Retold(e, rec.item, changed)
    BY <1>3, <1>4 DEF Retold, Retells, Tells, ToldBy, Means
  <2> QED
    BY <1>3, <2>1, <2>2, <2>3, Revises
<1> QED
  BY <1>1, <1>4 DEF Schedule, Refused, Unchanged, changed

\* Back in the inbox, an item has no plan: the type of the event says so.
LEMMA SoundToInbox ==
  ASSUME NEW rec, NEW t \in Nat, NEW at \in Nat, t <= at, Sound(rec, t), NEW expected
  PROVE  Sound(MoveToInbox(rec, expected, at).rec, at)
<1> DEFINE changed == [rec.item EXCEPT !.status = "inbox",
                                       !.attention = None]
<1>1. Sound(rec, at)
  BY SoundLater
<1>2. rec.item \in ItemRows
  BY DEF Sound, ItemRecords
<1>3. /\ changed \in ItemRows
      /\ changed.status = "inbox"
      /\ changed.project = rec.item.project
      /\ changed.observation = rec.item.observation
      /\ changed.attention = None
      /\ changed.deadline = rec.item.deadline
      /\ changed.important = rec.item.important
      /\ changed.person = rec.item.person
      /\ changed.outcome = rec.item.outcome
  <2>1. /\ "inbox" \in Open \cup Terminal
        /\ None \in Maybe(Nat)
    BY DEF Maybe, Outcomes, Open, Planned, Terminal
  <2> QED
    BY <1>2, <2>1 DEF ItemRows
<1> HIDE DEF changed
<1>4. ASSUME rec.item.status \in Planned
      PROVE  Sound(Revise(rec, changed, "moved_to_inbox", at,
                          << >>).rec, at)
  <2>1. Differ(changed, rec.item)
    BY <1>3, <1>4 DEF Differ, Open, Planned, Terminal
  <2>2. /\ "moved_to_inbox" \in EventTypes
        /\ << >> \in ItemStories
    BY DEF EventTypes, ItemStories, Maybe, Outcomes, Open, Planned
  <2>3. \A e \in ItemEvents :
          /\ e.type = "moved_to_inbox"
          /\ e.told = << >>
          => Retold(e, rec.item, changed)
    BY <1>3, <1>4 DEF Retold, Retells, Tells, ToldBy, Means
  <2> QED
    BY <1>3, <2>1, <2>2, <2>3, Revises
<1> QED
  BY <1>1, <1>4 DEF MoveToInbox, Refused, Unchanged, changed

\* A change of project tells the project.
LEMMA SoundProject ==
  ASSUME NEW rec, NEW t \in Nat, NEW at \in Nat, t <= at, Sound(rec, t), NEW expected,
         NEW project \in Maybe(Projects)
  PROVE  Sound(SetProject(rec, expected, project, at).rec, at)
<1> DEFINE changed == [rec.item EXCEPT !.project = project]
<1>1. Sound(rec, at)
  BY SoundLater
<1>2. rec.item \in ItemRows
  BY DEF Sound, ItemRecords
<1>3. /\ changed \in ItemRows
      /\ changed.status = rec.item.status
      /\ changed.project = project
      /\ changed.observation = rec.item.observation
      /\ changed.attention = rec.item.attention
      /\ changed.deadline = rec.item.deadline
      /\ changed.important = rec.item.important
      /\ changed.person = rec.item.person
      /\ changed.outcome = rec.item.outcome
  <2>1. /\ project \in Maybe(Projects)
    BY DEF Maybe, Outcomes, Open, Planned, Terminal
  <2> QED
    BY <1>2, <2>1 DEF ItemRows
<1> HIDE DEF changed
<1>4. ASSUME rec.item.project # project
      PROVE  Sound(Revise(rec, changed, "project_changed", at,
                          [project |-> project]).rec, at)
  <2>1. Differ(changed, rec.item)
    BY <1>3, <1>4 DEF Differ, Open, Planned, Terminal
  <2>2. /\ "project_changed" \in EventTypes
        /\ [project |-> project] \in ItemStories
    BY DEF EventTypes, ItemStories, Maybe, Outcomes, Open, Planned
  <2>3. \A e \in ItemEvents :
          /\ e.type = "project_changed"
          /\ e.told = [project |-> project]
          => Retold(e, rec.item, changed)
    BY <1>3, <1>4 DEF Retold, Retells, Tells, ToldBy, Means
  <2> QED
    BY <1>3, <2>1, <2>2, <2>3, Revises
<1> QED
  BY <1>1, <1>4 DEF SetProject, Refused, Unchanged, changed

\* A wait tells its attention, its type the status.
LEMMA SoundWaiting ==
  ASSUME NEW rec, NEW t \in Nat, NEW at \in Nat, t <= at, Sound(rec, t), NEW expected,
         NEW attention \in Nat,
         NEW person \in Maybe(Persons)
  PROVE  Sound(MarkWaiting(rec, expected, attention, person, at).rec, at)
<1> DEFINE changed == [rec.item EXCEPT !.status = "waiting",
                                       !.attention = attention,
                                       !.person = person]
<1>1. Sound(rec, at)
  BY SoundLater
<1>2. rec.item \in ItemRows
  BY DEF Sound, ItemRecords
<1>3. /\ changed \in ItemRows
      /\ changed.status = "waiting"
      /\ changed.project = rec.item.project
      /\ changed.observation = rec.item.observation
      /\ changed.attention = attention
      /\ changed.deadline = rec.item.deadline
      /\ changed.important = rec.item.important
      /\ changed.person = person
      /\ changed.outcome = rec.item.outcome
  <2>1. /\ "waiting" \in Open \cup Terminal
        /\ attention \in Maybe(Nat)
        /\ person \in Maybe(Persons)
    BY DEF Maybe, Outcomes, Open, Planned, Terminal
  <2> QED
    BY <1>2, <2>1 DEF ItemRows
<1> HIDE DEF changed
<1>4. ASSUME rec.item.status \in {"inbox", "active"}
      PROVE  Sound(Revise(rec, changed, "waiting_started", at,
                          [attention |-> attention]).rec, at)
  <2>1. Differ(changed, rec.item)
    BY <1>3, <1>4 DEF Differ, Open, Planned, Terminal
  <2>2. /\ "waiting_started" \in EventTypes
        /\ [attention |-> attention] \in ItemStories
    BY DEF EventTypes, ItemStories, Maybe, Outcomes, Open, Planned
  <2>3. \A e \in ItemEvents :
          /\ e.type = "waiting_started"
          /\ e.told = [attention |-> attention]
          => Retold(e, rec.item, changed)
    BY <1>3, <1>4 DEF Retold, Retells, Tells, ToldBy, Means
  <2> QED
    BY <1>3, <2>1, <2>2, <2>3, Revises
<1> QED
  BY <1>1, <1>4 DEF MarkWaiting, Refused, Unchanged, changed

\* A completion tells the outcome, its type the status and that no plan stands.
LEMMA SoundComplete ==
  ASSUME NEW rec, NEW t \in Nat, NEW at \in Nat, t <= at, Sound(rec, t), NEW expected,
         NEW outcome \in {"completed", "not_required"}
  PROVE  Sound(Complete(rec, expected, outcome, at).rec, at)
<1> DEFINE changed == [rec.item EXCEPT !.status = "completed",
                                       !.outcome = outcome,
                                       !.completed = at,
                                       !.cancelled = None,
                                       !.attention = None]
<1>1. Sound(rec, at)
  BY SoundLater
<1>2. rec.item \in ItemRows
  BY DEF Sound, ItemRecords
<1>3. /\ changed \in ItemRows
      /\ changed.status = "completed"
      /\ changed.project = rec.item.project
      /\ changed.observation = rec.item.observation
      /\ changed.attention = None
      /\ changed.deadline = rec.item.deadline
      /\ changed.important = rec.item.important
      /\ changed.person = rec.item.person
      /\ changed.outcome = outcome
  <2>1. /\ "completed" \in Open \cup Terminal
        /\ outcome \in Maybe(Outcomes)
        /\ at \in Maybe(Nat)
        /\ None \in Maybe(Nat)
    BY DEF Maybe, Outcomes, Open, Planned, Terminal
  <2> QED
    BY <1>2, <2>1 DEF ItemRows
<1> HIDE DEF changed
<1>4. ASSUME rec.item.status \in Open
      PROVE  Sound(Revise(rec, changed, "completed", at,
                          [outcome |-> outcome]).rec, at)
  <2>1. Differ(changed, rec.item)
    BY <1>3, <1>4 DEF Differ, Open, Planned, Terminal
  <2>2. /\ "completed" \in EventTypes
        /\ [outcome |-> outcome] \in ItemStories
    BY DEF EventTypes, ItemStories, Maybe, Outcomes, Open, Planned
  <2>3. \A e \in ItemEvents :
          /\ e.type = "completed"
          /\ e.told = [outcome |-> outcome]
          => Retold(e, rec.item, changed)
    BY <1>3, <1>4 DEF Retold, Retells, Tells, ToldBy, Means
  <2> QED
    BY <1>3, <2>1, <2>2, <2>3, Revises
<1> QED
  BY <1>1, <1>4 DEF Complete, Refused, Unchanged, changed

\* So does a cancellation.
LEMMA SoundCancel ==
  ASSUME NEW rec, NEW t \in Nat, NEW at \in Nat, t <= at, Sound(rec, t), NEW expected
  PROVE  Sound(Cancel(rec, expected, at).rec, at)
<1> DEFINE changed == [rec.item EXCEPT !.status = "cancelled",
                                       !.outcome = "cancelled",
                                       !.completed = None,
                                       !.cancelled = at,
                                       !.attention = None]
<1>1. Sound(rec, at)
  BY SoundLater
<1>2. rec.item \in ItemRows
  BY DEF Sound, ItemRecords
<1>3. /\ changed \in ItemRows
      /\ changed.status = "cancelled"
      /\ changed.project = rec.item.project
      /\ changed.observation = rec.item.observation
      /\ changed.attention = None
      /\ changed.deadline = rec.item.deadline
      /\ changed.important = rec.item.important
      /\ changed.person = rec.item.person
      /\ changed.outcome = "cancelled"
  <2>1. /\ "cancelled" \in Open \cup Terminal
        /\ "cancelled" \in Maybe(Outcomes)
        /\ None \in Maybe(Nat)
        /\ at \in Maybe(Nat)
    BY DEF Maybe, Outcomes, Open, Planned, Terminal
  <2> QED
    BY <1>2, <2>1 DEF ItemRows
<1> HIDE DEF changed
<1>4. ASSUME rec.item.status \in Open
      PROVE  Sound(Revise(rec, changed, "cancelled", at,
                          [outcome |-> "cancelled"]).rec, at)
  <2>1. Differ(changed, rec.item)
    BY <1>3, <1>4 DEF Differ, Open, Planned, Terminal
  <2>2. /\ "cancelled" \in EventTypes
        /\ [outcome |-> "cancelled"] \in ItemStories
    BY DEF EventTypes, ItemStories, Maybe, Outcomes, Open, Planned
  <2>3. \A e \in ItemEvents :
          /\ e.type = "cancelled"
          /\ e.told = [outcome |-> "cancelled"]
          => Retold(e, rec.item, changed)
    BY <1>3, <1>4 DEF Retold, Retells, Tells, ToldBy, Means
  <2> QED
    BY <1>3, <2>1, <2>2, <2>3, Revises
<1> QED
  BY <1>1, <1>4 DEF Cancel, Refused, Unchanged, changed

\* A reopened item has no outcome, and its event tells the new plan.
LEMMA SoundReopen ==
  ASSUME NEW rec, NEW t \in Nat, NEW at \in Nat, t <= at, Sound(rec, t), NEW expected,
         NEW attention \in Maybe(Nat)
  PROVE  Sound(Reopen(rec, expected, attention, at).rec, at)
<1> DEFINE target == IF attention # None THEN "active" ELSE "inbox"
           changed == [rec.item EXCEPT !.status = target,
                                       !.attention = attention,
                                       !.outcome = None,
                                       !.completed = None,
                                       !.cancelled = None]
<1>1. Sound(rec, at)
  BY SoundLater
<1>2. rec.item \in ItemRows
  BY DEF Sound, ItemRecords
<1>3. target \in Open
  BY DEF Open, Planned
<1> HIDE DEF target
<1>4. /\ changed \in ItemRows
      /\ changed.status = target
      /\ changed.project = rec.item.project
      /\ changed.observation = rec.item.observation
      /\ changed.attention = attention
      /\ changed.deadline = rec.item.deadline
      /\ changed.important = rec.item.important
      /\ changed.person = rec.item.person
      /\ changed.outcome = None
  <2>1. /\ target \in Open \cup Terminal
        /\ attention \in Maybe(Nat)
        /\ None \in Maybe(Outcomes)
        /\ None \in Maybe(Nat)
    BY <1>3 DEF Maybe, Outcomes, Open, Planned, Terminal
  <2> QED
    BY <1>2, <2>1 DEF ItemRows
<1> HIDE DEF changed
<1>5. ASSUME rec.item.status \in Terminal
      PROVE  Sound(Revise(rec, changed, "reopened", at,
                          [status |-> target, attention |-> attention]).rec, at)
  <2>1. Differ(changed, rec.item)
    BY <1>4, <1>5, <1>3 DEF Differ, Open, Planned, Terminal
  <2>2. /\ "reopened" \in EventTypes
        /\ [status |-> target, attention |-> attention] \in ItemStories
    BY <1>3 DEF EventTypes, ItemStories, Maybe, Outcomes, Open, Planned
  <2>3. \A e \in ItemEvents :
          /\ e.type = "reopened"
          /\ e.told = [status |-> target, attention |-> attention]
          => Retold(e, rec.item, changed)
    BY <1>4, <1>5 DEF Retold, Retells, Tells, ToldBy, Means
  <2> QED
    BY <1>4, <2>1, <2>2, <2>3, Revises
<1> QED
  BY <1>1, <1>5 DEF Reopen, Refused, Unchanged, changed, target

\* A link tells the observation and its project.
LEMMA SoundLink ==
  ASSUME NEW rec, NEW t \in Nat, NEW at \in Nat, t <= at, Sound(rec, t), NEW expected,
         NEW observation \in Sightings,
         NEW project \in Projects
  PROVE  Sound(LinkObservation(rec, expected, observation, project, at).rec, at)
<1> DEFINE changed == [rec.item EXCEPT !.observation = observation,
                                       !.project = project]
<1>1. Sound(rec, at)
  BY SoundLater
<1>2. rec.item \in ItemRows
  BY DEF Sound, ItemRecords
<1>3. /\ changed \in ItemRows
      /\ changed.status = rec.item.status
      /\ changed.project = project
      /\ changed.observation = observation
      /\ changed.attention = rec.item.attention
      /\ changed.deadline = rec.item.deadline
      /\ changed.important = rec.item.important
      /\ changed.person = rec.item.person
      /\ changed.outcome = rec.item.outcome
  <2>1. /\ observation \in Maybe(Sightings)
        /\ project \in Maybe(Projects)
    BY DEF Maybe, Outcomes, Open, Planned, Terminal
  <2> QED
    BY <1>2, <2>1 DEF ItemRows
<1> HIDE DEF changed
<1>4. ASSUME rec.item.observation # observation
      PROVE  Sound(Revise(rec, changed, "observation_linked", at,
                          [observation |-> observation, project |-> project]).rec, at)
  <2>1. Differ(changed, rec.item)
    BY <1>3, <1>4 DEF Differ, Open, Planned, Terminal
  <2>2. /\ "observation_linked" \in EventTypes
        /\ [observation |-> observation, project |-> project] \in ItemStories
    BY DEF EventTypes, ItemStories, Maybe, Outcomes, Open, Planned
  <2>3. \A e \in ItemEvents :
          /\ e.type = "observation_linked"
          /\ e.told = [observation |-> observation, project |-> project]
          => Retold(e, rec.item, changed)
    BY <1>3, <1>4 DEF Retold, Retells, Tells, ToldBy, Means
  <2> QED
    BY <1>3, <2>1, <2>2, <2>3, Revises
<1> QED
  BY <1>1, <1>4 DEF LinkObservation, Refused, Unchanged, changed

\* A conversion tells both and the outcome.
LEMMA SoundConvert ==
  ASSUME NEW rec, NEW t \in Nat, NEW at \in Nat, t <= at, Sound(rec, t), NEW expected,
         NEW observation \in Sightings,
         NEW project \in Projects
  PROVE  Sound(ConvertToObservation(rec, expected, observation, project, at).rec, at)
<1> DEFINE changed == [rec.item EXCEPT !.status = "completed",
                                       !.outcome = "converted",
                                       !.completed = at,
                                       !.cancelled = None,
                                       !.attention = None,
                                       !.observation = observation,
                                       !.project = project]
<1>1. Sound(rec, at)
  BY SoundLater
<1>2. rec.item \in ItemRows
  BY DEF Sound, ItemRecords
<1>3. /\ changed \in ItemRows
      /\ changed.status = "completed"
      /\ changed.project = project
      /\ changed.observation = observation
      /\ changed.attention = None
      /\ changed.deadline = rec.item.deadline
      /\ changed.important = rec.item.important
      /\ changed.person = rec.item.person
      /\ changed.outcome = "converted"
  <2>1. /\ "completed" \in Open \cup Terminal
        /\ "converted" \in Maybe(Outcomes)
        /\ at \in Maybe(Nat)
        /\ None \in Maybe(Nat)
        /\ observation \in Maybe(Sightings)
        /\ project \in Maybe(Projects)
    BY DEF Maybe, Outcomes, Open, Planned, Terminal
  <2> QED
    BY <1>2, <2>1 DEF ItemRows
<1> HIDE DEF changed
<1>4. ASSUME rec.item.status \in Open
      PROVE  Sound(Revise(rec, changed, "converted", at,
                          [observation |-> observation, project |-> project,
                           outcome |-> "converted"]).rec, at)
  <2>1. Differ(changed, rec.item)
    BY <1>3, <1>4 DEF Differ, Open, Planned, Terminal
  <2>2. /\ "converted" \in EventTypes
        /\ [observation |-> observation, project |-> project,
                           outcome |-> "converted"] \in ItemStories
    BY DEF EventTypes, ItemStories, Maybe, Outcomes, Open, Planned
  <2>3. \A e \in ItemEvents :
          /\ e.type = "converted"
          /\ e.told = [observation |-> observation, project |-> project,
                           outcome |-> "converted"]
          => Retold(e, rec.item, changed)
    BY <1>3, <1>4 DEF Retold, Retells, Tells, ToldBy, Means
  <2> QED
    BY <1>3, <2>1, <2>2, <2>3, Revises
<1> QED
  BY <1>1, <1>4 DEF ConvertToObservation, Refused, Unchanged, changed

\* The first event of an item is all it has to tell.
LEMMA SoundCreated ==
  ASSUME NEW at \in Nat
  PROVE  Sound(CreateFollowUp(at), at)
<1> DEFINE e   == [sequence |-> 1, type |-> "created", revision |-> 1, at |-> at,
                   told |-> [status |-> "inbox"]]
           rec == [item |-> NewItem(at), history |-> << e >>]
<1>1. CreateFollowUp(at) = rec
  BY DEF CreateFollowUp, Event, NextSequence
<1>2. e \in ItemEvents /\ e.revision = 1 /\ e.at = at
  BY DEF ItemEvents, Events, EventTypes, ItemStories, Open
<1>3. /\ Tells(e, "status") /\ ToldBy(e, "status") = "inbox"
      /\ ~Tells(e, "attention") /\ ~Tells(e, "outcome") /\ ~Tells(e, "project")
      /\ ~Tells(e, "observation")
  BY DEF Tells, ToldBy, Means
<1> HIDE DEF e
<1>4. NewItem(at) \in ItemRows /\ WellFormed(NewItem(at))
  BY DEF NewItem, ItemRows, WellFormed, Maybe, Open, Planned, Terminal
<1>5. /\ rec.item = NewItem(at) /\ rec.history = << e >>
      /\ rec \in ItemRecords
  BY <1>2, <1>4 DEF ItemRecords, ItemEvents
<1> HIDE DEF rec
<1>6. /\ rec.item.status = "inbox" /\ rec.item.attention = None
      /\ rec.item.outcome = None /\ rec.item.project = None
      /\ rec.item.observation = None /\ rec.item.revision = 1
  BY <1>5 DEF NewItem
<1>7. TellsItem(rec)
  BY <1>3, <1>5, <1>6 DEF TellsItem, Leaves
<1>8. Recorded(rec, at)
  BY <1>2, <1>5, <1>6 DEF Recorded, Numbered
<1> QED
  BY <1>1, <1>4, <1>5, <1>7, <1>8 DEF Sound

-----------------------------------------------------------------------------
(* Observations.                                                           *)

\* A record of an observation whose last event is not after the instant.
Dated(rec, t) == rec \in ObservationRecords /\ Recorded(rec, t)

\* A record of an observation stays dated as the clock goes on.
LEMMA DatedLater ==
  ASSUME NEW rec, NEW t \in Nat, NEW at \in Nat, t <= at, Dated(rec, t)
  PROVE  Dated(rec, at)
<1>1. rec.history \in Seq(ObservationEvents)
  BY DEF Dated, ObservationRecords
<1>2. \A s \in ObservationEvents : s.at \in Nat
  BY DEF ObservationEvents
<1>3. \A i \in 1..Len(rec.history) : rec.history[i] \in ObservationEvents
  BY <1>1, ElementOfSeq
<1> QED
  BY <1>2, <1>3 DEF Dated, Recorded

\* A new observation has one event, at the instant its post read.
LEMMA DatedCreated ==
  ASSUME NEW project \in Projects, NEW at \in Nat
  PROVE  Dated(CreateObservation(project, at, at), at)
<1> DEFINE e   == [type |-> "observation_created", revision |-> 1, at |-> at]
           row == [project |-> project, observed |-> at, status |-> "open", text |-> 0,
                   reported |-> None, closed |-> None, archived |-> None,
                   revision |-> 1, updated |-> at]
           rec == [item |-> row, history |-> << e >>]
<1>1. CreateObservation(project, at, at) = rec
  BY DEF CreateObservation, ObservationEvent
<1>2. e \in ObservationEvents /\ e.revision = 1 /\ e.at = at
  BY DEF ObservationEvents
<1>3. row \in ObservationRows /\ row.revision = 1
  BY DEF ObservationRows, Maybe
<1> HIDE DEF e, row
<1>4. rec.item = row /\ rec.history = << e >> /\ rec \in ObservationRecords
  BY <1>2, <1>3 DEF ObservationRecords
<1> HIDE DEF rec
<1>5. Recorded(rec, at)
  BY <1>2, <1>3, <1>4 DEF Recorded, Numbered
<1> QED
  BY <1>1, <1>4, <1>5 DEF Dated

\* What an update of the repository may make of a row.
Moves(item, expected, written) ==
  \/ written.row = item
  \/ /\ item.revision = expected /\ written.row \in ObservationRows
     /\ written.row.revision = item.revision + 1

\* A row that is written takes the next revision, or the CHECK refuses it.
LEMMA WrittenRowMoves ==
  ASSUME NEW item \in ObservationRows, NEW changed \in ObservationRows, NEW at \in Nat
  PROVE  Moves(item, item.revision, WrittenRow(item, changed, at))
<1> DEFINE row == [changed EXCEPT !.revision = item.revision + 1, !.updated = at]
<1>1. item.revision + 1 \in Nat
  BY DEF ObservationRows
<1>2. row \in ObservationRows /\ row.revision = item.revision + 1
  BY <1>1 DEF ObservationRows
<1> QED
  BY <1>2 DEF WrittenRow, RefusedRow, Moves

\* So does the row of each update, and only for the page that is not behind.
LEMMA RowsMove ==
  ASSUME NEW item \in ObservationRows, NEW expected, NEW at \in Nat
  PROVE  /\ \A status \in {"open", "tracking", "closed"} :
              Moves(item, expected, RowStatus(item, expected, status, at))
         /\ \A text \in Texts :
              /\ Moves(item, expected, RowDetails(item, expected, text, at))
              /\ Moves(item, expected, RowReporting(item, expected, text, at))
         /\ Moves(item, expected, RowArchive(item, expected, at))
<1>1. ASSUME NEW status \in {"open", "tracking", "closed"}
      PROVE  Moves(item, expected, RowStatus(item, expected, status, at))
  <2> DEFINE changed == [item EXCEPT !.status = status,
                           !.closed = IF status = "closed" THEN at ELSE None]
  <2>1. changed \in ObservationRows
    BY DEF ObservationRows, Maybe
  <2>2. Moves(item, item.revision, WrittenRow(item, changed, at))
    BY <2>1, WrittenRowMoves
  <2> QED
    BY <2>2 DEF RowStatus, MutationTarget, Moves, RefusedRow, SameRow
<1>2. ASSUME NEW text \in Texts
      PROVE  Moves(item, expected, RowDetails(item, expected, text, at))
  <2> DEFINE changed == [item EXCEPT !.text = text]
  <2>1. changed \in ObservationRows
    BY DEF ObservationRows
  <2>2. Moves(item, item.revision, WrittenRow(item, changed, at))
    BY <2>1, WrittenRowMoves
  <2> QED
    BY <2>2 DEF RowDetails, MutationTarget, Moves, RefusedRow, SameRow
<1>3. ASSUME NEW text \in Texts
      PROVE  Moves(item, expected, RowReporting(item, expected, text, at))
  <2> DEFINE changed == [item EXCEPT !.reported = text]
  <2>1. changed \in ObservationRows
    BY DEF ObservationRows, Maybe
  <2>2. Moves(item, item.revision, WrittenRow(item, changed, at))
    BY <2>1, WrittenRowMoves
  <2> QED
    BY <2>2 DEF RowReporting, MutationTarget, Moves, RefusedRow
<1>4. Moves(item, expected, RowArchive(item, expected, at))
  <2> DEFINE changed == [item EXCEPT !.archived = at]
  <2>1. changed \in ObservationRows
    BY DEF ObservationRows, Maybe
  <2>2. Moves(item, item.revision, WrittenRow(item, changed, at))
    BY <2>1, WrittenRowMoves
  <2> QED
    BY <2>2 DEF RowArchive, MutationTarget, Moves, RefusedRow
<1> QED
  BY <1>1, <1>2, <1>3, <1>4

\* What a record becomes by one post: it stays, or takes one revision.
Advances(rec, next, at) ==
  next = rec \/ (Dated(next, at) /\ next.item.revision = rec.item.revision + 1)

\* A row that moved brings one event, at the instant its post read.
LEMMA RecordMoves ==
  ASSUME NEW rec \in ObservationRecords, NEW at \in Nat, NEW expected, NEW written,
         Moves(rec.item, expected, written),
         expected = rec.item.revision => Recorded(rec, at),
         NEW type \in {"observation_status_changed", "observation_details_updated",
                       "observation_reporting_updated", "observation_archived"}
  PROVE  Advances(rec, Record(rec, written, type, at).rec, at)
<1> DEFINE e    == ObservationEvent(type, written.row.revision, at)
           made == [item |-> written.row, history |-> Append(rec.history, e)]
<1>1. rec.item \in ObservationRows /\ rec.history \in Seq(ObservationEvents)
      /\ rec.item.revision \in Nat
  BY DEF ObservationRecords, ObservationRows
<1>2. CASE written.row = rec.item
  BY <1>2 DEF Record, Advances
<1>3. CASE /\ rec.item.revision = expected /\ written.row \in ObservationRows
           /\ written.row.revision = rec.item.revision + 1
  <2>1. Recorded(rec, at) /\ Len(rec.history) = rec.item.revision
    BY <1>3 DEF Recorded, Numbered
  <2>2. e \in ObservationEvents /\ e.revision = rec.item.revision + 1 /\ e.at = at
    BY <1>1, <1>3 DEF ObservationEvent, ObservationEvents
  <2>3. made.item = written.row /\ made.history = Append(rec.history, e)
    OBVIOUS
  <2>4. Record(rec, written, type, at).rec = made
    BY <1>1, <1>3 DEF Record
  <2> HIDE DEF e
  <2>5. made.history \in Seq(ObservationEvents) /\ Recorded(made, at)
    <3>1. \A s \in ObservationEvents : s.at \in Nat
      BY DEF ObservationEvents
    <3> HIDE DEF made
    <3> QED
      BY <1>1, <1>3, <2>1, <2>2, <2>3, <3>1, RecordedNext
  <2>6. made \in ObservationRecords
    BY <1>3, <2>3, <2>5 DEF ObservationRecords
  <2> HIDE DEF made
  <2> QED
    BY <1>3, <2>3, <2>4, <2>5, <2>6 DEF Dated, Advances
<1> QED
  BY <1>2, <1>3 DEF Moves

-----------------------------------------------------------------------------
(* Routines.                                                               *)

TemplateEvents == Events({"created", "updated", "deactivated"}, RoutineStories)

\* A record of a template whose last event is not after the instant.
Kept(rec, t) == rec \in TemplateRecords /\ Recorded(rec, t)

\* A record of a template is kept as the clock goes on.
LEMMA TemplateLater ==
  ASSUME NEW rec, NEW t \in Nat, NEW at \in Nat, t <= at, Kept(rec, t)
  PROVE  Kept(rec, at)
<1>1. rec.history \in Seq(TemplateEvents)
  BY DEF Kept, TemplateRecords, TemplateEvents
<1>2. \A s \in TemplateEvents : s.at \in Nat
  BY DEF TemplateEvents, Events
<1>3. \A i \in 1..Len(rec.history) : rec.history[i] \in TemplateEvents
  BY <1>1, ElementOfSeq
<1> QED
  BY <1>2, <1>3 DEF Kept, Recorded

\* A new template, and each change of one, is written with one event.
LEMMA TemplateCreated ==
  ASSUME NEW at \in Nat, NEW plan \in Plans
  PROVE  Kept(CreateTemplate(plan, at), at)
<1> DEFINE e   == [sequence |-> 1, type |-> "created", revision |-> 1, at |-> at,
                   told |-> [status |-> "active"]]
           row == [plan |-> plan, status |-> "active", deactivated |-> None,
                   revision |-> 1, updated |-> at]
           rec == [item |-> row, history |-> << e >>]
<1>1. CreateTemplate(plan, at) = rec
  BY DEF CreateTemplate, Event, NextSequence
<1>2. e \in TemplateEvents /\ e.revision = 1 /\ e.at = at
  BY DEF TemplateEvents, Events, RoutineStories
<1>3. row \in TemplateRows /\ row.revision = 1
  BY DEF TemplateRows, Maybe
<1> HIDE DEF e, row
<1>4. rec.item = row /\ rec.history = << e >> /\ rec \in TemplateRecords
  BY <1>2, <1>3 DEF TemplateRecords, TemplateEvents
<1> HIDE DEF rec
<1>5. Recorded(rec, at)
  BY <1>2, <1>3, <1>4 DEF Recorded, Numbered
<1> QED
  BY <1>1, <1>4, <1>5 DEF Kept

\* A change of a template brings the next revision and its event.
LEMMA TemplateRevises ==
  ASSUME NEW rec, NEW t \in Nat, NEW at \in Nat, t <= at, Kept(rec, t),
         NEW changed \in TemplateRows,
         changed.plan # rec.item.plan \/ changed.status # rec.item.status,
         NEW type \in {"updated", "deactivated"}, NEW told \in RoutineStories
  PROVE  Kept(ReviseTemplate(rec, changed, type, at, told).rec, at)
<1> DEFINE next == [changed EXCEPT !.revision = rec.item.revision + 1, !.updated = at]
           e    == Event(rec.history, type, next.revision, at, told)
           made == [item |-> next, history |-> Append(rec.history, e)]
<1>1. Kept(rec, at)
  BY TemplateLater
<1>2. /\ rec.item \in TemplateRows /\ rec.history \in Seq(TemplateEvents)
      /\ rec.item.revision \in Nat /\ Recorded(rec, at)
  BY <1>1 DEF Kept, TemplateRecords, TemplateEvents, TemplateRows
<1>3. /\ next \in TemplateRows /\ next.revision = rec.item.revision + 1
      /\ next.plan = changed.plan /\ next.status = changed.status
  <2>1. rec.item.revision + 1 \in Nat
    BY <1>2
  <2> QED
    BY <2>1 DEF TemplateRows
<1> HIDE DEF next
<1>4. RepositoryUpdate(rec.item, next) = next
  <2> DEFINE same == [next EXCEPT !.revision = rec.item.revision]
  <2>1. same.plan = next.plan /\ same.status = next.status
    BY <1>3 DEF TemplateRows
  <2> HIDE DEF same
  <2>2. same # rec.item
    BY <1>3, <2>1
  <2> QED
    BY <2>2 DEF RepositoryUpdate, same
<1>5. \/ ReviseTemplate(rec, changed, type, at, told).rec = rec
      \/ ReviseTemplate(rec, changed, type, at, told).rec = made
  BY <1>4 DEF ReviseTemplate, Refused, next
<1>6. NextSequence(rec.history) \in Nat
  BY <1>2, NextIsNumber DEF TemplateEvents
<1>7. e \in TemplateEvents /\ e.revision = rec.item.revision + 1 /\ e.at = at
  BY <1>2, <1>3, <1>6 DEF Event, TemplateEvents, Events
<1> HIDE DEF e
<1>8. made.item = next /\ made.history = Append(rec.history, e)
  OBVIOUS
<1>9. \A s \in TemplateEvents : s.at \in Nat
  BY DEF TemplateEvents, Events
<1>10. Kept(made, at)
  <2>1. made.history \in Seq(TemplateEvents) /\ Recorded(made, at)
    <3> HIDE DEF made
    <3> QED
      BY <1>2, <1>3, <1>7, <1>8, <1>9, RecordedNext
  <2>2. made \in TemplateRecords
    BY <1>3, <1>8, <2>1 DEF TemplateRecords, TemplateEvents
  <2> QED
    BY <2>1, <2>2 DEF Kept
<1> QED
  BY <1>1, <1>5, <1>10

\* So do both commands of a template, or they change nothing.
LEMMA TemplateCommands ==
  ASSUME NEW rec, NEW t \in Nat, NEW at \in Nat, t <= at, Kept(rec, t), NEW expected
  PROVE  /\ \A plan \in Plans : Kept(UpdateTemplate(rec, expected, plan, at).rec, at)
         /\ Kept(DeactivateTemplate(rec, expected, at).rec, at)
<1>1. Kept(rec, at)
  BY TemplateLater
<1>2. rec.item \in TemplateRows
  BY DEF Kept, TemplateRecords
<1>3. ASSUME NEW plan \in Plans, plan # rec.item.plan
      PROVE  Kept(ReviseTemplate(rec, [rec.item EXCEPT !.plan = plan],
                                       "updated", at, << >>).rec, at)
  <2> DEFINE changed == [rec.item EXCEPT !.plan = plan]
  <2>1. changed \in TemplateRows /\ changed.plan = plan
    BY <1>2 DEF TemplateRows
  <2>2. << >> \in RoutineStories
    BY DEF RoutineStories
  <2> HIDE DEF changed
  <2>3. Kept(ReviseTemplate(rec, changed, "updated", at, << >>).rec, at)
    BY <1>3, <2>1, <2>2, TemplateRevises
  <2> QED
    BY <2>3 DEF changed
<1>4. ASSUME rec.item.status # "inactive"
      PROVE  Kept(ReviseTemplate(rec, [rec.item EXCEPT !.status = "inactive",
                                                             !.deactivated = at],
                                       "deactivated", at,
                                       [status |-> "inactive"]).rec, at)
  <2> DEFINE changed == [rec.item EXCEPT !.status = "inactive", !.deactivated = at]
  <2>1. changed \in TemplateRows /\ changed.status = "inactive"
    BY <1>2 DEF TemplateRows, Maybe
  <2>2. [status |-> "inactive"] \in RoutineStories
    BY DEF RoutineStories
  <2> HIDE DEF changed
  <2>3. Kept(ReviseTemplate(rec, changed, "deactivated", at,
                                  [status |-> "inactive"]).rec, at)
    BY <1>4, <2>1, <2>2, TemplateRevises
  <2> QED
    BY <2>3 DEF changed
<1>5. ASSUME NEW plan \in Plans
      PROVE  Kept(UpdateTemplate(rec, expected, plan, at).rec, at)
  BY <1>1, <1>3 DEF UpdateTemplate, Refused, Unchanged
<1>6. Kept(DeactivateTemplate(rec, expected, at).rec, at)
  BY <1>1, <1>4 DEF DeactivateTemplate, Refused, Unchanged
<1> QED
  BY <1>5, <1>6

OccurrenceTypes  == {"created", "snoozed", "reopened"} \cup OccurrenceOutcomes
OccurrenceEvents == Events(OccurrenceTypes, RoutineStories)

\* A record of the occurrence of day d whose last event is not after the
\* instant, closed as missed only when the day was over.
Entry(rec, d, t) ==
  /\ rec \in OccurrenceRecords /\ Recorded(rec, t)
  /\ \A i \in 1..Len(rec.history) : rec.history[i].type = "missed" => d < LocalDay(t)

Unmissed(rec) == \A i \in 1..Len(rec.history) : rec.history[i].type # "missed"

\* A record of an occurrence is an entry at every later instant.
LEMMA EntryLater ==
  ASSUME NEW rec, NEW d \in Nat, NEW t \in Nat, NEW at \in Nat, t <= at, Entry(rec, d, t)
  PROVE  Entry(rec, d, at)
<1>1. rec.history \in Seq(OccurrenceEvents)
  BY DEF Entry, OccurrenceRecords, OccurrenceEvents, OccurrenceTypes
<1>2. \A s \in OccurrenceEvents : s.at \in Nat
  BY DEF OccurrenceEvents, Events
<1>3. \A i \in 1..Len(rec.history) : rec.history[i] \in OccurrenceEvents
  BY <1>1, ElementOfSeq
<1>4. Recorded(rec, at)
  BY <1>2, <1>3 DEF Entry, Recorded
<1>5. LocalDay(t) \in Nat /\ LocalDay(at) \in Nat /\ LocalDay(t) <= LocalDay(at)
  BY DayOfInstant, DaysAdvance
<1>6. d < LocalDay(t) => d < LocalDay(at)
  BY <1>5
<1> QED
  BY <1>4, <1>6 DEF Entry

\* Each change of an occurrence is written with one event; only that of a day
\* that is over may call it missed.
LEMMA OccurrenceRevises ==
  ASSUME NEW rec, NEW d \in Nat, NEW t \in Nat, NEW at \in Nat, t <= at, Entry(rec, d, t),
         NEW changed \in OccurrenceRows,
         changed.attention # rec.item.attention \/ changed.status # rec.item.status,
         NEW type \in OccurrenceTypes, NEW told \in RoutineStories,
         type = "missed" => d < LocalDay(at)
  PROVE  LET next == ReviseOccurrence(rec, changed, type, at, told).rec IN
         Entry(next, d, at) /\ (Unmissed(rec) /\ type # "missed" => Unmissed(next))
<1> DEFINE next == [changed EXCEPT !.revision = rec.item.revision + 1]
           e    == Event(rec.history, type, next.revision, at, told)
           made == [item |-> next, history |-> Append(rec.history, e)]
<1>1. Entry(rec, d, at)
  BY EntryLater
<1>2. /\ rec.item \in OccurrenceRows /\ rec.history \in Seq(OccurrenceEvents)
      /\ rec.item.revision \in Nat /\ Recorded(rec, at)
  BY <1>1 DEF Entry, OccurrenceRecords, OccurrenceEvents, OccurrenceTypes, OccurrenceRows
<1>3. /\ next \in OccurrenceRows /\ next.revision = rec.item.revision + 1
      /\ next.attention = changed.attention /\ next.status = changed.status
  <2>1. rec.item.revision + 1 \in Nat
    BY <1>2
  <2> QED
    BY <2>1 DEF OccurrenceRows
<1> HIDE DEF next
<1>4. RepositoryUpdate(rec.item, next) = next
  <2> DEFINE same == [next EXCEPT !.revision = rec.item.revision]
  <2>1. same.attention = next.attention /\ same.status = next.status
    BY <1>3 DEF OccurrenceRows
  <2> HIDE DEF same
  <2>2. same # rec.item
    BY <1>3, <2>1
  <2> QED
    BY <2>2 DEF RepositoryUpdate, same
<1>5. \/ ReviseOccurrence(rec, changed, type, at, told).rec = rec
      \/ ReviseOccurrence(rec, changed, type, at, told).rec = made
  BY <1>4 DEF ReviseOccurrence, Refused, next
<1>6. NextSequence(rec.history) \in Nat
  BY <1>2, NextIsNumber DEF OccurrenceEvents
<1>7. /\ e \in OccurrenceEvents /\ e.revision = rec.item.revision + 1 /\ e.at = at
      /\ e.type = type
  BY <1>2, <1>3, <1>6 DEF Event, OccurrenceEvents, Events
<1> HIDE DEF e
<1>8. made.item = next /\ made.history = Append(rec.history, e)
  OBVIOUS
<1>9. \A s \in OccurrenceEvents : s.at \in Nat
  BY DEF OccurrenceEvents, Events
<1>10. made.history \in Seq(OccurrenceEvents) /\ Recorded(made, at)
  <2> HIDE DEF made
  <2> QED
    BY <1>2, <1>3, <1>7, <1>8, <1>9, RecordedNext
<1>11. made \in OccurrenceRecords
  BY <1>3, <1>8, <1>10 DEF OccurrenceRecords, OccurrenceEvents, OccurrenceTypes
<1>12. /\ Len(made.history) = Len(rec.history) + 1 /\ Len(rec.history) \in Nat
       /\ made.history[Len(rec.history) + 1] = e
       /\ \A i \in 1..Len(rec.history) : made.history[i] = rec.history[i]
  BY <1>2, <1>7, <1>8, AppendProperties
<1> HIDE DEF made
<1>13. \A i \in 1..Len(made.history) :
         \/ made.history[i] = e
         \/ i \in 1..Len(rec.history) /\ made.history[i] = rec.history[i]
  BY <1>12
<1>14. \A i \in 1..Len(made.history) :
         made.history[i].type = "missed" => d < LocalDay(at)
  BY <1>1, <1>7, <1>13 DEF Entry
<1>15. Unmissed(rec) /\ type # "missed" => Unmissed(made)
  BY <1>7, <1>13 DEF Unmissed
<1>16. Entry(made, d, at)
  BY <1>10, <1>11, <1>14 DEF Entry
<1> QED
  BY <1>1, <1>5, <1>15, <1>16

\* What the commands make of an occurrence, none of them a missed one.
LEMMA OccurrenceCommands ==
  ASSUME NEW rec, NEW d \in Nat, NEW t \in Nat, NEW at \in Nat, t <= at, Entry(rec, d, t),
         NEW expected, NEW attention \in Nat,
         NEW outcome \in {"completed", "no_work", "not_required"}
  PROVE  \A next \in {SnoozeOccurrence(rec, expected, attention, at).rec,
                      CloseOccurrence(rec, expected, outcome, at).rec,
                      ReopenOccurrence(rec, expected, attention, at).rec} :
           Entry(next, d, at) /\ (Unmissed(rec) => Unmissed(next))
<1> DEFINE Stays(next) == Entry(next, d, at) /\ (Unmissed(rec) => Unmissed(next))
<1>1. Stays(rec)
  BY EntryLater
<1>2. rec.item \in OccurrenceRows
  BY DEF Entry, OccurrenceRecords
<1>3. ASSUME rec.item.attention # attention
      PROVE  Stays(ReviseOccurrence(rec, [rec.item EXCEPT !.attention = attention],
                     "snoozed", at, [attention |-> attention]).rec)
  <2> DEFINE changed == [rec.item EXCEPT !.attention = attention]
  <2>1. changed \in OccurrenceRows /\ changed.attention = attention
    BY <1>2 DEF OccurrenceRows
  <2>2. [attention |-> attention] \in RoutineStories /\ "snoozed" \in OccurrenceTypes
    BY DEF RoutineStories, OccurrenceTypes
  <2> HIDE DEF changed
  <2>3. Stays(ReviseOccurrence(rec, changed, "snoozed", at, [attention |-> attention]).rec)
    BY <1>3, <2>1, <2>2, OccurrenceRevises
  <2> QED
    BY <2>3 DEF changed
<1>4. ASSUME rec.item.status = "open"
      PROVE  Stays(ReviseOccurrence(rec, [rec.item EXCEPT !.status = "closed",
                                            !.outcome = outcome, !.completed = at],
                     outcome, at, [outcome |-> outcome]).rec)
  <2> DEFINE changed == [rec.item EXCEPT !.status = "closed", !.outcome = outcome,
                                         !.completed = at]
  <2>1. changed \in OccurrenceRows /\ changed.status = "closed"
    BY <1>2 DEF OccurrenceRows, OccurrenceOutcomes, Maybe
  <2>2. [outcome |-> outcome] \in RoutineStories /\ outcome \in OccurrenceTypes
    BY DEF RoutineStories, OccurrenceTypes, OccurrenceOutcomes
  <2> HIDE DEF changed
  <2>3. Stays(ReviseOccurrence(rec, changed, outcome, at, [outcome |-> outcome]).rec)
    BY <1>4, <2>1, <2>2, OccurrenceRevises
  <2> QED
    BY <2>3 DEF changed
<1>5. ASSUME rec.item.status = "closed"
      PROVE  Stays(ReviseOccurrence(rec, [rec.item EXCEPT !.status = "open",
                                            !.outcome = None, !.completed = None,
                                            !.attention = attention],
                     "reopened", at, [status |-> "open", attention |-> attention]).rec)
  <2> DEFINE changed == [rec.item EXCEPT !.status = "open", !.outcome = None,
                                         !.completed = None, !.attention = attention]
  <2>1. changed \in OccurrenceRows /\ changed.status = "open"
    BY <1>2 DEF OccurrenceRows, Maybe
  <2>2. /\ [status |-> "open", attention |-> attention] \in RoutineStories
        /\ "reopened" \in OccurrenceTypes
    BY DEF RoutineStories, OccurrenceTypes
  <2> HIDE DEF changed
  <2>3. Stays(ReviseOccurrence(rec, changed, "reopened", at,
                               [status |-> "open", attention |-> attention]).rec)
    BY <1>5, <2>1, <2>2, OccurrenceRevises
  <2> QED
    BY <2>3 DEF changed
<1> HIDE DEF Stays
<1>6. Stays(SnoozeOccurrence(rec, expected, attention, at).rec)
  BY <1>1, <1>3 DEF SnoozeOccurrence, Refused, Unchanged
<1>7. Stays(CloseOccurrence(rec, expected, outcome, at).rec)
  BY <1>1, <1>4 DEF CloseOccurrence, Refused
<1>8. Stays(ReopenOccurrence(rec, expected, attention, at).rec)
  BY <1>1, <1>5 DEF ReopenOccurrence, Refused
<1> QED
  BY <1>6, <1>7, <1>8 DEF Stays

\* An occurrence made now is open, or of a day that is over.
LEMMA NewEntry ==
  ASSUME NEW at \in Nat, NEW template \in TemplateRows, NEW day \in Nat
  PROVE  LET made == NewOccurrence(template, day, LocalDay(at), at) IN
         Entry(made, day, at) /\ (day = LocalDay(at) => Unmissed(made))
<1> DEFINE planned == ScheduledAt(template, day)
           e    == [sequence |-> 1, type |-> "created", revision |-> 1, at |-> at,
                    told |-> [status |-> "open"]]
           row  == [status |-> "open", attention |-> planned, scheduled |-> planned,
                    outcome |-> None, completed |-> None, revision |-> 1]
           made == [item |-> row, history |-> << e >>]
           over == [row EXCEPT !.status = "closed", !.outcome = "missed",
                               !.completed = at]
<1>1. planned \in Nat
  <2>1. template.plan.time \in Nat
    BY DeskAssumption, PerDayAssumption DEF TemplateRows
  <2>2. day * PerDay \in Nat
    BY PerDayAssumption
  <2> QED
    BY <2>1, <2>2 DEF ScheduledAt
<1> HIDE DEF planned
<1>2. e \in OccurrenceEvents /\ e.revision = 1 /\ e.at = at /\ e.type = "created"
  BY DEF OccurrenceEvents, Events, RoutineStories, OccurrenceTypes
<1>3. row \in OccurrenceRows /\ row.revision = 1 /\ row.status = "open"
  BY <1>1 DEF OccurrenceRows, Maybe
<1>4. over \in OccurrenceRows /\ over.status = "closed"
  BY <1>1 DEF OccurrenceRows, Maybe, OccurrenceOutcomes
<1>5. NewOccurrence(template, day, LocalDay(at), at)
        = IF day < LocalDay(at)
          THEN ReviseOccurrence(made, over, "missed", at, [outcome |-> "missed"]).rec
          ELSE made
  BY DEF NewOccurrence, planned, Event, NextSequence
<1> HIDE DEF e, row, over
<1>6. made.item = row /\ made.history = << e >> /\ made \in OccurrenceRecords
  BY <1>2, <1>3 DEF OccurrenceRecords, OccurrenceEvents, OccurrenceTypes
<1> HIDE DEF made
<1>7. Recorded(made, at)
  BY <1>2, <1>3, <1>6 DEF Recorded, Numbered
<1>8. Unmissed(made)
  BY <1>2, <1>6 DEF Unmissed
<1>9. Entry(made, day, at)
  BY <1>6, <1>7, <1>8 DEF Entry, Unmissed
<1>10. ASSUME day < LocalDay(at)
       PROVE  Entry(ReviseOccurrence(made, over, "missed", at,
                                     [outcome |-> "missed"]).rec, day, at)
  <2>1. [outcome |-> "missed"] \in RoutineStories /\ "missed" \in OccurrenceTypes
    BY DEF RoutineStories, OccurrenceTypes, OccurrenceOutcomes
  <2>2. over.status # made.item.status
    BY <1>3, <1>4, <1>6
  <2> QED
    BY <1>4, <1>9, <1>10, <2>1, <2>2, OccurrenceRevises
<1>11. LocalDay(at) \in Nat
  BY DayOfInstant
<1> QED
  BY <1>5, <1>8, <1>9, <1>10, <1>11

-----------------------------------------------------------------------------
(* The inductive invariant.                                                *)

ItemsSound == \A i \in Items : followUps[i] # None => Sound(followUps[i], now)

ObservationsDated ==
  \A o \in Sightings : observations[o] # None => Dated(observations[o], now)

\* A post under way is of the past, and still waits for what it was made for: a
\* new observation that no one else makes, or one that has come no less far
\* than the page showed; where it has come no further, nothing was recorded
\* after the instant of the post.
PostsInTime ==
  \A w \in Windows : requests[w] # None =>
    LET post == requests[w]
        rec  == observations[post.target]
    IN  /\ post.at <= now
        /\ post.call = "new" =>
             /\ rec = None
             /\ \A v \in Windows :
                  v # w /\ requests[v] # None => requests[v].target # post.target
        /\ post.call \notin {"new", "today"} =>
             /\ rec # None /\ post.expected <= rec.item.revision
             /\ post.expected = rec.item.revision => Recorded(rec, post.at)

TemplatesKept == \A t \in Templates : templates[t] # None => Kept(templates[t], now)

EntriesInTime ==
  \A t \in Templates, d \in Days :
    occurrences[t][d] # None => Entry(occurrences[t][d], d, now)

SeenIsKept ==
  \A t \in Templates : \A d \in seen[t] :
    occurrences[t][d] # None /\ Unmissed(occurrences[t][d])

IInv ==
  /\ TypeOK /\ ItemsSound /\ ObservationsDated /\ PostsInTime /\ TemplatesKept
  /\ EntriesInTime /\ SeenIsKept

\* Where nothing is recorded yet the invariant holds.
LEMMA Initially == Init => IInv
<1> SUFFICES ASSUME Init PROVE IInv
  OBVIOUS
<1>1. LocalDay(MaxInstant) \in Nat
  BY DeskAssumption, DayOfInstant
<1>2. TypeOK
  BY <1>1, DeskAssumption DEF Init, TypeOK, Maybe
<1>3. /\ \A i \in Items : followUps[i] = None
      /\ \A o \in Sightings : observations[o] = None
      /\ \A w \in Windows : requests[w] = None
      /\ \A t \in Templates : templates[t] = None /\ seen[t] = {}
      /\ \A t \in Templates, d \in Days : occurrences[t][d] = None
  BY DEF Init
<1> QED
  BY <1>2, <1>3 DEF IInv, ItemsSound, ObservationsDated, PostsInTime, TemplatesKept,
                    EntriesInTime, SeenIsKept

\* What the clock leaves in order.
LEMMA TickKeeps == IInv /\ Tick => IInv'
<1> SUFFICES ASSUME IInv, Tick PROVE IInv'
  OBVIOUS
<1>1. now \in Nat /\ now' \in Nat /\ now <= now' /\ now' \in 0..MaxInstant
  BY DeskAssumption DEF IInv, TypeOK, Tick
<1> USE <1>1
<1>2. TypeOK'
  BY DEF IInv, TypeOK, Tick
<1>3. ItemsSound'
  BY SoundLater DEF IInv, ItemsSound, Tick
<1>4. ObservationsDated'
  <2> SUFFICES ASSUME NEW o \in Sightings, observations[o] # None
               PROVE  Dated(observations[o], now')
    BY DEF ObservationsDated, Tick
  <2>1. Dated(observations[o], now)
    BY DEF IInv, ObservationsDated
  <2> QED
    BY <2>1, DatedLater
<1>5. PostsInTime'
  <2>1. PostsInTime
    BY DEF IInv
  <2>2. \A w \in Windows : requests[w] # None => requests[w].at \in Nat
    BY DEF IInv, TypeOK, Maybe, Requests, Calling
  <2>3. /\ requests' = requests /\ observations' = observations
    BY DEF Tick
  <2> QED
    BY <2>1, <2>2, <2>3 DEF PostsInTime
<1>6. TemplatesKept'
  BY TemplateLater DEF IInv, TemplatesKept, Tick
<1>7. EntriesInTime'
  <2>1. \A d \in Days : d \in Nat
    BY DEF Days
  <2> QED
    BY <2>1, EntryLater DEF IInv, EntriesInTime, Tick
<1>8. SeenIsKept'
  BY DEF IInv, SeenIsKept, Tick
<1> QED
  BY <1>2, <1>3, <1>4, <1>5, <1>6, <1>7, <1>8 DEF IInv

\* A new project touches no record.
LEMMA ProjectKeeps == ASSUME IInv, NEW p \in Projects, CreateProject(p) PROVE IInv'
<1>1. TypeOK'
  BY DEF IInv, TypeOK, CreateProject
<1> QED
  BY <1>1 DEF IInv, ItemsSound, ObservationsDated, PostsInTime, TemplatesKept,
              EntriesInTime, SeenIsKept, CreateProject

-----------------------------------------------------------------------------
(* The steps of the items.                                                 *)

\* A transaction of an item that leaves its record sound keeps the invariant.
LEMMA PutKeeps ==
  ASSUME IInv, NEW i \in Items, NEW result, Put(i, result), Sound(result.rec, now)
  PROVE  IInv'
<1>1. /\ followUps' \in [Items -> Maybe(ItemRecords)] /\ followUps'[i] = result.rec
      /\ \A j \in Items : j # i => followUps'[j] = followUps[j]
  BY DEF IInv, TypeOK, Put, Sound, Maybe
<1>2. TypeOK'
  BY <1>1 DEF IInv, TypeOK, Put
<1>3. ItemsSound'
  BY <1>1 DEF IInv, ItemsSound, Put
<1> QED
  BY <1>2, <1>3 DEF IInv, ObservationsDated, PostsInTime, TemplatesKept,
                    EntriesInTime, SeenIsKept, Put

\* Each of the eleven commands of an item leaves its record sound.
LEMMA FollowUpSound ==
  ASSUME IInv, NEW i \in Items, FollowUpStep(i)
  PROVE  \E result : Put(i, result) /\ Sound(result.rec, now)
<1>1. now \in Nat /\ now <= now
  BY DEF IInv, TypeOK
<1>2. followUps[i] # None => Sound(followUps[i], now)
  BY DEF IInv, ItemsSound
<1>3. \A why : Refused(followUps[i], why).rec = followUps[i]
  BY DEF Refused
<1>4. \A at \in Moments : at \in Nat /\ at \in Maybe(Nat)
  BY DeskAssumption DEF Maybe
<1>5. \A at \in Moments \cup {None} : at \in Maybe(Nat)
  BY <1>4 DEF Maybe
<1>6. \A o \in Sightings : observations[o] # None => observations[o].item.project \in Projects
  BY DEF IInv, ObservationsDated, Dated, ObservationRecords, ObservationRows
<1>7. CASE CaptureFollowUp(i)
  <2>1. Sound(CreateFollowUp(now), now)
    BY <1>1, SoundCreated
  <2> QED
    BY <1>7, <2>1 DEF CaptureFollowUp
<1>8. CASE FollowUpDetails(i)
  <2>1. PICK e \in 1..MaxRevision, important \in BOOLEAN,
             deadline \in Moments \cup {None}, person \in Persons \cup {None} :
          /\ Form(i, e)
          /\ Put(i, UpdateDetails(followUps[i], e, important, deadline, person, now))
    BY <1>8 DEF FollowUpDetails
  <2>2. Sound(UpdateDetails(followUps[i], e, important, deadline, person, now).rec, now)
    BY <1>1, <1>2, <1>5, <2>1, SoundDetails DEF Form, Maybe
  <2> QED
    BY <2>1, <2>2
<1>9. CASE FollowUpProject(i)
  <2>1. PICK e \in 1..MaxRevision, project \in Projects \cup {None} :
          /\ Form(i, e)
          /\ Put(i, IF Known(project) THEN SetProject(followUps[i], e, project, now)
                                      ELSE Refused(followUps[i], "missing"))
    BY <1>9 DEF FollowUpProject
  <2>2. Sound(SetProject(followUps[i], e, project, now).rec, now)
    BY <1>1, <1>2, <2>1, SoundProject DEF Form, Maybe
  <2> QED
    BY <1>2, <1>3, <2>1, <2>2 DEF Form
<1>10. CASE FollowUpSchedule(i)
  <2>1. PICK e \in 1..MaxRevision, attention \in Moments, target \in Planned :
          /\ Form(i, e)
          /\ Put(i, Schedule(followUps[i], e, attention, target, now))
    BY <1>10 DEF FollowUpSchedule
  <2>2. Sound(Schedule(followUps[i], e, attention, target, now).rec, now)
    BY <1>1, <1>2, <1>4, <2>1, SoundSchedule DEF Form
  <2> QED
    BY <2>1, <2>2
<1>11. CASE FollowUpWaiting(i)
  <2>1. PICK e \in 1..MaxRevision, attention \in Moments, person \in Persons \cup {None} :
          /\ Form(i, e)
          /\ Put(i, MarkWaiting(followUps[i], e, attention, person, now))
    BY <1>11 DEF FollowUpWaiting
  <2>2. Sound(MarkWaiting(followUps[i], e, attention, person, now).rec, now)
    BY <1>1, <1>2, <1>4, <2>1, SoundWaiting DEF Form, Maybe
  <2> QED
    BY <2>1, <2>2
<1>12. CASE FollowUpToInbox(i)
  <2>1. PICK e \in 1..MaxRevision :
          Form(i, e) /\ Put(i, MoveToInbox(followUps[i], e, now))
    BY <1>12 DEF FollowUpToInbox
  <2>2. Sound(MoveToInbox(followUps[i], e, now).rec, now)
    BY <1>1, <1>2, <2>1, SoundToInbox DEF Form
  <2> QED
    BY <2>1, <2>2
<1>13. CASE FollowUpComplete(i)
  <2>1. PICK e \in 1..MaxRevision, outcome \in {"completed", "not_required"} :
          Form(i, e) /\ Put(i, Complete(followUps[i], e, outcome, now))
    BY <1>13 DEF FollowUpComplete
  <2>2. Sound(Complete(followUps[i], e, outcome, now).rec, now)
    BY <1>1, <1>2, <2>1, SoundComplete DEF Form
  <2> QED
    BY <2>1, <2>2
<1>14. CASE FollowUpCancel(i)
  <2>1. PICK e \in 1..MaxRevision : Form(i, e) /\ Put(i, Cancel(followUps[i], e, now))
    BY <1>14 DEF FollowUpCancel
  <2>2. Sound(Cancel(followUps[i], e, now).rec, now)
    BY <1>1, <1>2, <2>1, SoundCancel DEF Form
  <2> QED
    BY <2>1, <2>2
<1>15. CASE FollowUpReopen(i)
  <2>1. PICK e \in 1..MaxRevision, attention \in Moments \cup {None} :
          Form(i, e) /\ Put(i, Reopen(followUps[i], e, attention, now))
    BY <1>15 DEF FollowUpReopen
  <2>2. Sound(Reopen(followUps[i], e, attention, now).rec, now)
    BY <1>1, <1>2, <1>5, <2>1, SoundReopen DEF Form
  <2> QED
    BY <2>1, <2>2
<1>16. CASE LinkFollowUp(i)
  <2>1. PICK e \in 1..MaxRevision, o \in Sightings :
          /\ Form(i, e)
          /\ Put(i, IF observations[o] = None
                       THEN Refused(followUps[i], "missing")
                       ELSE LinkObservation(followUps[i], e, o,
                                            observations[o].item.project, now))
    BY <1>16 DEF LinkFollowUp
  <2>2. observations[o] # None =>
          Sound(LinkObservation(followUps[i], e, o, observations[o].item.project,
                                now).rec, now)
    BY <1>1, <1>2, <1>6, <2>1, SoundLink DEF Form
  <2> QED
    BY <1>2, <1>3, <2>1, <2>2 DEF Form
<1>17. CASE ConvertFollowUp(i)
  <2>1. PICK e \in 1..MaxRevision, o \in Sightings :
          /\ Form(i, e)
          /\ Put(i, IF observations[o] = None
                       THEN Refused(followUps[i], "missing")
                       ELSE ConvertToObservation(followUps[i], e, o,
                                                 observations[o].item.project, now))
    BY <1>17 DEF ConvertFollowUp
  <2>2. observations[o] # None =>
          Sound(ConvertToObservation(followUps[i], e, o, observations[o].item.project,
                                     now).rec, now)
    BY <1>1, <1>2, <1>6, <2>1, SoundConvert DEF Form
  <2> QED
    BY <1>2, <1>3, <2>1, <2>2 DEF Form
<1> QED
  BY <1>7, <1>8, <1>9, <1>10, <1>11, <1>12, <1>13, <1>14, <1>15, <1>16, <1>17
     DEF FollowUpStep

\* Each of the eleven commands of an item keeps the invariant.
LEMMA FollowUpKeeps ==
  ASSUME IInv, NEW i \in Items, FollowUpStep(i)
  PROVE  IInv'
  BY FollowUpSound, PutKeeps

-----------------------------------------------------------------------------
(* The steps of the observations.                                          *)

\* A request begins: of this instant, for a new observation no other request is
\* about, or for a page that showed a revision its observation has.
LEMMA AskKeeps ==
  ASSUME IInv, NEW w \in Windows, NEW post \in Requests, requests[w] = None,
         requests' = [requests EXCEPT ![w] = post], post.at = now,
         UNCHANGED <<now, projects, followUps, observations, templates, occurrences,
                     seen, scope>>,
         post.call = "new" =>
           /\ observations[post.target] = None
           /\ \A v \in Windows : requests[v] # None => requests[v].target # post.target,
         post.call \notin {"new", "today"} =>
           /\ observations[post.target] # None
           /\ post.expected <= observations[post.target].item.revision
           /\ Recorded(observations[post.target], now),
         \A o \in Sightings : observations[o] = None /\ post.target = o => post.call = "new"
  PROVE  IInv'
<1>1. /\ requests' \in [Windows -> Maybe(Requests)] /\ requests'[w] = post
      /\ \A v \in Windows : v # w => requests'[v] = requests[v]
  BY DEF IInv, TypeOK, Maybe
<1>2. TypeOK'
  BY <1>1 DEF IInv, TypeOK
<1>3. PostsInTime'
  <2> SUFFICES ASSUME NEW v \in Windows, requests'[v] # None
               PROVE  LET old == requests'[v]
                          rec == observations[old.target]
                      IN  /\ old.at <= now
                          /\ old.call = "new" =>
                               /\ rec = None
                               /\ \A u \in Windows : u # v /\ requests'[u] # None
                                                     => requests'[u].target # old.target
                          /\ old.call \notin {"new", "today"} =>
                               /\ rec # None /\ old.expected <= rec.item.revision
                               /\ old.expected = rec.item.revision
                                    => Recorded(rec, old.at)
    BY DEF PostsInTime
  <2>1. CASE v = w
    BY <1>1, <2>1 DEF IInv, TypeOK
  <2>2. CASE v # w
    <3> DEFINE old == requests[v]
    <3>1. /\ requests'[v] = old /\ old \in Requests
          /\ old.at <= now
          /\ old.call = "new" =>
               /\ observations[old.target] = None
               /\ \A u \in Windows :
                    u # v /\ requests[u] # None => requests[u].target # old.target
          /\ old.call \notin {"new", "today"} =>
               /\ observations[old.target] # None
               /\ old.expected <= observations[old.target].item.revision
               /\ old.expected = observations[old.target].item.revision
                    => Recorded(observations[old.target], old.at)
      BY <1>1, <2>2 DEF IInv, PostsInTime, TypeOK, Maybe
    <3>2. old.call = "new" => post.target # old.target
      <4> SUFFICES ASSUME old.call = "new", post.target = old.target PROVE FALSE
        OBVIOUS
      <4>1. old.target \in Sightings
        BY <3>1 DEF Requests, Calling
      <4>2. observations[post.target] = None
        BY <3>1
      <4>3. post.call = "new"
        BY <4>1, <4>2
      <4> QED
        BY <1>1, <2>2, <3>1, <4>3
    <3> HIDE DEF old
    <3> QED
      BY <1>1, <3>1, <3>2
  <2> QED
    BY <2>1, <2>2
<1> QED
  BY <1>2, <1>3 DEF IInv, ItemsSound, ObservationsDated, TemplatesKept, EntriesInTime,
                    SeenIsKept

\* A post of an observation shows a revision it has, and reads the clock.
LEMMA PostKeeps ==
  ASSUME IInv, NEW w \in Windows, NEW o \in Sightings,
         PostEdit(w, o) \/ PostStatus(w, o) \/ PostReporting(w, o) \/ CallArchive(w, o)
  PROVE  IInv'
<1>1. PICK call \in {"details", "status", "reporting", "archive"},
           values \in {Texts, {"open", "tracking", "closed"}, {None}} :
        /\ Post(w, o, call, values)
        /\ call \in {"details", "reporting"} => values = Texts
        /\ call = "status" => values = {"open", "tracking", "closed"}
        /\ call = "archive" => values = {None}
  BY DEF PostEdit, PostStatus, PostReporting, CallArchive
<1>2. PICK value \in values, e \in 1..observations[o].item.revision :
        requests' = [requests EXCEPT ![w] = [call |-> call, value |-> value,
                                             target |-> o, expected |-> e, at |-> now]]
  BY <1>1 DEF Post
<1> DEFINE post == [call |-> call, value |-> value, target |-> o, expected |-> e,
                    at |-> now]
<1>3. observations[o] # None /\ Dated(observations[o], now)
  BY <1>1 DEF Post, IInv, ObservationsDated
<1>4. observations[o].item.revision \in Nat
  BY <1>3 DEF Dated, ObservationRecords, ObservationRows
<1>5. e \in Nat /\ e <= observations[o].item.revision /\ now \in Nat
  BY <1>4 DEF IInv, TypeOK
<1>6. post \in Requests
  BY <1>1, <1>2, <1>5 DEF Requests, Calling
<1>7. /\ post.call = call /\ post.target = o /\ post.expected = e /\ post.at = now
      /\ requests' = [requests EXCEPT ![w] = post]
      /\ requests[w] = None
      /\ UNCHANGED <<now, projects, followUps, observations, templates, occurrences,
                     seen, scope>>
  BY <1>1, <1>2 DEF Post
<1> HIDE DEF post
<1>8. Recorded(observations[o], now)
  BY <1>3 DEF Dated
<1> QED
  BY <1>3, <1>5, <1>6, <1>7, <1>8, AskKeeps

\* A post of a new observation is the only one that is about it.
LEMMA PostNewKeeps ==
  ASSUME IInv, NEW w \in Windows, NEW o \in Sightings, PostNewObservation(w, o)
  PROVE  IInv'
<1>1. PICK p \in Projects :
        requests' = [requests EXCEPT ![w] = [call |-> "new", value |-> p, target |-> o,
                                             expected |-> 1, at |-> now]]
  BY DEF PostNewObservation
<1> DEFINE post == [call |-> "new", value |-> p, target |-> o, expected |-> 1, at |-> now]
<1>2. now \in Nat
  BY DEF IInv, TypeOK
<1>3. post \in Requests
  BY <1>2 DEF Requests, Calling
<1>4. /\ post.call = "new" /\ post.target = o /\ post.at = now
      /\ requests' = [requests EXCEPT ![w] = post]
      /\ requests[w] = None /\ observations[o] = None
      /\ \A v \in Windows : requests[v] # None => requests[v].target # o
      /\ UNCHANGED <<now, projects, followUps, observations, templates, occurrences,
                     seen, scope>>
  BY <1>1 DEF PostNewObservation
<1> HIDE DEF post
<1> QED
  BY <1>3, <1>4, AskKeeps

\* The page of the day asks nothing of an observation.
LEMMA OpenKeeps ==
  ASSUME IInv, NEW w \in Windows, OpenToday(w)
  PROVE  IInv'
<1> DEFINE post == [call |-> "today", value |-> None, target |-> None, expected |-> 1,
                    at |-> now]
<1>1. now \in Nat
  BY DEF IInv, TypeOK
<1>2. post \in Requests
  BY <1>1 DEF Requests
<1>3. /\ post.call = "today" /\ post.target = None /\ post.at = now
      /\ requests' = [requests EXCEPT ![w] = post] /\ requests[w] = None
      /\ UNCHANGED <<now, projects, followUps, observations, templates, occurrences,
                     seen, scope>>
  BY DEF OpenToday
<1> HIDE DEF post
<1>4. \A o \in Sightings : o # None
  BY NoneAssumption
<1> QED
  BY <1>2, <1>3, <1>4, AskKeeps

\* A window that waits no longer.
LEMMA DoneKeeps ==
  ASSUME IInv, NEW w \in Windows, requests' = [requests EXCEPT ![w] = None],
         UNCHANGED <<now, observations>>
  PROVE  PostsInTime' /\ requests' \in [Windows -> Maybe(Requests)]
<1>1. /\ requests' \in [Windows -> Maybe(Requests)] /\ requests'[w] = None
      /\ \A v \in Windows : v # w => requests'[v] = requests[v]
  BY DEF IInv, TypeOK, Maybe
<1>2. PostsInTime
  BY DEF IInv
<1> QED
  BY <1>1, <1>2 DEF PostsInTime

\* A transaction that is rolled back leaves what there was.
LEMMA FailKeeps ==
  ASSUME IInv, NEW w \in Windows, RequestFails(w)
  PROVE  IInv'
<1>1. PostsInTime' /\ requests' \in [Windows -> Maybe(Requests)]
  BY DoneKeeps DEF RequestFails
<1>2. TypeOK'
  BY <1>1 DEF IInv, TypeOK, RequestFails
<1> QED
  BY <1>1, <1>2 DEF IInv, ItemsSound, ObservationsDated, TemplatesKept, EntriesInTime,
                    SeenIsKept, RequestFails

\* What the transaction makes of a post: the first event of a new observation,
\* one more of one that had come as far as the page showed, or nothing.
LEMMA ResultMoves ==
  ASSUME IInv, NEW w \in Windows, requests[w] # None, requests[w].call # "today"
  PROVE  LET post == requests[w]
             rec  == observations[post.target]
             next == ObservationResult(post).rec
         IN  /\ post.target \in Sightings
             /\ \/ next = rec
                \/ /\ Dated(next, now)
                   /\ post.call # "new" =>
                        next.item.revision = rec.item.revision + 1
<1> DEFINE post == requests[w]
           rec  == observations[post.target]
           next == ObservationResult(post).rec
<1>1. /\ post \in Requests /\ post.call # "today" /\ now \in Nat
  BY DEF IInv, TypeOK, Maybe
<1>2. /\ post.target \in Sightings /\ post.at \in Nat /\ post.at <= now
  BY <1>1 DEF IInv, PostsInTime, Requests, Calling
<1>3. CASE post.call = "new"
  <2>1. post.value \in Projects
    BY <1>1, <1>3 DEF Requests, Calling
  <2>2. Dated(CreateObservation(post.value, post.at, post.at), now)
    BY <1>1, <1>2, <2>1, DatedCreated, DatedLater
  <2>3. next = rec \/ next = CreateObservation(post.value, post.at, post.at)
    BY <1>3 DEF ObservationResult, Refused
  <2> QED
    BY <1>2, <1>3, <2>2, <2>3
<1>4. CASE post.call # "new"
  <2>1. /\ rec # None /\ Dated(rec, now)
        /\ post.expected = rec.item.revision => Recorded(rec, post.at)
    BY <1>1, <1>2, <1>4 DEF IInv, PostsInTime, ObservationsDated
  <2>2. rec \in ObservationRecords /\ rec.item \in ObservationRows
    BY <2>1 DEF Dated, ObservationRecords
  <2>3. /\ post.call = "status" => post.value \in {"open", "tracking", "closed"}
        /\ post.call \in {"details", "reporting"} => post.value \in Texts
    BY <1>1 DEF Requests, Calling
  <2>4. ASSUME NEW written, Moves(rec.item, post.expected, written),
               NEW type \in {"observation_status_changed", "observation_details_updated",
                             "observation_reporting_updated", "observation_archived"},
               next = Record(rec, written, type, post.at).rec
        PROVE  Advances(rec, next, post.at)
    <3>1. /\ post.at \in Nat /\ rec \in ObservationRecords
          /\ Moves(rec.item, post.expected, written)
          /\ post.expected = rec.item.revision => Recorded(rec, post.at)
          /\ type \in {"observation_status_changed", "observation_details_updated",
                       "observation_reporting_updated", "observation_archived"}
      BY <1>2, <2>1, <2>2, <2>4
    <3> HIDE DEF post, rec, next
    <3>2. Advances(rec, Record(rec, written, type, post.at).rec, post.at)
      BY <3>1, RecordMoves
    <3> QED
      BY <2>4, <3>2
  <2>5. Advances(rec, next, post.at)
    <3>1. CASE post.call = "status"
      <4>1. Moves(rec.item, post.expected,
                  RowStatus(rec.item, post.expected, post.value, post.at))
        BY <1>2, <2>2, <2>3, <3>1, RowsMove
      <4>2. next = Record(rec, RowStatus(rec.item, post.expected, post.value, post.at),
                          "observation_status_changed", post.at).rec
        BY <3>1 DEF ObservationResult, UpdateObservationStatus
      <4> QED
        BY <2>4, <4>1, <4>2
    <3>2. CASE post.call = "details"
      <4>1. Moves(rec.item, post.expected,
                  RowDetails(rec.item, post.expected, post.value, post.at))
        BY <1>2, <2>2, <2>3, <3>2, RowsMove
      <4>2. next = Record(rec, RowDetails(rec.item, post.expected, post.value, post.at),
                          "observation_details_updated", post.at).rec
        BY <3>2 DEF ObservationResult, UpdateObservationDetails
      <4> QED
        BY <2>4, <4>1, <4>2
    <3>3. CASE post.call = "reporting"
      <4>1. Moves(rec.item, post.expected,
                  RowReporting(rec.item, post.expected, post.value, post.at))
        BY <1>2, <2>2, <2>3, <3>3, RowsMove
      <4>2. next = Record(rec, RowReporting(rec.item, post.expected, post.value, post.at),
                          "observation_reporting_updated", post.at).rec
        BY <3>3 DEF ObservationResult, UpdateReporting
      <4> QED
        BY <2>4, <4>1, <4>2
    <3>4. CASE post.call \notin {"status", "details", "reporting"}
      <4>1. Moves(rec.item, post.expected, RowArchive(rec.item, post.expected, post.at))
        BY <1>2, <2>2, RowsMove
      <4>2. next = Record(rec, RowArchive(rec.item, post.expected, post.at),
                          "observation_archived", post.at).rec
        BY <1>4, <3>4 DEF ObservationResult, ArchiveObservation
      <4> QED
        BY <2>4, <4>1, <4>2
    <3> QED
      BY <3>1, <3>2, <3>3, <3>4
  <2>6. Dated(next, post.at) => Dated(next, now)
    BY <1>1, <1>2, DatedLater
  <2> QED
    BY <1>2, <2>5, <2>6 DEF Advances
<1> QED
  BY <1>3, <1>4

\* The transaction of a post: what other posts wait for still holds, for a page
\* that showed the revision it moved is now behind.
LEMMA CommitKeeps ==
  ASSUME IInv, NEW w \in Windows, CommitObservation(w)
  PROVE  IInv'
<1> DEFINE post == requests[w]
           o    == post.target
           rec  == observations[o]
           next == ObservationResult(post).rec
<1>1. /\ post # None /\ post.call # "today"
      /\ observations' = [observations EXCEPT ![o] = next]
      /\ requests' = [requests EXCEPT ![w] = None]
      /\ UNCHANGED <<now, projects, followUps, templates, occurrences, seen, scope>>
  BY DEF CommitObservation
<1>2. /\ o \in Sightings
      /\ \/ next = rec
         \/ /\ Dated(next, now)
            /\ post.call # "new" => next.item.revision = rec.item.revision + 1
  BY <1>1, ResultMoves
<1>3. post \in Requests /\ rec \in Maybe(ObservationRecords)
  BY <1>1, <1>2 DEF IInv, TypeOK, Maybe
<1>4. next \in Maybe(ObservationRecords)
  BY <1>2, <1>3 DEF Dated, Maybe
<1>5. /\ observations' \in [Sightings -> Maybe(ObservationRecords)]
      /\ observations'[o] = next
      /\ \A x \in Sightings : x # o => observations'[x] = observations[x]
  BY <1>1, <1>2, <1>4 DEF IInv, TypeOK
<1>6. /\ requests' \in [Windows -> Maybe(Requests)] /\ requests'[w] = None
      /\ \A v \in Windows : v # w => requests'[v] = requests[v]
  BY <1>1 DEF IInv, TypeOK, Maybe
<1>7. post.call # "new" => rec # None
  BY <1>1 DEF IInv, PostsInTime
<1>8. post.call = "new" =>
        \A v \in Windows : v # w /\ requests[v] # None => requests[v].target # o
  BY <1>1 DEF IInv, PostsInTime
<1> HIDE DEF post, o, rec, next
<1>9. TypeOK'
  BY <1>1, <1>5, <1>6 DEF IInv, TypeOK
<1>10. ObservationsDated'
  BY <1>1, <1>2, <1>5 DEF IInv, ObservationsDated, rec
<1>11. PostsInTime'
  <2> SUFFICES ASSUME NEW v \in Windows, requests'[v] # None
               PROVE  LET old == requests'[v]
                          it  == observations'[old.target]
                      IN  /\ old.at <= now'
                          /\ old.call = "new" =>
                               /\ it = None
                               /\ \A u \in Windows : u # v /\ requests'[u] # None
                                                     => requests'[u].target # old.target
                          /\ old.call \notin {"new", "today"} =>
                               /\ it # None /\ old.expected <= it.item.revision
                               /\ old.expected = it.item.revision
                                    => Recorded(it, old.at)
    BY DEF PostsInTime
  <2> DEFINE old == requests[v]
             it  == observations[old.target]
  <2>1. /\ v # w /\ requests'[v] = old /\ old # None /\ old \in Requests
    BY <1>6 DEF IInv, TypeOK, Maybe
  <2>2. /\ old.at <= now
        /\ old.call = "new" =>
             /\ it = None
             /\ \A u \in Windows :
                  u # v /\ requests[u] # None => requests[u].target # old.target
        /\ old.call \notin {"new", "today"} =>
             /\ it # None /\ old.expected <= it.item.revision
             /\ old.expected = it.item.revision => Recorded(it, old.at)
    BY <2>1 DEF IInv, PostsInTime
  <2>3. old.call # "today" => old.target \in Sightings /\ old.expected \in Nat
    BY <2>1 DEF Requests, Calling
  <2>4. CASE old.call = "new"
    <3>1. old.target # o
      BY <1>1, <2>1, <2>2, <2>4 DEF post, o
    <3> QED
      BY <1>1, <1>5, <1>6, <2>1, <2>2, <2>3, <2>4, <3>1
  <2>5. CASE old.call \notin {"new", "today"}
    <3>1. CASE old.target # o
      BY <1>1, <1>5, <2>1, <2>2, <2>3, <2>5, <3>1
    <3>2. CASE old.target = o
      <4>1. it = rec /\ observations'[old.target] = next
        BY <1>5, <3>2 DEF rec
      <4>2. CASE next = rec
        BY <1>1, <2>1, <2>2, <2>5, <4>1, <4>2
      <4>3. CASE next # rec
        <5>1. post.call # "new"
          BY <1>8, <2>1, <3>2
        <5>2. Dated(next, now) /\ next.item.revision = rec.item.revision + 1
          BY <1>2, <4>3, <5>1
        <5>3. next # None
          BY <5>2, NoneAssumption DEF Dated
        <5>4. rec.item.revision \in Nat
          BY <1>3, <1>7, <5>1 DEF Maybe, ObservationRecords, ObservationRows
        <5>5. old.expected <= rec.item.revision /\ old.expected \in Nat
          BY <2>2, <2>3, <2>5, <4>1
        <5> QED
          BY <1>1, <2>1, <2>2, <2>5, <4>1, <5>2, <5>3, <5>4, <5>5
      <4> QED
        BY <4>2, <4>3
    <3> QED
      BY <3>1, <3>2
  <2>6. CASE old.call = "today"
    BY <1>1, <2>1, <2>2, <2>6
  <2> QED
    BY <2>4, <2>5, <2>6
<1> QED
  BY <1>1, <1>9, <1>10, <1>11 DEF IInv, ItemsSound, TemplatesKept, EntriesInTime,
                                  SeenIsKept

-----------------------------------------------------------------------------
(* The steps of the routines.                                              *)

\* A transaction of a template.
LEMMA PutTemplateKeeps ==
  ASSUME IInv, NEW t \in Templates, NEW result, PutTemplate(t, result),
         result.rec = None \/ Kept(result.rec, now)
  PROVE  IInv'
<1>1. /\ templates' \in [Templates -> Maybe(TemplateRecords)]
      /\ templates'[t] = result.rec
      /\ \A u \in Templates : u # t => templates'[u] = templates[u]
  BY DEF IInv, TypeOK, PutTemplate, Kept, Maybe
<1>2. TypeOK'
  BY <1>1 DEF IInv, TypeOK, PutTemplate
<1>3. TemplatesKept'
  BY <1>1 DEF IInv, TemplatesKept, PutTemplate
<1> QED
  BY <1>2, <1>3 DEF IInv, ItemsSound, ObservationsDated, PostsInTime, EntriesInTime,
                    SeenIsKept, PutTemplate

\* The three commands of a template.
LEMMA TemplateStays ==
  ASSUME IInv, NEW t \in Templates,
         RoutineNew(t) \/ RoutineUpdate(t) \/ RoutineDeactivate(t)
  PROVE  \E result :
           /\ PutTemplate(t, result)
           /\ \/ templates[t] = None /\ result.rec = None
              \/ Kept(result.rec, now)
<1>1. now \in Nat /\ now <= now
  BY DEF IInv, TypeOK
<1>2. templates[t] # None => Kept(templates[t], now)
  BY DEF IInv, TemplatesKept
<1>3. \A rec, why : Refused(rec, why).rec = rec
  BY DEF Refused
<1>4. CASE RoutineNew(t)
  <2>1. PICK plan \in Plans :
          /\ templates[t] = None
          /\ PutTemplate(t, IF Known(plan.project) /\ WellFormedPlan(plan)
                           THEN [rec |-> CreateTemplate(plan, now), answer |-> "saved"]
                           ELSE Refused(None, "invalid"))
    BY <1>4 DEF RoutineNew
  <2>2. Kept(CreateTemplate(plan, now), now)
    BY <1>1, TemplateCreated
  <2> QED
    BY <1>3, <2>1, <2>2
<1>5. CASE RoutineUpdate(t)
  <2>1. PICK e \in 1..MaxRevision, plan \in Plans :
          /\ TemplateForm(t, e)
          /\ PutTemplate(t, IF Known(plan.project)
                               THEN UpdateTemplate(templates[t], e, plan, now)
                               ELSE Refused(templates[t], "missing"))
    BY <1>5 DEF RoutineUpdate
  <2>2. Kept(templates[t], now)
    BY <1>2, <2>1 DEF TemplateForm
  <2>3. Kept(UpdateTemplate(templates[t], e, plan, now).rec, now)
    BY <1>1, <2>2, TemplateCommands
  <2> QED
    BY <1>3, <2>1, <2>2, <2>3
<1>6. CASE RoutineDeactivate(t)
  <2>1. PICK e \in 1..MaxRevision :
          /\ TemplateForm(t, e)
          /\ PutTemplate(t, DeactivateTemplate(templates[t], e, now))
    BY <1>6 DEF RoutineDeactivate
  <2>2. Kept(templates[t], now)
    BY <1>2, <2>1 DEF TemplateForm
  <2>3. Kept(DeactivateTemplate(templates[t], e, now).rec, now)
    BY <1>1, <2>2, TemplateCommands
  <2> QED
    BY <2>1, <2>3
<1> QED
  BY <1>4, <1>5, <1>6

\* So each keeps the invariant.
LEMMA TemplateKeeps ==
  ASSUME IInv, NEW t \in Templates,
         RoutineNew(t) \/ RoutineUpdate(t) \/ RoutineDeactivate(t)
  PROVE  IInv'
  BY TemplateStays, PutTemplateKeeps

\* A transaction of an occurrence that calls nothing missed.
LEMMA PutOccurrenceKeeps ==
  ASSUME IInv, NEW t \in Templates, NEW d \in Days, NEW result,
         PutOccurrence(t, d, result), Entry(result.rec, d, now),
         Unmissed(occurrences[t][d]) => Unmissed(result.rec)
  PROVE  IInv'
<1>1. /\ occurrences \in [Templates -> [Days -> Maybe(OccurrenceRecords)]]
      /\ result.rec \in OccurrenceRecords /\ result.rec # None
  BY NoneAssumption DEF IInv, TypeOK, Entry
<1>2. /\ occurrences' \in [Templates -> [Days -> Maybe(OccurrenceRecords)]]
      /\ occurrences'[t][d] = result.rec
      /\ \A u \in Templates, x \in Days :
           u # t \/ x # d => occurrences'[u][x] = occurrences[u][x]
  <2>1. occurrences' = [occurrences EXCEPT ![t] = [occurrences[t] EXCEPT ![d] = result.rec]]
    BY DEF PutOccurrence
  <2>2. occurrences[t] \in [Days -> Maybe(OccurrenceRecords)]
    BY <1>1
  <2>3. /\ [occurrences[t] EXCEPT ![d] = result.rec] \in [Days -> Maybe(OccurrenceRecords)]
        /\ [occurrences[t] EXCEPT ![d] = result.rec][d] = result.rec
        /\ \A x \in Days : x # d =>
             [occurrences[t] EXCEPT ![d] = result.rec][x] = occurrences[t][x]
    BY <1>1, <2>2 DEF Maybe
  <2> QED
    BY <1>1, <2>1, <2>3
<1>3. TypeOK'
  BY <1>2 DEF IInv, TypeOK, PutOccurrence
<1>4. EntriesInTime'
  BY <1>2 DEF IInv, EntriesInTime, PutOccurrence
<1>5. SeenIsKept'
  <2>1. \A u \in Templates : seen[u] \subseteq Days /\ seen' = seen
    BY DEF IInv, TypeOK, PutOccurrence
  <2> QED
    BY <1>1, <1>2, <2>1 DEF IInv, SeenIsKept
<1> QED
  BY <1>3, <1>4, <1>5 DEF IInv, ItemsSound, ObservationsDated, PostsInTime,
                          TemplatesKept, PutOccurrence

\* The three commands of an occurrence.
LEMMA OccurrenceStays ==
  ASSUME IInv, NEW t \in Templates, NEW d \in Days,
         OccurrenceSnooze(t, d) \/ OccurrenceClose(t, d) \/ OccurrenceReopen(t, d)
  PROVE  \E result :
           /\ PutOccurrence(t, d, result) /\ Entry(result.rec, d, now)
           /\ Unmissed(occurrences[t][d]) => Unmissed(result.rec)
<1> DEFINE rec == occurrences[t][d]
<1>1. now \in Nat /\ now <= now /\ d \in Nat
  BY DEF IInv, TypeOK, Days
<1>2. rec # None => Entry(rec, d, now)
  BY DEF IInv, EntriesInTime
<1>3. \A at \in Moments : at \in Nat
  BY DeskAssumption
<1>4. CASE OccurrenceSnooze(t, d)
  <2>1. PICK e \in 1..MaxRevision, attention \in Moments :
          /\ OccurrenceForm(t, d, e)
          /\ PutOccurrence(t, d, SnoozeOccurrence(rec, e, attention, now))
    BY <1>4 DEF OccurrenceSnooze
  <2> DEFINE result == SnoozeOccurrence(rec, e, attention, now)
  <2>2. Entry(rec, d, now)
    BY <1>2, <2>1 DEF OccurrenceForm
  <2> HIDE DEF rec
  <2>3. Entry(result.rec, d, now) /\ (Unmissed(rec) => Unmissed(result.rec))
    BY <1>1, <1>3, <2>2, OccurrenceCommands
  <2> HIDE DEF result
  <2> QED
    BY <2>1, <2>3 DEF rec, result
<1>5. CASE OccurrenceClose(t, d)
  <2>1. PICK e \in 1..MaxRevision, outcome \in {"completed", "no_work", "not_required"} :
          /\ OccurrenceForm(t, d, e)
          /\ PutOccurrence(t, d, CloseOccurrence(rec, e, outcome, now))
    BY <1>5 DEF OccurrenceClose
  <2> DEFINE result == CloseOccurrence(rec, e, outcome, now)
  <2>2. Entry(rec, d, now)
    BY <1>2, <2>1 DEF OccurrenceForm
  <2> HIDE DEF rec
  <2>3. Entry(result.rec, d, now) /\ (Unmissed(rec) => Unmissed(result.rec))
    BY <1>1, <2>2, OccurrenceCommands
  <2> HIDE DEF result
  <2> QED
    BY <2>1, <2>3 DEF rec, result
<1>6. CASE OccurrenceReopen(t, d)
  <2>1. PICK e \in 1..MaxRevision, attention \in Moments :
          /\ OccurrenceForm(t, d, e)
          /\ PutOccurrence(t, d, ReopenOccurrence(rec, e, attention, now))
    BY <1>6 DEF OccurrenceReopen
  <2> DEFINE result == ReopenOccurrence(rec, e, attention, now)
  <2>2. Entry(rec, d, now)
    BY <1>2, <2>1 DEF OccurrenceForm
  <2> HIDE DEF rec
  <2>3. Entry(result.rec, d, now) /\ (Unmissed(rec) => Unmissed(result.rec))
    BY <1>1, <1>3, <2>2, OccurrenceCommands
  <2> HIDE DEF result
  <2> QED
    BY <2>1, <2>3 DEF rec, result
<1> QED
  BY <1>4, <1>5, <1>6

\* So each keeps the invariant.
LEMMA OccurrenceKeeps ==
  ASSUME IInv, NEW t \in Templates, NEW d \in Days,
         OccurrenceSnooze(t, d) \/ OccurrenceClose(t, d) \/ OccurrenceReopen(t, d)
  PROVE  IInv'
  BY OccurrenceStays, PutOccurrenceKeeps

\* The window of a template ends today.
LEMMA TodayIsDue ==
  ASSUME NEW template, NEW today \in Nat, MatchesDate(template, today)
  PROVE  today \in DueDates(template, today)
<1>1. today \in IF today + 1 < WindowDays THEN 0..today
                ELSE (today + 1 - WindowDays)..today
  BY WindowAssumption
<1> QED
  BY <1>1 DEF DueDates

\* The page of the day is drawn: the days that had an entry keep it, a day that is
\* shown as it happens gets an open one, and only days that are over a missed one.
LEMMA DrawKeeps ==
  ASSUME IInv, NEW w \in Windows, DrawToday(w)
  PROVE  IInv'
<1> DEFINE at    == requests[w].at
           today == LocalDay(at)
           drawn == {t \in Templates : templates[t] # None}
<1>1. /\ requests[w] # None /\ requests' = [requests EXCEPT ![w] = None]
      /\ occurrences' = [t \in Templates |->
                           IF t \in drawn
                           THEN EnsureOccurrences(templates[t].item, occurrences[t],
                                                  today, at)
                           ELSE occurrences[t]]
      /\ seen' = [t \in Templates |->
                    IF /\ t \in drawn /\ today = LocalDay(now)
                       /\ MatchesDate(templates[t].item, today)
                    THEN seen[t] \cup {today} ELSE seen[t]]
      /\ UNCHANGED <<now, projects, followUps, observations, templates, scope>>
  BY DEF DrawToday
<1>2. /\ at \in Nat /\ at <= now /\ now \in Nat /\ now <= MaxInstant
      /\ MaxInstant \in Nat
  BY <1>1, DeskAssumption DEF IInv, PostsInTime, TypeOK, Maybe, Requests, Calling
<1>3. /\ today \in Nat /\ LocalDay(now) \in Nat /\ today <= LocalDay(now)
      /\ LocalDay(MaxInstant) \in Nat /\ LocalDay(now) <= LocalDay(MaxInstant)
  BY <1>2, DayOfInstant, DaysAdvance
<1>4. today \in Days
  BY <1>3 DEF Days
<1>5. \A t \in Templates : t \in drawn => templates[t].item \in TemplateRows
  BY DEF IInv, TypeOK, Maybe, TemplateRecords
<1>6. \A t \in Templates : DOMAIN occurrences[t] = Days
  BY DEF IInv, TypeOK
<1>7. ASSUME NEW t \in Templates, NEW d \in Days
      PROVE  \/ occurrences'[t][d] = occurrences[t][d]
             \/ /\ occurrences[t][d] = None
                /\ Entry(occurrences'[t][d], d, now)
                /\ d = today => Unmissed(occurrences'[t][d])
  <2>1. CASE t \notin drawn
    BY <1>1, <2>1
  <2>2. CASE t \in drawn
    <3> DEFINE made == NewOccurrence(templates[t].item, d, today, at)
    <3>1. occurrences'[t] = EnsureOccurrences(templates[t].item, occurrences[t], today, at)
      BY <1>1, <2>2
    <3>2. \/ occurrences'[t][d] = occurrences[t][d]
          \/ occurrences[t][d] = None /\ occurrences'[t][d] = made
      BY <1>6, <3>1 DEF EnsureOccurrences, AddIfAbsent
    <3>3. d \in Nat
      BY DEF Days
    <3>4. Entry(made, d, at) /\ (d = today => Unmissed(made))
      BY <1>2, <1>5, <2>2, <3>3, NewEntry
    <3> HIDE DEF made, at, today
    <3>5. Entry(made, d, now)
      BY <1>2, <3>3, <3>4, EntryLater
    <3> QED
      BY <3>2, <3>4, <3>5
  <2> QED
    BY <2>1, <2>2
<1>8. ASSUME NEW t \in drawn, MatchesDate(templates[t].item, today)
      PROVE  occurrences'[t][today] # None
  <2> DEFINE made == NewOccurrence(templates[t].item, today, today, at)
  <2>1. today \in DueDates(templates[t].item, today)
    BY <1>3, <1>8, TodayIsDue
  <2>2. occurrences'[t] = EnsureOccurrences(templates[t].item, occurrences[t], today, at)
    BY <1>1, <1>8
  <2>3. occurrences'[t][today] = AddIfAbsent(occurrences[t][today], made)
    BY <1>4, <1>6, <1>8, <2>1, <2>2 DEF EnsureOccurrences
  <2>4. made # None
    BY <1>2, <1>3, <1>5, <1>8, NewEntry, NoneAssumption DEF Entry
  <2> QED
    BY <2>3, <2>4 DEF AddIfAbsent
<1>9. PostsInTime' /\ requests' \in [Windows -> Maybe(Requests)]
  BY <1>1, DoneKeeps
<1> HIDE DEF at, today
<1>10. occurrences' \in [Templates -> [Days -> Maybe(OccurrenceRecords)]]
  <2>1. ASSUME NEW t \in Templates PROVE occurrences'[t] \in [Days -> Maybe(OccurrenceRecords)]
    <3>1. occurrences[t] \in [Days -> Maybe(OccurrenceRecords)]
      BY DEF IInv, TypeOK
    <3>2. \/ occurrences'[t] = occurrences[t]
          \/ occurrences'[t] = EnsureOccurrences(templates[t].item, occurrences[t],
                                                 today, at)
      BY <1>1
    <3>3. \A d \in Days : occurrences'[t][d] \in Maybe(OccurrenceRecords)
      BY <1>7, <3>1 DEF Entry, Maybe
    <3> QED
      BY <1>6, <3>1, <3>2, <3>3 DEF EnsureOccurrences
  <2> QED
    BY <1>1, <2>1
<1>11. /\ seen' \in [Templates -> SUBSET Days]
       /\ \A t \in Templates : \A d \in seen'[t] :
            \/ d \in seen[t]
            \/ /\ d = today /\ today = LocalDay(now) /\ t \in drawn
               /\ MatchesDate(templates[t].item, today)
  BY <1>1, <1>4 DEF IInv, TypeOK
<1>12. TypeOK'
  BY <1>1, <1>9, <1>10, <1>11 DEF IInv, TypeOK
<1>13. EntriesInTime'
  BY <1>1, <1>7 DEF IInv, EntriesInTime
<1>14. SeenIsKept'
  <2> SUFFICES ASSUME NEW t \in Templates, NEW d \in seen'[t]
               PROVE  occurrences'[t][d] # None /\ Unmissed(occurrences'[t][d])
    BY DEF SeenIsKept
  <2>1. d \in Days
    BY <1>11
  <2>2. CASE d \in seen[t]
    BY <1>7, <2>1, <2>2 DEF IInv, SeenIsKept
  <2>3. CASE /\ d = today /\ today = LocalDay(now) /\ t \in drawn
             /\ MatchesDate(templates[t].item, today)
    <3>1. occurrences'[t][d] # None
      BY <1>8, <2>3
    <3>2. CASE occurrences[t][d] = None
      BY <1>7, <2>1, <2>3, <3>1, <3>2
    <3>3. CASE occurrences[t][d] # None
      <4>1. Entry(occurrences[t][d], d, now) /\ occurrences'[t][d] = occurrences[t][d]
        BY <1>7, <2>1, <3>3 DEF IInv, EntriesInTime
      <4>2. ~(d < LocalDay(now))
        BY <1>3, <2>3
      <4> QED
        BY <3>1, <4>1, <4>2 DEF Entry, Unmissed
    <3> QED
      BY <3>2, <3>3
  <2> QED
    BY <1>11, <2>2, <2>3
<1> QED
  BY <1>1, <1>9, <1>12, <1>13, <1>14 DEF IInv, ItemsSound, ObservationsDated,
                                         TemplatesKept

-----------------------------------------------------------------------------

\* Every step keeps the invariant.
LEMMA StepKeeps == IInv /\ [Next]_vars => IInv'
<1> SUFFICES ASSUME IInv, [Next]_vars PROVE IInv'
  OBVIOUS
<1>1. CASE Tick
  BY <1>1, TickKeeps
<1>2. ASSUME NEW p \in Projects, CreateProject(p) PROVE IInv'
  BY <1>2, ProjectKeeps
<1>3. ASSUME NEW i \in Items, FollowUpStep(i) PROVE IInv'
  BY <1>3, FollowUpKeeps
<1>4. ASSUME NEW w \in Windows, NEW o \in Sightings, PostNewObservation(w, o)
      PROVE  IInv'
  BY <1>4, PostNewKeeps
<1>5. ASSUME NEW w \in Windows, NEW o \in Sightings,
             PostEdit(w, o) \/ PostStatus(w, o) \/ PostReporting(w, o) \/ CallArchive(w, o)
      PROVE  IInv'
  BY <1>5, PostKeeps
<1>6. ASSUME NEW t \in Templates, RoutineStep(t) PROVE IInv'
  BY <1>6, TemplateKeeps, OccurrenceKeeps DEF RoutineStep
<1>7. ASSUME NEW w \in Windows, OpenToday(w) PROVE IInv'
  BY <1>7, OpenKeeps
<1>8. ASSUME NEW w \in Windows, CommitObservation(w) \/ DrawToday(w) \/ RequestFails(w)
      PROVE  IInv'
  BY <1>8, CommitKeeps, DrawKeeps, FailKeeps
<1>9. CASE UNCHANGED vars
  BY <1>9 DEF vars, IInv, TypeOK, ItemsSound, ObservationsDated, PostsInTime,
              TemplatesKept, EntriesInTime, SeenIsKept
<1> QED
  BY <1>1, <1>2, <1>3, <1>4, <1>5, <1>6, <1>7, <1>8, <1>9 DEF Next

\* The invariant holds in every state.
LEMMA Invariant == Spec => []IInv
  BY Initially, StepKeeps, PTL DEF Spec

\* Every variable stays in its type: the rows and the events of every record
\* are what the tables of the application can hold.
THEOREM TypeCorrect == Spec => []TypeOK
<1>1. IInv => TypeOK
  BY DEF IInv
<1> QED
  BY <1>1, Invariant, PTL

\* The history of every record tells its revisions one by one in the order of
\* the clock, for any number of windows whose posts commit in any order: a post
\* that waited is refused by the revision its page showed, or finds nothing
\* recorded after the instant it read (observations.py:295).
THEOREM HistoriesStayInOrder == Spec => []HistoryInOrder
<1>1. IInv => HistoryInOrder
  BY DEF IInv, ItemsSound, ObservationsDated, TemplatesKept, EntriesInTime,
         HistoryInOrder, Sound, Dated, Kept, Entry, Recorded
<1> QED
  BY <1>1, Invariant, PTL

\* The history of every item, replayed, gives the item as it stands, whatever
\* commands were tried on it in whatever order
\* (application/field_tracking.py:306 to 836).
THEOREM HistoriesTellItems == Spec => []HistoryTellsItem
<1>1. IInv => HistoryTellsItem
  BY DEF IInv, ItemsSound, HistoryTellsItem, Sound
<1> QED
  BY <1>1, Invariant, PTL

\* A day whose page was drawn while it lasted with the template due keeps its
\* entry, never closed as missed, however late the pages that read their
\* instant before midnight commit (application/routines.py:379).
THEOREM SeenDaysKeepTheirEntry == Spec => []SeenDaysAreNotMissed
<1>1. ASSUME IInv PROVE SeenDaysAreNotMissed
  <2> SUFFICES ASSUME NEW t \in Templates, NEW d \in seen[t]
               PROVE  /\ occurrences[t][d] # None
                      /\ \A i \in DOMAIN occurrences[t][d].history :
                           occurrences[t][d].history[i].type # "missed"
    BY DEF SeenDaysAreNotMissed
  <2>1. occurrences[t][d] # None /\ Unmissed(occurrences[t][d]) /\ d \in Days
    BY <1>1 DEF IInv, SeenIsKept, TypeOK
  <2>2. occurrences[t][d] \in OccurrenceRecords
    BY <1>1, <2>1 DEF IInv, EntriesInTime, Entry
  <2>3. DOMAIN occurrences[t][d].history = 1..Len(occurrences[t][d].history)
    BY <2>2 DEF OccurrenceRecords
  <2> QED
    BY <2>1, <2>3 DEF Unmissed
<1> QED
  BY <1>1, Invariant, PTL

-----------------------------------------------------------------------------
(* The lists of the pages.                                                 *)

\* Planned work is due when its attention or its deadline has come, and its
\* page is that of the day of the earlier of the two.
LEMMA PlannedWork ==
  ASSUME NEW item \in ItemRows, WellFormed(item), item.status \in Planned, NEW n \in Nat
  PROVE  /\ IsNow(item, n)
              <=> \E at \in {item.attention, item.deadline} \ {None} : at <= n
         /\ Classify(item, LocalDay(n)) \in {"overdue", "today", "upcoming"}
<1> DEFINE due == EffectiveAttention(item)
<1>1. item.attention # None /\ item.attention \in Nat /\ item.status # "inbox"
  BY DEF WellFormed, ItemRows, Maybe, Planned
<1>2. item.deadline # None => item.deadline \in Nat
  BY DEF ItemRows, Maybe
<1>3. /\ due \in Nat /\ due # None
      /\ due <= n <=> \E at \in {item.attention, item.deadline} \ {None} : at <= n
  BY <1>1, <1>2 DEF EffectiveAttention
<1> HIDE DEF due
<1>4. LocalDay(due) \in Nat /\ LocalDay(n) \in Nat
  BY <1>3, DayOfInstant
<1>5. (due <= n => LocalDay(due) <= LocalDay(n)) /\ (n <= due => LocalDay(n) <= LocalDay(due))
  BY <1>3, DaysAdvance
<1>6. Classify(item, LocalDay(n)) = IF LocalDay(due) < LocalDay(n) THEN "overdue"
                                    ELSE IF LocalDay(due) = LocalDay(n) THEN "today"
                                    ELSE "upcoming"
  BY <1>1, <1>3 DEF Classify, due
<1>7. IsNow(item, n) <=> \/ Classify(item, LocalDay(n)) = "overdue"
                         \/ Classify(item, LocalDay(n)) = "today" /\ due <= n
  BY <1>1, <1>3 DEF IsNow, due
<1>8. IsNow(item, n) <=> due <= n
  BY <1>3, <1>4, <1>5, <1>6, <1>7
<1> QED
  BY <1>3, <1>6, <1>8

\* An open item is on one of the four lists, a closed one on none.
LEMMA ListedOnce ==
  ASSUME NEW item \in ItemRows, WellFormed(item), NEW n \in Nat
  PROVE  Cardinality({view \in {"inbox", "overdue", "today", "upcoming"} :
                        InView(item, view, n)})
           = IF item.status \in Open THEN 1 ELSE 0
<1> DEFINE page  == Classify(item, LocalDay(n))
           views == {view \in {"inbox", "overdue", "today", "upcoming"} :
                       InView(item, view, n)}
<1>1. CASE item.status = "inbox"
  <2>1. page = "inbox"
    BY <1>1 DEF Classify
  <2>2. views = {"inbox"}
    BY <1>1, <2>1 DEF InView
  <2> QED
    BY <1>1, <2>2, FS_Singleton DEF Open
<1>2. CASE item.status \in Planned
  <2>1. page \in {"overdue", "today", "upcoming"}
    BY <1>2, PlannedWork
  <2>2. views = {page}
    BY <1>2, <2>1 DEF InView, Planned
  <2> QED
    BY <1>2, <2>2, FS_Singleton DEF Open
<1>3. CASE item.status \in Terminal
  <2>1. item.status # "inbox" /\ item.status \notin Planned /\ item.status \notin Open
    BY <1>3 DEF Terminal, Planned, Open
  <2>2. page = None
    BY <2>1 DEF Classify, EffectiveAttention
  <2>3. views = {}
    BY <2>1, <2>2, NoneAssumption DEF InView
  <2> QED
    BY <2>1, <2>3, FS_EmptySet
<1> QED
  BY <1>1, <1>2, <1>3 DEF ItemRows, Open

\* An open occurrence is on the page of the day from its day on.
LEMMA OccurrenceShown ==
  ASSUME NEW item \in OccurrenceRows, item.status = "open", NEW n \in Nat
  PROVE  OccurrenceInView(item, {"overdue", "today"}, n)
           <=> LocalDay(item.attention) <= LocalDay(n)
<1>1. item.attention \in Nat
  BY DEF OccurrenceRows
<1>2. /\ LocalDay(item.attention) \in Nat /\ LocalDay(n) \in Nat
      /\ item.attention < n => LocalDay(item.attention) <= LocalDay(n)
      /\ n <= item.attention => LocalDay(n) <= LocalDay(item.attention)
  BY <1>1, DayOfInstant, DaysAdvance
<1>3. ClassifyOccurrence(item, n) = IF item.attention < n THEN "overdue"
                                    ELSE IF LocalDay(item.attention) = LocalDay(n)
                                    THEN "today" ELSE "upcoming"
  BY DEF ClassifyOccurrence
<1> QED
  BY <1>1, <1>2, <1>3 DEF OccurrenceInView

\* At every instant, with any work and any routines, the lists of the pages
\* agree with the state: what is due is listed as due, every open item is on
\* one list and a closed one on none, and an open occurrence stays on the page
\* of the day until it is put off to a later one (field_tracking.py:666 to 749).
THEOREM DueWorkIsListed == Spec => []DueWorkIsShown
<1>1. ASSUME IInv PROVE DueWorkIsShown
  <2>1. now \in Nat
    BY <1>1 DEF IInv, TypeOK
  <2>2. ASSUME NEW i \in Items, followUps[i] # None
        PROVE  /\ followUps[i].item \in ItemRows /\ WellFormed(followUps[i].item)
               /\ i \in DayPage.now <=> IsNow(followUps[i].item, now)
    <3>1. Sound(followUps[i], now)
      BY <1>1, <2>2 DEF IInv, ItemsSound
    <3>2. DayPage.now = {j \in Items : /\ followUps[j] # None
                                       /\ InView(followUps[j].item, "now", now)}
      BY DEF DayPage
    <3> QED
      BY <2>2, <3>1, <3>2 DEF Sound, ItemRecords, InView
  <2>3. ASSUME NEW i \in Items, followUps[i] # None
        PROVE  LET item == followUps[i].item
                   due  == {item.attention, item.deadline} \ {None}
               IN  i \in DayPage.now <=>
                     \/ item.status = "inbox" /\ item.important
                     \/ item.status \in Planned /\ \E at \in due : at <= now
    <3> DEFINE item == followUps[i].item
    <3>1. item \in ItemRows /\ WellFormed(item) /\ (i \in DayPage.now <=> IsNow(item, now))
      BY <2>2, <2>3
    <3> HIDE DEF item
    <3>2. CASE item.status = "inbox"
      <4>1. IsNow(item, now) <=> item.important
        BY <3>1, <3>2 DEF IsNow
      <4> QED
        BY <3>1, <3>2, <4>1 DEF item, Planned
    <3>3. CASE item.status \in Planned
      BY <2>1, <3>1, <3>3, PlannedWork DEF item, Planned
    <3>4. CASE item.status \in Terminal
      <4>1. item.status # "inbox" /\ item.status \notin Planned
        BY <3>4 DEF Terminal, Planned
      <4>2. ~IsNow(item, now)
        BY <4>1 DEF IsNow, EffectiveAttention
      <4> QED
        BY <3>1, <4>1, <4>2 DEF item
    <3> QED
      BY <3>1, <3>2, <3>3, <3>4 DEF ItemRows, Open
  <2>4. ASSUME NEW t \in Templates, NEW d \in Days, occurrences[t][d] # None,
               occurrences[t][d].item.status = "open"
        PROVE  << t, d >> \in DayPage.occurrences
                 <=> LocalDay(occurrences[t][d].item.attention) <= LocalDay(now)
    <3>1. occurrences[t][d].item \in OccurrenceRows
      BY <1>1, <2>4 DEF IInv, EntriesInTime, Entry, OccurrenceRecords
    <3>2. DayPage.occurrences
            = {entry \in Templates \X Days :
                 /\ occurrences[entry[1]][entry[2]] # None
                 /\ OccurrenceInView(occurrences[entry[1]][entry[2]].item,
                                     {"overdue", "today"}, now)}
      BY DEF DayPage
    <3>3. << t, d >> \in DayPage.occurrences
            <=> OccurrenceInView(occurrences[t][d].item, {"overdue", "today"}, now)
      BY <2>4, <3>2
    <3> QED
      BY <2>1, <2>4, <3>1, <3>3, OccurrenceShown
  <2>5. ASSUME NEW i \in Items, followUps[i] # None
        PROVE  Cardinality({view \in {"inbox", "overdue", "today", "upcoming"} :
                              InView(followUps[i].item, view, now)})
                 = IF followUps[i].item.status \in Open THEN 1 ELSE 0
    BY <2>1, <2>2, <2>5, ListedOnce
  <2> QED
    BY <2>3, <2>4, <2>5 DEF DueWorkIsShown
<1> QED
  BY <1>1, Invariant, PTL


-----------------------------------------------------------------------------
(* What a step makes of one record.                                        *)

\* A history and one line more.
OneMore(h, g) == Len(g) = Len(h) + 1 /\ \A i \in 1..Len(h) : g[i] = h[i]

\* An event appended is one line more, whatever it is.
LEMMA LineAppended ==
  ASSUME NEW S, NEW h \in Seq(S), NEW e
  PROVE  OneMore(h, Append(h, e))
  BY DEF OneMore

\* An item that is tied stays tied to what it is tied to, and one that is tied
\* now has the project of an observation there is.
Ties(row, new) ==
  /\ row.observation # None =>
       new.observation = row.observation /\ new.project = row.project
  /\ new.observation # None =>
       \/ new.observation = row.observation /\ new.project = row.project
       \/ /\ observations[new.observation] # None
          /\ new.project = observations[new.observation].item.project

\* What a command may make of the record of an item.
Follows(rec, made) ==
  \/ made = rec
  \/ OneMore(rec.history, made.history) /\ Ties(rec.item, made.item)

\* A change that respects the ties is one line more, or is refused.
LEMMA ReviseFollows ==
  ASSUME NEW rec, rec.item \in ItemRows, NEW S, rec.history \in Seq(S), NEW changed,
         DOMAIN changed = DOMAIN rec.item, Ties(rec.item, changed),
         NEW type, NEW at, NEW told
  PROVE  Follows(rec, Revise(rec, changed, type, at, told).rec)
<1> DEFINE next   == [changed EXCEPT !.revision = rec.item.revision + 1, !.updated = at]
           stored == RepositoryUpdate(rec.item, next)
           same   == [next EXCEPT !.revision = rec.item.revision]
           e      == Event(rec.history, type, stored.revision, at, told)
           made   == [item |-> stored, history |-> Append(rec.history, e)]
<1>1. /\ {"observation", "project"} \subseteq DOMAIN changed
      /\ DOMAIN next = DOMAIN changed
  BY DEF ItemRows
<1>2. next.observation = changed.observation /\ next.project = changed.project
  BY <1>1
<1>3. same.observation = next.observation /\ same.project = next.project
  BY <1>1
<1>4. stored = next \/ stored = same
  BY DEF RepositoryUpdate
<1>5. stored.observation = changed.observation /\ stored.project = changed.project
  BY <1>2, <1>3, <1>4
<1>6. \/ Revise(rec, changed, type, at, told).rec = rec
      \/ Revise(rec, changed, type, at, told).rec = made
  BY DEF Revise, Refused
<1> HIDE DEF next, stored, same, e
<1>7. made.item = stored /\ made.history = Append(rec.history, e)
  OBVIOUS
<1>8. OneMore(rec.history, made.history)
  BY <1>7, LineAppended
<1>9. Ties(rec.item, made.item)
  BY <1>5, <1>7 DEF Ties
<1> QED
  BY <1>6, <1>8, <1>9 DEF Follows

\* A command that leaves the observation and the project of an item alone.
LEMMA UntiedFollows ==
  ASSUME NEW rec, rec.item \in ItemRows, NEW S, rec.history \in Seq(S), NEW changed,
         DOMAIN changed = DOMAIN rec.item, changed.observation = rec.item.observation,
         changed.project = rec.item.project, NEW type, NEW at, NEW told
  PROVE  Follows(rec, Revise(rec, changed, type, at, told).rec)
<1>1. Ties(rec.item, changed)
  BY DEF Ties
<1> QED
  BY <1>1, ReviseFollows

\* So do the commands of an item that is planned, put off or closed.
LEMMA PlansFollow ==
  ASSUME NEW rec, rec.item \in ItemRows, NEW S, rec.history \in Seq(S), NEW expected,
         NEW at
  PROVE  /\ \A important, deadline, person :
              Follows(rec, UpdateDetails(rec, expected, important, deadline, person,
                                         at).rec)
         /\ \A attention, target :
              Follows(rec, Schedule(rec, expected, attention, target, at).rec)
         /\ Follows(rec, MoveToInbox(rec, expected, at).rec)
         /\ \A attention, person :
              Follows(rec, MarkWaiting(rec, expected, attention, person, at).rec)
         /\ \A outcome : Follows(rec, Complete(rec, expected, outcome, at).rec)
         /\ Follows(rec, Cancel(rec, expected, at).rec)
         /\ \A attention : Follows(rec, Reopen(rec, expected, attention, at).rec)
<1> DEFINE row == rec.item
<1>1. /\ {"observation", "project"} \subseteq DOMAIN row
  BY DEF ItemRows
<1>2. Follows(rec, rec)
  BY DEF Follows
<1>3. ASSUME NEW important, NEW deadline, NEW person
      PROVE  Follows(rec, UpdateDetails(rec, expected, important, deadline, person, at).rec)
  <2> DEFINE changed == [row EXCEPT !.important = important, !.deadline = deadline,
                                    !.person = person]
  <2>1. /\ DOMAIN changed = DOMAIN row /\ changed.observation = row.observation
        /\ changed.project = row.project
    BY <1>1
  <2> HIDE DEF changed
  <2>2. Follows(rec, Revise(rec, changed, "details_updated", at, << >>).rec)
    BY <2>1, UntiedFollows
  <2> QED
    BY <1>2, <2>2 DEF UpdateDetails, Refused, Unchanged, changed
<1>4. ASSUME NEW attention, NEW target
      PROVE  Follows(rec, Schedule(rec, expected, attention, target, at).rec)
  <2> DEFINE changed == [row EXCEPT !.status = target, !.attention = attention]
  <2>1. /\ DOMAIN changed = DOMAIN row /\ changed.observation = row.observation
        /\ changed.project = row.project
    BY <1>1
  <2> HIDE DEF changed
  <2>2. \A type : Follows(rec, Revise(rec, changed, type, at,
                               [status |-> target, attention |-> attention]).rec)
    BY <2>1, UntiedFollows
  <2> QED
    BY <1>2, <2>2 DEF Schedule, Refused, Unchanged, changed
<1>5. Follows(rec, MoveToInbox(rec, expected, at).rec)
  <2> DEFINE changed == [row EXCEPT !.status = "inbox", !.attention = None]
  <2>1. /\ DOMAIN changed = DOMAIN row /\ changed.observation = row.observation
        /\ changed.project = row.project
    BY <1>1
  <2> HIDE DEF changed
  <2>2. Follows(rec, Revise(rec, changed, "moved_to_inbox", at, << >>).rec)
    BY <2>1, UntiedFollows
  <2> QED
    BY <1>2, <2>2 DEF MoveToInbox, Refused, Unchanged, changed
<1>6. ASSUME NEW attention, NEW person
      PROVE  Follows(rec, MarkWaiting(rec, expected, attention, person, at).rec)
  <2> DEFINE changed == [row EXCEPT !.status = "waiting", !.attention = attention,
                                    !.person = person]
  <2>1. /\ DOMAIN changed = DOMAIN row /\ changed.observation = row.observation
        /\ changed.project = row.project
    BY <1>1
  <2> HIDE DEF changed
  <2>2. Follows(rec, Revise(rec, changed, "waiting_started", at,
                            [attention |-> attention]).rec)
    BY <2>1, UntiedFollows
  <2> QED
    BY <1>2, <2>2 DEF MarkWaiting, Refused, Unchanged, changed
<1>7. ASSUME NEW outcome PROVE Follows(rec, Complete(rec, expected, outcome, at).rec)
  <2> DEFINE changed == [row EXCEPT !.status = "completed", !.outcome = outcome,
                                    !.completed = at, !.cancelled = None,
                                    !.attention = None]
  <2>1. /\ DOMAIN changed = DOMAIN row /\ changed.observation = row.observation
        /\ changed.project = row.project
    BY <1>1
  <2> HIDE DEF changed
  <2>2. Follows(rec, Revise(rec, changed, "completed", at, [outcome |-> outcome]).rec)
    BY <2>1, UntiedFollows
  <2> QED
    BY <1>2, <2>2 DEF Complete, Refused, changed
<1>8. Follows(rec, Cancel(rec, expected, at).rec)
  <2> DEFINE changed == [row EXCEPT !.status = "cancelled", !.outcome = "cancelled",
                                    !.completed = None, !.cancelled = at,
                                    !.attention = None]
  <2>1. /\ DOMAIN changed = DOMAIN row /\ changed.observation = row.observation
        /\ changed.project = row.project
    BY <1>1
  <2> HIDE DEF changed
  <2>2. Follows(rec, Revise(rec, changed, "cancelled", at,
                            [outcome |-> "cancelled"]).rec)
    BY <2>1, UntiedFollows
  <2> QED
    BY <1>2, <2>2 DEF Cancel, Refused, changed
<1>9. ASSUME NEW attention PROVE Follows(rec, Reopen(rec, expected, attention, at).rec)
  <2> DEFINE target  == IF attention # None THEN "active" ELSE "inbox"
             changed == [row EXCEPT !.status = target, !.attention = attention,
                                    !.outcome = None, !.completed = None,
                                    !.cancelled = None]
  <2>1. /\ DOMAIN changed = DOMAIN row /\ changed.observation = row.observation
        /\ changed.project = row.project
    BY <1>1
  <2> HIDE DEF changed
  <2>2. Follows(rec, Revise(rec, changed, "reopened", at,
                            [status |-> target, attention |-> attention]).rec)
    BY <2>1, UntiedFollows
  <2> QED
    BY <1>2, <2>2 DEF Reopen, Refused, changed
<1> QED
  BY <1>3, <1>4, <1>5, <1>6, <1>7, <1>8, <1>9

\* The three commands that set the project or the observation of an item.
LEMMA TiesFollow ==
  ASSUME NEW rec, rec.item \in ItemRows, WellFormed(rec.item), NEW S,
         rec.history \in Seq(S), NEW expected, NEW at
  PROVE  /\ \A project : Follows(rec, SetProject(rec, expected, project, at).rec)
         /\ \A o : o # None /\ observations[o] # None =>
              LET project == observations[o].item.project IN
              /\ Follows(rec, LinkObservation(rec, expected, o, project, at).rec)
              /\ Follows(rec, ConvertToObservation(rec, expected, o, project, at).rec)
<1> DEFINE row == rec.item
<1>1. /\ {"observation", "project"} \subseteq DOMAIN row
  BY DEF ItemRows
<1>2. Follows(rec, rec)
  BY DEF Follows
<1>3. row.observation # None => row.project # None
  BY DEF WellFormed
<1>4. ASSUME NEW project PROVE Follows(rec, SetProject(rec, expected, project, at).rec)
  <2> DEFINE changed == [row EXCEPT !.project = project]
  <2>1. DOMAIN changed = DOMAIN row /\ changed.observation = row.observation
    BY <1>1
  <2> HIDE DEF changed
  <2>2. ASSUME row.observation = None
        PROVE  Follows(rec, Revise(rec, changed, "project_changed", at,
                                   [project |-> project]).rec)
    <3>1. Ties(row, changed)
      BY <2>1, <2>2 DEF Ties
    <3> QED
      BY <2>1, <3>1, ReviseFollows
  <2> QED
    BY <1>2, <2>2 DEF SetProject, Refused, Unchanged, changed
<1>5. ASSUME NEW o, o # None, observations[o] # None
      PROVE  LET project == observations[o].item.project IN
             /\ Follows(rec, LinkObservation(rec, expected, o, project, at).rec)
             /\ Follows(rec, ConvertToObservation(rec, expected, o, project, at).rec)
  <2> DEFINE project == observations[o].item.project
  <2>1. ASSUME NEW changed, DOMAIN changed = DOMAIN row, changed.observation = o,
               changed.project = project, ObservationFits(row, o, project)
        PROVE  Ties(row, changed)
    BY <1>3, <1>5, <2>1 DEF Ties, ObservationFits
  <2>2. Follows(rec, LinkObservation(rec, expected, o, project, at).rec)
    <3> DEFINE changed == [row EXCEPT !.observation = o, !.project = project]
    <3>1. /\ DOMAIN changed = DOMAIN row /\ changed.observation = o
          /\ changed.project = project
      BY <1>1
    <3> HIDE DEF changed
    <3>2. ASSUME ObservationFits(row, o, project)
          PROVE  Follows(rec, Revise(rec, changed, "observation_linked", at,
                                     [observation |-> o, project |-> project]).rec)
      <4>1. Ties(row, changed)
        BY <2>1, <3>1, <3>2
      <4> QED
        BY <3>1, <4>1, ReviseFollows
    <3> QED
      BY <1>2, <3>2 DEF LinkObservation, Refused, Unchanged, changed
  <2>3. Follows(rec, ConvertToObservation(rec, expected, o, project, at).rec)
    <3> DEFINE changed == [row EXCEPT !.status = "completed", !.outcome = "converted",
                                      !.completed = at, !.cancelled = None,
                                      !.attention = None, !.observation = o,
                                      !.project = project]
    <3>1. /\ DOMAIN changed = DOMAIN row /\ changed.observation = o
          /\ changed.project = project
      BY <1>1
    <3> HIDE DEF changed
    <3>2. ASSUME ObservationFits(row, o, project)
          PROVE  Follows(rec, Revise(rec, changed, "converted", at,
                                     [observation |-> o, project |-> project,
                                      outcome |-> "converted"]).rec)
      <4>1. Ties(row, changed)
        BY <2>1, <3>1, <3>2
      <4> QED
        BY <3>1, <4>1, ReviseFollows
    <3> QED
      BY <1>2, <3>2 DEF ConvertToObservation, Refused, Unchanged, changed
  <2> QED
    BY <2>2, <2>3
<1> QED
  BY <1>4, <1>5

\* A step of an item makes its first record, which is tied to nothing, or follows
\* the one there is.
ItemMoves(i) ==
  /\ \A j \in Items \ {i} : followUps'[j] = followUps[j]
  /\ UNCHANGED <<observations, templates, occurrences>>
  /\ IF followUps[i] = None
     THEN followUps'[i].history # << >> /\ followUps'[i].item.observation = None
     ELSE followUps'[i] # None /\ Follows(followUps[i], followUps'[i])

\* Each of the eleven commands makes such a step.
LEMMA FollowUpMoves ==
  ASSUME IInv, NEW i \in Items, FollowUpStep(i)
  PROVE  ItemMoves(i)
<1> DEFINE rec == followUps[i]
<1>1. followUps[i] # None => Sound(followUps[i], now)
  BY DEF IInv, ItemsSound
<1>2. rec # None => /\ rec.item \in ItemRows /\ WellFormed(rec.item)
                    /\ rec.history \in Seq(ItemEvents)
  BY <1>1 DEF Sound, ItemRecords, ItemEvents
<1>3. \A why : Refused(rec, why).rec = rec
  BY DEF Refused
<1>4. rec # None => Follows(rec, rec)
  BY DEF Follows
<1>5. \A o \in Sightings : o # None
  BY NoneAssumption
<1>6. ASSUME NEW result, Put(i, result),
             IF rec = None THEN result.rec.history # << >>
                                /\ result.rec.item.observation = None
                           ELSE Follows(rec, result.rec)
      PROVE  ItemMoves(i)
  <2>1. /\ followUps'[i] = result.rec
        /\ \A j \in Items \ {i} : followUps'[j] = followUps[j]
    BY <1>6 DEF Put, IInv, TypeOK
  <2>2. followUps'[i] # None
    <3>1. PICK sound : Put(i, sound) /\ Sound(sound.rec, now)
      BY FollowUpSound
    <3>2. followUps'[i] = sound.rec
      BY <3>1 DEF Put, IInv, TypeOK
    <3> QED
      BY <3>1, <3>2, NoneAssumption DEF Sound
  <2> QED
    BY <1>6, <2>1, <2>2 DEF Put, ItemMoves
<1>7. CASE CaptureFollowUp(i)
  <2> DEFINE made == CreateFollowUp(now)
  <2>1. made.history # << >> /\ made.item.observation = None
    BY DEF CreateFollowUp, NewItem
  <2>2. rec = None /\ Put(i, [rec |-> made, answer |-> "saved"])
    BY <1>7 DEF CaptureFollowUp
  <2> HIDE DEF made
  <2> QED
    BY <1>6, <2>1, <2>2
<1>8. CASE \/ FollowUpDetails(i)  \/ FollowUpSchedule(i) \/ FollowUpWaiting(i)
           \/ FollowUpToInbox(i)  \/ FollowUpComplete(i) \/ FollowUpCancel(i)
           \/ FollowUpReopen(i)
  <2>1. rec # None
    BY <1>8 DEF Form, FollowUpDetails, FollowUpSchedule, FollowUpWaiting,
                FollowUpToInbox, FollowUpComplete, FollowUpCancel, FollowUpReopen
  <2>2. rec.item \in ItemRows /\ rec.history \in Seq(ItemEvents)
    BY <1>2, <2>1
  <2> HIDE DEF rec
  <2>3. PICK result : Put(i, result) /\ Follows(rec, result.rec)
    <3>1. CASE FollowUpDetails(i)
      BY <2>2, <3>1, PlansFollow DEF FollowUpDetails, rec
    <3>2. CASE FollowUpSchedule(i)
      BY <2>2, <3>2, PlansFollow DEF FollowUpSchedule, rec
    <3>3. CASE FollowUpWaiting(i)
      BY <2>2, <3>3, PlansFollow DEF FollowUpWaiting, rec
    <3>4. CASE FollowUpToInbox(i)
      BY <2>2, <3>4, PlansFollow DEF FollowUpToInbox, rec
    <3>5. CASE FollowUpComplete(i)
      BY <2>2, <3>5, PlansFollow DEF FollowUpComplete, rec
    <3>6. CASE FollowUpCancel(i)
      BY <2>2, <3>6, PlansFollow DEF FollowUpCancel, rec
    <3>7. CASE FollowUpReopen(i)
      BY <2>2, <3>7, PlansFollow DEF FollowUpReopen, rec
    <3> QED
      BY <1>8, <3>1, <3>2, <3>3, <3>4, <3>5, <3>6, <3>7
  <2> QED
    BY <1>6, <2>1, <2>3
<1>9. CASE FollowUpProject(i) \/ LinkFollowUp(i) \/ ConvertFollowUp(i)
  <2>1. rec # None
    BY <1>9 DEF Form, FollowUpProject, LinkFollowUp, ConvertFollowUp
  <2>2. rec.item \in ItemRows /\ rec.history \in Seq(ItemEvents) /\ WellFormed(rec.item)
    BY <1>2, <2>1
  <2> HIDE DEF rec
  <2>3. PICK result : Put(i, result) /\ Follows(rec, result.rec)
    <3>1. CASE FollowUpProject(i)
      <4>1. PICK e \in 1..MaxRevision, project \in Projects \cup {None} :
              Put(i, IF Known(project) THEN SetProject(rec, e, project, now)
                                       ELSE Refused(rec, "missing"))
        BY <3>1 DEF FollowUpProject, rec
      <4>2. Follows(rec, SetProject(rec, e, project, now).rec)
        BY <2>2, TiesFollow
      <4> QED
        BY <1>3, <1>4, <2>1, <4>1, <4>2
    <3>2. CASE LinkFollowUp(i)
      <4>1. PICK e \in 1..MaxRevision, o \in Sightings :
              Put(i, IF observations[o] = None THEN Refused(rec, "missing")
                     ELSE LinkObservation(rec, e, o, observations[o].item.project, now))
        BY <3>2 DEF LinkFollowUp, rec
      <4>2. observations[o] # None =>
              Follows(rec, LinkObservation(rec, e, o, observations[o].item.project,
                                           now).rec)
        BY <1>5, <2>2, TiesFollow
      <4> QED
        BY <1>3, <1>4, <2>1, <4>1, <4>2
    <3>3. CASE ConvertFollowUp(i)
      <4>1. PICK e \in 1..MaxRevision, o \in Sightings :
              Put(i, IF observations[o] = None THEN Refused(rec, "missing")
                     ELSE ConvertToObservation(rec, e, o, observations[o].item.project,
                                               now))
        BY <3>3 DEF ConvertFollowUp, rec
      <4>2. observations[o] # None =>
              Follows(rec, ConvertToObservation(rec, e, o, observations[o].item.project,
                                                now).rec)
        BY <1>5, <2>2, TiesFollow
      <4> QED
        BY <1>3, <1>4, <2>1, <4>1, <4>2
    <3> QED
      BY <1>9, <3>1, <3>2, <3>3
  <2> QED
    BY <1>6, <2>1, <2>3
<1> QED
  BY <1>7, <1>8, <1>9 DEF FollowUpStep

-----------------------------------------------------------------------------

\* An observation is not taken from its project, nor observed at another time.
Stays(row, new) == new.project = row.project /\ new.observed = row.observed

\* What an update may make of a row: an archived one it leaves alone.
RowStays(row, written) ==
  \/ written.row = row
  \/ row.archived = None /\ Stays(row, written.row)

\* What a post may make of the record of an observation.
Holds(rec, made) ==
  \/ made = rec
  \/ /\ rec.item.archived = None /\ OneMore(rec.history, made.history)
     /\ Stays(rec.item, made.item)

\* The row of each update stays.
LEMMA RowsStay ==
  ASSUME NEW row \in ObservationRows, NEW expected, NEW at
  PROVE  /\ \A status : RowStays(row, RowStatus(row, expected, status, at))
         /\ \A text : /\ RowStays(row, RowDetails(row, expected, text, at))
                      /\ RowStays(row, RowReporting(row, expected, text, at))
         /\ RowStays(row, RowArchive(row, expected, at))
<1>1. {"project", "observed"} \subseteq DOMAIN row
  BY DEF ObservationRows
<1>2. ASSUME NEW changed, DOMAIN changed = DOMAIN row, Stays(row, changed)
      PROVE  \/ WrittenRow(row, changed, at).row = row
             \/ Stays(row, WrittenRow(row, changed, at).row)
  <2> DEFINE new == [changed EXCEPT !.revision = row.revision + 1, !.updated = at]
  <2>1. Stays(row, new)
    BY <1>1, <1>2 DEF Stays
  <2> HIDE DEF new
  <2>2. WrittenRow(row, changed, at).row \in {row, new}
    BY DEF WrittenRow, RefusedRow, new
  <2> QED
    BY <2>1, <2>2
<1>3. /\ \A answer : RowStays(row, RefusedRow(row, answer))
      /\ RowStays(row, SameRow(row))
  BY DEF RowStays, RefusedRow, SameRow
<1>4. MutationTarget(row, expected) = "current" => row.archived = None
  BY DEF MutationTarget
<1>5. ASSUME NEW status PROVE RowStays(row, RowStatus(row, expected, status, at))
  <2> DEFINE changed == [row EXCEPT !.status = status,
                                    !.closed = IF status = "closed" THEN at ELSE None]
  <2>1. DOMAIN changed = DOMAIN row /\ Stays(row, changed)
    BY <1>1 DEF Stays
  <2> HIDE DEF changed
  <2> QED
    BY <1>2, <1>3, <1>4, <2>1 DEF RowStatus, RowStays, changed
<1>6. ASSUME NEW text PROVE RowStays(row, RowDetails(row, expected, text, at))
  <2> DEFINE changed == [row EXCEPT !.text = text]
  <2>1. DOMAIN changed = DOMAIN row /\ Stays(row, changed)
    BY <1>1 DEF Stays
  <2> HIDE DEF changed
  <2> QED
    BY <1>2, <1>3, <1>4, <2>1 DEF RowDetails, RowStays, changed
<1>7. ASSUME NEW text PROVE RowStays(row, RowReporting(row, expected, text, at))
  <2> DEFINE changed == [row EXCEPT !.reported = text]
  <2>1. DOMAIN changed = DOMAIN row /\ Stays(row, changed)
    BY <1>1 DEF Stays
  <2> HIDE DEF changed
  <2> QED
    BY <1>2, <1>3, <1>4, <2>1 DEF RowReporting, RowStays, changed
<1>8. RowStays(row, RowArchive(row, expected, at))
  <2> DEFINE changed == [row EXCEPT !.archived = at]
  <2>1. DOMAIN changed = DOMAIN row /\ Stays(row, changed)
    BY <1>1 DEF Stays
  <2> HIDE DEF changed
  <2> QED
    BY <1>2, <1>3, <1>4, <2>1 DEF RowArchive, RowStays, changed
<1> QED
  BY <1>5, <1>6, <1>7, <1>8

\* So does the record, with one event more when its row moved.
LEMMA RecordHolds ==
  ASSUME NEW rec, NEW S, rec.history \in Seq(S), NEW written,
         RowStays(rec.item, written), NEW type, NEW at
  PROVE  Holds(rec, Record(rec, written, type, at).rec)
<1> DEFINE e    == ObservationEvent(type, written.row.revision, at)
           made == [item |-> written.row, history |-> Append(rec.history, e)]
<1>1. \/ Record(rec, written, type, at).rec = rec
      \/ /\ written.row # rec.item
         /\ Record(rec, written, type, at).rec = made
  BY DEF Record
<1> HIDE DEF e
<1>2. made.item = written.row /\ OneMore(rec.history, made.history)
  BY LineAppended
<1> QED
  BY <1>1, <1>2 DEF Holds, RowStays

\* A transaction of a post makes the first record of an observation, or holds to
\* the one there is.
ObservationMoves(o) ==
  /\ \A x \in Sightings \ {o} : observations'[x] = observations[x]
  /\ UNCHANGED <<followUps, templates, occurrences>>
  /\ \/ observations'[o] = observations[o]
     \/ observations[o] = None /\ observations'[o].history # << >>
     \/ /\ observations[o] # None /\ observations'[o] # None
        /\ Holds(observations[o], observations'[o])

\* Every transaction of a post makes such a step.
LEMMA CommitMoves ==
  ASSUME IInv, NEW w \in Windows, CommitObservation(w)
  PROVE  \E o \in Sightings : ObservationMoves(o)
<1> DEFINE post == requests[w]
           o    == post.target
           rec  == observations[o]
           next == ObservationResult(post).rec
<1>1. /\ post # None /\ post.call # "today"
      /\ observations' = [observations EXCEPT ![o] = next]
      /\ UNCHANGED <<followUps, templates, occurrences>>
  BY DEF CommitObservation
<1>2. o \in Sightings
  BY <1>1, ResultMoves
<1>3. observations'[o] = next /\ \A x \in Sightings \ {o} : observations'[x] = observations[x]
  BY <1>1, <1>2 DEF IInv, TypeOK
<1>4. CASE post.call = "new"
  <2>1. rec = None
    BY <1>1, <1>4 DEF IInv, PostsInTime
  <2>2. \/ next = rec
        \/ next = CreateObservation(post.value, post.at, post.at)
    BY <1>4 DEF ObservationResult, Refused
  <2>3. CreateObservation(post.value, post.at, post.at).history # << >>
    BY DEF CreateObservation
  <2>4. next = rec \/ (rec = None /\ next.history # << >>)
    <3> HIDE DEF rec, next
    <3> QED
      BY <2>1, <2>2, <2>3
  <2> HIDE DEF post, o, next
  <2> QED
    BY <1>1, <1>2, <1>3, <2>4 DEF ObservationMoves
<1>5. CASE post.call # "new"
  <2>1. rec # None /\ rec.item \in ObservationRows /\ rec.history \in Seq(ObservationEvents)
    BY <1>1, <1>2, <1>5 DEF IInv, PostsInTime, ObservationsDated, Dated,
                            ObservationRecords
  <2>2. Holds(rec, next)
    <3>1. next \in {UpdateObservationStatus(rec, post.expected, post.value, post.at).rec,
                    UpdateObservationDetails(rec, post.expected, post.value, post.at).rec,
                    UpdateReporting(rec, post.expected, post.value, post.at).rec,
                    ArchiveObservation(rec, post.expected, post.at).rec}
      BY <1>5 DEF ObservationResult
    <3> HIDE DEF post, o, rec, next
    <3>2. /\ RowStays(rec.item, RowStatus(rec.item, post.expected, post.value, post.at))
          /\ RowStays(rec.item, RowDetails(rec.item, post.expected, post.value, post.at))
          /\ RowStays(rec.item, RowReporting(rec.item, post.expected, post.value, post.at))
          /\ RowStays(rec.item, RowArchive(rec.item, post.expected, post.at))
      BY <2>1, RowsStay
    <3> QED
      BY <2>1, <3>1, <3>2, RecordHolds
         DEF UpdateObservationStatus, UpdateObservationDetails, UpdateReporting,
             ArchiveObservation
  <2>3. next = rec \/ Dated(next, now)
    BY <1>1, ResultMoves
  <2>4. next # None
    BY <2>1, <2>3, NoneAssumption DEF Dated
  <2> HIDE DEF post, o, next
  <2> QED
    BY <1>1, <1>2, <1>3, <2>1, <2>2, <2>4 DEF ObservationMoves
<1> QED
  BY <1>4, <1>5

-----------------------------------------------------------------------------

\* What a command may make of the record of a template: an inactive one it leaves
\* alone.
Renews(rec, made) ==
  \/ made = rec
  \/ rec.item.status # "inactive" /\ OneMore(rec.history, made.history)

\* What a command may make of the record of an occurrence: its day stands.
Remains(rec, made) ==
  \/ made = rec
  \/ /\ OneMore(rec.history, made.history)
     /\ made.item.scheduled = rec.item.scheduled

\* A change of a template or of an occurrence is one line more, or is refused.
LEMMA TemplateLine ==
  ASSUME NEW rec, NEW S, rec.history \in Seq(S), NEW changed, NEW type, NEW at, NEW told
  PROVE  LET made == ReviseTemplate(rec, changed, type, at, told).rec IN
         made = rec \/ OneMore(rec.history, made.history)
<1> DEFINE next   == [changed EXCEPT !.revision = rec.item.revision + 1, !.updated = at]
           stored == RepositoryUpdate(rec.item, next)
           e      == Event(rec.history, type, stored.revision, at, told)
           made   == [item |-> stored, history |-> Append(rec.history, e)]
<1>1. ReviseTemplate(rec, changed, type, at, told).rec \in {rec, made}
  BY DEF ReviseTemplate, Refused
<1> HIDE DEF stored, e
<1>2. OneMore(rec.history, made.history)
  BY LineAppended
<1> QED
  BY <1>1, <1>2

\* So it is of an occurrence, whose day it does not change.
LEMMA OccurrenceLine ==
  ASSUME NEW rec, rec.item \in OccurrenceRows, NEW S, rec.history \in Seq(S),
         NEW changed, DOMAIN changed = DOMAIN rec.item,
         changed.scheduled = rec.item.scheduled, NEW type, NEW at, NEW told
  PROVE  Remains(rec, ReviseOccurrence(rec, changed, type, at, told).rec)
<1> DEFINE next   == [changed EXCEPT !.revision = rec.item.revision + 1]
           same   == [next EXCEPT !.revision = rec.item.revision]
           stored == RepositoryUpdate(rec.item, next)
           e      == Event(rec.history, type, stored.revision, at, told)
           made   == [item |-> stored, history |-> Append(rec.history, e)]
<1>1. "scheduled" \in DOMAIN changed /\ DOMAIN next = DOMAIN changed
  BY DEF OccurrenceRows
<1>2. next.scheduled = rec.item.scheduled
  BY <1>1
<1>3. stored = next \/ stored = rec.item
  BY DEF RepositoryUpdate
<1>4. stored.scheduled = rec.item.scheduled
  BY <1>2, <1>3
<1>5. ReviseOccurrence(rec, changed, type, at, told).rec \in {rec, made}
  BY DEF ReviseOccurrence, Refused
<1> HIDE DEF next, same, stored, e
<1>6. made.item = stored /\ OneMore(rec.history, made.history)
  BY LineAppended
<1> QED
  BY <1>4, <1>5, <1>6 DEF Remains

\* The commands of a template, and those of an occurrence.
LEMMA TemplatesRenew ==
  ASSUME NEW rec, NEW S, rec.history \in Seq(S), NEW expected, NEW plan, NEW at
  PROVE  /\ Renews(rec, UpdateTemplate(rec, expected, plan, at).rec)
         /\ Renews(rec, DeactivateTemplate(rec, expected, at).rec)
<1>1. Renews(rec, UpdateTemplate(rec, expected, plan, at).rec)
  <2> DEFINE changed == [rec.item EXCEPT !.plan = plan]
             made    == ReviseTemplate(rec, changed, "updated", at, << >>).rec
  <2>1. made = rec \/ OneMore(rec.history, made.history)
    BY TemplateLine
  <2>2. /\ UpdateTemplate(rec, expected, plan, at).rec \in {rec, made}
        /\ rec.item.status # "active" => UpdateTemplate(rec, expected, plan, at).rec = rec
    BY DEF UpdateTemplate, Refused, Unchanged
  <2> HIDE DEF made
  <2> QED
    BY <2>1, <2>2 DEF Renews
<1>2. Renews(rec, DeactivateTemplate(rec, expected, at).rec)
  <2> DEFINE changed == [rec.item EXCEPT !.status = "inactive", !.deactivated = at]
             made    == ReviseTemplate(rec, changed, "deactivated", at,
                                       [status |-> "inactive"]).rec
  <2>1. made = rec \/ OneMore(rec.history, made.history)
    BY TemplateLine
  <2>2. /\ DeactivateTemplate(rec, expected, at).rec \in {rec, made}
        /\ rec.item.status = "inactive" => DeactivateTemplate(rec, expected, at).rec = rec
    BY DEF DeactivateTemplate, Refused, Unchanged
  <2> HIDE DEF made
  <2> QED
    BY <2>1, <2>2 DEF Renews
<1> QED
  BY <1>1, <1>2

\* Those of an occurrence.
LEMMA OccurrencesRemain ==
  ASSUME NEW rec, rec.item \in OccurrenceRows, NEW S, rec.history \in Seq(S),
         NEW expected, NEW attention, NEW outcome, NEW at
  PROVE  /\ Remains(rec, SnoozeOccurrence(rec, expected, attention, at).rec)
         /\ Remains(rec, CloseOccurrence(rec, expected, outcome, at).rec)
         /\ Remains(rec, ReopenOccurrence(rec, expected, attention, at).rec)
<1>1. "scheduled" \in DOMAIN rec.item
  BY DEF OccurrenceRows
<1>2. Remains(rec, rec)
  BY DEF Remains
<1>3. Remains(rec, SnoozeOccurrence(rec, expected, attention, at).rec)
  <2> DEFINE changed == [rec.item EXCEPT !.attention = attention]
  <2>1. DOMAIN changed = DOMAIN rec.item /\ changed.scheduled = rec.item.scheduled
    BY <1>1
  <2> HIDE DEF changed
  <2>2. Remains(rec, ReviseOccurrence(rec, changed, "snoozed", at,
                                      [attention |-> attention]).rec)
    BY <2>1, OccurrenceLine
  <2> QED
    BY <1>2, <2>2 DEF SnoozeOccurrence, Refused, Unchanged, changed
<1>4. Remains(rec, CloseOccurrence(rec, expected, outcome, at).rec)
  <2> DEFINE changed == [rec.item EXCEPT !.status = "closed", !.outcome = outcome,
                                         !.completed = at]
  <2>1. DOMAIN changed = DOMAIN rec.item /\ changed.scheduled = rec.item.scheduled
    BY <1>1
  <2> HIDE DEF changed
  <2>2. Remains(rec, ReviseOccurrence(rec, changed, outcome, at,
                                      [outcome |-> outcome]).rec)
    BY <2>1, OccurrenceLine
  <2> QED
    BY <1>2, <2>2 DEF CloseOccurrence, Refused, changed
<1>5. Remains(rec, ReopenOccurrence(rec, expected, attention, at).rec)
  <2> DEFINE changed == [rec.item EXCEPT !.status = "open", !.outcome = None,
                                         !.completed = None, !.attention = attention]
  <2>1. DOMAIN changed = DOMAIN rec.item /\ changed.scheduled = rec.item.scheduled
    BY <1>1
  <2> HIDE DEF changed
  <2>2. Remains(rec, ReviseOccurrence(rec, changed, "reopened", at,
                       [status |-> "open", attention |-> attention]).rec)
    BY <2>1, OccurrenceLine
  <2> QED
    BY <1>2, <2>2 DEF ReopenOccurrence, Refused, changed
<1> QED
  BY <1>3, <1>4, <1>5

\* A step of a template, and one of an occurrence.
TemplateMoves(t) ==
  /\ \A u \in Templates \ {t} : templates'[u] = templates[u]
  /\ UNCHANGED <<followUps, observations, occurrences>>
  /\ \/ templates'[t] = templates[t]
     \/ templates[t] = None /\ templates'[t].history # << >>
     \/ /\ templates[t] # None /\ templates'[t] # None
        /\ Renews(templates[t], templates'[t])

\* Each command of a template makes such a step.
LEMMA RoutineMoves ==
  ASSUME IInv, NEW t \in Templates,
         RoutineNew(t) \/ RoutineUpdate(t) \/ RoutineDeactivate(t)
  PROVE  TemplateMoves(t)
<1> DEFINE rec == templates[t]
<1>1. rec # None => rec.history \in Seq(TemplateEvents)
  BY DEF IInv, TemplatesKept, Kept, TemplateRecords, TemplateEvents
<1>2. ASSUME NEW result, PutTemplate(t, result),
             \/ result.rec = rec
             \/ rec = None /\ result.rec.history # << >>
             \/ rec # None /\ Renews(rec, result.rec)
      PROVE  TemplateMoves(t)
  <2>1. /\ templates'[t] = result.rec
        /\ \A u \in Templates \ {t} : templates'[u] = templates[u]
    BY <1>2 DEF PutTemplate, IInv, TypeOK
  <2>2. rec # None => templates'[t] # None
    <3>1. PICK stays :
            /\ PutTemplate(t, stays)
            /\ \/ rec = None /\ stays.rec = None
               \/ Kept(stays.rec, now)
      BY TemplateStays
    <3>2. templates'[t] = stays.rec
      BY <3>1 DEF PutTemplate, IInv, TypeOK
    <3> QED
      BY <3>1, <3>2, NoneAssumption DEF Kept
  <2> QED
    BY <1>2, <2>1, <2>2 DEF PutTemplate, TemplateMoves
<1>3. CASE RoutineNew(t)
  <2>1. PICK plan \in Plans :
          /\ rec = None
          /\ PutTemplate(t, IF Known(plan.project) /\ WellFormedPlan(plan)
                           THEN [rec |-> CreateTemplate(plan, now), answer |-> "saved"]
                           ELSE Refused(None, "invalid"))
    BY <1>3 DEF RoutineNew
  <2>2. CreateTemplate(plan, now).history # << >>
    BY DEF CreateTemplate
  <2> QED
    BY <1>2, <2>1, <2>2 DEF Refused
<1>4. CASE RoutineUpdate(t)
  <2>1. PICK e \in 1..MaxRevision, plan \in Plans :
          /\ rec # None
          /\ PutTemplate(t, IF Known(plan.project)
                               THEN UpdateTemplate(rec, e, plan, now)
                               ELSE Refused(rec, "missing"))
    BY <1>4 DEF RoutineUpdate, TemplateForm
  <2>2. Renews(rec, UpdateTemplate(rec, e, plan, now).rec)
    <3> HIDE DEF rec
    <3> QED
      BY <1>1, <2>1, TemplatesRenew
  <2> QED
    BY <1>2, <2>1, <2>2 DEF Refused
<1>5. CASE RoutineDeactivate(t)
  <2>1. PICK e \in 1..MaxRevision :
          rec # None /\ PutTemplate(t, DeactivateTemplate(rec, e, now))
    BY <1>5 DEF RoutineDeactivate, TemplateForm
  <2>2. Renews(rec, DeactivateTemplate(rec, e, now).rec)
    <3> HIDE DEF rec
    <3> QED
      BY <1>1, <2>1, TemplatesRenew
  <2> QED
    BY <1>2, <2>1, <2>2
<1> QED
  BY <1>3, <1>4, <1>5

\* A step of an occurrence leaves the others alone.
OccurrenceMoves(t, d) ==
  /\ \A u \in Templates, x \in Days :
       u # t \/ x # d => occurrences'[u][x] = occurrences[u][x]
  /\ UNCHANGED <<followUps, observations, templates>>
  /\ occurrences[t][d] # None /\ occurrences'[t][d] # None
  /\ Remains(occurrences[t][d], occurrences'[t][d])

\* Each command of an occurrence makes such a step.
LEMMA EntryMoves ==
  ASSUME IInv, NEW t \in Templates, NEW d \in Days,
         OccurrenceSnooze(t, d) \/ OccurrenceClose(t, d) \/ OccurrenceReopen(t, d)
  PROVE  OccurrenceMoves(t, d)
<1> DEFINE rec == occurrences[t][d]
<1>1. rec # None
  BY DEF OccurrenceSnooze, OccurrenceClose, OccurrenceReopen, OccurrenceForm
<1>2. rec.item \in OccurrenceRows /\ rec.history \in Seq(OccurrenceEvents)
  BY <1>1 DEF IInv, EntriesInTime, Entry, OccurrenceRecords, OccurrenceEvents,
              OccurrenceTypes
<1>3. \A expected, attention, outcome :
        /\ Remains(rec, SnoozeOccurrence(rec, expected, attention, now).rec)
        /\ Remains(rec, CloseOccurrence(rec, expected, outcome, now).rec)
        /\ Remains(rec, ReopenOccurrence(rec, expected, attention, now).rec)
  <2> HIDE DEF rec
  <2> QED
    BY <1>2, OccurrencesRemain
<1>4. PICK result : PutOccurrence(t, d, result) /\ Remains(rec, result.rec)
  BY <1>3 DEF OccurrenceSnooze, OccurrenceClose, OccurrenceReopen
<1>5. ASSUME NEW put, PutOccurrence(t, d, put)
      PROVE  /\ occurrences'[t][d] = put.rec
             /\ \A u \in Templates, x \in Days :
                  u # t \/ x # d => occurrences'[u][x] = occurrences[u][x]
  <2>1. occurrences' = [occurrences EXCEPT ![t] = [occurrences[t] EXCEPT ![d] = put.rec]]
    BY <1>5 DEF PutOccurrence
  <2>2. DOMAIN occurrences = Templates /\ DOMAIN occurrences[t] = Days
    BY DEF IInv, TypeOK
  <2> DEFINE row == [occurrences[t] EXCEPT ![d] = put.rec]
  <2>3. row[d] = put.rec /\ \A x \in Days : x # d => row[x] = occurrences[t][x]
    BY <2>2
  <2> HIDE DEF row
  <2>4. occurrences'[t] = row /\ \A u \in Templates : u # t => occurrences'[u] = occurrences[u]
    BY <2>1, <2>2 DEF row
  <2> QED
    BY <2>3, <2>4
<1>6. occurrences'[t][d] # None
  BY <1>5, OccurrenceStays, NoneAssumption DEF Entry
<1> QED
  BY <1>1, <1>4, <1>5, <1>6 DEF OccurrenceMoves, PutOccurrence

\* The page of the day makes entries where there were none.
EntriesAppear ==
  /\ \A t \in Templates, d \in Days :
       \/ occurrences'[t][d] = occurrences[t][d]
       \/ occurrences[t][d] = None /\ occurrences'[t][d].history # << >>
  /\ UNCHANGED <<followUps, observations, templates>>

\* An entry is made with a history.
LEMMA EntryBegins ==
  ASSUME NEW template, NEW day, NEW today, NEW at
  PROVE  NewOccurrence(template, day, today, at).history # << >>
<1> DEFINE made == [item |-> [status |-> "open", attention |-> ScheduledAt(template, day),
                              scheduled |-> ScheduledAt(template, day), outcome |-> None,
                              completed |-> None, revision |-> 1],
                    history |-> <<Event(<<>>, "created", 1, at, [status |-> "open"])>>]
<1>1. made.history \in Seq({made.history[1]}) /\ made.history # << >>
  OBVIOUS
<1> HIDE DEF made
<1>2. \A changed, type, told :
        LET later == ReviseOccurrence(made, changed, type, at, told).rec IN
        later = made \/ OneMore(made.history, later.history)
  <2> SUFFICES ASSUME NEW changed, NEW type, NEW told
               PROVE  LET later == ReviseOccurrence(made, changed, type, at, told).rec IN
                      later = made \/ OneMore(made.history, later.history)
    OBVIOUS
  <2> DEFINE stored == RepositoryUpdate(made.item,
                         [changed EXCEPT !.revision = made.item.revision + 1])
             e      == Event(made.history, type, stored.revision, at, told)
             more   == [item |-> stored, history |-> Append(made.history, e)]
  <2>1. ReviseOccurrence(made, changed, type, at, told).rec \in {made, more}
    BY DEF ReviseOccurrence, Refused
  <2> HIDE DEF stored, e
  <2>2. OneMore(made.history, more.history)
    BY <1>1, LineAppended
  <2> QED
    BY <2>1, <2>2
<1>3. PICK changed, type, told :
        NewOccurrence(template, day, today, at)
          \in {made, ReviseOccurrence(made, changed, type, at, told).rec}
  BY DEF NewOccurrence, made
<1>4. Len(made.history) \in Nat
  BY <1>1
<1>5. \A h : OneMore(made.history, h) => h # << >>
  BY <1>4 DEF OneMore
<1> QED
  BY <1>1, <1>2, <1>3, <1>5

\* That is all the page of the day does to the records.
LEMMA DrawMoves ==
  ASSUME IInv, NEW w \in Windows, DrawToday(w)
  PROVE  EntriesAppear
<1>1. PICK today, at :
        /\ occurrences' = [t \in Templates |->
              IF t \in {u \in Templates : templates[u] # None}
              THEN EnsureOccurrences(templates[t].item, occurrences[t], today, at)
              ELSE occurrences[t]]
        /\ UNCHANGED <<followUps, observations, templates>>
  BY DEF DrawToday
<1>2. ASSUME NEW t \in Templates, NEW d \in Days
      PROVE  \/ occurrences'[t][d] = occurrences[t][d]
             \/ occurrences[t][d] = None /\ occurrences'[t][d].history # << >>
  <2> DEFINE made == NewOccurrence(templates[t].item, d, today, at)
  <2>1. made.history # << >>
    BY EntryBegins
  <2>2. DOMAIN occurrences[t] = Days
    BY DEF IInv, TypeOK
  <2>3. occurrences'[t] \in {occurrences[t],
          EnsureOccurrences(templates[t].item, occurrences[t], today, at)}
    BY <1>1
  <2>4. \/ occurrences'[t][d] = occurrences[t][d]
        \/ occurrences[t][d] = None /\ occurrences'[t][d] = made
    BY <2>2, <2>3 DEF EnsureOccurrences, AddIfAbsent
  <2> HIDE DEF made
  <2> QED
    BY <2>1, <2>4
<1> QED
  BY <1>1, <1>2 DEF EntriesAppear

-----------------------------------------------------------------------------
(* The steps of the whole, and what holds of every record.                 *)

\* A step moves one record of one kind, or makes entries, or touches none.
Moved ==
  \/ UNCHANGED <<followUps, observations, templates, occurrences>>
  \/ \E i \in Items : ItemMoves(i)
  \/ \E o \in Sightings : ObservationMoves(o)
  \/ \E t \in Templates : TemplateMoves(t)
  \/ \E t \in Templates, d \in Days : OccurrenceMoves(t, d)
  \/ EntriesAppear

\* Every step is one of these.
LEMMA StepMoves == IInv /\ [Next]_vars => Moved
<1> SUFFICES ASSUME IInv, [Next]_vars PROVE Moved
  OBVIOUS
<1>1. CASE Tick
  BY <1>1 DEF Tick, Moved
<1>2. ASSUME NEW p \in Projects, CreateProject(p) PROVE Moved
  BY <1>2 DEF CreateProject, Moved
<1>3. ASSUME NEW i \in Items, FollowUpStep(i) PROVE Moved
  BY <1>3, FollowUpMoves DEF Moved
<1>4. ASSUME NEW w \in Windows, NEW o \in Sightings, PostNewObservation(w, o)
      PROVE  Moved
  BY <1>4 DEF PostNewObservation, Moved
<1>5. ASSUME NEW w \in Windows, NEW o \in Sightings,
             PostEdit(w, o) \/ PostStatus(w, o) \/ PostReporting(w, o) \/ CallArchive(w, o)
      PROVE  Moved
  BY <1>5 DEF PostEdit, PostStatus, PostReporting, CallArchive, Post, Moved
<1>6. ASSUME NEW t \in Templates, RoutineStep(t) PROVE Moved
  <2>1. CASE RoutineNew(t) \/ RoutineUpdate(t) \/ RoutineDeactivate(t)
    BY <2>1, RoutineMoves DEF Moved
  <2>2. ASSUME NEW d \in Days,
               OccurrenceSnooze(t, d) \/ OccurrenceClose(t, d) \/ OccurrenceReopen(t, d)
        PROVE  Moved
    BY <2>2, EntryMoves DEF Moved
  <2> QED
    BY <1>6, <2>1, <2>2 DEF RoutineStep
<1>7. ASSUME NEW w \in Windows, OpenToday(w) PROVE Moved
  BY <1>7 DEF OpenToday, Moved
<1>8. ASSUME NEW w \in Windows, CommitObservation(w) \/ DrawToday(w) \/ RequestFails(w)
      PROVE  Moved
  BY <1>8, CommitMoves, DrawMoves DEF RequestFails, Moved
<1>9. CASE UNCHANGED vars
  BY <1>9 DEF vars, Moved
<1> QED
  BY <1>1, <1>2, <1>3, <1>4, <1>5, <1>6, <1>7, <1>8, <1>9 DEF Next

\* Every record there is has begun its history.
Begun ==
  /\ \A i \in Items : followUps[i] # None => followUps[i].history # << >>
  /\ \A o \in Sightings : observations[o] # None => observations[o].history # << >>
  /\ \A t \in Templates : templates[t] # None => templates[t].history # << >>
  /\ \A t \in Templates, d \in Days :
       occurrences[t][d] # None => occurrences[t][d].history # << >>

\* The histories of the records there are are sequences.
LEMMA Histories ==
  ASSUME IInv
  PROVE  /\ \A i \in Items : followUps[i] # None => Len(followUps[i].history) \in Nat
         /\ \A o \in Sightings :
              observations[o] # None => Len(observations[o].history) \in Nat
         /\ \A t \in Templates : templates[t] # None => Len(templates[t].history) \in Nat
         /\ \A t \in Templates, d \in Days :
              occurrences[t][d] # None => Len(occurrences[t][d].history) \in Nat
<1>1. \A i \in Items : followUps[i] # None => Len(followUps[i].history) \in Nat
  BY DEF IInv, ItemsSound, Sound, ItemRecords
<1>2. \A o \in Sightings : observations[o] # None => Len(observations[o].history) \in Nat
  BY DEF IInv, ObservationsDated, Dated, ObservationRecords
<1>3. \A t \in Templates : templates[t] # None => Len(templates[t].history) \in Nat
  BY DEF IInv, TemplatesKept, Kept, TemplateRecords
<1>4. \A t \in Templates, d \in Days :
        occurrences[t][d] # None => Len(occurrences[t][d].history) \in Nat
  BY DEF IInv, EntriesInTime, Entry, OccurrenceRecords
<1> QED
  BY <1>1, <1>2, <1>3, <1>4

\* One line more is not none.
LEMMA MoreIsSome ==
  ASSUME NEW h, NEW g, Len(h) \in Nat, OneMore(h, g)
  PROVE  g # << >>
  BY DEF OneMore

\* No step empties a history.
LEMMA BegunKeeps == IInv /\ Begun /\ Moved => Begun'
<1> SUFFICES ASSUME IInv, Begun, Moved PROVE Begun'
  OBVIOUS
<1>1. CASE UNCHANGED <<followUps, observations, templates, occurrences>>
  BY <1>1 DEF Begun
<1>2. ASSUME NEW i \in Items, ItemMoves(i) PROVE Begun'
  <2>1. followUps'[i] # None => followUps'[i].history # << >>
    BY <1>2, Histories, MoreIsSome DEF ItemMoves, Follows, Begun
  <2> QED
    BY <1>2, <2>1 DEF ItemMoves, Begun
<1>3. ASSUME NEW o \in Sightings, ObservationMoves(o) PROVE Begun'
  <2>1. observations'[o] # None => observations'[o].history # << >>
    BY <1>3, Histories, MoreIsSome DEF ObservationMoves, Holds, Begun
  <2> QED
    BY <1>3, <2>1 DEF ObservationMoves, Begun
<1>4. ASSUME NEW t \in Templates, TemplateMoves(t) PROVE Begun'
  <2>1. templates'[t] # None => templates'[t].history # << >>
    BY <1>4, Histories, MoreIsSome DEF TemplateMoves, Renews, Begun
  <2> QED
    BY <1>4, <2>1 DEF TemplateMoves, Begun
<1>5. ASSUME NEW t \in Templates, NEW d \in Days, OccurrenceMoves(t, d) PROVE Begun'
  <2>1. occurrences'[t][d] # None => occurrences'[t][d].history # << >>
    BY <1>5, Histories, MoreIsSome DEF OccurrenceMoves, Remains, Begun
  <2> QED
    BY <1>5, <2>1 DEF OccurrenceMoves, Begun
<1>6. CASE EntriesAppear
  BY <1>6 DEF EntriesAppear, Begun
<1> QED
  BY <1>1, <1>2, <1>3, <1>4, <1>5, <1>6 DEF Moved

\* No step parts an item from the project of its observation.
LEMMA TiesKeep == IInv /\ IInv' /\ TiesAgree /\ Moved => TiesAgree'
<1> SUFFICES ASSUME IInv, IInv', TiesAgree, Moved PROVE TiesAgree'
  OBVIOUS
<1>1. CASE UNCHANGED <<followUps, observations>>
  BY <1>1 DEF TiesAgree
<1>2. ASSUME NEW i \in Items, ItemMoves(i) PROVE TiesAgree'
  <2> SUFFICES ASSUME NEW j \in Items, followUps'[j] # None,
                      followUps'[j].item.observation # None
               PROVE  LET item == followUps'[j].item IN
                      /\ observations'[item.observation] # None
                      /\ item.project = observations'[item.observation].item.project
    BY DEF TiesAgree
  <2>1. CASE j # i
    BY <1>2, <2>1 DEF ItemMoves, TiesAgree
  <2>2. CASE j = i
    <3>1. followUps[i] # None /\ Follows(followUps[i], followUps'[i])
      BY <1>2, <2>2 DEF ItemMoves
    <3>2. followUps[i].item.observation # None =>
            LET item == followUps[i].item IN
            /\ observations[item.observation] # None
            /\ item.project = observations[item.observation].item.project
      BY <3>1 DEF TiesAgree
    <3>3. observations' = observations
      BY <1>2 DEF ItemMoves
    <3>4. CASE followUps'[i] = followUps[i]
      BY <2>2, <3>2, <3>3, <3>4
    <3>5. CASE Ties(followUps[i].item, followUps'[i].item)
      BY <2>2, <3>2, <3>3, <3>5 DEF Ties
    <3> QED
      BY <3>1, <3>4, <3>5 DEF Follows
  <2> QED
    BY <2>1, <2>2
<1>3. ASSUME NEW o \in Sightings, ObservationMoves(o) PROVE TiesAgree'
  <2> SUFFICES ASSUME NEW j \in Items, followUps'[j] # None,
                      followUps'[j].item.observation # None
               PROVE  LET item == followUps'[j].item IN
                      /\ observations'[item.observation] # None
                      /\ item.project = observations'[item.observation].item.project
    BY DEF TiesAgree
  <2> DEFINE item == followUps[j].item
             x    == item.observation
  <2>1. followUps'[j] = followUps[j]
    BY <1>3 DEF ObservationMoves
  <2>2. /\ observations[x] # None /\ item.project = observations[x].item.project
    BY <2>1 DEF TiesAgree
  <2>3. x \in Sightings
    BY <2>1 DEF IInv, ItemsSound, Sound, ItemRecords, ItemRows, Maybe
  <2>4. observations'[x] # None /\ observations'[x].item.project = observations[x].item.project
    <3>1. CASE x # o
      BY <1>3, <2>2, <2>3, <3>1 DEF ObservationMoves
    <3>2. CASE x = o
      <4> HIDE DEF x
      <4>1. CASE observations'[o] = observations[o]
        BY <2>2, <3>2, <4>1
      <4>2. CASE Holds(observations[o], observations'[o]) /\ observations'[o] # observations[o]
        <5>1. observations'[o].item.project = observations[o].item.project
          BY <4>2 DEF Holds, Stays
        <5>2. observations'[o] # None
          BY <1>3, <2>2, <3>2, <4>2 DEF ObservationMoves
        <5> QED
          BY <3>2, <5>1, <5>2
      <4> QED
        BY <1>3, <2>2, <3>2, <4>1, <4>2 DEF ObservationMoves
    <3> QED
      BY <3>1, <3>2
  <2> QED
    BY <2>1, <2>2, <2>4
<1>4. CASE \/ \E t \in Templates : TemplateMoves(t)
           \/ \E t \in Templates, d \in Days : OccurrenceMoves(t, d)
           \/ EntriesAppear
  BY <1>1, <1>4 DEF TemplateMoves, OccurrenceMoves, EntriesAppear
<1> QED
  BY <1>1, <1>2, <1>3, <1>4 DEF Moved

-----------------------------------------------------------------------------
(* The refinement: each kind of records as RevisedRecords has it.          *)

\* A step of the items is a step of what stands of them.
LEMMA ItemsRevised ==
  ASSUME Begun, Moved
  PROVE  [KeptItems!Next]_StandingItems
<1> DEFINE f == StandingItems
           g == [i \in Items |-> StandingItem(followUps'[i])]
<1>1. StandingItems' = g
  BY DEF StandingItems, StandingItem, Standing, TieOf, Absent
<1>2. DOMAIN f = Items /\ DOMAIN g = Items
  BY DEF StandingItems
<1>3. ASSUME followUps' = followUps PROVE g = f
  BY <1>3 DEF StandingItems
<1>4. ASSUME NEW i \in Items, ItemMoves(i) PROVE KeptItems!Next \/ g = f
  <2>1. \A j \in Items \ {i} : g[j] = f[j]
    BY <1>4 DEF ItemMoves, StandingItems
  <2>2. g[i] = StandingItem(followUps'[i]) /\ f[i] = StandingItem(followUps[i])
    BY DEF StandingItems
  <2>3. CASE followUps'[i] = followUps[i]
    <3>1. \A j \in Items : g[j] = f[j]
      BY <2>1, <2>2, <2>3
    <3> HIDE DEF g
    <3>2. g = f
      BY <3>1 DEF StandingItems, g
    <3> QED
      BY <3>2 DEF g
  <2>4. CASE followUps[i] = None /\ followUps'[i] # None
    <3>1. g[i].log # << >> /\ f[i].log = << >>
      BY <1>4, <2>2, <2>4 DEF ItemMoves, StandingItem, Standing, Absent
    <3> HIDE DEF f, g
    <3>2. KeptItems!Make
      BY <1>1, <1>2, <2>1, <3>1 DEF KeptItems!Make, KeptItems!Created, f
    <3> QED
      BY <3>2 DEF KeptItems!Next
  <2>5. CASE followUps[i] # None /\ followUps'[i] # followUps[i]
    <3> DEFINE a == followUps[i]
               b == followUps'[i]
    <3>1. /\ b # None /\ OneMore(a.history, b.history) /\ a.history # << >>
          /\ a.item.observation # None =>
               /\ b.item.observation = a.item.observation
               /\ b.item.project = a.item.project
      BY <1>4, <2>5 DEF ItemMoves, Follows, Ties, Begun
    <3> HIDE DEF a, b
    <3>2. /\ StandingItem(a).log = a.history /\ StandingItem(b).log = b.history
          /\ ~StandingItem(a).sealed
          /\ StandingItem(a).tie # None => StandingItem(b).tie = StandingItem(a).tie
      BY <2>5, <3>1 DEF StandingItem, Standing, TieOf, a
    <3>3. KeptItems!Revised(StandingItem(a), StandingItem(b))
      BY <3>1, <3>2 DEF KeptItems!Revised, KeptItems!OneLineMore, OneMore
    <3>4. KeptItems!Revised(f[i], g[i])
      BY <2>2, <3>3 DEF a, b
    <3> HIDE DEF f, g
    <3>5. KeptItems!Revise(i)
      BY <1>1, <1>2, <2>1, <3>4 DEF KeptItems!Revise, f
    <3> QED
      BY <1>2, <3>5 DEF KeptItems!Next, f
  <2> QED
    BY <2>3, <2>4, <2>5
<1> QED
  BY <1>1, <1>3, <1>4 DEF Moved, ObservationMoves, TemplateMoves, OccurrenceMoves,
                          EntriesAppear

\* A step of the observations: an archived one is sealed, and its project and
\* its time are its tie.
LEMMA ObservationsRevised ==
  ASSUME Begun, Moved
  PROVE  [KeptObservations!Next]_StandingObservations
<1> DEFINE f == StandingObservations
           g == [o \in Sightings |-> StandingObservation(observations'[o])]
<1>1. StandingObservations' = g
  BY DEF StandingObservations, StandingObservation, Standing, Absent
<1>2. DOMAIN f = Sightings /\ DOMAIN g = Sightings
  BY DEF StandingObservations
<1>3. ASSUME observations' = observations PROVE g = f
  BY <1>3 DEF StandingObservations
<1>4. ASSUME NEW o \in Sightings, ObservationMoves(o) PROVE KeptObservations!Next \/ g = f
  <2>1. \A x \in Sightings \ {o} : g[x] = f[x]
    BY <1>4 DEF ObservationMoves, StandingObservations
  <2>2. g[o] = StandingObservation(observations'[o]) /\ f[o] = StandingObservation(observations[o])
    BY DEF StandingObservations
  <2>3. CASE observations'[o] = observations[o]
    <3>1. \A x \in Sightings : g[x] = f[x]
      BY <2>1, <2>2, <2>3
    <3> HIDE DEF g
    <3>2. g = f
      BY <3>1 DEF StandingObservations, g
    <3> QED
      BY <3>2 DEF g
  <2>4. CASE observations[o] = None /\ observations'[o] # None
    <3>1. g[o].log # << >> /\ f[o].log = << >>
      BY <1>4, <2>2, <2>4 DEF ObservationMoves, StandingObservation, Standing, Absent
    <3> HIDE DEF f, g
    <3>2. KeptObservations!Make
      BY <1>1, <1>2, <2>1, <3>1 DEF KeptObservations!Make, KeptObservations!Created, f
    <3> QED
      BY <3>2 DEF KeptObservations!Next
  <2>5. CASE observations[o] # None /\ observations'[o] # observations[o]
    <3> DEFINE a == observations[o]
               b == observations'[o]
    <3>1. /\ b # None /\ OneMore(a.history, b.history) /\ a.history # << >>
          /\ a.item.archived = None /\ Stays(a.item, b.item)
      BY <1>4, <2>5 DEF ObservationMoves, Holds, Begun
    <3> HIDE DEF a, b
    <3>2. /\ StandingObservation(a).log = a.history /\ StandingObservation(b).log = b.history
          /\ ~StandingObservation(a).sealed
          /\ StandingObservation(a).tie # None => StandingObservation(b).tie = StandingObservation(a).tie
      BY <2>5, <3>1 DEF StandingObservation, Standing, Stays, a
    <3>3. KeptObservations!Revised(StandingObservation(a), StandingObservation(b))
      BY <3>1, <3>2 DEF KeptObservations!Revised, KeptObservations!OneLineMore, OneMore
    <3>4. KeptObservations!Revised(f[o], g[o])
      BY <2>2, <3>3 DEF a, b
    <3> HIDE DEF f, g
    <3>5. KeptObservations!Revise(o)
      BY <1>1, <1>2, <2>1, <3>4 DEF KeptObservations!Revise, f
    <3> QED
      BY <1>2, <3>5 DEF KeptObservations!Next, f
  <2> QED
    BY <2>3, <2>4, <2>5
<1> QED
  BY <1>1, <1>3, <1>4 DEF Moved, ItemMoves, TemplateMoves, OccurrenceMoves, EntriesAppear

\* A step of the templates: an inactive one is sealed.
LEMMA TemplatesRevised ==
  ASSUME Begun, Moved
  PROVE  [KeptTemplates!Next]_StandingTemplates
<1> DEFINE f == StandingTemplates
           g == [t \in Templates |-> StandingTemplate(templates'[t])]
<1>1. StandingTemplates' = g
  BY DEF StandingTemplates, StandingTemplate, Standing, Absent
<1>2. DOMAIN f = Templates /\ DOMAIN g = Templates
  BY DEF StandingTemplates
<1>3. ASSUME templates' = templates PROVE g = f
  BY <1>3 DEF StandingTemplates
<1>4. ASSUME NEW t \in Templates, TemplateMoves(t) PROVE KeptTemplates!Next \/ g = f
  <2>1. \A x \in Templates \ {t} : g[x] = f[x]
    BY <1>4 DEF TemplateMoves, StandingTemplates
  <2>2. g[t] = StandingTemplate(templates'[t]) /\ f[t] = StandingTemplate(templates[t])
    BY DEF StandingTemplates
  <2>3. CASE templates'[t] = templates[t]
    <3>1. \A x \in Templates : g[x] = f[x]
      BY <2>1, <2>2, <2>3
    <3> HIDE DEF g
    <3>2. g = f
      BY <3>1 DEF StandingTemplates, g
    <3> QED
      BY <3>2 DEF g
  <2>4. CASE templates[t] = None /\ templates'[t] # None
    <3>1. g[t].log # << >> /\ f[t].log = << >>
      BY <1>4, <2>2, <2>4 DEF TemplateMoves, StandingTemplate, Standing, Absent
    <3> HIDE DEF f, g
    <3>2. KeptTemplates!Make
      BY <1>1, <1>2, <2>1, <3>1 DEF KeptTemplates!Make, KeptTemplates!Created, f
    <3> QED
      BY <3>2 DEF KeptTemplates!Next
  <2>5. CASE templates[t] # None /\ templates'[t] # templates[t]
    <3> DEFINE a == templates[t]
               b == templates'[t]
    <3>1. /\ b # None /\ OneMore(a.history, b.history) /\ a.history # << >>
          /\ a.item.status # "inactive"
      BY <1>4, <2>5 DEF TemplateMoves, Renews, Begun
    <3> HIDE DEF a, b
    <3>2. /\ StandingTemplate(a).log = a.history /\ StandingTemplate(b).log = b.history
          /\ ~StandingTemplate(a).sealed
          /\ StandingTemplate(a).tie # None => StandingTemplate(b).tie = StandingTemplate(a).tie
      BY <2>5, <3>1 DEF StandingTemplate, Standing, a
    <3>3. KeptTemplates!Revised(StandingTemplate(a), StandingTemplate(b))
      BY <3>1, <3>2 DEF KeptTemplates!Revised, KeptTemplates!OneLineMore, OneMore
    <3>4. KeptTemplates!Revised(f[t], g[t])
      BY <2>2, <3>3 DEF a, b
    <3> HIDE DEF f, g
    <3>5. KeptTemplates!Revise(t)
      BY <1>1, <1>2, <2>1, <3>4 DEF KeptTemplates!Revise, f
    <3> QED
      BY <1>2, <3>5 DEF KeptTemplates!Next, f
  <2> QED
    BY <2>3, <2>4, <2>5
<1> QED
  BY <1>1, <1>3, <1>4 DEF Moved, ItemMoves, ObservationMoves, OccurrenceMoves, EntriesAppear

\* A step of the occurrences: the page of the day makes several at once.
LEMMA OccurrencesRevised ==
  ASSUME Begun, Moved
  PROVE  [KeptOccurrences!Next]_StandingOccurrences
<1> DEFINE Entries == Templates \X Days
           At(e) == occurrences[e[1]][e[2]]
           Later(e) == occurrences'[e[1]][e[2]]
           f == StandingOccurrences
           g == [e \in Entries |-> StandingOccurrence(Later(e))]
<1>1. StandingOccurrences' = g
  BY DEF StandingOccurrences, StandingOccurrence, Standing, Absent
<1>2. DOMAIN f = Entries /\ DOMAIN g = Entries
  BY DEF StandingOccurrences
<1>3. \A e \in Entries : /\ f[e] = StandingOccurrence(At(e))
                          /\ g[e] = StandingOccurrence(Later(e))
  BY DEF StandingOccurrences
<1>4. ASSUME occurrences' = occurrences PROVE g = f
  BY <1>4 DEF StandingOccurrences
<1>5. ASSUME NEW t \in Templates, NEW d \in Days, OccurrenceMoves(t, d)
      PROVE  KeptOccurrences!Next \/ g = f
  <2> DEFINE i == <<t, d>>
             a == occurrences[t][d]
             b == occurrences'[t][d]
  <2>1. i \in Entries /\ At(i) = a /\ Later(i) = b
    OBVIOUS
  <2>2. \A e \in Entries \ {i} : g[e] = f[e]
    <3> SUFFICES ASSUME NEW e \in Entries, e # i PROVE g[e] = f[e]
      OBVIOUS
    <3>1. e[1] \in Templates /\ e[2] \in Days /\ (e[1] # t \/ e[2] # d)
      OBVIOUS
    <3>2. Later(e) = At(e)
      BY <1>5, <3>1 DEF OccurrenceMoves
    <3> HIDE DEF f, g, At, Later
    <3> QED
      BY <1>3, <3>2
  <2>3. f[i] = StandingOccurrence(a) /\ g[i] = StandingOccurrence(b)
    BY <1>3, <2>1
  <2>4. CASE b = a
    <3>1. \A e \in Entries : g[e] = f[e]
      BY <2>2, <2>3, <2>4
    <3> HIDE DEF g
    <3>2. g = f
      BY <3>1 DEF StandingOccurrences, g
    <3> QED
      BY <3>2 DEF g
  <2>5. CASE b # a
    <3>1. /\ a # None /\ b # None /\ OneMore(a.history, b.history)
          /\ a.history # << >> /\ b.item.scheduled = a.item.scheduled
      BY <1>5, <2>5 DEF OccurrenceMoves, Remains, Begun
    <3> HIDE DEF a, b
    <3>2. /\ StandingOccurrence(a).log = a.history
          /\ StandingOccurrence(b).log = b.history
          /\ ~StandingOccurrence(a).sealed
          /\ StandingOccurrence(b).tie = StandingOccurrence(a).tie
      BY <3>1 DEF StandingOccurrence, Standing
    <3>3. KeptOccurrences!Revised(StandingOccurrence(a), StandingOccurrence(b))
      BY <3>1, <3>2 DEF KeptOccurrences!Revised, KeptOccurrences!OneLineMore, OneMore
    <3> HIDE DEF f, g, i
    <3>4. KeptOccurrences!Revised(f[i], g[i])
      BY <2>3, <3>3
    <3>5. KeptOccurrences!Revise(i)
      BY <1>1, <1>2, <2>2, <3>4 DEF KeptOccurrences!Revise, f
    <3> QED
      BY <1>2, <2>1, <3>5 DEF KeptOccurrences!Next, f
  <2> QED
    BY <2>4, <2>5
<1>6. ASSUME EntriesAppear PROVE KeptOccurrences!Next
  <2>1. ASSUME NEW e \in Entries
        PROVE  g[e] = f[e] \/ KeptOccurrences!Created(f[e], g[e])
    <3> DEFINE a == At(e)
               b == Later(e)
    <3>1. b = a \/ (a = None /\ b.history # << >>)
      <4>1. e[1] \in Templates /\ e[2] \in Days
        OBVIOUS
      <4> QED
        BY <1>6, <4>1 DEF EntriesAppear
    <3>2. f[e] = StandingOccurrence(a) /\ g[e] = StandingOccurrence(b)
      BY <1>3
    <3> HIDE DEF f, g, a, b
    <3>3. CASE b = a \/ b = None
      BY <3>1, <3>2, <3>3
    <3>4. CASE a = None /\ b # None /\ b.history # << >>
      <4>1. f[e].log = << >> /\ g[e].log # << >>
        BY <3>2, <3>4 DEF StandingOccurrence, Standing, Absent
      <4> QED
        BY <4>1 DEF KeptOccurrences!Created
    <3> QED
      BY <3>1, <3>3, <3>4
  <2> HIDE DEF f, g
  <2>2. KeptOccurrences!Make
    BY <1>1, <1>2, <2>1 DEF KeptOccurrences!Make, f
  <2> QED
    BY <2>2 DEF KeptOccurrences!Next
<1> QED
  BY <1>1, <1>4, <1>5, <1>6 DEF Moved, ItemMoves, ObservationMoves, TemplateMoves

\* Every record has begun its history, and the ties agree, in every state.
LEMMA RecordsHold == Spec => [](IInv /\ Begun /\ TiesAgree)
<1>1. Init => IInv /\ Begun /\ TiesAgree
  <2> SUFFICES ASSUME Init PROVE IInv /\ Begun /\ TiesAgree
    OBVIOUS
  <2>1. /\ \A i \in Items : followUps[i] = None
        /\ \A o \in Sightings : observations[o] = None
        /\ \A t \in Templates : templates[t] = None
        /\ \A t \in Templates, d \in Days : occurrences[t][d] = None
    BY DEF Init
  <2> QED
    BY <2>1, Initially DEF Begun, TiesAgree
<1>2. IInv /\ Begun /\ TiesAgree /\ [Next]_vars => (IInv /\ Begun /\ TiesAgree)'
  <2> SUFFICES ASSUME IInv, Begun, TiesAgree, [Next]_vars
               PROVE  IInv' /\ Begun' /\ TiesAgree'
    OBVIOUS
  <2>1. IInv' /\ Moved
    BY StepKeeps, StepMoves
  <2> QED
    BY <2>1, BegunKeeps, TiesKeep
<1> QED
  BY <1>1, <1>2, PTL DEF Spec

\* An item tied to an observation and the observation have the same project in
\* every state, however old the pages the commands are sent from: the tie takes
\* the project its own transaction reads, and neither a change of the item nor
\* an edit of the observation parts the two
\* (application/field_tracking.py:451 to 498 and 874 to 892).
THEOREM TiesStayTrue == Spec => []TiesAgree
  BY RecordsHold, PTL

\* The desktop application implements RevisedRecords, once for each kind of
\* record: items, observations, templates and occurrences are made where there
\* were none, and then only revised, by one line of history at a time, until they
\* are sealed; no step of any number of windows loses or rewrites one, and an item
\* agrees with the observation it is tied to.
THEOREM RecordsAreOnlyRevised == Spec => RecordsAreRevised
<1>1. Init => /\ KeptItems!Init /\ KeptObservations!Init
              /\ KeptTemplates!Init /\ KeptOccurrences!Init
  <2> SUFFICES ASSUME Init
               PROVE  /\ KeptItems!Init /\ KeptObservations!Init
                      /\ KeptTemplates!Init /\ KeptOccurrences!Init
    OBVIOUS
  <2>1. KeptItems!Init
    BY DEF Init, KeptItems!Init, StandingItems, StandingItem, Absent
  <2>2. KeptObservations!Init
    BY DEF Init, KeptObservations!Init, StandingObservations, StandingObservation, Absent
  <2>3. KeptTemplates!Init
    BY DEF Init, KeptTemplates!Init, StandingTemplates, StandingTemplate, Absent
  <2>4. KeptOccurrences!Init
    <3> SUFFICES ASSUME NEW e \in Templates \X Days
                 PROVE  StandingOccurrence(occurrences[e[1]][e[2]]).log = << >>
      BY DEF KeptOccurrences!Init, StandingOccurrences
    <3>1. e[1] \in Templates /\ e[2] \in Days
      OBVIOUS
    <3> QED
      BY <3>1 DEF Init, StandingOccurrence, Absent
  <2> QED
    BY <2>1, <2>2, <2>3, <2>4
<1>2. IInv /\ Begun /\ TiesAgree /\ [Next]_vars
        => /\ [KeptItems!Next]_StandingItems
           /\ [KeptObservations!Next]_StandingObservations
           /\ [KeptTemplates!Next]_StandingTemplates
           /\ [KeptOccurrences!Next]_StandingOccurrences
  BY StepMoves, ItemsRevised, ObservationsRevised, TemplatesRevised, OccurrencesRevised
<1> QED
  BY <1>1, <1>2, RecordsHold, PTL
     DEF Spec, RecordsAreRevised, KeptItems!Spec, KeptObservations!Spec,
         KeptTemplates!Spec, KeptOccurrences!Spec
=============================================================================
