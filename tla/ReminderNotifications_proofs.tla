-------------------- MODULE ReminderNotifications_proofs --------------------
(***************************************************************************)
(* That one quiet run makes the alarms those of the database, that         *)
(* "scheduled" is written only of an alarm that is there and is true at    *)
(* the end of a run, and that no change is lost, for any number of         *)
(* reminders and any capacity of the platform.                             *)
(*                                                                         *)
(* First the two things the proofs compute with: the order of the rows,    *)
(* which decides who gets a place among the alarms (a counting argument:   *)
(* who does not, finds as many before it as there are places), and the     *)
(* list of calls, in which a reminder has one job and perhaps the removal  *)
(* of a stray before it.  Then the invariant.  Its heart is AimInv: while  *)
(* a run has met nothing amiss, each alarm of the platform is wanted or    *)
(* about to be removed, and each reminder that is wanted has its call to   *)
(* come or was seen set; and QuietInv: no call of an older run can still   *)
(* land on it.  At the end of the list nothing is left to come.            *)
(***************************************************************************)
EXTENDS ReminderNotifications, FiniteSetTheorems, SequenceTheorems, TLAPS

-----------------------------------------------------------------------------
(* The order of the rows.                                                  *)

\* What a run read has a time for every reminder.
Dated == \A r \in Reminders : DueOf(r) \in Nat

Ahead(rs, r) == {s \in rs : Before(s, r)}
Place(rs, r) == Cardinality(Ahead(rs, r)) + 1

\* The rows have one order.
LEMMA OneOrder ==
  ASSUME Dated
  PROVE  /\ \A r \in Reminders : ~Before(r, r)
         /\ \A r, s \in Reminders : r # s => Before(r, s) \/ Before(s, r)
         /\ \A r, s \in Reminders : ~(Before(r, s) /\ Before(s, r))
         /\ \A r, s, t \in Reminders : Before(r, s) /\ Before(s, t) => Before(r, t)
  BY ReminderAssumption DEF Dated, Before

\* A row has a place among the rows, and an earlier one an earlier place.
LEMMA PlacesRise ==
  ASSUME Dated, NEW rs \in SUBSET Reminders
  PROVE  /\ IsFiniteSet(rs) /\ Cardinality(rs) \in Nat
         /\ \A r \in Reminders : IsFiniteSet(Ahead(rs, r)) /\ Place(rs, r) \in Nat \ {0}
         /\ \A r \in rs : Place(rs, r) <= Cardinality(rs)
         /\ \A r, s \in rs : Before(r, s) => Place(rs, r) < Place(rs, s)
<1>1. IsFiniteSet(rs) /\ Cardinality(rs) \in Nat
  BY ReminderAssumption, FS_Subset, FS_CardinalityType
<1>2. ASSUME NEW r \in Reminders
      PROVE  /\ IsFiniteSet(Ahead(rs, r)) /\ Cardinality(Ahead(rs, r)) \in Nat
             /\ Cardinality(Ahead(rs, r) \cup {r}) = Cardinality(Ahead(rs, r)) + 1
             /\ IsFiniteSet(Ahead(rs, r) \cup {r})
  <2>1. Ahead(rs, r) \in SUBSET rs
    BY DEF Ahead
  <2>2. IsFiniteSet(Ahead(rs, r))
    BY <1>1, <2>1, FS_Subset
  <2>3. r \notin Ahead(rs, r)
    BY OneOrder DEF Ahead
  <2> QED
    BY <2>2, <2>3, FS_AddElement, FS_CardinalityType
<1>3. ASSUME NEW r \in rs PROVE Place(rs, r) <= Cardinality(rs)
  <2>1. (Ahead(rs, r) \cup {r}) \in SUBSET rs /\ r \in Reminders
    BY <1>3 DEF Ahead
  <2>2. Cardinality(Ahead(rs, r) \cup {r}) <= Cardinality(rs)
    BY <1>1, <2>1, FS_Subset
  <2> QED
    BY <1>2, <2>1, <2>2 DEF Place
<1>4. ASSUME NEW r \in rs, NEW s \in rs, Before(r, s) PROVE Place(rs, r) < Place(rs, s)
  <2>1. /\ (Ahead(rs, r) \cup {r}) \in SUBSET Ahead(rs, s)
        /\ r \in Reminders /\ s \in Reminders
    BY <1>4, OneOrder DEF Ahead
  <2>2. Cardinality(Ahead(rs, r) \cup {r}) <= Cardinality(Ahead(rs, s))
    BY <1>2, <2>1, FS_Subset
  <2>3. /\ Cardinality(Ahead(rs, r) \cup {r}) = Cardinality(Ahead(rs, r)) + 1
        /\ Cardinality(Ahead(rs, r)) \in Nat /\ Cardinality(Ahead(rs, s)) \in Nat
    BY <1>2, <2>1
  <2> QED
    BY <2>2, <2>3 DEF Place
<1>5. ASSUME NEW r \in Reminders
      PROVE  IsFiniteSet(Ahead(rs, r)) /\ Place(rs, r) \in Nat \ {0}
  <2>1. IsFiniteSet(Ahead(rs, r)) /\ Cardinality(Ahead(rs, r)) \in Nat
    BY <1>2, <1>5
  <2> QED
    BY <2>1 DEF Place
<1> QED
  BY <1>1, <1>3, <1>4, <1>5

\* Every place is taken.
LEMMA PlacesFill ==
  ASSUME Dated, NEW rs \in SUBSET Reminders, NEW k \in 1..Cardinality(rs)
  PROVE  \E r \in rs : Place(rs, r) = k
<1> DEFINE place == [r \in rs |-> Place(rs, r)]
           places == 1..Cardinality(rs)
<1>1. /\ IsFiniteSet(rs) /\ Cardinality(rs) \in Nat
      /\ \A r \in rs : Place(rs, r) \in places
  BY PlacesRise
<1>2. \A r, s \in rs : Place(rs, r) = Place(rs, s) => r = s
  <2> SUFFICES ASSUME NEW r \in rs, NEW s \in rs, Place(rs, r) = Place(rs, s), r # s
               PROVE  FALSE
    OBVIOUS
  <2>1. Before(r, s) \/ Before(s, r)
    BY OneOrder
  <2> QED
    BY <1>1, <2>1, PlacesRise
<1>3. place \in Injection(rs, places)
  BY <1>1, <1>2 DEF Injection, IsInjective
<1>4. IsFiniteSet(places) /\ Cardinality(places) = Cardinality(rs)
  BY <1>1, FS_Interval
<1>5. place \in Surjection(rs, places)
  BY <1>3, <1>4, FS_Injection
<1> QED
  BY <1>5 DEF Surjection

\* The rows in their order: all of them, each once.
LEMMA RowsInOrder ==
  ASSUME Dated, NEW rs \in SUBSET Reminders
  PROVE  /\ InOrder(rs) \in [1..Cardinality(rs) -> rs]
         /\ \A i, j \in 1..Cardinality(rs) : i # j => InOrder(rs)[i] # InOrder(rs)[j]
         /\ \A r \in rs : \E i \in 1..Cardinality(rs) : InOrder(rs)[i] = r
<1> DEFINE places == 1..Cardinality(rs)
           sorted == [k \in places |-> CHOOSE r \in rs : Place(rs, r) = k]
           Sorts(order) == \A i, j \in places : i < j => Before(order[i], order[j])
<1>1. IsFiniteSet(rs) /\ Cardinality(rs) \in Nat
  BY PlacesRise
<1>2. \A k \in places : sorted[k] \in rs /\ Place(rs, sorted[k]) = k
  BY PlacesFill
<1>3. sorted \in [places -> rs]
  BY <1>2
<1> HIDE DEF sorted
<1>4. ASSUME NEW i \in places, NEW j \in places, i < j
      PROVE  Before(sorted[i], sorted[j])
  <2>1. sorted[i] # sorted[j] /\ ~Before(sorted[j], sorted[i])
    BY <1>2, <1>4, PlacesRise
  <2> QED
    BY <1>2, <2>1, OneOrder
<1>5. \E order \in [places -> rs] : Sorts(order)
  BY <1>3, <1>4
<1>6. InOrder(rs) \in [places -> rs] /\ Sorts(InOrder(rs))
  BY <1>5 DEF InOrder
<1>7. ASSUME NEW i \in places, NEW j \in places, i # j
      PROVE  InOrder(rs)[i] # InOrder(rs)[j]
  <2>1. Before(InOrder(rs)[i], InOrder(rs)[j]) \/ Before(InOrder(rs)[j], InOrder(rs)[i])
    BY <1>1, <1>6, <1>7
  <2>2. InOrder(rs)[i] \in Reminders
    BY <1>6
  <2> QED
    BY <2>1, <2>2, OneOrder
<1>8. InOrder(rs) \in Injection(places, rs)
  BY <1>6, <1>7 DEF Injection, IsInjective
<1>9. IsFiniteSet(places) /\ Cardinality(places) = Cardinality(rs)
  BY <1>1, FS_Interval
<1>10. InOrder(rs) \in Surjection(places, rs)
  BY <1>1, <1>8, <1>9, FS_Injection
<1> QED
  BY <1>6, <1>7, <1>10 DEF Surjection

\* Jobs of one kind: one for each reminder of the set.
LEMMA JobsOf ==
  ASSUME Dated, NEW rs \in SUBSET Reminders, NEW kind
  PROVE  /\ Jobs(kind, rs) \in Seq([op: {kind}, of: rs])
         /\ \A i, j \in DOMAIN Jobs(kind, rs) :
              i # j => Jobs(kind, rs)[i].of # Jobs(kind, rs)[j].of
         /\ \A r \in rs : \E i \in DOMAIN Jobs(kind, rs) : Jobs(kind, rs)[i].of = r
<1>1. Cardinality(rs) \in Nat
  BY PlacesRise
<1>2. Jobs(kind, rs) \in [1..Cardinality(rs) -> [op: {kind}, of: rs]]
  <2>1. \A i \in 1..Cardinality(rs) : InOrder(rs)[i] \in rs
    BY RowsInOrder
  <2> QED
    BY <2>1 DEF Jobs
<1>3. Jobs(kind, rs) \in Seq([op: {kind}, of: rs])
  BY <1>1, <1>2, SeqDef
<1>4. /\ DOMAIN Jobs(kind, rs) = 1..Cardinality(rs)
      /\ \A i \in 1..Cardinality(rs) : Jobs(kind, rs)[i].of = InOrder(rs)[i]
  BY DEF Jobs
<1> QED
  BY <1>3, <1>4, RowsInOrder

\* Who does not get a place finds the platform full of those before it.
LEMMA FullOfEarlier ==
  ASSUME Dated, NEW r \in Eligible \ Desired
  PROVE  /\ IsFiniteSet({s \in Desired : Before(s, r)})
         /\ Capacity <= Cardinality({s \in Desired : Before(s, r)})
<1> DEFINE earlier == {s \in Desired : Before(s, r)}
           holder  == [k \in 1..Capacity |-> CHOOSE s \in Eligible : Place(Eligible, s) = k]
<1>1. Eligible \in SUBSET Reminders /\ r \in Reminders /\ r \in Eligible /\ Capacity \in Nat
  BY ReminderAssumption DEF Eligible, Attentive, Known
<1>2. /\ Cardinality(Eligible) \in Nat
      /\ Place(Eligible, r) \in Nat /\ Place(Eligible, r) <= Cardinality(Eligible)
  BY <1>1, PlacesRise
<1>3. Capacity < Place(Eligible, r)
  <2>1. Capacity <= Cardinality(Ahead(Eligible, r))
    <3>1. ~(Cardinality(Ahead(Eligible, r)) < Capacity)
      BY DEF Desired, Ahead
    <3>2. Cardinality(Ahead(Eligible, r)) \in Nat
      BY <1>1, PlacesRise, FS_CardinalityType
    <3> QED
      BY <1>1, <3>1, <3>2
  <2> QED
    BY <1>1, <1>2, <2>1, PlacesRise, FS_CardinalityType DEF Place
<1>4. ASSUME NEW k \in 1..Capacity
      PROVE  holder[k] \in earlier /\ Place(Eligible, holder[k]) = k
  <2>1. k \in 1..Cardinality(Eligible)
    BY <1>1, <1>2, <1>3
  <2>2. holder[k] \in Eligible /\ Place(Eligible, holder[k]) = k
    BY <1>1, <2>1, PlacesFill
  <2>3. Before(holder[k], r)
    <3>1. holder[k] # r /\ ~Before(r, holder[k])
      BY <1>1, <1>2, <1>3, <2>2, PlacesRise
    <3> QED
      BY <1>1, <2>2, <3>1, OneOrder
  <2>4. holder[k] \in Desired
    <3>1. Cardinality(Ahead(Eligible, holder[k])) \in Nat
      BY <1>1, <2>2, PlacesRise, FS_CardinalityType
    <3>2. Cardinality(Ahead(Eligible, holder[k])) < Capacity
      BY <1>1, <2>2, <3>1 DEF Place
    <3> QED
      BY <2>2, <3>2 DEF Desired, Ahead
  <2> QED
    BY <2>2, <2>3, <2>4
<1>5. holder \in [1..Capacity -> earlier]
  BY <1>4
<1> HIDE DEF holder
<1>6. holder \in Injection(1..Capacity, earlier)
  BY <1>4, <1>5 DEF Injection, IsInjective
<1>7. IsFiniteSet(earlier)
  <2>1. earlier \in SUBSET Reminders
    BY <1>1 DEF Desired
  <2> QED
    BY <2>1, ReminderAssumption, FS_Subset
<1>8. Cardinality(1..Capacity) = Capacity
  BY <1>1, FS_Interval
<1> QED
  BY <1>6, <1>7, <1>8, FS_Injection

-----------------------------------------------------------------------------
(* The types.                                                              *)

LEMMA Constants ==
  /\ 0 \in Times /\ Times \subseteq Nat /\ 0..MaxClock \subseteq Times
  /\ NoCall \in Call /\ NoRequest \in Request /\ NoNotice \in Notice
  /\ Absent \in Item /\ NoBinding \in Binding /\ Clean \in Binding
  /\ \A t \in Times, state \in States : Bound(t, state) \in Binding
<1>1. 0 \in Times /\ Times \subseteq Nat /\ 0..MaxClock \subseteq Times
  BY ReminderAssumption DEF Times
<1>2. \A t \in Times, state \in States : Bound(t, state) \in Binding
  BY DEF Bound, Binding
<1>3. NoCall \in Call /\ NoRequest \in Request /\ NoNotice \in Notice
  BY <1>1 DEF NoCall, Call, NoRequest, Request, NoNotice, Notice
<1>4. Absent \in Item /\ NoBinding \in Binding
  BY <1>1 DEF Absent, Item, NoBinding, Binding, States
<1>5. Clean \in Binding
  BY <1>1, <1>2 DEF Clean, States
<1> QED
  BY <1>1, <1>2, <1>3, <1>4, <1>5

LEMMA IdleIsRun ==
  /\ Idle \in Run
  /\ \A at \in {"prompt", "read"}, now \in Times, older \in BOOLEAN :
       [Idle EXCEPT !.at = at, !.now = now, !.older = older] \in Run
  /\ \A now \in Times : [Idle EXCEPT !.at = "read", !.now = now] \in Run
  /\ \A older \in BOOLEAN : [Idle EXCEPT !.older = older] \in Run
  /\ [Idle EXCEPT !.refused = TRUE] \in Run
<1>1. NoSource \in [Reminders -> Source] /\ NoUpdates \in [Reminders -> Binding]
  BY Constants DEF NoSource, NoUpdates, Source
<1>2. <<>> \in Seq(Job)
  OBVIOUS
<1>3. Idle \in Run
  BY <1>1, <1>2, Constants DEF Idle, Run
<1> QED
  BY <1>3 DEF Run

\* A run that has not looked at anything yet, or none.
Begun ==
  /\ run' \in Run /\ run'.at \in {"idle", "prompt", "read"} /\ run'.current
  /\ ~run'.waiting /\ run'.source = NoSource /\ run'.updates = NoUpdates

LEMMA NewRun ==
  ASSUME NEW now \in Times, NEW prompt \in BOOLEAN, StartRun(now, prompt)
  PROVE  /\ Begun /\ run'.at # "idle" /\ run'.now = now /\ run'.older = InFlight
         /\ disturbed' = InFlight
<1> DEFINE at == IF prompt THEN "prompt" ELSE "read"
<1>1. /\ at \in {"prompt", "read"} /\ InFlight \in BOOLEAN
      /\ run' = [Idle EXCEPT !.at = at, !.now = now, !.older = InFlight]
  BY DEF StartRun, InFlight
<1> HIDE DEF at
<1>2. run' \in Run
  BY <1>1, IdleIsRun
<1>3. /\ run'.at = at /\ run'.now = now /\ run'.current /\ ~run'.waiting
      /\ run'.source = NoSource /\ run'.updates = NoUpdates /\ run'.older = InFlight
  BY <1>1 DEF Idle
<1> QED
  BY <1>1, <1>2, <1>3 DEF StartRun, Begun

\* The end of a run: the next one, or none.
LEMMA RunEnds ==
  ASSUME TypeOK, EndRun
  PROVE  /\ Begun /\ pending' \in Request /\ disturbed' \in BOOLEAN
         /\ \/ /\ pending.asked /\ ~pending'.asked /\ pending'.now = 0
               /\ run'.now = pending.now /\ run'.at # "idle"
               /\ run'.older = InFlight /\ disturbed' = InFlight
            \/ /\ ~pending.asked /\ pending' = pending
               /\ run'.at = "idle" /\ run'.now = 0 /\ run'.older = run.older
               /\ disturbed' = disturbed
<1>1. pending \in Request /\ disturbed \in BOOLEAN /\ run.older \in BOOLEAN
  BY DEF TypeOK, Run
<1>2. CASE pending.asked
  <2>1. /\ pending' = NoRequest /\ StartRun(pending.now, pending.prompt)
        /\ pending.now \in Times /\ pending.prompt \in BOOLEAN
    BY <1>1, <1>2 DEF EndRun, Request
  <2>2. /\ Begun /\ run'.at # "idle" /\ run'.now = pending.now
        /\ run'.older = InFlight /\ disturbed' = InFlight
    BY <2>1, NewRun
  <2>3. disturbed' \in BOOLEAN
    BY <2>2 DEF InFlight
  <2> QED
    BY <1>2, <2>1, <2>2, <2>3, Constants DEF NoRequest
<1>3. CASE ~pending.asked
  <2>1. /\ pending' = pending /\ disturbed' = disturbed
        /\ run' = [Idle EXCEPT !.older = run.older]
    BY <1>3 DEF EndRun
  <2>2. run' \in Run
    BY <1>1, <2>1, IdleIsRun
  <2>3. /\ run'.at = "idle" /\ run'.now = 0 /\ run'.older = run.older
        /\ run'.current /\ ~run'.waiting
        /\ run'.source = NoSource /\ run'.updates = NoUpdates
    BY <2>1 DEF Idle
  <2>4. Begun
    BY <2>2, <2>3 DEF Begun
  <2> QED
    BY <1>1, <1>3, <2>1, <2>3, <2>4
<1> QED
  BY <1>2, <1>3

\* What a run knows, and what does not change while it keeps its source.
SourceKept == /\ run'.source = run.source /\ run'.now = run.now
              /\ run'.older = run.older
LEMMA SameSource ==
  ASSUME SourceKept
  PROVE  /\ Known' = Known /\ Eligible' = Eligible /\ Desired' = Desired
         /\ Preserved' = Preserved /\ ToClean' = ToClean
         /\ \A r \in Reminders : DueOf(r)' = DueOf(r) /\ BoundAs(r)' = BoundAs(r)
<1>1. \A r \in Reminders : DueOf(r)' = DueOf(r) /\ BoundAs(r)' = BoundAs(r)
  BY DEF SourceKept, DueOf, BoundAs
<1>2. Known' = Known
  BY DEF SourceKept, Known
<1>3. Known \subseteq Reminders
  BY DEF Known
<1>4. Attentive' = Attentive /\ Attentive \subseteq Reminders
  BY <1>1, <1>2, <1>3 DEF SourceKept, Attentive
<1>5. Eligible' = Eligible /\ Eligible \subseteq Reminders
  BY <1>1, <1>4 DEF SourceKept, Eligible
<1>6. \A r, s \in Reminders : Before(r, s)' = Before(r, s)
  BY <1>1 DEF Before
<1>7. Desired' = Desired
  BY <1>5, <1>6 DEF Desired
<1>8. Preserved' = Preserved
  BY <1>1, <1>4, <1>5 DEF Preserved
<1>9. ToClean' = ToClean
  BY <1>1, <1>2, <1>3, <1>5, <1>8 DEF ToClean, Terminal
<1> QED
  BY <1>1, <1>2, <1>5, <1>7, <1>8, <1>9

LEMMA SourceTyped ==
  ASSUME TypeOK
  PROVE  /\ Dated
         /\ \A r \in Reminders : /\ DueOf(r) \in Times /\ BoundAs(r) \in Binding
                                 /\ run.source[r].item \in Item
         /\ Desired \subseteq Eligible /\ Eligible \subseteq Known
         /\ Known \subseteq Reminders
         /\ ToClean \subseteq Known \ Eligible
<1>1. \A r \in Reminders : /\ DueOf(r) \in Times /\ BoundAs(r) \in Binding
                           /\ run.source[r].item \in Item
  BY DEF TypeOK, Run, Source, Item, DueOf, BoundAs
<1>2. /\ Desired \subseteq Eligible /\ Eligible \subseteq Known
      /\ Known \subseteq Reminders /\ ToClean \subseteq Known \ Eligible
  BY DEF Desired, Eligible, Attentive, Known, ToClean, Terminal
<1> QED
  BY <1>1, <1>2, Constants DEF Dated

-----------------------------------------------------------------------------
(* The list of calls.                                                      *)

\* What is left after the first job.
LEMMA RestIs ==
  ASSUME TypeOK, run.todo # <<>>, NEW j, j = Head(run.todo)
  PROVE  /\ j \in Job /\ 1 \in DOMAIN run.todo /\ run.todo[1] = j
         /\ DOMAIN run.todo = 1..Len(run.todo) /\ Len(run.todo) \in Nat
         /\ Tail(run.todo) \in Seq(Job) /\ Rest(j) \in Seq(Job)
         /\ \A i \in DOMAIN Tail(run.todo) :
              i + 1 \in DOMAIN run.todo /\ Tail(run.todo)[i] = run.todo[i + 1]
         /\ \A i \in DOMAIN run.todo :
              i = 1 \/ (i - 1 \in DOMAIN Tail(run.todo)
                          /\ Tail(run.todo)[i - 1] = run.todo[i])
         /\ j.op \in {"cancel", "schedule"} =>
              /\ DOMAIN Rest(j) = DOMAIN run.todo
              /\ Rest(j)[1] = [op |-> AfterCall[j.op], of |-> j.of]
              /\ \A i \in DOMAIN run.todo : i # 1 => Rest(j)[i] = run.todo[i]
         /\ j.op \notin {"cancel", "schedule"} => Rest(j) = Tail(run.todo)
<1> DEFINE todo == run.todo
           rest == Tail(run.todo)
<1>1. todo \in Seq(Job)
  BY DEF TypeOK, Run
<1>2. /\ DOMAIN todo = 1..Len(todo) /\ Len(todo) \in Nat \ {0}
      /\ j \in Job /\ rest \in Seq(Job) /\ Len(rest) = Len(todo) - 1
      /\ \A i \in 1..Len(rest) : rest[i] = todo[i + 1]
  BY <1>1, HeadTailProperties, EmptySeq, LenProperties
<1>3. todo[1] = j
  BY <1>1
<1> HIDE DEF todo, rest
<1>4. DOMAIN rest = 1..Len(rest)
  BY <1>2, LenProperties
<1>5. \A i \in DOMAIN rest : i + 1 \in DOMAIN todo /\ rest[i] = todo[i + 1]
  BY <1>2, <1>4
<1>6. \A i \in DOMAIN todo : i = 1 \/ (i - 1 \in DOMAIN rest /\ rest[i - 1] = todo[i])
  BY <1>2, <1>4
<1>7. ASSUME j.op \in {"cancel", "schedule"}
      PROVE  /\ Rest(j) \in Seq(Job)
             /\ DOMAIN Rest(j) = DOMAIN todo
             /\ Rest(j)[1] = [op |-> AfterCall[j.op], of |-> j.of]
             /\ \A i \in DOMAIN todo : i # 1 => Rest(j)[i] = todo[i]
  <2> DEFINE next == [op |-> AfterCall[j.op], of |-> j.of]
  <2>1. next \in Job
    BY <1>2, <1>7 DEF Job, Setting, AfterCall
  <2>2. [j EXCEPT !.op = AfterCall[@]] = next
    BY <1>2 DEF Job
  <2>3. Rest(j) = [todo EXCEPT ![1] = next]
    <3>1. Rest(j) = [todo EXCEPT ![1].op = AfterCall[@]]
      BY <1>7 DEF Rest, AfterCall, todo
    <3>2. [todo EXCEPT ![1].op = AfterCall[@]]
            = [todo EXCEPT ![1] = [todo[1] EXCEPT !.op = AfterCall[@]]]
      OBVIOUS
    <3> QED
      BY <1>3, <2>2, <3>1, <3>2
  <2> HIDE DEF next
  <2>4. 1 \in 1..Len(todo)
    BY <1>2
  <2>5. /\ Rest(j) \in Seq(Job) /\ Len(Rest(j)) = Len(todo)
        /\ \A i \in 1..Len(todo) : Rest(j)[i] = IF i = 1 THEN next ELSE todo[i]
    BY <1>1, <2>1, <2>3, <2>4, ExceptSeq
  <2>6. DOMAIN Rest(j) = DOMAIN todo
    BY <1>2, <2>5, LenProperties
  <2> QED
    BY <1>2, <2>4, <2>5, <2>6 DEF next
<1>8. ASSUME j.op \notin {"cancel", "schedule"} PROVE Rest(j) = rest
  BY <1>8 DEF Rest, AfterCall, rest
<1>9. Rest(j) \in Seq(Job)
  BY <1>2, <1>7, <1>8
<1> QED
  BY <1>2, <1>3, <1>5, <1>6, <1>7, <1>8, <1>9 DEF todo, rest

\* A reminder has one job, and perhaps the removal of a stray before it.
Single(todo) ==
  \A i, k \in DOMAIN todo :
    i < k /\ todo[i].of = todo[k].of => todo[i].op = "discard" /\ todo[k].op # "discard"

\* Only the alarm in front was begun.
Unbegun(todo) == \A i \in DOMAIN todo : i # 1 => todo[i].op \notin {"schedule", "verify"}

\* Whom a job is for.
Fits(j) ==
  /\ j.op \in Setting => j.of \in Desired
  /\ j.op = "free" => j.of \in Eligible \ Desired
  /\ j.op = "clear" => j.of \in ToClean
Fitting(todo) == \A i \in DOMAIN todo : Fits(todo[i])

Ordered(todo) == Single(todo) /\ Unbegun(todo) /\ Fitting(todo)

HasJob(todo, r) == \E i \in DOMAIN todo : todo[i].of = r
HasJobs(todo, r, ops) == \E i \in DOMAIN todo : todo[i].of = r /\ todo[i].op \in ops

\* What the first job leaves of an ordered list.
LEMMA RestOrdered ==
  ASSUME TypeOK, run.todo # <<>>, Ordered(run.todo), NEW j, j = Head(run.todo)
  PROVE  /\ Ordered(Tail(run.todo)) /\ Ordered(Rest(j)) /\ Fits(j)
         /\ \A r \in Reminders :
              /\ HasJob(Tail(run.todo), r) => HasJob(run.todo, r)
              /\ HasJob(Rest(j), r) => HasJob(run.todo, r)
              /\ HasJobs(run.todo, r, {"discard"}) =>
                   HasJobs(Rest(j), r, {"discard"}) \/ j = [op |-> "discard", of |-> r]
              /\ HasJobs(run.todo, r, Setting) =>
                   HasJobs(Rest(j), r, Setting) \/ j = [op |-> "verify", of |-> r]
         /\ j.op # "discard" => ~HasJob(Tail(run.todo), j.of)
<1> DEFINE todo == run.todo
           rest == Tail(run.todo)
<1>1. /\ j \in Job /\ 1 \in DOMAIN todo /\ todo[1] = j
      /\ DOMAIN todo = 1..Len(todo) /\ Len(todo) \in Nat
      /\ todo \in Seq(Job) /\ rest \in Seq(Job)
      /\ \A i \in DOMAIN rest : i + 1 \in DOMAIN todo /\ rest[i] = todo[i + 1]
      /\ \A i \in DOMAIN todo : i = 1 \/ (i - 1 \in DOMAIN rest /\ rest[i - 1] = todo[i])
  BY RestIs DEF TypeOK, Run
<1>2. /\ j.op \in {"cancel", "schedule"} =>
           /\ DOMAIN Rest(j) = DOMAIN todo
           /\ Rest(j)[1] = [op |-> AfterCall[j.op], of |-> j.of]
           /\ \A i \in DOMAIN todo : i # 1 => Rest(j)[i] = todo[i]
      /\ j.op \notin {"cancel", "schedule"} => Rest(j) = rest
  BY RestIs
<1>3. DOMAIN rest = 1..Len(rest) /\ Len(rest) \in Nat
  BY <1>1, LenProperties
<1>4. Single(todo) /\ Unbegun(todo) /\ Fitting(todo) /\ Fits(j)
  BY <1>1 DEF Ordered, Fitting
<1> HIDE DEF todo, rest
<1>5. Single(rest)
  <2> SUFFICES ASSUME NEW i \in DOMAIN rest, NEW k \in DOMAIN rest,
                      i < k, rest[i].of = rest[k].of
               PROVE  rest[i].op = "discard" /\ rest[k].op # "discard"
    BY DEF Single
  <2>1. /\ i + 1 \in DOMAIN todo /\ k + 1 \in DOMAIN todo /\ i + 1 < k + 1
        /\ rest[i] = todo[i + 1] /\ rest[k] = todo[k + 1]
    BY <1>1, <1>3
  <2> QED
    BY <1>4, <2>1 DEF Single
<1>6. Unbegun(rest)
  <2> SUFFICES ASSUME NEW i \in DOMAIN rest PROVE rest[i].op \notin {"schedule", "verify"}
    BY DEF Unbegun
  <2>1. i + 1 \in DOMAIN todo /\ rest[i] = todo[i + 1] /\ i + 1 # 1
    BY <1>1, <1>3
  <2> QED
    BY <1>4, <2>1 DEF Unbegun
<1>7. Fitting(rest)
  BY <1>1, <1>4 DEF Fitting
<1>8. ASSUME j.op \in {"cancel", "schedule"} PROVE Ordered(Rest(j))
  <2> DEFINE next == Rest(j)
  <2>1. /\ DOMAIN next = DOMAIN todo /\ next[1].of = todo[1].of /\ todo[1].op # "discard"
        /\ next[1].op \in Setting /\ todo[1].op \in Setting /\ next[1].op # "discard"
        /\ \A i \in DOMAIN todo : i # 1 => next[i] = todo[i]
    BY <1>1, <1>2, <1>8 DEF AfterCall, Setting
  <2> HIDE DEF next
  <2>2. Single(next)
    <3>1. \A i \in DOMAIN todo : /\ next[i].of = todo[i].of
                                /\ next[i].op = "discard" <=> todo[i].op = "discard"
      BY <2>1
    <3> QED
      BY <1>4, <2>1, <3>1 DEF Single
  <2>3. Unbegun(next)
    BY <1>4, <2>1 DEF Unbegun
  <2>4. Fits(next[1])
    BY <1>1, <1>4, <2>1 DEF Fits, Setting
  <2>5. Fitting(next)
    BY <1>4, <2>1, <2>4 DEF Fitting
  <2> QED
    BY <2>2, <2>3, <2>5 DEF Ordered, next
<1>9. Ordered(rest) /\ Ordered(Rest(j))
  BY <1>2, <1>5, <1>6, <1>7, <1>8 DEF Ordered
<1>10. ASSUME j.op # "discard" PROVE ~HasJob(rest, j.of)
  <2> SUFFICES ASSUME NEW i \in DOMAIN rest, rest[i].of = j.of PROVE FALSE
    BY DEF HasJob
  <2>1. i + 1 \in DOMAIN todo /\ 1 < i + 1 /\ todo[i + 1].of = todo[1].of
    BY <1>1, <1>3
  <2> QED
    BY <1>1, <1>4, <1>10, <2>1 DEF Single
<1>11. ASSUME NEW r \in Reminders
       PROVE  /\ HasJob(rest, r) => HasJob(todo, r)
              /\ HasJob(Rest(j), r) => HasJob(todo, r)
  <2>1. HasJob(rest, r) => HasJob(todo, r)
    BY <1>1 DEF HasJob
  <2>2. ASSUME j.op \in {"cancel", "schedule"}, HasJob(Rest(j), r) PROVE HasJob(todo, r)
    <3>1. PICK i \in DOMAIN todo : Rest(j)[i].of = r
      BY <1>2, <2>2 DEF HasJob
    <3>2. i \in DOMAIN todo /\ Rest(j)[1].of = todo[1].of
      BY <1>1, <1>2, <2>2, <3>1
    <3>3. todo[i].of = r
      BY <1>2, <2>2, <3>1, <3>2
    <3> QED
      BY <3>2, <3>3 DEF HasJob
  <2> QED
    BY <1>2, <2>1, <2>2
<1>12. ASSUME NEW r \in Reminders, HasJobs(todo, r, {"discard"})
       PROVE  HasJobs(Rest(j), r, {"discard"}) \/ j = [op |-> "discard", of |-> r]
  <2>1. PICK i \in DOMAIN todo : todo[i].of = r /\ todo[i].op = "discard"
    BY <1>12 DEF HasJobs
  <2>2. CASE i = 1
    BY <1>1, <2>1, <2>2 DEF Job
  <2>3. CASE i # 1 /\ j.op \in {"cancel", "schedule"}
    BY <1>2, <2>1, <2>3 DEF HasJobs
  <2>4. CASE i # 1 /\ j.op \notin {"cancel", "schedule"}
    BY <1>1, <1>2, <2>1, <2>4 DEF HasJobs
  <2> QED
    BY <2>2, <2>3, <2>4
<1>13. ASSUME NEW r \in Reminders, HasJobs(todo, r, Setting)
       PROVE  HasJobs(Rest(j), r, Setting) \/ j = [op |-> "verify", of |-> r]
  <2>1. PICK i \in DOMAIN todo : todo[i].of = r /\ todo[i].op \in Setting
    BY <1>13 DEF HasJobs
  <2>2. CASE i = 1 /\ j.op \in {"cancel", "schedule"}
    <3>1. AfterCall[j.op] \in Setting
      BY <2>2 DEF AfterCall, Setting
    <3>2. 1 \in DOMAIN Rest(j) /\ Rest(j)[1].of = r /\ Rest(j)[1].op \in Setting
      BY <1>1, <1>2, <2>1, <2>2, <3>1
    <3> QED
      BY <3>2 DEF HasJobs
  <2>3. CASE i = 1 /\ j.op \notin {"cancel", "schedule"}
    BY <1>1, <2>1, <2>3 DEF Job, Setting
  <2>4. CASE i # 1 /\ j.op \in {"cancel", "schedule"}
    BY <1>2, <2>1, <2>4 DEF HasJobs
  <2>5. CASE i # 1 /\ j.op \notin {"cancel", "schedule"}
    BY <1>1, <1>2, <2>1, <2>5 DEF HasJobs
  <2> QED
    BY <2>2, <2>3, <2>4, <2>5
<1> QED
  BY <1>4, <1>9, <1>10, <1>11, <1>12, <1>13 DEF todo, rest

-----------------------------------------------------------------------------
(* The list a run makes.                                                   *)

LEMMA Joined ==
  ASSUME NEW a \in Seq(Job), NEW b \in Seq(Job), Single(a), Single(b),
         \A x \in ToSet(a), y \in ToSet(b) :
           x.of = y.of => x.op = "discard" /\ y.op # "discard"
  PROVE  a \o b \in Seq(Job) /\ Single(a \o b) /\ ToSet(a \o b) = ToSet(a) \cup ToSet(b)
<1> DEFINE c == a \o b
<1>1. /\ c \in Seq(Job) /\ Len(c) = Len(a) + Len(b) /\ Len(a) \in Nat /\ Len(b) \in Nat
      /\ DOMAIN a = 1..Len(a) /\ DOMAIN b = 1..Len(b) /\ DOMAIN c = 1..(Len(a) + Len(b))
      /\ \A i \in 1..(Len(a) + Len(b)) : c[i] = IF i <= Len(a) THEN a[i] ELSE b[i - Len(a)]
  BY ConcatProperties, LenProperties
<1> HIDE DEF c
<1>2. \A k \in DOMAIN c : \/ k \in DOMAIN a /\ c[k] = a[k]
                          \/ /\ k \notin DOMAIN a /\ k - Len(a) \in DOMAIN b
                             /\ c[k] = b[k - Len(a)]
  BY <1>1
<1>3. \A k \in DOMAIN a : k \in DOMAIN c /\ c[k] = a[k]
  BY <1>1
<1>4. \A k \in DOMAIN b : k + Len(a) \in DOMAIN c /\ c[k + Len(a)] = b[k]
  BY <1>1
<1>5. Single(c)
  <2> SUFFICES ASSUME NEW i \in DOMAIN c, NEW k \in DOMAIN c, i < k, c[i].of = c[k].of
               PROVE  c[i].op = "discard" /\ c[k].op # "discard"
    BY DEF Single
  <2>1. CASE i \in DOMAIN a /\ k \in DOMAIN a
    BY <1>3, <2>1 DEF Single
  <2>2. CASE i \in DOMAIN a /\ k \notin DOMAIN a
    BY <1>2, <1>3, <2>2 DEF ToSet
  <2>3. CASE i \notin DOMAIN a
    <3>1. k \notin DOMAIN a /\ i - Len(a) < k - Len(a)
      BY <1>1, <2>3
    <3> QED
      BY <1>2, <2>3, <3>1 DEF Single
  <2> QED
    BY <2>1, <2>2, <2>3
<1>6. ToSet(c) = ToSet(a) \cup ToSet(b)
  <2>1. ToSet(c) \subseteq ToSet(a) \cup ToSet(b)
    BY <1>2 DEF ToSet
  <2>2. ToSet(a) \cup ToSet(b) \subseteq ToSet(c)
    BY <1>3, <1>4 DEF ToSet
  <2> QED
    BY <2>1, <2>2
<1> QED
  BY <1>1, <1>5, <1>6 DEF c

LEMMA JobsFit ==
  ASSUME Dated, NEW rs \in SUBSET Reminders,
         NEW kind \in Setting \cup {"discard", "free", "clear"}
  PROVE  /\ Jobs(kind, rs) \in Seq(Job) /\ Single(Jobs(kind, rs))
         /\ \A x \in ToSet(Jobs(kind, rs)) : x.op = kind /\ x.of \in rs
         /\ \A r \in rs : \E x \in ToSet(Jobs(kind, rs)) : x.op = kind /\ x.of = r
<1> DEFINE jobs == Jobs(kind, rs)
<1>1. /\ jobs \in Seq([op: {kind}, of: rs])
      /\ \A i, j \in DOMAIN jobs : i # j => jobs[i].of # jobs[j].of
      /\ \A r \in rs : \E i \in DOMAIN jobs : jobs[i].of = r
  BY JobsOf
<1> HIDE DEF jobs
<1>2. DOMAIN jobs = 1..Len(jobs) /\ Len(jobs) \in Nat
  BY <1>1, LenProperties
<1>3. \A i \in DOMAIN jobs : jobs[i] \in [op: {kind}, of: rs]
  BY <1>1, <1>2, ElementOfSeq
<1>4. [op: {kind}, of: rs] \subseteq Job
  BY DEF Job
<1>5. jobs \in Seq(Job)
  BY <1>1, <1>4, SeqMonotonic
<1>6. Single(jobs)
  BY <1>1, <1>2 DEF Single
<1>7. \A x \in ToSet(jobs) : x.op = kind /\ x.of \in rs
  BY <1>3 DEF ToSet
<1>8. ASSUME NEW r \in rs PROVE \E x \in ToSet(jobs) : x.op = kind /\ x.of = r
  <2>1. PICK i \in DOMAIN jobs : jobs[i].of = r
    BY <1>1, <1>8
  <2>2. jobs[i] \in ToSet(jobs)
    BY DEF ToSet
  <2> QED
    BY <1>7, <2>1, <2>2
<1> QED
  BY <1>5, <1>6, <1>7, <1>8 DEF jobs

\* The jobs of a run with a pending list.
Planned(stray, unset, limited, closed) ==
  Jobs("discard", stray) \o Jobs("cancel", unset)
    \o Jobs("free", limited) \o Jobs("clear", closed)

\* What those jobs are: one list in order, for the reminders they are of.
LEMMA PlanIsOrdered ==
  ASSUME Dated, NEW stray \in SUBSET Reminders, NEW unset \in SUBSET Desired,
         NEW closed \in SUBSET ToClean
  PROVE  LET todo == Planned(stray, unset, Eligible \ Desired, closed)
         IN  /\ todo \in Seq(Job) /\ Ordered(todo)
             /\ \A r \in stray : HasJobs(todo, r, {"discard"})
             /\ \A r \in unset : HasJobs(todo, r, Setting)
             /\ \A r \in Desired : HasJob(todo, r) => r \in stray \cup unset
             /\ \A i \in DOMAIN todo : todo[i].op \notin {"schedule", "verify"}
<1> DEFINE todo == Planned(stray, unset, Eligible \ Desired, closed)
<1> DEFINE limited == Eligible \ Desired
           a == Jobs("discard", stray)
           b == Jobs("cancel", unset)
           c == Jobs("free", limited)
           d == Jobs("clear", closed)
           ab == a \o b
           abc == ab \o c
<1>1. /\ Desired \subseteq Eligible /\ Eligible \subseteq Reminders
      /\ ToClean \subseteq Reminders /\ ToClean \cap Eligible = {}
      /\ unset \in SUBSET Reminders /\ limited \in SUBSET Reminders
      /\ closed \in SUBSET Reminders
  BY DEF Desired, Eligible, Attentive, Known, ToClean, Terminal
<1>2. /\ a \in Seq(Job) /\ Single(a)
      /\ \A x \in ToSet(a) : x.op = "discard" /\ x.of \in stray
      /\ \A r \in stray : \E x \in ToSet(a) : x.op = "discard" /\ x.of = r
  BY JobsFit
<1>3. /\ b \in Seq(Job) /\ Single(b)
      /\ \A x \in ToSet(b) : x.op = "cancel" /\ x.of \in unset
      /\ \A r \in unset : \E x \in ToSet(b) : x.op = "cancel" /\ x.of = r
  BY <1>1, JobsFit DEF Setting
<1>4. /\ c \in Seq(Job) /\ Single(c) /\ d \in Seq(Job) /\ Single(d)
      /\ \A x \in ToSet(c) : x.op = "free" /\ x.of \in limited
      /\ \A x \in ToSet(d) : x.op = "clear" /\ x.of \in closed
  BY <1>1, JobsFit
<1>5. /\ todo \in Seq(Job) /\ Single(todo)
      /\ ToSet(todo) = ToSet(a) \cup ToSet(b) \cup ToSet(c) \cup ToSet(d)
  <2>1. todo = abc \o d
    BY DEF Planned
  <2> HIDE DEF a, b, c, d, limited
  <2>2. ab \in Seq(Job) /\ Single(ab) /\ ToSet(ab) = ToSet(a) \cup ToSet(b)
    <3>1. \A x \in ToSet(a), y \in ToSet(b) :
            x.of = y.of => x.op = "discard" /\ y.op # "discard"
      BY <1>2, <1>3
    <3> QED
      BY <1>2, <1>3, <3>1, Joined
  <2> HIDE DEF ab
  <2>3. abc \in Seq(Job) /\ Single(abc) /\ ToSet(abc) = ToSet(ab) \cup ToSet(c)
    <3>1. \A x \in ToSet(ab), y \in ToSet(c) :
            x.of = y.of => x.op = "discard" /\ y.op # "discard"
      BY <1>1, <1>2, <1>3, <1>4, <2>2 DEF limited
    <3> QED
      BY <1>4, <2>2, <3>1, Joined
  <2> HIDE DEF abc
  <2>4. /\ abc \o d \in Seq(Job) /\ Single(abc \o d)
        /\ ToSet(abc \o d) = ToSet(abc) \cup ToSet(d)
    <3>1. \A x \in ToSet(abc), y \in ToSet(d) :
            x.of = y.of => x.op = "discard" /\ y.op # "discard"
      BY <1>1, <1>2, <1>3, <1>4, <2>2, <2>3 DEF limited
    <3> QED
      BY <1>4, <2>3, <3>1, Joined
  <2> QED
    BY <2>1, <2>2, <2>3, <2>4
<1> HIDE DEF a, b, c, d, ab, abc, todo
<1>6. \A i \in DOMAIN todo : todo[i] \in ToSet(todo)
  BY DEF ToSet
<1>7. \A i \in DOMAIN todo : todo[i].op \notin {"schedule", "verify"}
  BY <1>2, <1>3, <1>4, <1>5, <1>6
<1>8. Fitting(todo)
  BY <1>2, <1>3, <1>4, <1>5, <1>6 DEF Fitting, Fits, Setting
<1>9. \A x \in ToSet(todo) : \E i \in DOMAIN todo : todo[i] = x
  BY DEF ToSet
<1>10. ASSUME NEW r \in stray PROVE HasJobs(todo, r, {"discard"})
  <2>1. \E x \in ToSet(todo) : x.op = "discard" /\ x.of = r
    BY <1>2, <1>5, <1>10
  <2> QED
    BY <1>9, <2>1 DEF HasJobs
<1>11. ASSUME NEW r \in unset PROVE HasJobs(todo, r, Setting)
  <2>1. PICK x \in ToSet(todo) : x.op = "cancel" /\ x.of = r
    BY <1>3, <1>5, <1>11
  <2>2. PICK i \in DOMAIN todo : todo[i] = x
    BY <1>9
  <2>3. todo[i].op \in Setting /\ todo[i].of = r
    BY <2>1, <2>2 DEF Setting
  <2> QED
    BY <2>3 DEF HasJobs
<1>12. ASSUME NEW r \in Desired, HasJob(todo, r) PROVE r \in stray \cup unset
  <2>1. PICK i \in DOMAIN todo : todo[i].of = r
    BY <1>12 DEF HasJob
  <2> QED
    <3>1. todo[i] \in ToSet(a) \cup ToSet(b) \cup ToSet(c) \cup ToSet(d)
      BY <1>5, <1>6
    <3>2. r \notin limited /\ r \notin closed
      BY <1>1, <1>12
    <3> QED
      BY <1>2, <1>3, <1>4, <2>1, <3>1, <3>2
<1> QED
  BY <1>5, <1>7, <1>8, <1>10, <1>11, <1>12 DEF Ordered, Unbegun, todo

-----------------------------------------------------------------------------
(* What a call does to the run.                                            *)

\* The part of a run that its calls leave alone.
Continues(new) ==
  /\ new \in Run
  /\ new.at = run.at /\ new.now = run.now /\ new.current = run.current
  /\ new.source = run.source /\ new.older = run.older

LEMMA SucceedIs ==
  ASSUME TypeOK, run.todo # <<>>, NEW j, j = Head(run.todo)
  PROVE  /\ Continues(Succeed(j))
         /\ Succeed(j).todo = Rest(j) /\ ~Succeed(j).waiting
         /\ j.op = "verify" => Succeed(j).updates[j.of] = Bound(DueOf(j.of), "scheduled")
         /\ j.op = "clear" => Succeed(j).updates[j.of] = Clean
         /\ j.op \notin {"verify", "clear"} =>
              Succeed(j).updates[j.of] = run.updates[j.of]
         /\ \A r \in Reminders : r # j.of => Succeed(j).updates[r] = run.updates[r]
<1> DEFINE gone == IF j.op = "discard" THEN run.cancelled \cup {j.of} ELSE run.cancelled
           value == CASE j.op = "verify" -> Bound(DueOf(j.of), "scheduled")
                      [] j.op = "clear" -> Clean
                      [] OTHER -> run.updates[j.of]
           updates == [run.updates EXCEPT ![j.of] = value]
<1>1. run \in Run /\ j \in Job /\ Rest(j) \in Seq(Job)
  BY RestIs DEF TypeOK
<1>2. /\ j.of \in Reminders /\ run.updates \in [Reminders -> Binding]
      /\ run.cancelled \in SUBSET Reminders
  BY <1>1 DEF Job, Run
<1>3. DueOf(j.of) \in Times /\ "scheduled" \in States
  BY <1>2, SourceTyped DEF States
<1>4. value \in Binding
  BY <1>2, <1>3, Constants
<1>5. updates \in [Reminders -> Binding] /\ gone \in SUBSET Reminders
  BY <1>2, <1>4
<1>6. Succeed(j) = [run EXCEPT !.todo = Rest(j), !.waiting = FALSE,
                               !.cancelled = gone, !.updates = updates]
  BY <1>1 DEF Succeed, Run
<1>7. /\ updates[j.of] = value
      /\ \A r \in Reminders : r # j.of => updates[r] = run.updates[r]
  BY <1>2
<1> HIDE DEF gone, updates
<1>8. Continues(Succeed(j))
  BY <1>1, <1>5, <1>6 DEF Continues, Run
<1>9. Succeed(j).todo = Rest(j) /\ ~Succeed(j).waiting /\ Succeed(j).updates = updates
  BY <1>1, <1>6 DEF Run
<1> QED
  BY <1>7, <1>8, <1>9

\* The verdicts on a reminder that a call which failed, or was given up, can leave.
Failures(r) == {Bound(DueOf(r), "failed"), Bound(0, "failed"), Clean}

LEMMA FailIs ==
  ASSUME TypeOK, run.todo # <<>>, NEW j, j = Head(run.todo)
  PROVE  /\ Continues(Fail(j))
         /\ Fail(j).todo = Tail(run.todo) /\ ~Fail(j).waiting
         /\ \A r \in Reminders : Fail(j).updates[r] \in Failures(r) \cup {run.updates[r]}
         /\ j.op \in Setting => Fail(j).updates[j.of] = Bound(DueOf(j.of), "failed")
<1> DEFINE value == CASE j.op \in Setting -> Bound(DueOf(j.of), "failed")
                      [] j.op = "clear" -> Bound(0, "failed")
                      [] OTHER -> run.updates[j.of]
           updates == [run.updates EXCEPT ![j.of] = value]
<1>1. run \in Run /\ j \in Job /\ Tail(run.todo) \in Seq(Job)
  BY RestIs DEF TypeOK
<1>2. j.of \in Reminders /\ run.updates \in [Reminders -> Binding]
  BY <1>1 DEF Job, Run
<1>3. DueOf(j.of) \in Times /\ "failed" \in States
  BY <1>2, SourceTyped DEF States
<1>4. /\ value \in Binding /\ value \in Failures(j.of) \cup {run.updates[j.of]}
      /\ j.op \in Setting => value = Bound(DueOf(j.of), "failed")
  <2>1. value \in Binding /\ value \in Failures(j.of) \cup {run.updates[j.of]}
    BY <1>2, <1>3, Constants DEF Failures
  <2>2. j.op \in Setting => value = Bound(DueOf(j.of), "failed")
    BY DEF Setting
  <2> QED
    BY <2>1, <2>2
<1>5. updates \in [Reminders -> Binding]
  BY <1>2, <1>4
<1>6. Fail(j) = [run EXCEPT !.todo = Tail(run.todo), !.waiting = FALSE,
                            !.updates = updates]
  BY <1>1 DEF Fail, Run
<1> HIDE DEF value
<1>7. /\ \A r \in Reminders : updates[r] \in Failures(r) \cup {run.updates[r]}
      /\ j.op \in Setting => updates[j.of] = Bound(DueOf(j.of), "failed")
  BY <1>2, <1>4
<1> HIDE DEF updates
<1>8. Continues(Fail(j))
  BY <1>1, <1>5, <1>6 DEF Continues, Run
<1>9. /\ Fail(j).todo = Tail(run.todo) /\ ~Fail(j).waiting
      /\ Fail(j).updates = updates
  BY <1>1, <1>6 DEF Run
<1> QED
  BY <1>7, <1>8, <1>9

LEMMA GiveUpIs ==
  ASSUME TypeOK, GiveUp
  PROVE  /\ Continues(run') /\ run'.todo = <<>> /\ ~run'.waiting
         /\ \A r \in Reminders : run'.updates[r] \in Failures(r) \cup {run.updates[r]}
         /\ \A r \in Reminders :
              HasJobs(run.todo, r, Setting) => run'.updates[r] = Bound(DueOf(r), "failed")
<1> DEFINE value(r) ==
             IF \E i \in DOMAIN run.todo :
                  run.todo[i].of = r /\ run.todo[i].op \in Setting
               THEN Bound(DueOf(r), "failed")
             ELSE IF [op |-> "clear", of |-> r] \in ToSet(run.todo)
               THEN IF r \in run.cancelled THEN Clean ELSE Bound(0, "failed")
             ELSE run.updates[r]
           updates == [r \in Reminders |-> value(r)]
<1>1. run \in Run /\ run.updates \in [Reminders -> Binding]
  BY DEF TypeOK, Run
<1>2. ASSUME NEW r \in Reminders
      PROVE  /\ value(r) \in Binding /\ value(r) \in Failures(r) \cup {run.updates[r]}
             /\ HasJobs(run.todo, r, Setting) => value(r) = Bound(DueOf(r), "failed")
  <2>1. DueOf(r) \in Times /\ "failed" \in States
    BY SourceTyped DEF States
  <2> QED
    BY <1>1, <2>1, Constants DEF Failures, HasJobs
<1>3. run' = [run EXCEPT !.todo = <<>>, !.waiting = FALSE, !.updates = updates]
  BY <1>1 DEF GiveUp, Run
<1> HIDE DEF value
<1>4. updates \in [Reminders -> Binding]
  BY <1>2
<1>5. \A r \in Reminders :
        /\ updates[r] \in Failures(r) \cup {run.updates[r]}
        /\ HasJobs(run.todo, r, Setting) => updates[r] = Bound(DueOf(r), "failed")
  BY <1>2
<1> HIDE DEF updates
<1>6. <<>> \in Seq(Job)
  OBVIOUS
<1>7. Continues(run')
  BY <1>1, <1>3, <1>4, <1>6 DEF Continues, Run
<1>8. run'.todo = <<>> /\ ~run'.waiting /\ run'.updates = updates
  BY <1>1, <1>3 DEF Run
<1> QED
  BY <1>5, <1>7, <1>8

\* A run that has its answers begins its calls.
LEMMA ProceedIs ==
  ASSUME TypeOK, NEW todo \in Seq(Job), NEW updates \in [Reminders -> Binding],
         Proceed(todo, updates)
  PROVE  /\ run' \in Run /\ run'.at = "calls" /\ run'.todo = todo
         /\ run'.updates = updates /\ run'.waiting = run.waiting
         /\ run'.current = run.current /\ SourceKept
<1>1. run \in Run
  BY DEF TypeOK
<1> QED
  BY <1>1 DEF Proceed, Run, SourceKept

\* Whether the platform answers, and what it answers.
LEMMA AskIs ==
  ASSUME TypeOK, Ask
  PROVE  \/ Unavailable /\ disturbed'
         \/ Denied /\ disturbed'
         \/ Unlisted /\ disturbed'
         \/ Listed /\ disturbed' = disturbed
  BY DEF Ask

\* What is known without a list: nothing is called but for closed reminders.
LEMMA UnlistedIs ==
  ASSUME TypeOK, Unavailable \/ Denied \/ Unlisted
  PROVE  /\ run' \in Run /\ run'.at = "calls" /\ Ordered(run'.todo)
         /\ run'.waiting = run.waiting /\ run'.current = run.current /\ SourceKept
         /\ \A i \in DOMAIN run'.todo : run'.todo[i].op = "clear"
         /\ \A r \in Reminders : run'.updates[r] = NoBinding
               \/ \E t \in Times :
                    \E state \in {"unavailable", "failed", "permission_denied"} :
                      run'.updates[r] = Bound(t, state)
         /\ \A r \in Eligible : run'.updates[r] # NoBinding
<1>1. /\ Dated /\ \A r \in Reminders : DueOf(r) \in Times
      /\ ToClean \in SUBSET Reminders /\ Eligible \subseteq Reminders
  BY SourceTyped
<1>2. \A t \in Times : \A state \in {"unavailable", "failed", "permission_denied"} :
        Bound(t, state) \in Binding /\ Bound(t, state) # NoBinding
  <2>1. \A t, state : Bound(t, state).state = state
    BY DEF Bound
  <2>2. NoBinding.state = "none"
    BY DEF NoBinding
  <2> QED
    BY <2>1, <2>2, Constants DEF States
<1> DEFINE Verdicts == {NoBinding} \cup
             {Bound(t, state) : t \in Times,
                                state \in {"unavailable", "failed", "permission_denied"}}
           Without(todo, updates) ==
             /\ todo \in Seq(Job) /\ Ordered(todo)
             /\ \A i \in DOMAIN todo : todo[i].op = "clear"
             /\ updates \in [Reminders -> Verdicts]
             /\ \A r \in Eligible : updates[r] # NoBinding
<1>3. Verdicts \subseteq Binding
  BY <1>2, Constants
<1>4. Without(<<>>, UpdateAll("unavailable", "failed"))
      /\ Without(<<>>, UpdateAll("failed", "failed"))
  <2>1. <<>> \in Seq(Job) /\ DOMAIN <<>> = {}
    OBVIOUS
  <2>2. Ordered(<<>>)
    BY <2>1 DEF Ordered, Single, Unbegun, Fitting
  <2>3. \A state \in {"unavailable", "failed"} :
          /\ UpdateAll(state, "failed") \in [Reminders -> Verdicts]
          /\ \A r \in Eligible : UpdateAll(state, "failed")[r] = Bound(DueOf(r), state)
    BY <1>1, Constants DEF UpdateAll
  <2>4. \A state \in {"unavailable", "failed"} :
          \A r \in Eligible : UpdateAll(state, "failed")[r] # NoBinding
    BY <1>1, <1>2, <2>3
  <2> QED
    BY <2>1, <2>2, <2>3, <2>4
<1>5. Without(Jobs("clear", ToClean),
              [r \in Reminders |->
                 IF r \in Eligible THEN Bound(DueOf(r), "permission_denied")
                 ELSE NoBinding])
  <2> DEFINE jobs == Jobs("clear", ToClean)
  <2>1. /\ jobs \in Seq(Job) /\ Single(jobs)
        /\ \A x \in ToSet(jobs) : x.op = "clear" /\ x.of \in ToClean
    BY <1>1, JobsFit
  <2> HIDE DEF jobs
  <2>2. \A i \in DOMAIN jobs : jobs[i].op = "clear" /\ jobs[i].of \in ToClean
    BY <2>1 DEF ToSet
  <2>3. Ordered(jobs)
    BY <2>1, <2>2 DEF Ordered, Unbegun, Fitting, Fits, Setting
  <2> DEFINE updates == [r \in Reminders |->
               IF r \in Eligible THEN Bound(DueOf(r), "permission_denied") ELSE NoBinding]
  <2>4. /\ updates \in [Reminders -> Verdicts]
        /\ \A r \in Eligible : updates[r] = Bound(DueOf(r), "permission_denied")
    BY <1>1
  <2>5. \A r \in Eligible : updates[r] # NoBinding
    BY <1>1, <1>2, <2>4
  <2> QED
    BY <2>1, <2>2, <2>3, <2>4, <2>5 DEF jobs
<1> HIDE DEF Without
<1>6. PICK todo, updates : Proceed(todo, updates) /\ Without(todo, updates)
  <2>1. CASE Unavailable
    BY <1>4, <2>1 DEF Unavailable
  <2>2. CASE Unlisted
    BY <1>4, <2>2 DEF Unlisted
  <2>3. CASE Denied
    BY <1>5, <2>3 DEF Denied
  <2> QED
    BY <2>1, <2>2, <2>3
<1> USE DEF Without
<1>7. updates \in [Reminders -> Binding]
  BY <1>3, <1>6
<1>8. /\ run' \in Run /\ run'.at = "calls" /\ run'.todo = todo
      /\ run'.updates = updates /\ run'.waiting = run.waiting
      /\ run'.current = run.current /\ SourceKept
  BY <1>6, <1>7, ProceedIs
<1>9. /\ \A r \in Reminders : run'.updates[r] \in Verdicts
      /\ \A r \in Eligible : run'.updates[r] # NoBinding
  BY <1>6, <1>8
<1> QED
  BY <1>6, <1>8, <1>9

\* The reminders of the pending list whose alarm is the one that is wanted, and
\* whose binding says so.
InPlace == {r \in Desired : native[r] = DueOf(r) /\ native[r] # 0
                              /\ BoundAs(r).for = DueOf(r) /\ ~BoundAs(r).error}

LEMMA ListedIs ==
  ASSUME TypeOK, Listed
  PROVE  /\ run' \in Run /\ run'.at = "calls" /\ Ordered(run'.todo)
         /\ run'.waiting = run.waiting /\ run'.current = run.current /\ SourceKept
         /\ Unbegun(run'.todo)
         /\ \A i \in DOMAIN run'.todo : run'.todo[i].op \notin {"schedule", "verify"}
         /\ \A r \in Reminders : native[r] # 0 =>
              \/ HasJobs(run'.todo, r, {"discard"})
              \/ native[r] = DueOf(r) /\ r \in Desired \cup Preserved
         /\ \A r \in Desired \ InPlace : HasJobs(run'.todo, r, Setting)
         /\ \A r \in InPlace : ~HasJob(run'.todo, r)
         /\ \A r \in InPlace : run'.updates[r] = Bound(DueOf(r), "scheduled")
         /\ \A r \in Eligible \ Desired : run'.updates[r] = Bound(DueOf(r), "unavailable")
         /\ \A r \in Reminders \ (InPlace \cup (Eligible \ Desired)) :
              run'.updates[r] = NoBinding
<1> DEFINE listed  == {r \in Reminders : native[r] # 0}
           valid   == {r \in Desired \cap listed : native[r] = DueOf(r)}
           kept    == valid \cup {r \in Preserved : native[r] = DueOf(r)}
           current == {r \in valid : BoundAs(r).for = DueOf(r) /\ ~BoundAs(r).error}
           limited == Eligible \ Desired
           stray   == listed \ kept
           unset   == Desired \ current
           todo    == Planned(stray, unset, limited, ToClean)
           updates == UpdateListed(current, limited)
<1>1. /\ Dated /\ \A r \in Reminders : DueOf(r) \in Times
      /\ ToClean \in SUBSET Reminders /\ Desired \subseteq Eligible
      /\ Eligible \subseteq Reminders
  BY SourceTyped
<1>2. Proceed(todo, updates)
  BY DEF Listed, Planned
<1>3. current = InPlace /\ InPlace \subseteq Desired
  BY <1>1 DEF InPlace
<1>4. /\ stray \in SUBSET Reminders /\ unset \in SUBSET Desired
      /\ InPlace \cap stray = {} /\ unset = Desired \ InPlace
  BY <1>3
<1>5. \A r \in Reminders : native[r] # 0 =>
        r \in stray \/ (native[r] = DueOf(r) /\ r \in Desired \cup Preserved)
  OBVIOUS
<1> HIDE DEF listed, valid, kept, current, stray, unset
<1>6. /\ todo \in Seq(Job) /\ Ordered(todo)
      /\ \A r \in stray : HasJobs(todo, r, {"discard"})
      /\ \A r \in unset : HasJobs(todo, r, Setting)
      /\ \A r \in Desired : HasJob(todo, r) => r \in stray \cup unset
      /\ \A i \in DOMAIN todo : todo[i].op \notin {"schedule", "verify"}
  <2>1. todo = Planned(stray, unset, Eligible \ Desired, ToClean)
    OBVIOUS
  <2> HIDE DEF todo
  <2>2. ToClean \in SUBSET ToClean
    OBVIOUS
  <2> QED
    BY <1>1, <1>4, <2>1, <2>2, PlanIsOrdered
<1>7. updates \in [Reminders -> Binding]
  <2>1. \A r \in Reminders : /\ Bound(DueOf(r), "scheduled") \in Binding
                             /\ Bound(DueOf(r), "unavailable") \in Binding
    BY <1>1, Constants DEF States
  <2> QED
    BY <2>1, Constants DEF UpdateListed
<1>8. /\ \A r \in Reminders : r \in current => updates[r] = Bound(DueOf(r), "scheduled")
      /\ \A r \in Reminders : r \in limited => updates[r] = Bound(DueOf(r), "unavailable")
      /\ \A r \in Reminders : r \notin current \cup limited => updates[r] = NoBinding
  BY <1>3 DEF UpdateListed
<1> HIDE DEF todo, updates, limited
<1>9. /\ run' \in Run /\ run'.at = "calls" /\ run'.todo = todo
      /\ run'.updates = updates /\ run'.waiting = run.waiting
      /\ run'.current = run.current /\ SourceKept
  BY <1>2, <1>6, <1>7, ProceedIs
<1>10. \A r \in InPlace : ~HasJob(todo, r)
  BY <1>3, <1>4, <1>6
<1>11. /\ \A r \in InPlace : updates[r] = Bound(DueOf(r), "scheduled")
       /\ \A r \in Eligible \ Desired : updates[r] = Bound(DueOf(r), "unavailable")
       /\ \A r \in Reminders \ (InPlace \cup (Eligible \ Desired)) :
            updates[r] = NoBinding
  BY <1>1, <1>3, <1>8 DEF limited
<1> QED
  BY <1>4, <1>5, <1>6, <1>9, <1>10, <1>11 DEF Ordered

-----------------------------------------------------------------------------
(* The commits.                                                            *)

\* A binding that names a time without an error says that its alarm is set.
Sound(b) == b.for # 0 /\ ~b.error => b.state = "scheduled"

LEMMA BindingsMade ==
  /\ Sound(NoBinding) /\ Sound(Clean)
  /\ \A t \in Times, state \in States \ {"none", "cancelled"} : Sound(Bound(t, state))
  /\ \A t \in Times : Unsynced(t) \in Binding /\ Sound(Unsynced(t))
<1>1. Sound(NoBinding) /\ Sound(Clean)
  BY DEF Sound, NoBinding, Clean, Bound
<1>2. \A t \in Times, state \in States \ {"none", "cancelled"} : Sound(Bound(t, state))
  BY DEF Sound, Bound, States
<1>3. ASSUME NEW t \in Times PROVE Unsynced(t) \in Binding /\ Sound(Unsynced(t))
  <2>1. "unavailable" \in States \ {"none", "cancelled"}
    BY DEF States
  <2> QED
    BY <1>1, <1>2, <1>3, <2>1, Constants DEF Unsynced
<1> QED
  BY <1>1, <1>2, <1>3

LEMMA CommitIs ==
  ASSUME TypeOK, NEW r \in Reminders, NEW due \in Times,
         NEW status \in {"active", "closed"}, Commit(r, due, status)
  PROVE  /\ item' \in [Reminders -> Item] /\ ~notice.made
         /\ item'[r] # item[r] /\ item'[r].revision > 0
         /\ \A s \in Reminders : s # r => item'[s] = item[s]
         /\ UNCHANGED <<clock, platform, pending, run, disturbed, crashes>>
<1> DEFINE new == [due |-> due, status |-> status, revision |-> item[r].revision + 1]
<1>1. item \in [Reminders -> Item] /\ item[r].revision \in Nat
  BY DEF TypeOK, Item
<1>2. item' = [item EXCEPT ![r] = new] /\ ~notice.made
  BY DEF Commit
<1>3. new \in Item /\ new.revision > 0 /\ new.revision # item[r].revision
  BY <1>1 DEF Item
<1>4. UNCHANGED <<clock, platform, pending, run, disturbed, crashes>>
  BY DEF Commit
<1> HIDE DEF new
<1> QED
  BY <1>1, <1>2, <1>3, <1>4

LEMMA AnnouncingIs ==
  ASSUME TypeOK, NEW fresh \in BOOLEAN, NEW prompt \in BOOLEAN, Announcing(fresh, prompt)
  PROVE  notice' \in Notice /\ notice'.made /\ notice'.now = clock
<1>1. clock \in Times
  BY Constants DEF TypeOK
<1> QED
  BY <1>1 DEF Announcing, Notice

\* What an edit does: it changes a row, with or without its binding, and leaves
\* a notice of it.
LEMMA EditIs ==
  ASSUME TypeOK, Edit
  PROVE  /\ UNCHANGED <<clock, platform, pending, run, disturbed, crashes>>
         /\ ~notice.made /\ notice' \in Notice /\ notice'.made /\ notice'.now = clock
         /\ item' \in [Reminders -> Item] /\ binding' \in [Reminders -> Binding]
         /\ \A r \in Reminders :
              /\ item'[r] = item[r] \/ item'[r].revision > 0
              /\ item'[r] = item[r] => binding'[r] = binding[r]
              /\ binding'[r] = binding[r] \/ Sound(binding'[r])
<1> DEFINE Edited(r, due, status, fresh, prompt) ==
             /\ due \in Times /\ status \in {"active", "closed"}
             /\ fresh \in BOOLEAN /\ prompt \in BOOLEAN
             /\ Commit(r, due, status) /\ Announcing(fresh, prompt)
             /\ \/ UNCHANGED binding
                \/ binding' = [binding EXCEPT ![r] = Unsynced(due)]
<1>1. /\ item \in [Reminders -> Item] /\ binding \in [Reminders -> Binding]
      /\ clock \in Nat /\ \A r \in Reminders : item[r].due \in Times /\ item[r].due \in Nat
  BY Constants DEF TypeOK, Item
<1>2. PICK r \in Reminders :
        \E due, status, fresh, prompt : Edited(r, due, status, fresh, prompt)
  <2>1. PICK r \in Reminders :
          \/ \E due \in Times :
               CreateReminder(r, due) \/ Reschedule(r, due) \/ SyncLinkedReminder(r, due)
          \/ Close(r) \/ Reopen(r)
    BY DEF Edit
  <2>2. ASSUME NEW due \in Times, CreateReminder(r, due)
        PROVE  Edited(r, due, "active", r \notin Linked, r \notin Linked)
    BY <2>2 DEF CreateReminder
  <2>3. ASSUME NEW due \in Times, Reschedule(r, due)
        PROVE  \E prompt : Edited(r, due, "active", TRUE, prompt)
    <3>1. MutateReminder(r, due, "active", due > clock)
      BY <2>3 DEF Reschedule
    <3>2. (due > clock) \in BOOLEAN
      BY <1>1
    <3>3. PICK prompt \in BOOLEAN : MutateReminder(r, due, "active", prompt)
      BY <3>1, <3>2, Zenon
    <3> QED
      BY <3>3 DEF MutateReminder
  <2>4. ASSUME NEW due \in Times, SyncLinkedReminder(r, due)
        PROVE  Edited(r, due, IF due = 0 THEN "closed" ELSE "active", FALSE, FALSE)
    BY <2>4 DEF SyncLinkedReminder
  <2>5. ASSUME Close(r) PROVE Edited(r, item[r].due, "closed", TRUE, FALSE)
    BY <1>1, <2>5 DEF Close, MutateReminder
  <2>6. ASSUME Reopen(r)
        PROVE  \E prompt : Edited(r, item[r].due, "active", TRUE, prompt)
    <3>1. PICK prompt \in {FALSE, item[r].due > clock} :
            MutateReminder(r, item[r].due, "active", prompt)
      BY <2>6 DEF Reopen
    <3>2. (item[r].due > clock) \in BOOLEAN
      BY <1>1
    <3> QED
      BY <1>1, <3>1, <3>2 DEF MutateReminder
  <2> HIDE DEF Edited
  <2> QED
    BY <2>1, <2>2, <2>3, <2>4, <2>5, <2>6
<1>3. PICK due, status, fresh, prompt : Edited(r, due, status, fresh, prompt)
  BY <1>2
<1>4. /\ item' \in [Reminders -> Item] /\ ~notice.made
      /\ item'[r] # item[r] /\ item'[r].revision > 0
      /\ \A s \in Reminders : s # r => item'[s] = item[s]
      /\ UNCHANGED <<clock, platform, pending, run, disturbed, crashes>>
  BY <1>3, CommitIs
<1>5. notice' \in Notice /\ notice'.made /\ notice'.now = clock
  BY <1>3, AnnouncingIs
<1>6. /\ binding' \in [Reminders -> Binding]
      /\ binding'[r] = binding[r] \/ Sound(binding'[r])
      /\ \A s \in Reminders : s # r => binding'[s] = binding[s]
  <2>1. Unsynced(due) \in Binding /\ Sound(Unsynced(due))
    BY <1>3, BindingsMade
  <2> QED
    BY <1>1, <1>3, <2>1
<1> QED
  BY <1>4, <1>5, <1>6

-----------------------------------------------------------------------------
(* The platform.                                                           *)

\* What lands on a reminder: an alarm that is still to come, or nothing.
LEMMA LandIs ==
  ASSUME TypeOK, NEW rs \in SUBSET Reminders, Land(rs)
  PROVE  /\ native' \in [Reminders -> Times] /\ shown' \subseteq Reminders
         /\ \A r \in Reminders \ rs : native'[r] = native[r]
         /\ \A r \in rs : native'[r] = 0 \/ (/\ attempts[r].op = "schedule"
                                             /\ native'[r] = attempts[r].at
                                             /\ native'[r] > clock)
         /\ \A r \in rs : attempts[r].op = "schedule" =>
              IF attempts[r].at > clock THEN native'[r] = attempts[r].at
                                        ELSE native'[r] = 0
<1>1. \A r \in Reminders : attempts[r].at \in Times /\ attempts[r].at \in Nat
  BY Constants DEF TypeOK, Call
<1>2. clock \in Nat /\ 0 \in Times /\ native \in [Reminders -> Times]
  BY Constants DEF TypeOK
<1>3. native' = [r \in Reminders |->
                   IF r \notin rs THEN native[r]
                   ELSE IF r \in Scheduled(rs) \ Overdue(rs) THEN attempts[r].at
                   ELSE 0]
  BY DEF Land
<1>4. \A r \in rs : /\ r \in Scheduled(rs) <=> attempts[r].op = "schedule"
                    /\ r \in Overdue(rs) <=> /\ attempts[r].op = "schedule"
                                             /\ attempts[r].at <= clock
  BY DEF Scheduled, Overdue
<1>5. \A r \in rs : native'[r] = IF attempts[r].op = "schedule" /\ attempts[r].at > clock
                                 THEN attempts[r].at ELSE 0
  BY <1>1, <1>2, <1>3, <1>4
<1>6. native' \in [Reminders -> Times]
  BY <1>1, <1>2, <1>3
<1>7. shown' \subseteq Reminders
  BY DEF Land, TypeOK, Overdue, Scheduled
<1>8. \A r \in Reminders \ rs : native'[r] = native[r]
  BY <1>3
<1> QED
  BY <1>1, <1>5, <1>6, <1>7, <1>8

-----------------------------------------------------------------------------
(* The types.                                                              *)

LEMMA AnswerIs ==
  ASSUME TypeOK, NEW r \in Reminders, Answer(r)
  PROVE  /\ attempts[r] # NoCall /\ attempts' = [attempts EXCEPT ![r] = NoCall]
         /\ UNCHANGED <<clock, item, notice, crashes, binding, pending>>
         /\ \/ /\ Land({r}) /\ UNCHANGED disturbed
               /\ run' = IF run.waiting /\ Head(run.todo).of = r
                           THEN Succeed(Head(run.todo)) ELSE run
            \/ /\ UNCHANGED native /\ UNCHANGED shown /\ disturbed'
               /\ run' = IF run.waiting /\ Head(run.todo).of = r
                           THEN Fail(Head(run.todo)) ELSE run
  BY DEF Answer, RunStep

\* A call of a run, one by one.
LEMMA NextCallIs ==
  ASSUME TypeOK, NextCall, NEW j, j = Head(run.todo)
  PROVE  /\ run.at = "calls" /\ run.current /\ ~run.waiting /\ run.todo # <<>>
         /\ UNCHANGED <<clock, item, notice, crashes, binding, pending, native, shown>>
         /\ \/ /\ j.op = "clear" /\ run' = Succeed(j)
               /\ UNCHANGED <<attempts, disturbed>>
            \/ /\ j.op = "verify" /\ native[j.of] = DueOf(j.of)
               /\ run' = Succeed(j) /\ UNCHANGED attempts /\ disturbed' = disturbed
            \/ run' = Fail(j) /\ disturbed' = TRUE /\ UNCHANGED attempts
            \/ /\ j.op # "verify" /\ run' = [run EXCEPT !.waiting = TRUE]
               /\ attempts' = [attempts EXCEPT ![j.of] = CallOf(j)]
               /\ UNCHANGED disturbed
            \/ GiveUp
<1>1. /\ run.at = "calls" /\ run.current /\ ~run.waiting /\ run.todo # <<>>
      /\ UNCHANGED <<clock, item, notice, crashes, binding, pending>>
      /\ Skip(j) \/ Verify(j) \/ Start(j) \/ Join(j) \/ GiveUp
  BY DEF NextCall, RunStep, Conflict
<1>2. /\ j \in Job /\ attempts \in [Reminders -> Call] /\ disturbed \in BOOLEAN
      /\ j.of \in Reminders
  <2>1. j \in Job
    BY <1>1, RestIs
  <2> QED
    BY <2>1 DEF TypeOK, Job
<1>3. ASSUME Skip(j)
      PROVE  /\ UNCHANGED platform /\ j.op = "clear" /\ run' = Succeed(j)
             /\ UNCHANGED disturbed
  BY <1>3 DEF Skip, Discarded
<1>4. ASSUME Verify(j)
      PROVE  /\ UNCHANGED platform
             /\ \/ /\ j.op = "verify" /\ native[j.of] = DueOf(j.of)
                   /\ run' = Succeed(j) /\ disturbed' = disturbed
                \/ run' = Fail(j) /\ disturbed' = TRUE
  BY <1>2, <1>4 DEF Verify, Disturb
<1>5. ASSUME Start(j)
      PROVE  /\ UNCHANGED <<native, shown>>
             /\ \/ run' = Fail(j) /\ disturbed' = TRUE /\ UNCHANGED attempts
                \/ /\ j.op # "verify" /\ run' = [run EXCEPT !.waiting = TRUE]
                   /\ attempts' = [attempts EXCEPT ![j.of] = CallOf(j)]
                   /\ UNCHANGED disturbed
  BY <1>5 DEF Start, Calls
<1>6. ASSUME Join(j)
      PROVE  /\ UNCHANGED <<native, shown>>
             /\ j.op # "verify" /\ run' = [run EXCEPT !.waiting = TRUE]
             /\ attempts' = [attempts EXCEPT ![j.of] = CallOf(j)]
             /\ UNCHANGED disturbed
  <2>1. /\ UNCHANGED <<native, shown>> /\ j.op # "verify"
        /\ run' = [run EXCEPT !.waiting = TRUE] /\ UNCHANGED disturbed
        /\ attempts' = attempts /\ attempts[j.of] = CallOf(j)
    BY <1>6 DEF Join, Calls, platform
  <2> QED
    BY <1>2, <2>1
<1>7. ASSUME GiveUp PROVE UNCHANGED <<native, shown>>
  BY <1>7 DEF GiveUp, platform
<1> QED
  BY <1>1, <1>3, <1>4, <1>5, <1>6, <1>7 DEF platform

\* A run that waits for its call is otherwise the same run.
LEMMA WaitingIs ==
  ASSUME TypeOK, run' = [run EXCEPT !.waiting = TRUE]
  PROVE  /\ Continues(run') /\ run'.waiting /\ run'.todo = run.todo
         /\ run'.updates = run.updates
  BY DEF TypeOK, Run, Continues

LEMMA ContinuesTyped ==
  ASSUME TypeOK, run.waiting => run.todo # <<>>,
         NextCall \/ Timeout \/ (\E r \in Reminders : Answer(r))
  PROVE  /\ run' \in Run /\ native' \in [Reminders -> Times] /\ shown' \subseteq Reminders
         /\ attempts' \in [Reminders -> Call] /\ disturbed' \in BOOLEAN
<1>1. /\ run \in Run /\ native \in [Reminders -> Times] /\ shown \subseteq Reminders
      /\ attempts \in [Reminders -> Call] /\ disturbed \in BOOLEAN
  BY DEF TypeOK
<1>2. CASE NextCall
  <2> DEFINE j == Head(run.todo)
  <2>1. run.todo # <<>> /\ j \in Job
    BY <1>2, RestIs DEF NextCall
  <2>2. j.of \in Reminders /\ CallOf(j) \in Call
    BY <2>1, SourceTyped, Constants DEF Job, CallOf, Call
  <2> HIDE DEF j
  <2>3. /\ UNCHANGED native /\ UNCHANGED shown
        /\ \/ run' = Succeed(j) /\ UNCHANGED attempts /\ disturbed' = disturbed
           \/ run' = Fail(j) /\ UNCHANGED attempts /\ disturbed' = TRUE
           \/ /\ run' = [run EXCEPT !.waiting = TRUE] /\ disturbed' = disturbed
              /\ attempts' = [attempts EXCEPT ![j.of] = CallOf(j)]
           \/ GiveUp
    BY <1>2, NextCallIs DEF j
  <2>4. Continues(Succeed(j)) /\ Continues(Fail(j))
    BY <2>1, SucceedIs, FailIs DEF j
  <2>5. GiveUp => Continues(run') /\ UNCHANGED attempts /\ disturbed' = TRUE
    BY GiveUpIs DEF GiveUp, platform
  <2>6. run' = [run EXCEPT !.waiting = TRUE] => run' \in Run
    BY WaitingIs DEF Continues
  <2> QED
    BY <1>1, <2>2, <2>3, <2>4, <2>5, <2>6 DEF Continues
<1>3. CASE Timeout
  BY <1>1, <1>3, GiveUpIs DEF Timeout, GiveUp, platform, Continues
<1>4. ASSUME NEW r \in Reminders, Answer(r)
      PROVE  /\ run' \in Run /\ native' \in [Reminders -> Times]
             /\ shown' \subseteq Reminders
             /\ attempts' \in [Reminders -> Call] /\ disturbed' \in BOOLEAN
  <2>1. /\ attempts' = [attempts EXCEPT ![r] = NoCall]
        /\ \/ Land({r}) /\ UNCHANGED disturbed
           \/ UNCHANGED native /\ UNCHANGED shown /\ disturbed'
    BY <1>4, AnswerIs
  <2>2. attempts' \in [Reminders -> Call]
    BY <1>1, <2>1, Constants
  <2>3. Land({r}) => native' \in [Reminders -> Times] /\ shown' \subseteq Reminders
    BY LandIs
  <2>4. run' \in Run
    <3>1. CASE run.waiting /\ Head(run.todo).of = r
      <4>1. run' = Succeed(Head(run.todo)) \/ run' = Fail(Head(run.todo))
        BY <1>4, <3>1, AnswerIs
      <4> QED
        BY <3>1, <4>1, SucceedIs, FailIs DEF Continues
    <3>2. CASE ~(run.waiting /\ Head(run.todo).of = r)
      BY <1>1, <1>4, <3>2, AnswerIs
    <3> QED
      BY <3>1, <3>2
  <2>5. disturbed' \in BOOLEAN
    BY <1>1, <1>4, AnswerIs
  <2> QED
    BY <1>1, <2>1, <2>2, <2>3, <2>4, <2>5
<1> QED
  BY <1>2, <1>3, <1>4

\* What the announcement of a commit does: a run at once, or a request that
\* waits behind the run under way.
LEMMA AnnounceIs ==
  ASSUME TypeOK, Announce
  PROVE  /\ notice' = NoNotice /\ notice.made
         /\ UNCHANGED <<clock, database, platform, crashes>>
         /\ \/ /\ run.at = "idle" /\ Begun /\ run'.at # "idle" /\ run'.now = notice.now
               /\ pending' = NoRequest
               /\ run'.older = InFlight /\ disturbed' = InFlight
            \/ /\ run.at # "idle" /\ run' \in {run, [run EXCEPT !.current = FALSE]}
               /\ pending' \in Request /\ pending'.asked /\ pending'.now = notice.now
               /\ disturbed' = disturbed
<1>1. /\ notice.now \in Times /\ notice.prompt \in BOOLEAN
      /\ pending.now \in Times /\ pending.prompt \in BOOLEAN
  BY DEF TypeOK, Notice, Request
<1>2. /\ notice' = NoNotice /\ notice.made
      /\ UNCHANGED <<clock, database, platform, crashes>>
  BY DEF Announce
<1>3. CASE run.at = "idle"
  <2> DEFINE prompt == pending.prompt \/ notice.prompt
  <2>1. StartRun(notice.now, prompt) /\ pending' = NoRequest
    BY <1>3 DEF Announce
  <2>2. prompt \in BOOLEAN
    OBVIOUS
  <2> HIDE DEF prompt
  <2>3. /\ Begun /\ run'.at # "idle" /\ run'.now = notice.now
        /\ run'.older = InFlight /\ disturbed' = InFlight
    BY <1>1, <2>1, <2>2, NewRun
  <2> QED
    BY <1>2, <1>3, <2>1, <2>3
<1>4. CASE run.at # "idle"
  <2> DEFINE prompt == pending.prompt \/ notice.prompt
  <2>1. pending' = [asked |-> TRUE, now |-> notice.now, prompt |-> prompt]
    BY <1>4 DEF Announce
  <2>2. prompt \in BOOLEAN
    OBVIOUS
  <2>3. run' \in {run, [run EXCEPT !.current = FALSE]} /\ disturbed' = disturbed
    BY <1>4 DEF Announce
  <2> HIDE DEF prompt
  <2>4. pending' \in Request /\ pending'.asked /\ pending'.now = notice.now
    BY <1>1, <2>1, <2>2 DEF Request
  <2> QED
    BY <1>2, <1>4, <2>3, <2>4
<1> QED
  BY <1>3, <1>4

\* Every variable stays in its type, as long as a call is waited for only where
\* there is one.
LEMMA TypeStep ==
  ASSUME TypeOK, run.waiting => run.todo # <<>>, [Next]_vars
  PROVE  TypeOK'
<1>1. /\ clock \in 0..MaxClock /\ clock \in Times
      /\ item \in [Reminders -> Item] /\ binding \in [Reminders -> Binding]
      /\ native \in [Reminders -> Times] /\ shown \subseteq Reminders
      /\ attempts \in [Reminders -> Call] /\ notice \in Notice
      /\ pending \in Request /\ run \in Run
      /\ disturbed \in BOOLEAN /\ crashes \in 0..MaxCrashes
  BY Constants DEF TypeOK
<1>2. /\ notice.now \in Times /\ notice.prompt \in BOOLEAN
      /\ pending.now \in Times /\ pending.prompt \in BOOLEAN
  BY <1>1 DEF Notice, Request
<1>3. ASSUME Edit PROVE TypeOK'
  BY <1>1, <1>3, EditIs DEF TypeOK, platform
<1>4. ASSUME Announce PROVE TypeOK'
  <2>1. [run EXCEPT !.current = FALSE] \in Run
    BY <1>1 DEF Run
  <2>2. run' \in Run /\ pending' \in Request /\ disturbed' \in BOOLEAN
    BY <1>1, <1>4, <2>1, AnnounceIs, Constants DEF Begun, InFlight
  <2> QED
    BY <1>1, <1>4, <2>2, AnnounceIs, Constants DEF TypeOK, database, platform
<1>5. ASSUME Prompt PROVE TypeOK'
  <2>1. run' \in Run /\ disturbed' \in BOOLEAN
    <3>1. CASE run.current
      <4>1. PICK answer \in Permissions \cup {"failed"} :
              run' = [run EXCEPT !.at = "read", !.permission = answer, !.now = clock]
        BY <1>5, <3>1 DEF Prompt
      <4>2. answer \in {"unknown", "granted", "denied", "failed"}
        BY <4>1, ReminderAssumption
      <4> QED
        BY <1>1, <1>5, <3>1, <4>1, <4>2 DEF Prompt, Run
    <3>2. CASE ~run.current
      BY <1>2, <1>5, <3>2, NewRun DEF Prompt, Begun, InFlight
    <3> QED
      BY <3>1, <3>2
  <2>2. pending' \in Request
    <3>1. CASE run.current
      BY <1>1, <1>5, <3>1 DEF Prompt, Request
    <3>2. CASE ~run.current
      BY <1>5, <3>2, Constants DEF Prompt
    <3> QED
      BY <3>1, <3>2
  <2> QED
    BY <1>1, <1>5, <2>1, <2>2 DEF Prompt, RunStep, TypeOK, platform
<1>6. ASSUME Read PROVE TypeOK'
  <2>1. [r \in Reminders |-> [item |-> item[r], binding |-> binding[r]]]
          \in [Reminders -> Source]
    BY <1>1 DEF Source
  <2>2. run' \in Run
    BY <1>1, <1>6, <2>1 DEF Read, Run
  <2> QED
    BY <1>1, <1>6, <2>2 DEF Read, RunStep, TypeOK, platform
<1>7. ASSUME Ask PROVE TypeOK'
  <2>1. run' \in Run
    BY <1>7, AskIs, ListedIs, UnlistedIs
  <2> QED
    BY <1>1, <1>7, <2>1 DEF Ask, RunStep, TypeOK, platform
<1>8. ASSUME NextCall \/ Timeout PROVE TypeOK'
  <2>1. UNCHANGED <<clock, item, notice, crashes, binding, pending>>
    BY <1>8 DEF NextCall, Timeout, RunStep
  <2> QED
    BY <1>1, <1>8, <2>1, ContinuesTyped DEF TypeOK
<1>9. ASSUME NEW r \in Reminders, Answer(r) PROVE TypeOK'
  <2>1. UNCHANGED <<clock, item, notice, crashes, binding, pending>>
    BY <1>9, AnswerIs
  <2> QED
    BY <1>1, <1>9, <2>1, ContinuesTyped DEF TypeOK
<1>10. ASSUME Write PROVE TypeOK'
  <2>1. binding' \in [Reminders -> Binding]
    BY <1>1, <1>10 DEF Write, Run
  <2> QED
    BY <1>1, <1>10, <2>1, RunEnds DEF Write, RunStep, TypeOK, platform, Begun
<1>11. ASSUME Overtaken PROVE TypeOK'
  BY <1>1, <1>11, RunEnds DEF Overtaken, RunStep, TypeOK, platform, Begun
<1>15. ASSUME Refuse PROVE TypeOK'
  BY <1>1, <1>15, IdleIsRun DEF Refuse, RunStep, TypeOK, platform
<1>12. ASSUME Tick PROVE TypeOK'
  <2>1. clock' \in 0..MaxClock
    BY <1>1, <1>12, ReminderAssumption DEF Tick
  <2>2. native' \in [Reminders -> Times] /\ shown' \subseteq Reminders
    BY <1>1, <1>12, Constants DEF Tick
  <2> QED
    BY <1>1, <1>12, <2>1, <2>2 DEF Tick, TypeOK, database
<1>13. ASSUME Crash PROVE TypeOK'
  <2>1. native' \in [Reminders -> Times] /\ shown' \subseteq Reminders
    BY <1>13, LandIs DEF Crash
  <2>2. crashes' \in 0..MaxCrashes
    BY <1>1, <1>13, ReminderAssumption DEF Crash
  <2>3. run' \in Run
    BY <1>1, <1>13, IdleIsRun DEF Crash
  <2> QED
    BY <1>1, <1>13, <2>1, <2>2, <2>3, Constants DEF Crash, TypeOK, database
<1>14. CASE UNCHANGED vars
  BY <1>14 DEF vars, TypeOK
<1> QED
  BY <1>3, <1>4, <1>5, <1>6, <1>7, <1>8, <1>9, <1>10, <1>11, <1>12, <1>13, <1>14,
     <1>15 DEF Next, Drain

-----------------------------------------------------------------------------
(* The invariant.                                                          *)

\* An open reminder has a row, and no binding claims a time it is not set for.
RowsInv ==
  \A r \in Reminders :
    /\ item[r].status = "active" => Exists(r)
    /\ Sound(binding[r]) /\ Sound(BoundAs(r)) /\ Sound(run.updates[r])

\* Requests are of the past, and alarms of the future.
TimeInv ==
  /\ notice.now <= clock /\ pending.now <= clock /\ run.now <= clock
  /\ \A r \in Reminders : native[r] # 0 => native[r] > clock

\* A run is overtaken only by a request, and nothing changes the rows it read
\* without a request, or the notice of one.
ReadInv ==
  /\ ~run.current => pending.asked
  /\ run.at \in {"ask", "calls"} /\ ~pending.asked /\ ~notice.made =>
       \A r \in Reminders : AsRead(r)

\* The call a run waits for is that of its first job.
CallInv ==
  run.waiting =>
    /\ run.at = "calls" /\ run.todo # <<>> /\ Head(run.todo).op # "verify"
    /\ attempts[Head(run.todo).of] = CallOf(Head(run.todo))

\* The alarm a run looked for is there, or has fired.
Held(r) == native[r] = DueOf(r) \/ (native[r] = 0 /\ DueOf(r) <= clock)
Settled(r) == attempts[r] = NoCall /\ ~HasJob(run.todo, r) /\ Held(r)

\* An alarm that was bound as set before, by a run that an older call can still
\* undo.
Recalled(r) == run.older /\ BoundAs(r) = Bound(DueOf(r), "scheduled")

\* The calls left are in order, and an alarm is taken for set only when it was
\* looked for; a run that began with a call in flight may recall it.
ListInv ==
  run.at = "calls" =>
    /\ Ordered(run.todo)
    /\ run.todo # <<>> /\ Head(run.todo).op = "verify" =>
         attempts[Head(run.todo).of] = NoCall
    /\ \A r \in Reminders :
         run.updates[r].state = "scheduled" => Recalled(r) \/ Settled(r)

\* A run that began with no call in flight has none until it makes one.
FreshInv ==
  run.at \in {"prompt", "read", "ask"} /\ ~run.older =>
    \A r \in Reminders : attempts[r] = NoCall

\* A run that met nothing amiss has no call in flight but the one it waits for.
QuietInv ==
  ~disturbed =>
    \A r \in Reminders : attempts[r] # NoCall => run.waiting /\ Head(run.todo).of = r

\* And what it has not set right, it is about to.
Achieved(r) == /\ run.updates[r] = Bound(DueOf(r), "scheduled")
               /\ ~HasJob(run.todo, r) /\ Held(r)
AimInv ==
  run.at = "calls" /\ ~disturbed =>
    /\ \A r \in Reminders :
         native[r] # 0 => r \in Desired \/ HasJobs(run.todo, r, {"discard"})
    /\ \A r \in Desired : HasJobs(run.todo, r, Setting) \/ Achieved(r)
    /\ \A r \in Eligible \ Desired : run.updates[r] = Bound(DueOf(r), "unavailable")

\* The alarms are those of the database.
Agreed(r) ==
  IF ~ToCome(r) THEN native[r] = 0
  ELSE \/ native[r] = item[r].due /\ IsSet(r)
       \/ /\ native[r] = 0 /\ binding[r].state = "unavailable"
          /\ Capacity <= Cardinality({s \in Reminders \ {r} :
                IsSet(s) /\ item[s].due <= item[r].due})
RestInv ==
  run.at = "idle" /\ ~disturbed /\ ~notice.made => \A r \in Reminders : Agreed(r)

Inv == /\ TypeOK /\ RowsInv /\ TimeInv /\ ReadInv /\ CallInv
       /\ ListInv /\ FreshInv /\ QuietInv /\ AimInv /\ RestInv

-----------------------------------------------------------------------------
(* What keeps its parts.                                                   *)

\* A step that leaves the run, or all of it but its being current, alone.
SameRun == /\ run'.at = run.at /\ SourceKept /\ run'.todo = run.todo
           /\ run'.waiting = run.waiting /\ run'.updates = run.updates

LEMMA OrderKept ==
  ASSUME SourceKept, Ordered(run'.todo)
  PROVE  Ordered(run.todo)'
<1>1. Desired' = Desired /\ Eligible' = Eligible /\ ToClean' = ToClean
  BY SameSource
<1> QED
  BY <1>1 DEF Ordered, Single, Unbegun, Fitting, Fits

LEMMA SameCalls ==
  ASSUME Inv, SameRun, UNCHANGED <<clock, native, attempts, disturbed>>
  PROVE  CallInv' /\ ListInv' /\ FreshInv' /\ QuietInv' /\ AimInv'
<1>1. /\ Desired' = Desired /\ Eligible' = Eligible
      /\ \A r \in Reminders : DueOf(r)' = DueOf(r) /\ BoundAs(r)' = BoundAs(r)
  BY SameSource DEF SameRun
<1>2. Desired \subseteq Reminders
  BY SourceTyped DEF Inv
<1>3. \A r \in Reminders : /\ HasJob(run.todo, r)' = HasJob(run.todo, r)
                           /\ Held(r)' = Held(r) /\ Recalled(r)' = Recalled(r)
                           /\ Settled(r)' = Settled(r) /\ Achieved(r)' = Achieved(r)
  BY <1>1 DEF SameRun, SourceKept, HasJob, Held, Recalled, Settled, Achieved
<1>4. \A r \in Reminders : \A ops : HasJobs(run.todo, r, ops)' = HasJobs(run.todo, r, ops)
  BY DEF SameRun, HasJobs
<1>5. ASSUME run.waiting PROVE CallOf(Head(run.todo))' = CallOf(Head(run.todo))
  <2>1. Head(run.todo) \in Job
    BY <1>5, RestIs DEF Inv, CallInv
  <2>2. Head(run.todo).of \in Reminders
    BY <2>1 DEF Job
  <2> QED
    BY <1>1, <2>2 DEF CallOf, SameRun
<1>6. CallInv'
  BY <1>5 DEF Inv, CallInv, SameRun
<1>7. ListInv'
  <2>1. run.at = "calls" => Ordered(run.todo)'
    BY OrderKept DEF Inv, ListInv, SameRun
  <2> QED
    BY <1>1, <1>3, <2>1 DEF Inv, ListInv, SameRun
<1>8. QuietInv' /\ FreshInv'
  BY DEF Inv, QuietInv, FreshInv, SameRun, SourceKept
<1>9. AimInv'
  <2> SUFFICES ASSUME run.at = "calls", ~disturbed
               PROVE  /\ \A r \in Reminders : native[r] # 0 =>
                           r \in Desired \/ HasJobs(run.todo, r, {"discard"})'
                      /\ \A r \in Desired :
                           HasJobs(run.todo, r, Setting)' \/ Achieved(r)'
                      /\ \A r \in Eligible \ Desired :
                           run'.updates[r] = Bound(DueOf(r), "unavailable")
    <3>1. Eligible \subseteq Reminders
      BY DEF Eligible, Attentive, Known
    <3> QED
      BY <1>1, <1>2, <3>1 DEF AimInv, SameRun
  <2>1. /\ \A r \in Reminders :
             native[r] # 0 => r \in Desired \/ HasJobs(run.todo, r, {"discard"})
        /\ \A r \in Desired : HasJobs(run.todo, r, Setting) \/ Achieved(r)
        /\ \A r \in Eligible \ Desired : run.updates[r] = Bound(DueOf(r), "unavailable")
    BY DEF Inv, AimInv
  <2> QED
    BY <1>2, <1>3, <1>4, <2>1 DEF SameRun
<1> QED
  BY <1>6, <1>7, <1>8, <1>9

\* A run that is not at its calls.
LEMMA NotCalling ==
  ASSUME run'.at \in {"idle", "prompt", "read", "ask"}, ~run'.waiting
  PROVE  CallInv' /\ ListInv' /\ AimInv'
  BY DEF CallInv, ListInv, AimInv

LEMMA BegunHas ==
  ASSUME Begun
  PROVE  /\ CallInv' /\ ListInv' /\ AimInv' /\ ReadInv'
         /\ \A r \in Reminders : Sound(BoundAs(r))' /\ Sound(run.updates[r])'
<1>1. CallInv' /\ ListInv' /\ AimInv'
  BY NotCalling DEF Begun
<1>2. ReadInv'
  BY DEF Begun, ReadInv
<1>3. \A r \in Reminders : BoundAs(r)' = NoBinding /\ run'.updates[r] = NoBinding
  BY DEF Begun, BoundAs, NoSource, NoUpdates
<1> QED
  BY <1>1, <1>2, <1>3, BindingsMade DEF Sound

-----------------------------------------------------------------------------
(* The steps outside the calls.                                            *)

LEMMA BegunFresh ==
  ASSUME Begun, UNCHANGED attempts, run'.at = "idle" \/ run'.older = InFlight
  PROVE  FreshInv'
  BY DEF FreshInv, InFlight

LEMMA InitInv == Init => Inv
<1> SUFFICES ASSUME Init PROVE Inv
  OBVIOUS
<1>1. TypeOK
  <2>1. 0 \in 0..MaxClock /\ 0 \in 0..MaxCrashes
    BY ReminderAssumption
  <2>2. /\ item \in [Reminders -> Item] /\ binding \in [Reminders -> Binding]
        /\ native \in [Reminders -> Times] /\ attempts \in [Reminders -> Call]
    BY Constants DEF Init
  <2>3. notice \in Notice /\ pending \in Request /\ run \in Run
    BY Constants, IdleIsRun DEF Init
  <2> QED
    BY <2>1, <2>2, <2>3 DEF Init, TypeOK
<1>2. RowsInv
  BY BindingsMade
     DEF Init, RowsInv, Absent, Exists, BoundAs, Idle, NoSource, NoUpdates
<1>3. TimeInv
  BY DEF Init, TimeInv, NoNotice, NoRequest, Idle
<1>4. ReadInv /\ CallInv /\ ListInv /\ AimInv
  BY DEF Init, Idle, ReadInv, CallInv, ListInv, AimInv
<1>5. QuietInv /\ FreshInv
  BY DEF Init, QuietInv, FreshInv
<1>6. RestInv
  BY DEF Init, RestInv, Agreed, ToCome, Absent
<1> QED
  BY <1>1, <1>2, <1>3, <1>4, <1>5, <1>6 DEF Inv

LEMMA EditKeeps ==
  ASSUME Inv, TypeOK', Edit
  PROVE  Inv'
<1>1. /\ UNCHANGED <<clock, native, attempts, pending, run, disturbed>>
      /\ notice'.made /\ notice'.now = clock
      /\ \A r \in Reminders :
           /\ item'[r] = item[r] \/ item'[r].revision > 0
           /\ binding'[r] = binding[r] \/ Sound(binding'[r])
  BY EditIs DEF Inv, platform
<1>2. CallInv' /\ ListInv' /\ FreshInv' /\ QuietInv' /\ AimInv'
  BY <1>1, SameCalls DEF SameRun, SourceKept
<1>3. RowsInv'
  <2> SUFFICES ASSUME NEW r \in Reminders
               PROVE  /\ item'[r].status = "active" => item'[r].revision > 0
                      /\ Sound(binding'[r]) /\ Sound(BoundAs(r)') /\ Sound(run'.updates[r])
    BY DEF RowsInv, Exists, Sound
  <2>1. /\ item[r].status = "active" => item[r].revision > 0
        /\ Sound(binding[r]) /\ Sound(BoundAs(r)) /\ Sound(run.updates[r])
    BY DEF Inv, RowsInv, Exists
  <2>2. BoundAs(r)' = BoundAs(r) /\ run'.updates[r] = run.updates[r]
    BY <1>1 DEF BoundAs
  <2> QED
    BY <1>1, <2>1, <2>2
<1>4. TimeInv'
  <2>1. clock \in Nat
    BY Constants DEF Inv, TypeOK
  <2> QED
    BY <1>1, <2>1 DEF Inv, TimeInv
<1>5. ReadInv' /\ RestInv'
  BY <1>1 DEF Inv, ReadInv, RestInv
<1> QED
  BY <1>2, <1>3, <1>4, <1>5 DEF Inv

LEMMA AnnounceKeeps ==
  ASSUME Inv, TypeOK', Announce
  PROVE  Inv'
<1>1. /\ notice' = NoNotice /\ notice.made
      /\ UNCHANGED <<clock, item, binding, native, attempts>>
      /\ \A r \in Reminders : /\ item[r].status = "active" => item[r].revision > 0
                              /\ Sound(binding[r])
  BY AnnounceIs DEF Inv, database, platform, RowsInv, Exists
<1>2. clock \in Nat /\ notice'.now = 0 /\ notice.now <= clock /\ pending.now <= clock
  BY <1>1, Constants DEF Inv, TypeOK, TimeInv, NoNotice
<1>3. CASE run.at = "idle"
  <2>1. /\ Begun /\ run'.at # "idle" /\ run'.now = notice.now /\ pending' = NoRequest
        /\ run'.older = InFlight /\ disturbed' = InFlight
    BY <1>3, AnnounceIs DEF Inv
  <2>2. /\ CallInv' /\ ListInv' /\ AimInv' /\ ReadInv'
        /\ \A r \in Reminders : Sound(BoundAs(r))' /\ Sound(run.updates[r])'
    BY <2>1, BegunHas
  <2>3. RowsInv'
    BY <1>1, <2>2 DEF RowsInv, Exists, Sound
  <2>4. TimeInv'
    BY <1>1, <1>2, <2>1 DEF Inv, TimeInv, NoRequest
  <2>5. QuietInv' /\ RestInv'
    BY <1>1, <2>1 DEF QuietInv, RestInv, InFlight
  <2>6. FreshInv'
    BY <1>1, <2>1, BegunFresh
  <2> QED
    BY <2>2, <2>3, <2>4, <2>5, <2>6 DEF Inv
<1>4. CASE run.at # "idle"
  <2>1. /\ run' \in {run, [run EXCEPT !.current = FALSE]}
        /\ pending'.asked /\ pending'.now = notice.now /\ disturbed' = disturbed
    BY <1>4, AnnounceIs DEF Inv
  <2>2. run \in Run
    BY DEF Inv, TypeOK
  <2>3. SameRun /\ run'.now = run.now
    BY <2>1, <2>2 DEF SameRun, SourceKept, Run
  <2>4. CallInv' /\ ListInv' /\ FreshInv' /\ QuietInv' /\ AimInv'
    BY <1>1, <2>1, <2>3, SameCalls
  <2>5. RowsInv'
    BY <1>1, <2>3, SameSource DEF Inv, RowsInv, Exists, Sound, SameRun
  <2>6. TimeInv'
    BY <1>1, <1>2, <2>1, <2>3 DEF Inv, TimeInv
  <2>7. ReadInv' /\ RestInv'
    BY <1>4, <2>1, <2>3 DEF ReadInv, RestInv, SameRun
  <2> QED
    BY <2>4, <2>5, <2>6, <2>7 DEF Inv
<1> QED
  BY <1>3, <1>4

\* A step that leaves the database, the platform and the clock alone.
Aside == UNCHANGED <<clock, item, binding, native, attempts, notice>>

LEMMA PromptKeeps ==
  ASSUME Inv, TypeOK', Prompt
  PROVE  Inv'
<1>1. Aside /\ run.at = "prompt" /\ ~run.waiting
  BY DEF Prompt, RunStep, platform, Aside, Inv, CallInv
<1>2. /\ run \in Run /\ pending \in Request /\ clock \in Nat
      /\ notice.now <= clock /\ pending.now <= clock
      /\ \A r \in Reminders : native[r] # 0 => native[r] > clock
  BY Constants DEF Inv, TypeOK, TimeInv
<1>3. CASE run.current
  <2>1. PICK answer : run' = [run EXCEPT !.at = "read", !.permission = answer,
                                         !.now = clock]
    BY <1>3 DEF Prompt
  <2>2. /\ run'.at = "read" /\ run'.now = clock /\ run'.current /\ ~run'.waiting
        /\ run'.source = run.source /\ run'.updates = run.updates
        /\ run'.older = run.older
    BY <1>1, <1>2, <1>3, <2>1 DEF Run
  <2>3. pending' = [pending EXCEPT !.prompt = FALSE] /\ disturbed' = disturbed
    BY <1>3 DEF Prompt
  <2>4. pending'.now = pending.now
    BY <1>2, <2>3 DEF Request
  <2>5. CallInv' /\ ListInv' /\ AimInv'
    BY <2>2, NotCalling
  <2>6. RowsInv'
    BY <1>1, <2>2 DEF Aside, Inv, RowsInv, Exists, Sound, BoundAs
  <2>7. TimeInv'
    BY <1>1, <1>2, <2>2, <2>4 DEF Aside, TimeInv
  <2>8. ReadInv' /\ RestInv'
    BY <2>2 DEF ReadInv, RestInv
  <2>9. QuietInv' /\ FreshInv'
    BY <1>1, <2>2, <2>3 DEF Aside, Inv, QuietInv, FreshInv
  <2> QED
    BY <2>5, <2>6, <2>7, <2>8, <2>9 DEF Inv
<1>4. CASE ~run.current
  <2>1. /\ pending' = NoRequest /\ StartRun(pending.now, FALSE)
        /\ pending.now \in Times
    BY <1>2, <1>4 DEF Prompt, Request
  <2>2. /\ Begun /\ run'.at # "idle" /\ run'.now = pending.now
        /\ run'.older = InFlight /\ disturbed' = InFlight
    BY <2>1, NewRun
  <2>3. /\ CallInv' /\ ListInv' /\ AimInv' /\ ReadInv'
        /\ \A r \in Reminders : Sound(BoundAs(r))' /\ Sound(run.updates[r])'
    BY <2>2, BegunHas
  <2>4. RowsInv'
    BY <1>1, <2>3 DEF Aside, Inv, RowsInv, Exists, Sound
  <2>5. TimeInv'
    BY <1>1, <1>2, <2>1, <2>2 DEF Aside, TimeInv, NoRequest
  <2>6. QuietInv' /\ RestInv'
    BY <1>1, <2>2 DEF Aside, QuietInv, RestInv, InFlight
  <2>7. FreshInv'
    BY <1>1, <2>2, BegunFresh DEF Aside
  <2> QED
    BY <2>3, <2>4, <2>5, <2>6, <2>7 DEF Inv
<1> QED
  BY <1>3, <1>4

LEMMA ReadKeeps ==
  ASSUME Inv, TypeOK', Read
  PROVE  Inv'
<1> DEFINE source == [r \in Reminders |-> [item |-> item[r], binding |-> binding[r]]]
<1>1. /\ Aside /\ run.at = "read" /\ run.current /\ ~run.waiting
      /\ UNCHANGED <<pending, disturbed>>
      /\ run' = [run EXCEPT !.at = "ask", !.source = source]
  BY DEF Read, RunStep, platform, Aside, Inv, CallInv
<1>2. run \in Run
  BY DEF Inv, TypeOK
<1>3. \A r \in Reminders : /\ source[r] = [item |-> item[r], binding |-> binding[r]]
                           /\ source[r].binding = binding[r]
  OBVIOUS
<1> HIDE DEF source
<1>4. /\ run'.at = "ask" /\ run'.source = source /\ run'.current /\ ~run'.waiting
      /\ run'.now = run.now /\ run'.updates = run.updates /\ run'.older = run.older
  BY <1>1, <1>2 DEF Run
<1>5. CallInv' /\ ListInv' /\ AimInv'
  BY <1>4, NotCalling
<1>6. RowsInv'
  <2>1. \A r \in Reminders : BoundAs(r)' = binding[r]
    BY <1>3, <1>4 DEF BoundAs
  <2> QED
    BY <1>1, <1>4, <2>1 DEF Aside, Inv, RowsInv, Exists, Sound
<1>7. TimeInv'
  BY <1>1, <1>4 DEF Aside, Inv, TimeInv
<1>8. ReadInv'
  <2>1. \A r \in Reminders : AsRead(r)'
    BY <1>1, <1>3, <1>4 DEF Aside, AsRead
  <2> QED
    BY <1>4, <2>1 DEF ReadInv
<1>9. QuietInv' /\ RestInv' /\ FreshInv'
  BY <1>1, <1>4 DEF Aside, Inv, QuietInv, RestInv, FreshInv
<1> QED
  BY <1>5, <1>6, <1>7, <1>8, <1>9 DEF Inv

LEMMA BoundIs ==
  /\ \A t, state : Bound(t, state).state = state
  /\ \A b \in Binding : b.state = "scheduled" /\ ~b.error => b = Bound(b.for, "scheduled")
<1>1. \A t, state : Bound(t, state).state = state
  BY DEF Bound
<1>2. ASSUME NEW b \in Binding, b.state = "scheduled", ~b.error
      PROVE  b = Bound(b.for, "scheduled")
  <2>1. b = [for |-> b.for, state |-> b.state, error |-> b.error]
    BY DEF Binding
  <2>2. b.error = FALSE
    BY <1>2 DEF Binding
  <2>3. Bound(b.for, "scheduled") = [for |-> b.for, state |-> "scheduled", error |-> FALSE]
    BY DEF Bound
  <2> QED
    BY <1>2, <2>1, <2>2, <2>3
<1> QED
  BY <1>1, <1>2

\* The run begins its calls with the list as it should be.
LEMMA AskKeeps ==
  ASSUME Inv, TypeOK', Ask
  PROVE  Inv'
<1>1. /\ Aside /\ run.at = "ask" /\ run.current /\ ~run.waiting /\ pending' = pending
      /\ TypeOK
  BY DEF Ask, RunStep, platform, Aside, Inv, CallInv
<1>2. \/ (Unavailable \/ Denied \/ Unlisted) /\ disturbed'
      \/ Listed /\ disturbed' = disturbed
  BY <1>1, AskIs
<1>3. /\ run'.at = "calls" /\ Ordered(run'.todo) /\ ~run'.waiting /\ run'.current
      /\ SourceKept
      /\ \A i \in DOMAIN run'.todo : run'.todo[i].op # "verify"
  BY <1>1, <1>2, ListedIs, UnlistedIs
<1>4. \A r \in Reminders : /\ DueOf(r) \in Times /\ DueOf(r)' = DueOf(r)
                           /\ BoundAs(r) \in Binding /\ BoundAs(r)' = BoundAs(r)
                           /\ Sound(BoundAs(r))
  BY <1>1, <1>3, SourceTyped, SameSource DEF Inv, RowsInv
<1>5. ASSUME NEW r \in Reminders
      PROVE  /\ Sound(run'.updates[r])
             /\ run'.updates[r].state = "scheduled" =>
                  /\ BoundAs(r) = Bound(DueOf(r), "scheduled")
                  /\ native[r] = DueOf(r) /\ ~HasJob(run'.todo, r)
  <2>1. CASE Unavailable \/ Denied \/ Unlisted
    <3>1. \/ run'.updates[r] = NoBinding
          \/ \E t \in Times :
               \E state \in {"unavailable", "failed", "permission_denied"} :
                 run'.updates[r] = Bound(t, state)
      BY <1>1, <2>1, UnlistedIs
    <3>2. {"unavailable", "failed", "permission_denied"}
            \subseteq States \ {"none", "cancelled"}
      BY DEF States
    <3>3. NoBinding.state = "none"
      BY DEF NoBinding
    <3> QED
      BY <3>1, <3>2, <3>3, BindingsMade, BoundIs
  <2>2. CASE Listed
    <3>1. CASE r \in InPlace
      <4>1. run'.updates[r] = Bound(DueOf(r), "scheduled") /\ ~HasJob(run'.todo, r)
        BY <1>1, <2>2, <3>1, ListedIs
      <4>2. /\ BoundAs(r).for = DueOf(r) /\ ~BoundAs(r).error /\ DueOf(r) # 0
            /\ native[r] = DueOf(r)
        BY <3>1 DEF InPlace
      <4>3. BoundAs(r) = Bound(DueOf(r), "scheduled")
        BY <1>4, <4>2, BoundIs DEF Sound
      <4> QED
        BY <1>4, <4>1, <4>2, <4>3
    <3>2. CASE r \notin InPlace
      <4>1. run'.updates[r] = NoBinding \/ run'.updates[r] = Bound(DueOf(r), "unavailable")
        BY <1>1, <2>2, <3>2, ListedIs
      <4>2. "unavailable" \in States \ {"none", "cancelled"} /\ NoBinding.state = "none"
        BY DEF States, NoBinding
      <4> QED
        BY <1>4, <4>1, <4>2, BindingsMade, BoundIs
    <3> QED
      BY <3>1, <3>2
  <2> QED
    BY <1>2, <2>1, <2>2
<1>6. RowsInv'
  BY <1>1, <1>4, <1>5 DEF Aside, Inv, RowsInv, Exists, Sound
<1>7. TimeInv' /\ ReadInv'
  BY <1>1, <1>3 DEF Aside, Inv, TimeInv, ReadInv, AsRead, SourceKept
<1>8. CallInv' /\ RestInv' /\ FreshInv'
  BY <1>3 DEF CallInv, RestInv, FreshInv
<1>9. QuietInv'
  BY <1>1, <1>2 DEF Aside, Inv, QuietInv
<1>10. ListInv'
  <2>1. Ordered(run.todo)'
    BY <1>3, OrderKept
  <2>2. run'.todo # <<>> => Head(run'.todo).op # "verify"
    <3>1. run'.todo \in Seq(Job)
      BY DEF TypeOK, Run
    <3>2. run'.todo # <<>> => 1 \in DOMAIN run'.todo /\ Head(run'.todo) = run'.todo[1]
      BY <3>1
    <3> QED
      BY <1>3, <3>2
  <2>3. ASSUME NEW r \in Reminders, run'.updates[r].state = "scheduled"
        PROVE  Recalled(r)' \/ Settled(r)'
    <3>1. /\ BoundAs(r) = Bound(DueOf(r), "scheduled")
          /\ native[r] = DueOf(r) /\ ~HasJob(run'.todo, r)
      BY <1>5, <2>3
    <3>2. CASE run.older
      BY <1>3, <1>4, <3>1, <3>2 DEF Recalled, SourceKept
    <3>3. CASE ~run.older
      <4>1. attempts'[r] = NoCall /\ native'[r] = native[r]
        BY <1>1, <3>3 DEF Inv, FreshInv, Aside
      <4>2. ~HasJob(run.todo, r)'
        BY <3>1 DEF HasJob
      <4> QED
        BY <1>4, <3>1, <4>1, <4>2 DEF Settled, Held
    <3> QED
      BY <3>2, <3>3
  <2> QED
    BY <2>1, <2>2, <2>3 DEF ListInv
<1>11. ASSUME ~disturbed' PROVE AimInv'
  <2>1. Listed
    BY <1>2, <1>11
  <2>2. /\ Desired' = Desired /\ Eligible' = Eligible /\ Desired \subseteq Eligible
        /\ Eligible \subseteq Reminders
    BY <1>1, <1>3, SameSource, SourceTyped
  <2>3. ASSUME NEW r \in Reminders, native[r] # 0
        PROVE  r \in Desired \/ HasJobs(run'.todo, r, {"discard"})
    <3>1. ASSUME r \in Preserved PROVE DueOf(r) <= clock
      <4>1. r \in Attentive /\ ~(DueOf(r) > run.now)
        BY <3>1 DEF Preserved, Eligible
      <4>2. DueOf(r) \in Nat /\ run.now \in Nat /\ run.now <= clock /\ clock \in Nat
        BY <1>1, <1>4, Constants DEF TypeOK, Run, Inv, TimeInv
      <4> QED
        BY <4>1, <4>2
    <3>2. native[r] > clock /\ native[r] \in Nat /\ clock \in Nat
      BY <1>1, <2>3, Constants DEF Inv, TimeInv, TypeOK
    <3>3. \/ HasJobs(run'.todo, r, {"discard"})
          \/ native[r] = DueOf(r) /\ r \in Desired \cup Preserved
      BY <1>1, <2>1, <2>3, ListedIs
    <3> QED
      BY <3>1, <3>2, <3>3
  <2>4. ASSUME NEW r \in Desired PROVE HasJobs(run'.todo, r, Setting) \/ Achieved(r)'
    <3>1. CASE r \in InPlace
      <4>1. /\ run'.updates[r] = Bound(DueOf(r), "scheduled") /\ ~HasJob(run'.todo, r)
            /\ native[r] = DueOf(r)
        BY <1>1, <2>1, <3>1, ListedIs DEF InPlace
      <4>2. DueOf(r)' = DueOf(r) /\ native'[r] = native[r]
        BY <1>1, <1>4, <2>2 DEF Aside
      <4> QED
        BY <4>1, <4>2 DEF Achieved, Held
    <3>2. CASE r \notin InPlace
      BY <1>1, <2>1, <3>2, ListedIs
    <3> QED
      BY <3>1, <3>2
  <2>5. \A r \in Eligible \ Desired : run'.updates[r] = Bound(DueOf(r), "unavailable")
    BY <1>1, <2>1, ListedIs
  <2>6. \A r \in Reminders : native'[r] = native[r] /\ DueOf(r)' = DueOf(r)
    BY <1>1, <1>4 DEF Aside
  <2>7. \A r \in Reminders : \A ops : HasJobs(run'.todo, r, ops) = HasJobs(run.todo, r, ops)'
    BY DEF HasJobs
  <2> QED
    BY <2>2, <2>3, <2>4, <2>5, <2>6, <2>7 DEF AimInv
<1>12. AimInv'
  BY <1>11 DEF AimInv
<1> QED
  BY <1>6, <1>7, <1>8, <1>9, <1>10, <1>12 DEF Inv

\* The clock: an alarm that was looked for is there, or fires.
LEMMA TickKeeps ==
  ASSUME Inv, TypeOK', Tick
  PROVE  Inv'
<1>1. /\ clock' = clock + 1
      /\ UNCHANGED <<item, binding, attempts, notice, pending, run, disturbed>>
      /\ native' = [r \in Reminders |-> IF native[r] = clock + 1 THEN 0 ELSE native[r]]
  BY DEF Tick, database
<1>2. /\ clock \in Nat
      /\ \A r \in Reminders : /\ native[r] \in Nat /\ DueOf(r) \in Nat
                              /\ item[r].due \in Nat
                              /\ native[r] # 0 => native[r] > clock
  BY SourceTyped, Constants DEF Inv, TypeOK, Item, TimeInv
<1>3. \A r \in Reminders : native'[r] = IF native[r] = clock + 1 THEN 0 ELSE native[r]
  BY <1>1
<1>4. /\ Desired' = Desired /\ Eligible' = Eligible /\ Desired \subseteq Eligible
      /\ Eligible \subseteq Reminders /\ SourceKept
      /\ \A r \in Reminders : DueOf(r)' = DueOf(r) /\ BoundAs(r)' = BoundAs(r)
  BY <1>1, SameSource, SourceTyped DEF SourceKept, Inv
<1>5. ASSUME NEW r \in Reminders, Held(r) PROVE Held(r)'
  <2>1. native'[r] = DueOf(r) \/ (native'[r] = 0 /\ DueOf(r) <= clock')
    BY <1>1, <1>2, <1>3, <1>5 DEF Held
  <2> QED
    BY <1>4, <2>1 DEF Held
<1>6. \A r \in Reminders : /\ HasJob(run.todo, r)' = HasJob(run.todo, r)
                           /\ \A ops : HasJobs(run.todo, r, ops)' = HasJobs(run.todo, r, ops)
                           /\ Settled(r) => Settled(r)'
                           /\ Achieved(r) => Achieved(r)'
                           /\ Recalled(r) => Recalled(r)'
  BY <1>1, <1>4, <1>5 DEF HasJob, HasJobs, Settled, Achieved, Recalled
<1>7. RowsInv' /\ ReadInv' /\ QuietInv' /\ FreshInv'
  BY <1>1, <1>4 DEF Inv, RowsInv, Exists, Sound, ReadInv, AsRead, QuietInv, FreshInv
<1>8. TimeInv'
  <2>1. clock <= clock' /\ clock \in Nat /\ clock' \in Nat
    BY <1>1, <1>2
  <2>2. /\ notice.now \in Nat /\ pending.now \in Nat /\ run.now \in Nat
        /\ notice.now <= clock /\ pending.now <= clock /\ run.now <= clock
    BY Constants DEF Inv, TypeOK, TimeInv, Notice, Request, Run
  <2>3. \A r \in Reminders : native'[r] # 0 => native'[r] > clock'
    BY <1>1, <1>2, <1>3
  <2>4. notice.now <= clock' /\ pending.now <= clock' /\ run.now <= clock'
    BY <2>1, <2>2
  <2> QED
    BY <1>1, <2>3, <2>4 DEF TimeInv
<1>9. CallInv'
  <2>1. ASSUME run.waiting PROVE CallOf(Head(run.todo))' = CallOf(Head(run.todo))
    BY <1>1 DEF CallOf, DueOf
  <2> QED
    BY <1>1, <2>1 DEF Inv, CallInv
<1>10. ListInv'
  <2>1. run.at = "calls" => Ordered(run.todo)'
    BY <1>1, <1>4, OrderKept DEF Inv, ListInv
  <2> QED
    BY <1>1, <1>4, <1>6, <2>1 DEF Inv, ListInv
<1>11. AimInv'
  <2> SUFFICES ASSUME run.at = "calls", ~disturbed
               PROVE  /\ \A r \in Reminders : native'[r] # 0 =>
                           r \in Desired \/ HasJobs(run.todo, r, {"discard"})'
                      /\ \A r \in Desired :
                           HasJobs(run.todo, r, Setting)' \/ Achieved(r)'
                      /\ \A r \in Eligible \ Desired :
                           run'.updates[r] = Bound(DueOf(r), "unavailable")
    BY <1>1, <1>4 DEF AimInv
  <2>1. /\ \A r \in Reminders :
             native[r] # 0 => r \in Desired \/ HasJobs(run.todo, r, {"discard"})
        /\ \A r \in Desired : HasJobs(run.todo, r, Setting) \/ Achieved(r)
        /\ \A r \in Eligible \ Desired : run.updates[r] = Bound(DueOf(r), "unavailable")
    BY DEF Inv, AimInv
  <2>2. \A r \in Reminders : native'[r] # 0 => native[r] # 0
    BY <1>2, <1>3
  <2> QED
    BY <1>1, <1>4, <1>6, <2>1, <2>2
<1>12. RestInv'
  <2> SUFFICES ASSUME run.at = "idle", ~disturbed, ~notice.made, NEW r \in Reminders
               PROVE  Agreed(r)'
    BY <1>1 DEF RestInv
  <2>1. Agreed(r)
    BY DEF Inv, RestInv
  <2>2. /\ item'[r] = item[r] /\ binding'[r] = binding[r]
        /\ ToCome(r)' => ToCome(r) /\ item[r].due # clock + 1
        /\ ToCome(r) /\ ~ToCome(r)' => item[r].due = clock + 1
    BY <1>1, <1>2 DEF ToCome
  <2>3. IsSet(r)' = IsSet(r)
    BY <1>1 DEF IsSet
  <2>4. {s \in Reminders \ {r} : IsSet(s) /\ item[s].due <= item[r].due}'
          = {s \in Reminders \ {r} : IsSet(s) /\ item[s].due <= item[r].due}
    BY <1>1 DEF IsSet
  <2> QED
    BY <1>2, <1>3, <2>1, <2>2, <2>3, <2>4 DEF Agreed
<1> QED
  BY <1>7, <1>8, <1>9, <1>10, <1>11, <1>12 DEF Inv

LEMMA CrashKeeps ==
  ASSUME Inv, TypeOK', Crash
  PROVE  Inv'
<1>1. /\ attempts' = [r \in Reminders |-> NoCall] /\ notice' = NoNotice
      /\ run' = [Idle EXCEPT !.at = "read", !.now = clock] /\ pending' = NoRequest
      /\ UNCHANGED <<clock, item, binding>>
  BY DEF Crash, database
<1>2. PICK landed \in SUBSET {r \in Reminders : attempts[r] # NoCall} : Land(landed)
  BY DEF Crash
<1>3. TypeOK /\ clock \in Nat /\ landed \in SUBSET Reminders
  BY <1>2, Constants DEF Inv, TypeOK
<1>4. Begun /\ run'.now = clock /\ run'.at = "read"
  BY <1>1, <1>3, IdleIsRun, Constants DEF Begun, Idle, TypeOK
<1>5. /\ CallInv' /\ ListInv' /\ AimInv' /\ ReadInv'
      /\ \A r \in Reminders : Sound(BoundAs(r))' /\ Sound(run.updates[r])'
  BY <1>4, BegunHas
<1>6. RowsInv'
  BY <1>1, <1>5 DEF Inv, RowsInv, Exists, Sound
<1>7. TimeInv'
  <2>1. \A r \in Reminders : native'[r] # 0 => native'[r] > clock
    BY <1>2, <1>3, LandIs DEF Inv, TimeInv
  <2> QED
    BY <1>1, <1>3, <1>4, <2>1 DEF TimeInv, NoNotice, NoRequest
<1>8. QuietInv' /\ RestInv' /\ FreshInv'
  BY <1>1, <1>4 DEF QuietInv, RestInv, FreshInv
<1> QED
  BY <1>5, <1>6, <1>7, <1>8 DEF Inv

\* A refusal leaves nothing right behind it, and nothing to do but what waits.
LEMMA RefuseKeeps ==
  ASSUME Inv, TypeOK', Refuse
  PROVE  Inv'
<1>1. /\ UNCHANGED <<clock, item, binding, native, attempts, notice, pending>>
      /\ run' = [Idle EXCEPT !.refused = TRUE] /\ disturbed'
  BY DEF Refuse, RunStep, platform
<1>2. /\ run'.at = "idle" /\ run'.now = 0 /\ run'.current /\ ~run'.waiting
      /\ run'.source = NoSource /\ run'.updates = NoUpdates
  BY <1>1 DEF Idle
<1>3. Begun
  BY <1>1, <1>2, IdleIsRun DEF Begun
<1>4. /\ CallInv' /\ ListInv' /\ AimInv' /\ ReadInv'
      /\ \A r \in Reminders : Sound(BoundAs(r))' /\ Sound(run.updates[r])'
  BY <1>3, BegunHas
<1>5. RowsInv'
  BY <1>1, <1>4 DEF Inv, RowsInv, Exists, Sound
<1>6. TimeInv'
  <2>1. clock \in Nat
    BY Constants DEF Inv, TypeOK
  <2> QED
    BY <1>1, <1>2, <2>1 DEF Inv, TimeInv
<1>7. QuietInv' /\ RestInv' /\ FreshInv'
  BY <1>1, <1>2 DEF QuietInv, RestInv, FreshInv
<1> QED
  BY <1>4, <1>5, <1>6, <1>7 DEF Inv

\* What the end of a run keeps, whatever it wrote.
LEMMA EndKeeps ==
  ASSUME Inv, TypeOK', EndRun, ~run.waiting,
         UNCHANGED <<clock, item, notice, native, attempts>>,
         \A r \in Reminders : binding'[r] = binding[r] \/ Sound(binding'[r]),
         RestInv'
  PROVE  Inv'
<1>1. /\ Begun
      /\ \/ /\ pending'.now = 0 /\ run'.now = pending.now
            /\ run'.older = InFlight /\ disturbed' = InFlight
         \/ /\ pending' = pending /\ run'.at = "idle" /\ run'.now = 0
            /\ disturbed' = disturbed
  BY RunEnds DEF Inv
<1>2. /\ CallInv' /\ ListInv' /\ AimInv' /\ ReadInv'
      /\ \A r \in Reminders : Sound(BoundAs(r))' /\ Sound(run.updates[r])'
  BY <1>1, BegunHas
<1>3. RowsInv'
  BY <1>2 DEF Inv, RowsInv, Exists, Sound
<1>4. TimeInv'
  <2>1. clock \in Nat
    BY Constants DEF Inv, TypeOK
  <2>3. \/ pending'.now = 0 /\ run'.now = pending.now
        \/ pending' = pending /\ run'.now = 0
    BY <1>1
  <2>4. pending.now <= clock
    BY DEF Inv, TimeInv
  <2>5. pending'.now <= clock /\ run'.now <= clock
    BY <2>1, <2>3, <2>4
  <2> QED
    BY <2>5 DEF Inv, TimeInv
<1>5. QuietInv'
  <2> SUFFICES ASSUME ~disturbed', NEW r \in Reminders, attempts[r] # NoCall PROVE FALSE
    BY DEF QuietInv
  <2>1. InFlight
    BY DEF InFlight
  <2>2. disturbed' = disturbed
    BY <1>1, <2>1, Zenon
  <2> QED
    BY <2>2 DEF Inv, QuietInv
<1>6. FreshInv'
  BY <1>1, BegunFresh
<1> QED
  BY <1>2, <1>3, <1>4, <1>5, <1>6 DEF Inv

LEMMA OvertakenKeeps ==
  ASSUME Inv, TypeOK', Overtaken
  PROVE  Inv'
<1>1. /\ EndRun /\ ~run.waiting /\ ~run.current
      /\ UNCHANGED <<clock, item, notice, native, attempts, binding>>
  BY DEF Overtaken, RunStep, platform
<1>2. pending.asked
  BY <1>1 DEF Inv, ReadInv
<1>3. run'.at # "idle"
  BY <1>1, <1>2, RunEnds DEF Inv
<1>4. RestInv'
  BY <1>3 DEF RestInv
<1> QED
  BY <1>1, <1>4, EndKeeps

\* A run that met nothing amiss, of rows that are still the latest, leaves the
\* alarms and the bindings as they should be.
LEMMA RunAchieves ==
  ASSUME Inv, TypeOK', run.at = "calls", run.todo = <<>>, ~disturbed,
         \A r \in Reminders : AsRead(r),
         \A r \in Reminders :
           binding'[r] = IF run.updates[r] # NoBinding THEN run.updates[r] ELSE binding[r],
         UNCHANGED <<clock, item, native>>
  PROVE  \A r \in Reminders : Agreed(r)'
<1>1. /\ Dated /\ Desired \subseteq Eligible /\ Eligible \subseteq Known
      /\ Known \subseteq Reminders /\ clock \in Nat /\ run.now \in Nat /\ run.now <= clock
  BY SourceTyped, Constants DEF Inv, TypeOK, Run, TimeInv
<1>2. \A r \in Reminders : /\ DueOf(r) = item[r].due /\ run.source[r].item = item[r]
                           /\ item[r].due \in Nat /\ native[r] \in Nat
                           /\ native[r] # 0 => native[r] > clock
  <2>1. ASSUME NEW r \in Reminders PROVE run.source[r].item = item[r]
    <3>1. run.source[r] = [item |-> item[r], binding |-> binding[r]]
      BY DEF AsRead
    <3>2. [item |-> item[r], binding |-> binding[r]].item = item[r]
      OBVIOUS
    <3> QED
      BY <3>1, <3>2
  <2> QED
    BY <2>1, Constants DEF DueOf, Inv, TypeOK, Item, TimeInv
<1>3. /\ \A r \in Reminders : native[r] # 0 => r \in Desired
      /\ \A r \in Desired : run.updates[r] = Bound(item[r].due, "scheduled") /\ Held(r)
      /\ \A r \in Eligible \ Desired :
           run.updates[r] = Bound(item[r].due, "unavailable")
  <2>1. \A r \in Reminders : \A ops : ~HasJobs(run.todo, r, ops)
    BY DEF HasJobs
  <2> QED
    BY <1>1, <1>2, <2>1 DEF Inv, AimInv, Achieved
<1>4. ASSUME NEW r \in Reminders
      PROVE  ToCome(r) <=> r \in Eligible /\ item[r].due > clock
  <2>1. item[r].status = "active" => item[r].revision > 0
    BY DEF Inv, RowsInv, Exists
  <2> QED
    BY <1>1, <1>2, <2>1 DEF ToCome, Eligible, Attentive, Known
<1>5. /\ \A r \in Desired : binding'[r] = Bound(item[r].due, "scheduled")
      /\ \A r \in Eligible \ Desired : binding'[r] = Bound(item[r].due, "unavailable")
  <2>1. NoBinding.state = "none" /\ \A t, state : Bound(t, state).state = state
    BY BoundIs DEF NoBinding
  <2>2. \A t : Bound(t, "scheduled") # NoBinding /\ Bound(t, "unavailable") # NoBinding
    BY <2>1
  <2> QED
    BY <1>1, <1>3, <2>2
<1> SUFFICES ASSUME NEW r \in Reminders PROVE Agreed(r)'
  OBVIOUS
<1>6. native'[r] = native[r] /\ item'[r] = item[r] /\ ToCome(r)' = ToCome(r)
  BY DEF ToCome
<1>7. CASE ~ToCome(r)
  <2>1. ASSUME native[r] # 0 PROVE FALSE
    <3>1. r \in Desired /\ r \in Eligible /\ Held(r) /\ native[r] > clock
      BY <1>1, <1>2, <1>3, <2>1
    <3>2. native[r] = item[r].due
      BY <1>2, <2>1, <3>1 DEF Held
    <3> QED
      BY <1>4, <1>7, <3>1, <3>2
  <2> QED
    BY <1>6, <1>7, <2>1 DEF Agreed
<1>8. CASE ToCome(r) /\ r \in Desired
  <2>1. native[r] = item[r].due
    BY <1>1, <1>2, <1>3, <1>4, <1>8 DEF Held
  <2>2. IsSet(r)'
    BY <1>5, <1>6, <1>8 DEF IsSet
  <2> QED
    BY <1>6, <1>8, <2>1, <2>2 DEF Agreed
<1>9. CASE ToCome(r) /\ r \notin Desired
  <2> DEFINE earlier == {s \in Desired : Before(s, r)}
             held == {s \in Reminders \ {r} : IsSet(s)' /\ item'[s].due <= item'[r].due}
  <2>1. r \in Eligible \ Desired /\ native[r] = 0
    BY <1>3, <1>4, <1>9
  <2>2. binding'[r].state = "unavailable"
    BY <1>5, <2>1, BoundIs
  <2>3. IsFiniteSet(earlier) /\ Capacity <= Cardinality(earlier)
    BY <1>1, <2>1, FullOfEarlier
  <2>4. IsFiniteSet(held)
    BY ReminderAssumption, FS_Subset
  <2>5. ASSUME NEW s \in earlier PROVE s \in held
    <3>1. s \in Desired /\ s \in Reminders /\ Before(s, r)
      BY <1>1, <2>5
    <3>2. IsSet(s)'
      BY <1>5, <3>1 DEF IsSet
    <3>3. s # r /\ item[s].due <= item[r].due
      BY <1>1, <1>2, <3>1, OneOrder DEF Before
    <3> QED
      BY <3>1, <3>2, <3>3
  <2> HIDE DEF earlier, held
  <2>6. Cardinality(earlier) <= Cardinality(held)
    BY <2>4, <2>5, FS_Subset
  <2>7. Capacity <= Cardinality(held)
    BY <2>3, <2>4, <2>6, FS_CardinalityType, ReminderAssumption
  <2> QED
    BY <1>6, <1>9, <2>1, <2>2, <2>7 DEF Agreed, held
<1> QED
  BY <1>7, <1>8, <1>9

LEMMA WriteKeeps ==
  ASSUME Inv, TypeOK', Write
  PROVE  Inv'
<1>1. /\ run.at = "calls" /\ run.current /\ ~run.waiting /\ run.todo = <<>> /\ EndRun
      /\ UNCHANGED <<clock, item, notice, native, attempts>>
      /\ \A r \in Reminders :
           binding'[r] = IF run.updates[r] # NoBinding /\ AsRead(r)
                           THEN run.updates[r] ELSE binding[r]
  BY DEF Write, Writing, RunStep, platform
<1>2. \A r \in Reminders : binding'[r] = binding[r] \/ Sound(binding'[r])
  BY <1>1 DEF Inv, RowsInv
<1>3. RestInv'
  <2> SUFFICES ASSUME run'.at = "idle", ~disturbed', ~notice'.made
               PROVE  \A r \in Reminders : Agreed(r)'
    BY DEF RestInv
  <2>1. ~pending.asked /\ disturbed' = disturbed
    BY <1>1, RunEnds DEF Inv
  <2>2. \A r \in Reminders : AsRead(r)
    BY <1>1, <2>1 DEF Inv, ReadInv
  <2> QED
    BY <1>1, <2>1, <2>2, RunAchieves
<1> QED
  BY <1>1, <1>2, <1>3, EndKeeps

-----------------------------------------------------------------------------
(* The calls.                                                              *)

\* What a step of the calls leaves alone.
Outside == UNCHANGED <<clock, item, binding, notice, pending>>

LEMMA ContinuesHas ==
  ASSUME Inv, Continues(run'), Outside,
         \A r \in Reminders : Sound(run'.updates[r]),
         \A r \in Reminders : native'[r] # 0 => native'[r] > clock
  PROVE  /\ RowsInv' /\ TimeInv' /\ ReadInv' /\ SourceKept
         /\ run'.at # "idle" => RestInv'
         /\ Desired' = Desired /\ Eligible' = Eligible /\ ToClean' = ToClean
         /\ Desired \subseteq Reminders /\ Eligible \subseteq Reminders
         /\ \A r \in Reminders : DueOf(r)' = DueOf(r) /\ BoundAs(r)' = BoundAs(r)
<1>1. SourceKept
  BY DEF Continues, SourceKept
<1>2. /\ Desired' = Desired /\ Eligible' = Eligible /\ ToClean' = ToClean
      /\ Desired \subseteq Reminders /\ Eligible \subseteq Reminders
      /\ \A r \in Reminders : DueOf(r)' = DueOf(r) /\ BoundAs(r)' = BoundAs(r)
  BY <1>1, SameSource, SourceTyped DEF Inv
<1>3. RowsInv'
  BY <1>2 DEF Outside, Inv, RowsInv, Exists, Sound
<1>4. TimeInv'
  BY DEF Outside, Inv, TimeInv, Continues
<1>5. ReadInv'
  BY DEF Outside, Inv, ReadInv, Continues, AsRead
<1> QED
  BY <1>1, <1>2, <1>3, <1>4, <1>5 DEF RestInv

LEMMA FailuresAre ==
  ASSUME Inv, NEW r \in Reminders, NEW b \in Failures(r)
  PROVE  Sound(b) /\ b.state # "scheduled"
<1>1. DueOf(r) \in Times /\ 0 \in Times
  BY SourceTyped, Constants DEF Inv
<1>2. "failed" \in States \ {"none", "cancelled"} /\ Clean.state = "cancelled"
  BY BoundIs DEF States, Clean
<1> QED
  BY <1>1, <1>2, BindingsMade, BoundIs DEF Failures

\* A call that failed, or was given up: a later run sets it right.
LEMMA FailedCall ==
  ASSUME Inv, TypeOK', Outside, run.at = "calls", Continues(run'), ~run'.waiting,
         \/ run'.todo = <<>>
         \/ run.todo # <<>> /\ run'.todo = Tail(run.todo),
         \A r \in Reminders : run'.updates[r] \in Failures(r) \cup {run.updates[r]},
         disturbed', native' = native,
         \A r \in Reminders : attempts'[r] \in {attempts[r], NoCall}
  PROVE  Inv'
<1>1. run'.at = "calls"
  BY DEF Continues
<1>2. \A r \in Reminders : Sound(run'.updates[r])
  BY FailuresAre DEF Inv, RowsInv
<1>3. /\ RowsInv' /\ TimeInv' /\ ReadInv' /\ SourceKept /\ RestInv'
      /\ \A r \in Reminders : DueOf(r)' = DueOf(r) /\ BoundAs(r)' = BoundAs(r)
  BY <1>1, <1>2, ContinuesHas DEF Inv, TimeInv
<1>4. CallInv' /\ FreshInv' /\ QuietInv' /\ AimInv'
  BY <1>1 DEF CallInv, FreshInv, QuietInv, AimInv
<1>5. /\ Ordered(run'.todo)
      /\ \A r \in Reminders : HasJob(run'.todo, r) => HasJob(run.todo, r)
      /\ run'.todo # <<>> => Head(run'.todo).op # "verify"
  <2>1. Ordered(run.todo) /\ TypeOK
    BY DEF Inv, ListInv
  <2>2. CASE run'.todo = <<>>
    <3>1. Ordered(<<>>) /\ \A r \in Reminders : ~HasJob(<<>>, r)
      BY DEF Ordered, Single, Unbegun, Fitting, HasJob
    <3> QED
      BY <2>2, <3>1
  <2>3. CASE run.todo # <<>> /\ run'.todo = Tail(run.todo)
    <3>1. /\ Ordered(Tail(run.todo))
          /\ \A r \in Reminders : HasJob(Tail(run.todo), r) => HasJob(run.todo, r)
      BY <2>1, <2>3, RestOrdered
    <3>2. ASSUME Tail(run.todo) # <<>> PROVE Head(Tail(run.todo)).op # "verify"
      <4>1. Tail(run.todo) \in Seq(Job)
        BY <2>1, <2>3, RestIs
      <4>2. 1 \in DOMAIN Tail(run.todo) /\ Head(Tail(run.todo)) = Tail(run.todo)[1]
        BY <3>2, <4>1
      <4>3. 1 + 1 \in DOMAIN run.todo /\ Tail(run.todo)[1] = run.todo[1 + 1]
        BY <2>1, <2>3, <4>2, RestIs
      <4> QED
        BY <2>1, <4>2, <4>3 DEF Ordered, Unbegun
    <3> QED
      BY <2>3, <3>1, <3>2
  <2> QED
    BY <2>2, <2>3
<1>6. ListInv'
  <2>1. Ordered(run.todo)'
    BY <1>3, <1>5, OrderKept
  <2>2. ASSUME NEW r \in Reminders, run'.updates[r].state = "scheduled"
        PROVE  Recalled(r)' \/ Settled(r)'
    <3>1. run.updates[r].state = "scheduled"
      BY <2>2, FailuresAre
    <3>2. Recalled(r) \/ Settled(r)
      BY <3>1 DEF Inv, ListInv
    <3>3. CASE Recalled(r)
      BY <1>3, <3>3 DEF Recalled, SourceKept
    <3>4. CASE Settled(r)
      <4>1. attempts'[r] = NoCall /\ ~HasJob(run'.todo, r) /\ Held(r)'
        BY <1>3, <1>5, <3>4 DEF Settled, Held, Outside
      <4> QED
        BY <4>1 DEF Settled, HasJob
    <3> QED
      BY <3>2, <3>3, <3>4
  <2> QED
    BY <1>5, <2>1, <2>2 DEF ListInv
<1> QED
  BY <1>3, <1>4, <1>6 DEF Inv

\* A call that succeeded, when there is nothing of it left in flight.
LEMMA SucceededCall ==
  ASSUME Inv, TypeOK', Outside, run.at = "calls", run.todo # <<>>,
         NEW j, j = Head(run.todo), run' = Succeed(j), disturbed' = disturbed,
         \A r \in Reminders : r # j.of => native'[r] = native[r] /\ attempts'[r] = attempts[r],
         attempts'[j.of] = NoCall \/ (j.op = "clear" /\ ~run.waiting
                                        /\ attempts'[j.of] = attempts[j.of]),
         native'[j.of] # 0 => native'[j.of] > clock,
         j.op = "verify" => native'[j.of] = DueOf(j.of),
         j.op = "discard" => native'[j.of] = 0,
         native'[j.of] # 0 => native[j.of] # 0 \/ j.op = "schedule"
  PROVE  Inv'
<1>1. /\ TypeOK /\ Ordered(run.todo) /\ j \in Job
  BY RestIs DEF Inv, ListInv
<1>2. /\ Continues(Succeed(j)) /\ Succeed(j).todo = Rest(j) /\ ~Succeed(j).waiting
      /\ j.op = "verify" => Succeed(j).updates[j.of] = Bound(DueOf(j.of), "scheduled")
      /\ j.op = "clear" => Succeed(j).updates[j.of] = Clean
      /\ j.op \notin {"verify", "clear"} =>
           Succeed(j).updates[j.of] = run.updates[j.of]
      /\ \A r \in Reminders : r # j.of => Succeed(j).updates[r] = run.updates[r]
  BY <1>1, SucceedIs
<1> DEFINE todo == Rest(j)
<1>3. /\ Continues(run') /\ run'.todo = todo /\ ~run'.waiting /\ run'.at = "calls"
      /\ j.op = "verify" => run'.updates[j.of] = Bound(DueOf(j.of), "scheduled")
      /\ j.op = "clear" => run'.updates[j.of] = Clean
      /\ j.op \notin {"verify", "clear"} => run'.updates[j.of] = run.updates[j.of]
      /\ \A r \in Reminders : r # j.of => run'.updates[r] = run.updates[r]
  BY <1>2 DEF Continues
<1>4. j.of \in Reminders /\ j.op \in Setting \cup {"discard", "free", "clear"}
  BY <1>1 DEF Job
<1>5. /\ Ordered(todo) /\ Ordered(Tail(run.todo)) /\ Fits(j)
      /\ \A r \in Reminders :
           /\ HasJob(todo, r) => HasJob(run.todo, r)
           /\ HasJobs(run.todo, r, {"discard"}) =>
                HasJobs(todo, r, {"discard"}) \/ j = [op |-> "discard", of |-> r]
           /\ HasJobs(run.todo, r, Setting) =>
                HasJobs(todo, r, Setting) \/ j = [op |-> "verify", of |-> r]
      /\ j.op # "discard" => ~HasJob(Tail(run.todo), j.of)
  BY <1>1, RestOrdered
<1>6. /\ 1 \in DOMAIN run.todo /\ run.todo[1] = j /\ HasJob(run.todo, j.of)
      /\ todo \in Seq(Job) /\ Tail(run.todo) \in Seq(Job)
      /\ j.op \in {"cancel", "schedule"} => todo[1] = [op |-> AfterCall[j.op], of |-> j.of]
      /\ j.op \notin {"cancel", "schedule"} => todo = Tail(run.todo)
      /\ \A i \in DOMAIN Tail(run.todo) :
           i + 1 \in DOMAIN run.todo /\ Tail(run.todo)[i] = run.todo[i + 1]
  BY <1>1, RestIs DEF HasJob
<1> HIDE DEF todo
<1>7. \A r \in Reminders : native'[r] # 0 => native'[r] > clock
  BY <1>4 DEF Inv, TimeInv
<1>8. \A r \in Reminders : Sound(run'.updates[r])
  <2>1. DueOf(j.of) \in Times /\ "scheduled" \in States \ {"none", "cancelled"}
    BY <1>1, <1>4, SourceTyped DEF States
  <2> QED
    BY <1>3, <1>4, <2>1, BindingsMade DEF Inv, RowsInv
<1>9. /\ RowsInv' /\ TimeInv' /\ ReadInv' /\ SourceKept /\ RestInv'
      /\ Desired' = Desired /\ Eligible' = Eligible
      /\ Desired \subseteq Reminders /\ Eligible \subseteq Reminders
      /\ \A r \in Reminders : DueOf(r)' = DueOf(r) /\ BoundAs(r)' = BoundAs(r)
  BY <1>3, <1>7, <1>8, ContinuesHas
<1>10. CallInv' /\ FreshInv'
  BY <1>3 DEF CallInv, FreshInv
<1>11. QuietInv'
  <2> SUFFICES ASSUME ~disturbed', NEW r \in Reminders, attempts'[r] # NoCall PROVE FALSE
    BY DEF QuietInv
  <2>1. r # j.of => run.waiting /\ j.of = r
    BY DEF Inv, QuietInv
  <2>2. r = j.of => run.waiting
    BY DEF Inv, QuietInv
  <2> QED
    BY <2>1, <2>2
<1>12. ASSUME NEW r \in Reminders, r # j.of
       PROVE  /\ Settled(r) => Settled(r)'
              /\ Achieved(r) => Achieved(r)'
  <2>1. HasJob(run.todo, r)' => HasJob(run.todo, r)
    BY <1>3, <1>5 DEF HasJob
  <2>2. Held(r) => Held(r)'
    BY <1>9, <1>12 DEF Held, Outside
  <2> QED
    BY <1>3, <1>9, <1>12, <2>1, <2>2 DEF Settled, Achieved
<1>13. ASSUME j.op = "verify"
       PROVE  /\ Settled(j.of)' /\ Achieved(j.of)'
  <2>1. ~HasJob(run'.todo, j.of)
    BY <1>3, <1>5, <1>6, <1>13
  <2>2. ~HasJob(run.todo, j.of)'
    BY <2>1 DEF HasJob
  <2>3. Held(j.of)'
    BY <1>4, <1>9, <1>13 DEF Held
  <2>4. attempts'[j.of] = NoCall
    BY <1>13
  <2>5. run'.updates[j.of] = Bound(DueOf(j.of), "scheduled")'
    BY <1>3, <1>4, <1>9, <1>13
  <2> QED
    BY <2>2, <2>3, <2>4, <2>5 DEF Settled, Achieved
<1>14. ListInv'
  <2>1. Ordered(run.todo)'
    BY <1>3, <1>5, <1>9, OrderKept
  <2>2. ASSUME run'.todo # <<>>, Head(run'.todo).op = "verify"
        PROVE  attempts'[Head(run'.todo).of] = NoCall
    <3>1. 1 \in DOMAIN todo /\ Head(todo) = todo[1] /\ todo # <<>>
      BY <1>3, <1>6, <2>2
    <3>2. CASE j.op \in {"cancel", "schedule"}
      <4>1. Head(todo).of = j.of
        BY <1>6, <3>1, <3>2
      <4> QED
        BY <1>3, <3>2, <4>1
    <3>3. CASE j.op \notin {"cancel", "schedule"}
      <4>1. 1 \in DOMAIN Tail(run.todo) /\ Head(todo) = Tail(run.todo)[1]
        BY <1>6, <3>1, <3>3
      <4>2. 1 + 1 \in DOMAIN run.todo /\ Head(todo) = run.todo[1 + 1]
        BY <1>6, <4>1
      <4>3. Head(todo).op # "verify"
        BY <1>1, <4>2 DEF Ordered, Unbegun
      <4> QED
        BY <1>3, <2>2, <4>3
    <3> QED
      BY <3>2, <3>3
  <2>3. ASSUME NEW r \in Reminders, run'.updates[r].state = "scheduled"
        PROVE  Recalled(r)' \/ Settled(r)'
    <3>1. CASE r = j.of /\ j.op = "verify"
      BY <1>13, <3>1
    <3>2. CASE ~(r = j.of /\ j.op = "verify")
      <4>1. run.updates[r].state = "scheduled"
        <5>1. Clean.state = "cancelled"
          BY BoundIs DEF Clean
        <5> QED
          BY <1>3, <1>4, <2>3, <3>2, <5>1
      <4>2. Recalled(r) \/ Settled(r)
        BY <4>1 DEF Inv, ListInv
      <4>3. CASE Recalled(r)
        BY <1>9, <4>3 DEF Recalled, SourceKept
      <4>4. CASE Settled(r)
        <5>1. r # j.of
          BY <1>6, <4>4 DEF Settled
        <5> QED
          BY <1>12, <4>4, <5>1
      <4> QED
        BY <4>2, <4>3, <4>4
    <3> QED
      BY <3>1, <3>2
  <2> QED
    BY <2>1, <2>2, <2>3 DEF ListInv
<1>15. ASSUME ~disturbed' PROVE AimInv'
  <2>1. /\ \A r \in Reminders :
             native[r] # 0 => r \in Desired \/ HasJobs(run.todo, r, {"discard"})
        /\ \A r \in Desired : HasJobs(run.todo, r, Setting) \/ Achieved(r)
        /\ \A r \in Eligible \ Desired : run.updates[r] = Bound(DueOf(r), "unavailable")
    BY <1>15 DEF Inv, AimInv
  <2>2. \A r \in Reminders : \A ops : HasJobs(todo, r, ops) = HasJobs(run.todo, r, ops)'
    BY <1>3 DEF HasJobs
  <2>3. ASSUME NEW r \in Reminders, native'[r] # 0
        PROVE  r \in Desired \/ HasJobs(run.todo, r, {"discard"})'
    <3>1. CASE r = j.of /\ j.op = "schedule"
      BY <1>5, <3>1 DEF Fits, Setting
    <3>2. CASE ~(r = j.of /\ j.op = "schedule")
      <4>1. native[r] # 0
        BY <2>3, <3>2
      <4>2. j # [op |-> "discard", of |-> r]
        BY <2>3
      <4> QED
        BY <1>5, <2>1, <2>2, <4>1, <4>2
    <3> QED
      BY <3>1, <3>2
  <2>4. ASSUME NEW r \in Desired PROVE HasJobs(run.todo, r, Setting)' \/ Achieved(r)'
    <3>1. r \in Reminders
      BY <1>9
    <3>2. CASE r = j.of /\ j.op = "verify"
      BY <1>13, <3>2
    <3>3. CASE ~(r = j.of /\ j.op = "verify") /\ HasJobs(run.todo, r, Setting)
      <4>1. j # [op |-> "verify", of |-> r]
        BY <3>3
      <4> QED
        BY <1>5, <2>2, <3>1, <3>3, <4>1
    <3>4. CASE Achieved(r)
      <4>1. r # j.of
        BY <1>6, <3>4 DEF Achieved
      <4> QED
        BY <1>12, <3>1, <3>4, <4>1
    <3> QED
      BY <2>1, <3>2, <3>3, <3>4
  <2>5. ASSUME NEW r \in Eligible \ Desired
        PROVE  run'.updates[r] = Bound(DueOf(r), "unavailable")'
    <3>1. r \in Reminders /\ run.updates[r] = Bound(DueOf(r), "unavailable")
      BY <1>9, <2>1
    <3>2. r = j.of => j.op \notin {"verify", "clear"}
      BY <1>1, <1>5, SourceTyped DEF Fits, Setting
    <3>3. run'.updates[r] = run.updates[r]
      BY <1>3, <3>1, <3>2
    <3> QED
      BY <1>9, <3>1, <3>3
  <2> QED
    BY <1>9, <2>3, <2>4, <2>5 DEF AimInv
<1>16. AimInv'
  BY <1>15 DEF AimInv
<1> QED
  BY <1>9, <1>10, <1>11, <1>14, <1>16 DEF Inv

\* A call that starts, or is shared with one in flight.
LEMMA WaitingCall ==
  ASSUME Inv, TypeOK', Outside, run.at = "calls", run.todo # <<>>, ~run.waiting,
         NEW j, j = Head(run.todo), j.op # "verify",
         run' = [run EXCEPT !.waiting = TRUE],
         attempts' = [attempts EXCEPT ![j.of] = CallOf(j)],
         UNCHANGED <<native, disturbed>>
  PROVE  Inv'
<1>1. TypeOK /\ Ordered(run.todo) /\ j \in Job
  BY RestIs DEF Inv, ListInv
<1>2. /\ Continues(run') /\ run'.waiting /\ run'.todo = run.todo
      /\ run'.updates = run.updates /\ run'.at = "calls"
  BY <1>1, WaitingIs DEF Continues
<1>3. /\ j.of \in Reminders /\ HasJob(run.todo, j.of)
      /\ attempts'[j.of] = CallOf(j)
      /\ \A r \in Reminders : r # j.of => attempts'[r] = attempts[r]
  <2>1. 1 \in DOMAIN run.todo /\ run.todo[1] = j
    BY <1>1, RestIs
  <2>2. attempts \in [Reminders -> Call] /\ j.of \in Reminders
    BY <1>1 DEF Job, TypeOK
  <2> QED
    BY <2>1, <2>2 DEF HasJob
<1>4. /\ RowsInv' /\ TimeInv' /\ ReadInv' /\ SourceKept /\ RestInv'
      /\ Desired' = Desired /\ Eligible' = Eligible
      /\ Desired \subseteq Reminders /\ Eligible \subseteq Reminders
      /\ \A r \in Reminders : DueOf(r)' = DueOf(r) /\ BoundAs(r)' = BoundAs(r)
  <2>1. \A r \in Reminders : Sound(run'.updates[r])
    BY <1>2 DEF Inv, RowsInv
  <2> QED
    BY <1>2, <2>1, ContinuesHas DEF Inv, TimeInv
<1>5. CallInv'
  <2>1. CallOf(j)' = CallOf(j)
    BY <1>3, <1>4 DEF CallOf
  <2> QED
    BY <1>2, <1>3, <2>1 DEF CallInv
<1>6. QuietInv'
  <2> SUFFICES ASSUME ~disturbed, NEW r \in Reminders, attempts'[r] # NoCall
               PROVE  run'.waiting /\ Head(run'.todo).of = r
    BY DEF QuietInv
  <2> QED
    BY <1>2, <1>3 DEF Inv, QuietInv
<1>7. \A r \in Reminders : /\ HasJob(run.todo, r)' = HasJob(run.todo, r)
                           /\ \A ops : HasJobs(run.todo, r, ops)' = HasJobs(run.todo, r, ops)
                           /\ Held(r)' = Held(r) /\ Achieved(r)' = Achieved(r)
                           /\ Recalled(r)' = Recalled(r)
  <2>1. \A r \in Reminders :
          /\ HasJob(run.todo, r)' = HasJob(run.todo, r)
          /\ \A ops : HasJobs(run.todo, r, ops)' = HasJobs(run.todo, r, ops)
    BY <1>2 DEF HasJob, HasJobs
  <2>2. \A r \in Reminders : Held(r)' = Held(r)
    BY <1>4 DEF Held, Outside
  <2> QED
    BY <1>2, <1>4, <2>1, <2>2 DEF Achieved, Recalled, SourceKept
<1>8. \A r \in Reminders : Settled(r) => Settled(r)'
  BY <1>3, <1>7 DEF Settled
<1>9. ListInv'
  <2>1. Ordered(run.todo)'
    BY <1>1, <1>2, <1>4, OrderKept
  <2> QED
    BY <1>2, <1>4, <1>7, <1>8, <2>1 DEF Inv, ListInv
<1>11. FreshInv'
  BY <1>2 DEF FreshInv
<1>10. AimInv'
  <2> SUFFICES ASSUME ~disturbed
               PROVE  /\ \A r \in Reminders : native[r] # 0 =>
                           r \in Desired \/ HasJobs(run.todo, r, {"discard"})'
                      /\ \A r \in Desired :
                           HasJobs(run.todo, r, Setting)' \/ Achieved(r)'
                      /\ \A r \in Eligible \ Desired :
                           run'.updates[r] = Bound(DueOf(r), "unavailable")
    BY <1>4 DEF AimInv
  <2>1. /\ \A r \in Reminders :
             native[r] # 0 => r \in Desired \/ HasJobs(run.todo, r, {"discard"})
        /\ \A r \in Desired : HasJobs(run.todo, r, Setting) \/ Achieved(r)
        /\ \A r \in Eligible \ Desired : run.updates[r] = Bound(DueOf(r), "unavailable")
    BY DEF Inv, AimInv
  <2> QED
    BY <1>2, <1>4, <1>7, <2>1
<1> QED
  BY <1>4, <1>5, <1>6, <1>9, <1>10, <1>11 DEF Inv

\* An answer that no run waits for: the run in flight has met an older call.
LEMMA UnheardAnswer ==
  ASSUME Inv, TypeOK', NEW r \in Reminders, Answer(r),
         ~(run.waiting /\ Head(run.todo).of = r)
  PROVE  Inv'
<1>1. /\ attempts[r] # NoCall /\ attempts' = [attempts EXCEPT ![r] = NoCall]
      /\ UNCHANGED <<clock, item, binding, notice, pending, run>>
      /\ \/ Land({r}) /\ UNCHANGED disturbed
         \/ UNCHANGED native /\ disturbed'
      /\ TypeOK
  BY AnswerIs DEF Inv
<1>2. disturbed /\ disturbed'
  BY <1>1 DEF Inv, QuietInv
<1>3. /\ attempts'[r] = NoCall
      /\ \A s \in Reminders : s # r => attempts'[s] = attempts[s]
  BY <1>1, Constants DEF TypeOK
<1>4. \A s \in Reminders : s # r => native'[s] = native[s]
  BY <1>1, LandIs
<1>5. \A s \in Reminders : native'[s] # 0 => native'[s] > clock
  BY <1>1, LandIs DEF Inv, TimeInv
<1>6. RowsInv' /\ TimeInv' /\ ReadInv'
  BY <1>1, <1>5 DEF Inv, RowsInv, Exists, Sound, BoundAs, TimeInv, ReadInv, AsRead
<1>7. QuietInv' /\ AimInv' /\ RestInv'
  BY <1>2 DEF QuietInv, AimInv, RestInv
<1>10. FreshInv'
  BY <1>1, <1>3 DEF Inv, FreshInv
<1>8. CallInv'
  <2> SUFFICES ASSUME run.waiting
               PROVE  attempts'[Head(run.todo).of] = CallOf(Head(run.todo))
    BY <1>1 DEF Inv, CallInv, CallOf, DueOf
  <2>1. run.todo # <<>> /\ attempts[Head(run.todo).of] = CallOf(Head(run.todo))
    BY DEF Inv, CallInv
  <2>2. Head(run.todo) \in Job
    BY <1>1, <2>1, RestIs
  <2>3. Head(run.todo).of \in Reminders /\ Head(run.todo).of # r
    BY <2>2 DEF Job
  <2> QED
    BY <1>3, <2>1, <2>3
<1>9. ListInv'
  <2> SUFFICES ASSUME run.at = "calls" PROVE ListInv'
    BY <1>1 DEF ListInv
  <2>1. Ordered(run.todo)'
    BY <1>1, OrderKept DEF Inv, ListInv, SourceKept
  <2>2. ASSUME run.todo # <<>>, Head(run.todo).op = "verify"
        PROVE  attempts'[Head(run.todo).of] = NoCall
    <3>1. attempts[Head(run.todo).of] = NoCall
      BY <2>2 DEF Inv, ListInv
    <3>2. Head(run.todo) \in Job
      BY <1>1, <2>2, RestIs
    <3>3. Head(run.todo).of \in Reminders
      BY <3>2 DEF Job
    <3> QED
      BY <1>3, <3>1, <3>3
  <2>3. ASSUME NEW s \in Reminders, run.updates[s].state = "scheduled"
        PROVE  Recalled(s)' \/ Settled(s)'
    <3>1. /\ BoundAs(s)' = BoundAs(s) /\ DueOf(s)' = DueOf(s)
          /\ Recalled(s)' = Recalled(s)
      BY <1>1 DEF BoundAs, DueOf, Recalled
    <3>2. Recalled(s) \/ Settled(s)
      BY <2>3 DEF Inv, ListInv
    <3>3. ASSUME Settled(s) PROVE Settled(s)'
      <4>1. s # r
        BY <1>1, <3>3 DEF Settled
      <4>2. attempts'[s] = attempts[s] /\ native'[s] = native[s]
        BY <1>3, <1>4, <4>1
      <4> QED
        BY <1>1, <3>1, <3>3, <4>2 DEF Settled, HasJob, Held
    <3> QED
      BY <3>1, <3>2, <3>3
  <2> QED
    BY <1>1, <2>1, <2>2, <2>3 DEF ListInv
<1> QED
  BY <1>6, <1>7, <1>8, <1>9, <1>10 DEF Inv

LEMMA NextCallKeeps ==
  ASSUME Inv, TypeOK', NextCall
  PROVE  Inv'
<1> DEFINE j == Head(run.todo)
<1>1. /\ run.at = "calls" /\ run.current /\ ~run.waiting /\ run.todo # <<>>
      /\ Outside /\ UNCHANGED native
      /\ \/ /\ j.op = "clear" /\ run' = Succeed(j)
            /\ UNCHANGED <<attempts, disturbed>>
         \/ /\ j.op = "verify" /\ native[j.of] = DueOf(j.of)
            /\ run' = Succeed(j) /\ UNCHANGED attempts /\ disturbed' = disturbed
         \/ run' = Fail(j) /\ disturbed' = TRUE /\ UNCHANGED attempts
         \/ /\ j.op # "verify" /\ run' = [run EXCEPT !.waiting = TRUE]
            /\ attempts' = [attempts EXCEPT ![j.of] = CallOf(j)]
            /\ UNCHANGED disturbed
         \/ GiveUp
  BY NextCallIs DEF Inv, Outside
<1>2. TypeOK /\ j \in Job /\ \A r \in Reminders : native[r] # 0 => native[r] > clock
  BY <1>1, RestIs DEF Inv, TimeInv
<1>3. j.of \in Reminders
  BY <1>2 DEF Job
<1>4. j.op = "verify" => attempts[j.of] = NoCall
  BY <1>1 DEF Inv, ListInv
<1> HIDE DEF j
<1>5. CASE j.op = "clear" /\ run' = Succeed(j) /\ UNCHANGED <<attempts, disturbed>>
  BY <1>1, <1>2, <1>3, <1>5, SucceededCall DEF j
<1>6. CASE /\ j.op = "verify" /\ native[j.of] = DueOf(j.of)
           /\ run' = Succeed(j) /\ UNCHANGED attempts /\ disturbed' = disturbed
  BY <1>1, <1>2, <1>3, <1>4, <1>6, SucceededCall DEF j
<1>7. CASE run' = Fail(j) /\ disturbed' = TRUE /\ UNCHANGED attempts
  <2>1. /\ Continues(run') /\ run'.todo = Tail(run.todo) /\ ~run'.waiting
        /\ \A r \in Reminders : run'.updates[r] \in Failures(r) \cup {run.updates[r]}
    BY <1>1, <1>2, <1>7, FailIs DEF j
  <2> QED
    BY <1>1, <1>7, <2>1, FailedCall
<1>8. CASE /\ j.op # "verify" /\ run' = [run EXCEPT !.waiting = TRUE]
           /\ attempts' = [attempts EXCEPT ![j.of] = CallOf(j)] /\ UNCHANGED disturbed
  BY <1>1, <1>8, WaitingCall DEF j
<1>9. CASE GiveUp
  <2>1. /\ Continues(run') /\ run'.todo = <<>> /\ ~run'.waiting
        /\ \A r \in Reminders : run'.updates[r] \in Failures(r) \cup {run.updates[r]}
    BY <1>2, <1>9, GiveUpIs
  <2>2. UNCHANGED attempts /\ disturbed' = TRUE
    BY <1>9 DEF GiveUp, platform
  <2> QED
    BY <1>1, <2>1, <2>2, FailedCall
<1> QED
  BY <1>1, <1>5, <1>6, <1>7, <1>8, <1>9

LEMMA TimeoutKeeps ==
  ASSUME Inv, TypeOK', Timeout
  PROVE  Inv'
<1>1. Outside /\ GiveUp /\ run.waiting /\ TypeOK
  BY DEF Timeout, RunStep, Outside, Inv
<1>2. run.at = "calls"
  BY <1>1 DEF Inv, CallInv
<1>3. /\ Continues(run') /\ run'.todo = <<>> /\ ~run'.waiting
      /\ \A r \in Reminders : run'.updates[r] \in Failures(r) \cup {run.updates[r]}
  BY <1>1, GiveUpIs
<1>4. UNCHANGED <<native, attempts>> /\ disturbed' = TRUE
  BY <1>1 DEF GiveUp, platform
<1> QED
  BY <1>1, <1>2, <1>3, <1>4, FailedCall

LEMMA AnswerKeeps ==
  ASSUME Inv, TypeOK', NEW r \in Reminders, Answer(r)
  PROVE  Inv'
<1> DEFINE j == Head(run.todo)
<1>1. CASE ~(run.waiting /\ j.of = r)
  BY <1>1, UnheardAnswer
<1>2. CASE run.waiting /\ j.of = r
  <2>1. /\ run.at = "calls" /\ run.todo # <<>> /\ j.op # "verify"
        /\ attempts[r] = CallOf(j)
    BY <1>2 DEF Inv, CallInv
  <2>2. /\ attempts' = [attempts EXCEPT ![r] = NoCall] /\ Outside
        /\ \/ Land({r}) /\ UNCHANGED disturbed /\ run' = Succeed(j)
           \/ UNCHANGED native /\ disturbed' /\ run' = Fail(j)
    BY <1>2, AnswerIs DEF Inv, Outside
  <2>3. /\ TypeOK /\ attempts'[r] = NoCall
        /\ \A s \in Reminders : s # r => attempts'[s] = attempts[s]
    BY <2>2, Constants DEF Inv, TypeOK
  <2>4. CASE Land({r}) /\ UNCHANGED disturbed /\ run' = Succeed(j)
    <3>1. /\ \A s \in Reminders : s # r => native'[s] = native[s]
          /\ native'[r] # 0 => native'[r] > clock /\ attempts[r].op = "schedule"
      BY <2>3, <2>4, LandIs
    <3>2. attempts[r].op = "schedule" => j.op = "schedule"
      BY <2>1 DEF CallOf
    <3> HIDE DEF j
    <3>3. native'[j.of] # 0 => native'[j.of] > clock /\ j.op = "schedule"
      BY <1>2, <3>1, <3>2
    <3> QED
      BY <1>2, <2>1, <2>2, <2>3, <2>4, <3>1, <3>3, SucceededCall DEF j
  <2>5. CASE UNCHANGED native /\ disturbed' /\ run' = Fail(j)
    <3>1. /\ Continues(run') /\ run'.todo = Tail(run.todo) /\ ~run'.waiting
          /\ \A s \in Reminders : run'.updates[s] \in Failures(s) \cup {run.updates[s]}
      BY <2>1, <2>3, <2>5, FailIs
    <3>2. \A s \in Reminders : attempts'[s] \in {attempts[s], NoCall}
      BY <2>3
    <3> QED
      BY <2>1, <2>2, <2>5, <3>1, <3>2, FailedCall
  <2> QED
    BY <2>2, <2>4, <2>5
<1> QED
  BY <1>1, <1>2

-----------------------------------------------------------------------------
(* The theorems.                                                           *)

LEMMA InvStep ==
  ASSUME Inv, [Next]_vars
  PROVE  Inv'
<1>1. run.waiting => run.todo # <<>>
  BY DEF Inv, CallInv
<1>2. TypeOK'
  BY <1>1, TypeStep DEF Inv
<1>3. CASE UNCHANGED vars
  <2>1. CallInv' /\ ListInv' /\ FreshInv' /\ QuietInv' /\ AimInv'
    BY <1>3, SameCalls DEF vars, SameRun, SourceKept
  <2>2. RowsInv' /\ TimeInv' /\ ReadInv'
    BY <1>3 DEF vars, Inv, RowsInv, Exists, Sound, BoundAs, TimeInv, ReadInv, AsRead
  <2>3. RestInv'
    BY <1>3 DEF vars, Inv, RestInv, Agreed, ToCome, IsSet
  <2> QED
    BY <1>2, <2>1, <2>2, <2>3 DEF Inv
<1>4. CASE Edit \/ Announce \/ Prompt \/ Tick \/ Crash
  BY <1>2, <1>4, EditKeeps, AnnounceKeeps, PromptKeeps, TickKeeps, CrashKeeps
<1>5. CASE Drain
  BY <1>2, <1>5, ReadKeeps, AskKeeps, NextCallKeeps, WriteKeeps, OvertakenKeeps,
     RefuseKeeps, TimeoutKeeps DEF Drain
<1>6. CASE \E r \in Reminders : Answer(r)
  BY <1>2, <1>6, AnswerKeeps
<1> QED
  BY <1>3, <1>4, <1>5, <1>6 DEF Next

LEMMA Invariance == Spec => []Inv
  BY InitInv, InvStep, PTL DEF Spec

\* Every variable stays in its type: in particular no call is waited for but
\* the first of the list (awaitPlatform), whatever is given up or answered late.
THEOREM TypeCorrect == Spec => []TypeOK
<1>1. Inv => TypeOK
  BY DEF Inv
<1> QED
  BY <1>1, Invariance, PTL

\* For any number of reminders and any capacity: once every request is served,
\* one run that met no failure is enough for the alarms of the platform to be
\* those of the database (_performNotificationReconciliation).
THEOREM AlarmsAreThoseOfTheRows == Spec => []AlarmsAgree
<1>1. Inv => AlarmsAgree
  BY DEF Inv, RestInv, Agreed, AlarmsAgree, AtRest
<1> QED
  BY <1>1, Invariance, PTL

LEMMA VerdictStep ==
  ASSUME Inv, [Next]_vars, NEW r \in Reminders,
         binding'[r] # binding[r], item'[r] = item[r]
  PROVE  /\ Write /\ run.at = "calls" /\ run.current /\ ~run.waiting /\ run.todo = <<>>
         /\ AsRead(r) /\ binding'[r] = run.updates[r] /\ native' = native
<1>1. ~(UNCHANGED binding)
  OBVIOUS
<1>2. ~Edit
  BY EditIs DEF Inv
<1>3. /\ ~Announce /\ ~Tick /\ ~Crash /\ ~(UNCHANGED vars)
      /\ \A s \in Reminders : ~Answer(s)
  BY <1>1, AnnounceIs, AnswerIs DEF Inv, database, Tick, Crash, vars
<1>4. ~Prompt /\ ~Read /\ ~Ask /\ ~NextCall /\ ~Overtaken /\ ~Refuse /\ ~Timeout
  BY <1>1 DEF Prompt, Read, Ask, NextCall, Overtaken, Refuse, Timeout
<1>5. Write
  BY <1>2, <1>3, <1>4 DEF Next, Drain
<1> QED
  BY <1>5 DEF Write, Writing, platform

\* A binding comes to say that an alarm to come is set only while the platform
\* holds that alarm, at that instant: a call given up, or one that lands between
\* the last look of a run and its write, never makes it a lie
\* (_performNotificationReconciliation, verify).
THEOREM SetIsVerified == Spec => SetMeansVerified
<1>1. ASSUME Inv, [Next]_vars, NEW r \in Reminders,
             IsSet(r)', ~IsSet(r), ToCome(r), item'[r] = item[r]
      PROVE  native[r] = item[r].due
  <2>1. binding'[r] # binding[r]
    BY <1>1 DEF IsSet
  <2>2. /\ run.at = "calls" /\ AsRead(r) /\ binding'[r] = run.updates[r]
    BY <1>1, <2>1, VerdictStep
  <2>3. DueOf(r) = item[r].due /\ BoundAs(r) = binding[r]
    <3>1. run.source[r] = [item |-> item[r], binding |-> binding[r]]
      BY <2>2 DEF AsRead
    <3>2. /\ [item |-> item[r], binding |-> binding[r]].item = item[r]
          /\ [item |-> item[r], binding |-> binding[r]].binding = binding[r]
      OBVIOUS
    <3> QED
      BY <3>1, <3>2 DEF DueOf, BoundAs
  <2>4. run.updates[r] = Bound(item[r].due, "scheduled")
    BY <1>1, <2>2 DEF IsSet
  <2>5. Recalled(r) \/ Settled(r)
    BY <1>1, <2>2, <2>4, BoundIs DEF Inv, ListInv
  <2>6. Held(r)
    BY <1>1, <2>3, <2>5 DEF IsSet, Recalled, Settled
  <2>7. clock \in Nat /\ item[r].due \in Nat /\ item[r].due > clock
    BY <1>1, Constants DEF Inv, TypeOK, Item, ToCome
  <2> QED
    BY <2>3, <2>6, <2>7 DEF Held
<1>2. Inv /\ [Next]_vars =>
        [\A r \in Reminders :
           IsSet(r)' /\ ~IsSet(r) /\ ToCome(r) /\ item'[r] = item[r] =>
             native[r] = item[r].due]_vars
  BY <1>1
<1> QED
  BY <1>2, Invariance, PTL DEF Spec, SetMeansVerified

-----------------------------------------------------------------------------
(* Set means held.                                                         *)

\* A run has its verdict on every alarm it wants, or is about to have it.
Told(r) == HasJobs(run.todo, r, Setting) \/ run.updates[r] # NoBinding
ToldInv == run.at = "calls" => \A r \in Eligible : Told(r)

\* What is bound as set after a run that the database took is there, and no
\* call can take it away.
Kept(r) ==
  ToCome(r) /\ IsSet(r) => attempts[r] = NoCall /\ native[r] = item[r].due
HeldInv ==
  /\ run.at = "idle" /\ ~notice.made /\ ~pending.asked
  /\ ~run.older /\ ~run.refused
  => \A r \in Reminders : Kept(r)

LEMMA VerdictsTell ==
  /\ \A t, state : state # "none" => Bound(t, state) # NoBinding
  /\ Clean # NoBinding
<1>1. NoBinding.state = "none"
  BY DEF NoBinding
<1> QED
  BY <1>1, BoundIs DEF Clean

\* The step after a call, whether it succeeded, failed or was given up.
LEMMA CallTells ==
  ASSUME Inv, ToldInv, run.at = "calls", run.todo # <<>>, NEW j, j = Head(run.todo),
         run' \in {Succeed(j), Fail(j), [run EXCEPT !.waiting = TRUE]} \/ GiveUp
  PROVE  ToldInv' /\ run'.at = "calls"
<1>1. /\ TypeOK /\ Ordered(run.todo) /\ j \in Job
      /\ Eligible \subseteq Reminders
      /\ \A r \in Eligible : Told(r)
  BY RestIs, SourceTyped DEF Inv, ListInv, ToldInv
<1>2. Continues(run')
  BY <1>1, SucceedIs, FailIs, GiveUpIs, WaitingIs
<1>3. Eligible' = Eligible /\ run'.at = "calls"
  BY <1>2, SameSource DEF Continues, SourceKept
<1> SUFFICES ASSUME NEW r \in Eligible PROVE Told(r)'
  BY <1>3 DEF ToldInv
<1>4. r \in Reminders /\ Told(r)
  BY <1>1
<1>5. CASE run' = Succeed(j)
  <2>1. /\ run'.todo = Rest(j)
        /\ r # j.of => run'.updates[r] = run.updates[r]
        /\ j.op = "verify" => run'.updates[j.of] = Bound(DueOf(j.of), "scheduled")
        /\ j.op = "clear" => run'.updates[j.of] = Clean
        /\ j.op \notin {"verify", "clear"} => run'.updates[j.of] = run.updates[j.of]
    BY <1>1, <1>4, <1>5, SucceedIs
  <2>2. HasJobs(run.todo, r, Setting) =>
          HasJobs(Rest(j), r, Setting) \/ (j.op = "verify" /\ j.of = r)
    <3>1. j = [op |-> "verify", of |-> r] => j.op = "verify" /\ j.of = r
      OBVIOUS
    <3> QED
      BY <1>1, <1>4, <3>1, RestOrdered
  <2>3. run.updates[r] # NoBinding => run'.updates[r] # NoBinding
    BY <2>1, VerdictsTell
  <2> QED
    BY <1>4, <2>1, <2>2, <2>3, VerdictsTell DEF Told
<1>6. CASE run' = Fail(j)
  <2>1. /\ run'.todo = Tail(run.todo)
        /\ run'.updates[r] \in Failures(r) \cup {run.updates[r]}
        /\ j.op \in Setting => run'.updates[j.of] = Bound(DueOf(j.of), "failed")
    BY <1>1, <1>4, <1>6, FailIs
  <2>2. CASE run.updates[r] # NoBinding
    BY <2>1, <2>2, VerdictsTell DEF Failures, Told
  <2>3. CASE HasJobs(run.todo, r, Setting)
    <3>1. PICK i \in DOMAIN run.todo : run.todo[i].of = r /\ run.todo[i].op \in Setting
      BY <2>3 DEF HasJobs
    <3>2. CASE i = 1
      <4>1. run.todo[1] = j
        BY <1>1, RestIs
      <4> QED
        BY <2>1, <3>1, <3>2, <4>1, VerdictsTell DEF Told
    <3>3. CASE i # 1
      <4>1. i - 1 \in DOMAIN Tail(run.todo) /\ Tail(run.todo)[i - 1] = run.todo[i]
        BY <1>1, <3>3, RestIs
      <4> QED
        BY <2>1, <3>1, <4>1 DEF Told, HasJobs
    <3> QED
      BY <3>2, <3>3
  <2> QED
    BY <1>4, <2>2, <2>3 DEF Told
<1>7. CASE run' = [run EXCEPT !.waiting = TRUE]
  <2>1. run'.todo = run.todo /\ run'.updates = run.updates
    BY <1>1, <1>7, WaitingIs
  <2> QED
    BY <1>4, <2>1 DEF Told, HasJobs
<1>8. CASE GiveUp
  <2>1. /\ run'.updates[r] \in Failures(r) \cup {run.updates[r]}
        /\ HasJobs(run.todo, r, Setting) => run'.updates[r] = Bound(DueOf(r), "failed")
    BY <1>1, <1>4, <1>8, GiveUpIs
  <2> QED
    BY <1>4, <2>1, VerdictsTell DEF Failures, Told
<1> QED
  BY <1>5, <1>6, <1>7, <1>8

\* The answers begin with a verdict, or a call, for every alarm that is wanted.
LEMMA AskTells ==
  ASSUME Inv, Ask
  PROVE  ToldInv' /\ run'.at = "calls"
<1>1. TypeOK /\ Desired \subseteq Eligible /\ Eligible \subseteq Reminders
  BY SourceTyped DEF Inv
<1>2. CASE Unavailable \/ Denied \/ Unlisted
  <2>1. /\ run'.at = "calls" /\ SourceKept
        /\ \A r \in Eligible : run'.updates[r] # NoBinding
    BY <1>1, <1>2, UnlistedIs
  <2> QED
    BY <2>1, SameSource DEF ToldInv, Told
<1>3. CASE Listed
  <2>1. /\ run'.at = "calls" /\ SourceKept
        /\ \A r \in Desired \ InPlace : HasJobs(run'.todo, r, Setting)
        /\ \A r \in InPlace : run'.updates[r] = Bound(DueOf(r), "scheduled")
        /\ \A r \in Eligible \ Desired : run'.updates[r] = Bound(DueOf(r), "unavailable")
    BY <1>1, <1>3, ListedIs
  <2>2. \A r \in Eligible : HasJobs(run'.todo, r, Setting) \/ run'.updates[r] # NoBinding
    BY <2>1, VerdictsTell
  <2>3. Eligible' = Eligible
    BY <2>1, SameSource
  <2> QED
    BY <2>1, <2>2, <2>3 DEF ToldInv, Told
<1> QED
  BY <1>1, <1>2, <1>3, AskIs

\* The verdicts of a run on rows that nothing has changed since it read them.
LEMMA WriteHolds ==
  ASSUME Inv, ToldInv, Write, ~pending.asked, ~notice.made, ~run.older
  PROVE  \A r \in Reminders : Kept(r)'
<1>1. /\ run.at = "calls" /\ run.todo = <<>> /\ UNCHANGED <<clock, item, native, attempts>>
      /\ binding' = [r \in Reminders |->
                       IF run.updates[r] # NoBinding /\ AsRead(r)
                         THEN run.updates[r] ELSE binding[r]]
  BY DEF Write, Writing, RunStep, platform
<1>2. \A r \in Reminders : AsRead(r)
  BY <1>1 DEF Inv, ReadInv
<1>3. /\ clock \in Nat /\ run.now \in Nat /\ run.now <= clock
      /\ Eligible \subseteq Reminders
  BY SourceTyped, Constants DEF Inv, TypeOK, Run, TimeInv
<1> SUFFICES ASSUME NEW r \in Reminders, ToCome(r), IsSet(r)'
             PROVE  attempts[r] = NoCall /\ native[r] = item[r].due
  BY <1>1 DEF Kept, ToCome
<1>4. run.source[r].item = item[r] /\ DueOf(r) = item[r].due
  <2>1. run.source[r] = [item |-> item[r], binding |-> binding[r]]
    BY <1>2 DEF AsRead
  <2>2. [item |-> item[r], binding |-> binding[r]].item = item[r]
    OBVIOUS
  <2> QED
    BY <2>1, <2>2 DEF DueOf
<1>5. item[r].due \in Nat /\ item[r].due > clock /\ item[r].status = "active"
  BY Constants DEF Inv, TypeOK, Item, ToCome
<1>6. r \in Eligible
  BY <1>3, <1>4, <1>5 DEF Inv, RowsInv, Exists, Eligible, Attentive, Known
<1>7. run.updates[r] # NoBinding
  BY <1>1, <1>6 DEF ToldInv, Told, HasJobs
<1>8. binding'[r] = run.updates[r] /\ binding'[r].state = "scheduled"
  BY <1>1, <1>2, <1>7, BoundIs DEF IsSet
<1>9. Settled(r)
  BY <1>1, <1>8 DEF Inv, ListInv, Recalled
<1> QED
  BY <1>3, <1>4, <1>5, <1>9 DEF Settled, Held

\* A step that leaves the run without one, or another one, to tell of.
LEMMA HeldStep ==
  ASSUME Inv, ToldInv, HeldInv, [Next]_vars
  PROVE  ToldInv' /\ HeldInv'
<1>1. TypeOK /\ run \in Run
  BY DEF Inv, TypeOK
<1>2. ASSUME UNCHANGED <<clock, item, binding, native, attempts, notice, pending, run>>
      PROVE  ToldInv' /\ HeldInv'
  <2>1. Eligible' = Eligible /\ Eligible \subseteq Reminders
    BY <1>1, <1>2, SameSource, SourceTyped DEF SourceKept
  <2>2. ToldInv'
    BY <1>2, <2>1 DEF ToldInv, Told, HasJobs
  <2> QED
    BY <1>2, <2>2 DEF HeldInv, Kept, ToCome, IsSet
<1>3. CASE UNCHANGED vars
  BY <1>2, <1>3 DEF vars
<1>4. ASSUME SourceKept, UNCHANGED <<notice, pending>>,
             run'.at = run.at, run'.todo = run.todo, run'.updates = run.updates
      PROVE  ToldInv'
  <2>1. Eligible' = Eligible /\ Eligible \subseteq Reminders
    BY <1>1, <1>4, SameSource, SourceTyped
  <2> QED
    BY <1>4, <2>1 DEF ToldInv, Told, HasJobs
<1>5. CASE Edit
  <2>1. notice'.made /\ UNCHANGED <<run, pending>>
    BY <1>1, <1>5, EditIs
  <2>2. Eligible' = Eligible /\ Eligible \subseteq Reminders
    BY <1>1, <2>1, SameSource, SourceTyped DEF SourceKept
  <2> QED
    BY <2>1, <2>2 DEF ToldInv, Told, HasJobs, HeldInv
<1>6. CASE Announce
  <2>1. CASE run.at = "idle"
    <3>1. Begun /\ run'.at # "idle"
      BY <1>1, <1>6, <2>1, AnnounceIs
    <3> QED
      BY <3>1 DEF Begun, ToldInv, HeldInv
  <2>2. CASE run.at # "idle"
    <3>1. run' \in {run, [run EXCEPT !.current = FALSE]}
      BY <1>1, <1>6, <2>2, AnnounceIs
    <3>2. /\ SourceKept /\ run'.at = run.at /\ run'.todo = run.todo
          /\ run'.updates = run.updates
      BY <1>1, <3>1 DEF SourceKept, Run
    <3>3. Eligible' = Eligible /\ Eligible \subseteq Reminders
      BY <1>1, <3>2, SameSource, SourceTyped
    <3> QED
      BY <2>2, <3>2, <3>3 DEF ToldInv, Told, HasJobs, HeldInv
  <2> QED
    BY <2>1, <2>2
<1>7. CASE Tick
  <2>1. /\ clock' = clock + 1 /\ UNCHANGED <<item, binding, attempts, notice, pending, run>>
        /\ native' = [r \in Reminders |-> IF native[r] = clock + 1 THEN 0 ELSE native[r]]
    BY <1>7 DEF Tick, database
  <2>2. Eligible' = Eligible /\ Eligible \subseteq Reminders
    BY <1>1, <2>1, SameSource, SourceTyped DEF SourceKept
  <2>3. ToldInv'
    BY <2>1, <2>2 DEF ToldInv, Told, HasJobs
  <2>4. ASSUME NEW r \in Reminders, Kept(r) PROVE Kept(r)'
    <3>1. clock \in Nat /\ item[r].due \in Nat
      BY <1>1, Constants DEF TypeOK, Item
    <3>2. ToCome(r)' => ToCome(r) /\ item[r].due # clock + 1
      BY <2>1, <3>1 DEF ToCome
    <3> QED
      BY <2>1, <2>4, <3>2 DEF Kept, IsSet
  <2>5. HeldInv'
    BY <2>1, <2>4 DEF HeldInv
  <2> QED
    BY <2>3, <2>5
<1>8. CASE Crash \/ Refuse
  <2>1. CASE Crash
    <3>1. run'.at = "read"
      BY <2>1 DEF Crash, Idle
    <3> QED
      BY <3>1 DEF ToldInv, HeldInv
  <2>2. CASE Refuse
    <3>1. run'.at = "idle" /\ run'.refused
      BY <2>2 DEF Refuse, Idle
    <3> QED
      BY <3>1 DEF ToldInv, HeldInv
  <2> QED
    BY <1>8, <2>1, <2>2
<1>9. CASE Prompt
  <2>1. CASE run.current
    <3>1. PICK answer : run' = [run EXCEPT !.at = "read", !.permission = answer,
                                           !.now = clock]
      BY <1>9, <2>1 DEF Prompt
    <3>2. run'.at = "read"
      BY <1>1, <3>1 DEF Run
    <3> QED
      BY <3>2 DEF ToldInv, HeldInv
  <2>2. CASE ~run.current
    <3>1. StartRun(pending.now, FALSE) /\ pending.now \in Times
      BY <1>1, <1>9, <2>2 DEF Prompt, TypeOK, Request
    <3>2. Begun /\ run'.at # "idle"
      BY <3>1, NewRun
    <3> QED
      BY <3>2 DEF Begun, ToldInv, HeldInv
  <2> QED
    BY <2>1, <2>2
<1>10. CASE Read
  <2>1. run'.at = "ask"
    BY <1>1, <1>10 DEF Read, Run
  <2> QED
    BY <2>1 DEF ToldInv, HeldInv
<1>11. CASE Ask
  <2>1. ToldInv' /\ run'.at = "calls"
    BY <1>11, AskTells
  <2> QED
    BY <2>1 DEF HeldInv
<1>12. CASE NextCall \/ Timeout
  <2> DEFINE j == Head(run.todo)
  <2>1. CASE NextCall
    <3>1. /\ run.at = "calls" /\ run.todo # <<>>
          /\ \/ run' \in {Succeed(j), Fail(j), [run EXCEPT !.waiting = TRUE]}
             \/ GiveUp
      BY <1>1, <2>1, NextCallIs
    <3>2. ToldInv' /\ run'.at = "calls"
      BY <3>1, CallTells
    <3> QED
      BY <3>2 DEF HeldInv
  <2>2. CASE Timeout
    <3>1. GiveUp /\ run.at = "calls" /\ run.todo # <<>>
      BY <2>2 DEF Timeout, Inv, CallInv
    <3>2. ToldInv' /\ run'.at = "calls"
      BY <3>1, CallTells
    <3> QED
      BY <3>2 DEF HeldInv
  <2> QED
    BY <1>12, <2>1, <2>2
<1>13. CASE Write
  <2>1. /\ Begun /\ UNCHANGED notice
        /\ \/ pending.asked /\ run'.at # "idle"
           \/ ~pending.asked /\ pending' = pending /\ run'.older = run.older
    BY <1>1, <1>13, RunEnds DEF Write, RunStep
  <2>2. ToldInv'
    BY <2>1 DEF Begun, ToldInv
  <2>3. HeldInv'
    BY <1>13, <2>1, WriteHolds DEF HeldInv
  <2> QED
    BY <2>2, <2>3
<1>14. CASE Overtaken
  <2>1. pending.asked /\ EndRun
    BY <1>14 DEF Overtaken, Inv, ReadInv
  <2>2. Begun /\ run'.at # "idle"
    BY <1>1, <2>1, RunEnds
  <2> QED
    BY <2>2 DEF Begun, ToldInv, HeldInv
<1>15. ASSUME NEW r \in Reminders, Answer(r) PROVE ToldInv' /\ HeldInv'
  <2> DEFINE j == Head(run.todo)
  <2>1. /\ attempts[r] # NoCall /\ attempts' = [attempts EXCEPT ![r] = NoCall]
        /\ UNCHANGED <<clock, item, binding, notice, pending>>
        /\ Land({r}) \/ UNCHANGED native
        /\ \/ run.waiting /\ run' \in {Succeed(j), Fail(j)}
           \/ run' = run
    BY <1>1, <1>15, AnswerIs
  <2>2. CASE run.waiting /\ run' \in {Succeed(j), Fail(j)}
    <3>1. run.at = "calls" /\ run.todo # <<>>
      BY <2>2 DEF Inv, CallInv
    <3>2. ToldInv' /\ run'.at = "calls"
      BY <2>2, <3>1, CallTells
    <3> QED
      BY <3>2 DEF HeldInv
  <2>3. CASE run' = run
    <3>1. ToldInv'
      BY <1>4, <2>1, <2>3 DEF SourceKept
    <3>2. \A s \in Reminders : s # r => native'[s] = native[s] /\ attempts'[s] = attempts[s]
      BY <1>1, <2>1 DEF TypeOK, Land
    <3>3. ASSUME NEW s \in Reminders, Kept(s) PROVE Kept(s)'
      <4>1. CASE s = r
        BY <2>1, <3>3, <4>1 DEF Kept, ToCome, IsSet
      <4>2. CASE s # r
        BY <2>1, <3>2, <3>3, <4>2 DEF Kept, ToCome, IsSet
      <4> QED
        BY <4>1, <4>2
    <3>4. HeldInv'
      BY <2>1, <2>3, <3>3 DEF HeldInv
    <3> QED
      BY <3>1, <3>4
  <2> QED
    BY <2>1, <2>2, <2>3
<1> QED
  BY <1>3, <1>5, <1>6, <1>7, <1>8, <1>9, <1>10, <1>11, <1>12, <1>13, <1>14, <1>15
     DEF Next, Drain

\* For any number of reminders: once a run is over and the database took its
\* verdicts, a reminder to come that is bound as set has its alarm, whichever of
\* its calls failed or were given up and may still land, unless a call of an
\* older run was in flight when it began (_performNotificationReconciliation).
THEOREM SetIsHeld == Spec => []SetMeansHeld
<1>1. Init => ToldInv /\ HeldInv
  BY DEF Init, Idle, Absent, ToldInv, HeldInv, Kept, ToCome
<1>2. Inv /\ ToldInv /\ HeldInv /\ [Next]_vars => ToldInv' /\ HeldInv'
  BY HeldStep
<1>3. HeldInv => SetMeansHeld
  BY DEF HeldInv, Kept, SetMeansHeld
<1> QED
  BY <1>1, <1>2, <1>3, Invariance, PTL DEF Spec

-----------------------------------------------------------------------------
(* No change is lost.                                                      *)

\* A request waits only behind a run, unless the database refused the last one.
Followed == pending.asked => run.at # "idle" \/ run.refused

LEMMA FollowedStep ==
  ASSUME Inv, Followed, [Next]_vars
  PROVE  Followed'
<1> USE DEF Followed
<1>1. TypeOK /\ run \in Run /\ pending \in Request
  BY DEF Inv, TypeOK
<1>2. CASE UNCHANGED vars
  BY <1>2 DEF vars
<1>3. CASE Edit
  BY <1>1, <1>3, EditIs
<1>4. CASE Announce
  <2>1. CASE run.at = "idle"
    BY <1>1, <1>4, <2>1, AnnounceIs
  <2>2. CASE run.at # "idle"
    BY <1>1, <1>4, <2>2, AnnounceIs DEF Run
  <2> QED
    BY <2>1, <2>2
<1>5. CASE Tick \/ Crash
  <2>1. CASE Tick
    <3>1. UNCHANGED <<pending, run>>
      BY <2>1 DEF Tick
    <3> QED
      BY <3>1
  <2>2. CASE Crash
    <3>1. pending' = NoRequest
      BY <2>2 DEF Crash
    <3> QED
      BY <3>1 DEF NoRequest
  <2> QED
    BY <1>5, <2>1, <2>2
<1>6. CASE Prompt
  <2>1. CASE run.current
    <3>1. PICK answer : run' = [run EXCEPT !.at = "read", !.permission = answer,
                                           !.now = clock]
      BY <1>6, <2>1 DEF Prompt
    <3>2. run'.at = "read"
      BY <1>1, <3>1 DEF Run
    <3> QED
      BY <3>2
  <2>2. CASE ~run.current
    BY <1>6, <2>2 DEF Prompt, NoRequest
  <2> QED
    BY <2>1, <2>2
<1>7. CASE Read
  BY <1>1, <1>7 DEF Read, Run
<1>8. CASE Ask
  BY <1>1, <1>8, AskIs, ListedIs, UnlistedIs
<1>9. CASE NextCall
  <2> DEFINE j == Head(run.todo)
  <2>1. /\ run.at = "calls" /\ run.todo # <<>> /\ UNCHANGED pending
        /\ \/ run' \in {Succeed(j), Fail(j), [run EXCEPT !.waiting = TRUE]}
           \/ GiveUp
    BY <1>1, <1>9, NextCallIs
  <2>2. Continues(Succeed(j)) /\ Continues(Fail(j))
    BY <1>1, <2>1, SucceedIs, FailIs
  <2>3. GiveUp => Continues(run')
    BY <1>1, GiveUpIs
  <2> HIDE DEF j
  <2>4. run'.at = run.at
    BY <1>1, <2>1, <2>2, <2>3 DEF Continues, Run
  <2> QED
    BY <2>1, <2>4
<1>10. CASE Write \/ Overtaken
  <2>1. EndRun
    BY <1>10 DEF Write, Overtaken
  <2> QED
    BY <1>1, <2>1, RunEnds
<1>13. CASE Refuse
  BY <1>13 DEF Refuse, Idle
<1>11. CASE Timeout
  <2>1. GiveUp /\ run.waiting /\ UNCHANGED pending
    BY <1>11 DEF Timeout
  <2>2. run.at = "calls" /\ Continues(run')
    BY <1>1, <2>1, GiveUpIs DEF Inv, CallInv
  <2> QED
    BY <2>2 DEF Continues
<1>12. ASSUME NEW r \in Reminders, Answer(r) PROVE Followed'
  <2> DEFINE j == Head(run.todo)
  <2>1. /\ UNCHANGED pending
        /\ \/ run' = run
           \/ run.waiting /\ run' \in {Succeed(j), Fail(j)}
    BY <1>1, <1>12, AnswerIs
  <2>2. run.waiting =>
          run.at = "calls" /\ Continues(Succeed(j)) /\ Continues(Fail(j))
    BY <1>1, SucceedIs, FailIs DEF Inv, CallInv
  <2> HIDE DEF j
  <2>3. run'.at = run.at /\ (run' = run \/ run.at = "calls")
    BY <2>1, <2>2 DEF Continues
  <2> QED
    BY <2>1, <2>3
<1> QED
  BY <1>2, <1>3, <1>4, <1>5, <1>6, <1>7, <1>8, <1>9, <1>10, <1>11, <1>12, <1>13
     DEF Next, Drain

\* For any number of reminders, and whatever commits, late answers, deaths and
\* failures of the database come between: a run works on rows that are still as
\* it read them, unless a notice or a request tells of the change; a run that
\* was overtaken has another one asked for; a request waits without a run only
\* after one the database refused; and a run waits only for a call that is in
\* flight (_drainNotificationReconciliation, awaitPlatform).
THEOREM NoChangeIsLost ==
  Spec => [](/\ run.at \in {"ask", "calls"} /\ ~notice.made /\ ~pending.asked =>
                  \A r \in Reminders : AsRead(r)
             /\ ~run.current => pending.asked
             /\ pending.asked => run.at # "idle" \/ run.refused
             /\ run.waiting => run.at = "calls" /\ attempts[Head(run.todo).of] # NoCall)
<1> DEFINE Whole ==
             /\ run.at \in {"ask", "calls"} /\ ~notice.made /\ ~pending.asked =>
                  \A r \in Reminders : AsRead(r)
             /\ ~run.current => pending.asked
             /\ pending.asked => run.at # "idle" \/ run.refused
             /\ run.waiting => run.at = "calls" /\ attempts[Head(run.todo).of] # NoCall
<1>1. Init => Followed
  BY DEF Init, NoRequest, Followed
<1>2. Inv /\ Followed /\ [Next]_vars => Followed'
  BY FollowedStep
<1>3. Inv /\ Followed => Whole
  BY DEF Inv, ReadInv, CallInv, Followed, CallOf, NoCall
<1>4. Spec => []Whole
  <2> HIDE DEF Whole
  <2> QED
    BY <1>1, <1>2, <1>3, Invariance, PTL DEF Spec
<1> QED
  BY <1>4

=============================================================================
