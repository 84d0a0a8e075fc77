----------------------- MODULE ReminderNotifications -----------------------
(***************************************************************************)
(* How the reminders of the application's database become notifications of *)
(* the platform: SqliteAgendaApplication commits a reminder, invalidates   *)
(* the reconciliation under way and asks for another; one drain serves the *)
(* requests, and each run reads the rows, asks the platform for its        *)
(* permission and its pending list, cancels and schedules, and writes what *)
(* it achieved into the binding of each reminder.                          *)
(*                                                                         *)
(* A platform call that does not answer in time is given up by the run and *)
(* stays in the NotificationPlatformAttemptRegistry: it may still land.    *)
(*                                                                         *)
(* Modelled: Android, one-time reminders with a time (a request's          *)
(* fingerprint is that time), one application over one database.  Time is  *)
(* a clock of a few ticks, and 0 stands for the absent time.               *)
(***************************************************************************)
EXTENDS Naturals, SequencesExt

CONSTANTS
  Reminders,   \* their ids: natural numbers, in the order of the ids
  Linked,      \* those that belong to a concrete pour package
  MaxTime,     \* the last instant a reminder may be set for
  MaxClock,    \* the last instant the clock reaches
  MaxEvents,   \* how many commits and deaths of the process there are
  MaxCrashes,  \* how many of them are deaths
  Capacity,    \* maximumPendingNotifications of the gateway
  Permissions  \* what the platform may answer about its permission

ASSUME ReminderAssumption ==
  /\ Reminders \subseteq Nat /\ IsFiniteSet(Reminders) /\ Linked \subseteq Reminders
  /\ MaxTime \in Nat /\ MaxClock \in 0..MaxTime
  /\ MaxEvents \in Nat /\ MaxCrashes \in Nat
  /\ Capacity \in Nat \ {0}
  /\ Permissions \subseteq {"granted", "denied"}

VARIABLES
  clock,      \* the instant
  item,       \* follow_up_items, by reminder
  binding,    \* reminder_notification_bindings, by reminder
  native,     \* the platform's pending list: the time each one will fire at
  shown,      \* the reminders whose notification was delivered and is on show
  attempts,   \* the registry: the call in flight to each notification id
  notice,     \* a commit whose caller has not yet asked for a reconciliation
  pending,    \* _pendingNotificationReconciliation
  run,        \* the run of the drain in flight
  disturbed,  \* whether the last run met a failure, a timeout or an older call
  crashes

vars == <<clock, item, binding, native, shown, attempts, notice, pending, run,
          disturbed, crashes>>

database == <<item, binding>>
platform == <<native, shown, attempts>>

-----------------------------------------------------------------------------
Times == 0..MaxTime

\* next_attention_at and the status; "closed" is completed, cancelled or in
\* the trash.
Item == [due: Times, status: {"active", "closed"}, revision: Nat]

\* sync_state, with error for a safe_error_code; "none" is no row at all.
States == {"none", "scheduled", "cancelled", "failed", "unavailable",
           "permission_denied"}
Binding == [for: Times, state: States, error: BOOLEAN]
Bound(t, state) ==
  [for |-> t, state |-> state, error |-> state \notin {"scheduled", "cancelled"}]
NoBinding == [for |-> 0, state |-> "none", error |-> FALSE]
Clean == Bound(0, "cancelled")

Absent == [due |-> 0, status |-> "closed", revision |-> 0]
Exists(r) == item[r].revision > 0

NoCall == [op |-> "none", at |-> 0]
Call == [op: {"none", "schedule", "cancel"}, at: Times]

Request == [asked: BOOLEAN, now: Times, prompt: BOOLEAN]
NoRequest == [asked |-> FALSE, now |-> 0, prompt |-> FALSE]

\* A commit to be announced; fresh: its caller invalidates the source first.
Notice == [made: BOOLEAN, fresh: BOOLEAN, now: Times, prompt: BOOLEAN]
NoNotice == [made |-> FALSE, fresh |-> FALSE, now |-> 0, prompt |-> FALSE]

\* The platform calls of a run, in their order.  "discard" removes a stray of
\* the pending list; "cancel", then "schedule" and "verify" set one alarm;
\* "free" removes one beyond the capacity; "clear" that of a closed reminder.
Setting == {"cancel", "schedule", "verify"}
Job == [op: Setting \cup {"discard", "free", "clear"}, of: Reminders]

Source == [item: Item, binding: Binding]

\* The last two fields are history, and outlive the run: whether a call of an
\* older run was in flight when it began, and whether the database refused it.
Run == [at: {"idle", "prompt", "read", "ask", "calls"},
        now: Times, current: BOOLEAN,
        permission: {"unknown", "granted", "denied", "failed"},
        source: [Reminders -> Source],
        todo: Seq(Job), waiting: BOOLEAN,
        cancelled: SUBSET Reminders,
        updates: [Reminders -> Binding],
        older: BOOLEAN, refused: BOOLEAN]

NoSource == [r \in Reminders |-> [item |-> Absent, binding |-> NoBinding]]
NoUpdates == [r \in Reminders |-> NoBinding]
Idle == [at |-> "idle", now |-> 0, current |-> TRUE,
         permission |-> "unknown", source |-> NoSource, todo |-> <<>>,
         waiting |-> FALSE, cancelled |-> {},
         updates |-> NoUpdates, older |-> FALSE, refused |-> FALSE]

\* Every variable stays in its type.
TypeOK ==
  /\ clock \in 0..MaxClock
  /\ item \in [Reminders -> Item]
  /\ binding \in [Reminders -> Binding]
  /\ native \in [Reminders -> Times]
  /\ shown \subseteq Reminders
  /\ attempts \in [Reminders -> Call]
  /\ notice \in Notice
  /\ pending \in Request
  /\ run \in Run
  /\ disturbed \in BOOLEAN
  /\ crashes \in 0..MaxCrashes

Init ==
  /\ clock = 0
  /\ item = [r \in Reminders |-> Absent]
  /\ binding = [r \in Reminders |-> NoBinding]
  /\ native = [r \in Reminders |-> 0]
  /\ shown = {}
  /\ attempts = [r \in Reminders |-> NoCall]
  /\ notice = NoNotice
  /\ pending = NoRequest
  /\ run = Idle
  /\ disturbed = FALSE
  /\ crashes = 0

\* _drainNotificationReconciliation: a run starts at once, or when the one
\* before it ends.
InFlight == \E r \in Reminders : attempts[r] # NoCall

StartRun(now, prompt) ==
  /\ run' = [Idle EXCEPT !.at = IF prompt THEN "prompt" ELSE "read", !.now = now,
                         !.older = InFlight]
  /\ disturbed' = InFlight

EndRun ==
  IF pending.asked
    THEN pending' = NoRequest /\ StartRun(pending.now, pending.prompt)
    ELSE run' = [Idle EXCEPT !.older = run.older] /\ UNCHANGED <<pending, disturbed>>

-----------------------------------------------------------------------------
(***************************************************************************)
(* Commits.  The transaction runs in the queue of the data root; its       *)
(* caller goes on in a later turn of the event loop (Announce).            *)
(***************************************************************************)
EventsLeft ==
  crashes + MapThenSumSet(LAMBDA s : item[s].revision, Reminders) < MaxEvents

Commit(r, due, status) ==
  /\ ~notice.made /\ EventsLeft
  /\ item' = [item EXCEPT ![r] =
                [due |-> due, status |-> status, revision |-> @.revision + 1]]
  /\ UNCHANGED <<clock, platform, pending, run, disturbed, crashes>>

Announcing(fresh, prompt) ==
  notice' = [made |-> TRUE, fresh |-> fresh, now |-> clock, prompt |-> prompt]

\* What a new row is bound to before the platform was asked.
Unsynced(due) == IF due = 0 THEN Clean ELSE Bound(due, "unavailable")

\* A pour package creates its reminders without invalidating the source.
CreateReminder(r, due) ==
  /\ ~Exists(r) /\ due > clock
  /\ Commit(r, due, "active")
  /\ binding' = [binding EXCEPT ![r] = Unsynced(due)]
  /\ Announcing(r \notin Linked, r \notin Linked)

MutateReminder(r, due, status, prompt) ==
  /\ Exists(r)
  /\ due # item[r].due \/ status # item[r].status
  /\ Commit(r, due, status)
  /\ UNCHANGED binding
  /\ Announcing(TRUE, prompt)

\* schedule and the snoozes; a time in the past only to bring one forward.
Reschedule(r, due) ==
  /\ item[r].status = "active" /\ due # 0
  /\ due > clock \/ due < item[r].due
  /\ MutateReminder(r, due, "active", due > clock)

\* complete, cancel and moveToTrash keep the time.
Close(r) ==
  item[r].status = "active" /\ MutateReminder(r, item[r].due, "closed", FALSE)

\* reopen, or restoreFromTrash, which asks for the permission when the time
\* is still to come.
Reopen(r) ==
  /\ item[r].status = "closed" /\ item[r].due # 0
  /\ \E prompt \in {FALSE, item[r].due > clock} :
       MutateReminder(r, item[r].due, "active", prompt)

\* A step of the pour package closes its reminder, or opens it or moves it to
\* the time of its own list, past or to come, and writes the binding with it.
SyncLinkedReminder(r, due) ==
  /\ r \in Linked /\ Exists(r)
  /\ ~(item[r].status = "active" /\ item[r].due = due)
  /\ Commit(r, due, IF due = 0 THEN "closed" ELSE "active")
  /\ binding' = [binding EXCEPT ![r] = Unsynced(due)]
  /\ Announcing(FALSE, FALSE)

\* The caller goes on: _invalidateNotificationSource, then the request,
\* merged into one that waits, be it behind a run or behind none.  A request is
\* always of the latest source, so the generation a run was asked for is its
\* flag "current".
Announce ==
  /\ notice.made
  /\ notice' = NoNotice
  /\ IF run.at = "idle"
       THEN pending' = NoRequest /\ StartRun(notice.now, pending.prompt \/ notice.prompt)
       ELSE /\ run' = IF notice.fresh THEN [run EXCEPT !.current = FALSE] ELSE run
            /\ pending' = [asked |-> TRUE, now |-> notice.now,
                           prompt |-> pending.prompt \/ notice.prompt]
            /\ UNCHANGED disturbed
  /\ UNCHANGED <<clock, database, platform, crashes>>

-----------------------------------------------------------------------------
(***************************************************************************)
(* The platform and the process.                                           *)
(***************************************************************************)
\* The next tick; alarms set for it fire.
Tick ==
  /\ clock < MaxClock
  /\ clock' = clock + 1
  /\ native' = [r \in Reminders |-> IF native[r] = clock + 1 THEN 0 ELSE native[r]]
  /\ shown' = shown \cup {r \in Reminders : native[r] = clock + 1}
  /\ UNCHANGED <<database, attempts, notice, pending, run, disturbed, crashes>>

\* What the calls in flight to the reminders of rs do to the platform.  An
\* alarm that lands after its time fires at once.
Scheduled(rs) == {r \in rs : attempts[r].op = "schedule"}
Overdue(rs) == {r \in Scheduled(rs) : attempts[r].at <= clock}
Land(rs) ==
  /\ native' = [r \in Reminders |->
                  IF r \notin rs THEN native[r]
                  ELSE IF r \in Scheduled(rs) \ Overdue(rs) THEN attempts[r].at
                  ELSE 0]
  /\ shown' = (shown \ (rs \ Scheduled(rs))) \cup Overdue(rs)

-----------------------------------------------------------------------------
(***************************************************************************)
(* A run.                                                                  *)
(***************************************************************************)
Known == {r \in Reminders : run.source[r].item.revision > 0}
DueOf(r) == run.source[r].item.due
BoundAs(r) == run.source[r].binding

\* The dispositions, by what the run read and the instant of its request.
Attentive == {r \in Known : run.source[r].item.status = "active" /\ DueOf(r) # 0}
Eligible == {r \in Attentive : DueOf(r) > run.now}
Preserved == {r \in Attentive \ Eligible : BoundAs(r).for = DueOf(r)}
Terminal == Known \ (Eligible \cup Preserved)
ToClean == {r \in Terminal : BoundAs(r) # Clean}

\* The rows come by time, then by id; the capacity takes the first ones.
Before(r, s) == DueOf(r) < DueOf(s) \/ (DueOf(r) = DueOf(s) /\ r < s)
Desired ==
  {r \in Eligible : Cardinality({s \in Eligible : Before(s, r)}) < Capacity}

InOrder(rs) ==
  CHOOSE order \in [1..Cardinality(rs) -> rs] :
    \A i, j \in 1..Cardinality(rs) : i < j => Before(order[i], order[j])
Jobs(op, rs) == [i \in 1..Cardinality(rs) |-> [op |-> op, of |-> InOrder(rs)[i]]]

\* What is written of a reminder of each kind.
UpdateAll(eligible, state) ==
  [r \in Reminders |->
    IF r \in Eligible THEN Bound(DueOf(r), eligible)
    ELSE IF r \in ToClean THEN Bound(0, state)
    ELSE NoBinding]

UpdateListed(current, limited) ==
  [r \in Reminders |->
    IF r \in current THEN Bound(DueOf(r), "scheduled")
    ELSE IF r \in limited THEN Bound(DueOf(r), "unavailable")
    ELSE NoBinding]

RunStep == UNCHANGED <<clock, item, notice, crashes>>
Disturb(now) == disturbed' = (disturbed \/ now)

\* The engineer answers the prompt, for which there is no time limit.  What
\* waited for it starts from a new instant, and a request that joined meanwhile
\* does not prompt again.
Prompt ==
  /\ run.at = "prompt"
  /\ IF run.current
       THEN /\ \E answer \in Permissions \cup {"failed"} :
                 run' = [run EXCEPT !.at = "read", !.permission = answer,
                                    !.now = clock]
            /\ pending' = [pending EXCEPT !.prompt = FALSE]
            /\ UNCHANGED disturbed
       ELSE pending' = NoRequest /\ StartRun(pending.now, FALSE)
  /\ RunStep /\ UNCHANGED <<binding, platform>>

\* The rows and bindings, in one query.
Read ==
  /\ run.at = "read" /\ run.current
  /\ run' = [run EXCEPT !.at = "ask", !.source =
       [r \in Reminders |-> [item |-> item[r], binding |-> binding[r]]]]
  /\ RunStep /\ UNCHANGED <<binding, platform, pending, disturbed>>

Proceed(todo, updates) ==
  run' = [run EXCEPT !.at = "calls", !.permission = "unknown",
                     !.todo = todo, !.updates = updates]

\* Mutant: when nothing is known, nothing is written.
UnavailableUntold == Proceed(<<>>, NoUpdates)

\* initialize and permissionStatus, unless the prompt has answered, then the
\* pending list.  Without an answer in time nothing is inferred.
Unavailable == Proceed(<<>>, UpdateAll("unavailable", "failed"))
Denied ==
  Proceed(Jobs("clear", ToClean),
          [r \in Reminders |->
             IF r \in Eligible THEN Bound(DueOf(r), "permission_denied") ELSE NoBinding])
Unlisted == Proceed(<<>>, UpdateAll("failed", "failed"))

\* Mutant: an alarm is recognised by its id, whatever its time.
ListedById ==
  LET listed == {r \in Reminders : native[r] # 0}
      valid == Desired \cap listed
      limited == Eligible \ Desired
      current == {r \in valid : ~BoundAs(r).error}
  IN  Proceed(Jobs("discard", listed \ (valid \cup Preserved))
                \o Jobs("cancel", Desired \ current)
                \o Jobs("free", limited) \o Jobs("clear", ToClean),
              UpdateListed(current, limited))

Listed ==
  LET listed == {r \in Reminders : native[r] # 0}
      valid == {r \in Desired \cap listed : native[r] = DueOf(r)}
      kept == valid \cup {r \in Preserved : native[r] = DueOf(r)}
      current == {r \in valid : BoundAs(r).for = DueOf(r) /\ ~BoundAs(r).error}
      limited == Eligible \ Desired
  IN  Proceed(Jobs("discard", listed \ kept) \o Jobs("cancel", Desired \ current)
                \o Jobs("free", limited) \o Jobs("clear", ToClean),
              UpdateListed(current, limited))

Ask ==
  /\ run.at = "ask" /\ run.current
  /\ \E answer \in IF run.permission # "unknown" THEN {run.permission}
                    ELSE Permissions \cup {"failed"} :
       \/ answer = "failed" /\ Unavailable /\ disturbed' = TRUE
       \/ answer = "denied" /\ Denied /\ disturbed' = TRUE
       \/ answer = "granted" /\ Unlisted /\ disturbed' = TRUE
       \/ answer = "granted" /\ Listed /\ UNCHANGED disturbed
  /\ RunStep /\ UNCHANGED <<binding, platform, pending>>

\* The call of a job, and the run after its success or its failure.
CallOf(j) == IF j.op = "schedule" THEN [op |-> "schedule", at |-> DueOf(j.of)]
                                  ELSE [op |-> "cancel", at |-> 0]

\* What is left to do after a call that succeeded.
AfterCall == [cancel |-> "schedule", schedule |-> "verify"]
Rest(j) ==
  IF j.op \in DOMAIN AfterCall
    THEN [run.todo EXCEPT ![1].op = AfterCall[@]]
    ELSE Tail(run.todo)

Succeed(j) ==
  [run EXCEPT !.todo = Rest(j), !.waiting = FALSE,
     !.cancelled = IF j.op = "discard" THEN @ \cup {j.of} ELSE @,
     !.updates[j.of] = CASE j.op = "verify" -> Bound(DueOf(j.of), "scheduled")
                         [] j.op = "clear" -> Clean
                         [] OTHER -> @]

\* A failed alarm skips what is left of it; a stray is left to another run.
Fail(j) ==
  [run EXCEPT !.todo = Tail(@), !.waiting = FALSE,
     !.updates[j.of] = CASE j.op \in Setting -> Bound(DueOf(j.of), "failed")
                         [] j.op = "clear" -> Bound(0, "failed")
                         [] OTHER -> @]

\* A run that is no longer of the latest source makes no further call, and
\* _writeBindingUpdates writes nothing for it.
Overtaken ==
  /\ run.at \in {"read", "ask", "calls"}
  /\ ~run.current /\ ~run.waiting
  /\ EndRun
  /\ RunStep /\ UNCHANGED <<binding, platform>>

\* Mutant: an alarm whose call did not answer in time counts as set.
GiveUpHopeful ==
  /\ run' = [run EXCEPT !.todo = <<>>, !.waiting = FALSE, !.updates =
       [r \in Reminders |->
         IF \E i \in DOMAIN run.todo :
              run.todo[i].of = r /\ run.todo[i].op \in Setting
           THEN Bound(DueOf(r), "scheduled") ELSE @[r]]]
  /\ disturbed' = TRUE
  /\ UNCHANGED platform

\* A call out of time, or in conflict with another, ends the budget of the
\* run: every later call fails at once.
GiveUp ==
  /\ run' = [run EXCEPT !.todo = <<>>, !.waiting = FALSE, !.updates =
       [r \in Reminders |->
         IF \E i \in DOMAIN run.todo :
              run.todo[i].of = r /\ run.todo[i].op \in Setting
           THEN Bound(DueOf(r), "failed")
         ELSE IF [op |-> "clear", of |-> r] \in ToSet(run.todo)
           THEN IF r \in run.cancelled THEN Clean ELSE Bound(0, "failed")
         ELSE @[r]]]
  /\ disturbed' = TRUE
  /\ UNCHANGED platform

Discarded(j) == j.op = "clear" /\ j.of \in run.cancelled
Calls(j) == j.op # "verify" /\ ~Discarded(j)

\* The stray was the alarm of a closed reminder: there is nothing to call.
Skip(j) ==
  Discarded(j) /\ run' = Succeed(j) /\ UNCHANGED <<platform, disturbed>>

Verify(j) ==
  /\ j.op = "verify"
  /\ run' = IF native[j.of] = DueOf(j.of) THEN Succeed(j) ELSE Fail(j)
  /\ Disturb(native[j.of] # DueOf(j.of))
  /\ UNCHANGED platform

\* _obtain: a call to a free id starts; the same call is shared; another one
\* is refused.  The plugin refuses a time that has passed.
Start(j) ==
  /\ Calls(j) /\ attempts[j.of] = NoCall
  /\ IF CallOf(j).op = "schedule" /\ DueOf(j.of) <= clock
       THEN run' = Fail(j) /\ disturbed' = TRUE /\ UNCHANGED attempts
       ELSE /\ run' = [run EXCEPT !.waiting = TRUE]
            /\ attempts' = [attempts EXCEPT ![j.of] = CallOf(j)]
            /\ UNCHANGED disturbed
  /\ UNCHANGED <<native, shown>>

Join(j) ==
  /\ Calls(j) /\ attempts[j.of] = CallOf(j)
  /\ run' = [run EXCEPT !.waiting = TRUE]
  /\ UNCHANGED <<platform, disturbed>>

Conflict(j) ==
  Calls(j) /\ attempts[j.of] \notin {NoCall, CallOf(j)} /\ GiveUp

NextCall ==
  /\ run.at = "calls" /\ run.current /\ ~run.waiting /\ run.todo # <<>>
  /\ LET j == Head(run.todo)
     IN  \/ Skip(j) \/ Verify(j) \/ Start(j) \/ Join(j) \/ Conflict(j)
         \/ j.op = "verify" /\ GiveUp
  /\ RunStep /\ UNCHANGED <<binding, pending>>

\* Mutant: only the calls that set an alarm have a time limit.
TimeoutOfSettingOnly ==
  /\ run.waiting /\ Head(run.todo).op \in Setting /\ GiveUp
  /\ RunStep /\ UNCHANGED <<binding, pending>>

Timeout ==
  /\ run.waiting /\ GiveUp
  /\ RunStep /\ UNCHANGED <<binding, pending>>

\* The platform answers a call, whether or not a run still waits for it.
Answer(r) ==
  /\ attempts[r] # NoCall
  /\ attempts' = [attempts EXCEPT ![r] = NoCall]
  /\ LET heard == run.waiting /\ Head(run.todo).of = r
     IN  \/ /\ Land({r})
            /\ run' = IF heard THEN Succeed(Head(run.todo)) ELSE run
            /\ UNCHANGED disturbed
         \/ /\ run' = IF heard THEN Fail(Head(run.todo)) ELSE run
            /\ disturbed' = TRUE
            /\ UNCHANGED <<native, shown>>
  /\ RunStep /\ UNCHANGED <<binding, pending>>

\* _writeBindingUpdates: one transaction; a row that is no longer what the run
\* read is left alone.
AsRead(r) == run.source[r] = [item |-> item[r], binding |-> binding[r]]
Writing == run.at = "calls" /\ ~run.waiting /\ run.todo = <<>>

Write ==
  /\ Writing /\ run.current
  /\ binding' = [r \in Reminders |->
       IF run.updates[r] # NoBinding /\ AsRead(r)
         THEN run.updates[r] ELSE binding[r]]
  /\ EndRun
  /\ RunStep /\ UNCHANGED platform

\* The database throws: at the query, or at the transaction of the verdicts,
\* which a run without one does not open.  The drain catches only that it was
\* overtaken, so it ends with its run: a request that waits is left without one
\* until the next request joins it.
Refuse ==
  /\ run.at = "read" \/ (Writing /\ run.updates # NoUpdates)
  /\ run' = [Idle EXCEPT !.refused = TRUE]
  /\ disturbed' = TRUE
  /\ RunStep /\ UNCHANGED <<binding, platform, pending>>

\* The process dies: what is in flight lands or is lost.  The bootstrap asks
\* for a reconciliation of its own.
Crash ==
  /\ crashes < MaxCrashes /\ EventsLeft
  /\ crashes' = crashes + 1
  /\ \E landed \in SUBSET {r \in Reminders : attempts[r] # NoCall} : Land(landed)
  /\ attempts' = [r \in Reminders |-> NoCall]
  /\ notice' = NoNotice
  /\ run' = [Idle EXCEPT !.at = "read", !.now = clock]
  /\ pending' = NoRequest
  /\ disturbed' = FALSE
  /\ UNCHANGED <<clock, database>>

-----------------------------------------------------------------------------
Edit ==
  \E r \in Reminders :
    \/ \E due \in Times :
         \/ CreateReminder(r, due)
         \/ Reschedule(r, due)
         \/ SyncLinkedReminder(r, due)
    \/ Close(r) \/ Reopen(r)

\* The steps of a run that its own process takes, sooner or later.
Drain == Read \/ Ask \/ NextCall \/ Write \/ Overtaken \/ Refuse \/ Timeout

Next ==
  \/ Edit \/ Announce \/ Prompt \/ Drain \/ Tick \/ Crash
  \/ \E r \in Reminders : Answer(r)

Spec == Init /\ [][Next]_vars

\* Queries and transactions return or throw, and a platform call has a time
\* limit.  Neither the engineer nor the platform has to answer, and nobody has
\* to ask for a reconciliation.
FairSpec == Spec /\ WF_vars(Drain)

-----------------------------------------------------------------------------
(***************************************************************************)
(* What the reconciliation promises.                                       *)
(***************************************************************************)
AtRest ==
  /\ ~notice.made /\ ~pending.asked /\ run.at = "idle"
  /\ \A r \in Reminders : attempts[r] = NoCall

ToCome(r) == item[r].status = "active" /\ item[r].due > clock
IsSet(r) == binding[r] = Bound(item[r].due, "scheduled")

\* Once every request is served, and whatever edits, deliveries, crashes and
\* late calls came before, one run that met no failure is enough for the
\* alarms to be those of the database: each reminder to come has its alarm
\* and says so, or says that the platform is full of earlier ones; no other
\* has one (_performNotificationReconciliation).
AlarmsAgree ==
  AtRest /\ ~disturbed =>
    \A r \in Reminders :
      IF ~ToCome(r) THEN native[r] = 0
      ELSE \/ native[r] = item[r].due /\ IsSet(r)
           \/ /\ native[r] = 0 /\ binding[r].state = "unavailable"
              /\ Capacity <= Cardinality({s \in Reminders \ {r} :
                    IsSet(s) /\ item[s].due <= item[r].due})

\* A binding that comes to say that the alarm of a reminder to come is set says
\* so of an alarm the platform holds at that instant: no call that was given up,
\* and none that lands between the run's last look and its write, makes it a
\* lie (_performNotificationReconciliation, verify; awaitPlatform).
SetMeansVerified ==
  [][\A r \in Reminders :
       IsSet(r)' /\ ~IsSet(r) /\ ToCome(r) /\ item'[r] = item[r] =>
         native[r] = item[r].due]_vars

\* Once a run is over and the database took its verdicts, a reminder to come
\* whose binding says that its alarm is set has that alarm, whichever calls of
\* the run failed, were refused or were given up and may still land: only a
\* call that was already in flight when the run began can make it a lie
\* (_performNotificationReconciliation, awaitPlatform).
SetMeansHeld ==
  /\ run.at = "idle" /\ ~notice.made /\ ~pending.asked
  /\ ~run.older /\ ~run.refused
  => \A r \in Reminders : ToCome(r) /\ IsSet(r) => native[r] = item[r].due

\* The drain comes to rest, and comes to rest again after every commit: each
\* run ends although calls hang for ever, and no request still waits behind it,
\* unless the engineer leaves the prompt open or the database refused the run
\* (_drainNotificationReconciliation, awaitPlatform).
RequestsMoveOn ==
  []<>(\/ run.at = "prompt"
       \/ run.at = "idle" /\ (pending.asked => run.refused))

\* A run never takes away the notification of a reminder that was delivered
\* and that, as the run itself read it, is active and due at the time it was
\* set for (docs/272: preserveDeliveredOneTime is never cancelled).
\* The code does not meet this: the run decides by the time it was asked at.
DeliveredStays ==
  [][\A r \in shown \ shown' :
       run.at = "calls" /\ AsRead(r) =>
         ~(item[r].status = "active" /\ item[r].due <= clock
             /\ binding[r].for = item[r].due)]_vars

\* A closed reminder is not on show once a run without failures is done
\* (docs/272: terminal covers completed, cancelled, trashed and inbox).
\* The code does not meet this: a step of a pour package writes the binding clean.
ClosedIsQuiet ==
  AtRest /\ ~disturbed =>
    \A r \in shown : Exists(r) => item[r].status = "active"
=============================================================================
