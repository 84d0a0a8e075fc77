---------------------------- MODULE Observations ----------------------------
(***************************************************************************)
(* The field observations of the desktop application, without their        *)
(* files: the record, its revision and its events.  The events of an       *)
(* observation carry no number; a page lists them by the instant they were *)
(* recorded at, and the service reads that instant before it opens the     *)
(* transaction.                                                            *)
(***************************************************************************)
EXTENDS FollowUps

Transitions == {<<"open", "tracking">>, <<"open", "closed">>,
                <<"tracking", "closed">>}

\* An event of an observation; at is the clock the service read first.
ObservationEvent(type, revision, at) ==
  [type |-> type, revision |-> revision, at |-> at]

\* A new observation: nothing observed later than it is written down.
CreateObservation(project, observed, at) ==
  [item |-> [project |-> project, observed |-> observed, status |-> "open",
             text |-> 0, reported |-> None, closed |-> None,
             archived |-> None, revision |-> 1, updated |-> at],
   history |-> <<ObservationEvent("observation_created", 1, at)>>]

\* A variant that trusts the form.
AnyRevision(item, expected) ==
  IF item.archived # None THEN "invalid" ELSE "current"

\* A variant that lets an archived record be edited.
AnyRecord(item, expected) ==
  IF item.revision # expected THEN "conflict" ELSE "current"

\* The archived record is refused first, then the page that is behind.
MutationTarget(item, expected) ==
  IF item.archived # None THEN "invalid"
  ELSE IF item.revision # expected THEN "conflict"
  ELSE "current"

\* The CHECK of the table: the closed ones say when.
ObservationRowAccepted(item) == (item.status = "closed") <=> (item.closed # None)

-----------------------------------------------------------------------------
(* The row: what each update of the repository makes of it, and its answer *)

RefusedRow(item, why) == [row |-> item, answer |-> why]
SameRow(item)         == [row |-> item, answer |-> "saved"]
WrittenRow(item, changed, at) ==
  LET row == [changed EXCEPT !.revision = item.revision + 1, !.updated = at]
  IN  IF ObservationRowAccepted(row) THEN [row |-> row, answer |-> "saved"]
      ELSE RefusedRow(item, "invalid")

RowStatus(item, expected, status, at) ==
  IF MutationTarget(item, expected) # "current"
  THEN RefusedRow(item, MutationTarget(item, expected))
  ELSE IF item.status = status THEN SameRow(item)
  ELSE IF <<item.status, status>> \notin Transitions
  THEN RefusedRow(item, "invalid")
  ELSE WrittenRow(item,
         [item EXCEPT !.status = status,
                      !.closed = IF status = "closed" THEN at ELSE None], at)

RowDetails(item, expected, text, at) ==
  IF MutationTarget(item, expected) # "current"
  THEN RefusedRow(item, MutationTarget(item, expected))
  ELSE IF item.text = text THEN SameRow(item)
  ELSE WrittenRow(item, [item EXCEPT !.text = text], at)

\* Every call writes, the same report twice included.
RowReporting(item, expected, reported, at) ==
  IF MutationTarget(item, expected) # "current"
  THEN RefusedRow(item, MutationTarget(item, expected))
  ELSE WrittenRow(item, [item EXCEPT !.reported = reported], at)

RowArchive(item, expected, at) ==
  IF MutationTarget(item, expected) # "current"
  THEN RefusedRow(item, MutationTarget(item, expected))
  ELSE WrittenRow(item, [item EXCEPT !.archived = at], at)

-----------------------------------------------------------------------------
(* The service: the row and, when its revision moved, one event            *)

Record(rec, written, type, at) ==
  [rec |-> IF written.row.revision = rec.item.revision THEN rec
           ELSE [item |-> written.row,
                 history |-> Append(rec.history,
                                    ObservationEvent(type,
                                                     written.row.revision,
                                                     at))],
   answer |-> written.answer]

UpdateObservationStatus(rec, expected, status, at) ==
  Record(rec, RowStatus(rec.item, expected, status, at),
         "observation_status_changed", at)

UpdateObservationDetails(rec, expected, text, at) ==
  Record(rec, RowDetails(rec.item, expected, text, at),
         "observation_details_updated", at)

UpdateReporting(rec, expected, reported, at) ==
  Record(rec, RowReporting(rec.item, expected, reported, at),
         "observation_reporting_updated", at)

ArchiveObservation(rec, expected, at) ==
  Record(rec, RowArchive(rec.item, expected, at), "observation_archived", at)
=============================================================================
