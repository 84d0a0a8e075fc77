---------------------------- MODULE RevisedRecords ----------------------------
(***************************************************************************)
(* What the desktop application promises of every record it keeps: it is   *)
(* never deleted, replaced or rewritten, only revised.  A revision adds    *)
(* one line to its log and takes none away; what is sealed is revised no   *)
(* more, and what a record is tied to it stays tied to.                    *)
(*                                                                         *)
(* A record has its row, its log, whether it is sealed, and its tie, None  *)
(* as long as it has none; it is there once its log has a line.  There are *)
(* no pages, transactions or commands here.                                *)
(***************************************************************************)
EXTENDS Naturals, Sequences

CONSTANT None        \* no tie

VARIABLE records     \* a function from the ids of one kind of record

Init == \A id \in DOMAIN records : records[id].log = <<>>

\* The later log is the earlier one and a line.
OneLineMore(earlier, later) ==
  /\ Len(later) = Len(earlier) + 1
  /\ \A i \in 1..Len(earlier) : later[i] = earlier[i]

Created(old, new) == old.log = <<>> /\ new.log # <<>>

Revised(old, new) ==
  /\ old.log # <<>> /\ ~old.sealed
  /\ OneLineMore(old.log, new.log)
  /\ old.tie # None => new.tie = old.tie

\* Records appear where there were none.
Make ==
  /\ DOMAIN records' = DOMAIN records
  /\ \A id \in DOMAIN records :
       records'[id] = records[id] \/ Created(records[id], records'[id])

\* One record is revised, the others are left alone.
Revise(id) ==
  /\ DOMAIN records' = DOMAIN records
  /\ Revised(records[id], records'[id])
  /\ \A other \in DOMAIN records \ {id} : records'[other] = records[other]

Next == Make \/ \E id \in DOMAIN records : Revise(id)

Spec == Init /\ [][Next]_records
=============================================================================
