----------------------------- MODULE MCDataRoot -----------------------------
(***************************************************************************)
(* Values for the constants of DataRoot: which calls are made, for which   *)
(* photos, and where they may throw.                                       *)
(***************************************************************************)
EXTENDS DataRoot, TLC

CONSTANTS e1, e2, a1, a2, i1, b1, r1, p1, p2, p3

MCKind ==
  e1 :> "evidence" @@ e2 :> "evidence" @@ a1 :> "agenda" @@ a2 :> "agenda" @@
  i1 :> "inventory" @@ b1 :> "backup" @@ r1 :> "restore"

\* e2 is the retry of e1, a2 the second tap of a1.
MCPhoto == [j \in Jobs |-> IF j \in {a1, a2} THEN p1 ELSE IF j = i1 THEN p3 ELSE p2]

\* One queue: evidence, its retry, a backup and a restore.  Photos of logs,
\* staged outside the queue, beside evidence and a backup; beside a restore.
\* An asset photo, which has a queue of its own, beside a log photo and a
\* restore; beside evidence and a backup.
MCWorkloads ==
  {{e1, e2, b1, r1}, {a1, a2, b1}, {a1, a2, r1}, {a1, e1, r1}, {i1, b1, r1},
   {a1, i1}}

AnyStep == Steps \ {"close"}

ASSUME CloseReturns
=============================================================================
