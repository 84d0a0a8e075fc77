------------------------- MODULE MCRestoreRecovery -------------------------
(***************************************************************************)
(* Values for the constants of RestoreRecovery: which pairs validate, and  *)
(* where crashes and faults may fall.                                      *)
(***************************************************************************)
EXTENDS RestoreRecovery

\* Every generation refers to attachments of its own, so only whole
\* generations validate.
Disjoint == {<<g, g>> : g \in Gens \union {Blank}}

Nowhere == {}

Anywhere == Sites

OnlyFirstJournal == {"first_journal"}

\* The catch block throws as well.
SwapAndUndo == {"swap", "undo"}
=============================================================================
