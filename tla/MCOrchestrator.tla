--------------------------- MODULE MCOrchestrator ---------------------------
(***************************************************************************)
(* Budgets for the orchestrator.                                           *)
(***************************************************************************)
EXTENDS Orchestrator, TLC

\* One start of each kind, and one more code action as a correction.
OneEach == [c \in Counters |-> 1]

Symmetry == Permutations(Procs)
=============================================================================
