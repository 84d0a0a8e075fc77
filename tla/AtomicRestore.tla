--------------------------- MODULE AtomicRestore ---------------------------
(***************************************************************************)
(* What a restore promises the engineer (docs/189, docs/191): it replaces  *)
(* the whole mobile memory by the package's, or leaves the old one whole,  *)
(* and the application is never open in between, whatever the process and  *)
(* the power do meanwhile.                                                 *)
(***************************************************************************)
CONSTANTS
  Ops,       \* restore operations
  Incoming,  \* Incoming[o]: the memory operation o brings in
  Initial    \* the memory before the first restore

VARIABLES
  memory,    \* the memory the engineer has
  pending,   \* the operation that may still replace it, as a set
  open       \* the application serves the engineer

avars == <<memory, pending, open>>

Init == memory = Initial /\ pending = {} /\ open = TRUE

\* A restore reaches the point from which it must be settled.
Commit(o) ==
  /\ pending = {} /\ ~open
  /\ pending' = {o}
  /\ UNCHANGED <<memory, open>>

\* It is settled one way or the other.
Settle(o) ==
  /\ pending = {o}
  /\ pending' = {}
  /\ memory' \in {memory, Incoming[o]}
  /\ open' \in BOOLEAN

\* The application stops at any time and starts only on a settled memory.
Stop == open /\ open' = FALSE /\ UNCHANGED <<memory, pending>>

Start ==
  /\ ~open /\ pending = {} /\ open' = TRUE
  /\ UNCHANGED <<memory, pending>>

Next == (\E o \in Ops : Commit(o) \/ Settle(o)) \/ Stop \/ Start

Spec == Init /\ [][Next]_avars
=============================================================================
