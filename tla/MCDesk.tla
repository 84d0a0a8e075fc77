------------------------------- MODULE MCDesk -------------------------------
(* Values of the constants of Desk for TLC. *)
EXTENDS Desk

CONSTANTS site, tower   \* projects

Plan(kind, weekdays, monthDay, start, end) ==
  [kind |-> kind, weekdays |-> weekdays, monthDay |-> monthDay,
   start |-> start, end |-> end, time |-> 0, project |-> None]

\* Day 0 is a Monday and the first of a month.
MCPlans == {Plan("daily", {}, None, 0, 2),
            Plan("weekly", {2}, None, 0, None),
            Plan("weekdays", {}, None, 2, 1)}

\* A behaviour is about items and the observations they are tied to, about
\* observations edited from two windows, or about routines.
MCScopes == {{"projects", "follow-ups"}, {"projects", "observations"},
             {"routines"}}

MCSymmetry == Permutations(Projects) \cup Permutations(Windows)
=============================================================================
