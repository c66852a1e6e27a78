------------------------------- MODULE Queues -------------------------------
(***************************************************************************)
(* Counting what waits in a queue of handlers.                             *)
(***************************************************************************)
EXTENDS Naturals, Sequences, FiniteSets

\* Where the handlers of H wait, and how many there are.
Positions(q, H) == {i \in 1..Len(q) : q[i] \in H}
HowMany(q, H) == Cardinality(Positions(q, H))

=============================================================================
