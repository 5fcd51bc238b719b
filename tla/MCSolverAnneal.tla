--------------------------- MODULE MCSolverAnneal ---------------------------
(* SolverAnneal for TLC: keys of two bits, two tables of one selector each. *)
EXTENDS SolverAnneal

MCSelectors == [t \in 0 .. 1 |-> <<t>>]

\* Three of the four keys.
MCKey == [k \in 0 .. 2 |-> [i \in 0 .. 1 |-> IF i = 1 THEN k % 2 ELSE k \div 2]]
=============================================================================
