---------------------------- MODULE MCEntryToKey ----------------------------
(* EntryToKey for TLC: four keys of two bits, and a hash of two tables, the  *)
(* first addressed by one key bit and the second by both.                    *)
EXTENDS EntryToKey

MCSelectors == [t \in 0 .. 1 |-> IF t = 0 THEN <<0>> ELSE <<1, 0>>]

\* The four keys, of which the first two share an address in table 0.
MCKey == [k \in 0 .. 3 |-> [i \in 0 .. 1 |-> IF i = 1 THEN k % 2 ELSE k \div 2]]
=============================================================================
