------------------------------ MODULE MCNaboo ------------------------------
(***************************************************************************)
(* Naboo for TLC.  One table sees two bits; of the four groups of keys     *)
(* with equal bits two are of one key and two of two. With three keys to a *)
(* value some of the 16 hashes are solutions and some others have no       *)
(* better neighbour; with two there is no solution, and the search goes on *)
(* until its tries are used up or it is stuck.                             *)
(* The filter has eight slots, so that signatures share them.              *)
(***************************************************************************)
EXTENDS Naboo

WalkSelectors == [t \in 0 .. 0 |-> <<0, 1>>]

\* 000, 010, 100, 101, 110, 111, the first bit on the left
WalkKey == LET n == <<0, 2, 4, 5, 6, 7>>
           IN  [k \in 0 .. 5 |-> [i \in 0 .. 2 |-> (n[k + 1] \div 2^(2 - i)) % 2]]

\* The words of the four bits: in the second table two are the same, and in the
\* third those of the first three bits cancel out.
MCMix == LET word == << <<{0}, {1}, {2}, {0, 1, 2}>>,
                        <<{0, 1}, {1, 2}, {0}, {0}>>,
                        <<{0}, {2}, {0, 2}, {1}>> >>
             place(b) == b[2][1] + 2 * b[2][2] + 1
         IN  [j \in Subs |-> [b \in LutBits |-> word[j][place(b)]]]

(* The scores are natural numbers; TLC tabulates them here, once. *)
ASSUME ScoresAssumption == Scores \in [GroupSizes -> [Luts -> Nat]]
=============================================================================
