---------------------------- MODULE MCSolverGrasp ----------------------------
(***************************************************************************)
(* SolverGrasp for TLC, with bounds of 0 and of 1 on the steps of the      *)
(* greedy walk that improve nothing, on one problem.                       *)
(*   One table sees two bits; of the four groups of keys with equal        *)
(*   bits two are of one key and two of two, and they have to be shared    *)
(*   out evenly. Some hashes are no solution and have no better neighbour. *)
(***************************************************************************)
EXTENDS SolverGrasp

PoolSelectors == [t \in 0 .. 0 |-> <<0, 1>>]

\* 000, 010, 100, 101, 110, 111, the first bit on the left
PoolKey == LET n == <<0, 2, 4, 5, 6, 7>>
           IN  [k \in 0 .. 5 |-> [i \in 0 .. 2 |-> (n[k + 1] \div 2^(2 - i)) % 2]]

(* The scores are natural numbers; TLC tabulates them here, once. *)
ASSUME ScoresAssumption ==
    /\ Score \in [Luts -> Nat]
    /\ Moves \in [Luts -> [LutBits -> Nat]]
    /\ front \in [Luts -> LutBits]
=============================================================================
