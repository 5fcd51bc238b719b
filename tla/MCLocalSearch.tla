--------------------------- MODULE MCLocalSearch ---------------------------
(***************************************************************************)
(* LocalSearch for TLC, on four of the keys of three bits and two tables,  *)
(* of one bit and of two. There is no solution; eight of the 64 hashes are *)
(* not the best and can not be improved by one bit.                        *)
(***************************************************************************)
EXTENDS LocalSearch

MCSelectors == [t \in 0 .. 1 |-> IF t = 0 THEN <<1>> ELSE <<2, 1>>]

\* 000, 010, 011, 111, the first bit on the left
MCKey == LET n == <<0, 2, 3, 7>>
         IN  [k \in 0 .. 3 |-> [i \in 0 .. 2 |-> (n[k + 1] \div 2^(2 - i)) % 2]]

MCPatience == <<0, 1, 2>>

(* TLC tabulates the scores and the numbers of the bits here, once. *)
ASSUME ScoresAssumption ==
    /\ Score \in [Luts -> Nat]
    /\ bits \in [Numbers -> LutBits]
=============================================================================
