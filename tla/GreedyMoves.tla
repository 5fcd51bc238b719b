---------------------------- MODULE GreedyMoves ----------------------------
(***************************************************************************)
(* The local moves of include/bit_hash_anneal.hpp.  Every greedy function  *)
(* goes through flips of one to four bits in nested loops, evaluates the   *)
(* hash with each of them, and makes the first of the best, if that is an  *)
(* improvement.  A function is represented by the tuples of bit numbers    *)
(* that its loops go through; every flip is undone before the next.        *)
(***************************************************************************)
EXTENDS HashProblem

CONSTANT groupSize

\* The loops count up to bitCount()-3, an unsigned: the smallest hash that has
\* no overflow there has three bits.
ASSUME GreedyMovesAssumption ==
    /\ groupSize \in Nat
    /\ Cardinality(LutBits) >= 3

Score == [l \in Luts |-> evalFull(l, groupSize)]

\* The bits have the numbers 0 to bitCount()-1.
bitCount == Cardinality(LutBits)
Numbers  == 0 .. bitCount-1
bits     == [n \in Numbers |-> CHOOSE b \in LutBits :
                                  Cardinality({c \in LutBits : BitPrecedes(c, b)}) = n]

\* l with the bits of a tuple of numbers flipped.
FlippedAll(l, c) ==
    [b \in LutBits |-> IF \E n \in DOMAIN c : bits[c[n]] = b THEN 1 - l[b] ELSE l[b]]

-----------------------------------------------------------------------------
\* The tuples that each function tries.
OneBits == {<<i>> : i \in Numbers}

TwoBits == {c \in Numbers \X Numbers : c[1] < c[2]}

\* greedyTwoBitFast: both loops end before the last bit.
TwoBitsFast == {c \in TwoBits : c[2] < bitCount-1}

\* greedyTwoBit on a copy: bits of two tables.
TwoTables == {c \in TwoBits : bits[c[1]][1] < bits[c[2]][1]}

\* greedyThreeBit: the loop over the third table increments the index of the
\* second, so that only the first bit of the table after the first is tried,
\* with the table after that; the other bits find their loop at its end.
ThreeTables ==
    {c \in Numbers \X Numbers \X Numbers :
        LET b == [n \in 1 .. 3 |-> bits[c[n]]]
        IN  /\ b[2][1] = b[1][1] + 1 /\ b[3][1] = b[1][1] + 2
            /\ \A a \in DOMAIN b[2][2] : b[2][2][a] = 0}

ThreeBitsFast == {c \in Numbers \X Numbers \X Numbers : c[1] < c[2] /\ c[2] < c[3]}

FourBitsFast == {c \in Numbers \X Numbers \X Numbers \X Numbers :
                    c[1] < c[2] /\ c[2] < c[3] /\ c[3] < c[4]}

-----------------------------------------------------------------------------
\* The order in which nested loops come to two tuples.
Before(c, d) == \E n \in DOMAIN c : c[n] < d[n] /\ \A i \in 1 .. n-1 : c[i] = d[i]

First(C) == CHOOSE c \in C : \A d \in C \ {c} : Before(c, d)

\* The lowest score that a tuple of C gives, and the tuples that give it.
eMin(l, C)   == Min({Score[FlippedAll(l, c)] : c \in C})
Lowest(l, C) == LET e == eMin(l, C) IN {c \in C : Score[FlippedAll(l, c)] = e}

\* Mutant: the first improvement is kept, not the best.
GreedyFirst(l, C) ==
    LET improving == {c \in C : Score[FlippedAll(l, c)] < Score[l]}
    IN  IF improving # {} THEN FlippedAll(l, First(improving)) ELSE l

\* The result of a greedy function that tries C.
Greedy(l, C) ==
    IF C # {} /\ eMin(l, C) < Score[l]
      THEN FlippedAll(l, First(Lowest(l, C)))
      ELSE l

(***************************************************************************)
(* perturbHash: every bit is flipped with a probability of at least        *)
(* 3/bitCount(), so all of them if there are only three.                   *)
(***************************************************************************)
Perturbed(l) ==
    IF bitCount <= 3 THEN {[b \in LutBits |-> 1 - l[b]]} ELSE Luts

(***************************************************************************)
(* greedyOneBit in place: a flip that leaves the score as it is counts as  *)
(* one of the best, and any of the best is made; with ignoreCurrent also   *)
(* when all of them are worse.                                             *)
(***************************************************************************)
GreedyInPlace(l, ignoreCurrent) ==
    IF ignoreCurrent \/ eMin(l, OneBits) <= Score[l]
      THEN {FlippedAll(l, c) : c \in Lowest(l, OneBits)}
      ELSE {l}

\* How many bits two hashes differ in.
Distance(l, m) == Cardinality({b \in LutBits : l[b] # m[b]})
=============================================================================
