----------------------------- MODULE MCSolveCnf -----------------------------
(* SolveCnf for TLC: keys of three bits, hashes of two, tables of two taps. *)
EXTENDS SolveCnf

\* What makeBitHash may draw: makeRandomShuffle gives inputs 0 and 2 to one
\* table and 1 to the other, fills that one up at random, and sorts them.
MCTapChoices ==
    {[t \in 0 .. 1 |-> IF t = 0 THEN <<0, 1>> ELSE <<0, 2>>],
     [t \in 0 .. 1 |-> IF t = 0 THEN <<0, 2>> ELSE <<1, 2>>]}

\* A key from its bits, the most significant first; 2 is a don't-care.
FromBits(b2, b1, b0) ==
    [i \in 0 .. 2 |-> LET b == <<b0, b1, b2>>[i+1] IN IF b = 2 THEN -1 ELSE b]

\* Four keys, which leave no choice of the hashes that are used.
MCConcrete == [k \in 0 .. 3 |-> <<FromBits(0,0,0), FromBits(0,0,1),
                                  FromBits(0,1,0), FromBits(1,1,1)>>[k+1]]

\* Three keys, which leave one hash unused.
MCThree == [k \in 0 .. 2 |-> MCConcrete[k]]

\* 0b000, 0b001, 0b1u0: its variants read entries that nothing reads before.
MCDontCare == [k \in 0 .. 2 |-> <<FromBits(0,0,0), FromBits(0,0,1), FromBits(1,2,0)>>[k+1]]

\* 0b010, 0b011, 0b100, 0b101, 0b11u: all that the variants of the last key
\* read has been read before, so that no clause of its names a missing variable.
MCOneDontCare ==
    [k \in 0 .. 4 |-> <<FromBits(0,1,0), FromBits(0,1,1), FromBits(1,0,0),
                        FromBits(1,0,1), FromBits(1,1,2)>>[k+1]]

\* One way to wire three tables.
MCThreeTables == {[t \in 0 .. 2 |-> <<<<0, 1>>, <<0, 2>>, <<1, 2>>>>[t+1]]}

BothKinds    == ({MCThree} \X (0 .. 4)) \cup {<<MCDontCare, 0>>}
MinimalThree == {<<MCThree, 3>>}
OneDontCare  == {<<MCOneDontCare, 0>>}
=============================================================================
