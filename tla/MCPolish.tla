----------------------------- MODULE MCPolish -----------------------------
(* Polish for TLC: four keys of three bits, two tables of two taps. *)
EXTENDS Polish

MCSelectors == [t \in 0 .. 1 |-> IF t = 0 THEN <<0, 1>> ELSE <<0, 2>>]

\* 0b000, 0b001, 0b010, 0b111
MCKey == [k \in 0 .. 3 |-> [i \in 0 .. 2 |->
            <<<<0, 0, 0>>, <<1, 0, 0>>, <<0, 1, 0>>, <<1, 1, 1>>>>[k+1][i+1]]]

\* todo for eight entries: extra is 0.01, 0.015, ..., 0.865
MCLevels == <<1, 1, 1, 1, 1, 1, 1, 2, 3, 4, 5, 7>>

\* A few hashes, some perfect; the entry that no key reads is undecided in some.
MCStarts ==
    {lut \in PartialLuts :
        /\ \A b \in LutBits : lut[b] = -1 => b = <<1, <<0, 1>>>>
        /\ lut[<<0, <<0, 0>>>>] = 0 /\ lut[<<1, <<0, 0>>>>] = 0
        /\ lut[<<1, <<1, 0>>>>] = lut[<<0, <<0, 1>>>>]
        /\ lut[<<1, <<0, 1>>>>] = IF lut[<<1, <<1, 1>>>>] = 0 THEN -1 ELSE 1}
=============================================================================
