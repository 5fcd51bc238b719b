-------------------------- MODULE MCWriteFpgaHash --------------------------
(***************************************************************************)
(* Keys of two bits, hashes of two bits from tables that read both bits,   *)
(* in different order; values of up to four bits.  An unsigned has as many *)
(* bits as a key, or one more.                                             *)
(***************************************************************************)
EXTENDS WriteFpgaHash

MCSelectors   == [t \in Tables |-> IF t = 0 THEN <<0, 1>> ELSE <<1, 0>>]
MCDrawnValues == {v \in Values : v[1] = 1 /\ size(v) = 2}

\* No line; one, with a key of up to two digits and a value of one bit, of four, or
\* with a don't-care; or two lines, the second without a value.
Digits      == UNION {[1 .. w -> {-1, 0, 1}] : w \in 1 .. wI}
MCUserLines ==
    {<<>>} \cup {<<<<x, v>>>> : x \in Digits, v \in {<<1>>, <<-1>>, <<1, 1, 1, 0>>}}
           \cup {<<<<x, <<1>>>>, <<y, <<>>>>>> : x, y \in Digits}

\* The solutions that tell three keys apart, up to the inversion of bits of the hash:
\* address 0 has 0 in both tables; and some with an address that is left undecided.
Zero == <<0, 0>>
One  == <<1, 1>>
Left(a, l)   == [b \in LutBits |-> IF b[2] = a THEN -1 ELSE l[b]]
AllZero(a)   == {l \in Luts : \A t \in Tables : l[<<t, a>>] = 0}
Spread       == {l \in AllZero(Zero) : Cardinality({HashOf(l, y) : y \in ConcreteKeys}) >= 3}
MCCandidates == Spread \cup {Left(One, l) : l \in Spread \cap AllZero(One)}
                       \cup {Left(Zero, l) : l \in Spread \cap AllZero(<<1, 0>>)}
=============================================================================
