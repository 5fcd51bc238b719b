---------------------------- MODULE KeyValueSet ----------------------------
(***************************************************************************)
(* The bit vectors of include/bit_vector.hpp and the key_value_set of      *)
(* include/key_value_set.hpp.  A bit_vector drops the zeros at its top and *)
(* reads as zero above its size; here it is the function from bit numbers  *)
(* to -1 (don't-care), 0 or 1 that reading it gives, so that two vectors   *)
(* are equal exactly when the functions are.  A text "0b..." is the        *)
(* sequence of its digits, the top one first.                              *)
(***************************************************************************)
EXTENDS BitHash, SequencesExt

CONSTANT wV      \* number of bits of a value

ASSUME KeyValueSetAssumption == wV \in Nat

Values == [0 .. wV-1 -> {0, 1}]

\* setCounts(), size(): the bits up to the highest that is not zero.
size(x) == Max({0} \cup {i + 1 : i \in {j \in DOMAIN x : x[j] # 0}})

is_concrete(x) == \A j \in DOMAIN x : x[j] # -1

\* operator<: the narrower vector first, then the higher bits decide.
Less(x, y) ==
    \/ size(x) < size(y)
    \/ /\ size(x) = size(y)
       /\ \E i \in DOMAIN x :
             /\ x[i] < y[i]
             /\ \A j \in DOMAIN x : j > i => x[j] = y[j]

\* A mutant: a don't-care is compared like a value.
overlapsExactly(x, y) == \A i \in Inputs : x[i] = y[i]

\* overlaps(): no bit that is decided in both tells the two apart.
overlaps(x, y) == \A i \in Inputs : x[i] # -1 /\ y[i] # -1 => x[i] = y[i]

\* The number that the bits of x spell.
number(x) == MapThenSumSet(LAMBDA i : x[i] * 2^i, DOMAIN x)

\* to_unsigned(): what it may give where an unsigned has w bits.  It shifts each bit
\* to its place and ors it in; from place w on the shift is undefined, and may leave
\* anything or-ed onto the bits below.  It throws for a don't-care.
to_unsigned(x, w) ==
    IF size(x) <= w THEN {number(x)}
    ELSE {number(z) : z \in {y \in [0 .. w-1 -> {0, 1}] :
                                \A i \in DOMAIN y : x[i] = 1 => y[i] = 1}}

\* to_string(), without the "0b"
to_string(x) == IF size(x) = 0 THEN <<0>>
                ELSE [j \in 1 .. size(x) |-> x[size(x) - j]]

\* A mutant: the first digit is taken for the lowest.
parseFromTheFront(s, n) == [i \in 0 .. n-1 |-> IF i < Len(s) THEN s[i + 1] ELSE 0]

\* parse_bit_vector() of binary digits, read as n bits
parse_bit_vector(s, n) ==
    [i \in 0 .. n-1 |-> IF i < Len(s) THEN s[Len(s) - i] ELSE 0]

\* random_bit_vector(): w random bits; some undefined if that has a probability.
RandomVectors(w, undefined) ==
    {x \in AbstractKeys : /\ \A i \in Inputs : i >= w => x[i] = 0
                          /\ ~undefined => is_concrete(x)}

-----------------------------------------------------------------------------
(***************************************************************************)
(* m_entries, a std::map, is a function from its keys to their values.     *)
(***************************************************************************)
NoEntries == [x \in {} |-> 0]

\* A value for a key, which may be new.
With(entries, x, v) ==
    [y \in DOMAIN entries \cup {x} |-> IF y = x THEN v ELSE entries[y]]

\* The members of S in the order R: the one in place r has r-1 others before it.
Ranked(S, R) == [r \in 1 .. Cardinality(S) |->
    CHOOSE x \in S : Cardinality({y \in S : <<y, x>> \in R}) = r - 1]

Before == {p \in AbstractKeys \X AbstractKeys : Less(p[1], p[2])}

\* The keys in the order of the map.
InOrder(entries) == Ranked(DOMAIN entries, Before)

\* The keys, each with every one of its variants, and the order of two loops, over
\* the map and a variant_iterator, whose offset fills the don't-cares upwards.
KeyVariants(entries) ==
    {p \in (DOMAIN entries) \X ConcreteKeys : p[2] \in variants(p[1])}

VariantBefore ==
    {p \in (AbstractKeys \X ConcreteKeys) \X (AbstractKeys \X ConcreteKeys) :
        LET x == p[1][1]  a == p[1][2]
            y == p[2][1]  b == p[2][2]
        IN  \/ <<x, y>> \in Before
            \/ x = y /\ number(a) < number(b)}

\* getKeyWidth() and has_concrete_keys()
getKeyWidth(entries)       == Max({0} \cup {size(x) : x \in DOMAIN entries})
has_concrete_keys(entries) == \A x \in DOMAIN entries : is_concrete(x)

\* setupProperties() throws when two of the keys overlap.
Overlapping(entries) ==
    \E x, y \in DOMAIN entries : x # y /\ overlaps(x, y)

\* print(): a line "key : value" for each entry.
print(entries) ==
    LET order == InOrder(entries)
    IN  [m \in DOMAIN order |->
            LET x == order[m] IN <<to_string(x), to_string(entries[x])>>]
=============================================================================
