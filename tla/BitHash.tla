------------------------------ MODULE BitHash ------------------------------
(***************************************************************************)
(* The hash of include/bit_hash.hpp: wO one-bit look-up tables ("tables"), *)
(* table t addressed by the key bits that Selectors[t] names.              *)
(*                                                                         *)
(* An unsigned that packs bits is represented by the function from bit     *)
(* position to bit: a concrete key over Inputs, a table address over the   *)
(* positions of the table's selectors, a hash over Tables.  The packing    *)
(* (1<<i, |) is injective while the widths stay below 32 bits, which is    *)
(* assumed; XOR with the mask 1<<t is then "flip component t".             *)
(***************************************************************************)
EXTENDS Integers, Sequences, FiniteSets, Widths

CONSTANT Selectors    \* Selectors[t][i]: the key bit wired to address line i of table t

Inputs == 0 .. wI-1
Tables == 0 .. wO-1

ASSUME BitHashAssumption ==
    /\ wI \in Nat
    /\ wO \in Nat
    /\ Selectors \in [Tables -> Seq(Inputs)]

ConcreteKeys == [Inputs -> {0, 1}]
AbstractKeys == [Inputs -> {-1, 0, 1}]       \* -1 is a don't-care
Hashes       == [Tables -> {0, 1}]

Addresses(t) == [DOMAIN Selectors[t] -> {0, 1}]

\* table::address
address(t, x) == [i \in DOMAIN Selectors[t] |-> x[Selectors[t][i]]]

(***************************************************************************)
(* All the storage bits of a BitHash: entry a of the lut of table t is the *)
(* pair <<t, a>>.  Luts are the contents, once every entry is decided;     *)
(* PartialLuts also allow -1, "undecided".                                 *)
(***************************************************************************)
LutBits == UNION {{t} \X Addresses(t) : t \in Tables}

Luts        == [LutBits -> {0, 1}]
PartialLuts == [LutBits -> {-1, 0, 1}]

\* BitHash::operator()
HashOf(lut, x) == [t \in Tables |-> lut[<<t, address(t, x)>>]]

\* v with bit i inverted: a lut entry (b = 1-b) or a hash (h ^= 1<<i)
Flipped(v, i) == [v EXCEPT ![i] = 1 - @]

(***************************************************************************)
(* The order of EntryToKey's bits: by table, then by the address as a      *)
(* number, its first selector the lowest bit.                              *)
(***************************************************************************)
BitPrecedes(b, c) ==
    \/ b[1] < c[1]
    \/ /\ b[1] = c[1]
       /\ \E i \in DOMAIN b[2] :
             /\ b[2][i] < c[2][i]
             /\ \A j \in DOMAIN b[2] : j > i => b[2][j] = c[2][j]

\* The set of concrete keys that a key with don't-cares stands for.
variants(k) == {x \in ConcreteKeys : \A i \in Inputs : k[i] # -1 => x[i] = k[i]}

\* *variants_begin(): every don't-care is 0
FirstVariant(k) == [i \in Inputs |-> IF k[i] = -1 THEN 0 ELSE k[i]]

(***************************************************************************)
(* BitHash::is_solution: no two keys of the set share the hash of their    *)
(* first variants, and all the variants of a key share one hash.           *)
(***************************************************************************)
is_solution(lut, ks) ==
    /\ \A j, k \in ks :
          j # k => HashOf(lut, FirstVariant(j)) # HashOf(lut, FirstVariant(k))
    /\ \A k \in ks : \A x \in variants(k) :
          HashOf(lut, x) = HashOf(lut, FirstVariant(k))

\* The members of S that f sends to v.
Fibre(f, S, v) == {x \in S : f[x] = v}
=============================================================================
