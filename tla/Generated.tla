----------------------------- MODULE Generated -----------------------------
(***************************************************************************)
(* The programs that include/bit_hash_cpp.hpp and include/                 *)
(* bit_hash_vhdl.hpp write, by what they compute.  Keys of the generated   *)
(* functions are numbers; lut is the contents of the tables, which may be  *)
(* undecided where no key reads them; entries is the key_value_set.        *)
(***************************************************************************)
EXTENDS KeyValueSet

CONSTANTS Poison,       \* 0xFFFFFFFFFFFFFFFF, on the hashes of no key
          Overshifts    \* what the undefined 1<<wI may give, if an unsigned has wI bits

ASSUME GeneratedAssumption ==
    Overshifts # {} /\ Overshifts \subseteq 0 .. 2^wI-1

\* 1<<wI, or 1u<<wI, where an unsigned has w bits; no key is wider than that.
shifted(w) == IF wI < w THEN {2^wI} ELSE Overshifts

\* The key whose number is n.
KeyNumbered(n) == [i \in Inputs |-> (n \div 2^i) % 2]

\* The key that is the last to write the entry of hash h, of those that do.
Owners(hashOf, h) == Fibre(hashOf, DOMAIN hashOf, h)
Owner(hashOf, h)  == CHOOSE x \in Owners(hashOf, h) :
                        \A y \in Owners(hashOf, h) : ~Less(x, y)

\* An array over the hashes: what entry has for the owner, or a default.
Filled(lut, entries, entry, default) ==
    LET hashOf == [x \in DOMAIN entries |-> HashOf(lut, FirstVariant(x))]
    IN  [h \in Hashes |-> IF Owners(hashOf, h) = {} THEN default
                          ELSE entry[Owner(hashOf, h)]]

-----------------------------------------------------------------------------
(***************************************************************************)
(* The arrays that the writers put into the text.                          *)
(***************************************************************************)
\* write_cpp_hash(): every entry that is not 1, undecided ones too, becomes 0.
roms(lut) == [b \in LutBits |-> IF lut[b] = 1 THEN 1 ELSE 0]

\* A mutant: an unused hash has the tag 0, like its mask.
tagsCleared(lut, entries, sentinel) ==
    Filled(lut, entries, [x \in DOMAIN entries |-> number(FirstVariant(x))], 0)

\* write_cpp_hit(): the tag of a hash is the first variant of its key, or the
\* sentinel.  The mask is taken from that variant too, and not from the key.
tags(lut, entries, sentinel) ==
    Filled(lut, entries, [x \in DOMAIN entries |-> number(FirstVariant(x))], sentinel)

get_concrete_mask(x) == [i \in Inputs |-> IF x[i] # -1 THEN 1 ELSE 0]

masks(lut, entries) ==
    Filled(lut, entries, [x \in DOMAIN entries |-> get_concrete_mask(FirstVariant(x))],
           [i \in Inputs |-> 0])

\* What the values of the entries may become when they are taken for unsigneds.
Readings(entries, w) ==
    {r \in [DOMAIN entries -> UNION {to_unsigned(entries[x], w) : x \in DOMAIN entries}] :
        \A x \in DOMAIN entries : r[x] \in to_unsigned(entries[x], w)}

\* write_cpp_lookup(): the words of the values, but for a key set of width 0, whose
\* only key is 0, the number of the key.
values(lut, entries, reading) ==
    Filled(lut, entries,
           [x \in DOMAIN entries |-> IF getKeyWidth(entries) = 0 THEN 0 ELSE reading[x]],
           Poison)

\* write_cpp_test(): a row for every variant of every key, with the hash of its
\* first variant; and a last one, with the bound of the test's loop for its key.
Rows(lut, entries, reading) ==
    LET order == Ranked(KeyVariants(entries), VariantBefore)
    IN  [r \in DOMAIN order |->
            LET x == order[r][1] IN
            [key |-> number(order[r][2]), hash |-> HashOf(lut, FirstVariant(x)),
             value |-> reading[x]]]

LastRow(key) == [key |-> key, hash |-> [t \in Tables |-> 0], value |-> 0]

\* The C++ programs that may be written where an unsigned has w bits.  One function
\* writes the key of the last row and the bound, from the same expression.
CppPrograms(lut, entries, w) ==
    {[rom |-> roms(lut), concrete |-> has_concrete_keys(entries),
      tag |-> tags(lut, entries, sentinel), mask |-> masks(lut, entries),
      value |-> values(lut, entries, reading),
      row |-> Append(Rows(lut, entries, rowReading), LastRow(limit)), limit |-> limit] :
        sentinel, limit \in shifted(w), reading, rowReading \in Readings(entries, w)}

\* The VHDL designs.  Their tags have wI+1 bits, and their values as many bits as the
\* widest key.  Their test bench takes <name>_hit for its device and declares only
\* <name>_lookup, so that it is never run.
VhdlPrograms(lut, entries, w) ==
    {[rom |-> roms(lut), concrete |-> TRUE,
      tag |-> LET whole == tags(lut, entries, sentinel)
              IN  [h \in Hashes |-> whole[h] % 2^(wI+1)],
      mask |-> <<>>,
      value |-> LET whole == values(lut, entries, reading)
                IN  [h \in Hashes |-> whole[h] % 2^getKeyWidth(entries)],
      row |-> <<>>, limit |-> 0] :
        sentinel \in shifted(w), reading \in Readings(entries, w)}

\* The designs that a VHDL analyser accepts: a key set with don't-cares names a mask
\* that is not declared, a hash or an address of one bit is assigned a std_logic, one
\* of none has no range, and a width of 0 gives a range that starts at 2^32 - 1.
Analysable(entries) ==
    /\ has_concrete_keys(entries) /\ getKeyWidth(entries) > 0
    /\ wO > 1 /\ \A t \in Tables : Len(Selectors[t]) > 1

-----------------------------------------------------------------------------
(***************************************************************************)
(* The functions of a generated program p, on the key with the number n.   *)
(***************************************************************************)
hash(p, n)   == HashOf(p.rom, KeyNumbered(n))
lookup(p, n) == p.value[hash(p, n)]

hit(p, n) ==
    LET mask == p.mask[hash(p, n)]
    IN  p.tag[hash(p, n)] =
          IF p.concrete THEN n
          ELSE number([i \in Inputs |-> KeyNumbered(n)[i] * mask[i]])

\* A turn of the test's loop over all keys, when row is the next expected.
CppFine(p, row, n) ==
    IF n = row.key THEN hit(p, n) /\ hash(p, n) = row.hash /\ lookup(p, n) = row.value
    ELSE ~hit(p, n)
=============================================================================
