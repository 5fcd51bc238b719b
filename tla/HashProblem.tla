---------------------------- MODULE HashProblem ----------------------------
(***************************************************************************)
(* A BitHash and the keys it has to hash: what the searches minimise.  The *)
(* keys are those of a key_value_set without don't-cares, numbered in the  *)
(* order of the map (the local searches need concrete keys: table::address *)
(* throws on any other).                                                   *)
(***************************************************************************)
EXTENDS BitHash, FiniteSetsExt

CONSTANTS nKeys,   \* number of keys of the problem
          Key      \* Key[k]: the key at position k

KeyIds == 0 .. nKeys-1

ASSUME HashProblemAssumption ==
    /\ nKeys \in Nat
    /\ Key \in [KeyIds -> ConcreteKeys]

\* The hash of every key, and the number of keys on every hash.
KeysIn(l)      == [k \in KeyIds |-> HashOf(l, Key[k])]
HashCounts(ks) == [h \in Hashes |-> Cardinality(Fibre(ks, KeyIds, h))]

\* evalFull(): how many keys do not fit when every hash takes groupSize of them;
\* on hash h they have the numbers groupSize to hits[h]-1.
evalFull(l, groupSize) ==
    LET hits == HashCounts(KeysIn(l))
    IN  Cardinality({p \in Hashes \X KeyIds : groupSize <= p[2] /\ p[2] < hits[p[1]]})
=============================================================================
