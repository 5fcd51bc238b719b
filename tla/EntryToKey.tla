----------------------------- MODULE EntryToKey -----------------------------
(***************************************************************************)
(* struct EntryToKey of include/bit_hash_anneal.hpp: the incremental view  *)
(* of a BitHash that every local search works through.  It keeps, next to  *)
(* the lut bits, the hash of every key, the number of keys on every hash,  *)
(* and a histogram of those numbers, and flipBit updates all of them       *)
(* without looking at the keys the flipped bit does not concern.           *)
(*                                                                         *)
(* A call of flipBit is split at the points where the C++ indexes and      *)
(* resizes its vectors: "begin", then for every key of the flipped bit     *)
(* "remove" and "add", then "end".                                         *)
(***************************************************************************)
EXTENDS HashProblem

NoFlip == <<>>
NoKey  == -1

VARIABLES lut,        \* the entries of bh, which the pBit pointers reach
          packedBits, \* copy of the entries, handed out by getBits()
          keys,       \* keys[k]: the hash of key k
          hashes,     \* hashes[h]: how many keys have hash h
          counts,     \* counts[c]: how many hashes have c keys; a vector
          pc,         \* "idle", "move" and "add" inside flipBit, "stale" before sync
          flip,       \* the bit that the call of flipBit flips
          todo,       \* the keys that call still has to move
          cur         \* the key it is moving

vars == <<lut, packedBits, keys, hashes, counts, pc, flip, todo, cur>>

-----------------------------------------------------------------------------
(* std::vector<unsigned> as a function from 0 .. size-1. *)

Size(v)      == Cardinality(DOMAIN v)
Resize(v, n) == [i \in 0 .. n-1 |-> IF i \in DOMAIN v THEN v[i] ELSE 0]

-----------------------------------------------------------------------------
\* bit_info::keys: the keys that read lut entry b.
KeysOf(b) == {k \in KeyIds : address(b[1], Key[k]) = b[2]}

\* cs is the histogram of hs, as long as the largest entry of hs needs it.
IsHistogram(cs, hs) ==
    \E n \in 1 .. nKeys+1 :
       /\ \A h \in Hashes : hs[h] < n
       /\ \E h \in Hashes : hs[h] = n-1
       /\ cs = [c \in 0 .. n-1 |-> Cardinality(Fibre(hs, Hashes, c))]

\* The caches p, ks, hs and cs hold what sync() computes from the lut l.
Computed(l, p, ks, hs, cs) ==
    /\ p = l
    /\ ks = KeysIn(l)
    /\ hs = HashCounts(KeysIn(l))
    /\ IsHistogram(cs, HashCounts(KeysIn(l)))

\* Mutant: the loop starts one too late.
evalFromNext(groupSize) ==
    MapThenSumSet(LAMBDA c : counts[c] * (c - groupSize),
                  {c \in DOMAIN counts : c > groupSize + 1})

\* eval(): the keys that do not fit in a group of groupSize keys, from counts.
eval(groupSize) ==
    MapThenSumSet(LAMBDA c : counts[c] * (c - groupSize),
                  {c \in DOMAIN counts : c > groupSize})

-----------------------------------------------------------------------------
\* The constructor, which ends with a sync().
Init == /\ lut \in Luts
        /\ Computed(lut, packedBits, keys, hashes, counts)
        /\ pc = "idle"
        /\ flip = NoFlip
        /\ todo = {}
        /\ cur = NoKey

\* flipBit, up to its loop: flip the stored bit and its packed copy.
BeginFlip(b) ==
    /\ pc = "idle"
    /\ lut' = Flipped(lut, b)
    /\ packedBits' = [packedBits EXCEPT ![b] = 1 - lut[b]]
    /\ flip' = b
    /\ todo' = KeysOf(b)
    /\ pc' = "move"
    /\ UNCHANGED <<keys, hashes, counts, cur>>

\* Mutant: counts is never trimmed.
RemoveOldUntrimmed(k) ==
    /\ pc = "move"
    /\ k \in todo
    /\ \A j \in todo : k <= j
    /\ LET collisions == hashes[keys[k]]
       IN  /\ hashes' = [hashes EXCEPT ![keys[k]] = collisions - 1]
           /\ counts' = [counts EXCEPT ![collisions] = @ - 1, ![collisions - 1] = @ + 1]
    /\ cur' = k
    /\ pc' = "add"
    /\ UNCHANGED <<lut, packedBits, keys, flip, todo>>

\* The first half of an iteration: take key k off its old hash.
RemoveOld(k) ==
    /\ pc = "move"
    /\ k \in todo
    /\ \A j \in todo : k <= j
    /\ LET collisions == hashes[keys[k]]
           dec        == [counts EXCEPT ![collisions] = @ - 1]
           trimmed    == IF dec[collisions] = 0 /\ collisions + 1 = Size(dec)
                           THEN Resize(dec, collisions)
                           ELSE dec
       IN  /\ hashes' = [hashes EXCEPT ![keys[k]] = collisions - 1]
           /\ counts' = [trimmed EXCEPT ![collisions - 1] = @ + 1]
    /\ cur' = k
    /\ pc' = "add"
    /\ UNCHANGED <<lut, packedBits, keys, flip, todo>>

\* Mutant: counts does not grow for a hash with more keys than any other.
AddNewUngrown ==
    /\ pc = "add"
    /\ LET key        == Flipped(keys[cur], flip[1])
           collisions == hashes[key] + 1
       IN  /\ keys' = [keys EXCEPT ![cur] = key]
           /\ hashes' = [hashes EXCEPT ![key] = collisions]
           /\ counts' = [c \in DOMAIN counts |->
                            CASE c = collisions - 1 -> counts[c] - 1
                              [] c = collisions     -> counts[c] + 1
                              [] OTHER              -> counts[c]]
    /\ todo' = todo \ {cur}
    /\ cur' = NoKey
    /\ pc' = "move"
    /\ UNCHANGED <<lut, packedBits, flip>>

\* The second half: flip the table's bit of the key's hash, and count the key there.
AddNew ==
    /\ pc = "add"
    /\ LET key        == Flipped(keys[cur], flip[1])
           collisions == hashes[key] + 1
           dec        == [counts EXCEPT ![collisions - 1] = @ - 1]
           grown      == IF collisions = Size(dec)
                           THEN Resize(dec, collisions + 1)
                           ELSE dec
       IN  /\ keys' = [keys EXCEPT ![cur] = key]
           /\ hashes' = [hashes EXCEPT ![key] = collisions]
           /\ counts' = [grown EXCEPT ![collisions] = @ + 1]
    /\ todo' = todo \ {cur}
    /\ cur' = NoKey
    /\ pc' = "move"
    /\ UNCHANGED <<lut, packedBits, flip>>

\* flipBit returns.
EndFlip ==
    /\ pc = "move"
    /\ todo = {}
    /\ flip' = NoFlip
    /\ pc' = "idle"
    /\ UNCHANGED <<lut, packedBits, keys, hashes, counts, todo, cur>>

\* Mutant: the caller goes on without a sync().
AssignUnsynced(l) ==
    /\ pc = "idle"
    /\ lut' = l
    /\ UNCHANGED <<packedBits, keys, hashes, counts, pc, flip, todo, cur>>

(***************************************************************************)
(* A search assigns another BitHash to the one that bh refers to           *)
(* (et.bh = bhBest, solCurr = ...).  Nothing here is told: until sync() is *)
(* called, which all the callers do next, the caches are of the old lut.   *)
(***************************************************************************)
Assign(l) ==
    /\ pc = "idle"
    /\ lut' = l
    /\ pc' = "stale"
    /\ UNCHANGED <<packedBits, keys, hashes, counts, flip, todo, cur>>

sync ==
    /\ pc \in {"idle", "stale"}
    /\ Computed(lut, packedBits', keys', hashes', counts')
    /\ pc' = "idle"
    /\ UNCHANGED <<lut, flip, todo, cur>>

Next == \/ \E b \in LutBits : BeginFlip(b)
        \/ \E k \in KeyIds : RemoveOld(k)
        \/ AddNew
        \/ EndFlip
        \/ \E l \in Luts : Assign(l)
        \/ sync

Spec == Init /\ [][Next]_vars

-----------------------------------------------------------------------------
\* The keys that hashes counts: in the middle of a move, all but the moving one.
Counted == IF pc = "add" THEN KeyIds \ {cur} ELSE KeyIds

\* The hash that keys[k] must hold: before its move, that of the unflipped lut.
HashNow(k) == IF k \in todo THEN Flipped(HashOf(lut, Key[k]), flip[1])
                            ELSE HashOf(lut, Key[k])

(* All the variables have values of the right kind. *)
TypeOK ==
    /\ lut \in Luts
    /\ packedBits \in Luts
    /\ keys \in [KeyIds -> Hashes]
    /\ hashes \in [Hashes -> 0 .. nKeys]
    /\ \E n \in 1 .. nKeys+1 : counts \in [0 .. n-1 -> Nat]
    /\ pc \in {"idle", "move", "add", "stale"}
    /\ flip \in IF pc \in {"move", "add"} THEN LutBits ELSE {NoFlip}
    /\ todo \subseteq IF pc \in {"move", "add"} THEN KeysOf(flip) ELSE {}
    /\ pc = "add" => cur \in todo

(* Between two steps of flipBit every cache is the one that recomputing it  *)
(* from the others would give: the keys moved so far have the hash of the   *)
(* new lut and the others still that of the old one, hashes counts every    *)
(* key that is not in mid-move, and counts is the exact histogram of        *)
(* hashes, down to its length (flipBit trims at most one entry at a time).  *)
Coherent ==
    pc # "stale" =>
        /\ packedBits = lut
        /\ \A k \in KeyIds : keys[k] = HashNow(k)
        /\ \A h \in Hashes : hashes[h] = Cardinality(Fibre(keys, Counted, h))
        /\ IsHistogram(counts, hashes)

(* No unsigned counter of flipBit is decremented below zero and no vector   *)
(* is indexed beyond its size: neither is checked by the code (operator[]). *)
IndexSafe ==
    /\ \A k \in KeyIds : pc = "move" /\ k \in todo =>
          /\ hashes[keys[k]] \in DOMAIN counts \ {0}
          /\ counts[hashes[keys[k]]] > 0
    /\ pc = "add" =>
          LET h == Flipped(keys[cur], flip[1])
          IN  /\ hashes[h] \in DOMAIN counts
              /\ counts[hashes[h]] > 0

(* A search that holds an idle, synced object can trust eval(): for every   *)
(* group size it is what evalFull computes from scratch.  The assertion at  *)
(* the end of sync(), and the one in greedyOneBit, say so for some states.  *)
EvalAgrees ==
    pc = "idle" => \A g \in 0 .. nKeys : eval(g) = evalFull(lut, g)

-----------------------------------------------------------------------------
(***************************************************************************)
(* The histogram that an idle object offers: the entries that counts is    *)
(* too short to hold are 0, as the loop of eval() takes them.              *)
(***************************************************************************)
Offered ==
    IF pc = "idle"
      THEN [c \in 0 .. nKeys |-> IF c \in DOMAIN counts THEN counts[c] ELSE 0]
      ELSE <<"not ready">>

Abstract == INSTANCE CollisionScore WITH histogram <- Offered

(* EntryToKey implements CollisionScore: every answer it is ready to give   *)
(* is that of the hash as it stands, after any sequence of flips,           *)
(* assignments and syncs, and reading it never precedes the end of a flip.  *)
ImplementsScore == Abstract!Spec
=============================================================================
