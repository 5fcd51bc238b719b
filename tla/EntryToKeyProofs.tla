-------------------------- MODULE EntryToKeyProofs --------------------------
(***************************************************************************)
(* Proofs about EntryToKey, for every width, selection of taps and set of  *)
(* keys: the caches stay coherent, flipBit never leaves its vectors, eval  *)
(* is what evalFull computes, and EntryToKey implements CollisionScore.    *)
(***************************************************************************)
EXTENDS EntryToKey, BitHashProofs

-----------------------------------------------------------------------------
(* Keys and their hashes.                                                   *)

LEMMA KeyIdsFinite == IsFiniteSet(KeyIds) /\ Cardinality(KeyIds) = nKeys
  BY FS_Interval, HashProblemAssumption DEF KeyIds

LEMMA HashType ==
    ASSUME NEW l \in Luts, NEW k \in KeyIds
    PROVE  HashOf(l, Key[k]) \in Hashes
<1>1. Key[k] \in ConcreteKeys
  BY HashProblemAssumption
<1> QED BY <1>1, AddressType DEF HashOf, Hashes, Luts

(* Flipping a lut entry flips one bit of the hashes of the keys that read   *)
(* it, and no other hash: what bit_info::keys and bit_info::mask are for.   *)
LEMMA FlipMovesItsKeys ==
    ASSUME NEW l \in Luts, NEW b \in LutBits, NEW k \in KeyIds
    PROVE  /\ Flipped(l, b) \in Luts
           /\ b[1] \in Tables
           /\ HashOf(Flipped(l, b), Key[k]) =
                 IF k \in KeysOf(b) THEN Flipped(HashOf(l, Key[k]), b[1])
                                    ELSE HashOf(l, Key[k])
<1>1. Key[k] \in ConcreteKeys
  BY HashProblemAssumption
<1>2. PICK t \in Tables : \E a \in Addresses(t) : b = <<t, a>>
  BY DEF LutBits
<1>3. Flipped(l, b) \in Luts
  BY DEF Flipped, Luts
<1>4. \A u \in Tables : <<u, address(u, Key[k])>> \in LutBits
  BY <1>1, AddressType
<1>5. \A u \in Tables :
         Flipped(l, b)[<<u, address(u, Key[k])>>] =
            IF u = t /\ k \in KeysOf(b) THEN 1 - l[<<u, address(u, Key[k])>>]
                                        ELSE l[<<u, address(u, Key[k])>>]
  BY <1>2, <1>4 DEF Flipped, Luts, KeysOf
<1>6. CASE k \in KeysOf(b)
  <2> DEFINE h == HashOf(l, Key[k])
             g == HashOf(Flipped(l, b), Key[k])
  <2>1. h \in Hashes /\ g \in Hashes
    BY <1>3, HashType
  <2>2. \A u \in Tables : g[u] = IF u = t THEN 1 - h[u] ELSE h[u]
    BY <1>5, <1>6 DEF HashOf
  <2> HIDE DEF h, g
  <2>3. g = Flipped(h, t)
    BY <2>1, <2>2 DEF Flipped, Hashes
  <2> QED BY <1>2, <1>3, <1>6, <2>3 DEF h, g
<1>7. CASE k \notin KeysOf(b)
  BY <1>2, <1>3, <1>5, <1>7 DEF HashOf
<1> QED BY <1>6, <1>7

-----------------------------------------------------------------------------
(* Counting: the numbers of keys on a hash, and of hashes with a count.     *)

LEMMA FibreType ==
    ASSUME NEW f, NEW S, IsFiniteSet(S), NEW v
    PROVE  /\ IsFiniteSet(Fibre(f, S, v))
           /\ Cardinality(Fibre(f, S, v)) \in 0 .. Cardinality(S)
           /\ Cardinality(Fibre(f, S, v)) = 0 <=> \A x \in S : f[x] # v
<1>1. Fibre(f, S, v) \in SUBSET S
  BY DEF Fibre
<1>2. /\ IsFiniteSet(Fibre(f, S, v))
      /\ Cardinality(Fibre(f, S, v)) <= Cardinality(S)
  BY <1>1, FS_Subset
<1>3. Cardinality(Fibre(f, S, v)) = 0 <=> Fibre(f, S, v) = {}
  BY <1>2, FS_EmptySet
<1> QED BY <1>2, <1>3, FS_CardinalityType DEF Fibre

(* f and g have different values at x, and the same at the rest of S.       *)
DifferAt(f, g, S, x) ==
    x \in S /\ f[x] # g[x] /\ \A y \in S : y # x => g[y] = f[y]

(* Giving one element x of S another value moves it between two fibres and  *)
(* leaves the other fibres as they are.                                     *)
LEMMA FibreMove ==
    ASSUME NEW S, IsFiniteSet(S), NEW f, NEW g, NEW x, DifferAt(f, g, S, x),
           NEW w
    PROVE  /\ w = g[x] => Cardinality(Fibre(g, S, w)) = Cardinality(Fibre(f, S, w)) + 1
           /\ w = f[x] => Cardinality(Fibre(g, S, w)) = Cardinality(Fibre(f, S, w)) - 1
           /\ w # g[x] /\ w # f[x] =>
                 Cardinality(Fibre(g, S, w)) = Cardinality(Fibre(f, S, w))
<1>1. IsFiniteSet(Fibre(f, S, w)) /\ f[x] # g[x]
  BY FibreType DEF DifferAt
<1>2. CASE w = g[x]
  <2>1. Fibre(g, S, w) = Fibre(f, S, w) \cup {x} /\ x \notin Fibre(f, S, w)
    BY <1>2 DEF Fibre, DifferAt
  <2>2. Cardinality(Fibre(g, S, w)) = Cardinality(Fibre(f, S, w)) + 1
    BY <1>1, <2>1, FS_AddElement
  <2> QED BY <1>1, <1>2, <2>2
<1>3. CASE w = f[x]
  <2>1. Fibre(g, S, w) = Fibre(f, S, w) \ {x} /\ x \in Fibre(f, S, w)
    BY <1>3 DEF Fibre, DifferAt
  <2>2. Cardinality(Fibre(g, S, w)) = Cardinality(Fibre(f, S, w)) - 1
    BY <1>1, <2>1, FS_RemoveElement
  <2> QED BY <1>1, <1>3, <2>2
<1>4. CASE w # g[x] /\ w # f[x]
  <2>1. Fibre(g, S, w) = Fibre(f, S, w)
    BY <1>4 DEF Fibre, DifferAt
  <2> QED BY <1>4, <2>1
<1> QED BY <1>2, <1>3, <1>4

(* Leaving x out of S takes one away from the fibre it is in.               *)
LEMMA FibreWithout ==
    ASSUME NEW S, IsFiniteSet(S), NEW f, NEW x \in S, NEW w
    PROVE  Cardinality(Fibre(f, S \ {x}, w)) =
              IF w = f[x] THEN Cardinality(Fibre(f, S, w)) - 1
                          ELSE Cardinality(Fibre(f, S, w))
<1>1. IsFiniteSet(Fibre(f, S, w))
  BY FibreType
<1>2. Fibre(f, S \ {x}, w) = Fibre(f, S, w) \ {x}
  BY DEF Fibre
<1>3. x \in Fibre(f, S, w) <=> w = f[x]
  BY DEF Fibre
<1> QED BY <1>1, <1>2, <1>3, FS_RemoveElement

-----------------------------------------------------------------------------
(* Vectors. *)

LEMMA VectorSize ==
    ASSUME NEW n \in Nat, NEW v, DOMAIN v = 0 .. n-1
    PROVE  Size(v) = n
  BY FS_Interval DEF Size

(* The move of hash g to another count in the histogram, as flipBit does    *)
(* it: the entry of its old count down, that of its new one up, and the     *)
(* length changed to what the new counts need.                              *)
IsMove(cs2, hs, hs2, g, n2) ==
    /\ n2 \in 1 .. nKeys+1
    /\ \A h \in Hashes : hs2[h] < n2
    /\ \E h \in Hashes : hs2[h] = n2-1
    /\ cs2 \in [0 .. n2-1 -> Int]
    /\ \A c \in 0 .. n2-1 :
          cs2[c] = Cardinality(Fibre(hs, Hashes, c))
                     + (IF c = hs2[g] THEN 1 ELSE 0) - (IF c = hs[g] THEN 1 ELSE 0)

LEMMA HistogramMove ==
    ASSUME NEW hs, NEW hs2, NEW g, DifferAt(hs, hs2, Hashes, g),
           NEW cs2, NEW n2, IsMove(cs2, hs, hs2, g, n2)
    PROVE  IsHistogram(cs2, hs2)
<1>1. \A c \in 0 .. n2-1 : cs2[c] = Cardinality(Fibre(hs2, Hashes, c))
  <2> SUFFICES ASSUME NEW c \in 0 .. n2-1
               PROVE  cs2[c] = Cardinality(Fibre(hs2, Hashes, c))
    OBVIOUS
  <2>1. Cardinality(Fibre(hs, Hashes, c)) \in Nat
    BY HashesFinite, FibreType, FS_CardinalityType
  <2>2. /\ c = hs2[g] => Cardinality(Fibre(hs2, Hashes, c)) =
                            Cardinality(Fibre(hs, Hashes, c)) + 1
        /\ c = hs[g] => Cardinality(Fibre(hs2, Hashes, c)) =
                           Cardinality(Fibre(hs, Hashes, c)) - 1
        /\ c # hs2[g] /\ c # hs[g] => Cardinality(Fibre(hs2, Hashes, c)) =
                                         Cardinality(Fibre(hs, Hashes, c))
    BY ONLY HashesFinite, DifferAt(hs, hs2, Hashes, g), FibreMove
  <2>3. hs[g] # hs2[g]
    BY DEF DifferAt
  <2> QED BY <2>1, <2>2, <2>3 DEF IsMove
<1>2. cs2 = [c \in 0 .. n2-1 |-> Cardinality(Fibre(hs2, Hashes, c))]
  BY <1>1 DEF IsMove
<1> QED BY <1>2 DEF IsHistogram, IsMove

-----------------------------------------------------------------------------
(* The inductive invariant: TypeOK and Coherent strengthen each other.      *)

IInv == TypeOK /\ Coherent

(* The values sync() computes have the right types.                         *)
LEMMA ComputedType ==
    ASSUME NEW l \in Luts, NEW p, NEW ks, NEW hs, NEW cs,
           Computed(l, p, ks, hs, cs)
    PROVE  /\ p \in Luts
           /\ ks \in [KeyIds -> Hashes]
           /\ hs \in [Hashes -> 0 .. nKeys]
           /\ \E n \in 1 .. nKeys+1 : cs \in [0 .. n-1 -> Nat]
           /\ \A k \in KeyIds : ks[k] = HashOf(l, Key[k])
           /\ \A h \in Hashes : hs[h] = Cardinality(Fibre(ks, KeyIds, h))
           /\ IsHistogram(cs, hs)
<1>1. ks \in [KeyIds -> Hashes]
  BY HashType DEF Computed, KeysIn
<1>2. \A h \in Hashes : Cardinality(Fibre(ks, KeyIds, h)) \in 0 .. nKeys
  BY KeyIdsFinite, FibreType
<1>3. hs = [h \in Hashes |-> Cardinality(Fibre(ks, KeyIds, h))]
  BY DEF Computed, HashCounts
<1>4. hs \in [Hashes -> 0 .. nKeys]
  BY <1>2, <1>3
<1>5. IsHistogram(cs, hs)
  BY DEF Computed
<1>6. \A c : Cardinality(Fibre(hs, Hashes, c)) \in Nat
  BY HashesFinite, FibreType, FS_CardinalityType
<1>7. \E n \in 1 .. nKeys+1 : cs \in [0 .. n-1 -> Nat]
  BY <1>5, <1>6 DEF IsHistogram
<1> QED BY <1>1, <1>3, <1>4, <1>5, <1>7 DEF Computed, KeysIn

LEMMA InitIInv == Init => IInv
<1> SUFFICES ASSUME Init PROVE IInv
  OBVIOUS
<1>1. \A k \in KeyIds : HashNow(k) = HashOf(lut, Key[k])
  BY DEF Init, HashNow
<1>2. Counted = KeyIds
  BY DEF Init, Counted
<1>3. Computed(lut, packedBits, keys, hashes, counts) /\ lut \in Luts
  BY DEF Init
<1>4. TypeOK
  BY <1>3, ComputedType DEF Init, TypeOK
<1>5. Coherent
  <2>1. packedBits = lut
    BY <1>3 DEF Computed
  <2> QED BY <1>1, <1>2, <1>3, <2>1, ComputedType DEF Coherent
<1> QED BY <1>4, <1>5 DEF IInv

LEMMA BeginFlipIInv ==
    ASSUME IInv, NEW b \in LutBits, BeginFlip(b)
    PROVE  IInv'
<1>1. pc = "idle" /\ pc' = "move" /\ todo = {} /\ todo' = KeysOf(b) /\ flip' = b
  BY DEF IInv, TypeOK, BeginFlip
<1>2. lut \in Luts /\ packedBits = lut /\ lut' = Flipped(lut, b)
  BY <1>1 DEF IInv, TypeOK, Coherent, BeginFlip
<1>3. lut' \in Luts /\ packedBits' = lut'
  BY <1>2 DEF BeginFlip, Flipped, Luts
<1>4. UNCHANGED <<keys, hashes, counts>>
  BY DEF BeginFlip
<1>5. TypeOK'
  BY <1>1, <1>3, <1>4 DEF IInv, TypeOK
<1>6. \A k \in KeyIds : HashNow(k)' = HashNow(k)
  <2> SUFFICES ASSUME NEW k \in KeyIds PROVE HashNow(k)' = HashNow(k)
    OBVIOUS
  <2> DEFINE h == HashOf(lut, Key[k])
  <2>1. h \in Hashes
    BY <1>2, HashType
  <2>2. /\ b[1] \in Tables
        /\ HashOf(lut', Key[k]) = IF k \in KeysOf(b) THEN Flipped(h, b[1]) ELSE h
    BY <1>2, FlipMovesItsKeys
  <2>3. HashNow(k) = h
    BY <1>1 DEF HashNow
  <2>4. HashNow(k)' = IF k \in KeysOf(b) THEN Flipped(HashOf(lut', Key[k]), b[1])
                                         ELSE HashOf(lut', Key[k])
    BY <1>1 DEF HashNow
  <2> HIDE DEF h
  <2>5. Flipped(Flipped(h, b[1]), b[1]) = h
    BY <2>1, <2>2, FlippedHash
  <2> QED BY <2>2, <2>3, <2>4, <2>5
<1>7. Counted = KeyIds /\ Counted' = KeyIds
  BY <1>1 DEF Counted
<1>8. Coherent'
  BY <1>1, <1>3, <1>4, <1>6, <1>7 DEF IInv, Coherent
<1> QED BY <1>5, <1>8 DEF IInv

(* The counters at a key's old hash, before the key leaves it.              *)
LEMMA OldHashCounted ==
    ASSUME IInv, pc = "move", NEW k \in todo
    PROVE  /\ k \in KeyIds
           /\ keys[k] \in Hashes
           /\ hashes[keys[k]] \in DOMAIN counts
           /\ hashes[keys[k]] \in 1 .. nKeys
           /\ counts[hashes[keys[k]]] > 0
<1>1. k \in KeyIds /\ keys[k] \in Hashes /\ hashes[keys[k]] \in 0 .. nKeys
  BY DEF IInv, TypeOK, KeysOf
<1>2. hashes[keys[k]] = Cardinality(Fibre(keys, KeyIds, keys[k]))
  BY <1>1 DEF IInv, Coherent, Counted
<1>3. hashes[keys[k]] # 0
  BY <1>1, <1>2, KeyIdsFinite, FibreType
<1>4. PICK n \in 1 .. nKeys+1 :
         /\ hashes[keys[k]] < n
         /\ counts = [c \in 0 .. n-1 |-> Cardinality(Fibre(hashes, Hashes, c))]
  BY <1>1 DEF IInv, Coherent, IsHistogram
<1>5. hashes[keys[k]] \in 0 .. n-1
  BY <1>1, <1>4
<1>6. counts[hashes[keys[k]]] = Cardinality(Fibre(hashes, Hashes, hashes[keys[k]]))
  BY <1>4, <1>5
<1>7. counts[hashes[keys[k]]] # 0 /\ counts[hashes[keys[k]]] \in Nat
  BY <1>1, <1>6, HashesFinite, FibreType, FS_CardinalityType
<1> QED BY <1>1, <1>3, <1>4, <1>5, <1>7

(* The counters at the key's new hash, before the key arrives there.        *)
LEMMA NewHashCounted ==
    ASSUME IInv, pc = "add"
    PROVE  LET h == Flipped(keys[cur], flip[1])
           IN  /\ cur \in KeyIds
               /\ h \in Hashes
               /\ h = HashOf(lut, Key[cur])
               /\ hashes[h] \in DOMAIN counts
               /\ hashes[h] + 1 \in 1 .. nKeys
               /\ counts[hashes[h]] > 0
<1> DEFINE h == Flipped(keys[cur], flip[1])
<1>1. cur \in todo /\ cur \in KeyIds /\ flip \in LutBits /\ lut \in Luts
  BY DEF IInv, TypeOK, KeysOf
<1>2. HashOf(lut, Key[cur]) \in Hashes /\ flip[1] \in Tables
  BY <1>1, HashType, FlipMovesItsKeys
<1>3. keys[cur] = Flipped(HashOf(lut, Key[cur]), flip[1])
  BY <1>1 DEF IInv, Coherent, HashNow
<1>4. h = HashOf(lut, Key[cur]) /\ h \in Hashes
  BY <1>2, <1>3, FlippedHash
<1> HIDE DEF h
<1>5. hashes[h] = Cardinality(Fibre(keys, KeyIds \ {cur}, h)) /\ hashes[h] \in 0 .. nKeys
  BY <1>4 DEF IInv, TypeOK, Coherent, Counted
<1>6. hashes[h] <= nKeys - 1
  <2>1. IsFiniteSet(KeyIds \ {cur}) /\ Cardinality(KeyIds \ {cur}) = nKeys - 1
    BY <1>1, KeyIdsFinite, FS_RemoveElement
  <2>2. Cardinality(Fibre(keys, KeyIds \ {cur}, h)) \in 0 .. Cardinality(KeyIds \ {cur})
    BY <2>1, FibreType
  <2> QED BY <1>5, <2>1, <2>2, HashProblemAssumption
<1>7. PICK n \in 1 .. nKeys+1 :
         /\ hashes[h] < n
         /\ counts = [c \in 0 .. n-1 |-> Cardinality(Fibre(hashes, Hashes, c))]
  BY <1>4 DEF IInv, Coherent, IsHistogram
<1>8. hashes[h] \in 0 .. n-1
  BY <1>5, <1>7
<1>9. counts[hashes[h]] = Cardinality(Fibre(hashes, Hashes, hashes[h]))
  BY <1>7, <1>8
<1>10. counts[hashes[h]] # 0 /\ counts[hashes[h]] \in Nat
  BY <1>4, <1>9, HashesFinite, FibreType, FS_CardinalityType
<1>11. hashes[h] \in DOMAIN counts /\ counts[hashes[h]] > 0
  BY <1>7, <1>8, <1>10
<1>12. hashes[h] + 1 \in 1 .. nKeys
  BY <1>5, <1>6, HashProblemAssumption
<1> QED BY <1>1, <1>4, <1>11, <1>12 DEF h

(* Taking key k off its hash leaves an exact histogram: at most the last    *)
(* entry of counts becomes 0, and then the one before it does not.          *)
LEMMA RemoveOldHistogram ==
    ASSUME IInv, NEW k \in KeyIds, RemoveOld(k)
    PROVE  IsHistogram(counts', hashes') /\ hashes' \in [Hashes -> 0 .. nKeys]
<1> DEFINE h0 == keys[k]
           c  == hashes[h0]
           dec == [counts EXCEPT ![c] = @ - 1]
           trimmed == IF dec[c] = 0 /\ c + 1 = Size(dec)
                        THEN Resize(dec, c) ELSE dec
<1>1. pc = "move" /\ k \in todo
  BY DEF RemoveOld
<1>2. h0 \in Hashes /\ c \in 1 .. nKeys /\ c \in DOMAIN counts /\ counts[c] > 0
  BY <1>1, OldHashCounted
<1>3. hashes \in [Hashes -> 0 .. nKeys]
  BY DEF IInv, TypeOK
<1>4. hashes' = [hashes EXCEPT ![h0] = c - 1] /\ counts' = [trimmed EXCEPT ![c-1] = @ + 1]
  BY DEF RemoveOld
<1>5. PICK n \in 1 .. nKeys+1 :
         /\ \A h \in Hashes : hashes[h] < n
         /\ \E h \in Hashes : hashes[h] = n-1
         /\ counts = [i \in 0 .. n-1 |-> Cardinality(Fibre(hashes, Hashes, i))]
  BY <1>1 DEF IInv, Coherent, IsHistogram
<1> DEFINE n2 == IF counts[c] = 1 /\ c + 1 = n THEN c ELSE n
<1> HIDE DEF h0, c
<1>6. c \in 0 .. n-1 /\ c \in 1 .. nKeys /\ c < n /\ n \in Nat /\ nKeys \in Nat
  BY <1>2, <1>5, HashProblemAssumption
<1>7. /\ DOMAIN dec = 0 .. n-1
      /\ \A i \in 0 .. n-1 : dec[i] = IF i = c THEN counts[i] - 1 ELSE counts[i]
  BY <1>5
<1> HIDE DEF dec
<1>8. Size(dec) = n
  BY <1>6, <1>7, VectorSize
<1>9. \A i \in 0 .. n-1 : counts[i] = Cardinality(Fibre(hashes, Hashes, i)) /\ counts[i] \in Nat
  BY <1>5, HashesFinite, FibreType, FS_CardinalityType
<1>10. dec[c] = 0 <=> counts[c] = 1
  BY <1>6, <1>7, <1>9
<1>11. n2 \in 1 .. nKeys+1 /\ n2 <= n /\ c - 1 < n2
  BY <1>6
<1>12. /\ trimmed \in [0 .. n2-1 -> Int]
       /\ \A i \in 0 .. n2-1 : trimmed[i] = dec[i]
  <2>1. CASE counts[c] = 1 /\ c + 1 = n
    <3>1. n2 = c /\ trimmed = Resize(dec, c)
      BY <1>8, <1>10, <2>1
    <3>2. \A i \in 0 .. c-1 : i \in DOMAIN dec /\ dec[i] \in Int
      BY <1>6, <1>7, <1>9
    <3> QED BY <3>1, <3>2 DEF Resize
  <2>2. CASE ~(counts[c] = 1 /\ c + 1 = n)
    <3>1. n2 = n /\ trimmed = dec
      BY <1>8, <1>10, <2>2
    <3>2. dec \in [0 .. n-1 -> Int]
      BY <1>5, <1>6, <1>9 DEF dec
    <3> QED BY <3>1, <3>2
  <2> QED BY <2>1, <2>2
<1> HIDE DEF trimmed
<1>13. \A i \in 0 .. n2-1 : counts'[i] = IF i = c-1 THEN trimmed[i] + 1 ELSE trimmed[i]
  BY <1>4, <1>12
<1>14. \A i \in 0 .. n2-1 :
          counts'[i] = (IF i \in 0 .. n-1 THEN counts[i] ELSE 0)
                         + (IF i = c-1 THEN 1 ELSE 0) - (IF i = c THEN 1 ELSE 0)
  BY <1>6, <1>7, <1>9, <1>11, <1>12, <1>13
<1>15. hashes'[h0] = c - 1 /\ \A h \in Hashes : h # h0 => hashes'[h] = hashes[h]
  BY <1>2, <1>3, <1>4
<1>16. hashes[h0] = c /\ DifferAt(hashes, hashes', Hashes, h0)
  BY <1>2, <1>6, <1>15 DEF c, DifferAt
<1>17. \A h \in Hashes : hashes'[h] < n2
  <2>1. CASE counts[c] = 1 /\ c + 1 = n
    \* Only h0 had the count c, the largest there was.
    <3>1. Cardinality(Fibre(hashes, Hashes, c)) = 1
      BY <1>6, <1>9, <2>1
    <3>2. Cardinality(Fibre(hashes', Hashes, c)) = Cardinality(Fibre(hashes, Hashes, c)) - 1
      BY <1>6, <1>15, <1>16, HashesFinite, FibreMove
    <3>3. \A h \in Hashes : hashes'[h] # c
      BY <3>1, <3>2, HashesFinite, FibreType
    <3>4. \A h \in Hashes : hashes'[h] \in 0 .. c
      BY <1>3, <1>5, <1>6, <1>15, <2>1
    <3> QED BY <1>6, <2>1, <3>3, <3>4
  <2>2. CASE ~(counts[c] = 1 /\ c + 1 = n)
    BY <1>3, <1>5, <1>6, <1>15, <2>2
  <2> QED BY <2>1, <2>2
<1>18. \E h \in Hashes : hashes'[h] = n2 - 1
  <2>1. CASE counts[c] = 1 /\ c + 1 = n
    BY <1>2, <1>15, <2>1
  <2>2. CASE counts[c] # 1 /\ c + 1 = n
    \* Another hash still has the count c.
    <3>1. Cardinality(Fibre(hashes, Hashes, c)) # 1
      BY <1>6, <1>9, <2>2
    <3>2. Cardinality(Fibre(hashes', Hashes, c)) = Cardinality(Fibre(hashes, Hashes, c)) - 1
      BY <1>6, <1>15, <1>16, HashesFinite, FibreMove
    <3>3. Cardinality(Fibre(hashes', Hashes, c)) # 0
      BY <1>6, <1>9, <3>1, <3>2
    <3>4. \E h \in Hashes : hashes'[h] = c
      BY <3>3, HashesFinite, FibreType
    <3> QED BY <1>6, <2>2, <3>4
  <2>3. CASE c + 1 # n
    <3>1. PICK h \in Hashes : hashes[h] = n-1
      BY <1>5
    <3>2. h # h0
      BY <1>6, <1>16, <2>3, <3>1
    <3> QED BY <1>15, <2>3, <3>1, <3>2
  <2> QED BY <2>1, <2>2, <2>3
<1>19. c - 1 \in 0 .. nKeys /\ c # c - 1
  BY <1>6
<1> HIDE DEF n2
<1>20. counts' \in [0 .. n2-1 -> Int]
  <2>1. trimmed[c-1] \in Int
    BY <1>6, <1>11, <1>12
  <2>2. trimmed[c-1] + 1 \in Int /\ trimmed \in [0 .. n2-1 -> Int]
    BY <1>12, <2>1
  <2>3. counts' = [trimmed EXCEPT ![c-1] = trimmed[c-1] + 1]
    BY <1>4
  <2> QED BY ONLY <2>2, <2>3
<1>21. \A i \in 0 .. n2-1 :
          counts'[i] = Cardinality(Fibre(hashes, Hashes, i))
                         + (IF i = hashes'[h0] THEN 1 ELSE 0)
                         - (IF i = hashes[h0] THEN 1 ELSE 0)
  <2> SUFFICES ASSUME NEW i \in 0 .. n2-1
               PROVE  counts'[i] = Cardinality(Fibre(hashes, Hashes, i))
                                     + (IF i = hashes'[h0] THEN 1 ELSE 0)
                                     - (IF i = hashes[h0] THEN 1 ELSE 0)
    OBVIOUS
  <2>1. i \in 0 .. n-1 /\ counts[i] = Cardinality(Fibre(hashes, Hashes, i))
    BY <1>6, <1>9, <1>11
  <2> QED BY <1>14, <1>15, <1>16, <2>1
<1>22. IsHistogram(counts', hashes')
  <2>1. IsMove(counts', hashes, hashes', h0, n2)
    BY <1>11, <1>17, <1>18, <1>20, <1>21 DEF IsMove
  <2> QED BY <1>16, <2>1, HistogramMove
<1>23. hashes' \in [Hashes -> 0 .. nKeys]
  BY <1>3, <1>4, <1>19
<1> QED BY <1>22, <1>23

LEMMA RemoveOldIInv ==
    ASSUME IInv, NEW k \in KeyIds, RemoveOld(k)
    PROVE  IInv'
<1>1. /\ pc = "move" /\ pc' = "add" /\ k \in todo /\ cur' = k
      /\ UNCHANGED <<lut, packedBits, keys, flip, todo>>
  BY DEF RemoveOld
<1>2. IsHistogram(counts', hashes') /\ hashes' \in [Hashes -> 0 .. nKeys]
  BY RemoveOldHistogram
<1>3. TypeOK'
  <2>1. \A c : Cardinality(Fibre(hashes', Hashes, c)) \in Nat
    BY HashesFinite, FibreType, FS_CardinalityType
  <2>2. \E n \in 1 .. nKeys+1 : counts' \in [0 .. n-1 -> Nat]
    BY <1>2, <2>1 DEF IsHistogram
  <2> QED BY <1>1, <1>2, <2>2 DEF IInv, TypeOK
<1>4. \A j \in KeyIds : HashNow(j)' = HashNow(j)
  BY <1>1 DEF HashNow
<1>5. \A h \in Hashes : hashes'[h] = Cardinality(Fibre(keys, KeyIds \ {k}, h))
  <2> SUFFICES ASSUME NEW h \in Hashes
               PROVE  hashes'[h] = Cardinality(Fibre(keys, KeyIds \ {k}, h))
    OBVIOUS
  <2>1. hashes[h] = Cardinality(Fibre(keys, KeyIds, h))
    BY <1>1 DEF IInv, Coherent, Counted
  <2>2. Cardinality(Fibre(keys, KeyIds \ {k}, h)) =
           IF h = keys[k] THEN hashes[h] - 1 ELSE hashes[h]
    BY <2>1, KeyIdsFinite, FibreWithout
  <2>3. hashes \in [Hashes -> 0 .. nKeys] /\ keys[k] \in Hashes
    BY <1>1 DEF IInv, TypeOK
  <2>4. hashes'[h] = IF h = keys[k] THEN hashes[h] - 1 ELSE hashes[h]
    BY <2>3 DEF RemoveOld
  <2> QED BY <2>2, <2>4
<1>6. Counted' = KeyIds \ {k}
  BY <1>1 DEF Counted
<1>7. Coherent'
  BY <1>1, <1>2, <1>4, <1>5, <1>6 DEF IInv, Coherent
<1> QED BY <1>3, <1>7 DEF IInv

(* Counting the key at its new hash: counts grows by at most one entry, and *)
(* is still as long as the largest count needs.                             *)
LEMMA AddNewHistogram ==
    ASSUME IInv, AddNew
    PROVE  IsHistogram(counts', hashes') /\ hashes' \in [Hashes -> 0 .. nKeys]
<1> DEFINE h0 == Flipped(keys[cur], flip[1])
           c  == hashes[h0] + 1
           dec == [counts EXCEPT ![c-1] = @ - 1]
           grown == IF c = Size(dec) THEN Resize(dec, c + 1) ELSE dec
<1>1. pc = "add"
  BY DEF AddNew
<1>2. h0 \in Hashes /\ c \in 1 .. nKeys
  BY <1>1, NewHashCounted
<1>3. hashes \in [Hashes -> 0 .. nKeys]
  BY DEF IInv, TypeOK
<1>4. hashes' = [hashes EXCEPT ![h0] = c] /\ counts' = [grown EXCEPT ![c] = @ + 1]
  BY DEF AddNew
<1>5. PICK n \in 1 .. nKeys+1 :
         /\ \A h \in Hashes : hashes[h] < n
         /\ \E h \in Hashes : hashes[h] = n-1
         /\ counts = [i \in 0 .. n-1 |-> Cardinality(Fibre(hashes, Hashes, i))]
  BY <1>1 DEF IInv, Coherent, IsHistogram
<1> DEFINE n2 == IF c = n THEN c + 1 ELSE n
<1>6. hashes[h0] = c - 1 /\ hashes[h0] \in Nat
  BY <1>2, <1>3
<1> HIDE DEF h0, c
<1>7. c <= n /\ c - 1 \in 0 .. n-1 /\ c \in Nat /\ n \in Nat /\ nKeys \in Nat
  BY <1>2, <1>5, <1>6, HashProblemAssumption
<1>8. \A i \in 0 .. n-1 : counts[i] = Cardinality(Fibre(hashes, Hashes, i)) /\ counts[i] \in Nat
  BY <1>5, HashesFinite, FibreType, FS_CardinalityType
<1>9. /\ dec \in [0 .. n-1 -> Int]
      /\ \A i \in 0 .. n-1 : dec[i] = IF i = c-1 THEN counts[i] - 1 ELSE counts[i]
  BY <1>5, <1>7, <1>8
<1> HIDE DEF dec
<1>10. Size(dec) = n
  BY <1>7, <1>9, VectorSize
<1>11. n2 \in 1 .. nKeys+1 /\ n <= n2 /\ c < n2
  BY <1>2, <1>7
<1>12. /\ grown \in [0 .. n2-1 -> Int]
       /\ \A i \in 0 .. n2-1 : grown[i] = IF i \in 0 .. n-1 THEN dec[i] ELSE 0
  <2>1. CASE c = n
    <3>1. n2 = n + 1 /\ grown = Resize(dec, n + 1)
      BY <1>10, <2>1
    <3>2. Resize(dec, n + 1) = [i \in 0 .. n |-> IF i \in 0 .. n-1 THEN dec[i] ELSE 0]
      BY <1>7, <1>9 DEF Resize
    <3> QED BY <1>7, <1>9, <3>1, <3>2
  <2>2. CASE c # n
    BY <1>9, <1>10, <2>2
  <2> QED BY <2>1, <2>2
<1> HIDE DEF grown
<1>13. counts' \in [0 .. n2-1 -> Int]
  <2>1. grown[c] \in Int
    BY <1>7, <1>11, <1>12
  <2>2. grown[c] + 1 \in Int /\ grown \in [0 .. n2-1 -> Int]
    BY <1>12, <2>1
  <2>3. counts' = [grown EXCEPT ![c] = grown[c] + 1]
    BY <1>4
  <2> QED BY ONLY <2>2, <2>3
<1>14. hashes'[h0] = c /\ \A h \in Hashes : h # h0 => hashes'[h] = hashes[h]
  BY <1>2, <1>3, <1>4
<1>15. DifferAt(hashes, hashes', Hashes, h0)
  BY <1>2, <1>6, <1>7, <1>14 DEF DifferAt
<1>16. \A h \in Hashes : hashes'[h] < n2
  BY <1>5, <1>3, <1>7, <1>11, <1>14
<1>17. \E h \in Hashes : hashes'[h] = n2 - 1
  <2>1. CASE c = n
    BY <1>2, <1>7, <1>14, <2>1
  <2>2. CASE c # n
    <3>1. PICK h \in Hashes : hashes[h] = n-1
      BY <1>5
    <3>2. h # h0
      BY <1>6, <1>7, <2>2, <3>1
    <3> QED BY <1>14, <2>2, <3>1, <3>2
  <2> QED BY <2>1, <2>2
<1> HIDE DEF n2
<1>18. \A i \in 0 .. n2-1 :
          counts'[i] = Cardinality(Fibre(hashes, Hashes, i))
                         + (IF i = hashes'[h0] THEN 1 ELSE 0)
                         - (IF i = hashes[h0] THEN 1 ELSE 0)
  <2> SUFFICES ASSUME NEW i \in 0 .. n2-1
               PROVE  counts'[i] = Cardinality(Fibre(hashes, Hashes, i))
                                     + (IF i = hashes'[h0] THEN 1 ELSE 0)
                                     - (IF i = hashes[h0] THEN 1 ELSE 0)
    OBVIOUS
  <2>1. counts'[i] = IF i = c THEN grown[i] + 1 ELSE grown[i]
    BY <1>4, <1>12
  <2>2. CASE i \in 0 .. n-1
    <3>1. grown[i] = dec[i] /\ counts[i] = Cardinality(Fibre(hashes, Hashes, i))
      BY <1>8, <1>12, <2>2
    <3> QED BY <1>6, <1>7, <1>8, <1>9, <1>14, <2>1, <2>2, <3>1
  <2>3. CASE i \notin 0 .. n-1
    \* The new entry: no hash had this count.
    <3>1. \A h \in Hashes : hashes[h] # i
      BY <1>3, <1>5, <2>3
    <3>2. Cardinality(Fibre(hashes, Hashes, i)) = 0
      BY <3>1, HashesFinite, FibreType
    <3>3. grown[i] = 0 /\ i # c - 1
      BY <1>7, <1>12, <2>3
    <3> QED BY <1>6, <1>14, <2>1, <3>2, <3>3
  <2> QED BY <2>2, <2>3
<1>19. IsHistogram(counts', hashes')
  <2>1. IsMove(counts', hashes, hashes', h0, n2)
    BY <1>11, <1>13, <1>16, <1>17, <1>18 DEF IsMove
  <2> QED BY <1>15, <2>1, HistogramMove
<1>20. hashes' \in [Hashes -> 0 .. nKeys]
  BY <1>2, <1>3, <1>4
<1> QED BY <1>19, <1>20

LEMMA AddNewIInv ==
    ASSUME IInv, AddNew
    PROVE  IInv'
<1> DEFINE h0 == Flipped(keys[cur], flip[1])
<1>1. /\ pc = "add" /\ pc' = "move" /\ todo' = todo \ {cur}
      /\ UNCHANGED <<lut, packedBits, flip>>
      /\ keys' = [keys EXCEPT ![cur] = h0]
  BY DEF AddNew
<1>2. IsHistogram(counts', hashes') /\ hashes' \in [Hashes -> 0 .. nKeys]
  BY AddNewHistogram
<1>3. cur \in KeyIds /\ h0 \in Hashes /\ h0 = HashOf(lut, Key[cur])
  BY <1>1, NewHashCounted
<1>4. TypeOK'
  <2>1. \A c : Cardinality(Fibre(hashes', Hashes, c)) \in Nat
    BY HashesFinite, FibreType, FS_CardinalityType
  <2>2. \E n \in 1 .. nKeys+1 : counts' \in [0 .. n-1 -> Nat]
    BY <1>2, <2>1 DEF IsHistogram
  <2>3. keys' \in [KeyIds -> Hashes]
    BY <1>1, <1>3 DEF IInv, TypeOK
  <2> QED BY <1>1, <1>2, <2>2, <2>3 DEF IInv, TypeOK
<1> HIDE DEF h0
<1>5. \A k \in KeyIds : keys'[k] = HashNow(k)'
  <2> SUFFICES ASSUME NEW k \in KeyIds PROVE keys'[k] = HashNow(k)'
    OBVIOUS
  <2>1. keys[k] = HashNow(k) /\ keys \in [KeyIds -> Hashes]
    BY <1>1 DEF IInv, TypeOK, Coherent
  <2>2. CASE k = cur
    BY <1>1, <1>3, <2>1, <2>2 DEF HashNow
  <2>3. CASE k # cur
    BY <1>1, <1>3, <2>1, <2>3 DEF HashNow
  <2> QED BY <2>2, <2>3
<1>6. \A h \in Hashes : hashes'[h] = Cardinality(Fibre(keys', KeyIds, h))
  <2> SUFFICES ASSUME NEW h \in Hashes
               PROVE  hashes'[h] = Cardinality(Fibre(keys', KeyIds, h))
    OBVIOUS
  <2>1. hashes[h] = Cardinality(Fibre(keys, KeyIds \ {cur}, h))
    BY <1>1 DEF IInv, Coherent, Counted
  <2>2. keys \in [KeyIds -> Hashes] /\ hashes \in [Hashes -> 0 .. nKeys]
    BY DEF IInv, TypeOK
  <2>3. Fibre(keys', KeyIds \ {cur}, h) = Fibre(keys, KeyIds \ {cur}, h)
    BY <1>1, <2>2 DEF Fibre
  <2>4. keys'[cur] = h0
    BY <1>1, <1>3, <2>2
  <2>5. Cardinality(Fibre(keys', KeyIds \ {cur}, h)) =
           IF h = h0 THEN Cardinality(Fibre(keys', KeyIds, h)) - 1
                     ELSE Cardinality(Fibre(keys', KeyIds, h))
    BY <1>3, <2>4, KeyIdsFinite, FibreWithout
  <2>6. Cardinality(Fibre(keys', KeyIds, h)) \in Nat
    BY KeyIdsFinite, FibreType, FS_CardinalityType
  <2>7. hashes'[h] = IF h = h0 THEN hashes[h] + 1 ELSE hashes[h]
    BY <1>3, <2>2 DEF AddNew, h0
  <2> QED BY <2>1, <2>2, <2>3, <2>5, <2>6, <2>7
<1>7. Counted' = KeyIds
  BY <1>1 DEF Counted
<1>8. packedBits = lut
  BY <1>1 DEF IInv, Coherent
<1>9. Coherent'
  BY <1>1, <1>2, <1>5, <1>6, <1>7, <1>8 DEF Coherent
<1> QED BY <1>4, <1>9 DEF IInv

LEMMA EndFlipIInv ==
    ASSUME IInv, EndFlip
    PROVE  IInv'
<1>1. /\ pc = "move" /\ pc' = "idle" /\ todo = {} /\ flip' = NoFlip
      /\ UNCHANGED <<lut, packedBits, keys, hashes, counts, todo, cur>>
  BY DEF EndFlip
<1>2. TypeOK'
  BY <1>1 DEF IInv, TypeOK
<1>3. (\A k \in KeyIds : HashNow(k)' = HashNow(k)) /\ Counted' = Counted
  BY <1>1 DEF HashNow, Counted
<1>4. Coherent'
  BY <1>1, <1>3 DEF IInv, Coherent
<1> QED BY <1>2, <1>4 DEF IInv

LEMMA AssignIInv ==
    ASSUME IInv, NEW l \in Luts, Assign(l)
    PROVE  IInv'
<1>1. TypeOK'
  BY DEF IInv, TypeOK, Assign
<1>2. Coherent'
  BY DEF Assign, Coherent
<1> QED BY <1>1, <1>2 DEF IInv

LEMMA SyncIInv ==
    ASSUME IInv, sync
    PROVE  IInv'
<1>1. /\ pc \in {"idle", "stale"} /\ pc' = "idle" /\ lut \in Luts /\ todo = {}
      /\ Computed(lut, packedBits', keys', hashes', counts')
      /\ UNCHANGED <<lut, flip, todo, cur>>
  BY DEF IInv, TypeOK, sync
<1>2. TypeOK'
  BY <1>1, ComputedType DEF IInv, TypeOK
<1>3. Counted' = KeyIds /\ \A k \in KeyIds : HashNow(k)' = HashOf(lut, Key[k])
  BY <1>1 DEF Counted, HashNow
<1>4. packedBits' = lut'
  BY <1>1 DEF Computed
<1>5. Coherent'
  BY <1>1, <1>3, <1>4, ComputedType DEF Coherent
<1> QED BY <1>2, <1>5 DEF IInv

LEMMA NextIInv == IInv /\ [Next]_vars => IInv'
<1> SUFFICES ASSUME IInv, [Next]_vars PROVE IInv'
  OBVIOUS
<1>1. ASSUME NEW b \in LutBits, BeginFlip(b) PROVE IInv'
  BY <1>1, BeginFlipIInv
<1>2. ASSUME NEW k \in KeyIds, RemoveOld(k) PROVE IInv'
  BY <1>2, RemoveOldIInv
<1>3. CASE AddNew
  BY <1>3, AddNewIInv
<1>4. CASE EndFlip
  BY <1>4, EndFlipIInv
<1>5. ASSUME NEW l \in Luts, Assign(l) PROVE IInv'
  BY <1>5, AssignIInv
<1>6. CASE sync
  BY <1>6, SyncIInv
<1>7. CASE UNCHANGED vars
  BY <1>7 DEF vars, IInv, TypeOK, Coherent, Counted, HashNow
<1> QED BY <1>1, <1>2, <1>3, <1>4, <1>5, <1>6, <1>7 DEF Next

(* Types and coherence of the caches together are inductive.                *)
THEOREM Invariance == Spec => []IInv
<1>1. Init => IInv
  BY InitIInv
<1>2. IInv /\ [Next]_vars => IInv'
  BY NextIInv
<1> QED BY <1>1, <1>2, PTL DEF Spec

-----------------------------------------------------------------------------
(* Every variable of an EntryToKey keeps to its type: in particular no      *)
(* counter of hashes or counts ever goes below zero.                        *)
THEOREM TypeCorrect == Spec => []TypeOK
<1>1. IInv => TypeOK
  BY DEF IInv
<1> QED BY <1>1, Invariance, PTL

(* The caches of an EntryToKey (packedBits, keys, hashes, counts) agree     *)
(* with the hash and with each other between any two steps of flipBit.      *)
THEOREM CachesCoherent == Spec => []Coherent
<1>1. IInv => Coherent
  BY DEF IInv
<1> QED BY <1>1, Invariance, PTL

(* flipBit never indexes hashes or counts out of their size, nor decrements *)
(* an unsigned count that is 0.                                             *)
THEOREM FlipIndexSafe == Spec => []IndexSafe
<1>1. IInv => IndexSafe
  <2> SUFFICES ASSUME IInv PROVE IndexSafe
    OBVIOUS
  <2>1. ASSUME NEW k \in KeyIds, pc = "move", k \in todo
        PROVE  /\ hashes[keys[k]] \in DOMAIN counts \ {0}
               /\ counts[hashes[keys[k]]] > 0
    BY <2>1, OldHashCounted
  <2>2. ASSUME pc = "add"
        PROVE  LET h == Flipped(keys[cur], flip[1])
               IN  hashes[h] \in DOMAIN counts /\ counts[hashes[h]] > 0
    BY <2>2, NewHashCounted
  <2> QED BY <2>1, <2>2 DEF IndexSafe
<1> QED BY <1>1, Invariance, PTL

-----------------------------------------------------------------------------
(***************************************************************************)
(* eval() is a sum over counts, evalFull() a number of pairs of a hash and *)
(* a key too many. A part of the sum is the number of the pairs whose hash *)
(* has a count in that part: this satisfies the recursion that defines the *)
(* sum, and nothing else does.                                             *)
(***************************************************************************)
Above(g) == {c \in DOMAIN counts : c > g}

Some(s) == CHOOSE c \in s : TRUE

IsSum(f, g) ==
    f = [s \in SUBSET Above(g) |->
            IF s = {} THEN 0 ELSE counts[Some(s)] * (Some(s) - g) + f[s \ {Some(s)}]]

Sum(g) == CHOOSE f : IsSum(f, g)

LEMMA EvalIsSum == ASSUME NEW g PROVE eval(g) = Sum(g)[Above(g)]
BY DEF eval, MapThenSumSet, MapThenFoldSet, Sum, IsSum, Some, Above

(* The places of keys that are too many, on the hashes with a count in s.   *)
Excess(g, s) ==
    {p \in Hashes \X KeyIds : hashes[p[1]] \in s /\ g <= p[2] /\ p[2] < hashes[p[1]]}

Parts(g) == [s \in SUBSET Above(g) |-> Cardinality(Excess(g, s))]

LEMMA ExcessType ==
    ASSUME NEW g, NEW s
    PROVE  IsFiniteSet(Excess(g, s)) /\ Cardinality(Excess(g, s)) \in Nat
<1>1. Excess(g, s) \in SUBSET (Hashes \X (0 .. nKeys-1))
  BY DEF Excess, KeyIds
<1> QED BY <1>1, PlacesCounted, HashProblemAssumption

(* What a synced object knows about its histogram.                          *)
LEMMA CountsType ==
    ASSUME TypeOK, IsHistogram(counts, hashes), NEW g \in 0 .. nKeys
    PROVE  /\ nKeys \in Nat /\ g \in Nat
           /\ IsFiniteSet(Above(g))
           /\ \A h \in Hashes : hashes[h] \in Nat /\ hashes[h] <= nKeys /\ hashes[h] \in DOMAIN counts
           /\ \A c \in Above(g) :
                 /\ c \in Nat /\ g < c /\ c <= nKeys
                 /\ counts[c] = Cardinality(Fibre(hashes, Hashes, c))
<1>1. nKeys \in Nat /\ hashes \in [Hashes -> 0 .. nKeys]
  BY HashProblemAssumption DEF TypeOK
<1>2. PICK n \in 1 .. nKeys+1 :
         /\ \A h \in Hashes : hashes[h] < n
         /\ counts = [c \in 0 .. n-1 |-> Cardinality(Fibre(hashes, Hashes, c))]
  BY DEF IsHistogram
<1>3. IsFiniteSet(0 .. n-1)
  BY <1>1, FS_Interval
<1>4. Above(g) \in SUBSET (0 .. n-1)
  BY <1>2 DEF Above
<1>5. IsFiniteSet(Above(g))
  BY <1>3, <1>4, FS_Subset
<1>6. \A h \in Hashes : hashes[h] \in Nat /\ hashes[h] <= nKeys /\ hashes[h] \in DOMAIN counts
  BY <1>1, <1>2
<1>7. ASSUME NEW c \in Above(g)
      PROVE  /\ c \in Nat /\ g < c /\ c <= nKeys
             /\ counts[c] = Cardinality(Fibre(hashes, Hashes, c))
  <2>1. c \in 0 .. n-1 /\ c > g
    BY <1>4 DEF Above
  <2> QED BY <1>1, <1>2, <2>1
<1> QED BY <1>1, <1>5, <1>6, <1>7

(* The hashes with c keys have c - g places too many each.                  *)
LEMMA ExcessOfOne ==
    ASSUME TypeOK, IsHistogram(counts, hashes), NEW g \in 0 .. nKeys, NEW c \in Above(g)
    PROVE  Cardinality(Excess(g, {c})) = counts[c] * (c - g)
<1> DEFINE F == Fibre(hashes, Hashes, c)
           R == g .. c-1
<1>1. /\ nKeys \in Nat /\ g \in Nat /\ c \in Nat /\ g < c /\ c <= nKeys
      /\ counts[c] = Cardinality(F)
  BY CountsType
<1>2. IsFiniteSet(F)
  BY HashesFinite, FibreType
<1>3. IsFiniteSet(R) /\ Cardinality(R) = c - g
  <2>1. g \in Int /\ c-1 \in Int /\ ~ (g > c-1) /\ c-1-g+1 = c-g
    BY <1>1
  <2> QED BY <2>1, FS_Interval
<1>4. Excess(g, {c}) = F \X R
  <2>1. ASSUME NEW p \in Excess(g, {c}) PROVE p \in F \X R
    <3>1. /\ p \in Hashes \X KeyIds /\ p[1] \in F
          /\ p[2] \in 0 .. nKeys-1 /\ g <= p[2] /\ p[2] < c
      BY DEF Excess, Fibre, KeyIds
    <3>2. p[2] \in R
      BY <1>1, <3>1
    <3>3. p = <<p[1], p[2]>>
      BY <3>1
    <3> QED BY <3>1, <3>2, <3>3
  <2>2. ASSUME NEW h \in F, NEW k \in R PROVE <<h, k>> \in Excess(g, {c})
    <3>1. h \in Hashes /\ hashes[h] = c
      BY DEF Fibre
    <3>2. k \in 0 .. nKeys-1 /\ g <= k /\ k < c
      BY <1>1
    <3> QED BY <3>1, <3>2 DEF Excess, KeyIds
  <2> HIDE DEF F, R
  <2>3. \A p \in F \X R : p = <<p[1], p[2]>> /\ p[1] \in F /\ p[2] \in R
    OBVIOUS
  <2> QED BY <2>1, <2>2, <2>3
<1>5. Cardinality(F \X R) = Cardinality(F) * Cardinality(R)
  <2> HIDE DEF F, R
  <2> QED BY <1>2, <1>3, FS_Product
<1> HIDE DEF F, R
<1> QED BY <1>1, <1>3, <1>4, <1>5

LEMMA ExcessStep ==
    ASSUME TypeOK, IsHistogram(counts, hashes), NEW g \in 0 .. nKeys,
           NEW s \in SUBSET Above(g), NEW c \in s
    PROVE  Cardinality(Excess(g, s)) = counts[c] * (c - g) + Cardinality(Excess(g, s \ {c}))
<1>1. Excess(g, s) = Excess(g, {c}) \cup Excess(g, s \ {c})
  BY DEF Excess
<1>2. Excess(g, {c}) \cap Excess(g, s \ {c}) = {}
  BY DEF Excess
<1>3. Cardinality(Excess(g, s)) =
         Cardinality(Excess(g, {c})) + Cardinality(Excess(g, s \ {c})) - Cardinality({})
  <2>1. IsFiniteSet(Excess(g, {c})) /\ IsFiniteSet(Excess(g, s \ {c}))
    BY ExcessType
  <2> QED BY <1>1, <1>2, <2>1, FS_Union
<1>4. Cardinality(Excess(g, {c})) = counts[c] * (c - g)
  BY ExcessOfOne
<1>5. Cardinality(Excess(g, {c})) \in Nat /\ Cardinality(Excess(g, s \ {c})) \in Nat
  BY ExcessType
<1> QED BY <1>3, <1>4, <1>5, FS_EmptySet

LEMMA SumIsExcess ==
    ASSUME TypeOK, IsHistogram(counts, hashes), NEW g \in 0 .. nKeys
    PROVE  Sum(g)[Above(g)] = Cardinality(Excess(g, Above(g)))
<1> DEFINE f   == Sum(g)
           S   == Above(g)
           Bad == {s \in SUBSET S : f[s] # Parts(g)[s]}
<1>1. ASSUME NEW s \in SUBSET S
      PROVE  Parts(g)[s] = IF s = {} THEN 0
                           ELSE counts[Some(s)] * (Some(s) - g) + Parts(g)[s \ {Some(s)}]
  <2>1. Parts(g)[s] = Cardinality(Excess(g, s))
    BY DEF Parts
  <2>2. CASE s = {}
    <3>1. Excess(g, s) = {}
      BY <2>2 DEF Excess
    <3> QED BY <2>1, <2>2, <3>1, FS_EmptySet
  <2>3. CASE s # {}
    <3>1. Some(s) \in s
      BY <2>3 DEF Some
    <3>2. Parts(g)[s \ {Some(s)}] = Cardinality(Excess(g, s \ {Some(s)}))
      BY DEF Parts
    <3> QED BY <2>1, <2>3, <3>1, <3>2, ExcessStep
  <2> QED BY <2>2, <2>3
<1>2. IsSum(Parts(g), g)
  <2>1. Parts(g) = [s \in SUBSET S |-> Parts(g)[s]]
    BY DEF Parts
  <2> QED BY <1>1, <2>1 DEF IsSum
<1>3. IsSum(f, g)
  BY <1>2 DEF Sum
<1>4. \A s \in SUBSET S :
         f[s] = IF s = {} THEN 0 ELSE counts[Some(s)] * (Some(s) - g) + f[s \ {Some(s)}]
  BY <1>3 DEF IsSum
<1> HIDE DEF f
<1>5. Bad = {}
  <2> SUFFICES ASSUME Bad # {} PROVE FALSE
    OBVIOUS
  <2>1. IsFiniteSet(S) /\ Bad \in SUBSET (SUBSET S)
    BY CountsType
  <2>2. PICK s \in Bad : \A u \in SUBSET s : u # s => u \notin Bad
    <3> HIDE DEF Bad, S
    <3> QED BY <2>1, SmallestSubset
  <2>3. s \in SUBSET S /\ f[s] # Parts(g)[s]
    OBVIOUS
  <2>4. s # {}
    BY <1>1, <1>4, <2>3
  <2>5. Some(s) \in s
    BY <2>4 DEF Some
  <2>6. s \ {Some(s)} \in SUBSET S /\ s \ {Some(s)} \notin Bad
    BY <2>2, <2>3, <2>5
  <2>7. f[s \ {Some(s)}] = Parts(g)[s \ {Some(s)}]
    BY <2>6
  <2> QED BY <1>1, <1>4, <2>3, <2>4, <2>7
<1> QED BY <1>5 DEF Parts, f

(* For an object that is in sync, eval() needs no look at the keys: it is   *)
(* what evalFull() computes from them, for every group size.                *)
THEOREM EvalAlwaysAgrees == Spec => []EvalAgrees
<1>1. IInv => EvalAgrees
  <2> SUFFICES ASSUME IInv, pc = "idle", NEW g \in 0 .. nKeys
               PROVE  eval(g) = evalFull(lut, g)
    BY DEF EvalAgrees
  <2>1. TypeOK /\ IsHistogram(counts, hashes)
    BY DEF IInv, Coherent
  <2>2. eval(g) = Cardinality(Excess(g, Above(g)))
    BY <2>1, EvalIsSum, SumIsExcess
  <2>3. todo = {} /\ keys \in [KeyIds -> Hashes] /\ hashes \in [Hashes -> 0 .. nKeys]
    BY DEF IInv, TypeOK
  <2>4. keys = KeysIn(lut)
    BY <2>3 DEF IInv, Coherent, HashNow, KeysIn
  <2>5. hashes = HashCounts(KeysIn(lut))
    <3>1. \A h \in Hashes : hashes[h] = Cardinality(Fibre(keys, KeyIds, h))
      BY DEF IInv, Coherent, Counted
    <3> QED BY <2>3, <2>4, <3>1 DEF HashCounts
  <2>6. ASSUME NEW p \in Hashes \X KeyIds, g <= p[2], p[2] < hashes[p[1]]
        PROVE  hashes[p[1]] \in Above(g)
    <3>1. hashes[p[1]] \in DOMAIN counts /\ hashes[p[1]] \in Nat /\ g \in Nat
      BY <2>1, CountsType
    <3>2. p[2] \in Int
      BY HashProblemAssumption DEF KeyIds
    <3>3. hashes[p[1]] > g
      BY <2>6, <3>1, <3>2
    <3> QED BY <3>1, <3>3 DEF Above
  <2>7. Excess(g, Above(g)) = {p \in Hashes \X KeyIds : g <= p[2] /\ p[2] < hashes[p[1]]}
    BY <2>6 DEF Excess
  <2> QED BY <2>2, <2>5, <2>7 DEF evalFull
<1> QED BY <1>1, Invariance, PTL

-----------------------------------------------------------------------------
(***************************************************************************)
(* EntryToKey implements CollisionScore.  A flip is abstractly made when   *)
(* flipBit writes the lut entry; the moves of the keys are stuttering      *)
(* steps, hidden by the histogram not being ready; and the return of       *)
(* flipBit, like sync() after an assignment, is the answer.  The inductive *)
(* invariant makes the answer the right one.                               *)
(***************************************************************************)

(* CollisionScore!HistogramOf, in the words of this module.                 *)
Histogram(l) ==
    [c \in 0 .. nKeys |-> Cardinality(Fibre(HashCounts(KeysIn(l)), Hashes, c))]

(* The instance speaks of the same luts, flips and histograms.              *)
LEMMA SameWords ==
    /\ Abstract!Luts = Luts
    /\ Abstract!LutBits = LutBits
    /\ \A l, b : Abstract!Flipped(l, b) = Flipped(l, b)
    /\ \A l : Abstract!HistogramOf(l) = Histogram(l)
<1>1. Abstract!LutBits = LutBits
  BY DEF Abstract!LutBits, LutBits, Abstract!Tables, Tables, Abstract!Addresses, Addresses
<1>2. Abstract!Luts = Luts
  BY <1>1 DEF Abstract!Luts, Luts
<1>3. \A l, b : Abstract!Flipped(l, b) = Flipped(l, b)
  BY DEF Abstract!Flipped, Flipped
<1>4. \A l : Abstract!HistogramOf(l) = Histogram(l)
  BY DEF Abstract!HistogramOf, Histogram, Abstract!HashCounts, HashCounts,
         Abstract!KeysIn, KeysIn, Abstract!KeyIds, KeyIds, Abstract!Hashes, Hashes,
         Abstract!Tables, Tables, Abstract!HashOf, HashOf, Abstract!Fibre, Fibre,
         Abstract!address, address, Abstract!Cardinality, Cardinality
<1> QED BY <1>1, <1>2, <1>3, <1>4

(* What an idle object offers is the histogram of its hash.                 *)
LEMMA IdleAnswer == IInv /\ pc = "idle" => Offered = Histogram(lut)
<1> SUFFICES ASSUME IInv, pc = "idle"
             PROVE  Offered = Histogram(lut)
  OBVIOUS
<1>1. todo = {} /\ keys \in [KeyIds -> Hashes] /\ hashes \in [Hashes -> 0 .. nKeys]
  BY DEF IInv, TypeOK
<1>2. keys = KeysIn(lut)
  BY <1>1 DEF IInv, Coherent, HashNow, KeysIn
<1>3. \A h \in Hashes : hashes[h] = Cardinality(Fibre(keys, KeyIds, h))
  BY DEF IInv, Coherent, Counted
<1>4. hashes = HashCounts(KeysIn(lut))
  BY <1>1, <1>2, <1>3 DEF HashCounts
<1>5. PICK n \in 1 .. nKeys+1 :
         /\ \A h \in Hashes : hashes[h] < n
         /\ counts = [c \in 0 .. n-1 |-> Cardinality(Fibre(hashes, Hashes, c))]
  BY DEF IInv, Coherent, IsHistogram
<1>6. ASSUME NEW c \in 0 .. nKeys, c \notin DOMAIN counts
      PROVE  Cardinality(Fibre(hashes, Hashes, c)) = 0
  <2>1. c >= n
    BY <1>5, <1>6, HashProblemAssumption
  <2>2. \A h \in Hashes : hashes[h] # c
    BY <1>1, <1>5, <2>1
  <2> QED BY <2>2, HashesFinite, FibreType
<1>7. \A c \in DOMAIN counts : counts[c] = Cardinality(Fibre(hashes, Hashes, c))
  BY <1>5
<1>8. Offered = [c \in 0 .. nKeys |-> Cardinality(Fibre(hashes, Hashes, c))]
  BY <1>6, <1>7 DEF Offered
<1> QED BY <1>4, <1>8 DEF Histogram

LEMMA IdleAnswerNext == IInv' /\ pc' = "idle" => Offered' = Histogram(lut)'
<1>1. (IInv /\ pc = "idle" => Offered = Histogram(lut))'
  BY IdleAnswer, PTL
<1> QED BY <1>1

(* A histogram is not the sentinel.                                         *)
LEMMA HistogramReady == \A l : Histogram(l) # <<"not ready">>
<1>1. \A l : DOMAIN Histogram(l) = 0 .. nKeys
  BY DEF Histogram
<1>2. 0 \in 0 .. nKeys
  BY HashProblemAssumption
<1>3. 0 \notin DOMAIN <<"not ready">>
  OBVIOUS
<1> QED BY <1>1, <1>2, <1>3

LEMMA InitRefines == Init => Abstract!Init
<1> SUFFICES ASSUME Init PROVE Abstract!Init
  OBVIOUS
<1>1. Offered = Histogram(lut)
  BY InitIInv, IdleAnswer DEF Init
<1> QED BY <1>1, SameWords DEF Init, Abstract!Init

(* A step to the sentinel: the abstract flip, and the abstract replacement. *)
LEMMA BeginFlipRefines ==
    ASSUME IInv, NEW b \in LutBits, BeginFlip(b)
    PROVE  Abstract!Flip(b)
<1>1. pc = "idle" /\ pc' = "move" /\ lut' = Flipped(lut, b)
  BY DEF BeginFlip
<1>2. Offered = Histogram(lut)
  BY <1>1, IdleAnswer
<1>3. Offered' = <<"not ready">>
  BY <1>1 DEF Offered
<1> QED BY <1>1, <1>2, <1>3, SameWords, HistogramReady DEF Abstract!Flip, Abstract!NotReady

LEMMA AssignRefines ==
    ASSUME IInv, NEW l \in Luts, Assign(l)
    PROVE  Abstract!Replace(l)
<1>1. pc = "idle" /\ pc' = "stale" /\ lut' = l
  BY DEF Assign
<1>2. Offered = Histogram(lut)
  BY <1>1, IdleAnswer
<1>3. Offered' = <<"not ready">>
  BY <1>1 DEF Offered
<1> QED BY <1>1, <1>2, <1>3, HistogramReady DEF Abstract!Replace, Abstract!NotReady

(* A step to an idle state, from one that is not: the answer.               *)
LEMMA BecomesIdle ==
    ASSUME IInv', pc # "idle", pc' = "idle", lut' = lut
    PROVE  Abstract!Answer
<1>1. Offered' = Histogram(lut)'
  BY IdleAnswerNext
<1>2. Histogram(lut)' = Histogram(lut')
  BY DEF Histogram
<1>3. Offered = <<"not ready">>
  BY DEF Offered
<1> QED BY <1>1, <1>2, <1>3, SameWords DEF Abstract!Answer, Abstract!NotReady

LEMMA NextRefines == IInv /\ IInv' /\ [Next]_vars => [Abstract!Next]_(Abstract!absVars)
<1> SUFFICES ASSUME IInv, IInv', [Next]_vars
             PROVE  Abstract!Next \/ (lut' = lut /\ Offered' = Offered)
  BY DEF Abstract!absVars
<1>1. ASSUME NEW b \in LutBits, BeginFlip(b) PROVE Abstract!Next
  BY <1>1, BeginFlipRefines, SameWords DEF Abstract!Next
<1>2. ASSUME NEW k \in KeyIds, RemoveOld(k) PROVE lut' = lut /\ Offered' = Offered
  BY <1>2 DEF RemoveOld, Offered
<1>3. CASE AddNew
  BY <1>3 DEF AddNew, Offered
<1>4. CASE EndFlip
  <2>1. pc # "idle" /\ pc' = "idle" /\ lut' = lut
    BY <1>4 DEF EndFlip
  <2> QED BY <2>1, BecomesIdle DEF Abstract!Next
<1>5. ASSUME NEW l \in Luts, Assign(l) PROVE Abstract!Next
  BY <1>5, AssignRefines, SameWords DEF Abstract!Next
<1>6. CASE sync
  <2>1. pc' = "idle" /\ lut' = lut
    BY <1>6 DEF sync
  <2>2. CASE pc # "idle"
    BY <2>1, <2>2, BecomesIdle DEF Abstract!Next
  <2>3. CASE pc = "idle"
    <3>1. Offered = Histogram(lut)
      BY <2>3, IdleAnswer
    <3>2. Offered' = Histogram(lut)'
      BY <2>1, IdleAnswerNext
    <3>3. Histogram(lut)' = Histogram(lut)
      BY <2>1 DEF Histogram
    <3> QED BY <2>1, <3>1, <3>2, <3>3
  <2> QED BY <2>2, <2>3
<1>7. CASE UNCHANGED vars
  BY <1>7 DEF vars, Offered
<1> QED BY <1>1, <1>2, <1>3, <1>4, <1>5, <1>6, <1>7 DEF Next

(* EntryToKey implements CollisionScore: whatever flips, assignments and    *)
(* syncs a search makes, an idle object answers with the histogram of the   *)
(* hash as it stands, and there is no answer in the middle of a flip.       *)
THEOREM Implements == Spec => ImplementsScore
<1>1. Init => Abstract!Init
  BY InitRefines
<1>2. IInv /\ IInv' /\ [Next]_vars => [Abstract!Next]_(Abstract!absVars)
  BY NextRefines
<1> QED BY <1>1, <1>2, Invariance, PTL DEF Spec, ImplementsScore, Abstract!Spec
=============================================================================
