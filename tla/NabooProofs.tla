----------------------------- MODULE NabooProofs -----------------------------
(***************************************************************************)
(* Proofs about the tabu search, for every problem, filter, length of the  *)
(* queue and assignment of words to bits: queue and filter stay in step    *)
(* with the search, and the filter implements a tabu list.                 *)
(***************************************************************************)
EXTENDS Naboo, BitHashProofs, SequenceTheorems

(* A score is a number of keys.                                             *)
LEMMA ScoreType ==
    ASSUME groupSize \in GroupSizes
    PROVE  \A l \in Luts : Score[l] = evalFull(l, groupSize) /\ Score[l] \in Nat
<1> SUFFICES ASSUME NEW l \in Luts PROVE evalFull(l, groupSize) \in Nat
  BY DEF Score, Scores
<1> QED BY PlacesCounted, HashProblemAssumption DEF evalFull, KeyIds

-----------------------------------------------------------------------------
(* Signatures: flipping a bit of a hash flips the parity of exactly the     *)
(* slot bits that the word of that bit has.                                 *)
LEMMA SigType ==
    /\ \A l : toSignature(l) \in Sigs
    /\ \A sig \in Sigs : \A b \in LutBits : FlippedSig(sig, b) \in Sigs
<1>1. \A l : toSignature(l) \in Sigs
  BY DEF toSignature, Sigs, Slots
<1>2. ASSUME NEW sig \in Sigs, NEW b \in LutBits
      PROVE  FlippedSig(sig, b) \in Sigs
  <2>1. \A j \in Subs : sig[j] \in Slots /\ Mix[j][b] \in Slots
    BY NabooAssumption DEF Sigs
  <2> QED BY <2>1 DEF FlippedSig, Sigs, Slots, SymDiff
<1> QED BY <1>1, <1>2

LEMMA Parity ==
    ASSUME NEW l \in Luts, NEW b \in LutBits, NEW M \in SUBSET LutBits
    PROVE  LET n(k) == Cardinality({c \in LutBits : k[c] = 1 /\ c \in M})
           IN  n(Flipped(l, b)) % 2 = 1 <=> 
                  (\/ b \in M /\ n(l) % 2 # 1
                   \/ b \notin M /\ n(l) % 2 = 1)
<1> DEFINE T == {c \in LutBits : l[c] = 1 /\ c \in M}
           U == {c \in LutBits : Flipped(l, b)[c] = 1 /\ c \in M}
<1>1. \A c \in LutBits : Flipped(l, b)[c] = IF c = b THEN 1 - l[c] ELSE l[c]
  BY FlippedLut
<1>2. IsFiniteSet(T) /\ T \subseteq LutBits
  BY LutBitsFinite, FS_Subset
<1>3. Cardinality(T) \in Nat
  BY <1>2, FS_CardinalityType
<1>4. CASE b \notin M
  <2>1. U = T
    BY <1>1, <1>4
  <2> QED BY <1>4, <2>1
<1>5. CASE b \in M /\ l[b] = 1
  <2>1. U = T \ {b} /\ b \in T
    BY <1>1, <1>5
  <2> HIDE DEF T, U
  <2>2. Cardinality(U) = Cardinality(T) - 1
    BY <1>2, <2>1, FS_RemoveElement
  <2>3. Cardinality(U) % 2 = 1 <=> ~ (Cardinality(T) % 2 = 1)
    BY <1>3, <2>2
  <2> QED BY <1>5, <2>3 DEF T, U
<1>6. CASE b \in M /\ l[b] # 1
  <2>1. l[b] = 0
    BY <1>6 DEF Luts
  <2>2. U = T \cup {b} /\ b \notin T
    BY <1>1, <1>6, <2>1
  <2> HIDE DEF T, U
  <2>3. Cardinality(U) = Cardinality(T) + 1
    BY <1>2, <2>2, FS_AddElement
  <2>4. Cardinality(U) % 2 = 1 <=> ~ (Cardinality(T) % 2 = 1)
    BY <1>3, <2>3
  <2> QED BY <1>6, <2>4 DEF T, U
<1> QED BY <1>4, <1>5, <1>6

(* hash_with_flip is the signature of the flipped hash.                     *)
LEMMA FlippedSignature ==
    ASSUME NEW l \in Luts, NEW b \in LutBits
    PROVE  toSignature(Flipped(l, b)) = FlippedSig(toSignature(l), b)
<1> DEFINE n(k, j, s) == Cardinality({c \in LutBits : k[c] = 1 /\ s \in Mix[j][c]})
<1>1. ASSUME NEW j \in Subs, NEW s \in SlotBits
      PROVE  n(Flipped(l, b), j, s) % 2 = 1 <=>
                (\/ s \in Mix[j][b] /\ n(l, j, s) % 2 # 1
                 \/ s \notin Mix[j][b] /\ n(l, j, s) % 2 = 1)
  <2> DEFINE M == {c \in LutBits : s \in Mix[j][c]}
  <2>1. \A k : {c \in LutBits : k[c] = 1 /\ c \in M}
                  = {c \in LutBits : k[c] = 1 /\ s \in Mix[j][c]}
    OBVIOUS
  <2>2. M \in SUBSET LutBits /\ (b \in M <=> s \in Mix[j][b])
    OBVIOUS
  <2> HIDE DEF M
  <2> QED BY <2>1, <2>2, Parity
<1>2. \A j \in Subs : Mix[j][b] \subseteq SlotBits
  BY NabooAssumption DEF Slots
<1>3. ASSUME NEW j \in Subs
      PROVE  {s \in SlotBits : n(Flipped(l, b), j, s) % 2 = 1}
                = SymDiff({s \in SlotBits : n(l, j, s) % 2 = 1}, Mix[j][b])
  <2> HIDE DEF n
  <2> QED BY <1>1, <1>2 DEF SymDiff
<1> QED BY <1>3 DEF toSignature, FlippedSig

-----------------------------------------------------------------------------
(* The words of the signatures of a queue q that select slot s, and the     *)
(* counters that count them.                                                *)
Words(q, s) == {x \in (DOMAIN q) \X Subs : q[x[1]][x[2]] = s}

Selecting(sig, s) == {j \in Subs : sig[j] = s}

LEMMA SubsFinite ==
    ASSUME NEW sig, NEW s
    PROVE  /\ IsFiniteSet(Subs)
           /\ IsFiniteSet(Selecting(sig, s))
           /\ Hits(sig, s) = Cardinality(Selecting(sig, s))
           /\ Hits(sig, s) \in Nat
<1>1. IsFiniteSet(Subs)
  <2>1. Subs = {1} \cup {2} \cup {3}
    BY DEF Subs
  <2> QED BY <2>1, FS_Singleton, FS_Union
<1>2. IsFiniteSet(Selecting(sig, s))
  BY <1>1, FS_Subset DEF Selecting
<1> QED BY <1>1, <1>2, FS_CardinalityType DEF Hits, Selecting

LEMMA WordsFinite ==
    ASSUME NEW q \in Seq(Sigs), NEW s
    PROVE  IsFiniteSet(Words(q, s)) /\ Cardinality(Words(q, s)) \in Nat
<1>1. IsFiniteSet(DOMAIN q)
  <2>1. DOMAIN q = 1 .. Len(q) /\ Len(q) \in Nat
    OBVIOUS
  <2> QED BY <2>1, FS_Interval
<1>2. IsFiniteSet((DOMAIN q) \X Subs)
  BY <1>1, SubsFinite, FS_Product
<1>3. Words(q, s) \in SUBSET ((DOMAIN q) \X Subs)
  BY DEF Words
<1> QED BY <1>2, <1>3, FS_Subset, FS_CardinalityType

(* The words of one place of a queue.                                       *)
LEMMA PlaceCounted ==
    ASSUME NEW n \in Nat, NEW sig, NEW s
    PROVE  /\ IsFiniteSet({n} \X Selecting(sig, s))
           /\ Cardinality({n} \X Selecting(sig, s)) = Hits(sig, s)
<1>1. IsFiniteSet({n}) /\ Cardinality({n}) = 1
  BY FS_Singleton
<1>2. Cardinality({n} \X Selecting(sig, s)) = 1 * Hits(sig, s)
  BY <1>1, SubsFinite, FS_Product
<1> QED BY <1>1, <1>2, SubsFinite, FS_Product

LEMMA WordsAdded ==
    ASSUME NEW q \in Seq(Sigs), NEW sig \in Sigs, NEW s
    PROVE  Cardinality(Words(Append(q, sig), s)) = Cardinality(Words(q, s)) + Hits(sig, s)
<1> DEFINE n    == Len(q) + 1
           last == {n} \X Selecting(sig, s)
<1>1. n \in Nat /\ Append(q, sig) \in Seq(Sigs) /\ Len(Append(q, sig)) = n
  OBVIOUS
<1>2. \A i \in 1 .. n : Append(q, sig)[i] = IF i = n THEN sig ELSE q[i]
  OBVIOUS
<1>3. DOMAIN Append(q, sig) = 1 .. n /\ DOMAIN q = 1 .. Len(q) /\ Len(q) \in Nat
  OBVIOUS
<1>4. Words(Append(q, sig), s) = Words(q, s) \cup last
  <2>1. ASSUME NEW i \in 1 .. n, NEW j \in Subs
        PROVE  <<i, j>> \in Words(Append(q, sig), s) <=> <<i, j>> \in Words(q, s) \cup last
    BY <1>2, <1>3 DEF Words, Selecting
  <2>2. Words(Append(q, sig), s) \subseteq (1 .. n) \X Subs
    BY <1>3 DEF Words
  <2>3. Words(q, s) \cup last \subseteq (1 .. n) \X Subs
    BY <1>3 DEF Words, Selecting
  <2> QED BY <2>1, <2>2, <2>3
<1>5. Words(q, s) \cap last = {}
  BY <1>3 DEF Words
<1> HIDE DEF last
<1>6. IsFiniteSet(last) /\ Cardinality(last) = Hits(sig, s)
  BY <1>1, PlaceCounted DEF last
<1>7. Cardinality(Words(q, s) \cap last) = 0
  BY <1>5, FS_EmptySet
<1>8. /\ IsFiniteSet(Words(q, s)) /\ Cardinality(Words(q, s)) \in Nat
      /\ Hits(sig, s) \in Nat
  BY WordsFinite, SubsFinite
<1>9. Cardinality(Words(Append(q, sig), s))
         = Cardinality(Words(q, s)) + Cardinality(last) - Cardinality(Words(q, s) \cap last)
  BY <1>4, <1>6, <1>8, FS_Union
<1> QED BY <1>6, <1>7, <1>8, <1>9

LEMMA WordsRemoved ==
    ASSUME NEW q \in Seq(Sigs), q # <<>>, NEW s
    PROVE  Cardinality(Words(Tail(q), s)) = Cardinality(Words(q, s)) - Hits(Head(q), s)
<1> DEFINE first == {1} \X Selecting(Head(q), s)
           rest  == {x \in Words(q, s) : x[1] # 1}
           f     == [x \in Words(Tail(q), s) |-> <<x[1] + 1, x[2]>>]
<1>1. Len(q) \in Nat \ {0} /\ DOMAIN q = 1 .. Len(q) /\ q[1] = Head(q)
  OBVIOUS
<1>2. /\ Tail(q) \in Seq(Sigs) /\ DOMAIN Tail(q) = 1 .. Len(q) - 1
      /\ \A i \in 1 .. Len(q) - 1 : Tail(q)[i] = q[i + 1]
  BY <1>1, HeadTailProperties
<1>3. Words(q, s) = first \cup rest /\ first \cap rest = {}
  <2>1. ASSUME NEW i \in 1 .. Len(q), NEW j \in Subs
        PROVE  <<i, j>> \in Words(q, s) <=> <<i, j>> \in first \cup rest
    BY <1>1 DEF Words, Selecting
  <2>2. Words(q, s) \subseteq (1 .. Len(q)) \X Subs
    BY <1>1 DEF Words
  <2>3. first \cup rest \subseteq (1 .. Len(q)) \X Subs
    BY <1>1 DEF Words, Selecting
  <2>4. first \cap rest = {}
    OBVIOUS
  <2> QED BY <2>1, <2>2, <2>3, <2>4
<1>4. f \in Bijection(Words(Tail(q), s), rest)
  <2>1. ASSUME NEW x \in Words(Tail(q), s)
        PROVE  f[x] \in rest
    <3>1. /\ x \in (1 .. Len(q) - 1) \X Subs /\ Tail(q)[x[1]][x[2]] = s
          /\ f[x] = <<x[1] + 1, x[2]>>
      BY <1>2 DEF Words
    <3>2. x[1] + 1 \in 1 .. Len(q) /\ x[1] + 1 # 1 /\ q[x[1] + 1][x[2]] = s
      BY <1>1, <1>2, <3>1
    <3> QED BY <1>1, <3>1, <3>2 DEF Words
  <2>2. ASSUME NEW x \in Words(Tail(q), s), NEW y \in Words(Tail(q), s), f[x] = f[y]
        PROVE  x = y
    <3>1. x \in (1 .. Len(q) - 1) \X Subs /\ y \in (1 .. Len(q) - 1) \X Subs
      BY <1>2 DEF Words
    <3>2. x[1] + 1 = y[1] + 1 /\ x[2] = y[2]
      BY <2>2
    <3> QED BY <3>1, <3>2
  <2>3. ASSUME NEW y \in rest
        PROVE  \E x \in Words(Tail(q), s) : f[x] = y
    <3>1. y \in (1 .. Len(q)) \X Subs /\ y[1] # 1 /\ q[y[1]][y[2]] = s
      BY <1>1 DEF Words
    <3> DEFINE x == <<y[1] - 1, y[2]>>
    <3>2. x \in Words(Tail(q), s)
      BY <1>1, <1>2, <3>1 DEF Words
    <3>3. f[x] = y
      BY <3>1, <3>2
    <3> QED BY <3>2, <3>3
  <2>4. f \in [Words(Tail(q), s) -> rest]
    BY <2>1
  <2> HIDE DEF f, rest
  <2> QED BY <2>2, <2>3, <2>4 DEF Bijection, Injection, Surjection, IsInjective
<1> HIDE DEF first, rest, f
<1>5. IsFiniteSet(rest) /\ Cardinality(rest) = Cardinality(Words(Tail(q), s))
  BY <1>2, <1>4, WordsFinite, FS_Bijection DEF ExistsBijection
<1>6. IsFiniteSet(first) /\ Cardinality(first) = Hits(Head(q), s)
  BY PlaceCounted DEF first
<1>7. Cardinality(first \cap rest) = 0
  BY <1>3, FS_EmptySet
<1>8. Cardinality(Words(q, s)) = Cardinality(first) + Cardinality(rest) - Cardinality(first \cap rest)
  BY <1>3, <1>5, <1>6, FS_Union
<1>9. Cardinality(Words(Tail(q), s)) \in Nat /\ Hits(Head(q), s) \in Nat
  BY <1>2, WordsFinite, SubsFinite
<1> QED BY <1>5, <1>6, <1>7, <1>8, <1>9

-----------------------------------------------------------------------------
(* A score of 0 means that no value is shared by more than groupSize keys.  *)
LEMMA ZeroScore ==
    ASSUME groupSize \in GroupSizes, NEW l \in Luts
    PROVE  Score[l] = 0 <=>
              \A K \in SUBSET KeyIds :
                 Cardinality(K) > groupSize =>
                    \E j, k \in K : HashOf(l, Key[j]) # HashOf(l, Key[k])
<1> DEFINE ks   == KeysIn(l)
           hits == HashCounts(ks)
           P    == {p \in Hashes \X KeyIds : groupSize <= p[2] /\ p[2] < hits[p[1]]}
<1>1. groupSize \in Nat /\ nKeys \in Nat
  BY NabooAssumption, HashProblemAssumption
<1>2. IsFiniteSet(KeyIds) /\ Cardinality(KeyIds) = nKeys
  BY <1>1, FS_Interval DEF KeyIds
<1>3. ASSUME NEW k \in KeyIds
      PROVE  ks[k] = HashOf(l, Key[k]) /\ ks[k] \in Hashes
  <2>1. Key[k] \in ConcreteKeys
    BY HashProblemAssumption
  <2> QED BY <2>1, AddressType DEF KeysIn, HashOf, Hashes, Luts
<1>4. ASSUME NEW h \in Hashes
      PROVE  hits[h] = Cardinality(Fibre(ks, KeyIds, h))
  BY DEF HashCounts
<1>5. ASSUME NEW h
      PROVE  /\ IsFiniteSet(Fibre(ks, KeyIds, h))
             /\ Cardinality(Fibre(ks, KeyIds, h)) \in Nat
             /\ Cardinality(Fibre(ks, KeyIds, h)) <= nKeys
  <2>1. Fibre(ks, KeyIds, h) \in SUBSET KeyIds
    BY DEF Fibre
  <2> QED BY <1>2, <2>1, FS_Subset, FS_CardinalityType
<1>6. Score[l] = 0 <=> P = {}
  <2>1. IsFiniteSet(Hashes \X KeyIds)
    BY <1>2, HashesFinite, FS_Product
  <2>2. IsFiniteSet(P)
    BY <2>1, FS_Subset
  <2>3. Score[l] = Cardinality(P)
    BY ScoreType DEF evalFull
  <2> HIDE DEF P
  <2> QED BY <2>2, <2>3, FS_EmptySet
<1> HIDE DEF ks, hits
<1>7. ASSUME P # {}
      PROVE  \E K \in SUBSET KeyIds :
                /\ Cardinality(K) > groupSize
                /\ \A j, k \in K : HashOf(l, Key[j]) = HashOf(l, Key[k])
  <2>1. PICK h \in Hashes, n \in KeyIds : groupSize <= n /\ n < hits[h]
    BY <1>7
  <2> DEFINE K == Fibre(ks, KeyIds, h)
  <2>2. K \in SUBSET KeyIds /\ \A j, k \in K : HashOf(l, Key[j]) = HashOf(l, Key[k])
    BY <1>3 DEF Fibre
  <2>3. n \in Nat /\ Cardinality(K) > groupSize
    <3>1. n \in Nat
      BY <1>1 DEF KeyIds
    <3> QED BY <1>1, <1>4, <1>5, <2>1, <3>1
  <2> QED BY <2>2, <2>3
<1>8. ASSUME NEW K \in SUBSET KeyIds, Cardinality(K) > groupSize,
             \A j, k \in K : HashOf(l, Key[j]) = HashOf(l, Key[k])
      PROVE  P # {}
  <2>1. IsFiniteSet(K) /\ Cardinality(K) \in Nat
    BY <1>2, FS_Subset, FS_CardinalityType
  <2>2. K # {}
    <3>1. Cardinality(K) # 0
      BY <1>1, <1>8, <2>1
    <3> QED BY <3>1, FS_EmptySet
  <2>3. PICK k \in K : TRUE
    BY <2>2
  <2> DEFINE h == HashOf(l, Key[k])
  <2>4. h \in Hashes
    BY <1>3, <2>3
  <2>5. K \in SUBSET Fibre(ks, KeyIds, h)
    BY <1>3, <1>8, <2>3 DEF Fibre
  <2>6. Cardinality(K) <= hits[h] /\ hits[h] \in Nat /\ hits[h] <= nKeys
    BY <1>4, <1>5, <2>4, <2>5, FS_Subset
  <2>7. groupSize \in KeyIds /\ groupSize < hits[h]
    BY <1>1, <1>8, <2>1, <2>6 DEF KeyIds
  <2>8. <<h, groupSize>> \in P
    BY <1>1, <2>4, <2>7
  <2> QED BY <2>8
<1> HIDE DEF P
<1> QED BY <1>6, <1>7, <1>8

-----------------------------------------------------------------------------
IInv ==
    /\ groupSize \in GroupSizes
    /\ solCurr \in Luts /\ solBest \in Luts
    /\ nabooQueue \in Seq(Sigs) /\ recent \in Seq(Luts)
    /\ m_table \in [Slots -> Nat]
    /\ FilterInStep
    /\ BestIsKept

LEMMA InitIInv == Init => IInv
<1> SUFFICES ASSUME Init PROVE IInv
  OBVIOUS
<1>1. groupSize \in GroupSizes /\ solCurr \in Luts /\ solBest = solCurr /\ eBest = Score[solCurr]
  BY DEF Init
<1>2. nabooQueue = <<>> /\ recent = <<>> /\ m_table = [s \in Slots |-> 0] /\ pc = "head"
  BY DEF Init
<1>3. FilterInStep
  <2>1. ASSUME NEW s \in Slots PROVE Cardinality(Queued(s)) = 0
    <3>1. Queued(s) = {}
      BY <1>2 DEF Queued
    <3> QED BY <3>1, FS_EmptySet
  <2> QED BY <1>2, <2>1, NabooAssumption DEF FilterInStep
<1>4. BestIsKept
  <2>1. eBest <= Score[solCurr]
    BY <1>1, ScoreType
  <2>2. \A n \in DOMAIN recent : eBest <= Score[recent[n]]
    BY <1>2
  <2> QED BY <1>1, <2>1, <2>2, ZeroScore DEF BestIsKept
<1> QED BY <1>1, <1>2, <1>3, <1>4 DEF IInv

(* addNaboo's queue: without its front, once it is full.                    *)
LEMMA KeptPart ==
    ASSUME NEW S, NEW q \in Seq(S)
    PROVE  /\ Kept(q) \in Seq(S)
           /\ Len(Kept(q)) = IF Len(q) > maxNaboo THEN Len(q) - 1 ELSE Len(q)
           /\ \A n \in DOMAIN Kept(q) :
                 Kept(q)[n] = IF Len(q) > maxNaboo THEN q[n + 1] ELSE q[n]
<1>1. CASE Len(q) > maxNaboo
  <2>1. Kept(q) = Tail(q) /\ q # <<>>
    BY <1>1, NabooAssumption DEF Kept
  <2> QED BY <1>1, <2>1, HeadTailProperties
<1>2. CASE ~ (Len(q) > maxNaboo)
  BY <1>2 DEF Kept
<1> QED BY <1>1, <1>2

(* What the counters are after the removal, if any: those of what is kept.  *)
LEMMA EmptiedCounts ==
    ASSUME IInv, NEW s \in Slots
    PROVE  Emptied[s] = Cardinality(Words(Kept(nabooQueue), s)) /\ Emptied[s] \in Nat
<1>1. nabooQueue \in Seq(Sigs) /\ m_table[s] = Cardinality(Words(nabooQueue, s))
  BY DEF IInv, FilterInStep, Queued, Words
<1>2. CASE Len(nabooQueue) > maxNaboo
  <2>1. nabooQueue # <<>> /\ Kept(nabooQueue) = Tail(nabooQueue)
    BY <1>1, <1>2, NabooAssumption DEF Kept
  <2>2. Emptied[s] = m_table[s] - Hits(Head(nabooQueue), s)
    BY <1>2 DEF Emptied, Removed
  <2>3. Cardinality(Words(Tail(nabooQueue), s))
           = Cardinality(Words(nabooQueue, s)) - Hits(Head(nabooQueue), s)
    BY <1>1, <2>1, WordsRemoved
  <2>4. Kept(nabooQueue) \in Seq(Sigs)
    BY <1>1, KeptPart
  <2>5. Cardinality(Words(Kept(nabooQueue), s)) \in Nat
    BY <2>4, WordsFinite
  <2> QED BY <1>1, <2>1, <2>2, <2>3, <2>5
<1>3. CASE ~ (Len(nabooQueue) > maxNaboo)
  BY <1>1, <1>3, WordsFinite DEF Emptied, Kept
<1> QED BY <1>2, <1>3

LEMMA Appended ==
    ASSUME NEW S, NEW q \in Seq(S), NEW e \in S
    PROVE  /\ Append(q, e) \in Seq(S)
           /\ Len(q) \in Nat /\ DOMAIN q = 1 .. Len(q)
           /\ Len(Append(q, e)) = Len(q) + 1
           /\ DOMAIN Append(q, e) = 1 .. Len(q) + 1
           /\ Append(q, e)[Len(q) + 1] = e
           /\ \A n \in 1 .. Len(q) : Append(q, e)[n] = q[n]
  OBVIOUS

(* The next queue and counters, when b is flipped.                          *)
LEMMA TryInStep ==
    ASSUME IInv, NEW b \in LutBits, Try(b)
    PROVE  /\ nabooQueue' \in Seq(Sigs) /\ recent' \in Seq(Luts)
           /\ m_table' \in [Slots -> Nat]
           /\ FilterInStep'
           /\ Len(recent') = Len(Kept(recent)) + 1
           /\ \A n \in DOMAIN recent' :
                 recent'[n] \in {recent[m] : m \in DOMAIN recent} \cup {solCurr'}
<1> DEFINE l   == Flipped(solCurr, b)
           sig == FlippedSig(toSignature(solCurr), b)
           q   == Kept(nabooQueue)
           r   == Kept(recent)
<1>1. /\ solCurr \in Luts /\ nabooQueue \in Seq(Sigs) /\ recent \in Seq(Luts)
      /\ Len(recent) = Len(nabooQueue) /\ Len(nabooQueue) <= maxNaboo + 1
      /\ \A n \in DOMAIN recent : nabooQueue[n] = toSignature(recent[n])
      /\ maxNaboo \in Nat
  BY NabooAssumption DEF IInv, FilterInStep
<1>2. l \in Luts /\ sig \in Sigs /\ sig = toSignature(l)
  BY <1>1, FlippedLut, FlippedSignature, SigType
<1>3. /\ solCurr' = l /\ nabooQueue' = Append(q, sig) /\ recent' = Append(r, l)
      /\ m_table' = Added(Emptied, sig) /\ pc' = "count"
  BY DEF Try, addNaboo
<1> HIDE DEF l, sig
<1>4. /\ q \in Seq(Sigs) /\ r \in Seq(Luts)
      /\ Len(q) = Len(r) /\ Len(q) <= maxNaboo /\ Len(q) \in Nat
      /\ DOMAIN q = 1 .. Len(q) /\ DOMAIN r = 1 .. Len(r)
      /\ Len(q) = IF Len(nabooQueue) > maxNaboo THEN Len(nabooQueue) - 1 ELSE Len(nabooQueue)
  BY <1>1, KeptPart
<1>5. ASSUME NEW n \in 1 .. Len(r)
      PROVE  /\ q[n] = toSignature(r[n])
             /\ r[n] \in {recent[m] : m \in DOMAIN recent}
  <2>1. n \in DOMAIN q /\ n \in DOMAIN r
    BY <1>4
  <2>2. CASE Len(nabooQueue) > maxNaboo
    <3>1. q[n] = nabooQueue[n + 1] /\ r[n] = recent[n + 1]
      BY <1>1, <2>1, <2>2, KeptPart
    <3>2. n + 1 \in DOMAIN recent
      BY <1>1, <1>4, <2>2
    <3> QED BY <1>1, <3>1, <3>2
  <2>3. CASE ~ (Len(nabooQueue) > maxNaboo)
    <3>1. q[n] = nabooQueue[n] /\ r[n] = recent[n]
      BY <1>1, <2>1, <2>3, KeptPart
    <3>2. n \in DOMAIN recent
      BY <1>1, <1>4, <2>3
    <3> QED BY <1>1, <3>1, <3>2
  <2> QED BY <2>2, <2>3
<1>6. ASSUME NEW s \in Slots
      PROVE  m_table'[s] = Cardinality(Words(nabooQueue', s)) /\ m_table'[s] \in Nat
  <2>1. m_table'[s] = Emptied[s] + Hits(sig, s)
    BY <1>3 DEF Added
  <2>2. Emptied[s] = Cardinality(Words(q, s)) /\ Emptied[s] \in Nat
    BY EmptiedCounts
  <2>3. Cardinality(Words(Append(q, sig), s)) = Cardinality(Words(q, s)) + Hits(sig, s)
    BY <1>2, <1>4, WordsAdded
  <2> QED BY <1>3, <2>1, <2>2, <2>3, SubsFinite
<1> HIDE DEF q, r
<1>7. /\ nabooQueue' \in Seq(Sigs) /\ Len(nabooQueue') = Len(q) + 1
      /\ nabooQueue'[Len(q) + 1] = sig
      /\ \A n \in 1 .. Len(q) : nabooQueue'[n] = q[n]
  BY <1>2, <1>3, <1>4, Appended
<1>8. /\ recent' \in Seq(Luts) /\ Len(recent') = Len(r) + 1
      /\ DOMAIN recent' = 1 .. Len(r) + 1
      /\ recent'[Len(r) + 1] = l
      /\ \A n \in 1 .. Len(r) : recent'[n] = r[n]
  BY <1>2, <1>3, <1>4, Appended
<1>9. ASSUME NEW n \in DOMAIN recent'
      PROVE  /\ nabooQueue'[n] = toSignature(recent'[n])
             /\ recent'[n] \in {recent[m] : m \in DOMAIN recent} \cup {solCurr'}
  <2>1. CASE n = Len(r) + 1
    BY <1>2, <1>3, <1>4, <1>7, <1>8, <2>1
  <2>2. CASE n \in 1 .. Len(r)
    <3>1. nabooQueue'[n] = q[n] /\ recent'[n] = r[n]
      BY <1>4, <1>7, <1>8, <2>2
    <3> QED BY <1>5, <2>2, <3>1
  <2> QED BY <1>4, <1>8, <2>1, <2>2
<1>10. FilterInStep'
  <2>1. \A s \in Slots : m_table'[s] = Cardinality(Queued(s)')
    BY <1>6 DEF Queued, Words
  <2>2. Len(recent') = Len(nabooQueue') /\ Len(nabooQueue') <= maxNaboo + 1
    BY <1>1, <1>4, <1>7, <1>8
  <2> QED BY <1>3, <1>9, <2>1, <2>2 DEF FilterInStep
<1>11. m_table' \in [Slots -> Nat]
  <2>1. m_table' = [s \in Slots |-> m_table'[s]]
    BY <1>3 DEF Added
  <2> QED BY <1>6, <2>1
<1> QED BY <1>7, <1>8, <1>9, <1>10, <1>11 DEF r

LEMMA TryIInv ==
    ASSUME NEW b \in LutBits
    PROVE  IInv /\ Try(b) => IInv'
<1> SUFFICES ASSUME IInv, Try(b) PROVE IInv'
  OBVIOUS
<1> DEFINE l == Flipped(solCurr, b)
<1>1. /\ groupSize \in GroupSizes /\ solCurr \in Luts /\ solBest \in Luts
      /\ eBest = Score[solBest] /\ recent \in Seq(Luts)
      /\ \A n \in DOMAIN recent : eBest <= Score[recent[n]]
  BY DEF IInv, BestIsKept
<1>2. groupSize' = groupSize /\ Score' = Score
  BY DEF Try, Score
<1>3. l \in Luts /\ Score[l] \in Nat /\ eBest \in Nat
  BY <1>1, FlippedLut, ScoreType
<1>4. /\ solCurr' = l
      /\ IF Score[l] <= eBest
           THEN solBest' = l /\ eBest' = Score[l]
           ELSE solBest' = solBest /\ eBest' = eBest
  BY DEF Try, Record
<1> HIDE DEF l
<1>5. /\ solBest' \in Luts /\ eBest' = Score[solBest'] /\ eBest' \in Nat
      /\ eBest' <= eBest /\ eBest' <= Score[l]
  BY <1>1, <1>3, <1>4
<1>6. ASSUME NEW n \in DOMAIN recent'
      PROVE  eBest' <= Score[recent'[n]]
  <2>1. CASE recent'[n] = l
    BY <1>5, <2>1
  <2>2. CASE recent'[n] \in {recent[m] : m \in DOMAIN recent}
    <3>1. PICK m \in DOMAIN recent : recent'[n] = recent[m]
      BY <2>2
    <3>2. recent[m] \in Luts
      BY <1>1
    <3>3. Score[recent[m]] \in Nat /\ eBest <= Score[recent[m]]
      BY <1>1, <3>2, ScoreType
    <3> QED BY <1>3, <1>5, <3>1, <3>3
  <2> QED BY <1>4, <2>1, <2>2, TryInStep
<1>7. BestIsKept'
  <2>1. Score[solBest'] = 0 <=>
           \A K \in SUBSET KeyIds :
              Cardinality(K) > groupSize =>
                 \E j, k \in K : HashOf(solBest', Key[j]) # HashOf(solBest', Key[k])
    BY <1>1, <1>5, ZeroScore
  <2> QED BY <1>2, <1>4, <1>5, <1>6, <2>1 DEF BestIsKept
<1> QED BY <1>1, <1>2, <1>3, <1>4, <1>5, <1>7, TryInStep DEF IInv

(* A restart goes back to the best hash; queue and filter stay.             *)
LEMMA RestartIInv == IInv /\ Restart => IInv'
<1> SUFFICES ASSUME IInv, Restart PROVE IInv'
  OBVIOUS
<1>1. /\ groupSize \in GroupSizes /\ solBest \in Luts /\ eBest = Score[solBest]
      /\ Score[solBest] \in Nat
  BY ScoreType DEF IInv, BestIsKept
<1>2. /\ solCurr' = solBest
      /\ UNCHANGED <<groupSize, solBest, eBest, tries, nabooQueue, m_table, recent>>
      /\ pc' # "underflow"
  BY DEF Restart, NextTry
<1>3. Score' = Score
  BY <1>2 DEF Score
<1>4. BestIsKept'
  BY <1>1, <1>2, <1>3 DEF IInv, BestIsKept
<1>5. FilterInStep'
  BY <1>2 DEF IInv, FilterInStep, Queued
<1> QED BY <1>1, <1>2, <1>4, <1>5 DEF IInv

(* Removing what was added never takes a counter below zero.                *)
LEMMA NoUnderflow == IInv => ~ Underflows
<1> SUFFICES ASSUME IInv, NEW s \in Slots PROVE ~ (Emptied[s] < 0)
  BY DEF Underflows
<1> QED BY EmptiedCounts

LEMMA StayIInv ==
    ASSUME IInv, pc' # "underflow",
           UNCHANGED <<groupSize, solCurr, solBest, eBest, nabooQueue, m_table, recent>>
    PROVE  IInv'
<1>1. Score' = Score
  BY DEF Score
<1>2. BestIsKept'
  BY <1>1 DEF IInv, BestIsKept
<1>3. FilterInStep'
  BY DEF IInv, FilterInStep, Queued
<1> QED BY <1>2, <1>3 DEF IInv

LEMMA NextIInv == IInv /\ [Next]_vars => IInv'
<1> SUFFICES ASSUME IInv, [Next]_vars PROVE IInv'
  OBVIOUS
<1>1. ASSUME NEW b \in LutBits, Try(b) PROVE IInv'
  BY <1>1, TryIInv
<1>2. ASSUME NEW b \in LutBits, Abort(b) PROVE IInv'
  BY <1>2, NoUnderflow, StayIInv DEF Abort
<1>3. CASE OutOfMoves
  BY <1>3, StayIInv DEF OutOfMoves
<1>4. CASE GoOn
  BY <1>4, StayIInv DEF GoOn, NextTry
<1>5. CASE Restart
  BY <1>5, RestartIInv
<1>6. CASE Finish
  BY <1>6, StayIInv DEF Finish
<1>7. CASE UNCHANGED vars
  <2>1. pc' # "underflow"
    BY <1>7 DEF vars, IInv, FilterInStep
  <2> QED BY <1>7, <2>1, StayIInv DEF vars
<1> QED BY <1>1, <1>2, <1>3, <1>4, <1>5, <1>6, <1>7 DEF Next

-----------------------------------------------------------------------------
(* Every reachable state satisfies the inductive invariant.                 *)
THEOREM Invariance == Spec => []IInv
<1> QED BY InitIInv, NextIInv, PTL DEF Spec

(* The queue holds the signatures of the hashes entered last, and every     *)
(* counter of the filter is the number of their words that select it; no    *)
(* counter is ever taken below zero.                                        *)
THEOREM FilterAlwaysInStep == Spec => []FilterInStep
<1>1. IInv => FilterInStep
  BY DEF IInv
<1> QED BY Invariance, <1>1, PTL

(* No hash on the trail is better than the one that will be printed, whose  *)
(* score is 0 only if it gives no value to more than groupSize keys.        *)
THEOREM BestAlwaysKept == Spec => []BestIsKept
<1>1. IInv => BestIsKept
  BY DEF IInv
<1> QED BY Invariance, <1>1, PTL

-----------------------------------------------------------------------------
(* TabuSearch speaks of the same luts, flips and scores.                    *)
LEMMA SameWords ==
    /\ Tabu!Luts = Luts
    /\ Tabu!LutBits = LutBits
    /\ \A l, b : Tabu!Flipped(l, b) = Flipped(l, b)
    /\ Tabu!Scores = Scores
<1>1. Tabu!LutBits = LutBits
  BY DEF Tabu!LutBits, LutBits, Tabu!Tables, Tables, Tabu!Addresses, Addresses
<1>2. Tabu!Luts = Luts
  BY <1>1 DEF Tabu!Luts, Luts
<1>3. \A l, b : Tabu!Flipped(l, b) = Flipped(l, b)
  BY DEF Tabu!Flipped, Flipped
<1>4. \A l, g : Tabu!evalFull(l, g) = evalFull(l, g)
  BY DEF Tabu!evalFull, evalFull, Tabu!HashCounts, HashCounts, Tabu!KeysIn, KeysIn,
         Tabu!KeyIds, KeyIds, Tabu!Hashes, Hashes, Tabu!Tables, Tables,
         Tabu!HashOf, HashOf, Tabu!Fibre, Fibre, Tabu!address, address,
         Tabu!Cardinality, Cardinality
<1>5. Tabu!Scores = Scores
  BY <1>2, <1>4 DEF Tabu!Scores, Scores
<1> QED BY <1>1, <1>2, <1>3, <1>5

(* A flip that the filter allows leads to none of the queued hashes: the    *)
(* words of its signature would be counted.                                 *)
LEMMA AllowedIsNew ==
    ASSUME IInv, NEW b \in Allowed, NEW n \in DOMAIN recent
    PROVE  recent[n] # Flipped(solCurr, b)
<1> DEFINE sig == FlippedSig(toSignature(solCurr), b)
<1>1. SUFFICES ASSUME recent[n] = Flipped(solCurr, b) PROVE FALSE
  OBVIOUS
<1>2. /\ solCurr \in Luts /\ nabooQueue \in Seq(Sigs) /\ recent \in Seq(Luts)
      /\ Len(recent) = Len(nabooQueue) /\ nabooQueue[n] = toSignature(recent[n])
      /\ \A s \in Slots : m_table[s] = Cardinality(Words(nabooQueue, s))
  BY DEF IInv, FilterInStep, Queued, Words
<1>3. b \in LutBits /\ ~ contains(sig)
  BY DEF Allowed, contains_with_flip
<1>4. nabooQueue[n] = sig /\ sig \in Sigs /\ n \in DOMAIN nabooQueue
  <2>1. toSignature(recent[n]) = sig
    BY <1>1, <1>2, <1>3, FlippedSignature
  <2> QED BY <1>2, <1>3, <2>1, SigType
<1> HIDE DEF sig
<1>5. ASSUME NEW j \in Subs
      PROVE  m_table[sig[j]] > 0
  <2>1. sig[j] \in Slots
    BY <1>4 DEF Sigs
  <2>2. <<n, j>> \in Words(nabooQueue, sig[j])
    BY <1>4 DEF Words
  <2>3. Cardinality(Words(nabooQueue, sig[j])) # 0
    BY <1>2, <2>2, WordsFinite, FS_EmptySet
  <2>4. Cardinality(Words(nabooQueue, sig[j])) \in Nat
    BY <1>2, WordsFinite
  <2> QED BY <1>2, <2>1, <2>3, <2>4
<1> QED BY <1>3, <1>5 DEF contains

LEMMA TryRefines ==
    ASSUME IInv, NEW b \in LutBits, Try(b)
    PROVE  Tabu!Enter(Flipped(solCurr, b))
<1> DEFINE l == Flipped(solCurr, b)
<1>1. /\ solCurr' = l /\ groupSize' = groupSize
      /\ recent' = Append(Kept(recent), l)
      /\ b \in Allowed
      /\ solBest' = IF Score[l] <= eBest THEN l ELSE solBest
  BY DEF Try, addNaboo, Record, flipBestLocal
<1>2. eBest = Score[solBest] /\ maxNaboo \in Nat /\ recent \in Seq(Luts)
  BY NabooAssumption DEF IInv, BestIsKept
<1>3. \A n \in DOMAIN recent : recent[n] # l
  BY <1>1, AllowedIsNew
<1>4. Append(Kept(recent), l) = Tabu!Remembered(recent, l, maxNaboo + 1)
  <2>1. Len(recent) > maxNaboo <=> Len(recent) >= maxNaboo + 1
    BY <1>2
  <2> QED BY <2>1 DEF Kept, Tabu!Remembered
<1>5. \A k : Tabu!Score[k] = Score[k]
  BY SameWords DEF Tabu!Score, Score
<1> HIDE DEF l
<1>6. \E c \in Tabu!LutBits : l = Tabu!Flipped(solCurr, c)
  BY SameWords DEF l
<1>7. Tabu!Enter(l)
  BY <1>1, <1>2, <1>3, <1>4, <1>5, <1>6 DEF Tabu!Enter
<1> QED BY <1>7 DEF l

LEMMA NextRefines == IInv /\ [Next]_vars => [Tabu!Next]_(Tabu!tabuVars)
<1> SUFFICES ASSUME IInv, [Next]_vars
             PROVE  Tabu!Next \/ UNCHANGED <<groupSize, solCurr, recent, solBest>>
  BY DEF Tabu!tabuVars
<1>1. ASSUME NEW b \in LutBits, Try(b) PROVE Tabu!Next
  <2>1. Flipped(solCurr, b) \in Tabu!Luts
    BY FlippedLut, SameWords DEF IInv
  <2> QED BY <1>1, <2>1, TryRefines DEF Tabu!Next
<1>2. CASE Restart
  BY <1>2 DEF Restart, Tabu!Next, Tabu!GoBack
<1>3. ASSUME NEW b \in LutBits, Abort(b)
      PROVE  UNCHANGED <<groupSize, solCurr, recent, solBest>>
  BY <1>3 DEF Abort
<1>4. CASE OutOfMoves \/ GoOn \/ Finish \/ UNCHANGED vars
  BY <1>4 DEF OutOfMoves, GoOn, Finish, vars
<1> QED BY <1>1, <1>2, <1>3, <1>4 DEF Next

(* naboo_fpga_hash is a tabu search: whatever words the bits have and       *)
(* whatever slots they share, no step enters one of the hashes that were    *)
(* entered in the last maxNaboo+1 tries.                                    *)
THEOREM Implements == Spec => ImplementsTabuSearch
<1>1. Init => Tabu!Init
  BY SameWords DEF Init, Tabu!Init
<1>2. IInv /\ [Next]_vars => [Tabu!Next]_(Tabu!tabuVars)
  BY NextRefines
<1> QED BY <1>1, <1>2, Invariance, PTL DEF Spec, ImplementsTabuSearch, Tabu!Spec
=============================================================================
