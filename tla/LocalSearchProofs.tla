------------------------- MODULE LocalSearchProofs -------------------------
(***************************************************************************)
(* Proofs about the local moves and the search that is made of them, for   *)
(* every problem, patience and number of tries: a move finds the best of   *)
(* the hashes that it claims to look at, the flags of the search are true, *)
(* and it never gets worse.                                                *)
(***************************************************************************)
EXTENDS LocalSearch, BitHashProofs

(* A score is a number of keys.                                             *)
LEMMA ScoreType == Score \in [Luts -> Nat]
<1> SUFFICES ASSUME NEW l \in Luts PROVE evalFull(l, groupSize) \in Nat
  BY DEF Score
<1> QED BY PlacesCounted, HashProblemAssumption DEF evalFull, KeyIds

-----------------------------------------------------------------------------
(* The bits and their numbers.  The number of a bit is that of the bits     *)
(* before it, which are fewer for an earlier bit.                           *)
Earlier(b) == {c \in LutBits : BitPrecedes(c, b)}
NumberOf   == [b \in LutBits |-> Cardinality(Earlier(b))]

LEMMA NumbersType ==
    /\ bitCount \in Nat /\ Numbers \in SUBSET Nat
    /\ IsFiniteSet(Numbers) /\ Cardinality(Numbers) = bitCount
    /\ 0 \in Numbers /\ bitCount - 1 \in Numbers
<1>1. bitCount \in Nat /\ bitCount >= 3
  BY LutBitsFinite, FS_CardinalityType, GreedyMovesAssumption DEF bitCount
<1>2. IsFiniteSet(Numbers) /\ Cardinality(Numbers) = bitCount
  BY <1>1, FS_Interval DEF Numbers
<1> QED BY <1>1, <1>2 DEF Numbers

LEMMA NumberOfType ==
    ASSUME NEW b \in LutBits
    PROVE  NumberOf[b] \in Numbers /\ IsFiniteSet(Earlier(b))
<1>1. Earlier(b) \in SUBSET LutBits /\ b \notin Earlier(b)
  BY BitOrder DEF Earlier
<1>2. IsFiniteSet(Earlier(b)) /\ Cardinality(Earlier(b)) <= bitCount
  BY <1>1, LutBitsFinite, FS_Subset DEF bitCount
<1>3. Cardinality(Earlier(b)) # bitCount
  BY <1>1, LutBitsFinite, FS_Subset DEF bitCount
<1>4. Cardinality(Earlier(b)) \in Nat
  BY <1>2, FS_CardinalityType
<1> QED BY <1>2, <1>3, <1>4, NumbersType DEF NumberOf, Numbers

LEMMA NumbersGrow ==
    ASSUME NEW b \in LutBits, NEW c \in LutBits, BitPrecedes(b, c)
    PROVE  NumberOf[b] < NumberOf[c]
<1>1. Earlier(b) \in SUBSET Earlier(c) /\ b \in Earlier(c) /\ b \notin Earlier(b)
  BY BitOrder DEF Earlier
<1>2. IsFiniteSet(Earlier(c)) /\ IsFiniteSet(Earlier(b))
  BY NumberOfType
<1>3. /\ Cardinality(Earlier(b)) <= Cardinality(Earlier(c))
      /\ Cardinality(Earlier(b)) # Cardinality(Earlier(c))
  BY <1>1, <1>2, FS_Subset
<1>4. Cardinality(Earlier(b)) \in Nat /\ Cardinality(Earlier(c)) \in Nat
  BY <1>2, FS_CardinalityType
<1> QED BY <1>3, <1>4 DEF NumberOf

LEMMA BitsNumbered ==
    /\ bits \in [Numbers -> LutBits]
    /\ \A n \in Numbers : NumberOf[bits[n]] = n
    /\ \A b \in LutBits : bits[NumberOf[b]] = b
<1>1. NumberOf \in [LutBits -> Numbers]
  BY NumberOfType DEF NumberOf
<1>2. \A b, c \in LutBits : NumberOf[b] = NumberOf[c] => b = c
  <2> SUFFICES ASSUME NEW b \in LutBits, NEW c \in LutBits, b # c
               PROVE  NumberOf[b] # NumberOf[c]
    OBVIOUS
  <2>1. NumberOf[b] < NumberOf[c] \/ NumberOf[c] < NumberOf[b]
    BY BitOrder, NumbersGrow
  <2>2. NumberOf[b] \in Nat /\ NumberOf[c] \in Nat
    BY NumberOfType, NumbersType
  <2> QED BY <2>1, <2>2
<1>3. NumberOf \in Injection(LutBits, Numbers)
  BY <1>1, <1>2 DEF Injection, IsInjective
<1>4. NumberOf \in Surjection(LutBits, Numbers)
  BY <1>3, NumbersType, FS_Injection DEF bitCount
<1>5. \A n \in Numbers : \E b \in LutBits : Cardinality(Earlier(b)) = n
  BY <1>4 DEF Surjection, NumberOf
<1>6. ASSUME NEW n \in Numbers
      PROVE  bits[n] \in LutBits /\ Cardinality(Earlier(bits[n])) = n
  BY <1>5 DEF bits, Earlier
<1>7. \A n \in Numbers : bits[n] \in LutBits /\ NumberOf[bits[n]] = n
  BY <1>6 DEF NumberOf
<1>8. bits \in [Numbers -> LutBits]
  BY <1>6 DEF bits
<1> QED BY <1>1, <1>2, <1>7, <1>8

-----------------------------------------------------------------------------
(* Tuples of numbers and the hashes that they lead to.                      *)
Tuples(k) == [1 .. k -> Numbers]

LEMMA TuplesFinite ==
    ASSUME NEW k \in Nat
    PROVE  IsFiniteSet(Tuples(k))
<1> DEFINE Pairs == (1 .. k) \X Numbers
           Graph == [c \in Tuples(k) |-> {p \in Pairs : c[p[1]] = p[2]}]
<1>1. IsFiniteSet(SUBSET Pairs)
  <2>1. IsFiniteSet(1 .. k)
    BY FS_Interval
  <2>2. IsFiniteSet(Pairs)
    BY <2>1, NumbersType, FS_Product
  <2> QED BY <2>2, FS_SUBSET
<1>2. ASSUME NEW c \in Tuples(k), NEW d \in Tuples(k), Graph[c] = Graph[d]
      PROVE  c = d
  <2>1. ASSUME NEW i \in 1 .. k PROVE c[i] = d[i]
    <3>1. <<i, c[i]>> \in Pairs
      BY DEF Tuples
    <3>2. <<i, c[i]>> \in Graph[c]
      BY <3>1
    <3>3. <<i, c[i]>> \in Graph[d]
      BY <1>2, <3>2
    <3> QED BY <3>3
  <2> QED BY <2>1 DEF Tuples
<1>3. Graph \in [Tuples(k) -> SUBSET Pairs]
  OBVIOUS
<1> HIDE DEF Graph, Pairs
<1>4. Graph \in Injection(Tuples(k), SUBSET Pairs)
  BY <1>2, <1>3 DEF Injection, IsInjective
<1> QED BY <1>1, <1>4, FS_Injection

LEMMA TupleTypes ==
    /\ OneBits \in SUBSET Tuples(1)
    /\ TwoBits \in SUBSET Tuples(2) /\ TwoBitsFast \in SUBSET Tuples(2)
    /\ TwoTables \in SUBSET Tuples(2)
    /\ ThreeTables \in SUBSET Tuples(3) /\ ThreeBitsFast \in SUBSET Tuples(3)
    /\ FourBitsFast \in SUBSET Tuples(4)
<1>1. OneBits \in SUBSET Tuples(1)
  BY DEF OneBits, Tuples
<1>2. Numbers \X Numbers \in SUBSET Tuples(2)
  BY DEF Tuples
<1>3. Numbers \X Numbers \X Numbers \in SUBSET Tuples(3)
  BY DEF Tuples
<1>4. Numbers \X Numbers \X Numbers \X Numbers \in SUBSET Tuples(4)
  BY DEF Tuples
<1> QED BY <1>1, <1>2, <1>3, <1>4
        DEF TwoBits, TwoBitsFast, TwoTables, ThreeTables, ThreeBitsFast, FourBitsFast

(* The nested loops come to tuples in a total order, so that among any there *)
(* is a first.                                                               *)
LEMMA FirstType ==
    ASSUME NEW k \in Nat, NEW C \in SUBSET Tuples(k), C # {}
    PROVE  First(C) \in C
<1> DEFINE R == {p \in Tuples(k) \X Tuples(k) : Before(p[1], p[2])}
<1>1. \A c, d \in Tuples(k) : <<c, d>> \in R <=> Before(c, d)
  OBVIOUS
<1>2. ASSUME NEW c \in Tuples(k), NEW d \in Tuples(k)
      PROVE  /\ DOMAIN c = 1 .. k /\ \A i \in 1 .. k : c[i] \in Nat
             /\ Before(c, d) <=>
                   \E n \in 1 .. k : c[n] < d[n] /\ \A i \in 1 .. n-1 : c[i] = d[i]
  BY NumbersType DEF Tuples, Before
<1> HIDE DEF R
<1>3. ASSUME NEW c \in C, NEW d \in C, NEW e \in C, Before(c, d), Before(d, e)
      PROVE  Before(c, e)
  <2>1. PICK n \in 1 .. k : c[n] < d[n] /\ \A i \in 1 .. n-1 : c[i] = d[i]
    BY <1>2, <1>3
  <2>2. PICK m \in 1 .. k : d[m] < e[m] /\ \A i \in 1 .. m-1 : d[i] = e[i]
    BY <1>2, <1>3
  <2>3. \A i \in 1 .. k : c[i] \in Nat /\ d[i] \in Nat /\ e[i] \in Nat
    BY <1>2
  <2>4. CASE n <= m
    <3>1. \A i \in 1 .. n-1 : c[i] = e[i]
      BY <2>1, <2>2, <2>4
    <3>2. c[n] < e[n]
      BY <2>1, <2>2, <2>3, <2>4
    <3> QED BY <1>2, <3>1, <3>2
  <2>5. CASE m < n
    <3>1. \A i \in 1 .. m-1 : c[i] = e[i]
      BY <2>1, <2>2, <2>5
    <3>2. c[m] < e[m]
      BY <2>1, <2>2, <2>3, <2>5
    <3> QED BY <1>2, <3>1, <3>2
  <2> QED BY <2>4, <2>5
<1>4. ASSUME NEW c \in C, NEW d \in C, c # d
      PROVE  Before(c, d) \/ Before(d, c)
  <2> DEFINE D == {i \in 1 .. k : c[i] # d[i]}
  <2>1. D # {}
    BY <1>4 DEF Tuples
  <2>2. D \in SUBSET Nat
    OBVIOUS
  <2>3. PICK n \in D : \A i \in D : n <= i
    <3> HIDE DEF D
    <3> QED BY <2>1, <2>2, LeastNatural
  <2>4. \A i \in 1 .. n-1 : c[i] = d[i]
    BY <2>3
  <2>5. c[n] < d[n] \/ d[n] < c[n]
    BY <1>2, <2>3
  <2> QED BY <1>2, <2>3, <2>4, <2>5
<1>5. IsFiniteSet(C)
  BY TuplesFinite, FS_Subset
<1>6. \E c \in C : \A d \in C \ {c} : <<c, d>> \in R
  <2>1. \A x, y, z \in C : <<x, y>> \in R /\ <<y, z>> \in R => <<x, z>> \in R
    BY <1>1, <1>3
  <2>2. \A x, y \in C : x # y => <<x, y>> \in R \/ <<y, x>> \in R
    BY <1>1, <1>4
  <2> QED BY <1>5, <2>1, <2>2, LeastExists
<1>7. \E c \in C : \A d \in C \ {c} : Before(c, d)
  BY <1>1, <1>6
<1> QED BY <1>7 DEF First

LEMMA FlippedAllType ==
    ASSUME NEW l \in Luts, NEW c
    PROVE  FlippedAll(l, c) \in Luts /\ Score[FlippedAll(l, c)] \in Nat
<1>1. FlippedAll(l, c) \in Luts
  BY DEF FlippedAll, Luts
<1> QED BY <1>1, ScoreType

(* The flips that lead from one hash to another are those of the bits that  *)
(* they differ in, in any order.                                            *)
Differing(l, m) == {n \in Numbers : l[bits[n]] # m[bits[n]]}

LEMMA DifferingType ==
    ASSUME NEW l \in Luts, NEW m \in Luts
    PROVE  /\ Differing(l, m) \in SUBSET Nat /\ IsFiniteSet(Differing(l, m))
           /\ Cardinality(Differing(l, m)) = Distance(l, m)
<1> DEFINE N == Differing(l, m)
           D == {b \in LutBits : l[b] # m[b]}
           f == [n \in N |-> bits[n]]
<1>1. N \in SUBSET Numbers /\ N \in SUBSET Nat
  BY NumbersType DEF Differing
<1>2. IsFiniteSet(N)
  BY <1>1, NumbersType, FS_Subset
<1>3. f \in [N -> D]
  BY BitsNumbered DEF Differing
<1>4. \A n, o \in N : f[n] = f[o] => n = o
  BY <1>1, BitsNumbered
<1>5. \A b \in D : \E n \in N : f[n] = b
  <2> SUFFICES ASSUME NEW b \in D PROVE NumberOf[b] \in N /\ f[NumberOf[b]] = b
    OBVIOUS
  <2>1. NumberOf[b] \in Numbers /\ bits[NumberOf[b]] = b
    BY NumberOfType, BitsNumbered
  <2> QED BY <2>1 DEF Differing
<1> HIDE DEF N, D, f
<1>6. f \in Bijection(N, D)
  BY <1>3, <1>4, <1>5 DEF Bijection, Injection, Surjection, IsInjective
<1>7. Cardinality(D) = Cardinality(N)
  BY <1>2, <1>6, FS_Bijection DEF ExistsBijection
<1> QED BY <1>1, <1>2, <1>7 DEF N, D, Distance

LEMMA FlipsLead ==
    ASSUME NEW l \in Luts, NEW m \in Luts, NEW c,
           \A n \in Numbers : n \in Differing(l, m) <=> \E i \in DOMAIN c : c[i] = n,
           \A i \in DOMAIN c : c[i] \in Numbers
    PROVE  FlippedAll(l, c) = m
<1>1. ASSUME NEW b \in LutBits
      PROVE  FlippedAll(l, c)[b] = m[b]
  <2>1. NumberOf[b] \in Numbers /\ bits[NumberOf[b]] = b
    BY NumberOfType, BitsNumbered
  <2>2. (\E i \in DOMAIN c : bits[c[i]] = b) <=> NumberOf[b] \in Differing(l, m)
    BY <2>1, BitsNumbered
  <2>3. NumberOf[b] \in Differing(l, m) <=> l[b] # m[b]
    BY <2>1 DEF Differing
  <2>4. l[b] \in {0, 1} /\ m[b] \in {0, 1}
    BY DEF Luts
  <2> QED BY <2>2, <2>3, <2>4 DEF FlippedAll
<1> QED BY <1>1, FlippedAllType DEF Luts

(* Numbers can be taken in ascending order.                                 *)
LEMMA TakeLeast ==
    ASSUME NEW N \in SUBSET Nat, IsFiniteSet(N), NEW k \in Nat, Cardinality(N) = k + 1
    PROVE  \E x \in N : /\ \A y \in N \ {x} : x < y
                        /\ N \ {x} \in SUBSET Nat /\ IsFiniteSet(N \ {x})
                        /\ Cardinality(N \ {x}) = k
<1>1. N # {}
  BY FS_EmptySet
<1>2. PICK x \in N : \A y \in N : x <= y
  BY <1>1, LeastNatural
<1>3. \A y \in N \ {x} : x < y
  BY <1>2
<1>4. IsFiniteSet(N \ {x}) /\ Cardinality(N \ {x}) = k
  BY FS_RemoveElement
<1> QED BY <1>3, <1>4

LEMMA ReachedByOne ==
    ASSUME NEW l \in Luts, NEW m \in Luts, Distance(l, m) = 1
    PROVE  \E c \in OneBits : FlippedAll(l, c) = m
<1> DEFINE N == Differing(l, m)
<1>1. PICK i : N = {i}
  BY DifferingType, FS_Singleton
<1>2. i \in Numbers
  BY <1>1 DEF Differing
<1>3. FlippedAll(l, <<i>>) = m
  BY <1>1, <1>2, FlipsLead
<1> QED BY <1>2, <1>3 DEF OneBits

LEMMA ReachedByTwo ==
    ASSUME NEW l \in Luts, NEW m \in Luts, Distance(l, m) = 2
    PROVE  \E c \in TwoBits : FlippedAll(l, c) = m /\ \A n \in 1 .. 2 : l[bits[c[n]]] # m[bits[c[n]]]
<1> DEFINE N == Differing(l, m)
<1>1. N \in SUBSET Nat /\ IsFiniteSet(N) /\ Cardinality(N) = 1 + 1
  BY DifferingType
<1>2. PICK i \in N : (\A y \in N \ {i} : i < y) /\ IsFiniteSet(N \ {i}) /\ Cardinality(N \ {i}) = 1
  BY <1>1, TakeLeast
<1>3. PICK j : N \ {i} = {j}
  BY <1>2, FS_Singleton
<1>4. N = {i, j} /\ i < j /\ i \in Numbers /\ j \in Numbers
  BY <1>2, <1>3 DEF Differing
<1>5. FlippedAll(l, <<i, j>>) = m
  BY <1>4, FlipsLead
<1>6. l[bits[i]] # m[bits[i]] /\ l[bits[j]] # m[bits[j]]
  BY <1>4 DEF Differing
<1> QED BY <1>4, <1>5, <1>6 DEF TwoBits

LEMMA ReachedByThree ==
    ASSUME NEW l \in Luts, NEW m \in Luts, Distance(l, m) = 3
    PROVE  \E c \in ThreeBitsFast : FlippedAll(l, c) = m
<1> DEFINE N == Differing(l, m)
<1>1. N \in SUBSET Nat /\ IsFiniteSet(N) /\ Cardinality(N) = 2 + 1
  BY DifferingType
<1>2. PICK i \in N : /\ \A y \in N \ {i} : i < y
                     /\ N \ {i} \in SUBSET Nat
                     /\ IsFiniteSet(N \ {i}) /\ Cardinality(N \ {i}) = 1 + 1
  BY <1>1, TakeLeast
<1>3. PICK j \in N \ {i} : /\ \A y \in (N \ {i}) \ {j} : j < y
                           /\ IsFiniteSet((N \ {i}) \ {j})
                           /\ Cardinality((N \ {i}) \ {j}) = 1
  BY <1>2, TakeLeast
<1>4. PICK k : (N \ {i}) \ {j} = {k}
  BY <1>3, FS_Singleton
<1>5. N = {i, j, k} /\ i < j /\ j < k /\ i \in Numbers /\ j \in Numbers /\ k \in Numbers
  BY <1>2, <1>3, <1>4 DEF Differing
<1>6. FlippedAll(l, <<i, j, k>>) = m
  BY <1>5, FlipsLead
<1> QED BY <1>5, <1>6 DEF ThreeBitsFast

LEMMA ReachedByFour ==
    ASSUME NEW l \in Luts, NEW m \in Luts, Distance(l, m) = 4
    PROVE  \E c \in FourBitsFast : FlippedAll(l, c) = m
<1> DEFINE N == Differing(l, m)
<1>1. N \in SUBSET Nat /\ IsFiniteSet(N) /\ Cardinality(N) = 3 + 1
  BY DifferingType
<1>2. PICK i \in N : /\ \A y \in N \ {i} : i < y
                     /\ N \ {i} \in SUBSET Nat
                     /\ IsFiniteSet(N \ {i}) /\ Cardinality(N \ {i}) = 2 + 1
  BY <1>1, TakeLeast
<1>3. PICK j \in N \ {i} : /\ \A y \in (N \ {i}) \ {j} : j < y
                           /\ (N \ {i}) \ {j} \in SUBSET Nat
                           /\ IsFiniteSet((N \ {i}) \ {j})
                           /\ Cardinality((N \ {i}) \ {j}) = 1 + 1
  BY <1>2, TakeLeast
<1>4. PICK k \in (N \ {i}) \ {j} : /\ \A y \in ((N \ {i}) \ {j}) \ {k} : k < y
                                   /\ IsFiniteSet(((N \ {i}) \ {j}) \ {k})
                                   /\ Cardinality(((N \ {i}) \ {j}) \ {k}) = 1
  BY <1>3, TakeLeast
<1>5. PICK h : ((N \ {i}) \ {j}) \ {k} = {h}
  BY <1>4, FS_Singleton
<1>6. /\ N = {i, j, k, h} /\ i < j /\ j < k /\ k < h
      /\ i \in Numbers /\ j \in Numbers /\ k \in Numbers /\ h \in Numbers
  BY <1>2, <1>3, <1>4, <1>5 DEF Differing
<1>7. FlippedAll(l, <<i, j, k, h>>) = m
  BY <1>6, FlipsLead
<1> QED BY <1>6, <1>7 DEF FourBitsFast

-----------------------------------------------------------------------------
(* A greedy function gives the best of what it tries, or its argument.      *)
LEMMA LowestType ==
    ASSUME NEW l \in Luts, NEW k \in Nat, NEW C \in SUBSET Tuples(k), C # {}
    PROVE  /\ eMin(l, C) \in Nat
           /\ \A c \in C : eMin(l, C) <= Score[FlippedAll(l, c)]
           /\ \A c \in Lowest(l, C) : c \in C /\ Score[FlippedAll(l, c)] = eMin(l, C)
           /\ Lowest(l, C) # {} /\ First(Lowest(l, C)) \in Lowest(l, C)
<1> DEFINE S == {Score[FlippedAll(l, c)] : c \in C}
<1>1. S \in SUBSET Nat /\ S # {}
  BY FlippedAllType
<1>2. \E x \in S : \A y \in S : x <= y
  <2> HIDE DEF S
  <2> QED BY <1>1, LeastNatural
<1>3. Min(S) \in S /\ \A x \in S : Min(S) <= x
  BY <1>2 DEF Min
<1>4. eMin(l, C) = Min(S)
  BY DEF eMin
<1>5. Lowest(l, C) = {c \in C : Score[FlippedAll(l, c)] = eMin(l, C)}
  BY DEF Lowest
<1>6. Lowest(l, C) # {}
  BY <1>3, <1>4, <1>5
<1>7. First(Lowest(l, C)) \in Lowest(l, C)
  BY <1>5, <1>6, FirstType
<1> QED BY <1>1, <1>3, <1>4, <1>5, <1>6, <1>7

LEMMA GreedyBest ==
    ASSUME NEW l \in Luts, NEW k \in Nat, NEW C \in SUBSET Tuples(k)
    PROVE  /\ Greedy(l, C) \in Luts
           /\ Greedy(l, C) = l \/ Score[Greedy(l, C)] < Score[l]
           /\ Score[Greedy(l, C)] <= Score[l]
           /\ \A c \in C : Score[Greedy(l, C)] <= Score[FlippedAll(l, c)]
<1>1. Score[l] \in Nat /\ \A c \in C : Score[FlippedAll(l, c)] \in Nat
  BY ScoreType, FlippedAllType
<1>2. CASE C # {} /\ eMin(l, C) < Score[l]
  <2>1. Greedy(l, C) = FlippedAll(l, First(Lowest(l, C)))
    BY <1>2 DEF Greedy
  <2>2. Score[Greedy(l, C)] = eMin(l, C)
    BY <1>2, <2>1, LowestType
  <2> QED BY <1>1, <1>2, <2>1, <2>2, LowestType, FlippedAllType
<1>3. CASE C # {} /\ ~ (eMin(l, C) < Score[l])
  <2>1. Greedy(l, C) = l
    BY <1>3 DEF Greedy
  <2>2. eMin(l, C) \in Nat /\ \A c \in C : eMin(l, C) <= Score[FlippedAll(l, c)]
    BY <1>3, LowestType
  <2> QED BY <1>1, <1>3, <2>1, <2>2
<1>4. CASE C = {}
  BY <1>1, <1>4 DEF Greedy
<1> QED BY <1>2, <1>3, <1>4

LEMMA InPlaceBest ==
    ASSUME NEW l \in Luts, NEW ignoreCurrent \in BOOLEAN,
           NEW r \in GreedyInPlace(l, ignoreCurrent)
    PROVE  /\ r \in Luts
           /\ ~ ignoreCurrent => r = l \/ Score[r] <= Score[l]
           /\ \A c \in OneBits : Score[r] <= Score[FlippedAll(l, c)]
<1>1. OneBits \in SUBSET Tuples(1) /\ OneBits # {}
  BY TupleTypes, NumbersType DEF OneBits
<1>2. /\ eMin(l, OneBits) \in Nat
      /\ \A c \in OneBits : eMin(l, OneBits) <= Score[FlippedAll(l, c)]
      /\ \A c \in Lowest(l, OneBits) : Score[FlippedAll(l, c)] = eMin(l, OneBits)
  BY <1>1, LowestType
<1>3. Score[l] \in Nat /\ \A c \in OneBits : Score[FlippedAll(l, c)] \in Nat
  BY ScoreType, FlippedAllType
<1>4. CASE ignoreCurrent \/ eMin(l, OneBits) <= Score[l]
  <2>1. PICK c \in Lowest(l, OneBits) : r = FlippedAll(l, c)
    BY <1>4 DEF GreedyInPlace
  <2>2. r \in Luts /\ Score[r] = eMin(l, OneBits)
    BY <1>2, <2>1, FlippedAllType
  <2> QED BY <1>2, <1>4, <2>2
<1>5. CASE ~ (ignoreCurrent \/ eMin(l, OneBits) <= Score[l])
  <2>1. r = l
    BY <1>5 DEF GreedyInPlace
  <2> QED BY <1>2, <1>3, <1>5, <2>1
<1> QED BY <1>4, <1>5

(* What the tuples of a function reach, its result is no worse than.        *)
LEMMA BestAtDistance ==
    ASSUME NEW l \in Luts, NEW m \in Luts
    PROVE  /\ Distance(l, m) = 1 => Score[Greedy(l, OneBits)] <= Score[m]
           /\ Distance(l, m) = 1 => \A i \in BOOLEAN : \A r \in GreedyInPlace(l, i) : Score[r] <= Score[m]
           /\ Distance(l, m) = 2 => Score[Greedy(l, TwoBits)] <= Score[m]
           /\ Distance(l, m) = 2 /\ m[bits[bitCount - 1]] = l[bits[bitCount - 1]]
                 => Score[Greedy(l, TwoBitsFast)] <= Score[m]
           /\ Distance(l, m) = 3 => Score[Greedy(l, ThreeBitsFast)] <= Score[m]
           /\ Distance(l, m) = 4 => Score[Greedy(l, FourBitsFast)] <= Score[m]
<1>1. ASSUME Distance(l, m) = 1
      PROVE  /\ Score[Greedy(l, OneBits)] <= Score[m]
             /\ \A i \in BOOLEAN : \A r \in GreedyInPlace(l, i) : Score[r] <= Score[m]
  <2>1. PICK c \in OneBits : FlippedAll(l, c) = m
    BY <1>1, ReachedByOne
  <2>2. Score[Greedy(l, OneBits)] <= Score[FlippedAll(l, c)]
    BY TupleTypes, GreedyBest
  <2>3. \A i \in BOOLEAN : \A r \in GreedyInPlace(l, i) : Score[r] <= Score[FlippedAll(l, c)]
    BY InPlaceBest
  <2> QED BY <2>1, <2>2, <2>3
<1>2. ASSUME Distance(l, m) = 2
      PROVE  /\ Score[Greedy(l, TwoBits)] <= Score[m]
             /\ m[bits[bitCount - 1]] = l[bits[bitCount - 1]]
                   => Score[Greedy(l, TwoBitsFast)] <= Score[m]
  <2>1. PICK c \in TwoBits : /\ FlippedAll(l, c) = m
                             /\ \A n \in 1 .. 2 : l[bits[c[n]]] # m[bits[c[n]]]
    BY <1>2, ReachedByTwo
  <2>2. Score[Greedy(l, TwoBits)] <= Score[FlippedAll(l, c)]
    BY TupleTypes, GreedyBest
  <2>3. ASSUME m[bits[bitCount - 1]] = l[bits[bitCount - 1]]
        PROVE  c \in TwoBitsFast
    <3>1. c[2] \in Numbers /\ c[2] # bitCount - 1
      BY <2>1, <2>3 DEF TwoBits
    <3>2. c[2] < bitCount - 1
      BY <3>1, NumbersType DEF Numbers
    <3> QED BY <3>2 DEF TwoBitsFast
  <2>4. c \in TwoBitsFast => Score[Greedy(l, TwoBitsFast)] <= Score[FlippedAll(l, c)]
    BY TupleTypes, GreedyBest
  <2> QED BY <2>1, <2>2, <2>3, <2>4
<1>3. ASSUME Distance(l, m) = 3
      PROVE  Score[Greedy(l, ThreeBitsFast)] <= Score[m]
  <2>1. PICK c \in ThreeBitsFast : FlippedAll(l, c) = m
    BY <1>3, ReachedByThree
  <2> QED BY <2>1, TupleTypes, GreedyBest
<1>4. ASSUME Distance(l, m) = 4
      PROVE  Score[Greedy(l, FourBitsFast)] <= Score[m]
  <2>1. PICK c \in FourBitsFast : FlippedAll(l, c) = m
    BY <1>4, ReachedByFour
  <2> QED BY <2>1, TupleTypes, GreedyBest
<1> QED BY <1>1, <1>2, <1>3, <1>4

LEMMA PerturbedType == \A l \in Luts : Perturbed(l) \in SUBSET Luts
<1>1. \A l \in Luts : [b \in LutBits |-> 1 - l[b]] \in Luts
  BY DEF Luts
<1> QED BY <1>1 DEF Perturbed

-----------------------------------------------------------------------------
(* A caller of the moves sets no flag, and the search keeps no record of    *)
(* its moves: only one of the two invariants ever says something.           *)
TypeInv ==
    /\ solution \in Luts /\ ePrev = Score[solution]
    /\ was \in Luts
    /\ tried \in SUBSET {1, 2, 3}
    /\ pc = "moves" => tried = {}
    /\ pc # "moves" => last = "none"

IInv == TypeInv /\ FlagsHonest /\ Thorough

LEMMA InitInvariant == Init => IInv
<1> SUFFICES ASSUME Init PROVE IInv
  OBVIOUS
<1>1. [b \in LutBits |-> 0] \in Luts
  BY DEF Luts
<1> QED BY <1>1 DEF Init, IInv, TypeInv, FlagsHonest, Thorough

(* A move of a caller who gets a result that is as good as the function     *)
(* claims.                                                                  *)
LEMMA MoveStep ==
    ASSUME IInv, NEW name, NEW results, Move(name, results),
           results \in SUBSET Luts,
           name \notin {"none", "kick"} =>
               \A r \in results : \/ Score[r] < Score[solution]
                                  \/ r = solution
                                  \/ name = "oneInPlace" /\ Score[r] = Score[solution],
           \A r \in results : \A m \in Luts :
               (\/ name \in {"one", "oneInPlace", "kick"} /\ Distance(solution, m) = 1
                \/ name = "two" /\ Distance(solution, m) = 2
                \/ /\ name = "twoFast" /\ Distance(solution, m) = 2
                   /\ m[bits[bitCount - 1]] = solution[bits[bitCount - 1]]
                \/ name = "three" /\ Distance(solution, m) = 3
                \/ name = "four" /\ Distance(solution, m) = 4)
               => Score[r] <= Score[m]
    PROVE  IInv'
<1>1. TypeInv'
  BY DEF IInv, TypeInv, Move, searchVars
<1>2. FlagsHonest'
  <2>1. tried' = {}
    BY DEF IInv, TypeInv, Move, searchVars
  <2> QED BY <2>1 DEF Move, FlagsHonest
<1>3. Thorough'
  BY DEF Thorough, Move
<1> QED BY <1>1, <1>2, <1>3 DEF IInv

LEMMA MovesKeep ==
    ASSUME IInv,
           \/ greedyOneBitInPlace \/ kickOneBit \/ greedyTwoBitInPlace
           \/ greedyOneBit \/ greedyTwoBit \/ greedyTwoBitFast
           \/ greedyThreeBit \/ greedyThreeBitFast \/ greedyFourBitFast
    PROVE  IInv'
<1> solution \in Luts
  BY DEF IInv, TypeInv
<1>1. CASE greedyOneBitInPlace
  <2> DEFINE R == GreedyInPlace(solution, FALSE)
  <2>1. \A r \in R : r \in Luts /\ Score[r] \in Nat /\ Score[solution] \in Nat
    BY InPlaceBest, ScoreType
  <2>2. \A r \in R : r = solution \/ Score[r] <= Score[solution]
    BY InPlaceBest
  <2>3. \A r \in R :
           Score[r] < Score[solution] \/ r = solution \/ Score[r] = Score[solution]
    <3> SUFFICES ASSUME NEW r \in R, r # solution
                 PROVE  Score[r] < Score[solution] \/ Score[r] = Score[solution]
      OBVIOUS
    <3>1. Score[r] <= Score[solution] /\ Score[r] \in Nat /\ Score[solution] \in Nat
      BY <2>1, <2>2
    <3> QED BY <3>1
  <2>4. R \in SUBSET Luts
    BY <2>1
  <2>5. \A r \in R : \A m \in Luts :
           Distance(solution, m) = 1 => Score[r] <= Score[m]
    BY BestAtDistance
  <2>6. Move("oneInPlace", R)
    BY <1>1 DEF greedyOneBitInPlace
  <2> HIDE DEF R
  <2> QED BY <2>3, <2>4, <2>5, <2>6, MoveStep
<1>2. CASE kickOneBit
  <2> DEFINE R == GreedyInPlace(solution, TRUE)
  <2>1. R \in SUBSET Luts
    BY InPlaceBest
  <2>2. \A r \in R : \A m \in Luts :
           Distance(solution, m) = 1 => Score[r] <= Score[m]
    BY BestAtDistance
  <2>3. Move("kick", R)
    BY <1>2 DEF kickOneBit
  <2> HIDE DEF R
  <2> QED BY <2>1, <2>2, <2>3, MoveStep
<1>3. ASSUME NEW k \in Nat, NEW C \in SUBSET Tuples(k)
      PROVE  /\ {Greedy(solution, C)} \in SUBSET Luts
             /\ \A r \in {Greedy(solution, C)} : Score[r] < Score[solution] \/ r = solution
  BY GreedyBest
<1>4. CASE greedyTwoBitInPlace
  BY <1>3, <1>4, TupleTypes, BestAtDistance, MoveStep DEF greedyTwoBitInPlace
<1>5. CASE greedyOneBit
  BY <1>3, <1>5, TupleTypes, BestAtDistance, MoveStep DEF greedyOneBit
<1>6. CASE greedyTwoBit
  BY <1>3, <1>6, TupleTypes, MoveStep DEF greedyTwoBit
<1>7. CASE greedyTwoBitFast
  BY <1>3, <1>7, TupleTypes, BestAtDistance, MoveStep DEF greedyTwoBitFast
<1>8. CASE greedyThreeBit
  BY <1>3, <1>8, TupleTypes, MoveStep DEF greedyThreeBit
<1>9. CASE greedyThreeBitFast
  BY <1>3, <1>9, TupleTypes, BestAtDistance, MoveStep DEF greedyThreeBitFast
<1>10. CASE greedyFourBitFast
  BY <1>3, <1>10, TupleTypes, BestAtDistance, MoveStep DEF greedyFourBitFast
<1> QED BY <1>1, <1>2, <1>4, <1>5, <1>6, <1>7, <1>8, <1>9, <1>10

LEMMA PerturbStep == IInv /\ perturbHash => IInv'
<1> SUFFICES ASSUME IInv, perturbHash PROVE IInv'
  OBVIOUS
<1>1. solution' \in Luts
  BY PerturbedType DEF IInv, TypeInv, perturbHash
<1>2. tried' = {} /\ pc' = "moves" /\ last' = "none" /\ was' = solution' /\ ePrev' = Score[solution']
  BY DEF IInv, TypeInv, perturbHash, searchVars
<1> QED BY <1>1, <1>2 DEF IInv, TypeInv, FlagsHonest, Thorough

-----------------------------------------------------------------------------
(* The search: a new solution starts without flags, and a flag is set when  *)
(* the best of the flips that it stands for is not better than the solution. *)
LEMMA TakenStep ==
    ASSUME IInv, NEW l \in Luts, Take(l), StartAfresh, UNCHANGED <<pc, was, last>>, pc = "loop"
    PROVE  IInv'
<1>1. TypeInv'
  BY DEF IInv, TypeInv, Take, StartAfresh
<1>2. FlagsHonest'
  BY DEF FlagsHonest, Take, StartAfresh
<1>3. Thorough'
  BY DEF IInv, TypeInv, Thorough
<1> QED BY <1>1, <1>2, <1>3 DEF IInv

LEMMA TryStep ==
    ASSUME IInv, NEW k \in {1, 2, 3}, NEW C \in SUBSET Tuples(k), TryGreedy(k, C),
           C = IF k = 1 THEN OneBits ELSE IF k = 2 THEN TwoBitsFast ELSE ThreeBitsFast
    PROVE  IInv' /\ ePrev' <= ePrev
<1> DEFINE l == Greedy(solution, C)
<1>1. solution \in Luts /\ ePrev = Score[solution] /\ ePrev \in Nat
  BY ScoreType DEF IInv, TypeInv
<1>2. l \in Luts /\ Score[l] \in Nat /\ Score[l] <= ePrev
  BY <1>1, GreedyBest, ScoreType
<1>3. pc = "loop" /\ UNCHANGED <<pc, was, last>>
  BY DEF TryGreedy, Rejects, Searching
<1>4. CASE Score[l] < ePrev
  <2>1. Take(l) /\ StartAfresh
    BY <1>4 DEF TryGreedy
  <2> QED BY <1>1, <1>2, <1>3, <1>4, <2>1, TakenStep DEF Take
<1>5. CASE ~ (Score[l] < ePrev)
  <2>1. tried' = tried \cup {k} /\ UNCHANGED <<solution, ePrev, fails>>
    BY <1>5 DEF TryGreedy
  <2>2. Score[l] = ePrev
    BY <1>1, <1>2, <1>5
  <2>3. TypeInv'
    BY <1>3, <2>1 DEF IInv, TypeInv
  <2>4. ASSUME NEW m \in Luts,
               \/ k \in {1, 3} /\ Distance(solution, m) = k
               \/ /\ k = 2 /\ Distance(solution, m) = 2
                  /\ m[bits[bitCount - 1]] = solution[bits[bitCount - 1]]
        PROVE  Score[m] >= ePrev
    <3>1. Score[l] <= Score[m]
      BY <1>1, <2>4, BestAtDistance
    <3> QED BY <2>2, <3>1, ScoreType
  <2>5. FlagsHonest'
    <3>1. ASSUME NEW m \in Luts,
                 \/ Distance(solution, m) \in (tried \cup {k}) \cap {1, 3}
                 \/ /\ Distance(solution, m) = 2 /\ 2 \in tried \cup {k}
                    /\ m[bits[bitCount - 1]] = solution[bits[bitCount - 1]]
          PROVE  Score[m] >= ePrev
      <4>1. CASE \/ Distance(solution, m) \in tried \cap {1, 3}
                 \/ /\ Distance(solution, m) = 2 /\ 2 \in tried
                    /\ m[bits[bitCount - 1]] = solution[bits[bitCount - 1]]
        BY <4>1 DEF IInv, FlagsHonest
      <4> QED BY <3>1, <4>1, <2>4
    <3> QED BY <1>1, <2>1, <3>1 DEF FlagsHonest
  <2>6. Thorough'
    BY <1>3, <2>3 DEF IInv, TypeInv, Thorough
  <2> QED BY <1>1, <2>1, <2>3, <2>5, <2>6 DEF IInv
<1> QED BY <1>4, <1>5

LEMMA SearchStep == IInv /\ search => IInv' /\ ePrev' <= ePrev
<1> SUFFICES ASSUME IInv, search PROVE IInv' /\ ePrev' <= ePrev
  OBVIOUS
<1>1. solution \in Luts /\ ePrev = Score[solution] /\ ePrev \in Nat
  BY ScoreType DEF IInv, TypeInv
<1>2. ASSUME NEW c \in Luts, Accept(c) PROVE IInv' /\ ePrev' <= ePrev
  <2>1. Take(c) /\ StartAfresh /\ UNCHANGED <<pc, was, last>> /\ pc = "loop"
    BY <1>2 DEF Accept, Searching
  <2>2. Score[c] \in Nat /\ ePrev' = Score[c] /\ Score[c] <= ePrev
    BY <1>1, <1>2, ScoreType DEF Accept, Acceptable, Take
  <2> QED BY <2>1, <2>2, TakenStep
<1>3. CASE TryGreedy(1, OneBits)
  BY <1>3, TupleTypes, TryStep
<1>4. CASE TryGreedy(2, TwoBitsFast)
  BY <1>4, TupleTypes, TryStep
<1>5. CASE TryGreedy(3, ThreeBitsFast)
  BY <1>5, TupleTypes, TryStep
<1>6. CASE Fail \/ Finish
  <2>1. /\ UNCHANGED <<solution, ePrev, tried, was, last>>
        /\ pc = "loop" /\ pc' \in {"loop", "done"}
    BY <1>6 DEF Fail, Rejects, Searching, Finish, searchVars
  <2>2. TypeInv'
    BY <2>1 DEF IInv, TypeInv
  <2>3. FlagsHonest'
    BY <2>1 DEF IInv, FlagsHonest
  <2>4. Thorough'
    BY <2>1 DEF IInv, Thorough
  <2> QED BY <1>1, <2>1, <2>2, <2>3, <2>4 DEF IInv
<1> QED BY <1>2, <1>3, <1>4, <1>5, <1>6 DEF search

LEMMA NextInvariant == IInv /\ [Next]_vars => IInv'
<1> SUFFICES ASSUME IInv, [Next]_vars PROVE IInv'
  OBVIOUS
<1>1. CASE search
  BY <1>1, SearchStep
<1>2. CASE perturbHash
  BY <1>2, PerturbStep
<1>3. CASE UNCHANGED vars
  BY <1>3 DEF IInv, TypeInv, FlagsHonest, Thorough, vars, searchVars
<1> QED BY <1>1, <1>2, <1>3, MovesKeep DEF Next

(* In every reachable state the score is that of the solution, flags are    *)
(* honest and moves were thorough.                                          *)
THEOREM Invariance == Spec => []IInv
BY InitInvariant, NextInvariant, PTL DEF Spec

(* The flags of anneal_fpga_hash.cpp are never stale: flips that a flag     *)
(* marks as tried improve this solution by nothing, whatever was tried      *)
(* before, and ePrev is the score of the solution that is printed.          *)
THEOREM FlagsAlwaysHonest == Spec => []FlagsHonest
<1>1. IInv => FlagsHonest
  BY DEF IInv
<1> QED BY <1>1, Invariance, PTL

(* The moves of bit_hash_anneal.hpp look at every hash at the distance that *)
(* they claim to search, for hashes of any shape and sets of any keys.      *)
THEOREM MovesThorough == Spec => []Thorough
<1>1. IInv => Thorough
  BY DEF IInv
<1> QED BY <1>1, Invariance, PTL

(* The search, which keeps no best hash, never gets worse.                  *)
THEOREM SearchNeverWorse == Spec => NeverWorse
<1>1. IInv /\ [Next]_vars => [pc = "loop" => ePrev' <= ePrev]_vars
  <2> SUFFICES ASSUME IInv, Next, pc = "loop" PROVE ePrev' <= ePrev
    OBVIOUS
  <2>1. search
    BY DEF Next, perturbHash, greedyOneBitInPlace, kickOneBit, greedyTwoBitInPlace,
           greedyOneBit, greedyTwoBit, greedyTwoBitFast, greedyThreeBit,
           greedyThreeBitFast, greedyFourBitFast, Move
  <2> QED BY <2>1, SearchStep
<1> QED BY <1>1, Invariance, PTL DEF Spec, NeverWorse
=============================================================================
