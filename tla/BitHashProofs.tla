--------------------------- MODULE BitHashProofs ---------------------------
(***************************************************************************)
(* Facts about hashes, addresses and lut entries, and about powers of two, *)
(* that the proofs about all the components use.                           *)
(***************************************************************************)
EXTENDS BitHash, FiniteSetTheorems, TLAPS

(* Hashes: there are finitely many, and flipping a bit stays among them.    *)

(* A hash is determined by its set of one bits, so there are at most 2^wO.  *)
LEMMA HashesFinite == IsFiniteSet(Hashes) /\ Hashes # {}
<1> DEFINE Ones == [h \in Hashes |-> {t \in Tables : h[t] = 1}]
<1>1. IsFiniteSet(Tables)
  BY FS_Interval, BitHashAssumption DEF Tables
<1>2. IsFiniteSet(SUBSET Tables)
  BY <1>1, FS_SUBSET
<1>3. Ones \in Injection(Hashes, SUBSET Tables)
  <2>1. ASSUME NEW g \in Hashes, NEW h \in Hashes, Ones[g] = Ones[h]
        PROVE  g = h
    <3>1. ASSUME NEW t \in Tables PROVE g[t] = h[t]
      BY <2>1 DEF Hashes
    <3> QED BY <3>1 DEF Hashes
  <2>2. Ones \in [Hashes -> SUBSET Tables]
    OBVIOUS
  <2> HIDE DEF Ones
  <2> QED BY <2>1, <2>2 DEF Injection, IsInjective
<1>4. [t \in Tables |-> 0] \in Hashes
  BY DEF Hashes
<1> QED BY <1>2, <1>3, <1>4, FS_Injection DEF ExistsInjection

(* So are the pairs of a hash and a number of a key, which a score counts.  *)
LEMMA PlacesCounted ==
    ASSUME NEW n \in Nat, NEW P \in SUBSET (Hashes \X (0 .. n-1))
    PROVE  IsFiniteSet(P) /\ Cardinality(P) \in Nat
<1>1. IsFiniteSet(0 .. n-1)
  BY FS_Interval
<1>2. IsFiniteSet(Hashes \X (0 .. n-1))
  BY <1>1, HashesFinite, FS_Product
<1>3. IsFiniteSet(P)
  BY <1>2, FS_Subset
<1> QED BY <1>3, FS_CardinalityType

LEMMA FlippedHash ==
    ASSUME NEW h \in Hashes, NEW t \in Tables
    PROVE  /\ Flipped(h, t) \in Hashes
           /\ Flipped(h, t) # h
           /\ Flipped(Flipped(h, t), t) = h
<1>1. \A g \in Hashes : \A u \in Tables :
         Flipped(g, t)[u] = IF u = t THEN 1 - g[u] ELSE g[u]
  BY DEF Flipped, Hashes
<1>2. \A g \in Hashes : Flipped(g, t) \in Hashes
  BY DEF Flipped, Hashes
<1>3. \A u \in Tables : Flipped(Flipped(h, t), t)[u] = h[u]
  BY <1>1, <1>2 DEF Hashes
<1>4. Flipped(Flipped(h, t), t) = h
  BY <1>2, <1>3 DEF Hashes
<1> QED BY <1>1, <1>2, <1>4 DEF Hashes

(* Every table has an entry at the address of every key.                    *)
LEMMA AddressType ==
    ASSUME NEW t \in Tables, NEW x \in ConcreteKeys
    PROVE  address(t, x) \in Addresses(t) /\ <<t, address(t, x)>> \in LutBits
<1>1. Selectors[t] \in Seq(Inputs)
  BY BitHashAssumption
<1>2. \A i \in DOMAIN Selectors[t] : Selectors[t][i] \in Inputs
  BY <1>1
<1>3. address(t, x) \in Addresses(t)
  BY <1>2 DEF address, Addresses, ConcreteKeys
<1> QED BY <1>3 DEF LutBits

(* Luts: flipping a bit stays among them, and there are finitely many bits. *)
LEMMA FlippedLut ==
    ASSUME NEW l \in Luts, NEW b \in LutBits
    PROVE  /\ Flipped(l, b) \in Luts
           /\ \A c \in LutBits : Flipped(l, b)[c] = IF c = b THEN 1 - l[c] ELSE l[c]
           /\ Flipped(Flipped(l, b), b) = l
<1>1. \A k \in Luts : \A c \in LutBits :
         Flipped(k, b)[c] = IF c = b THEN 1 - k[c] ELSE k[c]
  BY DEF Flipped, Luts
<1>2. \A k \in Luts : Flipped(k, b) \in Luts
  BY DEF Flipped, Luts
<1>3. \A c \in LutBits : Flipped(Flipped(l, b), b)[c] = l[c]
  BY <1>1, <1>2 DEF Luts
<1> QED BY <1>1, <1>2, <1>3 DEF Luts

LEMMA LutBitsFinite == IsFiniteSet(LutBits)
<1>1. ASSUME NEW t \in Tables PROVE IsFiniteSet({t} \X Addresses(t))
  <2> DEFINE Lines == DOMAIN Selectors[t]
             Ones  == [a \in Addresses(t) |-> {i \in Lines : a[i] = 1}]
  <2>1. IsFiniteSet(Lines)
    <3>1. Selectors[t] \in Seq(Inputs)
      BY BitHashAssumption
    <3>2. Lines = 1 .. Len(Selectors[t]) /\ Len(Selectors[t]) \in Nat
      BY <3>1
    <3> QED BY <3>2, FS_Interval
  <2>2. IsFiniteSet(SUBSET Lines)
    BY <2>1, FS_SUBSET
  <2>3. Ones \in Injection(Addresses(t), SUBSET Lines)
    <3>1. ASSUME NEW a \in Addresses(t), NEW c \in Addresses(t), Ones[a] = Ones[c]
          PROVE  a = c
      <4>1. ASSUME NEW i \in Lines PROVE a[i] = c[i]
        BY <3>1 DEF Addresses
      <4> QED BY <4>1 DEF Addresses
    <3>2. Ones \in [Addresses(t) -> SUBSET Lines]
      OBVIOUS
    <3> HIDE DEF Ones
    <3> QED BY <3>1, <3>2 DEF Injection, IsInjective
  <2>4. IsFiniteSet(Addresses(t))
    BY <2>2, <2>3, FS_Injection
  <2> QED BY <2>4, FS_Singleton, FS_Product
<1> DEFINE Entries == {{t} \X Addresses(t) : t \in Tables}
           f       == [t \in Tables |-> {t} \X Addresses(t)]
<1>2. IsFiniteSet(Tables)
  BY FS_Interval, BitHashAssumption DEF Tables
<1>3. f \in Surjection(Tables, Entries)
  BY DEF Surjection
<1>4. IsFiniteSet(Entries)
  <2> HIDE DEF Entries, f
  <2> QED BY <1>2, <1>3, FS_Surjection
<1> QED BY <1>1, <1>4, FS_UNION DEF LutBits

-----------------------------------------------------------------------------
(***************************************************************************)
(* Least elements, without which CHOOSE is arbitrary: of numbers, for Min  *)
(* and Max, and of bits in the order of EntryToKey.                        *)
(***************************************************************************)

(* The minimal counterexample to a claim about the subsets of a finite set. *)
LEMMA SmallestSubset ==
    ASSUME NEW S, IsFiniteSet(S), NEW Bad \in SUBSET (SUBSET S), Bad # {}
    PROVE  \E T \in Bad : \A U \in SUBSET T : U # T => U \notin Bad
<1>1. IsWellFoundedOn(StrictSubsetOrdering(S), FiniteSubsetsOf(S))
  BY FS_StrictSubsetOrderingWellFounded
<1>2. Bad \subseteq FiniteSubsetsOf(S)
  BY FS_FiniteSubsetsOfFinite
<1>3. PICK T \in Bad : \A U \in Bad : <<U, T>> \notin StrictSubsetOrdering(S)
  BY <1>1, <1>2, WFMin
<1>4. ASSUME NEW U \in SUBSET T, U # T PROVE U \notin Bad
  BY <1>3, <1>4 DEF StrictSubsetOrdering
<1> QED BY <1>3, <1>4

(* A transitive and total relation has a least element in any set that is   *)
(* finite and not empty: a set without would have a smaller one without.    *)
LEMMA LeastExists ==
    ASSUME NEW S, IsFiniteSet(S), S # {}, NEW R,
           \A x, y, z \in S : <<x, y>> \in R /\ <<y, z>> \in R => <<x, z>> \in R,
           \A x, y \in S : x # y => <<x, y>> \in R \/ <<y, x>> \in R
    PROVE  \E x \in S : \A y \in S \ {x} : <<x, y>> \in R
<1> DEFINE Has(T) == \E x \in T : \A y \in T \ {x} : <<x, y>> \in R
           Bad    == {T \in SUBSET S : T # {} /\ ~ Has(T)}
<1>1. SUFFICES ASSUME S \in Bad PROVE FALSE
  OBVIOUS
<1>2. PICK T \in Bad : \A U \in SUBSET T : U # T => U \notin Bad
  <2> HIDE DEF Bad
  <2>1. Bad \in SUBSET (SUBSET S)
    BY DEF Bad
  <2> QED BY <1>1, <2>1, SmallestSubset
<1>3. PICK z \in T : TRUE
  OBVIOUS
<1> DEFINE U == T \ {z}
<1>4. U \notin Bad /\ U # {}
  BY <1>2, <1>3
<1>5. PICK x \in U : \A y \in U \ {x} : <<x, y>> \in R
  BY <1>4
<1>6. CASE <<x, z>> \in R
  BY <1>2, <1>5, <1>6
<1>7. CASE <<z, x>> \in R
  <2>1. \A y \in T \ {z} : <<z, y>> \in R
    BY <1>5, <1>7
  <2> QED BY <1>2, <1>3, <2>1
<1> QED BY <1>3, <1>5, <1>6, <1>7

LEMMA LeastNumber ==
    ASSUME NEW S \in SUBSET Int, IsFiniteSet(S), S # {}
    PROVE  \E m \in S : \A x \in S : m <= x
<1> DEFINE R == {p \in Int \X Int : p[1] <= p[2]}
<1>1. \A x, y \in S : <<x, y>> \in R <=> x <= y
  OBVIOUS
<1> HIDE DEF R
<1>2. PICK m \in S : \A x \in S \ {m} : <<m, x>> \in R
  <2>1. \A x, y, z \in S : <<x, y>> \in R /\ <<y, z>> \in R => <<x, z>> \in R
    BY <1>1
  <2>2. \A x, y \in S : x # y => <<x, y>> \in R \/ <<y, x>> \in R
    BY <1>1
  <2> QED BY <2>1, <2>2, LeastExists
<1>3. ASSUME NEW x \in S PROVE m <= x
  <2>1. x # m => <<m, x>> \in R
    BY <1>2
  <2> QED BY <1>1, <2>1
<1> QED BY <1>3

LEMMA GreatestNumber ==
    ASSUME NEW S \in SUBSET Int, IsFiniteSet(S), S # {}
    PROVE  \E m \in S : \A x \in S : m >= x
<1> DEFINE R == {p \in Int \X Int : p[1] >= p[2]}
<1>1. \A x, y \in S : <<x, y>> \in R <=> x >= y
  OBVIOUS
<1> HIDE DEF R
<1>2. PICK m \in S : \A x \in S \ {m} : <<m, x>> \in R
  <2>1. \A x, y, z \in S : <<x, y>> \in R /\ <<y, z>> \in R => <<x, z>> \in R
    BY <1>1
  <2>2. \A x, y \in S : x # y => <<x, y>> \in R \/ <<y, x>> \in R
    BY <1>1
  <2> QED BY <2>1, <2>2, LeastExists
<1>3. ASSUME NEW x \in S PROVE m >= x
  <2>1. x # m => <<m, x>> \in R
    BY <1>2
  <2> QED BY <1>1, <2>1
<1> QED BY <1>3

(* Natural numbers need not be finitely many.                               *)
LEMMA LeastNatural ==
    ASSUME NEW S \in SUBSET Nat, S # {}
    PROVE  \E m \in S : \A x \in S : m <= x
<1>1. PICK n \in S : TRUE
  OBVIOUS
<1> DEFINE D == {x \in S : x <= n}
<1>2. IsFiniteSet(D)
  <2>1. D \in SUBSET Nat /\ \A x \in D : x <= n
    OBVIOUS
  <2> HIDE DEF D
  <2> QED BY <2>1, FS_BoundedSetOfNaturals
<1>3. D \in SUBSET Int /\ D # {}
  <2>1. n \in D
    BY <1>1
  <2>2. \A x \in D : x \in Int
    OBVIOUS
  <2> HIDE DEF D
  <2> QED BY <2>1, <2>2
<1>4. PICK m \in D : \A x \in D : m <= x
  <2> HIDE DEF D
  <2> QED BY <1>2, <1>3, LeastNumber
<1>5. ASSUME NEW x \in S PROVE m <= x
  <2>1. x <= n => m <= x
    BY <1>4
  <2> QED BY <2>1
<1> QED BY <1>5

(* The bits are in a strict total order.                                    *)
LEMMA BitType ==
    ASSUME NEW b \in LutBits
    PROVE  /\ b[1] \in Tables /\ b = <<b[1], b[2]>>
           /\ \E n \in Nat : DOMAIN b[2] = 1 .. n
           /\ b[2] \in [DOMAIN Selectors[b[1]] -> {0, 1}]
<1>1. PICK t \in Tables : b \in {t} \X Addresses(t)
  BY DEF LutBits
<1>2. PICK a \in Addresses(t) : b = <<t, a>>
  BY <1>1
<1>3. Selectors[t] \in Seq(Inputs)
  BY BitHashAssumption
<1>4. a \in [DOMAIN Selectors[t] -> {0, 1}]
  BY DEF Addresses
<1>5. DOMAIN Selectors[t] = 1 .. Len(Selectors[t]) /\ Len(Selectors[t]) \in Nat
  BY <1>3
<1> QED BY <1>2, <1>4, <1>5

(* In one table the highest address line in which they differ decides.      *)
LEMMA SameTable ==
    ASSUME NEW b \in LutBits, NEW c \in LutBits, b[1] = c[1], NEW n \in Nat, DOMAIN b[2] = 1 .. n
    PROVE  /\ b[2] \in [1 .. n -> {0, 1}] /\ c[2] \in [1 .. n -> {0, 1}]
           /\ BitPrecedes(b, c) <=>
                 \E i \in 1 .. n : /\ b[2][i] < c[2][i]
                                  /\ \A j \in 1 .. n : j > i => b[2][j] = c[2][j]
<1>1. b[2] \in [1 .. n -> {0, 1}] /\ c[2] \in [1 .. n -> {0, 1}]
  BY BitType
<1>2. ~ (b[1] < c[1])
  BY BitType DEF Tables
<1> QED BY <1>1, <1>2 DEF BitPrecedes

LEMMA BitOrder ==
    /\ \A b \in LutBits : ~ BitPrecedes(b, b)
    /\ \A b, c, d \in LutBits : BitPrecedes(b, c) /\ BitPrecedes(c, d) => BitPrecedes(b, d)
    /\ \A b, c \in LutBits : b # c => BitPrecedes(b, c) \/ BitPrecedes(c, b)
<1>1. ASSUME NEW b \in LutBits PROVE ~ BitPrecedes(b, b)
  <2>1. b[1] \in Int /\ \A i \in DOMAIN b[2] : b[2][i] \in Int
    BY BitType DEF Tables
  <2> QED BY <2>1 DEF BitPrecedes
<1>2. ASSUME NEW b \in LutBits, NEW c \in LutBits, NEW d \in LutBits,
             BitPrecedes(b, c), BitPrecedes(c, d)
      PROVE  BitPrecedes(b, d)
  <2>1. b[1] \in Int /\ c[1] \in Int /\ d[1] \in Int
    BY BitType DEF Tables
  <2>2. CASE b[1] = c[1] /\ c[1] = d[1]
    <3>1. PICK n \in Nat : DOMAIN b[2] = 1 .. n
      BY BitType
    <3>2. /\ b[2] \in [1 .. n -> {0, 1}]
          /\ c[2] \in [1 .. n -> {0, 1}]
          /\ d[2] \in [1 .. n -> {0, 1}]
          /\ DOMAIN c[2] = 1 .. n
      BY <2>2, <3>1, SameTable
    <3>3. PICK i \in 1 .. n : b[2][i] < c[2][i] /\ \A j \in 1 .. n : j > i => b[2][j] = c[2][j]
      BY <1>2, <2>2, <3>1, <3>2, SameTable
    <3>4. PICK k \in 1 .. n : c[2][k] < d[2][k] /\ \A j \in 1 .. n : j > k => c[2][j] = d[2][j]
      BY <1>2, <2>2, <3>1, <3>2, SameTable
    <3>5. PICK m \in {i, k} : m >= i /\ m >= k
      OBVIOUS
    <3>6. b[2][m] < d[2][m] /\ \A j \in 1 .. n : j > m => b[2][j] = d[2][j]
      BY <3>2, <3>3, <3>4, <3>5
    <3> QED BY <2>2, <3>1, <3>5, <3>6, SameTable
  <2>3. CASE b[1] # c[1] \/ c[1] # d[1]
    BY <1>2, <2>1, <2>3 DEF BitPrecedes
  <2> QED BY <2>2, <2>3
<1>3. ASSUME NEW b \in LutBits, NEW c \in LutBits, b # c
      PROVE  BitPrecedes(b, c) \/ BitPrecedes(c, b)
  <2>1. b[1] \in Int /\ c[1] \in Int
    BY BitType DEF Tables
  <2>2. CASE b[1] = c[1]
    <3>1. PICK n \in Nat : DOMAIN b[2] = 1 .. n
      BY BitType
    <3>2. /\ b[2] \in [1 .. n -> {0, 1}]
          /\ c[2] \in [1 .. n -> {0, 1}]
      BY <2>2, <3>1, SameTable
    <3> DEFINE D == {i \in 1 .. n : b[2][i] # c[2][i]}
    <3>3. b[2] # c[2]
      BY <1>3, <2>2, BitType
    <3>4. D # {}
      BY <3>2, <3>3
    <3>5. IsFiniteSet(D)
      <4>1. IsFiniteSet(1 .. n) /\ D \in SUBSET (1 .. n)
        BY FS_Interval
      <4> HIDE DEF D
      <4> QED BY <4>1, FS_Subset
    <3>6. D \in SUBSET Int
      OBVIOUS
    <3>7. PICK i \in D : \A j \in D : i >= j
      <4> HIDE DEF D
      <4> QED BY <3>4, <3>5, <3>6, GreatestNumber
    <3>8. \A j \in 1 .. n : j > i => b[2][j] = c[2][j]
      BY <3>7
    <3>9. b[2][i] < c[2][i] \/ c[2][i] < b[2][i]
      BY <3>2
    <3> QED BY <2>2, <3>1, <3>2, <3>7, <3>8, <3>9, SameTable
  <2>3. CASE b[1] # c[1]
    BY <2>1, <2>3 DEF BitPrecedes
  <2> QED BY <2>2, <2>3
<1> QED BY <1>1, <1>2, <1>3

(* Any bits have a first one.                                               *)
LEMMA LeastBit ==
    ASSUME NEW S \in SUBSET LutBits, S # {}
    PROVE  \E b \in S : \A c \in S \ {b} : BitPrecedes(b, c)
<1> DEFINE R == {p \in LutBits \X LutBits : BitPrecedes(p[1], p[2])}
<1>1. \A b, c \in LutBits : <<b, c>> \in R <=> BitPrecedes(b, c)
  OBVIOUS
<1>2. IsFiniteSet(S)
  BY LutBitsFinite, FS_Subset
<1> HIDE DEF R
<1>3. PICK b \in S : \A c \in S \ {b} : <<b, c>> \in R
  <2>1. \A x, y, z \in S : <<x, y>> \in R /\ <<y, z>> \in R => <<x, z>> \in R
    BY <1>1, BitOrder
  <2>2. \A x, y \in S : x # y => <<x, y>> \in R \/ <<y, x>> \in R
    BY <1>1, BitOrder
  <2> QED BY <1>2, <2>1, <2>2, LeastExists
<1> QED BY <1>1, <1>3

-----------------------------------------------------------------------------
(* Numbers.  2^t is the number of subsets of the t numbers below t.         *)
LEMMA Below == ASSUME NEW t \in Nat
               PROVE  /\ IsFiniteSet(0 .. t-1) /\ Cardinality(0 .. t-1) = t
                      /\ IsFiniteSet(SUBSET (0 .. t-1)) /\ Cardinality(SUBSET (0 .. t-1)) = 2^t
<1>1. IsFiniteSet(0 .. t-1) /\ Cardinality(0 .. t-1) = t
  <2>1. 0 \in Int /\ t-1 \in Int /\ (0 > t-1 <=> t = 0) /\ t-1-0+1 = t
    OBVIOUS
  <2> QED BY <2>1, FS_Interval
<1> QED BY <1>1, FS_SUBSET

(* The subsets of the numbers below t+1 are those without t and, as many,   *)
(* those with t.                                                            *)
LEMMA Powers ==
    /\ 2^0 = 1
    /\ \A t \in Nat : 2^t \in Nat \ {0} /\ 2^(t+1) = 2 * 2^t
<1>1. 2^0 = 1
  <2>0. 0 .. 0-1 = {} /\ SUBSET {} = {{}}
    OBVIOUS
  <2>1. Cardinality({{}}) = 1
    BY FS_Singleton
  <2>2. 0 \in Nat /\ Cardinality(SUBSET (0 .. 0-1)) = 2^0
    BY Below
  <2> QED BY <2>0, <2>1, <2>2
<1>2. ASSUME NEW t \in Nat PROVE 2^t \in Nat \ {0} /\ 2^(t+1) = 2 * 2^t
  <2> DEFINE A == SUBSET (0 .. t-1)
             B == SUBSET (0 .. t)
             C == {s \in B : t \in s}
  <2>1. IsFiniteSet(A) /\ Cardinality(A) = 2^t
    BY Below
  <2>2. IsFiniteSet(B) /\ Cardinality(B) = 2^(t+1)
    <3>1. ASSUME NEW u \in Nat, u-1 = t
          PROVE  IsFiniteSet(SUBSET (0 .. t)) /\ Cardinality(SUBSET (0 .. t)) = 2^u
      BY <3>1, Below
    <3>2. PICK u \in Nat : u = t+1 /\ u-1 = t
      OBVIOUS
    <3>3. IsFiniteSet(B) /\ Cardinality(B) = 2^u
      BY <3>1, <3>2
    <3> HIDE DEF B
    <3> QED BY <3>2, <3>3
  <2>3. B = A \cup C /\ A \cap C = {}
    <3>1. \A i : i \in 0 .. t <=> i \in 0 .. t-1 \/ i = t
      OBVIOUS
    <3>2. t \notin 0 .. t-1
      OBVIOUS
    <3> QED BY <3>1, <3>2
  <2>4. IsFiniteSet(C) /\ C \subseteq B
    BY <2>2, FS_Subset
  <2>5. Cardinality(C) = Cardinality(A)
    <3> DEFINE f == [s \in A |-> s \cup {t}]
    <3>1. f \in Bijection(A, C)
      <4>1. t \notin 0 .. t-1 /\ \A i : i \in 0 .. t <=> i \in 0 .. t-1 \/ i = t
        OBVIOUS
      <4>2. ASSUME NEW s \in A PROVE f[s] \in C
        BY <4>1
      <4>3. ASSUME NEW s \in A, NEW u \in A, f[s] = f[u] PROVE s = u
        BY <4>1, <4>3
      <4>4. ASSUME NEW c \in C PROVE \E s \in A : f[s] = c
        <5>1. c \ {t} \in A
          BY <4>1
        <5>2. f[c \ {t}] = c
          BY <5>1
        <5> QED BY <5>1, <5>2
      <4> HIDE DEF A, C
      <4>5. f \in [A -> C]
        BY <4>2
      <4> HIDE DEF f
      <4> QED BY <4>3, <4>4, <4>5 DEF Bijection, Injection, Surjection, IsInjective
    <3> HIDE DEF f
    <3>2. ExistsBijection(A, C)
      BY <3>1 DEF ExistsBijection
    <3> HIDE DEF A, C
    <3> QED BY <2>1, <3>2, FS_Bijection
  <2> HIDE DEF A, B, C
  <2>6. Cardinality(A) \in Nat /\ Cardinality(A) # 0
    <3>1. Cardinality(A) \in Nat
      BY <2>1, FS_CardinalityType
    <3>2. {} \in A
      BY DEF A
    <3> QED BY <2>1, <3>1, <3>2, FS_EmptySet
  <2>7. Cardinality(B) = Cardinality(A) + Cardinality(C) - Cardinality({})
    BY <2>1, <2>3, <2>4, FS_Union
  <2> QED BY <2>1, <2>2, <2>5, <2>6, <2>7, FS_EmptySet
<1> QED BY <1>1, <1>2

(* Quotients and remainders, of numbers that are not constants.             *)
LEMMA DivMod ==
    ASSUME NEW m \in Nat, NEW w \in Nat \ {0}
    PROVE  m % w \in 0 .. w-1 /\ m \div w \in Nat /\ m = w * (m \div w) + (m % w)
OBVIOUS

LEMMA MultipleBelow ==
    ASSUME NEW w \in Nat, NEW q \in Int, NEW p \in Int, q < p
    PROVE  q * w + w <= p * w
<1>1. PICK d \in Nat : p = q + 1 + d
  <2>1. p - q - 1 \in Nat
    OBVIOUS
  <2> QED BY <2>1
<1>2. p * w = q * w + w + d * w
  BY <1>1
<1>3. d * w \in Nat
  OBVIOUS
<1> QED BY <1>2, <1>3

LEMMA ModUnique ==
    ASSUME NEW w \in Nat \ {0}, NEW q \in Nat, NEW r \in 0 .. w-1,
           NEW m \in Nat, m = q * w + r
    PROVE  m % w = r
<1> DEFINE p == m \div w
           s == m % w
<1>1. s \in 0 .. w-1 /\ p \in Nat /\ m = w * p + s
  BY DivMod
<1>2. q * w + r = p * w + s
  BY <1>1
<1>3. q * w \in Nat /\ p * w \in Nat
  BY <1>1
<1> HIDE DEF s, p
<1>4. CASE q < p
  <2>1. q * w + w <= p * w
    BY <1>1, <1>4, MultipleBelow
  <2> QED BY <1>1, <1>2, <1>3, <2>1
<1>5. CASE p < q
  <2>1. p * w + w <= q * w
    BY <1>1, <1>5, MultipleBelow
  <2> QED BY <1>1, <1>2, <1>3, <2>1
<1>6. CASE p = q
  BY <1>1, <1>2, <1>3, <1>6 DEF s
<1> QED BY <1>1, <1>4, <1>5, <1>6

(* One more bit of n.                                                       *)
LEMMA ModStep ==
    ASSUME NEW n \in Nat, NEW q \in Nat \ {0}
    PROVE  /\ n % (2 * q) = ((n \div q) % 2) * q + (n % q)
           /\ (n \div q) % 2 \in {0, 1}
           /\ n % q \in 0 .. q-1
<1> DEFINE p == n \div q
           r == n % q
           v == p % 2
           u == p \div 2
<1>1. r \in 0 .. q-1 /\ p \in Nat /\ n = q * p + r
  BY DivMod
<1>2. v \in 0 .. 1 /\ u \in Nat /\ p = 2 * u + v
  <2> HIDE DEF p
  <2> QED BY <1>1, DivMod
<1> HIDE DEF p, r, v, u
<1>3. v * q \in Nat /\ v * q <= q
  <2>1. v = 0 \/ v = 1
    BY <1>2
  <2>2. \A k \in Nat : 0 * k = 0 /\ 1 * k = k
    OBVIOUS
  <2> QED BY <2>1, <2>2
<1>4. PICK w \in Nat \ {0}, m \in Nat : w = 2 * q /\ m = v * q + r
  <2>1. 2 * q \in Nat \ {0} /\ v * q + r \in Nat
    BY <1>1, <1>3
  <2> QED BY <2>1
<1>5. m \in 0 .. w-1 /\ n = u * w + m
  <2>1. m < w
    BY <1>1, <1>3, <1>4
  <2>2. q * (2 * u + v) = u * (2 * q) + v * q
    BY <1>2
  <2> QED BY <1>1, <1>2, <1>4, <2>1, <2>2
<1>6. n % w = m
  BY <1>2, <1>5, ModUnique
<1> QED BY <1>1, <1>2, <1>4, <1>6 DEF p, r, v
=============================================================================
