---------------------------- MODULE CnfProofs -------------------------------
(***************************************************************************)
(* Proofs about the encoding of ToCnf and its two users.  The encoding is  *)
(* exact for any keys and any hash.  SolveCnf, for every set of problems   *)
(* and of taps: answers are solutions and obey the bound, and taps are     *)
(* given up only if they are hopeless.  Polish, for every hash, set of     *)
(* concrete keys and sequence of levels: what is returned is the argument  *)
(* or a perfect hash, and a level is given up only if it is hopeless.      *)
(***************************************************************************)
EXTENDS Polish, SolveCnf, BitHashProofs

-----------------------------------------------------------------------------
(***************************************************************************)
(* The encoding of to_cnf is exact: an assignment of the variables         *)
(* satisfies the clauses of a pair of keys if and only if, once it is      *)
(* substituted into the luts, the keys have different hashes.  This is for *)
(* every width, wiring T and key set K, whatever is decided beforehand.    *)
(***************************************************************************)

(* What to_cnf may be given.                                                *)
ProblemOf(T, K) ==
    /\ wI \in Nat /\ wO \in Nat
    /\ T \in [0 .. wO-1 -> Seq(0 .. wI-1)]
    /\ Cardinality(DOMAIN K) \in Nat \ {0}
    /\ K \in [0 .. Cardinality(DOMAIN K)-1 -> [0 .. wI-1 -> {-1, 0, 1}]]
    /\ \A j, k \in DOMAIN K :
          j # k => Cnf(T, K)!variants(K[j]) \cap Cnf(T, K)!variants(K[k]) = {}

(* What satisfying a set of clauses is.                                     *)
Assignments(T, K, lut) == [Cnf(T, K)!Variables(lut) -> {0, 1}]

LEMMA Positions ==
    ASSUME NEW T, NEW K, ProblemOf(T, K)
    PROVE  /\ Cnf(T, K)!KeyIds = DOMAIN K
           /\ \A k \in DOMAIN K : k \in Int
           /\ Cnf(T, K)!Tables = 0 .. wO-1
           /\ Cnf(T, K)!Inputs = 0 .. wI-1
BY DEF ProblemOf, Cnf!KeyIds, Cnf!Tables, Cnf!Inputs

(* The first variant of a key is a concrete key that calcHash looks at.     *)
LEMMA FirstIsConcrete ==
    ASSUME NEW T, NEW K, ProblemOf(T, K), NEW k \in DOMAIN K
    PROVE  /\ Cnf(T, K)!First(k) \in Cnf(T, K)!ConcreteKeys
           /\ Cnf(T, K)!First(k) \in Cnf(T, K)!variants(K[k])
<1>1. K[k] \in [Cnf(T, K)!Inputs -> {-1, 0, 1}]
  BY Positions DEF ProblemOf
<1> QED BY <1>1 DEF Cnf!First, Cnf!FirstVariant, Cnf!ConcreteKeys, Cnf!variants

LEMMA EntryType ==
    ASSUME NEW T, NEW K, ProblemOf(T, K), NEW k \in DOMAIN K, NEW t \in Cnf(T, K)!Tables
    PROVE  Cnf(T, K)!Entry(t, Cnf(T, K)!First(k)) \in Cnf(T, K)!LutBits
<1> DEFINE x == Cnf(T, K)!First(k)
           I == Cnf(T, K)!Inputs
<1>1. x \in [I -> {0, 1}]
  BY FirstIsConcrete DEF Cnf!ConcreteKeys
<1>2. T[t] \in Seq(I)
  BY Positions DEF ProblemOf
<1> HIDE DEF x, I
<1>3. \A i \in DOMAIN T[t] : T[t][i] \in I
  BY <1>2
<1>4. Cnf(T, K)!address(t, x) \in Cnf(T, K)!Addresses(t)
  BY <1>1, <1>3 DEF Cnf!address, Cnf!Addresses
<1>5. Cnf(T, K)!Entry(t, x) \in Cnf(T, K)!LutBits
  BY <1>4 DEF Cnf!Entry, Cnf!LutBits
<1> QED BY <1>5 DEF x

(* An undecided entry that a key reads has a variable.                      *)
LEMMA ReadHasVariable ==
    ASSUME NEW T, NEW K, ProblemOf(T, K), NEW lut, NEW k \in DOMAIN K,
           NEW t \in Cnf(T, K)!Tables,
           lut[Cnf(T, K)!Entry(t, Cnf(T, K)!First(k))] = -1
    PROVE  Cnf(T, K)!Entry(t, Cnf(T, K)!First(k)) \in Cnf(T, K)!Variables(lut)
<1> DEFINE x == Cnf(T, K)!First(k)
           b == Cnf(T, K)!Entry(t, x)
<1>1. b \in Cnf(T, K)!LutBits
  BY EntryType
<1>2. <<k, x, t>> \in Cnf(T, K)!Visits
  BY FirstIsConcrete, Positions DEF Cnf!Visits
<1>3. <<k, x, t>> \in Cnf(T, K)!VisitsOf(b)
  BY <1>2, FirstIsConcrete DEF Cnf!VisitsOf
<1> QED BY <1>1, <1>3 DEF Cnf!Variables

(* What a key reads after the substitution is decided: it was before, or    *)
(* the assignment decides it.                                               *)
LEMMA ReadIsSubstituted ==
    ASSUME NEW T, NEW K, ProblemOf(T, K),
           NEW lut \in Cnf(T, K)!PartialLuts, NEW a \in Assignments(T, K, lut),
           NEW k \in DOMAIN K, NEW t \in Cnf(T, K)!Tables
    PROVE  LET b == Cnf(T, K)!Entry(t, Cnf(T, K)!First(k))
               m == Cnf(T, K)!substitute(lut, a)
           IN  /\ m[b] \in {0, 1}
               /\ lut[b] # -1 => m[b] = lut[b]
               /\ lut[b] = -1 => m[b] = a[b] /\ b \in Cnf(T, K)!Variables(lut)
<1> DEFINE b == Cnf(T, K)!Entry(t, Cnf(T, K)!First(k))
           m == Cnf(T, K)!substitute(lut, a)
<1>1. b \in Cnf(T, K)!LutBits /\ lut[b] \in {-1, 0, 1}
  BY EntryType DEF Cnf!PartialLuts
<1>2. DOMAIN a = Cnf(T, K)!Variables(lut)
  BY DEF Assignments
<1>3. m[b] = IF b \in Cnf(T, K)!Variables(lut) THEN a[b] ELSE lut[b]
  BY <1>1, <1>2 DEF Cnf!substitute
<1>4. CASE lut[b] = -1
  <2>1. b \in Cnf(T, K)!Variables(lut)
    BY <1>4, ReadHasVariable
  <2> QED BY <2>1, <1>3, <1>4 DEF Assignments
<1>5. CASE lut[b] # -1
  <2>1. b \notin Cnf(T, K)!Variables(lut)
    BY <1>5 DEF Cnf!Variables
  <2> QED BY <2>1, <1>1, <1>3, <1>5
<1> QED BY <1>4, <1>5

-----------------------------------------------------------------------------
(* One clause of a pair: the way s says which value every table avoids.     *)
Both(T, K, t, j, k) ==
    {Cnf(T, K)!Entry(t, Cnf(T, K)!First(j)), Cnf(T, K)!Entry(t, Cnf(T, K)!First(k))}

Ways(T, K, lut, j, k) ==
    {s \in Cnf(T, K)!Hashes :
        \A t \in Cnf(T, K)!Tables : \A b \in Both(T, K, t, j, k) : lut[b] # s[t]}

ClauseOf(T, K, lut, j, k, s) ==
    UNION {{<<b, s[t]>> : b \in {e \in Both(T, K, t, j, k) : lut[e] = -1}} :
              t \in Cnf(T, K)!Tables}

LEMMA PairClausesByWays ==
    ASSUME NEW T, NEW K, NEW lut, NEW j, NEW k
    PROVE  Cnf(T, K)!PairClauses(lut, j, k) =
              {ClauseOf(T, K, lut, j, k, s) : s \in Ways(T, K, lut, j, k)}
BY DEF Cnf!PairClauses, ClauseOf, Ways, Both

LEMMA LiteralOf ==
    ASSUME NEW T, NEW K, NEW lut, NEW j, NEW k, NEW s, NEW l
    PROVE  l \in ClauseOf(T, K, lut, j, k, s) <=>
              \E t \in Cnf(T, K)!Tables : \E b \in Both(T, K, t, j, k) :
                 lut[b] = -1 /\ l = <<b, s[t]>>
BY DEF ClauseOf

(* The hash of key k, once a is substituted.                                *)
Hashed(T, K, lut, a, k) ==
    Cnf(T, K)!HashOf(Cnf(T, K)!substitute(lut, a), Cnf(T, K)!First(k))

LEMMA HashedBits ==
    ASSUME NEW T, NEW K, NEW m, NEW x
    PROVE  Cnf(T, K)!HashOf(m, x) = [t \in Cnf(T, K)!Tables |-> m[Cnf(T, K)!Entry(t, x)]]
BY DEF Cnf!HashOf, Cnf!Entry

(* Soundness: if the hashes were equal, the clause for the way that avoids  *)
(* the complement of their common value would have no true literal.         *)
LEMMA PairSound ==
    ASSUME NEW T, NEW K, ProblemOf(T, K),
           NEW lut \in Cnf(T, K)!PartialLuts, NEW a \in Assignments(T, K, lut),
           NEW j \in DOMAIN K, NEW k \in DOMAIN K,
           Cnf(T, K)!Satisfies(a, Cnf(T, K)!PairClauses(lut, j, k))
    PROVE  Hashed(T, K, lut, a, j) # Hashed(T, K, lut, a, k)
<1> DEFINE m       == Cnf(T, K)!substitute(lut, a)
           Tab     == Cnf(T, K)!Tables
           Read1(i, t) == Cnf(T, K)!Entry(t, Cnf(T, K)!First(i))
           s       == [t \in Tab |-> 1 - m[Read1(j, t)]]
<1> SUFFICES ASSUME Hashed(T, K, lut, a, j) = Hashed(T, K, lut, a, k)
             PROVE  FALSE
  OBVIOUS
<1>1. \A t \in Tab : m[Read1(j, t)] = m[Read1(k, t)]
  <2> TAKE t \in Tab
  <2>1. Hashed(T, K, lut, a, j)[t] = Hashed(T, K, lut, a, k)[t]
    OBVIOUS
  <2> QED BY <2>1, HashedBits DEF Hashed
<1>2. \A t \in Tab : \A b \in Both(T, K, t, j, k) :
         /\ m[b] \in {0, 1}
         /\ m[b] = m[Read1(j, t)]
         /\ lut[b] # -1 => m[b] = lut[b]
         /\ lut[b] = -1 => m[b] = a[b]
  <2> TAKE t \in Tab
  <2> TAKE b \in Both(T, K, t, j, k)
  <2>1. CASE b = Read1(j, t)
    BY <2>1, ReadIsSubstituted
  <2>2. CASE b = Read1(k, t)
    BY <2>2, <1>1, ReadIsSubstituted
  <2> QED BY <2>1, <2>2 DEF Both
<1>3. \A t \in Tab : m[Read1(j, t)] \in {0, 1}
  BY ReadIsSubstituted
<1> HIDE DEF m, Read1
<1>4. s \in Cnf(T, K)!Hashes
  BY <1>3 DEF Cnf!Hashes
<1>5. \A t \in Tab : \A b \in Both(T, K, t, j, k) : m[b] = 1 - s[t] /\ s[t] \in {0, 1}
  BY <1>2, <1>3
<1> HIDE DEF s
<1>6. s \in Ways(T, K, lut, j, k)
  <2>1. ASSUME NEW t \in Tab, NEW b \in Both(T, K, t, j, k) PROVE lut[b] # s[t]
    BY <1>2, <1>5
  <2> QED BY <1>4, <2>1 DEF Ways
<1>7. PICK l \in ClauseOf(T, K, lut, j, k, s) : a[l[1]] = l[2]
  BY <1>6, PairClausesByWays DEF Cnf!Satisfies
<1>8. PICK t \in Tab : \E b \in Both(T, K, t, j, k) : lut[b] = -1 /\ l = <<b, s[t]>>
  BY <1>7, LiteralOf
<1>9. PICK b \in Both(T, K, t, j, k) : lut[b] = -1 /\ l = <<b, s[t]>>
  BY <1>8
<1>10. a[b] = s[t]
  BY <1>7, <1>9
<1> QED BY <1>2, <1>5, <1>9, <1>10

(* Completeness: a table in which the hashes differ has, for every way s,   *)
(* an entry with the value s says; it is undecided, or the way would not be *)
(* there, and so it makes the clause true.                                  *)
LEMMA PairComplete ==
    ASSUME NEW T, NEW K, ProblemOf(T, K),
           NEW lut \in Cnf(T, K)!PartialLuts, NEW a \in Assignments(T, K, lut),
           NEW j \in DOMAIN K, NEW k \in DOMAIN K,
           Hashed(T, K, lut, a, j) # Hashed(T, K, lut, a, k)
    PROVE  Cnf(T, K)!Satisfies(a, Cnf(T, K)!PairClauses(lut, j, k))
<1> DEFINE m       == Cnf(T, K)!substitute(lut, a)
           Tab     == Cnf(T, K)!Tables
           Read1(i, t) == Cnf(T, K)!Entry(t, Cnf(T, K)!First(i))
<1>1. PICK t \in Tab : m[Read1(j, t)] # m[Read1(k, t)]
  BY HashedBits DEF Hashed
<1>2. SUFFICES ASSUME NEW s \in Ways(T, K, lut, j, k)
               PROVE  \E l \in ClauseOf(T, K, lut, j, k, s) : a[l[1]] = l[2]
  BY <1>2, PairClausesByWays DEF Cnf!Satisfies
<1>3. s[t] \in {0, 1}
  BY DEF Ways, Cnf!Hashes
<1>4. /\ m[Read1(j, t)] \in {0, 1}
      /\ m[Read1(k, t)] \in {0, 1}
  BY ReadIsSubstituted
<1>5. PICK b \in Both(T, K, t, j, k) : m[b] = s[t]
  BY <1>1, <1>3, <1>4 DEF Both
<1>6. /\ lut[b] # -1 => m[b] = lut[b]
      /\ lut[b] = -1 => m[b] = a[b]
  BY ReadIsSubstituted DEF Both
<1>7. lut[b] # s[t]
  BY DEF Ways
<1>8. lut[b] = -1 /\ a[b] = s[t]
  BY <1>5, <1>6, <1>7
<1>9. <<b, s[t]>> \in ClauseOf(T, K, lut, j, k, s)
  BY <1>8, LiteralOf
<1> QED BY <1>8, <1>9

(* The clauses of a pair of keys mean that their hashes differ.             *)
THEOREM PairClausesExact ==
    ASSUME NEW T, NEW K, ProblemOf(T, K),
           NEW lut \in Cnf(T, K)!PartialLuts, NEW a \in Assignments(T, K, lut),
           NEW j \in DOMAIN K, NEW k \in DOMAIN K
    PROVE  Cnf(T, K)!Satisfies(a, Cnf(T, K)!PairClauses(lut, j, k)) <=>
              Hashed(T, K, lut, a, j) # Hashed(T, K, lut, a, k)
BY PairSound, PairComplete

(* All the clauses mean that no two keys have the same hash: to_cnf loses   *)
(* no perfect hash, and lets no other pass.                                 *)
THEOREM DifferClausesExact ==
    ASSUME NEW T, NEW K, ProblemOf(T, K),
           NEW lut \in Cnf(T, K)!PartialLuts, NEW a \in Assignments(T, K, lut)
    PROVE  Cnf(T, K)!Satisfies(a, Cnf(T, K)!DifferClauses(lut)) <=>
              \A j, k \in DOMAIN K : j # k => Hashed(T, K, lut, a, j) # Hashed(T, K, lut, a, k)
<1> DEFINE Pair(j, k)   == Cnf(T, K)!PairClauses(lut, j, k)
           All          == Cnf(T, K)!DifferClauses(lut)
           Met(c)       == Cnf(T, K)!Satisfies(a, c)
           Differ(j, k) == Hashed(T, K, lut, a, j) # Hashed(T, K, lut, a, k)
<1>0. Cnf(T, K)!KeyIds = DOMAIN K /\ \A k \in DOMAIN K : k \in Int
  BY Positions
<1>1. Met(All) <=> \A j, k \in DOMAIN K : j < k => Met(Pair(j, k))
  <2> DEFINE D     == DOMAIN K
             Pairs == {q \in D \X D : q[1] < q[2]}
  <2>1. \A c : c \in All <=> \E p \in Pairs : c \in Pair(p[1], p[2])
    BY <1>0, Zenon DEF Cnf!DifferClauses
  <2> HIDE DEF D, All, Pair
  <2>2. \A j, k \in D : j < k => <<j, k>> \in Pairs
    OBVIOUS
  <2>3. \A p \in Pairs : p[1] \in D /\ p[2] \in D /\ p[1] < p[2]
    OBVIOUS
  <2> HIDE DEF Pairs
  <2>4. ASSUME NEW c, NEW j \in D, NEW k \in D, j < k, c \in Pair(j, k)
        PROVE  c \in All
    <3>1. <<j, k>>[1] = j /\ <<j, k>>[2] = k
      OBVIOUS
    <3> QED BY <2>1, <2>2, <2>4, <3>1
  <2>5. Met(All) <=> \A j, k \in D : j < k => Met(Pair(j, k))
    BY <2>1, <2>3, <2>4 DEF Cnf!Satisfies
  <2> QED BY <2>5 DEF D
<1>2. \A j, k \in DOMAIN K : Met(Pair(j, k)) <=> Differ(j, k)
  BY PairClausesExact
<1>3. \A j, k \in DOMAIN K : j # k => j < k \/ k < j
  BY <1>0
<1>4. \A j, k \in DOMAIN K : j < k => j # k
  BY <1>0
<1> HIDE DEF Differ, Met, Pair, All
<1>5. \A j, k \in DOMAIN K : Differ(j, k) <=> Differ(k, j)
  BY DEF Differ
<1>6. (\A j, k \in DOMAIN K : j < k => Differ(j, k)) <=>
      (\A j, k \in DOMAIN K : j # k => Differ(j, k))
  BY <1>3, <1>4, <1>5
<1>7. Met(All) <=> \A j, k \in DOMAIN K : j # k => Differ(j, k)
  BY <1>1, <1>2, <1>6
<1> QED BY <1>7 DEF Met, All, Differ

-----------------------------------------------------------------------------
(* Concrete keys have themselves as their only variant, and are distinct.   *)
AllConcrete(K) == \A k \in DOMAIN K : \A i \in 0 .. wI-1 : K[k][i] # -1

LEMMA ConcreteFirst ==
    ASSUME NEW T, NEW K, ProblemOf(T, K), AllConcrete(K), NEW k \in DOMAIN K
    PROVE  /\ Cnf(T, K)!FirstVariant(K[k]) = K[k]
           /\ Cnf(T, K)!First(k) = K[k]
           /\ Cnf(T, K)!variants(K[k]) = {K[k]}
<1> DEFINE I == Cnf(T, K)!Inputs
<1>1. K[k] \in [I -> {-1, 0, 1}]
  BY Positions DEF ProblemOf
<1>2. \A i \in I : K[k][i] # -1
  BY Positions DEF AllConcrete
<1>3. Cnf(T, K)!FirstVariant(K[k]) = K[k]
  BY <1>1, <1>2 DEF Cnf!FirstVariant
<1>4. \A x \in Cnf(T, K)!variants(K[k]) : x = K[k]
  BY <1>1, <1>2 DEF Cnf!variants, Cnf!ConcreteKeys
<1> QED BY <1>3, <1>4, FirstIsConcrete DEF Cnf!First

(* A solution is a hash that separates the keys.                            *)
LEMMA SolutionsSeparate ==
    ASSUME NEW T, NEW K, ProblemOf(T, K), AllConcrete(K), NEW m
    PROVE  Cnf(T, K)!is_solution(m, Cnf(T, K)!Keys) <=>
              \A j, k \in DOMAIN K : j # k =>
                 Cnf(T, K)!HashOf(m, Cnf(T, K)!First(j)) # Cnf(T, K)!HashOf(m, Cnf(T, K)!First(k))
<1> DEFINE H(x) == Cnf(T, K)!HashOf(m, x)
           V(x) == Cnf(T, K)!variants(x)
           F(x) == Cnf(T, K)!FirstVariant(x)
           S    == Cnf(T, K)!Keys
           Yes  == Cnf(T, K)!is_solution(m, S)
<1>1. \A k \in DOMAIN K : F(K[k]) = K[k] /\ Cnf(T, K)!First(k) = K[k] /\ V(K[k]) = {K[k]}
  BY ConcreteFirst
<1>2. S = {K[k] : k \in DOMAIN K}
  BY Positions DEF Cnf!Keys
<1>3. Yes <=> /\ \A x, y \in S : x # y => H(F(x)) # H(F(y))
              /\ \A x \in S : \A v \in V(x) : H(v) = H(F(x))
  BY DEF Cnf!is_solution
<1>4. \A j, k \in DOMAIN K : j # k => V(K[j]) \cap V(K[k]) = {}
  BY DEF ProblemOf
<1>5. \A j, k \in DOMAIN K : j # k => K[j] # K[k]
  BY <1>1, <1>4
<1> HIDE DEF H, V, F, S, Yes
<1>6. ASSUME Yes, NEW j \in DOMAIN K, NEW k \in DOMAIN K, j # k
      PROVE  H(K[j]) # H(K[k])
  <2>1. K[j] \in S /\ K[k] \in S /\ K[j] # K[k]
    BY <1>2, <1>5, <1>6
  <2> QED BY <1>1, <1>3, <1>6, <2>1
<1>7. ASSUME \A j, k \in DOMAIN K : j # k => H(K[j]) # H(K[k])
      PROVE  Yes
  <2>1. ASSUME NEW x \in S, NEW y \in S, x # y
        PROVE  H(F(x)) # H(F(y))
    <3>1. PICK j \in DOMAIN K : x = K[j]
      BY <1>2
    <3>2. PICK k \in DOMAIN K : y = K[k]
      BY <1>2
    <3> QED BY <1>1, <1>7, <2>1, <3>1, <3>2
  <2>2. ASSUME NEW x \in S, NEW v \in V(x)
        PROVE  H(v) = H(F(x))
    <3>1. PICK j \in DOMAIN K : x = K[j]
      BY <1>2
    <3> QED BY <1>1, <2>2, <3>1
  <2> QED BY <1>3, <2>1, <2>2
<1>8. Yes <=> \A j, k \in DOMAIN K : j # k => H(K[j]) # H(K[k])
  BY <1>6, <1>7
<1> QED BY <1>1, <1>8 DEF H, Yes, S

-----------------------------------------------------------------------------
(* minisat_solve.                                                           *)

LEMMA ModelsOf ==
    ASSUME NEW T, NEW K, NEW lut, NEW cnf, NEW n
    PROVE  Cnf(T, K)!minisat_solve(lut, cnf, n) =
              {a \in Assignments(T, K, lut) :
                  /\ Cnf(T, K)!Satisfies(a, cnf)
                  /\ Cnf(T, K)!Bounded(Cnf(T, K)!substitute(lut, a), n)}
BY DEF Cnf!minisat_solve, Assignments

(* What minisat answers separates the keys and obeys the bound.             *)
LEMMA ModelsSeparate ==
    ASSUME NEW T, NEW K, ProblemOf(T, K), AllConcrete(K),
           NEW lut \in Cnf(T, K)!PartialLuts, NEW n,
           NEW a \in Cnf(T, K)!minisat_solve(lut, Cnf(T, K)!DifferClauses(lut), n)
    PROVE  Cnf(T, K)!is_solution(Cnf(T, K)!substitute(lut, a), Cnf(T, K)!Keys)
<1>1. a \in Assignments(T, K, lut) /\ Cnf(T, K)!Satisfies(a, Cnf(T, K)!DifferClauses(lut))
  BY ModelsOf
<1>2. \A j, k \in DOMAIN K : j # k => Hashed(T, K, lut, a, j) # Hashed(T, K, lut, a, k)
  BY <1>1, DifferClausesExact
<1> QED BY <1>2, SolutionsSeparate DEF Hashed

(* All the entries that keys read are decided then.                         *)
LEMMA ModelsDecide ==
    ASSUME NEW T, NEW K, ProblemOf(T, K),
           NEW lut \in Cnf(T, K)!PartialLuts, NEW a \in Assignments(T, K, lut)
    PROVE  /\ Cnf(T, K)!substitute(lut, a) \in Cnf(T, K)!PartialLuts
           /\ \A k \in DOMAIN K : Hashed(T, K, lut, a, k) \in Cnf(T, K)!Hashes
           /\ \A t \in Cnf(T, K)!Tables, k \in DOMAIN K :
                 Cnf(T, K)!substitute(lut, a)[Cnf(T, K)!Entry(t, Cnf(T, K)!First(k))] \in {0, 1}
<1> DEFINE V == Cnf(T, K)!Variables(lut)
           m == Cnf(T, K)!substitute(lut, a)
<1>1. DOMAIN a = V /\ \A b \in V : a[b] \in {0, 1}
  BY DEF Assignments
<1>2. m \in Cnf(T, K)!PartialLuts
  BY <1>1 DEF Cnf!substitute, Cnf!PartialLuts
<1>3. \A t \in Cnf(T, K)!Tables, k \in DOMAIN K :
         m[Cnf(T, K)!Entry(t, Cnf(T, K)!First(k))] \in {0, 1}
  BY ReadIsSubstituted
<1>4. ASSUME NEW k \in DOMAIN K PROVE Hashed(T, K, lut, a, k) \in Cnf(T, K)!Hashes
  <2> HIDE DEF m
  <2>1. Hashed(T, K, lut, a, k) =
           [t \in Cnf(T, K)!Tables |-> m[Cnf(T, K)!Entry(t, Cnf(T, K)!First(k))]]
    BY HashedBits DEF Hashed, m
  <2> QED BY <1>3, <2>1 DEF Cnf!Hashes
<1> QED BY <1>2, <1>3, <1>4

(* If minisat has only the empty answer although there are variables, then  *)
(* no contents of the undecided entries separate the keys within the bound. *)
LEMMA EmptyMeansHopeless ==
    ASSUME NEW T, NEW K, ProblemOf(T, K), AllConcrete(K),
           NEW lut \in Cnf(T, K)!PartialLuts, NEW n,
           Cnf(T, K)!Variables(lut) # {},
           Cnf(T, K)!minisat_solve(lut, Cnf(T, K)!DifferClauses(lut), n) \subseteq {<<>>},
           NEW l \in Cnf(T, K)!Luts, \A b \in Cnf(T, K)!LutBits : lut[b] # -1 => l[b] = lut[b],
           Cnf(T, K)!Bounded(l, n)
    PROVE  ~ Cnf(T, K)!is_solution(l, Cnf(T, K)!Keys)
<1> DEFINE a    == [b \in Cnf(T, K)!Variables(lut) |-> l[b]]
           m    == Cnf(T, K)!substitute(lut, a)
           H(i) == Cnf(T, K)!HashOf(l, Cnf(T, K)!First(i))
<1>1. a \in Assignments(T, K, lut)
  <2>1. \A b \in Cnf(T, K)!Variables(lut) : l[b] \in {0, 1}
    BY DEF Cnf!Variables, Cnf!Luts
  <2> QED BY <2>1 DEF Assignments
<1>2. a # <<>>
  <2>1. DOMAIN a # DOMAIN <<>>
    OBVIOUS
  <2> QED BY <2>1
<1>3. a \notin Cnf(T, K)!minisat_solve(lut, Cnf(T, K)!DifferClauses(lut), n)
  BY <1>2
<1>4. \A i \in DOMAIN K : Hashed(T, K, lut, a, i) = H(i)
  <2> TAKE i \in DOMAIN K
  <2> DEFINE E(t) == Cnf(T, K)!Entry(t, Cnf(T, K)!First(i))
  <2>1. \A t \in Cnf(T, K)!Tables : m[E(t)] = l[E(t)]
    <3> TAKE t \in Cnf(T, K)!Tables
    <3>1. E(t) \in Cnf(T, K)!LutBits
      BY EntryType
    <3> QED BY <1>1, <3>1, ReadIsSubstituted
  <2> QED BY <2>1, HashedBits DEF Hashed
<1>5. Cnf(T, K)!Bounded(m, n)
  <2>1. \A i \in DOMAIN K : Cnf(T, K)!HashOf(m, Cnf(T, K)!First(i)) = H(i)
    BY <1>4 DEF Hashed
  <2> HIDE DEF m, H
  <2> QED BY <2>1, Positions DEF Cnf!Bounded, H
<1>6. ~ Cnf(T, K)!Satisfies(a, Cnf(T, K)!DifferClauses(lut))
  BY <1>1, <1>3, <1>5, ModelsOf
<1>7. PICK j \in DOMAIN K, k \in DOMAIN K :
         j # k /\ Hashed(T, K, lut, a, j) = Hashed(T, K, lut, a, k)
  BY <1>1, <1>6, DifferClausesExact
<1> QED BY <1>4, <1>7, SolutionsSeparate

-----------------------------------------------------------------------------
(***************************************************************************)
(* Polish uses ToCnf with its own taps and keys: what is proved above of   *)
(* any T and K holds of its operators.                                     *)
(***************************************************************************)
LEMMA SameKeyIds == Cnf(Selectors, Key)!KeyIds = KeyIds /\ DOMAIN Key = KeyIds
<1>1. DOMAIN Key = 0 .. nKeys-1 /\ nKeys \in Nat \ {0}
  BY ToCnfAssumption DEF KeyIds
<1>2. Cardinality(DOMAIN Key) = nKeys
  BY <1>1, FS_Interval
<1> QED BY <1>1, <1>2 DEF KeyIds, Cnf!KeyIds

LEMMA SameHash ==
    /\ Cnf(Selectors, Key)!Tables = Tables
    /\ Cnf(Selectors, Key)!ConcreteKeys = ConcreteKeys
    /\ Cnf(Selectors, Key)!Hashes = Hashes
    /\ Cnf(Selectors, Key)!LutBits = LutBits
    /\ Cnf(Selectors, Key)!Luts = Luts
    /\ Cnf(Selectors, Key)!PartialLuts = PartialLuts
    /\ \A k : Cnf(Selectors, Key)!First(k) = First(k)
    /\ \A k : Cnf(Selectors, Key)!FirstVariant(k) = FirstVariant(k)
    /\ \A k : Cnf(Selectors, Key)!variants(k) = variants(k)
    /\ \A t, x : Cnf(Selectors, Key)!Entry(t, x) = Entry(t, x)
    /\ \A l, x : Cnf(Selectors, Key)!HashOf(l, x) = HashOf(l, x)
BY DEF Cnf!Tables, Tables, Cnf!Inputs, Inputs, Cnf!ConcreteKeys, ConcreteKeys, Cnf!Hashes, Hashes,
       Cnf!Addresses, Addresses, Cnf!LutBits, LutBits, Cnf!Luts, Luts,
       Cnf!PartialLuts, PartialLuts, Cnf!First, First, Cnf!FirstVariant, FirstVariant,
       Cnf!variants, variants, Cnf!address, address, Cnf!Entry, Entry, Cnf!HashOf, HashOf

LEMMA SameSolution ==
    \A l : Cnf(Selectors, Key)!is_solution(l, Cnf(Selectors, Key)!Keys) <=> is_solution(l, Keys)
<1>1. Cnf(Selectors, Key)!Keys = Keys
  BY SameKeyIds DEF Cnf!Keys, Keys
<1> QED BY <1>1, SameHash DEF Cnf!is_solution, is_solution

LEMMA SameEncoding ==
    /\ \A lut : Cnf(Selectors, Key)!Variables(lut) = Variables(lut)
    /\ \A lut, a : Cnf(Selectors, Key)!substitute(lut, a) = substitute(lut, a)
    /\ \A lut : Cnf(Selectors, Key)!DifferClauses(lut) = DifferClauses(lut)
    /\ \A lut, cnf : Cnf(Selectors, Key)!minisat_solve(lut, cnf, 0) = minisat_solve(lut, cnf, 0)
<1>1. \A lut : Cnf(Selectors, Key)!Variables(lut) = Variables(lut)
  BY SameKeyIds, SameHash DEF Variables, Cnf!Variables, VisitsOf, Cnf!VisitsOf, Visits, Cnf!Visits
<1>2. \A lut, a : Cnf(Selectors, Key)!substitute(lut, a) = substitute(lut, a)
  BY SameHash DEF substitute, Cnf!substitute
<1>3. \A lut : Cnf(Selectors, Key)!DifferClauses(lut) = DifferClauses(lut)
  BY SameKeyIds, SameHash DEF DifferClauses, Cnf!DifferClauses, PairClauses, Cnf!PairClauses
<1>4. \A a, cnf : Cnf(Selectors, Key)!Satisfies(a, cnf) <=> Satisfies(a, cnf)
  BY DEF Satisfies, Cnf!Satisfies
<1>5. \A l : Cnf(Selectors, Key)!Bounded(l, 0) /\ Bounded(l, 0)
  BY DEF Bounded, Cnf!Bounded
<1>6. \A lut, cnf : Cnf(Selectors, Key)!minisat_solve(lut, cnf, 0) = minisat_solve(lut, cnf, 0)
  BY <1>1, <1>4, <1>5 DEF minisat_solve, Cnf!minisat_solve
<1> QED BY <1>1, <1>2, <1>3, <1>6

LEMMA PolishProblem == ProblemOf(Selectors, Key) /\ AllConcrete(Key)
<1>1. DOMAIN Key = 0 .. nKeys-1 /\ nKeys \in Nat \ {0} /\ Cardinality(DOMAIN Key) = nKeys
  <2>1. DOMAIN Key = 0 .. nKeys-1 /\ nKeys \in Nat \ {0}
    BY ToCnfAssumption DEF KeyIds
  <2> QED BY <2>1, FS_Interval
<1>2. Key \in [0 .. nKeys-1 -> [0 .. wI-1 -> {0, 1}]]
  BY PolishAssumption DEF KeyIds, ConcreteKeys, Inputs
<1>3. Key \in [0 .. nKeys-1 -> [0 .. wI-1 -> {-1, 0, 1}]]
  BY ToCnfAssumption DEF KeyIds, AbstractKeys, Inputs
<1>4. \A j, k \in DOMAIN Key :
         j # k => Cnf(Selectors, Key)!variants(Key[j]) \cap Cnf(Selectors, Key)!variants(Key[k]) = {}
  BY ToCnfAssumption, SameHash, SameKeyIds
<1>5. AllConcrete(Key)
  <2>1. ASSUME NEW k \in DOMAIN Key, NEW i \in 0 .. wI-1 PROVE Key[k][i] # -1
    <3>1. Key[k] \in [0 .. wI-1 -> {0, 1}]
      BY <1>1, <1>2
    <3> QED BY <3>1
  <2> QED BY <2>1 DEF AllConcrete
<1>6. Selectors \in [0 .. wO-1 -> Seq(0 .. wI-1)] /\ wI \in Nat /\ wO \in Nat
  BY BitHashAssumption DEF Tables, Inputs
<1> QED BY <1>1, <1>3, <1>4, <1>5, <1>6 DEF ProblemOf

(* Its keys are concrete.                                                   *)
LEMMA ConcreteKey ==
    ASSUME NEW k \in KeyIds
    PROVE  First(k) = Key[k] /\ Key[k] \in ConcreteKeys
BY PolishProblem, ConcreteFirst, SameHash, SameKeyIds, PolishAssumption

LEMMA SolutionSeparates ==
    ASSUME NEW m
    PROVE  is_solution(m, Keys) <=>
              \A j, k \in KeyIds : j # k => HashOf(m, Key[j]) # HashOf(m, Key[k])
<1>1. is_solution(m, Keys) <=>
         \A j, k \in KeyIds : j # k => HashOf(m, First(j)) # HashOf(m, First(k))
  BY PolishProblem, SolutionsSeparate, SameHash, SameKeyIds, SameSolution
<1> QED BY <1>1, ConcreteKey

(* Every entry that a key reads is one of the luts.                         *)
LEMMA ReadIsFirst ==
    /\ Read = {Entry(t, First(k)) : t \in Tables, k \in KeyIds}
    /\ Read \subseteq LutBits
<1>1. \A t \in Tables, k \in KeyIds : Entry(t, Key[k]) = Entry(t, First(k))
  BY ConcreteKey
<1>2. \A t \in Tables, k \in KeyIds : Entry(t, First(k)) \in LutBits
  BY PolishProblem, EntryType, SameHash, SameKeyIds
<1> QED BY <1>1, <1>2 DEF Read

(* What minisat answers separates the keys, and decides all that they read. *)
LEMMA AnswerSeparates ==
    ASSUME NEW lut \in PartialLuts, NEW a \in minisat_solve(lut, DifferClauses(lut), 0)
    PROVE  is_solution(substitute(lut, a), Keys)
<1>1. lut \in Cnf(Selectors, Key)!PartialLuts
  BY SameHash
<1>2. a \in Cnf(Selectors, Key)!minisat_solve(lut, Cnf(Selectors, Key)!DifferClauses(lut), 0)
  BY SameEncoding
<1>3. Cnf(Selectors, Key)!is_solution(Cnf(Selectors, Key)!substitute(lut, a), Cnf(Selectors, Key)!Keys)
  BY <1>1, <1>2, PolishProblem, ModelsSeparate
<1> QED BY <1>3, SameEncoding, SameSolution

LEMMA AnswerDecides ==
    ASSUME NEW lut \in PartialLuts, NEW a \in minisat_solve(lut, DifferClauses(lut), 0)
    PROVE  /\ substitute(lut, a) \in PartialLuts
           /\ \A b \in Read : substitute(lut, a)[b] # -1
<1>1. lut \in Cnf(Selectors, Key)!PartialLuts
  BY SameHash
<1>2. a \in Cnf(Selectors, Key)!minisat_solve(lut, DifferClauses(lut), 0)
  BY SameEncoding
<1>3. a \in Assignments(Selectors, Key, lut)
  BY <1>2, ModelsOf
<1>4. /\ substitute(lut, a) \in PartialLuts
      /\ \A t \in Tables, k \in KeyIds : substitute(lut, a)[Entry(t, First(k))] \in {0, 1}
  BY <1>1, <1>3, PolishProblem, ModelsDecide, SameEncoding, SameHash, SameKeyIds
<1>5. \A b \in Read : substitute(lut, a)[b] \in {0, 1}
  BY <1>4, ReadIsFirst
<1> QED BY <1>4, <1>5

LEMMA EmptyIsHopeless ==
    ASSUME NEW lut \in PartialLuts,
           Variables(lut) # {},
           minisat_solve(lut, DifferClauses(lut), 0) \subseteq {<<>>},
           NEW l \in Luts, \A b \in LutBits : lut[b] # -1 => l[b] = lut[b]
    PROVE  ~ is_solution(l, Keys)
<1>1. lut \in Cnf(Selectors, Key)!PartialLuts /\ l \in Cnf(Selectors, Key)!Luts
  BY SameHash
<1>2. Cnf(Selectors, Key)!Variables(lut) # {}
  BY SameEncoding
<1>3. Cnf(Selectors, Key)!minisat_solve(lut, Cnf(Selectors, Key)!DifferClauses(lut), 0) \subseteq {<<>>}
  BY SameEncoding
<1>4. \A b \in Cnf(Selectors, Key)!LutBits : lut[b] # -1 => l[b] = lut[b]
  BY SameHash
<1>5. Cnf(Selectors, Key)!Bounded(l, 0)
  BY DEF Cnf!Bounded
<1>6. ~ Cnf(Selectors, Key)!is_solution(l, Cnf(Selectors, Key)!Keys)
  BY <1>1, <1>2, <1>3, <1>4, <1>5, PolishProblem, EmptyMeansHopeless
<1> QED BY <1>6, SameSolution

-----------------------------------------------------------------------------
(* What every level unbinds.                                                *)

(* A hash that is not perfect has a clashing key, and so clash entries; all *)
(* of them are read by keys.                                                *)
LEMMA SomeClash ==
    ASSUME ~ is_solution(bh, Keys)
    PROVE  ClashEntries # {}
<1>1. PICK j \in KeyIds, k \in KeyIds :
         j # k /\ HashOf(bh, Key[j]) = HashOf(bh, Key[k])
  BY SolutionSeparates
<1>2. Clashes(k) = 1
  BY <1>1 DEF Clashes
<1>3. 0 \in Tables
  BY BitHashAssumption, PolishAssumption DEF Tables
<1> DEFINE b == Entry(0, Key[k])
           readers == {i \in KeyIds : Clashes(i) = 1 /\ Entry(b[1], Key[i]) = b}
<1>4. b \in LutBits /\ b[1] = 0
  BY <1>3, ReadIsFirst DEF Read, Entry
<1>5. k \in readers
  BY <1>2, <1>4
<1>6. IsFiniteSet(readers)
  <2>1. IsFiniteSet(KeyIds)
    BY FS_Interval, ToCnfAssumption DEF KeyIds
  <2> QED BY <2>1, FS_Subset
<1>7. Cardinality(readers) > 0
  <2> HIDE DEF readers
  <2> QED BY <1>5, <1>6, FS_EmptySet, FS_CardinalityType
<1>8. Hits(b) > 0
  BY <1>7 DEF Hits
<1> QED BY <1>4, <1>8 DEF ClashEntries

LEMMA ClashIsRead == ClashEntries \subseteq Read
<1> SUFFICES ASSUME NEW b \in ClashEntries PROVE b \in Read
  OBVIOUS
<1>1. b \in LutBits /\ Hits(b) > 0
  BY DEF ClashEntries
<1>2. PICK k \in KeyIds : Entry(b[1], Key[k]) = b
  <2>1. {k \in KeyIds : Clashes(k) = 1 /\ Entry(b[1], Key[k]) = b} # {}
    BY <1>1, FS_EmptySet DEF Hits
  <2> QED BY <2>1
<1>3. b[1] \in Tables
  BY <1>1 DEF LutBits
<1> QED BY <1>2, <1>3 DEF Read

(* The first of the most frequent clash entries is unbound at every level.  *)
LEMMA PrefixNotEmpty ==
    ASSUME ClashEntries # {}, NEW todo \in Nat \ {0}, NEW S \in Prefixes(todo)
    PROVE  S # {} /\ S \subseteq ClashEntries
BY FS_EmptySet DEF Prefixes

LEMMA UnboundType ==
    ASSUME bh \in PartialLuts, NEW bits
    PROVE  Unbound(bits) \in PartialLuts
BY DEF Unbound, PartialLuts

(* So that minisat has a variable to decide.                                *)
LEMMA UnboundHasVariable ==
    ASSUME NEW S, NEW R, S # {}, S \subseteq Read
    PROVE  Variables(Unbound(S \cup R)) # {}
<1>1. PICK b \in S : TRUE
  OBVIOUS
<1>2. PICK t \in Tables, k \in KeyIds : b = Entry(t, First(k))
  BY ReadIsFirst
<1>3. Unbound(S \cup R)[Entry(t, First(k))] = -1
  BY <1>2, ReadIsFirst DEF Unbound
<1>4. Entry(t, First(k)) \in Cnf(Selectors, Key)!Variables(Unbound(S \cup R))
  BY <1>3, PolishProblem, ReadHasVariable, SameHash, SameKeyIds
<1> QED BY <1>4, SameEncoding

-----------------------------------------------------------------------------
(***************************************************************************)
(* The inductive invariant.  That the argument is no solution while levels *)
(* are tried is what makes every level unbind an entry that is read; that  *)
(* it then has a variable is what makes minisat's empty answer mean that   *)
(* there is none.                                                          *)
(***************************************************************************)
IInv ==
    /\ TypeOK
    /\ pc \in {"unbind", "solve"} => ~ is_solution(bh, Keys)
    /\ pc \in {"start", "unbind"} => res = bh
    /\ pc = "solve" => level \in DOMAIN Levels
    /\ EmptyIsUnsatisfiable
    /\ ResultOk
    /\ ReadIsDecided

LEMMA StartType ==
    ASSUME bh \in Starts
    PROVE  bh \in PartialLuts /\ \A b \in Read : bh[b] # -1
BY PolishAssumption

LEMMA InitInvariant == Init => IInv
<1> SUFFICES ASSUME Init PROVE IInv
  OBVIOUS
<1>1. TypeOK
  BY StartType, PolishAssumption DEF Init, TypeOK
<1> QED BY <1>1 DEF Init, IInv, EmptyIsUnsatisfiable, ResultOk, ReadIsDecided

LEMMA StepInvariant == IInv /\ [Next]_vars => IInv'
<1> SUFFICES ASSUME IInv, [Next]_vars PROVE IInv'
  OBVIOUS
<1> USE DEF IInv
<1>1. bh \in PartialLuts /\ (\A b \in Read : bh[b] # -1) /\ Len(Levels) \in Nat
  BY StartType, PolishAssumption DEF TypeOK
<1>2. CASE AlreadyPerfect
  BY <1>1, <1>2 DEF AlreadyPerfect, TypeOK, EmptyIsUnsatisfiable, ResultOk, ReadIsDecided
<1>3. CASE Start
  BY <1>3 DEF Start, TypeOK, EmptyIsUnsatisfiable, ResultOk, ReadIsDecided
<1>4. CASE Unbind
  <2>1. PICK S \in Prefixes(Levels[level]) : \E R : res' = Unbound(S \cup R)
    BY <1>4 DEF Unbind
  <2>2. Levels[level] \in Nat \ {0}
    BY <1>4, PolishAssumption DEF Unbind
  <2>3. S # {} /\ S \subseteq Read
    BY <1>4, <2>2, SomeClash, ClashIsRead, PrefixNotEmpty DEF Unbind
  <2>4. PICK R : res' = Unbound(S \cup R)
    BY <2>1
  <2>5. Variables(res') # {}
    BY <2>3, <2>4, UnboundHasVariable
  <2>6. res' \in PartialLuts
    BY <1>1, <2>4, UnboundType
  <2> QED BY <1>4, <2>5, <2>6
          DEF Unbind, TypeOK, EmptyIsUnsatisfiable, ResultOk, ReadIsDecided
<1>5. CASE NoSolution
  <2>1. level' \in 1 .. Len(Levels)+1
    BY <1>1, <1>5 DEF NoSolution, TypeOK
  <2> QED BY <1>1, <1>5, <2>1
          DEF NoSolution, TypeOK, EmptyIsUnsatisfiable, ResultOk, ReadIsDecided
<1>6. CASE Substitute
  <2>1. PICK a \in Answers : res' = substitute(res, a)
    BY <1>6 DEF Substitute
  <2>2. res \in PartialLuts
    BY DEF TypeOK
  <2>3. is_solution(res', Keys)
    BY <2>1, <2>2, AnswerSeparates DEF Answers
  <2>4. res' \in PartialLuts /\ \A b \in Read : res'[b] # -1
    BY <2>1, <2>2, AnswerDecides DEF Answers
  <2> QED BY <1>6, <2>3, <2>4
          DEF Substitute, TypeOK, EmptyIsUnsatisfiable, ResultOk, ReadIsDecided
<1>7. CASE GiveUp
  BY <1>1, <1>7 DEF GiveUp, TypeOK, EmptyIsUnsatisfiable, ResultOk, ReadIsDecided
<1>8. CASE UNCHANGED vars
  BY <1>8 DEF vars, TypeOK, EmptyIsUnsatisfiable, ResultOk, ReadIsDecided, Clashes
<1> QED BY <1>2, <1>3, <1>4, <1>5, <1>6, <1>7, <1>8 DEF Next

(* Every reachable state satisfies the inductive invariant.                 *)
THEOREM Invariance == Spec => []IInv
BY InitInvariant, StepInvariant, PTL DEF Spec

(* bit_hash_polish keeps its variables in their types.                      *)
THEOREM TypeCorrect == Spec => []TypeOK
<1>1. IInv => TypeOK
  BY DEF IInv
<1> QED BY <1>1, Invariance, PTL

(* It returns its argument or a perfect hash, although it never checks what *)
(* minisat answers.                                                         *)
THEOREM ResultCorrect == Spec => []ResultOk
<1>1. IInv => ResultOk
  BY DEF IInv
<1> QED BY <1>1, Invariance, PTL

(* No lookup of a key in the result finds an undecided entry.               *)
THEOREM ResultDecided == Spec => []ReadIsDecided
<1>1. IInv => ReadIsDecided
  BY DEF IInv
<1> QED BY <1>1, Invariance, PTL

(* minisat_solve is never asked about a problem without variables, which it *)
(* would answer like an unsatisfiable one.                                  *)
THEOREM NeverTrivial == Spec => []EmptyIsUnsatisfiable
<1>1. IInv => EmptyIsUnsatisfiable
  BY DEF IInv
<1> QED BY <1>1, Invariance, PTL

(* A level is given up only if no contents of the unbound entries separate  *)
(* the keys.                                                                *)
THEOREM LevelsHopeless == Spec => GivesUpHopeless
<1> DEFINE Hopeless ==
        level' > level =>
           \A l \in Luts : (\A b \in LutBits : res[b] # -1 => l[b] = res[b])
                               => ~is_solution(l, Keys)
<1>1. IInv /\ [Next]_vars => [Hopeless]_vars
  <2> SUFFICES ASSUME IInv, Next, level' > level,
                      NEW l \in Luts, \A b \in LutBits : res[b] # -1 => l[b] = res[b]
               PROVE  ~is_solution(l, Keys)
    OBVIOUS
  <2>1. NoSolution
    BY DEF Next, IInv, TypeOK, AlreadyPerfect, Start, Unbind, Substitute, GiveUp
  <2>2. res \in PartialLuts /\ Variables(res) # {}
    BY <2>1 DEF IInv, TypeOK, EmptyIsUnsatisfiable, NoSolution
  <2>3. minisat_solve(res, DifferClauses(res), 0) \subseteq {<<>>}
    BY <2>1 DEF NoSolution, Answers
  <2> QED BY <2>2, <2>3, EmptyIsHopeless
<1>2. []IInv /\ [][Next]_vars => [][Hopeless]_vars
  BY <1>1, PTL
<1> QED BY <1>2, Invariance DEF Spec, GivesUpHopeless

-----------------------------------------------------------------------------
(***************************************************************************)
(* The bound of solve_cnf.  The number of a hash is a sum of powers of 2,  *)
(* which are numbers of subsets: 2^t is that of the subsets of the t       *)
(* numbers below t.  The sum over some bits is then the number of pairs of *)
(* one of them that is set and a subset of the numbers below it.           *)
(***************************************************************************)
(* The bits of s that h sets, each with a subset of the numbers below it.   *)
Weight(h, s) ==
    {p \in s \X SUBSET (0 .. wO-1) : h[p[1]] = 1 /\ p[2] \in SUBSET (0 .. p[1]-1)}

Bits == [0 .. wO-1 -> {0, 1}]

LEMMA WeightType ==
    ASSUME NEW h, NEW s \in SUBSET (0 .. wO-1)
    PROVE  /\ IsFiniteSet(s)
           /\ IsFiniteSet(Weight(h, s)) /\ Cardinality(Weight(h, s)) \in Nat
<1>1. IsFiniteSet(0 .. wO-1) /\ IsFiniteSet(SUBSET (0 .. wO-1))
  BY Below, SolveCnfAssumption
<1>2. IsFiniteSet(s)
  BY <1>1, FS_Subset
<1>3. IsFiniteSet(s \X SUBSET (0 .. wO-1))
  BY <1>1, <1>2, FS_Product
<1>4. Weight(h, s) \subseteq s \X SUBSET (0 .. wO-1)
  BY DEF Weight
<1>5. IsFiniteSet(Weight(h, s))
  BY <1>3, <1>4, FS_Subset
<1> QED BY <1>2, <1>5, FS_CardinalityType

LEMMA WeightOfOne ==
    ASSUME NEW h \in Bits, NEW t \in 0 .. wO-1
    PROVE  Cardinality(Weight(h, {t})) = h[t] * 2^t
<1> DEFINE A == SUBSET (0 .. t-1)
           U == SUBSET (0 .. wO-1)
<1>1. t \in Nat /\ wO \in Nat /\ A \subseteq U /\ h[t] \in {0, 1}
  BY SolveCnfAssumption DEF Bits
<1>2. IsFiniteSet(A) /\ Cardinality(A) = 2^t /\ 2^t \in Nat
  BY <1>1, Below, Powers
<1>3. CASE h[t] = 0
  <2>1. Weight(h, {t}) = {}
    BY <1>3 DEF Weight
  <2>2. \A q \in Nat : 0 * q = 0
    OBVIOUS
  <2>3. h[t] * 2^t = 0
    BY <1>2, <1>3, <2>2
  <2> QED BY <2>1, <2>3, FS_EmptySet
<1>4. CASE h[t] = 1
  <2>1. Weight(h, {t}) = {t} \X A
    <3>1. Weight(h, {t}) = {p \in {t} \X U : h[p[1]] = 1 /\ p[2] \in SUBSET (0 .. p[1]-1)}
      BY DEF Weight
    <3>2. ASSUME NEW p \in {t} \X U
          PROVE  (h[p[1]] = 1 /\ p[2] \in SUBSET (0 .. p[1]-1)) <=> p[2] \in A
      <4>1. p[1] = t
        OBVIOUS
      <4> QED BY <1>4, <4>1
    <3> HIDE DEF A, U
    <3>3. Weight(h, {t}) = {p \in {t} \X U : p[2] \in A}
      BY <3>1, <3>2
    <3> QED BY <1>1, <3>3
  <2> HIDE DEF A
  <2>2. IsFiniteSet({t}) /\ Cardinality({t}) = 1
    BY FS_Singleton
  <2>3. Cardinality({t} \X A) = 1 * Cardinality(A)
    BY <1>2, <2>2, FS_Product
  <2> QED BY <1>2, <1>4, <2>1, <2>3
<1> QED BY <1>1, <1>3, <1>4

LEMMA WeightStep ==
    ASSUME NEW h \in Bits, NEW s \in SUBSET (0 .. wO-1), NEW t \in s
    PROVE  Cardinality(Weight(h, s)) = h[t] * 2^t + Cardinality(Weight(h, s \ {t}))
<1>1. Weight(h, s) = Weight(h, {t}) \cup Weight(h, s \ {t})
  BY DEF Weight
<1>2. Weight(h, {t}) \cap Weight(h, s \ {t}) = {}
  BY DEF Weight
<1>3. {t} \in SUBSET (0 .. wO-1) /\ s \ {t} \in SUBSET (0 .. wO-1)
  OBVIOUS
<1>4. /\ IsFiniteSet(Weight(h, {t})) /\ Cardinality(Weight(h, {t})) \in Nat
      /\ IsFiniteSet(Weight(h, s \ {t})) /\ Cardinality(Weight(h, s \ {t})) \in Nat
  BY <1>3, WeightType
<1>5. Cardinality(Weight(h, s)) =
         Cardinality(Weight(h, {t})) + Cardinality(Weight(h, s \ {t})) - Cardinality({})
  BY <1>1, <1>2, <1>4, FS_Union, ZenonT(40)
<1>6. Cardinality(Weight(h, {t})) = h[t] * 2^t
  BY WeightOfOne
<1> QED BY <1>4, <1>5, <1>6, FS_EmptySet

(* The recursion that defines the sum of Value, over all its bits.          *)
SomeBit(s) == CHOOSE t \in s : TRUE

IsNumber(f, h) ==
    f = [s \in SUBSET DOMAIN h |->
            IF s = {} THEN 0 ELSE h[SomeBit(s)] * 2^SomeBit(s) + f[s \ {SomeBit(s)}]]

LEMMA ValueIsNumber == ASSUME NEW h PROVE Value(h) = (CHOOSE f : IsNumber(f, h))[DOMAIN h]
BY DEF Value, MapThenSumSet, MapThenFoldSet, IsNumber, SomeBit

(* The weights satisfy it, and nothing else does.                           *)
LEMMA ValueIsWeight ==
    ASSUME NEW h \in Bits
    PROVE  Value(h) = Cardinality(Weight(h, 0 .. wO-1))
<1> DEFINE f   == CHOOSE g : IsNumber(g, h)
           D   == 0 .. wO-1
           w   == [s \in SUBSET D |-> Cardinality(Weight(h, s))]
           Bad == {s \in SUBSET D : f[s] # w[s]}
<1>0. DOMAIN h = D
  BY DEF Bits
<1>1. ASSUME NEW s \in SUBSET D
      PROVE  w[s] = IF s = {} THEN 0 ELSE h[SomeBit(s)] * 2^SomeBit(s) + w[s \ {SomeBit(s)}]
  <2>1. w[s] = Cardinality(Weight(h, s))
    OBVIOUS
  <2>2. CASE s = {}
    <3>1. Weight(h, s) = {}
      BY <2>2 DEF Weight
    <3> QED BY <2>1, <2>2, <3>1, FS_EmptySet
  <2>3. CASE s # {}
    <3>1. SomeBit(s) \in s
      BY <2>3 DEF SomeBit
    <3>2. w[s \ {SomeBit(s)}] = Cardinality(Weight(h, s \ {SomeBit(s)}))
      OBVIOUS
    <3> QED BY <2>1, <2>3, <3>1, <3>2, WeightStep
  <2> QED BY <2>2, <2>3
<1>2. IsNumber(w, h)
  <2>1. w = [s \in SUBSET D |-> w[s]]
    OBVIOUS
  <2> HIDE DEF w
  <2> QED BY <1>0, <1>1, <2>1 DEF IsNumber
<1>3. IsNumber(f, h)
  BY <1>2
<1>4. \A s \in SUBSET D :
         f[s] = IF s = {} THEN 0 ELSE h[SomeBit(s)] * 2^SomeBit(s) + f[s \ {SomeBit(s)}]
  BY <1>0, <1>3 DEF IsNumber
<1>5. Value(h) = f[D]
  BY <1>0, ValueIsNumber
<1> HIDE DEF f
<1>6. Bad = {}
  <2> SUFFICES ASSUME Bad # {} PROVE FALSE
    OBVIOUS
  <2>1. IsFiniteSet(D) /\ Bad \in SUBSET (SUBSET D)
    BY WeightType
  <2>2. PICK s \in Bad : \A u \in SUBSET s : u # s => u \notin Bad
    <3> HIDE DEF Bad, D
    <3> QED BY <2>1, SmallestSubset
  <2>3. s \in SUBSET D /\ f[s] # w[s]
    OBVIOUS
  <2>4. s # {}
    BY <1>1, <1>4, <2>3
  <2>5. SomeBit(s) \in s
    BY <2>4 DEF SomeBit
  <2>6. s \ {SomeBit(s)} \in SUBSET D /\ s \ {SomeBit(s)} \notin Bad
    BY <2>2, <2>3, <2>5
  <2>7. f[s \ {SomeBit(s)}] = w[s \ {SomeBit(s)}]
    BY <2>6
  <2> HIDE DEF w
  <2> QED BY <1>1, <1>4, <2>3, <2>4, <2>7
<1> QED BY <1>5, <1>6

-----------------------------------------------------------------------------
(***************************************************************************)
(* makeLessThanOrEqual goes from the low bits to the high ones: after bit  *)
(* i it has compared the bits of h and of n up to i.                       *)
(***************************************************************************)

(* What the bits of h below i stand for.                                    *)
Low(h, i) == Cardinality(Weight(h, 0 .. i-1))

LEMMA LowStep ==
    ASSUME NEW h \in Bits
    PROVE  /\ Low(h, 0) = 0
           /\ \A i \in 0 .. wO-1 : Low(h, i+1) = h[i] * 2^i + Low(h, i)
           /\ \A i \in 0 .. wO : Low(h, i) \in Nat
<1>1. Low(h, 0) = 0
  <2>1. Weight(h, 0 .. 0-1) = {}
    BY DEF Weight
  <2> QED BY <2>1, FS_EmptySet DEF Low
<1>2. ASSUME NEW i \in 0 .. wO-1 PROVE Low(h, i+1) = h[i] * 2^i + Low(h, i)
  <2> DEFINE S == 0 .. i
  <2>1. wO \in Nat /\ i+1-1 = i
    BY SolveCnfAssumption
  <2>2. S \in SUBSET (0 .. wO-1) /\ i \in S /\ S \ {i} = 0 .. i-1
    BY <2>1
  <2>3. Low(h, i+1) = Cardinality(Weight(h, S))
    BY <2>1 DEF Low
  <2> HIDE DEF S
  <2> QED BY <2>2, <2>3, WeightStep DEF Low
<1>3. ASSUME NEW i \in 0 .. wO PROVE Low(h, i) \in Nat
  <2>1. 0 .. i-1 \in SUBSET (0 .. wO-1)
    BY SolveCnfAssumption
  <2> QED BY <2>1, WeightType DEF Low
<1> QED BY <1>1, <1>2, <1>3

(* They are less than the weight of bit i: the least i for which they were  *)
(* not would have a predecessor.                                            *)
LEMMA LowBelow ==
    ASSUME NEW h \in Bits, NEW i \in 0 .. wO
    PROVE  Low(h, i) < 2^i
<1> DEFINE Bad == {j \in 0 .. wO : ~ Low(h, j) < 2^j}
<1>1. wO \in Nat
  BY SolveCnfAssumption
<1>2. SUFFICES ASSUME Bad # {} PROVE FALSE
  OBVIOUS
<1>3. PICK j \in Bad : \A k \in Bad : j <= k
  <2>1. Bad \in SUBSET Nat
    BY <1>1
  <2> HIDE DEF Bad
  <2> QED BY <1>2, <2>1, LeastNatural
<1>4. j \in 0 .. wO /\ ~ Low(h, j) < 2^j
  OBVIOUS
<1>5. j # 0
  BY <1>4, LowStep, Powers
<1>6. PICK k \in 0 .. wO-1 : j = k+1
  <2>1. j-1 \in 0 .. wO-1 /\ j = (j-1)+1
    BY <1>1, <1>4, <1>5
  <2> QED BY <2>1
<1>7. k \in 0 .. wO /\ k \in Nat /\ k \notin Bad
  BY <1>1, <1>3, <1>6
<1>8. Low(h, k) < 2^k /\ Low(h, k) \in Nat /\ 2^k \in Nat
  BY <1>7, LowStep, Powers
<1>9. Low(h, j) = h[k] * 2^k + Low(h, k) /\ 2^j = 2 * 2^k
  BY <1>6, <1>7, LowStep, Powers
<1>10. h[k] * 2^k <= 2^k
  <2>1. h[k] = 0 \/ h[k] = 1
    BY <1>6 DEF Bits
  <2>2. \A q \in Nat : 0 * q <= q /\ 1 * q <= q
    OBVIOUS
  <2> QED BY <1>8, <2>1, <2>2
<1>11. h[k] * 2^k \in Nat
  <2>1. h[k] \in Nat
    BY <1>6 DEF Bits
  <2>2. \A p, q \in Nat : p * q \in Nat
    OBVIOUS
  <2> QED BY <1>8, <2>1, <2>2
<1>12. Low(h, j) < 2^j
  <2> DEFINE L == Low(h, k)
             q == 2^k
             p == h[k] * 2^k
  <2>1. L \in Nat /\ q \in Nat /\ p \in Nat /\ L < q /\ p <= q
    BY <1>8, <1>10, <1>11
  <2>2. Low(h, j) = p + L /\ 2^j = 2 * q
    BY <1>9
  <2> HIDE DEF L, q, p
  <2> QED BY <2>1, <2>2
<1> QED BY <1>4, <1>12

(* The recursion of makeLessThanOrEqual.                                    *)
IsCompare(f, h, n) ==
    f = [i \in -1 .. wO-1 |->
            IF i = -1 THEN TRUE
            ELSE IF (n \div 2^i) % 2 = 1 THEN h[i] = 0 \/ f[i-1]
                                         ELSE h[i] = 0 /\ f[i-1]]

LEMMA CompareIs ==
    ASSUME NEW T, NEW K, NEW h, NEW n
    PROVE  Cnf(T, K)!makeLessThanOrEqual(h, n) = (CHOOSE f : IsCompare(f, h, n))[wO-1]
BY DEF Cnf!makeLessThanOrEqual, IsCompare

(* The low bits of h are at most those of n, if bit i lets them be, or does *)
(* not but is no worse and the bits below it are.                           *)
LEMMA CompareStep ==
    ASSUME NEW h \in Bits, NEW n \in Nat, NEW i \in 0 .. wO-1
    PROVE  (Low(h, i+1) <= n % 2^(i+1)) <=>
              IF (n \div 2^i) % 2 = 1 THEN h[i] = 0 \/ Low(h, i) <= n % 2^i
                                      ELSE h[i] = 0 /\ Low(h, i) <= n % 2^i
<1> DEFINE q == 2^i
           L == Low(h, i)
           v == (n \div q) % 2
           r == n % q
           b == h[i]
<1>1. i \in Nat /\ i \in 0 .. wO
  BY SolveCnfAssumption
<1>2. q \in Nat \ {0} /\ 2^(i+1) = 2 * q
  BY <1>1, Powers
<1>3. L \in Nat /\ L < q /\ Low(h, i+1) = b * q + L
  BY <1>1, LowStep, LowBelow
<1>4. n % (2 * q) = v * q + r /\ v \in {0, 1} /\ r \in 0 .. q-1
  BY <1>2, ModStep
<1>5. b = 0 \/ b = 1
  BY DEF Bits
<1>6. n % 2^(i+1) = v * q + r
  BY <1>2, <1>4
<1> SUFFICES (b * q + L <= v * q + r) <=>
                IF v = 1 THEN b = 0 \/ L <= r ELSE b = 0 /\ L <= r
  BY <1>3, <1>6
<1>7. 0 * q = 0 /\ 1 * q = q
  BY <1>2
<1> HIDE DEF q, L, v, r, b
<1>8. CASE b = 0 /\ v = 0
  BY <1>2, <1>3, <1>4, <1>7, <1>8
<1>9. CASE b = 0 /\ v = 1
  BY <1>2, <1>3, <1>4, <1>7, <1>9
<1>10. CASE b = 1 /\ v = 0
  BY <1>2, <1>3, <1>4, <1>7, <1>10
<1>11. CASE b = 1 /\ v = 1
  BY <1>2, <1>3, <1>4, <1>7, <1>11
<1> QED BY <1>4, <1>5, <1>8, <1>9, <1>10, <1>11

(* The constraint means what it should: the hash is at most n.              *)
THEOREM CompareExact ==
    ASSUME NEW T, NEW K, NEW h \in Bits, NEW n \in Nat, n < 2^wO
    PROVE  Cnf(T, K)!makeLessThanOrEqual(h, n) <=> Value(h) <= n
<1> DEFINE D   == -1 .. wO-1
           f   == CHOOSE g : IsCompare(g, h, n)
           w   == [i \in D |-> Low(h, i+1) <= n % 2^(i+1)]
           Bad == {i \in D : f[i] # w[i]}
<1>0. wO \in Nat /\ wO # 0 /\ -1 \in D /\ wO-1 \in D
  BY SolveCnfAssumption
<1>1. w[-1] = TRUE
  <2>1. -1+1 = 0
    OBVIOUS
  <2>2. Low(h, 0) <= n % 2^0
    BY LowStep, Powers
  <2> QED BY <1>0, <2>1, <2>2
<1>2. ASSUME NEW i \in 0 .. wO-1
      PROVE  /\ i \in D /\ i-1 \in D
             /\ w[i] = IF (n \div 2^i) % 2 = 1 THEN h[i] = 0 \/ w[i-1]
                                               ELSE h[i] = 0 /\ w[i-1]
  <2>0. i \in Int /\ 0 <= i /\ i <= wO-1
    BY <1>0
  <2>1. i \in D /\ i-1 \in D /\ (i-1)+1 = i
    <3> HIDE DEF f, w, Bad
    <3> QED BY <1>0, <2>0
  <2>2. /\ w[i] \in BOOLEAN
        /\ w[i] <=> Low(h, i+1) <= n % 2^(i+1)
    <3>1. w[i] \in BOOLEAN
      BY <2>1
    <3>2. w[i] <=> Low(h, i+1) <= n % 2^(i+1)
      BY <2>1
    <3> QED BY <3>1, <3>2
  <2>3. /\ w[i-1] \in BOOLEAN
        /\ w[i-1] <=> Low(h, i) <= n % 2^i
    <3>1. w[i-1] \in BOOLEAN
      BY <2>1
    <3>2. w[i-1] <=> Low(h, i-1+1) <= n % 2^(i-1+1)
      BY <2>1
    <3> HIDE DEF w
    <3> QED BY <2>1, <3>1, <3>2
  <2> HIDE DEF w, D
  <2>4. w[i] <=> IF (n \div 2^i) % 2 = 1 THEN h[i] = 0 \/ w[i-1]
                                         ELSE h[i] = 0 /\ w[i-1]
    BY <2>2, <2>3, CompareStep
  <2>5. w[i] = IF (n \div 2^i) % 2 = 1 THEN h[i] = 0 \/ w[i-1]
                                       ELSE h[i] = 0 /\ w[i-1]
    BY <2>2, <2>3, <2>4
  <2> QED BY <2>1, <2>5
<1>3. IsCompare(w, h, n)
  <2>1. w = [i \in D |-> w[i]]
    OBVIOUS
  <2>2. \A i \in D : i = -1 \/ i \in 0 .. wO-1
    BY <1>0
  <2> HIDE DEF w
  <2>3. \A i \in D : w[i] = IF i = -1 THEN TRUE
                            ELSE IF (n \div 2^i) % 2 = 1 THEN h[i] = 0 \/ w[i-1]
                                                         ELSE h[i] = 0 /\ w[i-1]
    BY <1>1, <1>2, <2>2
  <2> QED BY <2>1, <2>3 DEF IsCompare
<1>4. IsCompare(f, h, n)
  BY <1>3
<1>5. \A i \in D : f[i] = IF i = -1 THEN TRUE
                          ELSE IF (n \div 2^i) % 2 = 1 THEN h[i] = 0 \/ f[i-1]
                                                       ELSE h[i] = 0 /\ f[i-1]
  BY <1>4 DEF IsCompare
<1>6. Cnf(T, K)!makeLessThanOrEqual(h, n) = f[wO-1]
  BY CompareIs
<1>7. w[wO-1] = (Value(h) <= n)
  <2>1. w[wO-1] = (Low(h, wO) <= n % 2^wO)
    <3>1. wO-1+1 = wO
      BY <1>0
    <3> QED BY <1>0, <3>1
  <2>2. n % 2^wO = n
    <3>1. 2^wO \in Nat \ {0}
      BY <1>0, Powers
    <3>2. n \in 0 .. 2^wO-1 /\ n = 0 * 2^wO + n
      BY <3>1
    <3> QED BY <3>1, <3>2, ModUnique
  <2>3. Low(h, wO) = Value(h)
    BY ValueIsWeight DEF Low
  <2> QED BY <2>1, <2>2, <2>3
<1> HIDE DEF f
<1>8. Bad = {}
  <2> SUFFICES ASSUME Bad # {} PROVE FALSE
    OBVIOUS
  <2>1. PICK i \in Bad : \A j \in Bad : i <= j
    <3>1. IsFiniteSet(D)
      BY <1>0, FS_Interval
    <3>2. Bad \in SUBSET D /\ D \in SUBSET Int
      BY <1>0
    <3> HIDE DEF Bad, D
    <3>3. IsFiniteSet(Bad) /\ Bad \in SUBSET Int
      BY <3>1, <3>2, FS_Subset
    <3> QED BY <3>3, LeastNumber
  <2>2. i \in D /\ f[i] # w[i]
    OBVIOUS
  <2>3. i # -1
    BY <1>1, <1>5, <2>2
  <2>4. i \in 0 .. wO-1 /\ i \in Int
    BY <1>0, <2>2, <2>3
  <2>5. i-1 \in D /\ i-1 \notin Bad
    <3>1. i-1 \in D
      BY <1>2, <2>4
    <3> HIDE DEF Bad
    <3>2. ~ i <= i-1
      BY <2>4
    <3> QED BY <2>1, <3>1, <3>2
  <2>6. f[i-1] = w[i-1]
    BY <2>5
  <2> HIDE DEF w
  <2> QED BY <1>2, <1>5, <2>2, <2>3, <2>4, <2>6
<1>9. f[wO-1] = w[wO-1]
  BY <1>0, <1>8
<1> HIDE DEF w
<1> QED BY <1>6, <1>7, <1>9

(* The bound of to_cnf is the one that the problem asks for.                *)
LEMMA BoundedMeans ==
    ASSUME NEW T, NEW K, ProblemOf(T, K), NEW l, NEW n \in Nat,
           \A k \in DOMAIN K : Cnf(T, K)!HashOf(l, Cnf(T, K)!First(k)) \in Bits
    PROVE  Cnf(T, K)!Bounded(l, n) <=>
              (0 < n /\ n < 2^wO =>
                 \A k \in DOMAIN K : Value(Cnf(T, K)!HashOf(l, Cnf(T, K)!First(k))) <= n)
<1> DEFINE h(k) == Cnf(T, K)!HashOf(l, Cnf(T, K)!First(k))
<1>1. ASSUME 0 < n, n < 2^wO, NEW k \in DOMAIN K
      PROVE  Cnf(T, K)!makeLessThanOrEqual(h(k), n) <=> Value(h(k)) <= n
  BY <1>1, CompareExact
<1>2. Cnf(T, K)!Bounded(l, n) <=>
         (0 < n /\ n < 2^wO => \A k \in DOMAIN K : Cnf(T, K)!makeLessThanOrEqual(h(k), n))
  BY Positions DEF Cnf!Bounded
<1> HIDE DEF h
<1>3. Cnf(T, K)!Bounded(l, n) <=>
         (0 < n /\ n < 2^wO => \A k \in DOMAIN K : Value(h(k)) <= n)
  BY <1>1, <1>2
<1> QED BY <1>3 DEF h

LEMMA HashesAreBits ==
    ASSUME NEW T, NEW K
    PROVE  Cnf(T, K)!Hashes = Bits
BY DEF Cnf!Hashes, Cnf!Tables, Bits

-----------------------------------------------------------------------------
(***************************************************************************)
(* solve_cnf.                                                              *)
(***************************************************************************)
SolveInv ==
    /\ taps \in TapChoices
    /\ \E p \in Problems : keys = p[1] /\ maxHash = p[2]
    /\ Concrete /\ stage = "solve" => clauses = Cnf(taps, keys)!DifferClauses(Blank)
    /\ Concrete /\ stage = "check" => Cnf(taps, keys)!is_solution(result, Cnf(taps, keys)!Keys)
    /\ stage \in {"check", "solved"} => WithinBound(result)
    /\ AnswersAreSolutions

LEMMA SolveProblem ==
    ASSUME SolveInv
    PROVE  ProblemOf(taps, keys) /\ maxHash \in Nat
<1>1. PICK p \in Problems : keys = p[1] /\ maxHash = p[2]
  BY DEF SolveInv
<1>2. taps \in TapChoices /\ taps \in [0 .. wO-1 -> Seq(0 .. wI-1)]
  BY SolveCnfAssumption DEF SolveInv
<1>3. \A j, k \in DOMAIN keys :
         j # k => Cnf(taps, keys)!variants(keys[j]) \cap Cnf(taps, keys)!variants(keys[k]) = {}
  BY <1>1, <1>2, SolveCnfAssumption
<1>4. /\ Cardinality(DOMAIN keys) \in Nat \ {0} /\ maxHash \in Nat
      /\ keys \in [0 .. Cardinality(DOMAIN keys)-1 -> [0 .. wI-1 -> {-1, 0, 1}]]
  BY <1>1, SolveCnfAssumption
<1> QED BY <1>2, <1>3, <1>4, SolveCnfAssumption DEF ProblemOf

(* The lut that it solves for has nothing decided, and some key reads it.   *)
LEMMA BlankLut ==
    ASSUME ProblemOf(taps, keys)
    PROVE  /\ Blank \in Cnf(taps, keys)!PartialLuts
           /\ Cnf(taps, keys)!Variables(Blank) # {}
           /\ \A b \in Cnf(taps, keys)!LutBits : Blank[b] = -1
<1>1. Blank \in Cnf(taps, keys)!PartialLuts
  BY DEF Blank, Cnf!PartialLuts
<1>2. \A b \in Cnf(taps, keys)!LutBits : Blank[b] = -1
  BY DEF Blank
<1>3. 0 \in DOMAIN keys
  BY DEF ProblemOf
<1>4. 0 \in Cnf(taps, keys)!Tables
  BY SolveCnfAssumption, Positions
<1>5. Cnf(taps, keys)!Entry(0, Cnf(taps, keys)!First(0)) \in Cnf(taps, keys)!LutBits
  BY <1>3, <1>4, EntryType
<1>6. Cnf(taps, keys)!Entry(0, Cnf(taps, keys)!First(0)) \in Cnf(taps, keys)!Variables(Blank)
  BY <1>2, <1>3, <1>4, <1>5, ReadHasVariable
<1> QED BY <1>1, <1>2, <1>6

LEMMA ConcreteMeans ==
    ASSUME ProblemOf(taps, keys)
    PROVE  Concrete <=> AllConcrete(keys)
BY Positions DEF Concrete, AllConcrete

(* Concrete keys have no further variants, and no clauses for them.         *)
LEMMA OnlyDiffer ==
    ASSUME NEW T, NEW K, ProblemOf(T, K), AllConcrete(K), NEW lut
    PROVE  Cnf(T, K)!VariantClauses(lut) = {} /\ Cnf(T, K)!DubiousClauses(lut) = {}
<1>1. Cnf(T, K)!Further = {}
  <2> SUFFICES ASSUME NEW v \in Cnf(T, K)!Further PROVE FALSE
    OBVIOUS
  <2>1. /\ v[1] \in DOMAIN K /\ v[2] \in Cnf(T, K)!variants(K[v[1]])
        /\ Cnf(T, K)!Entry(v[3], v[2]) # Cnf(T, K)!Entry(v[3], Cnf(T, K)!First(v[1]))
    BY Positions DEF Cnf!Further, Cnf!Visits
  <2>2. v[2] = Cnf(T, K)!First(v[1])
    BY <2>1, ConcreteFirst
  <2> QED BY <2>1, <2>2
<1> QED BY <1>1 DEF Cnf!VariantClauses, Cnf!DubiousClauses

(* What minisat answers is decided, obeys the bound, and is a solution for  *)
(* concrete keys.                                                           *)
LEMMA AnswerWithinBound ==
    ASSUME SolveInv, NEW a \in Models
    PROVE  WithinBound(Cnf(taps, keys)!substitute(Blank, a))
<1> DEFINE m == Cnf(taps, keys)!substitute(Blank, a)
<1>1. ProblemOf(taps, keys) /\ maxHash \in Nat /\ Blank \in Cnf(taps, keys)!PartialLuts
  BY SolveProblem, BlankLut
<1>2. a \in Assignments(taps, keys, Blank) /\ Cnf(taps, keys)!Bounded(m, maxHash)
  BY ModelsOf DEF Models
<1>3. \A k \in DOMAIN keys : Cnf(taps, keys)!HashOf(m, Cnf(taps, keys)!First(k)) \in Bits
  BY <1>1, <1>2, ModelsDecide, HashesAreBits DEF Hashed
<1> HIDE DEF m
<1>4. 0 < maxHash /\ maxHash < 2^wO =>
         \A k \in DOMAIN keys : Value(Cnf(taps, keys)!HashOf(m, Cnf(taps, keys)!First(k))) <= maxHash
  BY <1>1, <1>2, <1>3, BoundedMeans
<1>5. WithinBound(m)
  BY <1>1, <1>4, Positions DEF WithinBound, HashNumber
<1> QED BY <1>5 DEF m

LEMMA AnswerSolves ==
    ASSUME SolveInv, Concrete, stage = "solve", NEW a \in Models
    PROVE  Cnf(taps, keys)!is_solution(Cnf(taps, keys)!substitute(Blank, a), Cnf(taps, keys)!Keys)
<1>1. /\ ProblemOf(taps, keys) /\ AllConcrete(keys)
      /\ Blank \in Cnf(taps, keys)!PartialLuts
      /\ clauses = Cnf(taps, keys)!DifferClauses(Blank)
  BY SolveProblem, BlankLut, ConcreteMeans DEF SolveInv
<1>2. a \in Cnf(taps, keys)!minisat_solve(Blank, Cnf(taps, keys)!DifferClauses(Blank), maxHash)
  BY <1>1 DEF Models
<1> QED BY <1>1, <1>2, ModelsSeparate

(* No state changes the meaning of what is said about the problem.          *)
LEMMA SameProblem ==
    ASSUME UNCHANGED <<keys, taps, maxHash>>
    PROVE  /\ Blank' = Blank
           /\ Concrete' <=> Concrete
           /\ UNCHANGED result => (WithinBound(result)' <=> WithinBound(result))
BY DEF Blank, Concrete, WithinBound, HashNumber

LEMMA SolveInitInvariant == SolveInit => SolveInv
BY SMT DEF SolveInit, SolveInv, AnswersAreSolutions

LEMMA SolveStepInvariant == SolveInv /\ [solve_cnf]_solveVars => SolveInv'
<1> SUFFICES ASSUME SolveInv, [solve_cnf]_solveVars PROVE SolveInv'
  OBVIOUS
<1>1. CASE makeBitHash
  BY <1>1 DEF makeBitHash, SolveInv, AnswersAreSolutions
<1>2. CASE to_cnf
  <2>1. UNCHANGED <<keys, taps, maxHash>> /\ stage = "encode" /\ stage' = "solve"
    BY <1>2 DEF to_cnf
  <2>2. ASSUME Concrete PROVE clauses' = Cnf(taps, keys)!DifferClauses(Blank)
    <3>1. ProblemOf(taps, keys) /\ AllConcrete(keys)
      BY <2>2, SolveProblem, ConcreteMeans
    <3>2. /\ Cnf(taps, keys)!VariantClauses(Blank) = {}
          /\ Cnf(taps, keys)!DubiousClauses(Blank) = {}
      BY <3>1, OnlyDiffer
    <3> QED BY <1>2, <3>2 DEF to_cnf
  <2>3. Concrete' => clauses' = Cnf(taps, keys)!DifferClauses(Blank)'
    BY <2>1, <2>2, SameProblem
  <2> QED BY <2>1, <2>3 DEF SolveInv, AnswersAreSolutions
<1>3. CASE Crash
  BY <1>3 DEF Crash, SolveInv, AnswersAreSolutions
<1>4. CASE Unsatisfiable
  BY <1>4 DEF Unsatisfiable, SolveInv, AnswersAreSolutions
<1>5. CASE SubstituteAnswer
  <2>1. /\ UNCHANGED <<keys, taps, maxHash>>
        /\ stage = "solve" /\ stage' = "check"
    BY <1>5 DEF SubstituteAnswer
  <2>2. PICK a \in Models : result' = Cnf(taps, keys)!substitute(Blank, a)
    BY <1>5 DEF SubstituteAnswer
  <2>3. WithinBound(result)'
    <3>1. WithinBound(Cnf(taps, keys)!substitute(Blank, a))
      BY AnswerWithinBound
    <3> QED BY <2>1, <2>2, <3>1 DEF WithinBound, HashNumber
  <2>4. Concrete' => Cnf(taps, keys)!is_solution(result, Cnf(taps, keys)!Keys)'
    <3>1. Concrete =>
             Cnf(taps, keys)!is_solution(Cnf(taps, keys)!substitute(Blank, a), Cnf(taps, keys)!Keys)
      BY <2>1, AnswerSolves
    <3> QED BY <2>1, <2>2, <3>1, SameProblem
  <2> QED BY <2>1, <2>3, <2>4 DEF SolveInv, AnswersAreSolutions
<1>6. CASE Check
  <2> DEFINE ok == Cnf(taps, keys)!is_solution(result, Cnf(taps, keys)!Keys)
  <2>1. /\ UNCHANGED <<keys, taps, maxHash, result>>
        /\ stage = "check" /\ stage' = IF ok THEN "solved" ELSE "exception"
    BY <1>6 DEF Check
  <2>2. WithinBound(result)' /\ (Concrete' <=> Concrete)
    BY <2>1, SameProblem DEF SolveInv
  <2>3. ok' <=> ok
    BY <2>1
  <2>4. Concrete => ok
    BY <2>1 DEF SolveInv
  <2> HIDE DEF ok
  <2>5. AnswersAreSolutions'
    BY <2>1, <2>2, <2>3, <2>4 DEF AnswersAreSolutions, ok
  <2> QED BY <2>1, <2>2, <2>5 DEF SolveInv
<1>7. CASE OutOfTries
  BY <1>7 DEF OutOfTries, SolveInv, AnswersAreSolutions
<1>8. CASE UNCHANGED solveVars
  <2>1. UNCHANGED <<keys, taps, maxHash, clauses, result, stage>>
    BY <1>8 DEF solveVars
  <2>2. /\ Blank' = Blank /\ (Concrete' <=> Concrete)
        /\ WithinBound(result)' <=> WithinBound(result)
    BY <2>1, SameProblem
  <2> QED BY <2>1, <2>2 DEF SolveInv, AnswersAreSolutions
<1> QED BY <1>1, <1>2, <1>3, <1>4, <1>5, <1>6, <1>7, <1>8 DEF solve_cnf

(* Every reachable state of solve_cnf satisfies its inductive invariant.    *)
THEOREM SolveInvariance == SolveSpec => []SolveInv
BY SolveInitInvariant, SolveStepInvariant, PTL DEF SolveSpec

(* The check after the substitution never throws for concrete keys, and a   *)
(* hash that is reported as a solution is one for any keys.                 *)
THEOREM AnswersAlwaysSolve == SolveSpec => []AnswersAreSolutions
<1>1. SolveInv => AnswersAreSolutions
  BY DEF SolveInv
<1> QED BY <1>1, SolveInvariance, PTL

(* A solution obeys the problem's bound, which is encoded bit by bit and    *)
(* never checked, whatever the don't-cares have done to the encoding.       *)
THEOREM BoundAlwaysKept == SolveSpec => []BoundKept
<1>1. SolveInv => BoundKept
  BY DEF SolveInv, BoundKept
<1> QED BY <1>1, SolveInvariance, PTL

(* Taps are given up only if no luts for them are a solution of the problem *)
(* that obeys its bound.                                                    *)
THEOREM TapsAlwaysHopeless == SolveSpec => TapsHopeless
<1> DEFINE Hopeless ==
        Concrete /\ stage = "solve" /\ stage' = "head" =>
           \A l \in Cnf(taps, keys)!Luts :
              WithinBound(l) => ~ Cnf(taps, keys)!is_solution(l, Cnf(taps, keys)!Keys)
<1>1. SolveInv /\ [solve_cnf]_solveVars => [Hopeless]_solveVars
  <2> SUFFICES ASSUME SolveInv, solve_cnf, Concrete, stage = "solve", stage' = "head",
                      NEW l \in Cnf(taps, keys)!Luts, WithinBound(l)
               PROVE  ~ Cnf(taps, keys)!is_solution(l, Cnf(taps, keys)!Keys)
    OBVIOUS
  <2>1. Unsatisfiable
    BY DEF solve_cnf, makeBitHash, to_cnf, Crash, SubstituteAnswer, Check, OutOfTries
  <2>2. /\ ProblemOf(taps, keys) /\ AllConcrete(keys) /\ maxHash \in Nat
        /\ Blank \in Cnf(taps, keys)!PartialLuts
        /\ Cnf(taps, keys)!Variables(Blank) # {}
        /\ \A b \in Cnf(taps, keys)!LutBits : Blank[b] = -1
    BY SolveProblem, BlankLut, ConcreteMeans
  <2>3. Cnf(taps, keys)!minisat_solve(Blank, Cnf(taps, keys)!DifferClauses(Blank), maxHash)
           \subseteq {<<>>}
    BY <2>1 DEF Unsatisfiable, Models, SolveInv
  <2>4. \A k \in DOMAIN keys : Cnf(taps, keys)!HashOf(l, Cnf(taps, keys)!First(k)) \in Bits
    <3> TAKE k \in DOMAIN keys
    <3> DEFINE E(t) == Cnf(taps, keys)!Entry(t, Cnf(taps, keys)!First(k))
    <3>1. \A t \in Cnf(taps, keys)!Tables : l[E(t)] \in {0, 1}
      BY <2>2, EntryType DEF Cnf!Luts
    <3>2. Cnf(taps, keys)!HashOf(l, Cnf(taps, keys)!First(k)) =
             [t \in Cnf(taps, keys)!Tables |-> l[E(t)]]
      BY HashedBits
    <3>3. Cnf(taps, keys)!Tables = 0 .. wO-1
      BY <2>2, Positions
    <3> HIDE DEF E
    <3>4. [t \in 0 .. wO-1 |-> l[E(t)]] \in Bits
      BY <3>1, <3>3 DEF Bits
    <3> QED BY <3>2, <3>3, <3>4
  <2>5. Cnf(taps, keys)!Bounded(l, maxHash)
    <3>1. 0 < maxHash /\ maxHash < 2^wO =>
             \A k \in DOMAIN keys :
                Value(Cnf(taps, keys)!HashOf(l, Cnf(taps, keys)!First(k))) <= maxHash
      BY <2>2, Positions DEF WithinBound, HashNumber
    <3> QED BY <2>2, <2>4, <3>1, BoundedMeans
  <2> QED BY <2>2, <2>3, <2>5, EmptyMeansHopeless
<1>2. []SolveInv /\ [][solve_cnf]_solveVars => [][Hopeless]_solveVars
  BY <1>1, PTL
<1> QED BY <1>2, SolveInvariance DEF SolveSpec, TapsHopeless
=============================================================================
