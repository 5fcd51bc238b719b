---------------------------- MODULE ToolProofs ----------------------------
(***************************************************************************)
(* Two things that the solvers' command line tools do.                     *)
(*                                                                         *)
(* Choosing taps (Shuffle): the taps always tell the keys apart, and the   *)
(* largest tables come first, for every set of problems, every number and  *)
(* size of tables, and every sequence of draws.                            *)
(*                                                                         *)
(* Reporting a result (FrontEnds): the exit status, the log and the        *)
(* printed solution always agree as much as the programs promise, wherever *)
(* a signal or an exception strikes, whenever a buffer fills up, and for   *)
(* every number of tries.                                                  *)
(***************************************************************************)
EXTENDS Shuffle, FrontEnds, SequenceTheorems, FiniteSetTheorems, TLAPS

-----------------------------------------------------------------------------
(* Part 1: the taps.                                                        *)

\* Between Place and Canonicalise, every needed bit is in a table.
NeededPlaced ==
    phase \in {"fill", "done"} => \A i \in Needed : \E t \in 1 .. wO : i \in res[t]

\* Sorting keeps the tables.
SameTables ==
    phase = "done" => \A t \in 1 .. wO : \E u \in 1 .. wO : rres[u] = res[t]

nNeeded == Cardinality(Needed)

\* What is never changed.
Problem ==
    /\ keys \in KeySets /\ wO \in Nat /\ wA \in TapCounts /\ weighted \in BOOLEAN
    /\ Spans(wO)

\* Draws stop at the size that every table has to have, unless there are so many
\* bits that none is drawn.
Sizes ==
    phase \in {"fill", "done"} =>
        IF nNeeded <= wA * wO
          THEN \A t \in 1 .. wO : Cardinality(res[t]) <= PerTable
          ELSE res = Placed

IInv == /\ TypeOK /\ Problem
        /\ NeededPlaced /\ SameTables /\ CrashIsSingleKey
        /\ Sizes /\ LargestFirst

-----------------------------------------------------------------------------
\* Whatever the weights: needed bits are key bits.
LEMMA NeededInputs ==
    ASSUME keys \subseteq Keys
    PROVE  Needed \subseteq Inputs /\ Inputs \subseteq Bits /\ IsFiniteSet(Bits)
        /\ IsFiniteSet(Needed)
<1>1. Inputs \subseteq Bits
  BY DEF Inputs
<1>2. calculateBitWeights \subseteq Inputs
  <2>. SUFFICES ASSUME NEW i \in Bits, NEW k \in keys, k[i] = 1
               PROVE  i \in Inputs
    BY DEF calculateBitWeights
  <2>. QED
    BY ShuffleAssumption DEF Inputs, Bits
<1>3. IsFiniteSet(Bits)
  BY FS_Interval, ShuffleAssumption DEF Bits
<1>4. Needed \subseteq Inputs
  BY <1>2 DEF Needed
<1>5. IsFiniteSet(Needed)
  BY <1>1, <1>3, <1>4, FS_Subset
<1>. QED
  BY <1>1, <1>3, <1>4, <1>5

\* "We never need to look at" the other bits: two keys that have no overlap
\* differ at a needed bit, whether bits are weighted or not.
LEMMA NeededSeparates ==
    ASSUME keys \in KeySets, NEW j \in keys, NEW k \in keys, j # k
    PROVE  \E i \in Needed : {j[i], k[i]} = {0, 1}
<1>1. PICK i \in Bits : {j[i], k[i]} = {0, 1}
  BY KeySetsAssumption
<1>2. (j[i] = 0 /\ k[i] = 1) \/ (j[i] = 1 /\ k[i] = 0)
  BY <1>1
<1>3. i \in calculateBitWeights
  BY <1>2 DEF calculateBitWeights
<1>4. i \in Inputs
  BY <1>2, ShuffleAssumption DEF Inputs, Bits
<1>. QED
  BY <1>1, <1>3, <1>4 DEF Needed

\* A table for every needed bit.
LEMMA PlacedAll ==
    ASSUME keys \subseteq Keys, wO \in Nat, Needed # {} => wO > 0
    PROVE  /\ Placed \in [1 .. wO -> SUBSET Needed]
           /\ \A i \in Needed : \E t \in 1 .. wO : i \in Placed[t]
<1>1. Placed \in [1 .. wO -> SUBSET Needed]
  BY DEF Placed
<1>2. ASSUME NEW i \in Needed
      PROVE  \E t \in 1 .. wO : i \in Placed[t]
  <2>1. IsFiniteSet({j \in Needed : j < i})
    BY NeededInputs, FS_Subset
  <2>2. Position(i) \in Nat
    BY <2>1, FS_CardinalityType DEF Position
  <2>3. wO \in Nat /\ wO > 0
    BY <1>2
  <2>4. (Position(i) % wO) \in 0 .. wO-1
    BY <2>2, <2>3
  <2>. DEFINE t == (Position(i) % wO) + 1
  <2>5. t \in 1 .. wO
    BY <2>3, <2>4
  <2>6. i \in Placed[t]
    BY <2>5 DEF Placed
  <2>. QED
    BY <2>5, <2>6
<1>. QED
  BY <1>1, <1>2

\* Without tables there is one key, and then no bit has a weight.
LEMMA NoTablesNoKeys ==
    ASSUME Problem, wO = 0, Needed # {}
    PROVE  Cardinality(keys) = 1 /\ ~ weighted
<1>1. Cardinality(keys) = 1
  BY DEF Problem, Spans
<1>2. IsFiniteSet(keys)
  BY KeySetsAssumption DEF Problem
<1>3. PICK k : keys = {k}
  BY <1>1, <1>2, FS_Singleton
<1>4. calculateBitWeights = {}
  BY <1>3 DEF calculateBitWeights
<1>. QED
  BY <1>1, <1>4 DEF Needed, Problem

-----------------------------------------------------------------------------
(* Quotients and remainders, of numbers that are not constants.             *)
LEMMA DivMod ==
    ASSUME NEW m \in Nat, NEW w \in Nat \ {0}
    PROVE  m % w \in 0 .. w-1 /\ m \div w \in Nat /\ m = w * (m \div w) + (m % w)
OBVIOUS

LEMMA MultipleBelow ==
    ASSUME NEW w \in Nat, NEW q \in Int, NEW p \in Int, q < p
    PROVE  q * w + w <= p * w
<1>1. PICK d \in Nat : p = q + 1 + d
  <2>1. p - q - 1 \in Nat
    OBVIOUS
  <2>. QED
    BY <2>1
<1>2. p * w = q * w + w + d * w
  BY <1>1
<1>3. d * w \in Nat
  OBVIOUS
<1>. QED
  BY <1>2, <1>3

LEMMA ModUnique ==
    ASSUME NEW w \in Nat \ {0}, NEW q \in Nat, NEW r \in 0 .. w-1
    PROVE  q * w + r \in Nat /\ (q * w + r) % w = r
<1>. DEFINE m == q * w + r
            p == m \div w
            s == m % w
<1>1. m \in Nat
  <2>1. q * w \in Nat
    OBVIOUS
  <2>. QED
    BY <2>1
<1>2. s \in 0 .. w-1 /\ p \in Nat /\ m = w * p + s
  BY <1>1, DivMod
<1>3. q * w + r = p * w + s
  BY <1>2
<1>4. q * w \in Nat /\ p * w \in Nat
  BY <1>2
<1>. HIDE DEF s, p
<1>5. CASE q < p
  <2>1. q * w + w <= p * w
    BY <1>2, <1>5, MultipleBelow
  <2>. QED
    BY <1>2, <1>3, <1>4, <2>1
<1>6. CASE p < q
  <2>1. p * w + w <= q * w
    BY <1>2, <1>6, MultipleBelow
  <2>. QED
    BY <1>2, <1>3, <1>4, <2>1
<1>7. CASE p = q
  BY <1>1, <1>2, <1>3, <1>4, <1>7 DEF s
<1>. QED
  BY <1>2, <1>5, <1>6, <1>7

-----------------------------------------------------------------------------
(* The needed bits have the positions 0 to their number - 1, in order.      *)
Positions == [i \in Needed |-> Position(i)]

LEMMA PositionType ==
    ASSUME keys \subseteq Keys, NEW i \in Needed
    PROVE  Position(i) \in Nat /\ nNeeded \in Nat /\ Position(i) < nNeeded
<1>. DEFINE P == {j \in Needed : j < i}
<1>1. Needed \in SUBSET Int /\ i \in Int
  BY NeededInputs, ShuffleAssumption DEF Bits
<1>2. P \in SUBSET Needed /\ i \notin P /\ i \in Needed
  BY <1>1
<1>3. IsFiniteSet(Needed) /\ nNeeded \in Nat
  BY NeededInputs, FS_CardinalityType DEF nNeeded
<1>. HIDE DEF P
<1>4. IsFiniteSet(P) /\ Cardinality(P) <= nNeeded /\ Cardinality(P) # nNeeded
  BY <1>2, <1>3, FS_Subset DEF nNeeded
<1>5. Cardinality(P) \in Nat
  BY <1>4, FS_CardinalityType
<1>. QED
  BY <1>3, <1>4, <1>5 DEF P, Position

LEMMA PositionGrows ==
    ASSUME keys \subseteq Keys, NEW i \in Needed, NEW j \in Needed
    PROVE  i < j <=> Position(i) < Position(j)
<1>1. Needed \in SUBSET Int
  BY NeededInputs, ShuffleAssumption DEF Bits
<1>2. ASSUME NEW a \in Needed, NEW b \in Needed, a < b
      PROVE  Position(a) < Position(b)
  <2>. DEFINE P == {c \in Needed : c < a}
              Q == {c \in Needed : c < b}
  <2>1. P \in SUBSET Q /\ a \in Q /\ a \notin P /\ Q \in SUBSET Needed
    <3>1. a \in Int /\ b \in Int /\ a < b /\ ~ (a < a)
      BY <1>1, <1>2
    <3>2. ASSUME NEW c \in Needed, c < a PROVE c < b
      <4>1. c \in Int
        BY <1>1
      <4>. QED
        BY <3>1, <3>2, <4>1
    <3>. QED
      BY <1>2, <3>1, <3>2
  <2>. HIDE DEF P, Q
  <2>2. IsFiniteSet(Q)
    BY <2>1, NeededInputs, FS_Subset
  <2>3. Cardinality(P) <= Cardinality(Q) /\ Cardinality(P) # Cardinality(Q)
    BY <2>1, <2>2, FS_Subset
  <2>. QED
    BY <2>3, PositionType DEF P, Q, Position
<1>3. i < j \/ j < i \/ i = j
  BY <1>1
<1>4. Position(i) \in Nat /\ Position(j) \in Nat
  BY PositionType
<1>5. i \in Int /\ j \in Int
  BY <1>1
<1>. QED
  BY <1>2, <1>3, <1>4, <1>5

LEMMA PositionOnto ==
    ASSUME keys \subseteq Keys, NEW m \in Nat, m < nNeeded
    PROVE  \E i \in Needed : Position(i) = m
<1>. DEFINE N == 0 .. nNeeded-1
<1>1. IsFiniteSet(Needed) /\ nNeeded \in Nat
  BY NeededInputs, FS_CardinalityType DEF nNeeded
<1>2. IsFiniteSet(N) /\ Cardinality(N) = nNeeded
  BY <1>1, FS_Interval
<1>3. Positions \in [Needed -> N]
  BY PositionType DEF Positions
<1>4. \A i, j \in Needed : Position(i) = Position(j) => i = j
  <2>. SUFFICES ASSUME NEW i \in Needed, NEW j \in Needed, Position(i) = Position(j)
               PROVE  i = j
    OBVIOUS
  <2>1. ~ (i < j) /\ ~ (j < i)
    BY PositionGrows, PositionType
  <2>2. i \in Int /\ j \in Int
    BY NeededInputs, ShuffleAssumption DEF Bits
  <2>. QED
    BY <2>1, <2>2
<1>5. \A i, j \in Needed : Positions[i] = Positions[j] => i = j
  BY <1>4 DEF Positions
<1>6. m \in N
  BY <1>1
<1>. HIDE DEF N
<1>7. Positions \in Injection(Needed, N)
  BY <1>3, <1>5 DEF Injection, IsInjective
<1>8. Positions \in Surjection(Needed, N)
  BY <1>2, <1>7, FS_Injection DEF nNeeded
<1>. QED
  BY <1>6, <1>8 DEF Surjection, Positions

-----------------------------------------------------------------------------
(* Place deals the needed bits to the tables in turn. An earlier table gets  *)
(* no fewer than a later one: its bit of the same round comes first.        *)
LEMMA InTable ==
    ASSUME keys \subseteq Keys, wO \in Nat, NEW t \in 1 .. wO
    PROVE  /\ Placed[t] \in SUBSET Needed /\ IsFiniteSet(Placed[t])
           /\ Cardinality(Placed[t]) \in Nat /\ nNeeded \in Nat
           /\ Cardinality(Placed[t]) <= nNeeded
           /\ \A i \in Needed : i \in Placed[t] <=> Position(i) % wO = t - 1
<1>1. Placed[t] = {i \in Needed : t = (Position(i) % wO) + 1}
  BY DEF Placed
<1>2. Placed[t] \in SUBSET Needed /\ IsFiniteSet(Needed)
  BY <1>1, NeededInputs
<1>3. IsFiniteSet(Placed[t]) /\ Cardinality(Placed[t]) <= nNeeded
  BY <1>2, FS_Subset DEF nNeeded
<1>4. Cardinality(Placed[t]) \in Nat /\ nNeeded \in Nat
  BY <1>2, <1>3, FS_CardinalityType DEF nNeeded
<1>5. ASSUME NEW i \in Needed
      PROVE  i \in Placed[t] <=> Position(i) % wO = t - 1
  <2>1. Position(i) \in Nat /\ wO \in Nat \ {0}
    BY PositionType
  <2>2. Position(i) % wO \in 0 .. wO-1
    BY <2>1, DivMod
  <2>. QED
    BY <1>1, <2>2
<1>. QED
  BY <1>2, <1>3, <1>4, <1>5

(* The bit of round q in table t.                                           *)
LEMMA InRound ==
    ASSUME keys \subseteq Keys, wO \in Nat, NEW t \in 1 .. wO,
           NEW q \in Nat, q * wO + (t - 1) < nNeeded
    PROVE  \E i \in Placed[t] : Position(i) = q * wO + (t - 1)
<1>1. q * wO + (t - 1) \in Nat /\ (q * wO + (t - 1)) % wO = t - 1
  BY ModUnique
<1>2. PICK i \in Needed : Position(i) = q * wO + (t - 1)
  BY <1>1, PositionOnto
<1>. QED
  BY <1>1, <1>2, InTable

LEMMA RoundOf ==
    ASSUME keys \subseteq Keys, wO \in Nat, NEW t \in 1 .. wO, NEW i \in Placed[t]
    PROVE  \E q \in Nat : Position(i) = q * wO + (t - 1)
<1>1. i \in Needed /\ Position(i) % wO = t - 1
  BY InTable
<1>2. Position(i) \in Nat /\ wO \in Nat \ {0}
  BY <1>1, PositionType
<1>3. PICK q \in Nat : Position(i) = wO * q + (Position(i) % wO)
  BY <1>2, DivMod
<1>4. wO * q = q * wO
  BY <1>2
<1>. QED
  BY <1>1, <1>3, <1>4

LEMMA EarlierTables ==
    ASSUME keys \subseteq Keys, wO \in Nat, NEW t \in 1 .. wO, NEW u \in 1 .. wO, t < u
    PROVE  Cardinality(Placed[u]) <= Cardinality(Placed[t])
<1>1. ASSUME NEW i \in Placed[u]
      PROVE  \E j \in Placed[t] : Position(j) = Position(i) - (u - t)
  <2>1. PICK q \in Nat : Position(i) = q * wO + (u - 1)
    BY RoundOf
  <2>2. i \in Needed
    BY InTable
  <2>3. q * wO + (t - 1) < nNeeded /\ q * wO + (t - 1) = Position(i) - (u - t)
    <3>1. q * wO \in Nat
      OBVIOUS
    <3>2. Position(i) \in Nat /\ nNeeded \in Nat /\ Position(i) < nNeeded
      BY <2>2, PositionType
    <3>. QED
      BY <2>1, <3>1, <3>2
  <2>. QED
    BY <2>3, InRound
<1>. DEFINE f == [i \in Placed[u] |-> CHOOSE j \in Placed[t] : Position(j) = Position(i) - (u - t)]
<1>2. ASSUME NEW i \in Placed[u]
      PROVE  f[i] \in Placed[t] /\ Position(f[i]) = Position(i) - (u - t)
  BY <1>1
<1>3. f \in [Placed[u] -> Placed[t]]
  BY <1>2
<1>4. \A i, j \in Placed[u] : f[i] = f[j] => i = j
  <2>. SUFFICES ASSUME NEW i \in Placed[u], NEW j \in Placed[u], f[i] = f[j]
               PROVE  i = j
    OBVIOUS
  <2>1. i \in Needed /\ j \in Needed
    BY InTable
  <2>2. Position(i) \in Nat /\ Position(j) \in Nat
    BY <2>1, PositionType
  <2>3. Position(i) - (u - t) = Position(j) - (u - t)
    BY <1>2
  <2>. HIDE DEF f
  <2>4. ~ (Position(i) < Position(j)) /\ ~ (Position(j) < Position(i))
    BY <2>2, <2>3
  <2>5. ~ (i < j) /\ ~ (j < i)
    BY <2>1, <2>4, PositionGrows
  <2>6. i \in Int /\ j \in Int
    BY <2>1, NeededInputs, ShuffleAssumption DEF Bits
  <2>. QED
    BY <2>5, <2>6
<1>. HIDE DEF f
<1>5. f \in Injection(Placed[u], Placed[t])
  BY <1>3, <1>4 DEF Injection, IsInjective
<1>. QED
  BY <1>5, InTable, FS_Injection

(* If the tables have room for all, no table gets more than it needs.       *)
LEMMA RoomForAll ==
    ASSUME keys \subseteq Keys, wO \in Nat, wA \in Nat, NEW t \in 1 .. wO, nNeeded <= wA * wO
    PROVE  Cardinality(Placed[t]) <= PerTable
<1>. DEFINE f == [i \in Placed[t] |-> CHOOSE q \in Nat : Position(i) = q * wO + (t - 1)]
            R == 0 .. wA-1
<1>1. ASSUME NEW i \in Placed[t]
      PROVE  f[i] \in Nat /\ Position(i) = f[i] * wO + (t - 1)
  BY RoundOf
<1>. HIDE DEF f
<1>2. ASSUME NEW i \in Placed[t]
      PROVE  f[i] \in R
  <2>1. i \in Needed
    BY InTable
  <2>2. Position(i) \in Nat /\ nNeeded \in Nat /\ Position(i) < nNeeded
    BY <2>1, PositionType
  <2>3. PICK q \in Nat : q = f[i] /\ Position(i) = q * wO + (t - 1)
    BY <1>1
  <2>4. wA * wO \in Nat /\ q * wO \in Nat
    BY <2>3
  <2>5. CASE wA < q
    <3>1. wA * wO + wO <= q * wO
      BY <2>3, <2>5, MultipleBelow
    <3>. QED
      BY <2>2, <2>3, <2>4, <3>1
  <2>6. CASE wA = q
    BY <2>2, <2>3, <2>4, <2>6
  <2>7. CASE q < wA
    <3>1. q \in 0 .. wA-1
      BY <2>7
    <3>. QED
      BY <2>3, <3>1
  <2>. QED
    BY <2>3, <2>5, <2>6, <2>7
<1>3. f \in [Placed[t] -> R]
  BY <1>2 DEF f
<1>4. \A i, j \in Placed[t] : f[i] = f[j] => i = j
  <2>. SUFFICES ASSUME NEW i \in Placed[t], NEW j \in Placed[t], f[i] = f[j]
               PROVE  i = j
    OBVIOUS
  <2>1. i \in Needed /\ j \in Needed
    BY InTable
  <2>2. Position(i) = Position(j)
    BY <1>1
  <2>3. Position(i) \in Nat
    BY <2>1, PositionType
  <2>4. ~ (i < j) /\ ~ (j < i)
    BY <2>1, <2>2, <2>3, PositionGrows
  <2>5. i \in Int /\ j \in Int
    BY <2>1, NeededInputs, ShuffleAssumption DEF Bits
  <2>. QED
    BY <2>4, <2>5
<1>5. IsFiniteSet(R) /\ Cardinality(R) = wA
  BY FS_Interval
<1>. HIDE DEF R
<1>6. f \in Injection(Placed[t], R)
  BY <1>3, <1>4 DEF Injection, IsInjective
<1>7. Cardinality(Placed[t]) <= wA
  BY <1>5, <1>6, FS_Injection
<1>. QED
  BY <1>7, InTable DEF PerTable, nNeeded

(* If they have not, every table gets enough.                               *)
LEMMA NoRoomForAll ==
    ASSUME keys \subseteq Keys, wO \in Nat, wA \in Nat, NEW t \in 1 .. wO, nNeeded > wA * wO
    PROVE  wA <= Cardinality(Placed[t])
<1>. DEFINE R == 0 .. wA-1
            f == [q \in R |-> CHOOSE i \in Placed[t] : Position(i) = q * wO + (t - 1)]
<1>0. nNeeded \in Nat
  BY InTable
<1>1. ASSUME NEW q \in R
      PROVE  f[q] \in Placed[t] /\ Position(f[q]) = q * wO + (t - 1)
  <2>1. q \in Nat /\ q < wA
    OBVIOUS
  <2>2. q * wO + wO <= wA * wO
    BY <2>1, MultipleBelow
  <2>3. q * wO \in Nat /\ wA * wO \in Nat
    BY <2>1
  <2>4. q * wO + (t - 1) < nNeeded
    BY <1>0, <2>2, <2>3
  <2>. QED
    BY <2>1, <2>4, InRound
<1>2. f \in [R -> Placed[t]]
  BY <1>1
<1>3. \A p, q \in R : f[p] = f[q] => p = q
  <2>. SUFFICES ASSUME NEW p \in R, NEW q \in R, p # q
               PROVE  f[p] # f[q]
    OBVIOUS
  <2>1. p \in Nat /\ q \in Nat /\ p * wO \in Nat /\ q * wO \in Nat
    OBVIOUS
  <2>2. p * wO + wO <= q * wO \/ q * wO + wO <= p * wO
    <3>1. p < q \/ q < p
      BY <2>1
    <3>. QED
      BY <2>1, <3>1, MultipleBelow
  <2>3. p * wO + (t - 1) # q * wO + (t - 1)
    BY <2>1, <2>2
  <2>. QED
    BY <1>1, <2>3
<1>4. IsFiniteSet(R) /\ Cardinality(R) = wA
  BY FS_Interval
<1>. HIDE DEF f, R
<1>5. f \in Injection(R, Placed[t])
  BY <1>2, <1>3 DEF Injection, IsInjective
<1>. QED
  BY <1>4, <1>5, InTable, FS_Injection

(* Then the tables are in order as they were dealt.                         *)
LEMMA DealtInOrder ==
    ASSUME keys \subseteq Keys, wO \in Nat, wA \in Nat \ {0}, nNeeded > wA * wO,
           NEW t \in 1 .. wO, NEW u \in 1 .. wO, t < u
    PROVE  Before(Placed[t], Placed[u])
<1>1. wO <= wA * wO /\ nNeeded \in Nat /\ wA * wO \in Nat
  <2>1. 0 * wO + wO <= wA * wO
    BY MultipleBelow
  <2>2. nNeeded \in Nat /\ wA * wO \in Nat
    BY InTable
  <2>. QED
    BY <2>1, <2>2
<1>0. 0 * wO + (t - 1) < nNeeded /\ 0 * wO + (u - 1) < nNeeded
  <2>1. 0 * wO = 0
    OBVIOUS
  <2>. QED
    BY <1>1, <2>1
<1>2. PICK d \in Placed[t] : Position(d) = 0 * wO + (t - 1)
  BY <1>0, InRound
<1>3. PICK e \in Placed[u] : Position(e) = 0 * wO + (u - 1)
  BY <1>0, InRound
<1>4. d \in Needed /\ e \in Needed /\ d < e
  BY <1>2, <1>3, InTable, PositionGrows
<1>5. d \notin Placed[u]
  BY <1>2, <1>4, InTable
<1>6. ASSUME NEW c \in Placed[t] \cup Placed[u]
      PROVE  d <= c
  <2>1. c \in Needed
    BY InTable
  <2>2. PICK q \in Nat : Position(c) = q * wO + (t - 1) \/ Position(c) = q * wO + (u - 1)
    BY RoundOf
  <2>3. q * wO \in Nat
    OBVIOUS
  <2>4. ~ (Position(c) < Position(d))
    BY <1>2, <2>2, <2>3
  <2>5. ~ (c < d)
    BY <1>4, <2>1, <2>4, PositionGrows
  <2>6. c \in Int /\ d \in Int
    BY <1>4, <2>1, NeededInputs, ShuffleAssumption DEF Bits
  <2>. QED
    BY <2>5, <2>6
<1>7. e > d
  BY <1>4, NeededInputs, ShuffleAssumption DEF Bits
<1>. QED
  BY <1>2, <1>3, <1>5, <1>6, <1>7 DEF Before

-----------------------------------------------------------------------------
LEMMA ProblemType ==
    ASSUME TypeOK, Problem
    PROVE  /\ keys \subseteq Keys /\ wO \in Nat /\ wA \in Nat \ {0}
           /\ nNeeded \in Nat /\ wA * wO \in Nat /\ PerTable \in Nat /\ PerTable <= wA
<1>1. keys \subseteq Keys /\ wO \in Nat /\ wA \in Nat \ {0}
  BY ShuffleAssumption DEF TypeOK, Problem
<1>2. nNeeded \in Nat
  BY <1>1, NeededInputs, FS_CardinalityType DEF nNeeded
<1>. QED
  BY <1>1, <1>2 DEF PerTable, nNeeded

LEMMA TableType ==
    ASSUME TypeOK, NEW t \in 1 .. wO
    PROVE  IsFiniteSet(res[t]) /\ Cardinality(res[t]) \in Nat
<1>1. res[t] \in SUBSET Bits
  BY NeededInputs DEF TypeOK
<1>2. IsFiniteSet(res[t])
  BY <1>1, NeededInputs, FS_Subset DEF TypeOK
<1>. QED
  BY <1>2, FS_CardinalityType

LEMMA SizesPlace ==
    ASSUME TypeOK, Problem
    PROVE  IF nNeeded <= wA * wO
             THEN \A t \in 1 .. wO : Cardinality(Placed[t]) <= PerTable
             ELSE TRUE
BY ProblemType, RoomForAll

LEMMA SizesDraw ==
    ASSUME IInv, NEW v \in Bits, Draw(v)
    PROVE  Sizes'
<1>1. UNCHANGED <<keys, wO, wA, weighted>> /\ phase = "fill"
  BY DEF Draw
<1>2. PICK t \in Unfilled : res' = [res EXCEPT ![t] = @ \cup {v}]
  BY DEF Draw
<1>3. t \in 1 .. wO /\ Cardinality(res[t]) < PerTable
  BY DEF Unfilled
<1>4. nNeeded' = nNeeded /\ PerTable' = PerTable /\ Placed' = Placed
  BY <1>1 DEF nNeeded, PerTable, Placed, Position, Needed, Inputs, calculateBitWeights
<1>5. TypeOK /\ Problem
  BY DEF IInv
<1>6. nNeeded <= wA * wO
  <2>. SUFFICES ASSUME ~ (nNeeded <= wA * wO) PROVE FALSE
    OBVIOUS
  <2>1. nNeeded > wA * wO
    BY <1>5, ProblemType
  <2>2. wA <= Cardinality(Placed[t])
    BY <1>3, <1>5, <2>1, ProblemType, NoRoomForAll
  <2>3. res = Placed
    BY <1>1 DEF IInv, Sizes
  <2>4. Cardinality(res[t]) \in Nat
    BY <1>3, <1>5, TableType
  <2>. QED
    BY <1>3, <1>5, <2>2, <2>3, <2>4, ProblemType
<1>7. ASSUME NEW u \in 1 .. wO
      PROVE  Cardinality(res'[u]) <= PerTable
  <2>1. res \in [1 .. wO -> SUBSET Inputs]
    BY DEF IInv, TypeOK
  <2>2. CASE u = t
    <3>1. Cardinality(res[t]) \in Nat /\ IsFiniteSet(res[t])
      BY <1>3, <1>5, TableType
    <3>2. res'[u] = res[t] \cup {v}
      BY <1>2, <1>3, <2>1, <2>2
    <3>3. Cardinality(res[t] \cup {v}) <= Cardinality(res[t]) + 1
      BY <3>1, FS_AddElement
    <3>4. IsFiniteSet(res[t] \cup {v})
      BY <3>1, FS_AddElement
    <3>5. Cardinality(res'[u]) \in Nat
      BY <3>2, <3>4, FS_CardinalityType
    <3>. QED
      BY <1>3, <1>5, <3>1, <3>2, <3>3, <3>5, ProblemType
  <2>3. CASE u # t
    <3>1. res'[u] = res[u]
      BY <1>2, <1>3, <2>1, <2>3
    <3>. QED
      BY <1>1, <1>6, <3>1 DEF IInv, Sizes
  <2>. QED
    BY <2>2, <2>3
<1>8. wO' = wO /\ wA' = wA
  BY <1>1
<1>. QED
  BY <1>4, <1>6, <1>7, <1>8 DEF Sizes

LEMMA SortedLargest ==
    ASSUME IInv, Canonicalise
    PROVE  LargestFirst'
<1>1. UNCHANGED <<keys, wO, wA, weighted, res>> /\ phase = "fill" /\ Unfilled = {}
  BY DEF Canonicalise
<1>2. PICK p \in Bijection(1 .. wO, 1 .. wO) :
         /\ rres' = [t \in 1 .. wO |-> res[p[t]]]
         /\ \A t, u \in 1 .. wO : t < u => ~ Before(rres'[u], rres'[t])
  BY DEF Canonicalise
<1>3. p \in [1 .. wO -> 1 .. wO] /\ \A t, u \in 1 .. wO : p[t] = p[u] => t = u
  BY <1>2 DEF Bijection, Injection, IsInjective
<1>4. \A t \in 1 .. wO : rres'[t] = res[p[t]] /\ p[t] \in 1 .. wO
  BY <1>2, <1>3
<1>5. TypeOK /\ Problem
  BY DEF IInv
<1>6. \A t \in 1 .. wO : Cardinality(res[t]) \in Nat /\ PerTable <= Cardinality(res[t])
  <2>. SUFFICES ASSUME NEW t \in 1 .. wO
               PROVE  Cardinality(res[t]) \in Nat /\ PerTable <= Cardinality(res[t])
    OBVIOUS
  <2>1. Cardinality(res[t]) \in Nat
    BY <1>5, TableType
  <2>2. ~ (Cardinality(res[t]) < PerTable)
    BY <1>1 DEF Unfilled
  <2>. QED
    BY <1>5, <2>1, <2>2, ProblemType
<1>7. nNeeded' = nNeeded /\ PerTable' = PerTable /\ wO' = wO /\ wA' = wA
  BY <1>1 DEF nNeeded, PerTable, Needed, Inputs, calculateBitWeights
<1>8. CASE nNeeded <= wA * wO
  <2>1. \A t \in 1 .. wO : Cardinality(res[t]) <= PerTable
    BY <1>1, <1>8 DEF IInv, Sizes
  <2>2. ASSUME NEW t \in 1 .. wO
        PROVE  Cardinality(rres'[t]) = PerTable /\ PerTable \in Nat
    <3>1. p[t] \in 1 .. wO /\ rres'[t] = res[p[t]]
      BY <1>4
    <3>2. Cardinality(res[p[t]]) \in Nat /\ PerTable \in Nat
      BY <1>5, <1>6, <3>1, ProblemType
    <3>. QED
      BY <1>6, <2>1, <3>1, <3>2
  <2>. QED
    BY <1>7, <2>2 DEF LargestFirst, nNeeded
<1>9. CASE ~ (nNeeded <= wA * wO)
  <2>1. res = Placed /\ nNeeded > wA * wO
    BY <1>1, <1>5, <1>9, ProblemType DEF IInv, Sizes
  <2>2. ASSUME NEW t \in 1 .. wO, NEW u \in 1 .. wO, t < u
        PROVE  Cardinality(rres'[t]) >= Cardinality(rres'[u])
    <3>1. p[t] \in 1 .. wO /\ p[u] \in 1 .. wO /\ p[t] # p[u] /\ wO \in Nat
      BY <1>3, <1>5, <2>2, ProblemType
    <3>2. ~ (p[u] < p[t])
      <4>1. p[u] < p[t] => Before(Placed[p[u]], Placed[p[t]])
        BY <1>5, <2>1, <3>1, ProblemType, DealtInOrder
      <4>. QED
        BY <1>2, <1>4, <2>1, <2>2, <4>1
    <3>3. p[t] < p[u]
      BY <3>1, <3>2
    <3>4. Cardinality(Placed[p[u]]) <= Cardinality(Placed[p[t]])
      BY <1>5, <3>1, <3>3, ProblemType, EarlierTables
    <3>. QED
      BY <1>4, <1>6, <2>1, <3>1, <3>4
  <2>. QED
    BY <1>7, <1>9, <2>2 DEF LargestFirst, nNeeded
<1>. QED
  BY <1>8, <1>9

-----------------------------------------------------------------------------
LEMMA InitIInv == Init => IInv
<1>. SUFFICES ASSUME Init PROVE IInv
  OBVIOUS
<1>1. keys \in KeySets /\ IsFiniteSet(keys) /\ keys \subseteq Keys
  BY KeySetsAssumption DEF Init
<1>2. wO \in Nat /\ Spans(wO)
  <2>1. CASE wO \in {w \in 0 .. Cardinality(keys) : LeastSpan(w)}
    <3>1. Cardinality(keys) \in Nat
      BY <1>1, FS_CardinalityType
    <3>2. wO \in Nat /\ LeastSpan(wO)
      BY <2>1, <3>1
    <3>. QED
      BY <3>2 DEF LeastSpan
  <2>2. CASE wO \in {w \in Widths : Spans(w)}
    BY <2>2, ShuffleAssumption
  <2>. QED
    BY <2>1, <2>2 DEF Init
<1>3. weighted \in BOOLEAN
  BY DEF Init
<1>4. Problem
  BY <1>1, <1>2, <1>3 DEF Init, Problem
<1>5. TypeOK
  BY <1>1, <1>2, <1>3 DEF Init, TypeOK
<1>. QED
  BY <1>4, <1>5 DEF Init, IInv, NeededPlaced, SameTables, CrashIsSingleKey, Sizes, LargestFirst

LEMMA Preserved == IInv /\ [Next]_vars => IInv'
<1>. SUFFICES ASSUME IInv, [Next]_vars PROVE IInv'
  OBVIOUS
<1>. USE DEF IInv
<1>1. CASE Place
  <2>1. UNCHANGED <<keys, wO, wA, tapSelectMethod, weighted, rres>> /\ phase' = "fill"
        /\ res' = Placed
    BY <1>1 DEF Place
  <2>2. Problem' /\ Needed' = Needed /\ Inputs' = Inputs
    BY <2>1 DEF Problem, Spans, Needed, Inputs, calculateBitWeights
  <2>3. /\ Placed \in [1 .. wO -> SUBSET Needed]
        /\ \A i \in Needed : \E t \in 1 .. wO : i \in Placed[t]
    BY <1>1, PlacedAll DEF Place, TypeOK
  <2>4. Placed \in [1 .. wO -> SUBSET Inputs]
    BY <2>3, NeededInputs DEF TypeOK
  <2>5. TypeOK'
    BY <2>1, <2>2, <2>4 DEF TypeOK
  <2>6. NeededPlaced'
    BY <2>1, <2>2, <2>3 DEF NeededPlaced
  <2>7. Sizes'
    <3>1. Placed' = Placed /\ PerTable' = PerTable
      BY <2>1, <2>2 DEF Placed, Position, PerTable
    <3>. QED
      BY <2>1, <2>2, <3>1, SizesPlace DEF Sizes, nNeeded
  <2>. QED
    BY <2>1, <2>2, <2>5, <2>6, <2>7 DEF SameTables, CrashIsSingleKey, LargestFirst
<1>2. CASE DivideByZero
  <2>1. UNCHANGED <<keys, wO, wA, tapSelectMethod, weighted, res, rres>> /\ phase' = "crashed"
    BY <1>2 DEF DivideByZero
  <2>2. Problem' /\ Inputs' = Inputs
    BY <2>1 DEF Problem, Spans, Inputs
  <2>3. TypeOK'
    BY <2>1, <2>2 DEF TypeOK
  <2>4. CrashIsSingleKey'
    BY <1>2, <2>1, NoTablesNoKeys DEF DivideByZero, CrashIsSingleKey
  <2>. QED
    BY <2>1, <2>2, <2>3, <2>4 DEF NeededPlaced, SameTables, Sizes, LargestFirst
<1>3. ASSUME NEW v \in Bits, Draw(v)
      PROVE  IInv'
  <2>1. UNCHANGED <<keys, wO, wA, tapSelectMethod, weighted, rres, phase>> /\ phase = "fill"
        /\ v \in Needed
    BY <1>3 DEF Draw
  <2>2. PICK t \in 1 .. wO : res' = [res EXCEPT ![t] = @ \cup {v}]
    BY <1>3 DEF Draw, Unfilled
  <2>3. Problem' /\ Needed' = Needed /\ Inputs' = Inputs
    BY <2>1 DEF Problem, Spans, Needed, Inputs, calculateBitWeights
  <2>4. v \in Inputs
    BY <2>1, NeededInputs DEF TypeOK
  <2>5. TypeOK'
    BY <2>1, <2>2, <2>3, <2>4 DEF TypeOK
  <2>6. \A u \in 1 .. wO : res[u] \subseteq res'[u]
    BY <2>2 DEF TypeOK
  <2>7. NeededPlaced'
    BY <2>1, <2>3, <2>6 DEF NeededPlaced
  <2>8. Sizes'
    BY <1>3, SizesDraw
  <2>. QED
    BY <2>1, <2>3, <2>5, <2>7, <2>8 DEF SameTables, CrashIsSingleKey, LargestFirst
<1>4. CASE Canonicalise
  <2>1. UNCHANGED <<keys, wO, wA, tapSelectMethod, weighted, res>> /\ phase = "fill"
        /\ phase' = "done"
    BY <1>4 DEF Canonicalise
  <2>2. PICK p \in Bijection(1 .. wO, 1 .. wO) : rres' = [t \in 1 .. wO |-> res[p[t]]]
    BY <1>4 DEF Canonicalise
  <2>3. p \in [1 .. wO -> 1 .. wO] /\ \A t \in 1 .. wO : \E u \in 1 .. wO : p[u] = t
    BY <2>2 DEF Bijection, Surjection
  <2>4. Problem' /\ Needed' = Needed /\ Inputs' = Inputs
    BY <2>1 DEF Problem, Spans, Needed, Inputs, calculateBitWeights
  <2>5. TypeOK'
    BY <2>1, <2>2, <2>3, <2>4 DEF TypeOK
  <2>6. NeededPlaced'
    BY <2>1, <2>4 DEF NeededPlaced
  <2>7. SameTables'
    BY <2>1, <2>2, <2>3 DEF SameTables
  <2>8. Sizes'
    <3>1. Placed' = Placed /\ PerTable' = PerTable
      BY <2>1, <2>4 DEF Placed, Position, PerTable
    <3>. QED
      BY <2>1, <2>4, <3>1 DEF Sizes, nNeeded
  <2>9. LargestFirst'
    BY <1>4, SortedLargest
  <2>. QED
    BY <2>1, <2>4, <2>5, <2>6, <2>7, <2>8, <2>9 DEF CrashIsSingleKey
<1>5. CASE UNCHANGED vars
  <2>1. UNCHANGED <<keys, wO, wA, tapSelectMethod, weighted, res, rres, phase>>
    BY <1>5 DEF vars
  <2>2. Needed' = Needed /\ Inputs' = Inputs
    BY <2>1 DEF Needed, Inputs, calculateBitWeights
  <2>3. Placed' = Placed /\ PerTable' = PerTable /\ nNeeded' = nNeeded
    BY <2>1, <2>2 DEF Placed, Position, PerTable, nNeeded
  <2>4. TypeOK' /\ Problem' /\ NeededPlaced' /\ SameTables' /\ CrashIsSingleKey'
    BY <2>1, <2>2 DEF TypeOK, Problem, Spans, NeededPlaced, SameTables, CrashIsSingleKey
  <2>5. Sizes' /\ LargestFirst'
    BY <2>1, <2>2, <2>3 DEF Sizes, LargestFirst
  <2>. QED
    BY <2>4, <2>5
<1>. QED
  BY <1>1, <1>2, <1>3, <1>4, <1>5 DEF Next

\* The invariant: needed bits stay placed, and sorting keeps the tables.
THEOREM Invariance == Spec => []IInv
BY InitIInv, Preserved, PTL DEF Spec

\* All the variables keep their types.
THEOREM TypeCorrect == Spec => []TypeOK
<1>1. IInv => TypeOK
  BY DEF IInv
<1>. QED
  BY <1>1, Invariance, PTL

\* The taps that come out tell any two keys apart, weighted or not.
THEOREM TapsAlwaysSeparate == Spec => []TapsSeparate
<1>1. IInv => TapsSeparate
  <2>. SUFFICES ASSUME IInv, phase = "done", NEW j \in keys, NEW k \in keys, j # k
               PROVE  \E t \in 1 .. wO : \E i \in rres[t] : {j[i], k[i]} = {0, 1}
    BY DEF TapsSeparate
  <2>1. PICK i \in Needed : {j[i], k[i]} = {0, 1}
    BY NeededSeparates DEF IInv, Problem
  <2>2. PICK t \in 1 .. wO : i \in res[t]
    BY DEF IInv, NeededPlaced
  <2>3. PICK u \in 1 .. wO : rres[u] = res[t]
    BY DEF IInv, SameTables
  <2>. QED
    BY <2>1, <2>2, <2>3
<1>. QED
  BY <1>1, Invariance, PTL

\* Only an unweighted selection for a single key divides by zero.
THEOREM CrashOnlyForSingleKey == Spec => []CrashIsSingleKey
<1>1. IInv => CrashIsSingleKey
  BY DEF IInv
<1>. QED
  BY <1>1, Invariance, PTL

\* The order by taps puts the largest tables first, and they are of one size if
\* there is room for all inputs: sizes differ only if no bit was drawn, and then
\* the tables are sorted as they were dealt.
THEOREM LargestAlwaysFirst == Spec => []LargestFirst
<1>1. IInv => LargestFirst
  BY DEF IInv
<1>. QED
  BY <1>1, Invariance, PTL

-----------------------------------------------------------------------------
(* Part 2: the results.                                                     *)

\* All that the process has written to a stream, whether or not it is out.
Written(s) == out[s] \o buf[s]
Contents == [Streams -> Seq(Pieces)]

\* The points before anything of the row is written.
Unlogged == {"arguments", "limit", "handler", "load", "head", "solve", "log"}

\* What a process that succeeds has written to its log, and to cout, at each point.
LogText == IF pc \in Unlogged THEN <<>>
           ELSE IF pc = "logResult" THEN <<"fields">> ELSE <<"fields", result>>

SolutionText == IF pc = "printProblem" THEN <<"hash">>
                ELSE IF pc \in {"return", "exit", "leave"} /\ result = "Success"
                    THEN <<"hash", "problem">>
                ELSE <<>>

\* The stream s of a process that succeeds.  The log may be on cout itself.
Expected(s) == (IF s = csv THEN LogText ELSE <<>>) \o (IF s = "cout" THEN SolutionText ELSE <<>>)

\* The text ends with a whole row.
RowAtEnd(text, r) == Len(text) >= 2 /\ text[Len(text) - 1] = "fields" /\ text[Len(text)] = r

\* What the variables can be.
Types == /\ buf \in Contents /\ out \in Contents
         /\ tool \in {"find", "perfect"}
         /\ csv \in Streams \cup {"none"}
         /\ result \in Results \cup {"none"}
         /\ status \in -1 .. 3
         /\ context \in BOOLEAN /\ closed \in BOOLEAN

\* find_fpga_hash, while it runs: where it can be with which result.  The signal
\* handler still has its context until main returns.
FindPoints ==
    /\ pc \in {"arguments", "limit", "handler", "load", "solve", "log", "logResult",
               "flush", "flushed", "logged", "print", "printProblem", "return", "exit"}
    /\ (result = "none") <=> (pc \in Unlogged \ {"log"})
    /\ result # "OutOfTime"
    /\ pc \in {"print", "printProblem", "return", "exit"} => result = "Success"
    /\ pc \in {"logResult", "flush", "flushed"} => csv # "none"
    /\ context <=> pc # "exit"

\* find_fpga_hash, while it runs: what it has written.  Of a row that is not one of
\* success, that it is at the end of the log when its flush is over.  Between the
\* halves of the flush, the row is both in the file and in the buffer.
FindTexts ==
    /\ result \in {"none", "Success"} =>
         \A s \in Streams : (IF pc = "flushed" /\ s = csv THEN out[s]
             ELSE Written(s)) = Expected(s)
    /\ csv # "none" =>
         /\ pc = "logResult" => Len(Written(csv)) >= 1
              /\ Written(csv)[Len(Written(csv))] = "fields"
         /\ pc = "flush" => RowAtEnd(Written(csv), result)
         /\ pc \in {"flushed", "logged"} => RowAtEnd(out[csv], result)
         /\ pc = "logged" => buf[csv] = <<>>
         /\ pc \in {"print", "printProblem", "return", "exit"} => Len(out[csv]) >= 2

\* perfect_fpga_hash, while it runs: where it can be with which result.  Only closing
\* the log flushes it.
PerfectPoints ==
    /\ pc \in {"arguments", "limit", "handler", "load", "head", "solve", "log", "logResult",
               "logged", "print", "printProblem", "exit", "leave"}
    /\ (result = "none") <=> (pc \in Unlogged \ {"log"})
    /\ result \in {"none", "Success", "OutOfAttempts"}
    /\ pc \in {"print", "printProblem"} => result = "Success"
    /\ pc = "logResult" => csv # "none"
    /\ closed <=> pc = "leave"

\* perfect_fpga_hash, while it runs: what it has written.
PerfectTexts == /\ \A s \in Streams : Written(s) = Expected(s)
                /\ closed => buf["csvLogFile"] = <<>>

\* The process runs.
Alive == status = -1 /\ pc # "killed"

\* The invariant: of a process that runs, the places and the texts above; of one that
\* has ended, the promises themselves.
FrontInv ==
    /\ Types
    /\ tool = "find" /\ Alive => FindPoints /\ FindTexts
    /\ tool = "perfect" /\ Alive => PerfectPoints /\ PerfectTexts
    /\ status # -1 => ZeroMeansPrinted /\ LastRowTells /\ VerdictIsRight
-----------------------------------------------------------------------------
\* Texts of one and two pieces.
LEMMA ShortTexts ==
    ASSUME NEW a, NEW b
    PROVE  Append(<<>>, a) = <<a>> /\ Append(<<a>>, b) = <<a, b>>
<1>1. Append(<<>>, a) \in Seq({a, b}) /\ <<a>> \in Seq({a, b})
      /\ Append(<<a>>, b) \in Seq({a, b}) /\ <<a, b>> \in Seq({a, b})
  OBVIOUS
<1>2. Len(Append(<<>>, a)) = Len(<<a>>) /\ \A i \in 1 .. Len(<<a>>) : Append(<<>>, a)[i] = <<a>>[i]
  OBVIOUS
<1>3. Len(Append(<<a>>, b)) = Len(<<a, b>>)
  OBVIOUS
<1>4. \A i \in 1 .. Len(<<a, b>>) : Append(<<a>>, b)[i] = <<a, b>>[i]
  OBVIOUS
<1>. QED
  BY <1>1, <1>2, <1>3, <1>4, SeqEqual

\* A text, extended at its end.
LEMMA ConcatAppend ==
    ASSUME NEW S, NEW q \in Seq(S), NEW r \in Seq(S), NEW a \in S
    PROVE  /\ q \o Append(r, a) = Append(q \o r, a) /\ q \o r \in Seq(S)
           /\ q \o <<>> = q /\ <<>> \o q = q /\ <<>> \in Seq(S)
OBVIOUS

\* A row at the end of a text is its last row, and there is only one last row.
LEMMA LastRows ==
    ASSUME NEW text \in Seq(Pieces)
    PROVE  /\ \A r \in Results : RowAtEnd(text, r) => RowEnds(text, r)
           /\ \A q, r \in Results : RowEnds(text, q) /\ RowEnds(text, r) => q = r
<1>1. ASSUME NEW r \in Results, RowAtEnd(text, r)
      PROVE  RowEnds(text, r)
  <2>1. Len(text) - 1 \in LogPlaces(text) /\ Len(text) \in LogPlaces(text)
    BY <1>1 DEF RowAtEnd, LogPlaces, Results
  <2>2. \A k \in LogPlaces(text) : k <= Len(text) - 1 \/ k = Len(text)
    BY DEF LogPlaces
  <2>. QED
    BY <2>1, <2>2, <1>1 DEF RowAtEnd, RowEnds
<1>2. ASSUME NEW q \in Results, NEW r \in Results, RowEnds(text, q), RowEnds(text, r)
      PROVE  q = r
  <2>1. PICK m \in LogPlaces(text), n \in LogPlaces(text) :
            m < n /\ (\A k \in LogPlaces(text) : k <= m \/ k = n) /\ text[n] = q
    BY <1>2 DEF RowEnds
  <2>2. PICK i \in LogPlaces(text), j \in LogPlaces(text) :
            i < j /\ (\A k \in LogPlaces(text) : k <= i \/ k = j) /\ text[j] = r
    BY <1>2 DEF RowEnds
  <2>3. n = j
    BY <2>1, <2>2 DEF LogPlaces
  <2>. QED
    BY <2>1, <2>2, <2>3
<1>. QED
  BY <1>1, <1>2

\* A text that begins with a row, after which there is at most a solution.
LEMMA FirstRow ==
    ASSUME NEW text \in Seq(Pieces), NEW r \in Results,
           Len(text) >= 2, text[1] = "fields", text[2] = r,
           \A i \in 3 .. Len(text) : text[i] \in {"hash", "problem"}
    PROVE  RowEnds(text, r)
<1>1. LogPlaces(text) = {1, 2}
  BY DEF LogPlaces, Results
<1>. QED
  BY <1>1 DEF RowEnds

\* A piece is written at the end of its stream, whether it stays in the buffer or not.
LEMMA PutAppends ==
    ASSUME buf \in Contents, out \in Contents, NEW s \in Streams, NEW p \in Pieces, Put(s, p)
    PROVE  /\ csv' = csv /\ buf' \in Contents /\ out' \in Contents
           /\ Written(s)' = Append(Written(s), p)
           /\ \A t \in Streams \ {s} : Written(t)' = Written(t) /\ buf'[t] = buf[t]
                /\ out'[t] = out[t]
           /\ \A t \in Streams : Len(out'[t]) >= Len(out[t])
<1>1. CASE buf' = [buf EXCEPT ![s] = Append(@, p)] /\ UNCHANGED <<csv, out>>
  BY <1>1 DEF Written, Contents
<1>2. CASE out' = [out EXCEPT ![s] = @ \o Append(buf[s], p)]
      /\ buf' = [buf EXCEPT ![s] = <<>>] /\ UNCHANGED csv
  BY <1>2 DEF Written, Contents
<1>. QED
  BY <1>1, <1>2 DEF Put

\* A flush changes where the texts are, and not the texts.
LEMMA FlushWrites ==
    ASSUME buf \in Contents, out \in Contents, NEW S, FlushAll(S)
    PROVE  /\ csv' = csv /\ buf' \in Contents /\ out' \in Contents
           /\ \A t \in Streams : Written(t)' = Written(t)
           /\ \A t \in Streams : IF t \in S THEN out'[t] = Written(t) /\ buf'[t] = <<>>
                                            ELSE out'[t] = out[t] /\ buf'[t] = buf[t]
BY DEF FlushAll, Written, Contents

\* A row that is put after a text is at its end.
LEMMA RowPut ==
    ASSUME NEW q \in Seq(Pieces), NEW r \in Results
    PROVE  RowAtEnd(q \o <<"fields", r>>, r) /\ q \o <<"fields", r>> \in Seq(Pieces)
<1>1. "fields" \in Pieces /\ r \in Pieces
  BY DEF Pieces
<1>2. LET x == q \o <<"fields", r>> IN x \in Seq(Pieces) /\ Len(x) = Len(q)+2
      /\ x[Len(q)+1] = "fields" /\ x[Len(q)+2] = r
  BY <1>1
<1>. QED
  BY <1>2 DEF RowAtEnd

\* The handlers write a row at the end of what is in the file.
LEMMA RowWrites ==
    ASSUME buf \in Contents, out \in Contents, csv \in Streams, NEW r \in Results, LogAtOnce(r)
    PROVE  /\ csv' = csv /\ buf' \in Contents /\ out' \in Contents
           /\ RowAtEnd(out'[csv], r)
           /\ \A t \in Streams \ {csv} : out'[t] = out[t]
<1>1. <<"fields", r>> \in Seq(Pieces)
  BY DEF Pieces
<1>2. out'[csv] = out[csv] \o buf[csv] \o <<"fields", r>>
  BY DEF LogAtOnce, Contents
<1>3. out[csv] \o buf[csv] \in Seq(Pieces) /\ out' \in Contents /\ buf' \in Contents
  BY <1>1 DEF LogAtOnce, Contents
<1>4. RowAtEnd(out'[csv], r)
  BY <1>2, <1>3, RowPut
<1>. QED
  BY <1>3, <1>4 DEF LogAtOnce, Contents

\* Both processes use the same streams.
LEMMA SameStreams ==
    /\ \A s, p : (Find!Put(s, p) <=> Put(s, p)) /\ (Perfect!Put(s, p) <=> Put(s, p))
    /\ \A S : (Find!FlushAll(S) <=> FlushAll(S)) /\ (Perfect!FlushAll(S) <=> FlushAll(S))
    /\ \A r : (Find!LogAtOnce(r) <=> LogAtOnce(r)) /\ (Perfect!LogAtOnce(r) <=> LogAtOnce(r))
    /\ \A text, r : /\ Find!RowEnds(text, r) <=> RowEnds(text, r)
                    /\ Perfect!RowEnds(text, r) <=> RowEnds(text, r)
    /\ Find!Streams = Streams /\ Perfect!Streams = Streams
    /\ Find!Results = Results /\ Perfect!Results = Results
<1>1. \A s, p : (Find!Put(s, p) <=> Put(s, p)) /\ (Perfect!Put(s, p) <=> Put(s, p))
  BY DEF Put, Find!Put, Perfect!Put
<1>2. Find!Streams = Streams /\ Perfect!Streams = Streams
  BY DEF Streams, Find!Streams, Perfect!Streams
<1>3. \A S : (Find!FlushAll(S) <=> FlushAll(S)) /\ (Perfect!FlushAll(S) <=> FlushAll(S))
  BY <1>2 DEF FlushAll, Find!FlushAll, Perfect!FlushAll
<1>4. \A r : (Find!LogAtOnce(r) <=> LogAtOnce(r)) /\ (Perfect!LogAtOnce(r) <=> LogAtOnce(r))
  BY DEF LogAtOnce, Find!LogAtOnce, Perfect!LogAtOnce
<1>5. \A text, r : /\ Find!RowEnds(text, r) <=> RowEnds(text, r)
                   /\ Perfect!RowEnds(text, r) <=> RowEnds(text, r)
  BY DEF RowEnds, LogPlaces, Find!RowEnds, Find!LogPlaces, Perfect!RowEnds, Perfect!LogPlaces
<1>6. Find!Results = Results /\ Perfect!Results = Results
  BY DEF Results, Find!Results, Perfect!Results
<1>. QED
  BY <1>1, <1>2, <1>3, <1>4, <1>5, <1>6

\* A piece is put at the end of the second part of a stream.
LEMMA Putting ==
    ASSUME Types, NEW s \in Streams, NEW p \in Pieces, Put(s, p),
           NEW L \in Seq(Pieces), NEW R \in Seq(Pieces), Written(s) = L \o R
    PROVE  Written(s)' = L \o Append(R, p)
<1>1. Written(s)' = Append(Written(s), p)
  BY PutAppends DEF Types
<1>. QED
  BY <1>1, ConcatAppend

-----------------------------------------------------------------------------
\* find_fpga_hash: a step that leaves the streams alone.
LEMMA FindQuiet ==
    ASSUME Types, tool = "find", Alive, FindPoints, FindTexts,
           Find!OpenLog \/ Find!setTimeLimit \/ Find!setHandler \/ Find!Load \/ Find!Solve
           \/ Find!ThrowException \/ Find!ThrowOutOfMemory \/ Find!NoLog \/ Find!GoPrint
                \/ Find!Return,
           UNCHANGED <<perfectOnly, tool>>
    PROVE  Types' /\ Alive' /\ FindPoints' /\ FindTexts'
<1>. USE DEF Alive, Find!Goto, Find!Throw, Find!Streams, Streams
<1>0. buf' = buf /\ out' = out /\ \A s \in Streams : Written(s)' = Written(s)
  BY DEF Find!OpenLog, Find!setTimeLimit, Find!setHandler, Find!Load, Find!Solve, Find!streams,
         Find!ThrowException, Find!ThrowOutOfMemory, Find!NoLog, Find!GoPrint, Find!Return, Written
<1>3. Types' /\ Alive'
  BY <1>0 DEF Types, FindPoints, perfectOnly, Results, Find!OpenLog, Find!setTimeLimit,
      Find!setHandler,
         Find!Load, Find!Solve, Find!streams,
         Find!ThrowException, Find!ThrowOutOfMemory, Find!NoLog, Find!GoPrint, Find!Return
<1>1. FindPoints'
  BY <1>0 DEF Types, FindPoints, Unlogged, perfectOnly, Results, Find!OpenLog,
      Find!setTimeLimit, Find!setHandler,
         Find!Load, Find!Solve, Find!streams,
         Find!ThrowException, Find!ThrowOutOfMemory, Find!NoLog, Find!GoPrint, Find!Return
<1>2. FindTexts'
  <2>. USE <1>0 DEF FindTexts, Expected, LogText, SolutionText, Unlogged, FindPoints
  <2>1. CASE Find!OpenLog
    BY <2>1 DEF Find!OpenLog
  <2>2. CASE Find!setTimeLimit \/ Find!setHandler \/ Find!Load
    BY <2>2 DEF Find!setTimeLimit, Find!setHandler, Find!Load, Find!streams
  <2>3. CASE Find!Solve
    BY <2>3 DEF Find!Solve, Find!streams
  <2>4. CASE Find!ThrowException \/ Find!ThrowOutOfMemory
    BY <2>4 DEF Find!ThrowException, Find!ThrowOutOfMemory, Find!streams
  <2>5. CASE Find!NoLog
    BY <2>5 DEF Find!NoLog, Find!streams
  <2>6. CASE Find!GoPrint
    BY <2>6 DEF Find!GoPrint, Find!streams, RowAtEnd, Types
  <2>7. CASE Find!Return
    BY <2>7 DEF Find!Return, Find!streams
  <2>. QED
    BY <2>1, <2>2, <2>3, <2>4, <2>5, <2>6, <2>7
<1>. QED
  BY <1>1, <1>2, <1>3

\* find_fpga_hash: the row of the log.
LEMMA FindRow ==
    ASSUME Types, tool = "find", Alive, FindPoints, FindTexts,
           Find!LogFields \/ Find!LogResult, UNCHANGED <<perfectOnly, tool>>
    PROVE  Types' /\ Alive' /\ FindPoints' /\ FindTexts'
<1>. USE DEF Find!Goto
<1>. DEFINE p == IF pc = "log" THEN "fields" ELSE result
<1>1. csv \in Streams /\ p \in Pieces /\ Put(csv, p) /\ result' = result
      /\ pc \in {"log", "logResult"}
  BY SameStreams DEF Find!LogFields, Find!LogResult, Types, FindPoints, Unlogged, Pieces
<1>2. /\ csv' = csv /\ buf' \in Contents /\ out' \in Contents
      /\ Written(csv)' = Append(Written(csv), p)
      /\ \A t \in Streams \ {csv} : Written(t)' = Written(t)
  BY <1>1, PutAppends DEF Types
<1>3. Types' /\ Alive' /\ FindPoints'
  BY <1>1, <1>2 DEF Types, Alive, FindPoints, Unlogged, perfectOnly, Find!LogFields, Find!LogResult
<1>4. Written(csv) \in Seq(Pieces)
  BY <1>1 DEF Written, Types, Contents
<1>5. CASE Find!LogFields
  <2>1. pc = "log" /\ pc' = "logResult" /\ p = "fields"
    BY <1>5 DEF Find!LogFields
  <2>2. Len(Written(csv)') >= 1 /\ Written(csv)'[Len(Written(csv)')] = "fields"
    BY <1>1, <1>2, <1>4, <2>1
  <2>3. ASSUME result \in {"none", "Success"}, NEW s \in Streams
        PROVE  Written(s)' = Expected(s)'
    <3>1. Written(s) = <<>> \o <<>> /\ Expected(s) = <<>> \o <<>>
      BY <2>1, <2>3 DEF FindTexts, Expected, LogText, SolutionText, Unlogged
    <3>2. Expected(s)' = (IF s = csv THEN <<"fields">> ELSE <<>>) \o <<>>
      BY <1>2, <2>1 DEF Expected, LogText, SolutionText, Unlogged
    <3>3. <<>> \o <<>> = <<>> /\ <<"fields">> \o <<>> = <<"fields">>
      BY ConcatAppend
    <3>. QED
      BY <1>2, <2>1, <3>1, <3>2, <3>3, ShortTexts
  <2>. QED
    BY <1>1, <1>2, <1>3, <2>1, <2>2, <2>3 DEF FindTexts
<1>6. CASE Find!LogResult
  <2>1. pc = "logResult" /\ pc' = "flush" /\ p = result
    BY <1>6 DEF Find!LogResult
  <2>2. RowAtEnd(Written(csv), result)'
    <3>1. Len(Written(csv)) >= 1 /\ Written(csv)[Len(Written(csv))] = "fields"
      BY <1>1, <2>1 DEF FindTexts, Streams
    <3>. QED
      BY <1>1, <1>2, <1>4, <2>1, <3>1 DEF RowAtEnd
  <2>3. ASSUME result \in {"none", "Success"}, NEW s \in Streams
        PROVE  Written(s)' = Expected(s)'
    <3>1. Written(s) = (IF s = csv THEN <<"fields">> ELSE <<>>) \o <<>>
      BY <2>1, <2>3 DEF FindTexts, Expected, LogText, SolutionText, Unlogged
    <3>2. Expected(s)' = (IF s = csv THEN <<"fields", result>> ELSE <<>>) \o <<>>
      BY <1>1, <1>2, <2>1 DEF Expected, LogText, SolutionText, Unlogged
    <3>3. <<"fields">> \o <<>> = <<"fields">> /\ <<"fields", result>>
          \o <<>> = <<"fields", result>>
      BY ConcatAppend
    <3>. QED
      BY <1>2, <2>1, <3>1, <3>2, <3>3, ShortTexts
  <2>. QED
    BY <1>1, <1>2, <1>3, <2>1, <2>2, <2>3 DEF FindTexts
<1>. QED
  BY <1>3, <1>5, <1>6

\* find_fpga_hash: the two halves of its flush.
LEMMA FindFlush ==
    ASSUME Types, tool = "find", Alive, FindPoints, FindTexts,
           Find!FlushLog \/ Find!ForgetLog, UNCHANGED <<perfectOnly, tool>>
    PROVE  Types' /\ Alive' /\ FindPoints' /\ FindTexts'
<1>. USE DEF Find!Goto
<1>1. csv \in Streams /\ csv' = csv /\ result' = result /\ result # "none"
  BY DEF Types, FindPoints, Unlogged, Find!FlushLog, Find!ForgetLog, Find!WriteOut, Find!Forget
<1>2. CASE Find!FlushLog
  <2>1. pc = "flush" /\ pc' = "flushed" /\ buf' = buf /\ out' = [out EXCEPT ![csv] = @ \o buf[csv]]
    BY <1>2 DEF Find!FlushLog, Find!WriteOut
  <2>2. Types' /\ Alive' /\ FindPoints'
    BY <1>1, <1>2, <2>1 DEF Types, Contents, Alive, FindPoints, Unlogged, perfectOnly,
        Find!FlushLog
  <2>3. out'[csv] = Written(csv) /\ \A s \in Streams \ {csv} : Written(s)' = Written(s)
    BY <1>1, <2>1 DEF Types, Contents, Written
  <2>4. \A s \in Streams : Expected(s)' = Expected(s)
    BY <1>1, <2>1 DEF Expected, LogText, SolutionText, Unlogged
  <2>5. RowAtEnd(out[csv], result)'
    BY <1>1, <2>1, <2>3 DEF FindTexts, RowAtEnd, Streams
  <2>. QED
    BY <1>1, <2>1, <2>2, <2>3, <2>4, <2>5 DEF FindTexts
<1>3. CASE Find!ForgetLog
  <2>1. pc = "flushed" /\ pc' = "logged" /\ out' = out /\ buf' = [buf EXCEPT ![csv] = <<>>]
    BY <1>3 DEF Find!ForgetLog, Find!Forget
  <2>2. Types' /\ Alive' /\ FindPoints'
    BY <1>1, <1>3, <2>1 DEF Types, Contents, Alive, FindPoints, Unlogged, perfectOnly,
        Find!ForgetLog
  <2>3. Written(csv)' = out[csv] /\ \A s \in Streams \ {csv} : Written(s)' = Written(s)
    BY <1>1, <2>1 DEF Types, Contents, Written
  <2>4. \A s \in Streams : Expected(s)' = Expected(s)
    BY <1>1, <2>1 DEF Expected, LogText, SolutionText, Unlogged
  <2>5. RowAtEnd(out[csv], result)' /\ buf'[csv] = <<>>
    BY <1>1, <2>1 DEF FindTexts, RowAtEnd, Streams, Types, Contents
  <2>. QED
    BY <1>1, <2>1, <2>2, <2>3, <2>4, <2>5 DEF FindTexts
<1>. QED
  BY <1>2, <1>3

\* find_fpga_hash: the solution.
LEMMA FindPrint ==
    ASSUME Types, tool = "find", Alive, FindPoints, FindTexts,
           Find!PrintHash \/ Find!PrintProblem, UNCHANGED <<perfectOnly, tool>>
    PROVE  Types' /\ Alive' /\ FindPoints' /\ FindTexts'
<1>. USE DEF Find!Goto
<1>. DEFINE p == IF pc = "print" THEN "hash" ELSE "problem"
            R == IF pc = "print" THEN <<>> ELSE <<"hash">>
<1>1. /\ Put("cout", p) /\ result' = result /\ result = "Success"
      /\ pc \in {"print", "printProblem"}
      /\ pc' = IF pc = "print" THEN "printProblem" ELSE "return"
  BY SameStreams DEF Find!PrintHash, Find!PrintProblem, FindPoints
<1>2. "cout" \in Streams /\ p \in Pieces /\ R \in Seq(Pieces)
  BY DEF Streams, Pieces
<1>3. /\ csv' = csv /\ buf' \in Contents /\ out' \in Contents
      /\ \A t \in Streams \ {"cout"} : Written(t)' = Written(t)
      /\ \A t \in Streams : Len(out'[t]) >= Len(out[t])
  BY <1>1, <1>2, PutAppends DEF Types
<1>4. Types' /\ Alive' /\ FindPoints'
  BY <1>1, <1>3 DEF Types, Alive, FindPoints, Unlogged, perfectOnly, Find!PrintHash,
      Find!PrintProblem
<1>5. ASSUME NEW s \in Streams
      PROVE  Written(s)' = Expected(s)'
  <2>. DEFINE L == IF s = csv THEN LogText ELSE <<>>
  <2>1. L \in Seq(Pieces) /\ L' = L
    <3>1. LogText = <<"fields", "Success">> /\ LogText' = LogText
      BY <1>1 DEF LogText, Unlogged
    <3>2. <<"fields", "Success">> \in Seq(Pieces)
      BY DEF Pieces, Results
    <3>. QED
      BY <1>3, <3>1, <3>2
  <2>2. CASE s = "cout"
    <3>1. Written(s) = L \o R
      BY <1>1, <2>2 DEF FindTexts, Expected, SolutionText
    <3>2. Expected(s)' = L \o Append(R, p)
      BY <1>1, <2>1, <2>2, ShortTexts DEF Expected, SolutionText
    <3>. QED
      BY <1>1, <1>2, <2>1, <2>2, <3>1, <3>2, Putting
  <2>3. CASE s # "cout"
    BY <1>1, <1>3, <2>1, <2>3 DEF FindTexts, Expected
  <2>. QED
    BY <2>2, <2>3
<1>6. csv # "none" => Len(out'[csv]) >= 2
  BY <1>1, <1>3 DEF FindTexts, Types, Contents
<1>. QED
  BY <1>1, <1>3, <1>4, <1>5, <1>6 DEF FindTexts

\* The beginning of a text.
LEMMA Prefix ==
    ASSUME NEW S, NEW q \in Seq(S), NEW r \in Seq(S)
    PROVE  Len(q \o r) >= Len(q) /\ \A i \in 1 .. Len(q) : (q \o r)[i] = q[i]
OBVIOUS

\* A row, and a row with the solution after it.
LEMMA RowTexts ==
    ASSUME NEW r \in Results, NEW text,
           text = <<"fields", r>> \/ text = <<"fields", r, "hash", "problem">>
    PROVE  /\ text \in Seq(Pieces) /\ RowEnds(text, r)
           /\ {i \in DOMAIN text : text[i] = r} = {2}
           /\ \A q \in Results \ {r} : {i \in DOMAIN text : text[i] = q} = {}
<1>1. CASE text = <<"fields", r>>
  <2>1. DOMAIN text = {1, 2} /\ Len(text) = 2 /\ text[1] = "fields" /\ text[2] = r
    BY <1>1
  <2>2. text \in Seq(Pieces)
    BY <1>1 DEF Pieces
  <2>3. RowEnds(text, r)
    BY <2>1, <2>2, FirstRow
  <2>. QED
    BY <2>1, <2>2, <2>3 DEF Results
<1>2. CASE text = <<"fields", r, "hash", "problem">>
  <2>1. /\ DOMAIN text = {1, 2, 3, 4} /\ Len(text) = 4
        /\ text[1] = "fields" /\ text[2] = r /\ text[3] = "hash" /\ text[4] = "problem"
    BY <1>2
  <2>2. text \in Seq(Pieces)
    BY <1>2 DEF Pieces
  <2>3. \A i \in 3 .. Len(text) : i = 3 \/ i = 4
    BY <2>1
  <2>4. RowEnds(text, r)
    BY <2>1, <2>2, <2>3, FirstRow
  <2>. QED
    BY <2>1, <2>2, <2>4 DEF Results
<1>. QED
  BY <1>1, <1>2

\* The texts of a process that has printed its solution.
LEMMA Printing ==
    ASSUME NEW r \in Results
    PROVE  /\ (<<>> \o <<"hash", "problem">>) = <<"hash", "problem">>
           /\ (<<"fields", r>> \o <<"hash", "problem">>) = <<"fields", r, "hash", "problem">>
           /\ (<<"fields", r>> \o <<>>) = <<"fields", r>>
           /\ (<<>> \o <<>>) = <<>>
<1>1. <<"hash", "problem">> \in Seq(Pieces) /\ <<"fields", r>> \in Seq(Pieces)
  BY DEF Pieces
<1>2. <<"fields", r, "hash", "problem">> \in Seq(Pieces)
  BY DEF Pieces
<1>3. (<<"fields", r>> \o <<"hash", "problem">>) = <<"fields", r, "hash", "problem">>
  <2>. DEFINE x == <<"fields", r>> \o <<"hash", "problem">>
              y == <<"fields", r, "hash", "problem">>
  <2>1. x \in Seq(Pieces) /\ Len(x) = Len(y)
    BY <1>1
  <2>2. x[1] = y[1] /\ x[2] = y[2] /\ x[3] = y[3] /\ x[4] = y[4]
    BY <1>1
  <2>3. \A i \in 1 .. Len(y) : x[i] = y[i]
    BY <2>2
  <2>. QED
    BY <2>1, <2>3, <1>2, SeqEqual
<1>. QED
  BY <1>1, <1>3, ConcatAppend

\* find_fpga_hash: it ends without having returned from main.
LEMMA FindExit ==
    ASSUME Types, tool = "find", Alive, FindPoints, FindTexts, NEW r \in Results, Find!Exit(r),
           UNCHANGED <<perfectOnly, tool>>
    PROVE  Types' /\ status' # -1 /\ Find!ZeroMeansPrinted' /\ Find!LastRowTells'
<1>1. /\ pc = "logged" /\ result = r /\ r \in {"OutOfAttempts", "OutOfMemory", "Exception"}
      /\ <<r, status'>> \in {<<"OutOfAttempts", 1>>, <<"OutOfMemory", 2>>, <<"Exception", 3>>}
      /\ csv' = csv /\ result' = result
  BY DEF Find!Exit, Find!streams, Find!FlushAll, FindPoints, Results
<1>2. /\ buf' \in Contents /\ out' \in Contents
      /\ \A s \in Streams : out'[s] = out[s] \/ out'[s] = out[s] \o buf[s]
  <2>1. CASE r = "OutOfAttempts"
    BY <2>1, FlushWrites, SameStreams DEF Find!Exit, Types, Written
  <2>2. CASE r # "OutOfAttempts"
    BY <2>2 DEF Find!Exit, Find!streams, Types
  <2>. QED
    BY <2>1, <2>2
<1>3. Types'
  BY <1>1, <1>2 DEF Types, perfectOnly, Find!Exit
<1>4. status' \in 1 .. 3
  BY <1>1
<1>5. ASSUME csv' # "none"
      PROVE  RowEnds(out'[csv'], r)
  <2>1. csv \in Streams /\ csv' = csv
    BY <1>1, <1>5 DEF Types
  <2>2. RowAtEnd(out[csv], r) /\ buf[csv] = <<>> /\ out[csv] \in Seq(Pieces)
    BY <1>1, <2>1 DEF FindTexts, Streams, Types, Contents
  <2>3. out[csv] \o <<>> = out[csv]
    BY <2>2, ConcatAppend
  <2>4. out'[csv] = out[csv]
    BY <1>2, <2>1, <2>2, <2>3
  <2>. QED
    BY <2>1, <2>2, <2>4, LastRows
<1>6. Find!LastRowTells'
  BY <1>1, <1>5, SameStreams DEF Find!LastRowTells, Find!LastRow
<1>. QED
  BY <1>3, <1>4, <1>6 DEF Find!ZeroMeansPrinted

\* find_fpga_hash: main has returned.
LEMMA FindLeave ==
    ASSUME Types, tool = "find", Alive, FindPoints, FindTexts, Find!Leave,
           UNCHANGED <<perfectOnly, tool>>
    PROVE  Types' /\ status' # -1 /\ Find!ZeroMeansPrinted' /\ Find!LastRowTells'
<1>1. pc = "exit" /\ result = "Success" /\ status' = 0 /\ csv' = csv /\ FlushAll(Streams)
  BY SameStreams DEF Find!Leave, Find!FlushAll, FindPoints
<1>2. buf' \in Contents /\ out' \in Contents /\ \A s \in Streams : out'[s] = Written(s)
  BY <1>1, FlushWrites DEF Types
<1>3. Types'
  BY <1>1, <1>2 DEF Types, perfectOnly, Find!Leave
<1>4. \A s \in Streams :
         out'[s] = (IF s = csv THEN <<"fields", "Success">> ELSE <<>>)
                   \o (IF s = "cout" THEN <<"hash", "problem">> ELSE <<>>)
  BY <1>1, <1>2 DEF FindTexts, Expected, LogText, SolutionText, Unlogged
<1>5. "Success" \in Results /\ "cout" \in Streams
  BY DEF Results, Streams
<1>6. out'["cout"] = IF csv = "cout" THEN <<"fields", "Success", "hash", "problem">>
                     ELSE <<"hash", "problem">>
  BY <1>4, <1>5, Printing
<1>7. csv # "none" /\ csv # "cout" => out'[csv] = <<"fields", "Success">>
  BY <1>4, <1>5, Printing DEF Types
<1>8. Find!Printed' /\ Len(out'["cout"]) = IF csv' = "cout" THEN 4 ELSE 2
  <2>1. CASE csv = "cout"
    BY <1>1, <1>6, <2>1 DEF Find!Printed
  <2>2. CASE csv # "cout"
    BY <1>1, <1>6, <2>2 DEF Find!Printed
  <2>. QED
    BY <2>1, <2>2
<1>9. ASSUME csv' # "none"
      PROVE  /\ RowEnds(out'[csv'], "Success")
             /\ Find!Rows("Success")' = {2}
             /\ Find!Rows("OutOfTime")' = {} /\ Find!Rows("Exception")' = {}
  <2>1. out'[csv'] \in {<<"fields", "Success">>, <<"fields", "Success", "hash", "problem">>}
    BY <1>1, <1>6, <1>7, <1>9
  <2>. QED
    BY <1>5, <2>1, RowTexts DEF Find!Rows, Results
<1>10. Find!ZeroMeansPrinted'
  <2>1. csv' # "none" => Find!LastRow("Success")'
    BY <1>9, SameStreams DEF Find!LastRow
  <2>2. csv' # "none" => \E n \in Find!Rows("Success")' : Find!Rows("Success")' = {n}
    BY <1>9
  <2>3. csv' # "none" => Find!Rows("OutOfTime")' = {} /\ Find!Rows("Exception")' = {}
    BY <1>9
  <2>. QED
    BY <1>8, <2>1, <2>2, <2>3 DEF Find!ZeroMeansPrinted
<1>11. Find!LastRowTells'
  BY <1>1, <1>5, <1>9, SameStreams DEF Find!LastRowTells, Find!LastRow
<1>. QED
  BY <1>1, <1>3, <1>10, <1>11

\* find_fpga_hash: the time is up. Without a context, main has returned, and the row
\* of success is in the log, with none, a part or all of the solution after it.
LEMMA FindSignal ==
    ASSUME Types, tool = "find", Alive, FindPoints, FindTexts, Find!signal_outOfTime,
           UNCHANGED <<perfectOnly, tool>>
    PROVE  Types' /\ status' # -1 /\ Find!ZeroMeansPrinted' /\ Find!LastRowTells'
<1>1. status' = 1 /\ context' = context /\ csv' = csv
  BY DEF Find!signal_outOfTime, Find!LogAtOnce, Find!streams
<1>2. CASE csv = "none"
  BY <1>1, <1>2 DEF Find!signal_outOfTime, Find!streams, Types, perfectOnly,
        Find!ZeroMeansPrinted, Find!LastRowTells
<1>3. CASE csv # "none" /\ context
  <2>1. csv \in Streams /\ "OutOfTime" \in Results /\ LogAtOnce("OutOfTime")
    BY <1>3, SameStreams DEF Find!signal_outOfTime, Types, Results
  <2>2. buf' \in Contents /\ out' \in Contents /\ RowAtEnd(out'[csv], "OutOfTime")
    BY <2>1, RowWrites DEF Types
  <2>3. Types'
    BY <1>1, <2>2 DEF Types, Find!signal_outOfTime, perfectOnly
  <2>4. RowEnds(out'[csv'], "OutOfTime")
    BY <1>1, <2>1, <2>2, LastRows DEF Contents
  <2>5. Find!LastRowTells'
    BY <1>1, <2>1, <2>4, SameStreams DEF Find!LastRowTells, Find!LastRow
  <2>. QED
    BY <1>1, <2>3, <2>5 DEF Find!ZeroMeansPrinted
<1>4. CASE csv # "none" /\ ~ context
  <2>1. /\ pc = "exit" /\ result = "Success" /\ csv \in Streams
        /\ buf' = buf /\ out' = out
    BY <1>4 DEF Find!signal_outOfTime, Find!streams, Types, FindPoints
  <2>2. Types'
    BY <1>1, <2>1 DEF Types, Find!signal_outOfTime, perfectOnly
  <2>3. /\ out[csv] \in Seq(Pieces) /\ buf[csv] \in Seq(Pieces) /\ Len(out[csv]) >= 2
        /\ out[csv] \o buf[csv] = <<"fields", "Success">> \o (IF csv = "cout"
             THEN <<"hash", "problem">> ELSE <<>>)
    BY <1>4, <2>1 DEF FindTexts, Types, Contents, Written, Expected, LogText, SolutionText,
        Unlogged
  <2>4. "Success" \in Results
    BY DEF Results
  <2>. DEFINE w == out[csv] \o buf[csv]
  <2>5. w \in {<<"fields", "Success">>, <<"fields", "Success", "hash", "problem">>}
    BY <2>3, <2>4, Printing
  <2>6. RowEnds(out[csv], "Success")
    <3>1. Len(w) >= Len(out[csv]) /\ \A i \in 1 .. Len(out[csv]) : w[i] = out[csv][i]
      BY <2>3, Prefix
    <3>2. /\ w[1] = "fields" /\ w[2] = "Success"
          /\ Len(w) = 2 \/ (Len(w) = 4 /\ w[3] = "hash" /\ w[4] = "problem")
      <4>. HIDE DEF w
      <4>1. CASE w = <<"fields", "Success">>
        BY <4>1
      <4>2. CASE w = <<"fields", "Success", "hash", "problem">>
        BY <4>2
      <4>. QED
        BY <2>5, <4>1, <4>2
    <3>3. out[csv][1] = "fields" /\ out[csv][2] = "Success"
      BY <2>3, <3>1, <3>2
    <3>4. \A i \in 3 .. Len(out[csv]) : i = 3 \/ i = 4
      BY <2>3, <3>1, <3>2
    <3>5. \A i \in 3 .. Len(out[csv]) : out[csv][i] \in {"hash", "problem"}
      BY <2>3, <3>1, <3>2, <3>4
    <3>. QED
      BY <2>3, <2>4, <3>3, <3>5, FirstRow
  <2>7. Find!LastRowTells'
    BY <1>1, <1>4, <2>1, <2>4, <2>6, SameStreams DEF Find!LastRowTells, Find!LastRow
  <2>. QED
    BY <1>1, <2>2, <2>7 DEF Find!ZeroMeansPrinted
<1>. QED
  BY <1>2, <1>3, <1>4 DEF Types

\* perfect_fpga_hash: a step that leaves the streams alone.
LEMMA PerfectQuiet ==
    ASSUME Types, tool = "perfect", Alive, PerfectPoints, PerfectTexts,
           Perfect!OpenLog \/ Perfect!setTimeLimit \/ Perfect!setHandler \/ Perfect!Load
           \/ Perfect!Attempt \/ Perfect!NoSolution \/ Perfect!Solution \/ Perfect!NoLog
                \/ Perfect!GoPrint,
           UNCHANGED <<findOnly, tool>>
    PROVE  Types' /\ Alive' /\ PerfectPoints' /\ PerfectTexts'
<1>. USE DEF Alive, Perfect!Goto, Perfect!Streams, Streams
<1>1. buf' = buf /\ out' = out /\ \A s \in Streams : Written(s)' = Written(s)
  BY DEF Perfect!OpenLog, Perfect!setTimeLimit, Perfect!setHandler, Perfect!Load, Perfect!streams,
         Perfect!Attempt, Perfect!NoSolution, Perfect!Solution, Perfect!NoLog, Perfect!GoPrint,
             Written
<1>2. Types' /\ Alive'
  BY <1>1 DEF Types, PerfectPoints, findOnly, Results, Perfect!OpenLog, Perfect!setTimeLimit,
         Perfect!setHandler, Perfect!Load, Perfect!streams,
         Perfect!Attempt, Perfect!NoSolution, Perfect!Solution, Perfect!NoLog, Perfect!GoPrint
<1>3. PerfectPoints'
  BY <1>1 DEF Types, PerfectPoints, Unlogged, findOnly, Results, Perfect!OpenLog,
      Perfect!setTimeLimit,
         Perfect!setHandler, Perfect!Load, Perfect!streams,
         Perfect!Attempt, Perfect!NoSolution, Perfect!Solution, Perfect!NoLog, Perfect!GoPrint
<1>4. PerfectTexts'
  <2>. USE <1>1 DEF PerfectTexts, Expected, LogText, SolutionText, Unlogged, PerfectPoints
  <2>1. CASE Perfect!OpenLog
    BY <2>1 DEF Perfect!OpenLog
  <2>2. CASE Perfect!setTimeLimit \/ Perfect!setHandler \/ Perfect!Load
    BY <2>2 DEF Perfect!setTimeLimit, Perfect!setHandler, Perfect!Load, Perfect!streams
  <2>3. CASE Perfect!Attempt \/ Perfect!NoSolution \/ Perfect!Solution
    BY <2>3 DEF Perfect!Attempt, Perfect!NoSolution, Perfect!Solution, Perfect!streams
  <2>4. CASE Perfect!NoLog
    BY <2>4 DEF Perfect!NoLog, Perfect!streams
  <2>5. CASE Perfect!GoPrint
    BY <2>5 DEF Perfect!GoPrint, Perfect!streams
  <2>. QED
    BY <2>1, <2>2, <2>3, <2>4, <2>5
<1>. QED
  BY <1>2, <1>3, <1>4

\* perfect_fpga_hash: the row of the log, and the solution.
LEMMA PerfectPut ==
    ASSUME Types, tool = "perfect", Alive, PerfectPoints, PerfectTexts,
           Perfect!LogFields \/ Perfect!LogResult \/ Perfect!PrintHash \/ Perfect!PrintProblem,
           UNCHANGED <<findOnly, tool>>
    PROVE  Types' /\ Alive' /\ PerfectPoints' /\ PerfectTexts'
<1>. USE DEF Perfect!Goto
<1>. DEFINE L(q) == IF q = "log" THEN <<>>
                    ELSE IF q = "logResult" THEN <<"fields">>
                    ELSE <<"fields", result>>
            R(q) == IF q = "printProblem" THEN <<"hash">>
                    ELSE IF q = "exit" THEN <<"hash", "problem">>
                    ELSE <<>>
<1>1. PICK d \in Streams, p \in Pieces :
        /\ Put(d, p) /\ result' = result /\ result # "none"
        /\ \/ pc = "log" /\ pc' = "logResult" /\ d = csv /\ p = "fields"
           \/ pc = "logResult" /\ pc' = "logged" /\ d = csv /\ p = result
           \/ pc = "print" /\ pc' = "printProblem" /\ d = "cout" /\ p = "hash"
                /\ result = "Success"
           \/ pc = "printProblem" /\ pc' = "exit" /\ d = "cout" /\ p = "problem"
                /\ result = "Success"
  <2>1. "fields" \in Pieces /\ "hash" \in Pieces /\ "problem" \in Pieces /\ "cout" \in Streams
    BY DEF Pieces, Streams
  <2>2. result # "none" /\ result \in Pieces
    BY DEF Types, Pieces, PerfectPoints, Unlogged,
           Perfect!LogFields, Perfect!LogResult, Perfect!PrintHash, Perfect!PrintProblem
  <2>3. CASE Perfect!LogFields
    BY <2>1, <2>2, <2>3, SameStreams DEF Perfect!LogFields, Types
  <2>4. CASE Perfect!LogResult
    BY <2>2, <2>4, SameStreams DEF Perfect!LogResult, Types, PerfectPoints
  <2>5. CASE Perfect!PrintHash
    BY <2>1, <2>2, <2>5, SameStreams DEF Perfect!PrintHash, PerfectPoints
  <2>6. CASE Perfect!PrintProblem
    BY <2>1, <2>2, <2>6, SameStreams DEF Perfect!PrintProblem, PerfectPoints
  <2>. QED
    BY <2>3, <2>4, <2>5, <2>6
<1>2. \A q : L(q) \in Seq(Pieces) /\ R(q) \in Seq(Pieces)
  <2>1. /\ <<"fields">> \in Seq(Pieces) /\ <<"fields", result>> \in Seq(Pieces)
        /\ <<"hash">> \in Seq(Pieces) /\ <<"hash", "problem">> \in Seq(Pieces)
    BY <1>1 DEF Pieces, Types
  <2>. QED
    BY <2>1
<1>3. /\ csv' = csv /\ buf' \in Contents /\ out' \in Contents
      /\ Written(d)' = Append(Written(d), p)
      /\ \A t \in Streams \ {d} : Written(t)' = Written(t)
  BY <1>1, PutAppends DEF Types
<1>4. Types' /\ Alive'
  BY <1>1, <1>3 DEF Types, Alive, findOnly, Perfect!LogFields, Perfect!LogResult,
      Perfect!PrintHash, Perfect!PrintProblem
<1>5. PerfectPoints'
  BY <1>1, <1>3 DEF PerfectPoints, Unlogged, findOnly, Perfect!LogFields, Perfect!LogResult,
      Perfect!PrintHash, Perfect!PrintProblem
<1>6. ASSUME NEW s \in Streams
      PROVE  /\ Written(s) = (IF s = csv THEN L(pc) ELSE <<>>) \o (IF s = "cout" THEN R(pc)
                  ELSE <<>>)
             /\ Expected(s)' = (IF s = csv THEN L(pc') ELSE <<>>) \o (IF s = "cout"
                  THEN R(pc') ELSE <<>>)
  BY <1>1, <1>3 DEF PerfectTexts, Expected, LogText, SolutionText, Unlogged
<1>7. ASSUME NEW s \in Streams
      PROVE  Written(s)' = Expected(s)'
  <2>1. CASE s # d
    <3>1. (s = csv => L(pc') = L(pc)) /\ (s = "cout" => R(pc') = R(pc))
      BY <1>1, <2>1
    <3>. QED
      BY <1>3, <1>6, <2>1, <3>1
  <2>2. CASE s = d /\ pc \in {"log", "logResult"}
    <3>1. s = csv /\ R(pc) = <<>> /\ R(pc') = <<>> /\ L(pc') = Append(L(pc), p)
      BY <1>1, <2>2, ShortTexts
    <3>2. L(pc) \o <<>> = L(pc) /\ L(pc') \o <<>> = L(pc')
      BY <1>2, ConcatAppend
    <3>3. Written(s) = L(pc) /\ Expected(s)' = L(pc')
      BY <1>6, <3>1, <3>2
    <3>. QED
      BY <1>3, <2>2, <3>1, <3>3
  <2>3. CASE s = d /\ pc \in {"print", "printProblem"}
    <3>1. s = "cout" /\ L(pc') = L(pc) /\ R(pc') = Append(R(pc), p)
      BY <1>1, <2>3, ShortTexts
    <3>2. PICK M \in Seq(Pieces) : M = IF s = csv THEN L(pc) ELSE <<>>
      BY <1>2
    <3>3. Written(s) = M \o R(pc) /\ Expected(s)' = M \o Append(R(pc), p)
      BY <1>6, <3>1, <3>2
    <3>4. R(pc) \in Seq(Pieces) /\ Put(s, p)
      BY <1>1, <1>2, <2>3
    <3>. HIDE DEF R
    <3>. QED
      BY <3>3, <3>4, Putting
  <2>. QED
    BY <1>1, <2>1, <2>2, <2>3
<1>8. closed' <=> pc' = "leave"
  BY <1>5 DEF PerfectPoints
<1>. QED
  BY <1>1, <1>4, <1>5, <1>7, <1>8 DEF PerfectTexts

\* perfect_fpga_hash: the log is closed.
LEMMA PerfectClose ==
    ASSUME Types, tool = "perfect", Alive, PerfectPoints, PerfectTexts,
           Perfect!CloseLog, UNCHANGED <<findOnly, tool>>
    PROVE  Types' /\ Alive' /\ PerfectPoints' /\ PerfectTexts'
<1>1. /\ pc = "exit" /\ pc' = "leave" /\ closed' = TRUE /\ result' = result /\ status' = status
      /\ FlushAll({"csvLogFile"})
  BY SameStreams DEF Perfect!CloseLog
<1>2. /\ csv' = csv /\ buf' \in Contents /\ out' \in Contents
      /\ \A s \in Streams : Written(s)' = Written(s)
      /\ buf'["csvLogFile"] = <<>>
  BY <1>1, FlushWrites DEF Types, Streams
<1>3. Types' /\ Alive' /\ PerfectPoints'
  BY <1>1, <1>2 DEF Types, Alive, PerfectPoints, Unlogged, findOnly, Perfect!CloseLog
<1>4. \A s \in Streams : Expected(s)' = Expected(s)
  BY <1>1, <1>2 DEF Expected, LogText, SolutionText, Unlogged
<1>. QED
  BY <1>2, <1>3, <1>4 DEF PerfectTexts

\* perfect_fpga_hash: a row that is put into the log at once, whatever was there, is
\* the last, and as it is none of success it promises nothing.
LEMMA PerfectRowEnds ==
    ASSUME NEW r \in Results \ {"Success"}, csv' \in Streams, out' \in Contents,
           RowAtEnd(out'[csv'], r), status' = 0
    PROVE  Perfect!VerdictMeansPrinted'
<1>1. out'[csv'] \in Seq(Pieces) /\ csv' # "none" /\ "Success" \in Results
  BY DEF Contents, Streams, Results
<1>2. RowEnds(out'[csv'], r) /\ ~ RowEnds(out'[csv'], "Success")
  BY <1>1, LastRows
<1>. QED
  BY <1>1, <1>2, SameStreams DEF Perfect!VerdictMeansPrinted, Perfect!LastRow

\* perfect_fpga_hash: the texts are all that they should be, but for the end of a log
\* that is still open.
LEMMA PerfectVerdict ==
    ASSUME Types, csv' = csv, out' \in Contents,
           result \in {"Success", "OutOfAttempts"},
           \A s \in Streams :
              out'[s] = (IF s = csv THEN <<"fields", result>> ELSE <<>>)
                        \o (IF s = "cout" /\ result = "Success" THEN <<"hash", "problem">>
                            ELSE <<>>),
           csv = "none" => status' # 0 \/ result = "Success",
           csv # "none" => status' = 0
    PROVE  Perfect!VerdictMeansPrinted'
<1>1. result \in Results /\ "cout" \in Streams /\ "Success" \in Results
  BY DEF Results, Streams
<1>2. ASSUME csv # "none"
      PROVE  RowEnds(out'[csv], result)
  <2>1. out'[csv] \in {<<"fields", result>>, <<"fields", result, "hash", "problem">>}
    BY <1>1, <1>2, Printing DEF Types
  <2>. QED
    BY <1>1, <2>1, RowTexts
<1>3. ASSUME result = "Success"
      PROVE  Perfect!Printed'
  <2>1. out'["cout"] \in {<<"hash", "problem">>, <<"fields", result, "hash", "problem">>}
    BY <1>1, <1>3, Printing
  <2>2. CASE out'["cout"] = <<"hash", "problem">>
    BY <2>2 DEF Perfect!Printed
  <2>3. CASE out'["cout"] = <<"fields", result, "hash", "problem">>
    BY <2>3 DEF Perfect!Printed
  <2>. QED
    BY <2>1, <2>2, <2>3
<1>4. csv # "none" /\ RowEnds(out'[csv], "Success") => result = "Success"
  <2>1. csv # "none" => out'[csv] \in Seq(Pieces)
    BY DEF Types, Contents
  <2>. QED
    BY <1>1, <1>2, <2>1, LastRows
<1>. QED
  BY <1>1, <1>2, <1>3, <1>4, SameStreams DEF Perfect!VerdictMeansPrinted, Perfect!LastRow

\* perfect_fpga_hash: a catch block.
LEMMA PerfectCatch ==
    ASSUME Types, tool = "perfect", Alive, PerfectPoints, PerfectTexts,
           NEW r \in {"Exception", "OutOfMemory"}, Perfect!Catch(r), UNCHANGED <<findOnly, tool>>
    PROVE  Types' /\ status' # -1 /\ Perfect!VerdictMeansPrinted'
<1>1. status' = (IF csv = "none" THEN 1 ELSE 0) /\ csv' = csv
  BY DEF Perfect!Catch, Perfect!Failure, Perfect!streams, Perfect!LogAtOnce
<1>2. r \in Results \ {"Success"}
  BY DEF Results
<1>3. CASE csv = "none"
  BY <1>1, <1>3 DEF Perfect!Catch, Perfect!streams, Types, findOnly, Perfect!VerdictMeansPrinted
<1>4. CASE csv # "none"
  <2>1. csv \in Streams /\ LogAtOnce(r)
    BY <1>4, SameStreams DEF Perfect!Catch, Types
  <2>2. buf' \in Contents /\ out' \in Contents /\ RowAtEnd(out'[csv], r)
    BY <1>2, <2>1, RowWrites DEF Types
  <2>3. Types'
    BY <1>1, <1>4, <2>2 DEF Types, Perfect!Catch, findOnly
  <2>. QED
    BY <1>1, <1>2, <1>4, <2>1, <2>2, <2>3, PerfectRowEnds
<1>. QED
  BY <1>3, <1>4

\* perfect_fpga_hash: what the streams hold when the log is closed.
LEMMA Closed ==
    ASSUME Types, PerfectPoints, PerfectTexts, pc = "leave", out' \in Contents,
           \A s \in Streams : out'[s] = IF s = "cout" THEN Written(s) ELSE out[s]
    PROVE  /\ result \in {"Success", "OutOfAttempts"}
           /\ \A s \in Streams :
                out'[s] = (IF s = csv THEN <<"fields", result>> ELSE <<>>)
                          \o (IF s = "cout" /\ result = "Success"
                              THEN <<"hash", "problem">> ELSE <<>>)
<1>1. result \in {"Success", "OutOfAttempts"}
  BY DEF PerfectPoints, Unlogged
<1>2. ASSUME NEW s \in Streams
      PROVE  out'[s] = Written(s)
  <2>1. CASE s = "cout"
    BY <2>1
  <2>2. CASE s = "csvLogFile"
    <3>1. buf[s] = <<>> /\ out[s] \in Seq(Pieces)
      BY <2>2 DEF PerfectTexts, PerfectPoints, Types, Contents
    <3>2. out[s] \o <<>> = out[s]
      BY <3>1, ConcatAppend
    <3>. QED
      BY <2>2, <3>1, <3>2 DEF Written
  <2>. QED
    BY <2>1, <2>2 DEF Streams
<1>. QED
  BY <1>1, <1>2 DEF PerfectTexts, Expected, LogText, SolutionText, Unlogged

\* perfect_fpga_hash: main has returned, or exit() was called.
LEMMA PerfectLeave ==
    ASSUME Types, tool = "perfect", Alive, PerfectPoints, PerfectTexts,
           Perfect!Leave, UNCHANGED <<findOnly, tool>>
    PROVE  Types' /\ status' # -1 /\ Perfect!VerdictMeansPrinted'
<1>1. /\ pc = "leave" /\ FlushAll({"cout"}) /\ csv' = csv
      /\ status' = IF result = "Success" THEN 0 ELSE IF csv = "none" THEN 1 ELSE 0
  BY SameStreams DEF Perfect!Leave, Perfect!Failure, Perfect!FlushAll
<1>2. /\ buf' \in Contents /\ out' \in Contents
      /\ \A s \in Streams : out'[s] = IF s = "cout" THEN Written(s) ELSE out[s]
  BY <1>1, FlushWrites DEF Types
<1>3. Types'
  BY <1>1, <1>2 DEF Types, Perfect!Leave, findOnly
<1>. QED
  BY <1>1, <1>2, <1>3, Closed, PerfectVerdict

\* perfect_fpga_hash: the time is up.
LEMMA PerfectSignal ==
    ASSUME Types, tool = "perfect", Alive, PerfectPoints, PerfectTexts,
           Perfect!signal_outOfTime, UNCHANGED <<findOnly, tool>>
    PROVE  Types' /\ status' # -1 /\ Perfect!VerdictMeansPrinted'
<1>1. status' = (IF csv = "none" THEN 1 ELSE 0) /\ csv' = csv
  BY DEF Perfect!signal_outOfTime, Perfect!Failure, Perfect!streams, Perfect!FlushAll
<1>2. CASE csv = "none"
  BY <1>1, <1>2 DEF Perfect!signal_outOfTime, Perfect!streams, Types, findOnly,
      Perfect!VerdictMeansPrinted
<1>3. CASE csv = "csvLogFile" /\ closed
  <2>1. FlushAll({"cout"}) /\ pc = "leave"
    BY <1>3, SameStreams DEF Perfect!signal_outOfTime, PerfectPoints
  <2>2. /\ buf' \in Contents /\ out' \in Contents
        /\ \A s \in Streams : out'[s] = IF s = "cout" THEN Written(s) ELSE out[s]
    BY <2>1, FlushWrites DEF Types
  <2>3. Types'
    BY <1>1, <1>3, <2>2 DEF Types, Perfect!signal_outOfTime, findOnly
  <2>. QED
    BY <1>1, <1>3, <2>1, <2>2, <2>3, Closed, PerfectVerdict
<1>4. CASE csv # "none" /\ ~ (csv = "csvLogFile" /\ closed)
  <2>1. /\ csv \in Streams /\ buf' = [s \in Streams |-> <<>>]
        /\ out' = [s \in Streams |-> out[s] \o buf[s] \o (IF s = csv
             THEN <<"fields", "OutOfTime">> ELSE <<>>)]
    BY <1>4, SameStreams DEF Perfect!signal_outOfTime, Types
  <2>2. "OutOfTime" \in Results \ {"Success"}
    BY DEF Results
  <2>3. ASSUME NEW s \in Streams
        PROVE  /\ out'[s] \in Seq(Pieces) /\ buf'[s] \in Seq(Pieces)
               /\ s = csv => RowAtEnd(out'[s], "OutOfTime")
    <3>1. out[s] \o buf[s] \in Seq(Pieces)
      BY DEF Types, Contents
    <3>2. out[s] \o buf[s] \o <<>> \in Seq(Pieces) /\ <<>> \in Seq(Pieces)
      BY <3>1, ConcatAppend
    <3>3. buf'[s] = <<>> /\ out'[s] = out[s] \o buf[s] \o (IF s = csv
          THEN <<"fields", "OutOfTime">> ELSE <<>>)
      BY <2>1
    <3>4. CASE s = csv
      BY <2>2, <3>1, <3>2, <3>3, <3>4, RowPut
    <3>5. CASE s # csv
      BY <3>2, <3>3, <3>5
    <3>. QED
      BY <3>4, <3>5
  <2>4. buf' \in Contents /\ out' \in Contents
    BY <2>1, <2>3 DEF Contents
  <2>5. Types'
    BY <1>1, <1>4, <2>4 DEF Types, Perfect!signal_outOfTime, findOnly
  <2>6. csv' \in Streams /\ RowAtEnd(out'[csv'], "OutOfTime") /\ status' = 0
    BY <1>1, <1>4, <2>1, <2>3
  <2>7. Perfect!VerdictMeansPrinted'
    BY <2>2, <2>4, <2>6, PerfectRowEnds
  <2>. QED
    BY <2>5, <2>6, <2>7
<1>. QED
  BY <1>2, <1>3, <1>4 DEF Types

-----------------------------------------------------------------------------
\* A process begins with nothing written.
LEMMA InitFront == FrontInit => FrontInv
<1>. SUFFICES ASSUME FrontInit
             PROVE  FrontInv
  OBVIOUS
<1>1. buf \in Contents /\ out \in Contents /\ \A s \in Streams : buf[s] = <<>> /\ out[s] = <<>>
  <2>1. buf = [s \in Streams |-> <<>>] /\ out = buf
    BY SameStreams DEF FrontInit, Find!Init, Perfect!Init, Find!NothingWritten,
        Perfect!NothingWritten
  <2>2. <<>> \in Seq(Pieces)
    OBVIOUS
  <2>. QED
    BY <2>1, <2>2 DEF Contents
<1>2. <<>> \o <<>> = <<>>
  BY ConcatAppend
<1>3. Types /\ Alive
  <2>1. /\ tool \in {"find", "perfect"} /\ csv = "none" /\ result = "none" /\ status = -1
        /\ context \in BOOLEAN /\ closed \in BOOLEAN /\ pc = "arguments"
    BY DEF FrontInit, Find!Init, Perfect!Init
  <2>2. status \in -1 .. 3
    BY <2>1
  <2>. QED
    BY <1>1, <2>1, <2>2, Zenon DEF Types, Alive
<1>4. CASE tool = "find"
  <2>1. FindPoints /\ csv = "none" /\ pc = "arguments"
    BY <1>4 DEF FrontInit, Find!Init, FindPoints, Unlogged
  <2>2. FindTexts
    BY <1>1, <1>2, <2>1 DEF FindTexts, Written, Expected, LogText, SolutionText, Unlogged, Streams
  <2>. QED
    BY <1>3, <1>4, <2>1, <2>2 DEF FrontInv, Alive
<1>5. CASE tool = "perfect"
  <2>1. PerfectPoints /\ csv = "none" /\ pc = "arguments" /\ closed = FALSE
    BY <1>5 DEF FrontInit, Perfect!Init, PerfectPoints, Unlogged
  <2>2. PerfectTexts
    BY <1>1, <1>2, <2>1 DEF PerfectTexts, Written, Expected, LogText, SolutionText, Unlogged,
        Streams
  <2>. QED
    BY <1>3, <1>5, <2>1, <2>2 DEF FrontInv, Alive
<1>. QED
  BY <1>4, <1>5 DEF FrontInit

\* The steps of find_fpga_hash.
LEMMA FindPreserves ==
    ASSUME FrontInv, tool = "find", Find!Next, UNCHANGED <<perfectOnly, tool>>
    PROVE  FrontInv'
<1>1. Types /\ Alive /\ FindPoints /\ FindTexts /\ tool' = "find"
  BY DEF FrontInv, Alive, Find!Next, Find!Running, Find!signal_outOfTime, Find!Kill
<1>2. CASE Find!Steps \/ Find!Solve
  <2>1. CASE \E r \in Find!Results : Find!Exit(r)
    <3>1. PICK r \in Results : Find!Exit(r)
      BY <2>1, SameStreams
    <3>. QED
      BY <1>1, <3>1, FindExit DEF FrontInv, ZeroMeansPrinted, LastRowTells, VerdictIsRight, Alive
  <2>2. CASE Find!Leave
    BY <1>1, <2>2, FindLeave DEF FrontInv, ZeroMeansPrinted, LastRowTells, VerdictIsRight, Alive
  <2>3. CASE ~ (\E r \in Find!Results : Find!Exit(r)) /\ ~ Find!Leave
    <3>1. Types' /\ Alive' /\ FindPoints' /\ FindTexts'
      BY <1>1, <1>2, <2>3, FindQuiet, FindRow, FindFlush, FindPrint DEF Find!Steps
    <3>. QED
      BY <1>1, <3>1 DEF FrontInv, Alive
  <2>. QED
    BY <2>1, <2>2, <2>3
<1>3. CASE Find!signal_outOfTime
  BY <1>1, <1>3, FindSignal DEF FrontInv, ZeroMeansPrinted, LastRowTells, VerdictIsRight, Alive
<1>4. CASE Find!Kill
  BY <1>1, <1>4 DEF FrontInv, Alive, Types, Find!Kill, Find!streams, perfectOnly
<1>. QED
  BY <1>2, <1>3, <1>4 DEF Find!Next

\* The steps of perfect_fpga_hash.
LEMMA PerfectPreserves ==
    ASSUME FrontInv, tool = "perfect", Perfect!Next, UNCHANGED <<findOnly, tool>>
    PROVE  FrontInv'
<1>1. Types /\ Alive /\ PerfectPoints /\ PerfectTexts /\ tool' = "perfect"
  BY DEF FrontInv, Alive, Perfect!Next, Perfect!Running, Perfect!signal_outOfTime, Perfect!Kill
<1>2. CASE Perfect!Steps \/ Perfect!NoSolution \/ Perfect!Solution
  <2>1. CASE Perfect!Catch("Exception") \/ Perfect!Catch("OutOfMemory")
    BY <1>1, <2>1, PerfectCatch DEF FrontInv, ZeroMeansPrinted, LastRowTells, VerdictIsRight, Alive
  <2>2. CASE Perfect!Leave
    BY <1>1, <2>2, PerfectLeave DEF FrontInv, ZeroMeansPrinted, LastRowTells, VerdictIsRight, Alive
  <2>3. CASE ~ (Perfect!Catch("Exception") \/ Perfect!Catch("OutOfMemory")) /\ ~ Perfect!Leave
    <3>1. Types' /\ Alive' /\ PerfectPoints' /\ PerfectTexts'
      BY <1>1, <1>2, <2>3, PerfectQuiet, PerfectPut, PerfectClose DEF Perfect!Steps
    <3>. QED
      BY <1>1, <3>1 DEF FrontInv, Alive
  <2>. QED
    BY <2>1, <2>2, <2>3
<1>3. CASE Perfect!signal_outOfTime
  BY <1>1, <1>3, PerfectSignal DEF FrontInv, ZeroMeansPrinted, LastRowTells, VerdictIsRight, Alive
<1>4. CASE Perfect!Kill
  BY <1>1, <1>4 DEF FrontInv, Alive, Types, Perfect!Kill, Perfect!streams, findOnly
<1>. QED
  BY <1>2, <1>3, <1>4 DEF Perfect!Next

\* Every step of either process keeps the invariant.
LEMMA FrontPreserves == FrontInv /\ [FrontNext]_frontVars => FrontInv'
<1>1. ASSUME FrontInv, FrontNext
      PROVE  FrontInv'
  BY <1>1, FindPreserves, PerfectPreserves DEF FrontNext
<1>2. ASSUME FrontInv, UNCHANGED frontVars
      PROVE  FrontInv'
  <2>1. /\ UNCHANGED <<csv, buf, out, maxTime, limited, handled, result, pc, status>>
        /\ UNCHANGED <<method, context, verbose, tries, closed, tool>>
    BY <1>2 DEF frontVars, streams, findOnly, perfectOnly
  <2>2. Types' = Types /\ Alive' = Alive /\ FindPoints' = FindPoints
        /\ PerfectPoints' = PerfectPoints
    BY <2>1 DEF Types, Alive, FindPoints, PerfectPoints
  <2>3. FindTexts' = FindTexts /\ PerfectTexts' = PerfectTexts
    BY <2>1 DEF FindTexts, PerfectTexts, Expected, LogText, SolutionText, Written
  <2>4. ZeroMeansPrinted' = ZeroMeansPrinted
    BY <2>1 DEF ZeroMeansPrinted, Find!ZeroMeansPrinted, Find!Printed, Find!Rows, Find!LastRow
  <2>5. LastRowTells' = LastRowTells /\ VerdictIsRight' = VerdictIsRight
    BY <2>1 DEF LastRowTells, VerdictIsRight, Find!LastRowTells, Find!LastRow,
          Perfect!VerdictMeansPrinted, Perfect!Printed, Perfect!LastRow
  <2>. QED
    BY <1>2, <2>1, <2>2, <2>3, <2>4, <2>5 DEF FrontInv
<1>. QED
  BY <1>1, <1>2

\* Of either process: at each point, buffer and file together hold what has been
\* written so far, and in the end the promises hold.
THEOREM FrontInvariance == FrontSpec => []FrontInv
BY InitFront, FrontPreserves, PTL DEF FrontSpec

\* The promises follow; while a process runs they ask nothing.
LEMMA Verdicts == FrontInv => ZeroMeansPrinted /\ LastRowTells /\ VerdictIsRight
<1>1. status = -1 => Find!ZeroMeansPrinted
  BY DEF Find!ZeroMeansPrinted
<1>2. status = -1 => Find!LastRowTells
  BY DEF Find!LastRowTells
<1>3. status = -1 => Perfect!VerdictMeansPrinted
  BY DEF Perfect!VerdictMeansPrinted
<1>. QED
  BY <1>1, <1>2, <1>3 DEF FrontInv, ZeroMeansPrinted, LastRowTells, VerdictIsRight

\* find_fpga_hash: a status of 0 means that hash and problem are on cout, whole and back
\* to back, and that the only row of the log, if there is a log, is one of success.
THEOREM ZeroAlwaysPrinted == FrontSpec => []ZeroMeansPrinted
BY FrontInvariance, Verdicts, PTL

\* find_fpga_hash: whatever was being written when the time was up or an exception came,
\* the last row of the log is whole and belongs to the exit status.
THEOREM LastRowAlwaysTells == FrontSpec => []LastRowTells
BY FrontInvariance, Verdicts, PTL

\* perfect_fpga_hash: a status of 0 with a log means that its last row is whole, and a
\* last row of success that hash and problem are on cout.
THEOREM VerdictAlwaysRight == FrontSpec => []VerdictIsRight
BY FrontInvariance, Verdicts, PTL
=============================================================================
