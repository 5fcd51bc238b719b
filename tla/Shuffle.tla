------------------------------ MODULE Shuffle ------------------------------
(***************************************************************************)
(* How a solver chooses the taps of its tables (include/shuffle.hpp,       *)
(* include/weighted_shuffle.hpp): every key bit goes to one table, in      *)
(* turn, the tables are filled up by random draws, and the taps are        *)
(* sorted.  The weighted variant only looks at the key bits that are 0 in  *)
(* some key and 1 in another; entropy is abstracted to that.               *)
(*                                                                         *)
(* The taps of a table, sorted and without repeats, are represented by     *)
(* their set.  The keys are a choice, and so are their width and number,   *)
(* from which wI and, without --wo, the number of tables are derived.      *)
(***************************************************************************)
EXTENDS Integers, Sequences, FiniteSets, Functions

CONSTANTS MaxWidth,  \* bound: the widest key
          KeySets,   \* the problems: sets of keys, with no overlap in a set
          TapCounts, \* values of --wa
          Widths,    \* values of --wo
          Defaults   \* what the default method is compared with: the method
                     \* "minisat_weighted" in perfect_fpga_hash, "weighted" in solve_cnf

Bits == 0 .. MaxWidth-1
Keys == [Bits -> {-1, 0, 1}]

ASSUME ShuffleAssumption ==
    /\ MaxWidth \in Nat
    /\ TapCounts \subseteq Nat \ {0}
    /\ Widths \subseteq Nat \ {0}
    /\ Defaults \subseteq {"minisat_weighted", "weighted"}

\* What key_value_set lets pass: any two keys differ at a bit that both define.
ASSUME KeySetsAssumption ==
    \A ks \in KeySets :
        /\ ks # {} /\ ks \subseteq Keys /\ IsFiniteSet(ks)
        /\ \A j, k \in ks : j # k => \E i \in Bits : {j[i], k[i]} = {0, 1}

VARIABLES keys, wO, wA,
          tapSelectMethod,
          weighted,  \* whether makeWeightedBitHash is called
          res,       \* the taps, table by table
          rres,      \* the result: the same, sorted
          phase

vars == <<keys, wO, wA, tapSelectMethod, weighted, res, rres, phase>>

-----------------------------------------------------------------------------
\* The key bits below getKeyWidth(): up to the highest that is not 0 everywhere.
Inputs == {i \in Bits : \E j \in Bits : j >= i /\ \E k \in keys : k[j] # 0}

\* Mutant: a bit with as many zeros as ones has no weight.
calculateBitWeightsUneven ==
    {i \in Bits :
        LET n(v) == Cardinality({k \in keys : k[i] = v}) IN n(0) > 0 /\ n(1) > 0 /\ n(0) # n(1)}

\* Mutant: every bit has a weight.
calculateBitWeightsAll == Inputs

\* The bits whose weight is above 0: neither value is missing.
calculateBitWeights == {i \in Bits : (\E k \in keys : k[i] = 1) /\ (\E k \in keys : k[i] = 0)}

\* The bits that have to be in a table, and how many a table gets at least.
Needed   == IF weighted THEN calculateBitWeights ELSE Inputs
PerTable == IF Cardinality(Needed) < wA THEN Cardinality(Needed) ELSE wA

\* ceil(log(nKeys) / log(2)), which is 0 for one key
Spans(w) == IF w = 0 THEN Cardinality(keys) = 1 ELSE Cardinality(keys) <= 2^w
LeastSpan(w)  == Spans(w) /\ (w > 0 => ~ Spans(w - 1))

Init == /\ keys \in KeySets
        /\ wO \in {w \in 0 .. Cardinality(keys) : LeastSpan(w)} \cup {w \in Widths : Spans(w)}
        /\ wA \in TapCounts
        /\ tapSelectMethod \in {"minisat", "weighted", "minisat_weighted"}
        /\ weighted \in {tapSelectMethod = d : d \in Defaults}
        /\ res = [t \in 1 .. wO |-> {}]
        /\ rres = <<>>
        /\ phase = "place"

\* The position of a bit among those needed.
Position(i) == Cardinality({j \in Needed : j < i})

\* i % wO
Placed == [t \in 1 .. wO |-> {i \in Needed : t = (Position(i) % wO) + 1}]

\* Every needed input is put into a table.
Place ==
    /\ phase = "place"
    /\ Needed # {} => wO > 0
    /\ res' = Placed
    /\ phase' = "fill"
    /\ UNCHANGED <<keys, wO, wA, tapSelectMethod, weighted, rres>>

\* i % wO for a hash without tables.
DivideByZero ==
    /\ phase = "place"
    /\ Needed # {} /\ wO = 0
    /\ phase' = "crashed"
    /\ UNCHANGED <<keys, wO, wA, tapSelectMethod, weighted, res, rres>>

\* The tables with too few taps.
Unfilled == {t \in 1 .. wO : Cardinality(res[t]) < PerTable}

\* Mutant: draws go on until a table has wA taps.
DrawUpToWA(v) ==
    /\ phase = "fill"
    /\ v \in Needed
    /\ \E t \in 1 .. wO :
          /\ Cardinality(res[t]) < wA
          /\ \A u \in 1 .. t-1 : Cardinality(res[u]) >= wA
          /\ res' = [res EXCEPT ![t] = @ \cup {v}]
    /\ UNCHANGED <<keys, wO, wA, tapSelectMethod, weighted, rres, phase>>

\* A draw for the first of them, which may have that tap.
Draw(v) ==
    /\ phase = "fill"
    /\ v \in Needed
    /\ \E t \in Unfilled :
          /\ \A u \in Unfilled : t <= u
          /\ res' = [res EXCEPT ![t] = @ \cup {v}]
    /\ UNCHANGED <<keys, wO, wA, tapSelectMethod, weighted, rres, phase>>

\* Mutant: tables with fewer taps come first.
BeforeBySize(s, t) == Cardinality(s) < Cardinality(t)

(***************************************************************************)
(* lexicographical_compare of two tables.  The smallest tap that only one  *)
(* has decides: the table that has it comes first, unless the other ends   *)
(* there.                                                                  *)
(***************************************************************************)
Before(s, t) ==
    \E d \in (s \cup t) \ (s \cap t) :
        /\ \A e \in (s \cup t) \ (s \cap t) : d <= e
        /\ (d \in s) <=> (\E e \in (IF d \in s THEN t ELSE s) : e > d)

\* canonicaliseShuffle
Canonicalise ==
    /\ phase = "fill"
    /\ Unfilled = {}
    /\ \E p \in Bijection(1 .. wO, 1 .. wO) :
          /\ rres' = [t \in 1 .. wO |-> res[p[t]]]
          /\ \A t, u \in 1 .. wO : t < u => ~ Before(rres'[u], rres'[t])
    /\ phase' = "done"
    /\ UNCHANGED <<keys, wO, wA, tapSelectMethod, weighted, res>>

Next == \/ Place \/ DivideByZero
        \/ \E v \in Bits : Draw(v)
        \/ Canonicalise

Spec == Init /\ [][Next]_vars

\* A generator that draws every value again and again.
FairSpec == /\ Spec
            /\ WF_vars(Next)
            /\ \A v \in Bits : SF_vars(Draw(v))

-----------------------------------------------------------------------------
(* All the variables have values of the right kind.                         *)
TypeOK ==
    /\ keys \subseteq Keys /\ wO \in Nat /\ wA \in TapCounts /\ weighted \in BOOLEAN
    /\ res \in [1 .. wO -> SUBSET Inputs]
    /\ rres = <<>> \/ rres \in [1 .. wO -> SUBSET Inputs]
    /\ phase \in {"place", "fill", "done", "crashed"}

(* The taps tell the keys apart: any two keys of the problem have a tap at   *)
(* which one is 0 and the other 1. Without that no luts could be a solution, *)
(* however many tables there are; the weights only drop bits that "we never  *)
(* need to look at" (weighted_shuffle.hpp:29).                               *)
TapsSeparate ==
    phase = "done" =>
        \A j, k \in keys :
            j # k => \E t \in 1 .. wO : \E i \in rres[t] : {j[i], k[i]} = {0, 1}

(* The largest tables come first, as shuffle.hpp:27 wants it, although they  *)
(* are sorted by their taps; and if the tables have room for all inputs,     *)
(* they are of the same size.                                                *)
LargestFirst ==
    phase = "done" =>
        /\ \A t, u \in 1 .. wO : t < u => Cardinality(rres[t]) >= Cardinality(rres[u])
        /\ Cardinality(Needed) <= wA * wO => \A t \in 1 .. wO : Cardinality(rres[t]) = PerTable

(* Only a single key, which needs no hash, ends in a division by zero, and   *)
(* only where its bits are not weighted.                                     *)
CrashIsSingleKey == phase = "crashed" => Cardinality(keys) = 1 /\ ~ weighted

(* The draws come to an end. *)
Terminates == <>(phase \in {"done", "crashed"})
=============================================================================
