------------------------------ MODULE SolveCnf ------------------------------
(***************************************************************************)
(* solve_cnf (include/solver_cnf.hpp): draw taps, encode, ask minisat, put *)
(* the answer into the luts, check it; try other taps if there is none.    *)
(*                                                                         *)
(* The problem and the taps are variables here, so that the operators of   *)
(* ToCnf come from an instance with its Key and Selectors substituted.     *)
(***************************************************************************)
EXTENDS Integers, Sequences, FiniteSetsExt, Widths

CONSTANTS Problems,    \* the problems to solve: pairs of a Key for ToCnf and the
                       \* value that getMaxHash() has for it, which is any value
                       \* (uninitialised) unless an option sets it
          TapChoices,  \* what makeBitHash or makeWeightedBitHash may draw
          maxTries

Cnf(selectors, Key) ==
    INSTANCE ToCnf WITH Selectors <- selectors, Key <- Key, nKeys <- Cardinality(DOMAIN Key)

\* The tables of a drawn hash are wired to inputs, and setupProperties() has
\* thrown if two keys overlap. There is a table: of a single key without
\* don't-cares the empty hash is a solution that solve_cnf does not find.
ASSUME SolveCnfAssumption ==
    /\ wI \in Nat /\ wO \in Nat \ {0} /\ maxTries \in Nat
    /\ TapChoices # {} /\ Problems # {}
    /\ TapChoices \subseteq [0 .. wO-1 -> Seq(0 .. wI-1)]
    /\ \A p \in Problems :
          /\ p[2] \in Nat
          /\ Cardinality(DOMAIN p[1]) \in Nat \ {0}
          /\ p[1] \in [0 .. Cardinality(DOMAIN p[1])-1 -> [0 .. wI-1 -> {-1, 0, 1}]]
          /\ \A T \in TapChoices : \A j, k \in DOMAIN p[1] :
                j # k => Cnf(T, p[1])!variants(p[1][j]) \cap Cnf(T, p[1])!variants(p[1][k]) = {}

VARIABLES keys,     \* the keys of the problem
          taps,     \* the selectors of the hash of this attempt
          maxHash,  \* problem.getMaxHash()
          clauses,  \* the CNF, without the bound by maxHash
          result,   \* the lut with the answer put in
          tries,
          stage

solveVars == <<keys, taps, maxHash, clauses, result, tries, stage>>

\* The lut that makeBitHash makes: nothing is decided.
Blank == [b \in Cnf(taps, keys)!LutBits |-> -1]

Models == Cnf(taps, keys)!minisat_solve(Blank, clauses, maxHash)

SolveInit ==
    /\ \E p \in Problems : keys = p[1] /\ maxHash = p[2]
    /\ taps \in TapChoices
    /\ clauses = {} /\ result = <<>>
    /\ tries = 1
    /\ stage = "head"

-----------------------------------------------------------------------------
makeBitHash ==
    /\ stage = "head"
    /\ tries < maxTries
    /\ taps' \in TapChoices
    /\ stage' = "encode"
    /\ UNCHANGED <<keys, maxHash, clauses, result, tries>>

\* A dubious clause may be dropped, or lose the literal that makes it so.
to_cnf ==
    /\ stage = "encode"
    /\ LET sure == Cnf(taps, keys)!DifferClauses(Blank) \cup Cnf(taps, keys)!VariantClauses(Blank)
       IN  \E doubt \in SUBSET Cnf(taps, keys)!DubiousClauses(Blank) : clauses' = sure \cup doubt
    /\ stage' = "solve"
    /\ UNCHANGED <<keys, taps, maxHash, result, tries>>

\* Or it corrupts the solver's memory.
Crash ==
    /\ stage = "encode"
    /\ Cnf(taps, keys)!DubiousClauses(Blank) # {}
    /\ stage' = "crashed"
    /\ UNCHANGED <<keys, taps, maxHash, clauses, result, tries>>

\* Mutant: a failed try is not counted.
UnsatisfiableUncounted ==
    /\ stage = "solve"
    /\ Models \subseteq {<<>>}
    /\ clauses' = {}
    /\ stage' = "head"
    /\ UNCHANGED <<keys, taps, maxHash, result, tries>>

\* The empty map stands for "unsatisfiable", and would for "no variables" too.
Unsatisfiable ==
    /\ stage = "solve"
    /\ Models \subseteq {<<>>}
    /\ clauses' = {}
    /\ tries' = tries + 1
    /\ stage' = "head"
    /\ UNCHANGED <<keys, taps, maxHash, result>>

SubstituteAnswer ==
    /\ stage = "solve"
    /\ \E answer \in Models \ {<<>>} : result' = Cnf(taps, keys)!substitute(Blank, answer)
    /\ stage' = "check"
    /\ UNCHANGED <<keys, taps, maxHash, clauses, tries>>

\* Mutant: no check.
CheckNothing ==
    /\ stage = "check"
    /\ stage' = "solved"
    /\ UNCHANGED <<keys, taps, maxHash, clauses, result, tries>>

\* The post substitution check, which throws if it fails.
Check ==
    /\ stage = "check"
    /\ stage' = IF Cnf(taps, keys)!is_solution(result, Cnf(taps, keys)!Keys) THEN "solved" ELSE "exception"
    /\ UNCHANGED <<keys, taps, maxHash, clauses, result, tries>>

OutOfTries ==
    /\ stage = "head"
    /\ tries >= maxTries
    /\ stage' = "failed"
    /\ UNCHANGED <<keys, taps, maxHash, clauses, result, tries>>

solve_cnf ==
    \/ makeBitHash
    \/ to_cnf
    \/ Crash
    \/ Unsatisfiable
    \/ SubstituteAnswer
    \/ Check
    \/ OutOfTries

SolveSpec == SolveInit /\ [][solve_cnf]_solveVars

(* One thread that nothing blocks, and a solver without limits. *)
FairSolveSpec == SolveSpec /\ WF_solveVars(solve_cnf)

-----------------------------------------------------------------------------
(* The number that the bits of a hash stand for.                            *)
Value(h) == MapThenSumSet(LAMBDA t : h[t] * 2^t, DOMAIN h)

\* The hash that lut l gives to key k, as a number.
HashNumber(l, k) == Value(Cnf(taps, keys)!HashOf(l, Cnf(taps, keys)!First(k)))

\* The problem's bound, where to_cnf imposes one.
WithinBound(l) ==
    0 < maxHash /\ maxHash < 2^wO =>
        \A k \in Cnf(taps, keys)!KeyIds : HashNumber(l, k) <= maxHash

Concrete == \A k \in Cnf(taps, keys)!KeyIds : \A i \in 0 .. wI-1 : keys[k][i] # -1

(* The encoding is sound: what minisat answers for keys without don't-cares *)
(* is a solution, so that the check after the substitution never throws.    *)
(* With don't-cares, whatever the encoding has done to them, a hash that is *)
(* reported as a solution is one.                                           *)
AnswersAreSolutions ==
    /\ Concrete => stage # "exception"
    /\ stage = "solved" => Cnf(taps, keys)!is_solution(result, Cnf(taps, keys)!Keys)

(* The encoding is complete: taps are given up only if no contents of their *)
(* luts that obey the bound are a solution (without don't-cares).           *)
TapsHopeless ==
    [][Concrete /\ stage = "solve" /\ stage' = "head" =>
          \A l \in Cnf(taps, keys)!Luts :
             WithinBound(l) => ~ Cnf(taps, keys)!is_solution(l, Cnf(taps, keys)!Keys)]_solveVars

(* A solution obeys the bound, which the check does not look at and which   *)
(* is encoded bit by bit.                                                   *)
BoundKept == stage = "solved" => WithinBound(result)

(* solve_cnf comes to an end, if minisat does.                              *)
SolveTerminates == <>(stage \in {"solved", "exception", "crashed", "failed"})

(* bit_hash_cnf.hpp:119-131: all the variants of a key have the hash of the *)
(* first one, once the answer is substituted.                               *)
VariantsShareHash ==
    stage = "check" =>
        \A k \in Cnf(taps, keys)!KeyIds : \A x \in Cnf(taps, keys)!variants(keys[k]) :
            Cnf(taps, keys)!HashOf(result, x) = Cnf(taps, keys)!HashOf(result, Cnf(taps, keys)!First(k))

(* notes/minimal.md: the hashes of a minimal hash of n keys are at most n-1. *)
MinimalIsMinimal ==
    stage = "solved" /\ maxHash = Cardinality(DOMAIN keys) =>
        \A k \in Cnf(taps, keys)!KeyIds : HashNumber(result, k) <= maxHash-1
=============================================================================
