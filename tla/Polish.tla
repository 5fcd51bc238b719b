------------------------------- MODULE Polish -------------------------------
(***************************************************************************)
(* bit_hash_polish (include/bit_hash_polish.hpp): take a hash that is not  *)
(* perfect, unbind the entries that clashing keys read and some others,    *)
(* have minisat fill them in again; unbind more of them if it cannot.      *)
(***************************************************************************)
EXTENDS ToCnf

CONSTANTS Starts,   \* the hashes that it may be given
          Levels    \* Levels[i]: what todo, rounded up, is at the i-th level

\* The entries that keys read; the others may stay undecided for ever.
Read == {Entry(t, Key[k]) : t \in Tables, k \in KeyIds}

\* A lookup throws on a key with don't-cares and fails on an undecided entry.
\* A hash has at least one bit.
ASSUME PolishAssumption ==
    /\ wO > 0
    /\ Key \in [KeyIds -> ConcreteKeys]
    /\ Starts \subseteq {lut \in PartialLuts : \A b \in Read : lut[b] # -1}
    /\ Levels \in Seq(Nat \ {0})

VARIABLES bh,      \* the argument
          res,     \* the copy that is unbound, and filled in
          level,   \* extra is 0.01 * 1.5^(level-1), and below 1 up to Len(Levels)
          pc

vars == <<bh, res, level, pc>>

-----------------------------------------------------------------------------
\* find_clashing_keys: every key is in one bucket, and counted once if it is not alone.
Clashes(k) ==
    IF \E j \in KeyIds : j # k /\ HashOf(bh, Key[j]) = HashOf(bh, Key[k]) THEN 1 ELSE 0

\* find_clashing_entries
Hits(b)      == Cardinality({k \in KeyIds : Clashes(k) = 1 /\ Entry(b[1], Key[k]) = b})
ClashEntries == {b \in LutBits : Hits(b) > 0}

\* The first entries that are unbound, done reaching todo: those with the most
\* hits, in an order that std::sort leaves open among equals.
Prefixes(todo) ==
    {S \in SUBSET ClashEntries :
        /\ Cardinality(S) = todo \/ (Cardinality(S) < todo /\ S = ClashEntries)
        /\ \A b \in S, c \in ClashEntries \ S : Hits(b) >= Hits(c)}

\* The order in which the loops over tables and their entries visit them.
Before(b, c) == b[1] < c[1] \/ (b[1] = c[1] /\ Less(b[2], c[2]))

\* Entries that the draws may unbind on top of those of S.  The break leaves the
\* loop over one table only, so that the first entry of each is drawn in any case.
Draws(todo, S) ==
    {R \in SUBSET LutBits :
        \A b \in R : \/ \A a \in Addresses(b[1]) : ~Less(a, b[2])
                     \/ Cardinality(S) + Cardinality({c \in R : Before(c, b)}) < todo}

Unbound(bits) == [b \in LutBits |-> IF b \in bits THEN -1 ELSE bh[b]]

Answers == minisat_solve(res, DifferClauses(res), 0)

-----------------------------------------------------------------------------
Init == /\ bh \in Starts
        /\ res = bh
        /\ level = 1
        /\ pc = "start"

AlreadyPerfect ==
    /\ pc = "start"
    /\ is_solution(bh, Keys)
    /\ pc' = "done"
    /\ UNCHANGED <<bh, res, level>>

Start ==
    /\ pc = "start"
    /\ ~is_solution(bh, Keys)
    /\ pc' = "unbind"
    /\ UNCHANGED <<bh, res, level>>

Unbind ==
    /\ pc = "unbind"
    /\ level \in DOMAIN Levels
    /\ \E S \in Prefixes(Levels[level]) : \E R \in Draws(Levels[level], S) :
          res' = Unbound(S \cup R)
    /\ pc' = "solve"
    /\ UNCHANGED <<bh, level>>

\* Mutant: extra stays as it is.
NoSolutionUncounted ==
    /\ pc = "solve"
    /\ Answers \subseteq {<<>>}
    /\ pc' = "unbind"
    /\ res' = bh
    /\ UNCHANGED <<bh, level>>

NoSolution ==
    /\ pc = "solve"
    /\ Answers \subseteq {<<>>}
    /\ level' = level + 1
    /\ pc' = "unbind"
    /\ res' = bh         \* what the next level copies
    /\ UNCHANGED bh

Substitute ==
    /\ pc = "solve"
    /\ \E answer \in Answers \ {<<>>} : res' = substitute(res, answer)
    /\ pc' = "done"
    /\ UNCHANGED <<bh, level>>

GiveUp ==
    /\ pc = "unbind"
    /\ level \notin DOMAIN Levels
    /\ res' = bh
    /\ pc' = "done"
    /\ UNCHANGED <<bh, level>>

Next == AlreadyPerfect \/ Start \/ Unbind \/ NoSolution \/ Substitute \/ GiveUp

Spec == Init /\ [][Next]_vars

(* One thread that nothing blocks, and a solver without limits. *)
FairSpec == Spec /\ WF_vars(Next)

-----------------------------------------------------------------------------
(* All the variables have values of the right kind. *)
TypeOK ==
    /\ bh \in Starts
    /\ res \in PartialLuts
    /\ level \in 1 .. Len(Levels)+1
    /\ pc \in {"start", "unbind", "solve", "done"}

(* What is returned is a solution, or the very hash that was to be polished: *)
(* nothing after minisat_solve checks it.                                    *)
ResultOk == pc = "done" => res = bh \/ is_solution(res, Keys)

(* Looking up a key in the result never meets an undecided entry.            *)
ReadIsDecided == pc = "done" => \A b \in Read : res[b] # -1

(* There is something for minisat to decide at every level, so that an empty *)
(* answer, which is also what it would be without variables, means that the  *)
(* clauses are unsatisfiable.                                                *)
EmptyIsUnsatisfiable == pc = "solve" => Variables(res) # {}

(* A level is given up only if no contents of the unbound entries make a     *)
(* solution together with the others.                                        *)
GivesUpHopeless ==
    [][level' > level =>
          \A l \in Luts : (\A b \in LutBits : res[b] # -1 => l[b] = res[b])
                              => ~is_solution(l, Keys)]_vars

(* bit_hash_polish ends.                                                     *)
Terminates == <>(pc = "done")
=============================================================================
