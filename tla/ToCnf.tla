------------------------------- MODULE ToCnf -------------------------------
(***************************************************************************)
(* The encoding of include/bit_hash_cnf.hpp: which CNF to_cnf builds for a *)
(* hash, some of whose lut entries are undecided, and a set of keys.       *)
(*                                                                         *)
(* A variable is the undecided lut entry that it decides, a literal a pair *)
(* <<entry, value>>, a clause a set of literals.  minisat's own numbers of *)
(* the variables appear only where to_cnf confuses them: see Meant.        *)
(***************************************************************************)
EXTENDS BitHash

CONSTANTS nKeys,   \* number of keys of the problem
          Key      \* Key[k]: the key at position k of the key_value_set

KeyIds == 0 .. nKeys-1

\* setupProperties() throws on keys that overlap.
ASSUME ToCnfAssumption ==
    /\ nKeys \in Nat \ {0}
    /\ Key \in [KeyIds -> AbstractKeys]
    /\ \A j, k \in KeyIds : j # k => variants(Key[j]) \cap variants(Key[k]) = {}

Keys     == {Key[k] : k \in KeyIds}
First(k) == FirstVariant(Key[k])

\* The lut entry of table t that x reads.
Entry(t, x) == <<t, address(t, x)>>

-----------------------------------------------------------------------------
(***************************************************************************)
(* The clauses that make keys j and k differ.  For every table the loop    *)
(* doubles them: the entries of j and k are not both 0, or not both 1.  An *)
(* entry that is decided drops out of its clause when it is false in it,   *)
(* and the clause drops out when it is true; two decided entries that      *)
(* differ so leave no clause at all.  The clauses of a pair are those of   *)
(* all the ways s to say, table by table, which value is avoided.          *)
(***************************************************************************)
PairClauses(lut, j, k) ==
    LET Both(t) == {Entry(t, First(j)), Entry(t, First(k))}
        Ways    == {s \in Hashes : \A t \in Tables : \A b \in Both(t) : lut[b] # s[t]}
    IN  {UNION {{<<b, s[t]>> : b \in {e \in Both(t) : lut[e] = -1}} : t \in Tables} :
            s \in Ways}

\* Mutant: only neighbouring keys are compared.
DifferNeighbours(lut) ==
    UNION {PairClauses(lut, p[1], p[2]) : p \in {q \in KeyIds \X KeyIds : q[1]+1 = q[2]}}

\* Mutant: the inner loop starts at iK.
DifferFromSelf(lut) ==
    UNION {PairClauses(lut, p[1], p[2]) : p \in {q \in KeyIds \X KeyIds : q[1] <= q[2]}}

DifferClauses(lut) ==
    UNION {PairClauses(lut, p[1], p[2]) : p \in {q \in KeyIds \X KeyIds : q[1] < q[2]}}

-----------------------------------------------------------------------------
(* get_idx: a variable for an entry when calcHash first meets it. *)

\* Keys in the order in which a variant_iterator visits them, addresses of a
\* table in that of its lut: by the number they stand for.
Less(x, y) ==
    \E i \in DOMAIN x : x[i] < y[i] /\ \A j \in DOMAIN x : j > i => x[j] = y[j]

\* What calcHash looks at: entry t of variant x of key k, at <<k, x, t>>.
Visits == KeyIds \X ConcreteKeys \X Tables
VisitsOf(b) == {v \in Visits : v[2] \in variants(Key[v[1]]) /\ Entry(v[3], v[2]) = b}

Precedes(v, w) ==
    \/ v[1] < w[1]
    \/ v[1] = w[1] /\ Less(v[2], w[2])
    \/ v[1] = w[1] /\ v[2] = w[2] /\ v[3] < w[3]

\* The variables that exist when variant x of key k has been looked at.
VariablesAt(lut, k, x) ==
    {b \in LutBits : lut[b] = -1 /\ \E v \in VisitsOf(b) : ~Precedes(<<k, x, wO-1>>, v)}

\* All of them: lutToVariable.
Variables(lut) == {b \in LutBits : lut[b] = -1 /\ VisitsOf(b) # {}}

\* minisat's number of the variable b, counted from 0.
Index(lut, b) ==
    Cardinality({c \in Variables(lut) :
                    \E v \in VisitsOf(c) : \A w \in VisitsOf(b) : Precedes(v, w)})

(***************************************************************************)
(* The variable that mkLit(h) denotes in the clauses for don't-cares, where *)
(* h is what calcHash returns for entry b: one more than its Index for an   *)
(* undecided entry, 0 for a 0 and -1 for a 1.  Empty if there is none yet.  *)
(***************************************************************************)
Meant(lut, k, x, b) ==
    {c \in VariablesAt(lut, k, x) :
        \/ lut[b] = -1 /\ Index(lut, c) = Index(lut, b) + 1
        \/ lut[b] = 0  /\ Index(lut, c) = 0}

(***************************************************************************)
(* The two clauses for table t of a further variant x of key k: first      *)
(* entry or not second, not first or second.  A clause is dubious if one   *)
(* of its literals has a variable that does not exist: addClause reads the *)
(* value of that literal outside the solver's arrays.                      *)
(***************************************************************************)
Further == {v \in Visits : /\ v[2] \in variants(Key[v[1]])
                            /\ Entry(v[3], v[2]) # Entry(v[3], First(v[1]))}

VariantClause(lut, v, value) ==
    {<<b, value>>   : b \in Meant(lut, v[1], v[2], Entry(v[3], First(v[1])))} \cup
    {<<b, 1-value>> : b \in Meant(lut, v[1], v[2], Entry(v[3], v[2]))}

Dubious(lut, v) ==
    \E b \in {Entry(v[3], First(v[1])), Entry(v[3], v[2])} : Meant(lut, v[1], v[2], b) = {}

\* Two decided entries of the same value make a clause of p and ~p, whatever p.
Tautology(lut, v) ==
    LET b == Entry(v[3], First(v[1])) IN lut[b] # -1 /\ lut[Entry(v[3], v[2])] = lut[b]

VariantClauses(lut) ==
    {VariantClause(lut, v, value) : v \in {w \in Further : ~Dubious(lut, w)}, value \in {0, 1}}

\* What is left of the dubious ones if the variable that is not there reads as false.
DubiousClauses(lut) ==
    {VariantClause(lut, v, value) :
        v \in {w \in Further : Dubious(lut, w) /\ ~Tautology(lut, w)}, value \in {0, 1}}

-----------------------------------------------------------------------------
\* Mutant: | for a 0 of n as well.
LessThanEitherWay(h, n) ==
    LET ok[i \in -1 .. wO-1] == i = -1 \/ h[i] = 0 \/ ok[i-1]
    IN  ok[wO-1]

\* makeLessThanOrEqual: the hash h, its bits decided by the variables, is at most n.
makeLessThanOrEqual(h, n) ==
    LET val(i) == (n \div 2^i) % 2
        ok[i \in -1 .. wO-1] ==
            IF i = -1          THEN TRUE
            ELSE IF val(i) = 1 THEN h[i] = 0 \/ ok[i-1]
                               ELSE h[i] = 0 /\ ok[i-1]
    IN  ok[wO-1]

\* The bound that to_cnf puts on the hashes: for 0 none, nor where all are below it.
Bounded(lut, maxHash) ==
    0 < maxHash /\ maxHash < 2^wO =>
        \A k \in KeyIds : makeLessThanOrEqual(HashOf(lut, First(k)), maxHash)

\* Mutant: only the ones are written.
SubstituteOnes(lut, solution) ==
    [b \in LutBits |-> IF b \in DOMAIN solution /\ solution[b] = 1 THEN 1 ELSE lut[b]]

substitute(lut, solution) ==
    [b \in LutBits |-> IF b \in DOMAIN solution THEN solution[b] ELSE lut[b]]

Satisfies(solution, clauses) ==
    \A c \in clauses : \E l \in c : solution[l[1]] = l[2]

(***************************************************************************)
(* minisat_solve: the answers minisat may give, empty if it finds the CNF  *)
(* unsatisfiable.  The fresh variables of the bound are determined by the  *)
(* others and left out.                                                    *)
(***************************************************************************)
minisat_solve(lut, clauses, maxHash) ==
    {solution \in [Variables(lut) -> {0, 1}] :
        Satisfies(solution, clauses) /\ Bounded(substitute(lut, solution), maxHash)}
=============================================================================
