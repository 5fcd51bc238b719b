---------------------------- MODULE SolverGrasp ----------------------------
(***************************************************************************)
(* solver_grasp (include/solver_grasp.hpp) with its two searches on an     *)
(* EntryToKey, randomised_greedy and relink_path                           *)
(* (include/bit_hash_relink.hpp): a random start is improved by single     *)
(* flips, then walked towards a hash of a pool of elites, and the best     *)
(* hash on the way joins the pool.                                         *)
(*                                                                         *)
(* Module EntryToKey shows that a flip and its undo restore the hash and   *)
(* its caches, and that eval() is evalFull: the loops that try every flip  *)
(* are one step each, and every assignment to et.bh includes its sync().   *)
(* All the hashes of a run have the taps of the first.                     *)
(***************************************************************************)
EXTENDS HashProblem

CONSTANTS groupSize,
          maxTries,
          MaxElites,      \* 20 in the code
          NoIncreases     \* values of maxNoIncrease, {1000} in the code

\* There is a bit to flip: only a single key has no tables, and its hash is a
\* solution before the search begins.
ASSUME SolverGraspAssumption ==
    /\ LutBits # {}
    /\ groupSize \in Nat
    /\ maxTries \in Nat
    /\ MaxElites \in Nat \ {0, 1}
    /\ NoIncreases \subseteq Nat

VARIABLES curr,        \* manipCurr.bh
          solBest, eBest,
          elites,      \* the pool, a set of pairs of a score and a hash
          bhGreedy, eGreedy,     \* bhBest and eBest of randomised_greedy
          noIncrease,
          target,      \* dst of relink_path
          bhRelink, eRelink,     \* bTotalBest and eTotalBest of relink_path
          late,        \* whether cpuTime() > maxTime
          maxNoIncrease,         \* a parameter of randomised_greedy
          pc

greedyVars == <<bhGreedy, eGreedy, noIncrease>>
relinkVars == <<target, bhRelink, eRelink>>
bestVars   == <<solBest, eBest, elites>>
vars == <<curr, bestVars, greedyVars, relinkVars, late, maxNoIncrease, pc>>

\* evalSolution, and eval of the EntryToKey.
Score == [l \in Luts |-> evalFull(l, groupSize)]

\* ctxt.tries, which nothing increments.
tries == 0

Init == /\ curr \in Luts
        /\ solBest = curr /\ eBest = Score[curr]
        /\ elites = {<<eBest, solBest>>}
        /\ bhGreedy = curr /\ eGreedy = eBest /\ noIncrease = 0
        /\ target = curr /\ bhRelink = curr /\ eRelink = eBest
        /\ late = FALSE
        /\ maxNoIncrease \in NoIncreases
        /\ pc = "head"

-----------------------------------------------------------------------------
\* The locals of both searches have no values outside of them: those of a
\* search that would begin, and end, with l.
NoLocals(l) ==
    /\ bhGreedy' = l /\ eGreedy' = Score[l] /\ noIncrease' = 0
    /\ target' = l /\ bhRelink' = l /\ eRelink' = Score[l]

\* randomised_greedy begins by flipping every bit with probability 1/2.
BeginTry ==
    /\ pc = "head"
    /\ eBest # 0
    /\ tries < maxTries
    /\ curr' \in Luts
    /\ NoLocals(curr')
    /\ pc' = "greedy"
    /\ UNCHANGED <<bestVars, late, maxNoIncrease>>

\* The scores of the neighbours of a hash; the best and the worst.
Moves == [l \in Luts |-> [b \in LutBits |-> Score[Flipped(l, b)]]]
eMin(l) == Min({Moves[l][b] : b \in LutBits})
eMax(l) == Max({Moves[l][b] : b \in LutBits})

\* The first of a set of bits.
FirstBit(S) == CHOOSE b \in S : \A c \in S \ {b} : BitPrecedes(b, c)

\* The first of the sorted moves: the pairs of a score and a bit are in
\* lexicographic order, whatever the random offset.
front == [l \in Luts |-> FirstBit({b \in LutBits : Moves[l][b] = eMin(l)})]

\* The moves that remain: the first, and for some alpha in [0, 1) those of a
\* score up to alpha*(eMax-eMin).
Candidates(l) ==
    {front[l]} \cup {b \in LutBits : Moves[l][b] = 0 \/ Moves[l][b] < eMax(l) - eMin(l)}

\* A neighbour is better than the best, and remembered; the walk may go elsewhere.
Improve ==
    /\ pc = "greedy"
    /\ eMin(curr) < eGreedy
    /\ bhGreedy' = Flipped(curr, front[curr])
    /\ eGreedy' = eMin(curr)
    /\ noIncrease' = 0
    /\ \E b \in Candidates(curr) : curr' = Flipped(curr, b)
    /\ UNCHANGED <<bestVars, relinkVars, late, maxNoIncrease, pc>>

\* Mutant: the walk goes on although it passes a better hash.
WanderAlways ==
    /\ pc = "greedy"
    /\ eGreedy # 0
    /\ noIncrease < maxNoIncrease
    /\ noIncrease' = noIncrease + 1
    /\ \E b \in Candidates(curr) : curr' = Flipped(curr, b)
    /\ UNCHANGED <<bestVars, bhGreedy, eGreedy, relinkVars, late, maxNoIncrease, pc>>

\* None is; the walk goes on for a while.
Wander ==
    /\ pc = "greedy"
    /\ eGreedy # 0
    /\ eMin(curr) >= eGreedy
    /\ noIncrease < maxNoIncrease
    /\ noIncrease' = noIncrease + 1
    /\ \E b \in Candidates(curr) : curr' = Flipped(curr, b)
    /\ UNCHANGED <<bestVars, bhGreedy, eGreedy, relinkVars, late, maxNoIncrease, pc>>

\* Mutant: as eBest of the loop, the best on the path begins at DBL_MAX.
BestOnPathNone == bhRelink' = bhGreedy /\ eRelink' = nKeys + 1

\* The best on the path is at first its beginning.
BestOnPath == bhRelink' = bhGreedy /\ eRelink' = Score[bhGreedy]

\* randomised_greedy leaves the best hash behind, and relink_path begins.
EndGreedy ==
    /\ pc = "greedy"
    /\ eGreedy = 0 \/ (eMin(curr) >= eGreedy /\ noIncrease = maxNoIncrease)
    /\ curr' = bhGreedy
    /\ \E e \in elites : target' = e[2]
    /\ BestOnPath
    /\ pc' = "relink"
    /\ UNCHANGED <<bestVars, greedyVars, late, maxNoIncrease>>

\* getDifferenceIndices
Differences == {b \in LutBits : curr[b] # target[b]}

\* One flip towards the target, any of the best of them; the first of those is
\* what is remembered.
Relink ==
    /\ pc = "relink"
    /\ Differences # {}
    /\ LET m      == Moves[curr]
           e      == Min({m[b] : b \in Differences})
           chosen == {b \in Differences : m[b] = e}
       IN  /\ \E b \in chosen : curr' = Flipped(curr, b)
           /\ IF e < eRelink
                THEN eRelink' = e /\ bhRelink' = Flipped(curr, FirstBit(chosen))
                ELSE UNCHANGED <<eRelink, bhRelink>>
    /\ UNCHANGED <<bestVars, greedyVars, target, late, maxNoIncrease, pc>>

\* relink_path leaves the best hash behind.
EndRelink ==
    /\ pc = "relink"
    /\ Differences = {}
    /\ curr' = bhRelink
    /\ pc' = "judge"
    /\ UNCHANGED <<bestVars, greedyVars, relinkVars, late, maxNoIncrease>>

\* Mutant: the sort is descending.
TrimmedFront(p) ==
    IF Cardinality(p) <= MaxElites THEN {p}
    ELSE {p \ {e} : e \in {d \in p : \A c \in p : c[1] >= d[1]}}

\* The pools that sorting may leave of p, when hashes of the same score are in
\* any order.
Trimmed(p) ==
    IF Cardinality(p) <= MaxElites THEN {p}
    ELSE {p \ {e} : e \in {d \in p : \A c \in p : c[1] <= d[1]}}

\* manipCurr.eval after the relinking
eCurr == Score[curr]

\* The best hash and the pool learn of the result.
Judge ==
    /\ pc = "judge"
    /\ LET seen  == \E e \in elites : e[2] = curr
       IN  /\ IF eCurr < eBest THEN eBest' = eCurr /\ solBest' = curr
                               ELSE UNCHANGED <<eBest, solBest>>
           /\ elites' \in Trimmed(IF seen THEN elites ELSE elites \cup {<<eCurr, curr>>})
    /\ NoLocals(curr)
    /\ pc' = "time"
    /\ UNCHANGED <<curr, late, maxNoIncrease>>

\* Mutant: the time is never looked at.
CheckNoTime ==
    /\ pc = "time"
    /\ pc' = "head"
    /\ UNCHANGED <<curr, bestVars, greedyVars, relinkVars, late, maxNoIncrease>>

\* tries is a multiple of triesAtLevel every time.
CheckTime ==
    /\ pc = "time"
    /\ pc' = IF late THEN "done" ELSE "head"
    /\ UNCHANGED <<curr, bestVars, greedyVars, relinkVars, late, maxNoIncrease>>

Finish ==
    /\ pc = "head"
    /\ eBest = 0 \/ tries >= maxTries
    /\ pc' = "done"
    /\ UNCHANGED <<curr, bestVars, greedyVars, relinkVars, late, maxNoIncrease>>

solver_grasp == \/ BeginTry
                \/ Improve
                \/ Wander
                \/ EndGreedy
                \/ Relink
                \/ EndRelink
                \/ Judge
                \/ CheckTime
                \/ Finish

\* The clock matters only where it is read, and so moves only there.
TimePasses ==
    /\ pc = "time"
    /\ ~late
    /\ late' = TRUE
    /\ UNCHANGED <<curr, bestVars, greedyVars, relinkVars, maxNoIncrease, pc>>

Next == solver_grasp \/ TimePasses

Spec == Init /\ [][Next]_vars

(***************************************************************************)
(* One thread that nothing blocks, and a clock that goes on: one that is   *)
(* read again and again shows maxTime in the end.                          *)
(***************************************************************************)
FairSpec == Spec /\ WF_vars(solver_grasp) /\ SF_vars(TimePasses)

-----------------------------------------------------------------------------
(* The pool is true and keeps the best: the scores in it, which sort it and *)
(* which a later relinking relies on, are those of the hashes they stand    *)
(* next to, and no eviction loses the best score that was found.            *)
PoolKeepsBest ==
    /\ \A e \in elites : e[1] = Score[e[2]]
    /\ \E e \in elites : e[1] = eBest

(* The greedy walk goes up and down, but no hash that it passes is better   *)
(* than the one it will leave behind.                                       *)
GreedyMissesNothing ==
    pc = "greedy" => eGreedy = Score[bhGreedy] /\ eGreedy <= Score[curr]

(* Relinking never makes it worse: its result is at least as good as the    *)
(* end of the greedy walk and as the elite it goes to.                      *)
RelinkNoWorse ==
    pc = "judge" => Score[curr] <= eGreedy /\ Score[curr] <= Score[target]

(* The solver stops, with a solution or out of time.                        *)
Terminates == <>(pc = "done")
=============================================================================
