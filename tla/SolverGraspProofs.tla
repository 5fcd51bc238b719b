------------------------- MODULE SolverGraspProofs -------------------------
(***************************************************************************)
(* Proofs about solver_grasp, for every problem, size of the pool and      *)
(* patience: the walks miss nothing that they pass, relinking never makes  *)
(* it worse, and the pool of elites keeps the best score.                  *)
(***************************************************************************)
EXTENDS SolverGrasp, BitHashProofs

(* A score is a number of keys.                                             *)
LEMMA ScoreType == Score \in [Luts -> Nat]
<1> SUFFICES ASSUME NEW l \in Luts PROVE evalFull(l, groupSize) \in Nat
  BY DEF Score
<1> QED BY PlacesCounted, HashProblemAssumption DEF evalFull, KeyIds

(* The scores that some of the moves from l have are numbers, and so there  *)
(* is a lowest one.                                                         *)
LEMMA MoveType ==
    ASSUME NEW l \in Luts, NEW b \in LutBits
    PROVE  Moves[l][b] = Score[Flipped(l, b)] /\ Moves[l][b] \in Nat /\ Flipped(l, b) \in Luts
BY ScoreType, FlippedLut DEF Moves

LEMMA LowestMove ==
    ASSUME NEW l \in Luts, NEW D \in SUBSET LutBits, D # {}
    PROVE  LET e == Min({Moves[l][b] : b \in D})
           IN  /\ e \in Nat
               /\ \A b \in D : e <= Moves[l][b]
               /\ \E b \in D : Moves[l][b] = e
<1> DEFINE S == {Moves[l][b] : b \in D}
<1>1. S \in SUBSET Nat /\ S # {}
  BY MoveType
<1>2. \E m \in S : \A x \in S : m <= x
  <2> HIDE DEF S
  <2> QED BY <1>1, LeastNatural
<1>3. Min(S) \in S /\ \A x \in S : Min(S) <= x
  BY <1>2 DEF Min
<1> QED BY <1>1, <1>3

LEMMA FirstBitType ==
    ASSUME NEW S \in SUBSET LutBits, S # {}
    PROVE  FirstBit(S) \in S
BY LeastBit DEF FirstBit

(* The first of the sorted moves has the lowest score, and wherever the     *)
(* walk goes, it is no better.                                              *)
LEMMA FrontIsLowest ==
    ASSUME NEW l \in Luts
    PROVE  /\ front[l] \in LutBits
           /\ Score[Flipped(l, front[l])] = eMin(l)
           /\ eMin(l) \in Nat
           /\ \A b \in Candidates(l) : b \in LutBits /\ eMin(l) <= Score[Flipped(l, b)]
<1> DEFINE S == {b \in LutBits : Moves[l][b] = eMin(l)}
<1>1. /\ eMin(l) \in Nat
      /\ \A b \in LutBits : eMin(l) <= Moves[l][b]
      /\ S # {}
  BY LowestMove, SolverGraspAssumption DEF eMin
<1>2. front[l] \in S
  BY <1>1, FirstBitType DEF front
<1>3. \A b \in Candidates(l) : b \in LutBits
  BY <1>2 DEF Candidates
<1> QED BY <1>1, <1>2, <1>3, MoveType

-----------------------------------------------------------------------------
(* What the properties rest on: the variables hold hashes, in every stage   *)
(* of the search the scores that it compares are those of the hashes that   *)
(* it holds, and no elite is better than the best hash.                     *)
TypeInv ==
    /\ curr \in Luts /\ solBest \in Luts
    /\ bhGreedy \in Luts /\ target \in Luts /\ bhRelink \in Luts
    /\ elites \in SUBSET (Nat \X Luts)
    /\ IsFiniteSet(elites)
    /\ pc \in {"head", "greedy", "relink", "judge", "time", "done"}

PoolInv ==
    /\ eBest = Score[solBest]
    /\ \A e \in elites : eBest <= e[1]

RelinkInv ==
    pc = "relink" =>
        /\ eGreedy = Score[bhGreedy]
        /\ eRelink = Score[bhRelink]
        /\ eRelink <= eGreedy
        /\ eRelink <= Score[curr]

IInv == /\ TypeInv
        /\ PoolInv /\ PoolKeepsBest
        /\ GreedyMissesNothing
        /\ RelinkInv /\ RelinkNoWorse

LEMMA InitIInv == Init => IInv
<1> SUFFICES ASSUME Init PROVE IInv
  OBVIOUS
<1>1. curr \in Luts /\ Score[curr] \in Nat
  BY ScoreType DEF Init
<1>2. elites = {<<Score[curr], curr>>}
  BY DEF Init
<1>3. TypeInv
  <2>1. elites \in SUBSET (Nat \X Luts)
    BY <1>1, <1>2
  <2>2. IsFiniteSet(elites)
    BY <1>2, FS_Singleton
  <2>3. curr \in Luts /\ solBest \in Luts /\ bhGreedy \in Luts /\ target \in Luts /\ bhRelink \in Luts
    BY DEF Init
  <2>4. pc = "head"
    BY DEF Init
  <2> QED BY <2>1, <2>2, <2>3, <2>4 DEF TypeInv
<1>4. PoolInv /\ PoolKeepsBest
  BY <1>1, <1>2 DEF Init, PoolInv, PoolKeepsBest
<1> QED BY <1>3, <1>4 DEF Init, IInv, GreedyMissesNothing, RelinkInv, RelinkNoWorse

(* A step of the walks leaves the best hash and the pool alone.             *)
LEMMA PoolStays ==
    ASSUME IInv, UNCHANGED bestVars
    PROVE  PoolInv' /\ PoolKeepsBest' /\ (elites \in SUBSET (Nat \X Luts))' /\ IsFiniteSet(elites)'
BY DEF IInv, TypeInv, PoolInv, PoolKeepsBest, bestVars

LEMMA TypeStays ==
    ASSUME IInv, UNCHANGED bestVars,
           curr' \in Luts, bhGreedy' \in Luts, target' \in Luts, bhRelink' \in Luts,
           pc' \in {"head", "greedy", "relink", "judge", "time", "done"}
    PROVE  TypeInv'
<1>1. (elites \in SUBSET (Nat \X Luts))' /\ IsFiniteSet(elites)'
  BY PoolStays
<1>2. solBest' \in Luts
  BY DEF IInv, TypeInv, bestVars
<1> QED BY <1>1, <1>2 DEF TypeInv

LEMMA BeginTryIInv == IInv /\ BeginTry => IInv'
<1> SUFFICES ASSUME IInv, BeginTry PROVE IInv'
  OBVIOUS
<1>1. curr' \in Luts /\ NoLocals(curr') /\ pc' = "greedy" /\ UNCHANGED bestVars
  BY DEF BeginTry
<1>2. TypeInv'
  BY <1>1, TypeStays DEF NoLocals
<1>3. GreedyMissesNothing'
  BY <1>1, ScoreType DEF GreedyMissesNothing, NoLocals
<1> QED BY <1>1, <1>2, <1>3, PoolStays DEF IInv, RelinkInv, RelinkNoWorse

LEMMA ImproveIInv == IInv /\ Improve => IInv'
<1> SUFFICES ASSUME IInv, Improve PROVE IInv'
  OBVIOUS
<1>1. /\ pc' = "greedy" /\ UNCHANGED <<bestVars, relinkVars>>
      /\ bhGreedy' = Flipped(curr, front[curr]) /\ eGreedy' = eMin(curr)
      /\ curr \in Luts
  BY DEF IInv, TypeInv, Improve
<1>2. PICK b \in Candidates(curr) : curr' = Flipped(curr, b)
  BY DEF Improve
<1>3. /\ curr' \in Luts /\ bhGreedy' \in Luts
      /\ eGreedy' = Score[bhGreedy'] /\ eGreedy' <= Score[curr']
  BY <1>1, <1>2, FrontIsLowest, FlippedLut
<1>4. TypeInv'
  <2>1. target' \in Luts /\ bhRelink' \in Luts
    BY <1>1 DEF IInv, TypeInv, relinkVars
  <2> QED BY <1>1, <1>3, <2>1, TypeStays
<1> QED BY <1>1, <1>3, <1>4, PoolStays
        DEF IInv, GreedyMissesNothing, RelinkInv, RelinkNoWorse

LEMMA WanderIInv == IInv /\ Wander => IInv'
<1> SUFFICES ASSUME IInv, Wander PROVE IInv'
  OBVIOUS
<1>1. /\ pc = "greedy" /\ pc' = "greedy" /\ UNCHANGED <<bestVars, bhGreedy, eGreedy, relinkVars>>
      /\ eMin(curr) >= eGreedy
      /\ curr \in Luts /\ bhGreedy \in Luts
  BY DEF IInv, TypeInv, Wander
<1>2. PICK b \in Candidates(curr) : curr' = Flipped(curr, b)
  BY DEF Wander
<1>3. eGreedy = Score[bhGreedy] /\ eGreedy \in Nat
  BY <1>1, ScoreType DEF IInv, GreedyMissesNothing
<1>4. curr' \in Luts /\ Score[curr'] \in Nat /\ eMin(curr) <= Score[curr'] /\ eMin(curr) \in Nat
  BY <1>1, <1>2, FrontIsLowest, FlippedLut, ScoreType
<1>5. TypeInv'
  <2>1. target' \in Luts /\ bhRelink' \in Luts /\ bhGreedy' \in Luts
    BY <1>1 DEF IInv, TypeInv, relinkVars
  <2> QED BY <1>1, <1>4, <2>1, TypeStays
<1>6. eGreedy <= Score[curr']
  BY <1>1, <1>3, <1>4
<1> QED BY <1>1, <1>3, <1>5, <1>6, PoolStays
        DEF IInv, GreedyMissesNothing, RelinkInv, RelinkNoWorse

LEMMA EndGreedyIInv == IInv /\ EndGreedy => IInv'
<1> SUFFICES ASSUME IInv, EndGreedy PROVE IInv'
  OBVIOUS
<1>1. /\ pc = "greedy" /\ pc' = "relink" /\ UNCHANGED <<bestVars, greedyVars>>
      /\ curr' = bhGreedy /\ bhGreedy \in Luts
      /\ bhRelink' = bhGreedy /\ eRelink' = Score[bhGreedy]
  BY DEF IInv, TypeInv, EndGreedy, BestOnPath
<1>2. target' \in Luts
  BY DEF IInv, TypeInv, EndGreedy
<1>3. eGreedy = Score[bhGreedy] /\ eGreedy \in Nat
  BY <1>1, ScoreType DEF IInv, GreedyMissesNothing
<1>4. TypeInv'
  <2>1. bhGreedy' \in Luts
    BY <1>1 DEF greedyVars
  <2> QED BY <1>1, <1>2, <2>1, TypeStays
<1>5. RelinkInv'
  BY <1>1, <1>3 DEF RelinkInv, greedyVars
<1> QED BY <1>1, <1>4, <1>5, PoolStays DEF IInv, GreedyMissesNothing, RelinkNoWorse

(* The walk takes the best of the flips towards its target, and what it     *)
(* remembers is at least as good as where it goes.                          *)
LEMMA RelinkIInv == IInv /\ Relink => IInv'
<1> SUFFICES ASSUME IInv, Relink PROVE IInv'
  OBVIOUS
<1> DEFINE e      == Min({Moves[curr][b] : b \in Differences})
           chosen == {b \in Differences : Moves[curr][b] = e}
<1>1. /\ pc = "relink" /\ pc' = "relink" /\ UNCHANGED <<bestVars, greedyVars, target>>
      /\ curr \in Luts /\ bhRelink \in Luts
      /\ Differences \in SUBSET LutBits /\ Differences # {}
  BY DEF IInv, TypeInv, Relink, Differences
<1>2. PICK b \in chosen : curr' = Flipped(curr, b)
  BY DEF Relink
<1>3. IF e < eRelink
        THEN eRelink' = e /\ bhRelink' = Flipped(curr, FirstBit(chosen))
        ELSE UNCHANGED <<eRelink, bhRelink>>
  BY DEF Relink
<1>4. e \in Nat
  BY <1>1, LowestMove
<1>5. curr' \in Luts /\ Score[curr'] = e
  BY <1>1, <1>2, MoveType
<1>6. FirstBit(chosen) \in LutBits /\ Moves[curr][FirstBit(chosen)] = e
  BY <1>1, <1>2, FirstBitType
<1>7. Flipped(curr, FirstBit(chosen)) \in Luts /\ Score[Flipped(curr, FirstBit(chosen))] = e
  BY <1>1, <1>6, MoveType
<1>8. /\ eGreedy = Score[bhGreedy] /\ eRelink = Score[bhRelink]
      /\ eRelink <= eGreedy /\ eRelink \in Nat /\ eGreedy \in Nat
  BY <1>1, ScoreType DEF IInv, RelinkInv, TypeInv
<1> HIDE DEF e, chosen
<1>9. /\ bhRelink' \in Luts /\ eRelink' = Score[bhRelink']
      /\ eRelink' <= eGreedy /\ eRelink' <= Score[curr']
  BY <1>1, <1>3, <1>4, <1>5, <1>7, <1>8
<1>10. TypeInv'
  <2>1. target' \in Luts /\ bhGreedy' \in Luts
    BY <1>1 DEF IInv, TypeInv, greedyVars
  <2> QED BY <1>1, <1>5, <1>9, <2>1, TypeStays
<1>11. RelinkInv'
  BY <1>1, <1>8, <1>9 DEF RelinkInv, greedyVars
<1> QED BY <1>1, <1>10, <1>11, PoolStays DEF IInv, GreedyMissesNothing, RelinkNoWorse

LEMMA EndRelinkIInv == IInv /\ EndRelink => IInv'
<1> SUFFICES ASSUME IInv, EndRelink PROVE IInv'
  OBVIOUS
<1>1. /\ pc = "relink" /\ pc' = "judge" /\ UNCHANGED <<bestVars, greedyVars, relinkVars>>
      /\ Differences = {} /\ curr' = bhRelink
      /\ curr \in Luts /\ target \in Luts /\ bhRelink \in Luts
  BY DEF IInv, TypeInv, EndRelink
<1>2. curr = target
  <2>1. \A b \in LutBits : curr[b] = target[b]
    BY <1>1 DEF Differences
  <2> QED BY <1>1, <2>1 DEF Luts
<1>3. eRelink = Score[bhRelink] /\ eRelink <= eGreedy /\ eRelink <= Score[target]
  BY <1>1, <1>2 DEF IInv, RelinkInv
<1>4. TypeInv'
  <2>1. target' \in Luts /\ bhGreedy' \in Luts /\ bhRelink' \in Luts
    BY <1>1 DEF IInv, TypeInv, greedyVars, relinkVars
  <2> QED BY <1>1, <2>1, TypeStays
<1>5. RelinkNoWorse'
  BY <1>1, <1>3 DEF RelinkNoWorse, greedyVars, relinkVars
<1> QED BY <1>1, <1>4, <1>5, PoolStays DEF IInv, GreedyMissesNothing, RelinkInv

(* What is evicted is no better than one that stays, for the pool keeps at  *)
(* least two.                                                               *)
LEMMA TrimmedKeeps ==
    ASSUME NEW p \in SUBSET (Nat \X Luts), IsFiniteSet(p), NEW e \in Nat,
           \A c \in p : e <= c[1], \E c \in p : c[1] = e,
           NEW q \in Trimmed(p)
    PROVE  q \subseteq p /\ \E c \in q : c[1] = e
<1>1. CASE Cardinality(p) <= MaxElites
  BY <1>1 DEF Trimmed
<1>2. CASE ~ (Cardinality(p) <= MaxElites)
  <2>1. PICK d \in p : q = p \ {d} /\ \A c \in p : c[1] <= d[1]
    BY <1>2 DEF Trimmed
  <2>2. q # {}
    <3>1. Cardinality(p) # 1
      BY <1>2, FS_CardinalityType, SolverGraspAssumption
    <3>2. p # {d}
      BY <3>1, FS_Singleton
    <3> QED BY <2>1, <3>2
  <2>3. CASE d[1] = e
    <3>1. PICK c \in q : TRUE
      BY <2>2
    <3>2. c[1] \in Nat /\ e <= c[1] /\ c[1] <= e
      BY <2>1, <2>3
    <3> QED BY <2>1, <3>2
  <2>4. CASE d[1] # e
    BY <2>1, <2>4
  <2> QED BY <2>1, <2>3, <2>4
<1> QED BY <1>1, <1>2

LEMMA JudgeIInv == IInv /\ Judge => IInv'
<1> SUFFICES ASSUME IInv, Judge PROVE IInv'
  OBVIOUS
<1> DEFINE seen == \E e \in elites : e[2] = curr
           p    == IF seen THEN elites ELSE elites \cup {<<eCurr, curr>>}
<1>1. /\ pc = "judge" /\ pc' = "time" /\ NoLocals(curr) /\ curr' = curr
      /\ curr \in Luts /\ solBest \in Luts
      /\ elites \in SUBSET (Nat \X Luts) /\ IsFiniteSet(elites)
  BY DEF IInv, TypeInv, Judge
<1>2. IF eCurr < eBest THEN eBest' = eCurr /\ solBest' = curr ELSE UNCHANGED <<eBest, solBest>>
  BY DEF Judge
<1>3. elites' \in Trimmed(p)
  BY DEF Judge
<1>4. eCurr = Score[curr] /\ eCurr \in Nat /\ eBest = Score[solBest] /\ eBest \in Nat
  BY <1>1, ScoreType DEF eCurr, IInv, PoolInv
<1>5. p \in SUBSET (Nat \X Luts) /\ IsFiniteSet(p)
  <2>1. p \in SUBSET (Nat \X Luts)
    BY <1>1, <1>4
  <2>2. IsFiniteSet(elites \cup {<<eCurr, curr>>})
    BY <1>1, FS_AddElement
  <2> QED BY <1>1, <2>1, <2>2
<1>6. \A e \in p : e[1] = Score[e[2]]
  BY <1>4 DEF IInv, PoolKeepsBest
<1>7. /\ eBest' = Score[solBest'] /\ solBest' \in Luts /\ eBest' \in Nat
      /\ eBest' <= eBest /\ eBest' <= eCurr
  BY <1>1, <1>2, <1>4
<1>8. \A e \in p : eBest' <= e[1]
  <2>1. ASSUME NEW e \in elites PROVE eBest' <= e[1]
    <3>1. eBest <= e[1] /\ e[1] \in Nat
      BY <1>1 DEF IInv, PoolInv
    <3> QED BY <1>4, <1>7, <3>1
  <2> QED BY <1>7, <2>1
<1>9. \E e \in p : e[1] = eBest'
  <2>1. CASE eCurr < eBest
    <3>1. eBest' = eCurr
      BY <1>2, <2>1
    <3>2. CASE seen
      <4>1. PICK e \in elites : e[2] = curr
        BY <3>2
      <4>2. e \in p /\ e[1] = eCurr
        BY <1>4, <1>6, <3>2, <4>1
      <4> QED BY <3>1, <4>2
    <3>3. CASE ~ seen
      <4>1. <<eCurr, curr>> \in p
        BY <3>3
      <4> QED BY <3>1, <4>1
    <3> QED BY <3>2, <3>3
  <2>2. CASE ~ (eCurr < eBest)
    <3>1. PICK e \in elites : e[1] = eBest
      BY DEF IInv, PoolKeepsBest
    <3> QED BY <1>2, <2>2, <3>1
  <2> QED BY <2>1, <2>2
<1> HIDE DEF p
<1>10. elites' \subseteq p /\ \E c \in elites' : c[1] = eBest'
  BY <1>3, <1>5, <1>7, <1>8, <1>9, TrimmedKeeps
<1>11. IsFiniteSet(elites')
  BY <1>5, <1>10, FS_Subset
<1>12. TypeInv'
  BY <1>1, <1>5, <1>7, <1>10, <1>11 DEF IInv, TypeInv, NoLocals
<1>13. PoolInv' /\ PoolKeepsBest'
  <2>1. Score' = Score
    BY DEF Score
  <2> QED BY <1>6, <1>7, <1>8, <1>10, <2>1 DEF PoolInv, PoolKeepsBest
<1> QED BY <1>1, <1>12, <1>13 DEF IInv, GreedyMissesNothing, RelinkInv, RelinkNoWorse

(* The other steps move nothing but the clock and the control.              *)
LEMMA ControlIInv ==
    ASSUME IInv, UNCHANGED <<curr, bestVars, greedyVars, relinkVars>>,
           pc' \in {"head", "time", "done"} \/ pc' = pc
    PROVE  IInv'
<1>1. TypeInv'
  <2>1. /\ curr' \in Luts /\ bhGreedy' \in Luts /\ target' \in Luts /\ bhRelink' \in Luts
        /\ pc' \in {"head", "greedy", "relink", "judge", "time", "done"}
    BY DEF IInv, TypeInv, greedyVars, relinkVars
  <2> QED BY <2>1, TypeStays
<1>2. GreedyMissesNothing' /\ RelinkInv' /\ RelinkNoWorse'
  BY DEF IInv, GreedyMissesNothing, RelinkInv, RelinkNoWorse, greedyVars, relinkVars
<1> QED BY <1>1, <1>2, PoolStays DEF IInv

LEMMA NextIInv == IInv /\ [Next]_vars => IInv'
<1> SUFFICES ASSUME IInv, [Next]_vars PROVE IInv'
  OBVIOUS
<1>1. ASSUME CheckTime \/ Finish \/ TimePasses PROVE IInv'
  <2>1. UNCHANGED <<curr, bestVars, greedyVars, relinkVars>>
    BY <1>1 DEF CheckTime, Finish, TimePasses
  <2>2. pc' \in {"head", "time", "done"} \/ pc' = pc
    BY <1>1 DEF CheckTime, Finish, TimePasses
  <2> QED BY <2>1, <2>2, ControlIInv
<1>2. ASSUME UNCHANGED vars PROVE IInv'
  BY <1>2, ControlIInv DEF vars
<1> QED BY <1>1, <1>2, BeginTryIInv, ImproveIInv, WanderIInv, EndGreedyIInv, RelinkIInv,
           EndRelinkIInv, JudgeIInv DEF Next, solver_grasp

(* The inductive invariant of solver_grasp.                                 *)
THEOREM Invariance == Spec => []IInv
<1>1. Init => IInv
  BY InitIInv
<1>2. IInv /\ [Next]_vars => IInv'
  BY NextIInv
<1> QED BY <1>1, <1>2, PTL DEF Spec

(* The scores in the pool are those of the hashes next to them, and no      *)
(* eviction loses the best score that was found.                            *)
THEOREM PoolAlwaysKeepsBest == Spec => []PoolKeepsBest
<1>1. IInv => PoolKeepsBest
  BY DEF IInv
<1> QED BY <1>1, Invariance, PTL

(* randomised_greedy passes no hash that is better than the one it will     *)
(* leave behind.                                                            *)
THEOREM GreedyNeverMisses == Spec => []GreedyMissesNothing
<1>1. IInv => GreedyMissesNothing
  BY DEF IInv
<1> QED BY <1>1, Invariance, PTL

(* The result of relink_path is at least as good as the end of the greedy   *)
(* walk that it begins at, and as the elite that it goes to.                *)
THEOREM RelinkNeverWorse == Spec => []RelinkNoWorse
<1>1. IInv => RelinkNoWorse
  BY DEF IInv
<1> QED BY <1>1, Invariance, PTL
=============================================================================
