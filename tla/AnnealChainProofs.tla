------------------------- MODULE AnnealChainProofs -------------------------
(***************************************************************************)
(* Proofs about one solver, and about the chain of tools around a solver.  *)
(*                                                                         *)
(* solver_anneal (SolverAnneal), for every problem, number of flips and    *)
(* number of tries: the stack of flips always leads back to where the try  *)
(* began, over hashes that are no better than the best one.                *)
(*                                                                         *)
(* The chain (WriteFpgaHash), for all widths, tables, texts of a user's    *)
(* and solutions: a key set that one tool prints is the one that the next  *)
(* tool parses, and none of them works with an ambiguous one.              *)
(*                                                                         *)
(* The generated programs (Generated), for every key set and solution that *)
(* the chain lets through and every width of an unsigned: what is hit,     *)
(* what is found, and which tests pass.                                    *)
(***************************************************************************)
EXTENDS SolverAnneal, WriteFpgaHash, BitHashProofs, SequenceTheorems

-----------------------------------------------------------------------------
(* Part 1: solver_anneal.                                                   *)

(* A score is a number of keys.                                             *)
LEMMA ScoreType == Score \in [Luts -> Nat]
<1> SUFFICES ASSUME NEW l \in Luts PROVE evalFull(l, groupSize) \in Nat
  BY DEF Score
<1> QED BY PlacesCounted, HashProblemAssumption DEF evalFull, KeyIds

-----------------------------------------------------------------------------
(* Undoing the last n flips of fl leads from sol to from, and no hash that  *)
(* is passed or reached has a score below e.                                *)
Leads(w, sol, fl, from, e, n) ==
    /\ w[0] = sol
    /\ w[n] = from
    /\ \A k \in 0 .. n-1 : w[k+1] = Flipped(w[k], fl[Len(fl) - k])
    /\ \A k \in 1 .. n : e <= Score[w[k]]

Back(sol, fl, from, e, n) ==
    /\ n \in 0 .. Len(fl)
    /\ \E w \in [0 .. n -> Luts] : Leads(w, sol, fl, from, e, n)

\* No flips lead from a hash to itself.
LEMMA BackStarts ==
    ASSUME NEW sol \in Luts, NEW fl \in Seq(LutBits), NEW e \in Nat
    PROVE  Back(sol, fl, sol, e, 0)
<1> DEFINE w == [k \in 0 .. 0 |-> sol]
<1>1. w \in [0 .. 0 -> Luts]
  OBVIOUS
<1>2. Leads(w, sol, fl, sol, e, 0)
  BY DEF Leads
<1> QED BY <1>1, <1>2 DEF Back

\* A flip makes the walk back longer by one.
LEMMA BackGrows ==
    ASSUME NEW sol \in Luts, NEW fl \in Seq(LutBits), NEW from \in Luts,
           NEW e \in Nat, NEW n \in Nat, NEW b \in LutBits,
           Back(sol, fl, from, e, n), e <= Score[sol]
    PROVE  Back(Flipped(sol, b), Append(fl, b), from, e, n + 1)
<1> DEFINE new == Flipped(sol, b)
           fl2 == Append(fl, b)
<1>1. PICK w \in [0 .. n -> Luts] : Leads(w, sol, fl, from, e, n)
  BY DEF Back
<1> DEFINE v == [k \in 0 .. n+1 |-> IF k = 0 THEN new ELSE w[k-1]]
<1>2. new \in Luts /\ Flipped(new, b) = sol
  BY FlippedLut
<1>3. n <= Len(fl)
  BY DEF Back
<1>4. /\ Len(fl2) = Len(fl) + 1
      /\ fl2[Len(fl2)] = b
      /\ \A k \in 1 .. Len(fl) : fl2[k] = fl[k]
  OBVIOUS
<1>5. v \in [0 .. n+1 -> Luts]
  BY <1>2
<1>6. v[0] = new /\ \A k \in 1 .. n+1 : v[k] = w[k-1]
  OBVIOUS
<1>7. v[n+1] = from
  BY <1>1, <1>6 DEF Leads
<1>8. ASSUME NEW k \in 0 .. n
      PROVE  v[k+1] = Flipped(v[k], fl2[Len(fl2) - k])
  <2>1. CASE k = 0
    BY <1>1, <1>2, <1>4, <1>6, <2>1 DEF Leads
  <2>2. CASE k # 0
    <3>1. v[k+1] = w[k] /\ v[k] = w[k-1]
      BY <1>6, <2>2
    <3>2. k - 1 \in 0 .. n-1
      BY <2>2
    <3>3. w[(k-1)+1] = Flipped(w[k-1], fl[Len(fl) - (k-1)])
      BY <1>1, <3>2 DEF Leads
    <3>4. Len(fl2) - k = Len(fl) - (k-1) /\ Len(fl2) - k \in 1 .. Len(fl)
      BY <1>3, <1>4, <2>2
    <3>5. fl2[Len(fl2) - k] = fl[Len(fl) - (k-1)]
      BY <1>4, <3>4
    <3>6. (k-1) + 1 = k
      OBVIOUS
    <3> QED BY <3>1, <3>3, <3>5, <3>6
  <2> QED BY <2>1, <2>2
<1>9. ASSUME NEW k \in 1 .. n+1
      PROVE  e <= Score[v[k]]
  <2>1. CASE k = 1
    BY <1>1, <1>6, <2>1 DEF Leads
  <2>2. CASE k # 1
    <3>1. k - 1 \in 1 .. n
      BY <2>2
    <3> QED BY <1>1, <1>6, <3>1 DEF Leads
  <2> QED BY <2>1, <2>2
<1> HIDE DEF v, new, fl2
<1>10. Leads(v, new, fl2, from, e, n + 1)
  <2>1. (n + 1) - 1 = n
    OBVIOUS
  <2> QED BY <1>6, <1>7, <1>8, <1>9, <2>1 DEF Leads
<1>11. n + 1 \in 0 .. Len(fl2)
  BY <1>3, <1>4
<1> QED BY <1>5, <1>10, <1>11 DEF Back, new, fl2

\* An undo goes the first step of the walk.
LEMMA BackShrinks ==
    ASSUME NEW sol \in Luts, NEW fl \in Seq(LutBits), NEW from \in Luts,
           NEW e \in Nat, NEW n \in Nat \ {0}, Back(sol, fl, from, e, n)
    PROVE  LET new == Flipped(sol, fl[Len(fl)])
               fl2 == SubSeq(fl, 1, Len(fl) - 1)
           IN  /\ fl[Len(fl)] \in LutBits /\ fl2 \in Seq(LutBits)
               /\ new \in Luts /\ e <= Score[new]
               /\ Back(new, fl2, from, e, n - 1)
               /\ n = 1 => new = from
<1> DEFINE new == Flipped(sol, fl[Len(fl)])
           fl2 == SubSeq(fl, 1, Len(fl) - 1)
<1>1. PICK w \in [0 .. n -> Luts] : Leads(w, sol, fl, from, e, n)
  BY DEF Back
<1>2. n <= Len(fl) /\ Len(fl) \in Nat \ {0}
  BY DEF Back
<1>3. fl[Len(fl)] \in LutBits
  BY <1>2
<1>4. /\ fl2 \in Seq(LutBits)
      /\ Len(fl2) = Len(fl) - 1
      /\ \A k \in 1 .. Len(fl) - 1 : fl2[k] = fl[k]
  BY <1>2
<1>5. new = w[1]
  <2>1. 0 \in 0 .. n-1 /\ 0 + 1 = 1 /\ Len(fl) - 0 = Len(fl)
    BY <1>2
  <2>2. w[0 + 1] = Flipped(w[0], fl[Len(fl) - 0])
    BY <1>1, <2>1 DEF Leads
  <2> QED BY <1>1, <2>1, <2>2 DEF Leads
<1>6. new \in Luts /\ e <= Score[new]
  BY <1>1, <1>5 DEF Leads
<1> DEFINE v == [k \in 0 .. n-1 |-> w[k+1]]
<1>7. v \in [0 .. n-1 -> Luts] /\ \A k \in 0 .. n-1 : v[k] = w[k+1]
  OBVIOUS
<1> HIDE DEF v, new, fl2
<1>8. v[0] = new /\ v[n-1] = from
  <2>1. 0 \in 0 .. n-1 /\ n-1 \in 0 .. n-1 /\ (n-1) + 1 = n /\ 0 + 1 = 1
    OBVIOUS
  <2> QED BY <1>1, <1>5, <1>7, <2>1 DEF Leads
<1>9. ASSUME NEW k \in 0 .. (n-1)-1
      PROVE  v[k+1] = Flipped(v[k], fl2[Len(fl2) - k])
  <2>1. k \in 0 .. n-1 /\ k + 1 \in 0 .. n-1
    OBVIOUS
  <2>2. w[(k+1)+1] = Flipped(w[k+1], fl[Len(fl) - (k+1)])
    BY <1>1, <2>1 DEF Leads
  <2>3. Len(fl2) - k = Len(fl) - (k+1) /\ Len(fl2) - k \in 1 .. Len(fl) - 1
    BY <1>2, <1>4
  <2>4. fl2[Len(fl2) - k] = fl[Len(fl) - (k+1)]
    BY <1>4, <2>3
  <2> QED BY <1>7, <2>1, <2>2, <2>4
<1>10. ASSUME NEW k \in 1 .. n-1
       PROVE  e <= Score[v[k]]
  <2>1. k \in 0 .. n-1 /\ k + 1 \in 1 .. n
    OBVIOUS
  <2> QED BY <1>1, <1>7, <2>1 DEF Leads
<1>11. Leads(v, new, fl2, from, e, n-1)
  BY <1>8, <1>9, <1>10 DEF Leads
<1>12. n - 1 \in 0 .. Len(fl2)
  BY <1>2, <1>4
<1>13. Back(new, fl2, from, e, n-1)
  BY <1>7, <1>11, <1>12 DEF Back
<1>14. n = 1 => new = from
  BY <1>8
<1> QED BY <1>3, <1>4, <1>6, <1>13, <1>14 DEF new, fl2

\* A better best hash is no worse than what the walk meets.
LEMMA BackLower ==
    ASSUME NEW sol \in Luts, NEW fl \in Seq(LutBits), NEW from \in Luts,
           NEW e \in Nat, NEW d \in Nat, d <= e, NEW n \in Nat, Back(sol, fl, from, e, n)
    PROVE  Back(sol, fl, from, d, n)
<1>1. PICK w \in [0 .. n -> Luts] : Leads(w, sol, fl, from, e, n)
  BY DEF Back
<1>2. \A k \in 1 .. n : Score[w[k]] \in Nat
  BY ScoreType
<1>3. \A k \in 1 .. n : d <= Score[w[k]]
  BY <1>1, <1>2 DEF Leads
<1>4. Leads(w, sol, fl, from, d, n)
  BY <1>1, <1>3 DEF Leads
<1> QED BY <1>4 DEF Back

-----------------------------------------------------------------------------
(* What holds of the flips at every stage of a try: those that are made are *)
(* nFlips - left on top of the stack; a try that broke out of its loop is   *)
(* an improvement, which is not rejected; an undo has left flips to go; and *)
(* a try under way is not yet counted.                                      *)
Stage ==
    /\ pc = "flip" => left > 0 /\ eBest <= ePrev
    /\ pc = "judge" => eCurr = Score[solCurr]
    /\ pc \in {"judge", "accept"} => left = 0 \/ eCurr < ePrev
    /\ pc = "undo" => left > 0
    /\ pc \in {"flip", "judge", "accept", "undo", "count"} => tries < maxTries
    /\ pc \in {"flip", "judge", "accept"} => nFlips > 0
    /\ pc \in {"flip", "judge", "accept"} =>
          Back(solCurr, flips, before, eBest, nFlips - left)
    /\ pc = "undo" => Back(solCurr, flips, before, eBest, left)

IInv == TypeOK /\ CachesCurrent /\ BestIsKept /\ Stage

\* The invariant holds at the start.
LEMMA InitIInv == Init => IInv
<1> SUFFICES ASSUME Init PROVE IInv
  OBVIOUS
<1>1. Score[solCurr] \in Nat
  BY ScoreType DEF Init
<1>2. TypeOK
  BY <1>1, SolverAnnealAssumption DEF Init, TypeOK
<1>3. CachesCurrent /\ BestIsKept
  BY <1>1 DEF Init, CachesCurrent, BestIsKept
<1>4. Stage
  BY DEF Init, Stage
<1> QED BY <1>2, <1>3, <1>4 DEF IInv

\* A try begins: no flips, and the current hash is the one to come back to.
LEMMA BeginTryIInv == IInv /\ BeginTry => IInv'
<1> SUFFICES ASSUME IInv, BeginTry PROVE IInv'
  OBVIOUS
<1>1. view = solCurr /\ eBest <= Score[solCurr] /\ Score[solCurr] \in Nat
  BY ScoreType DEF IInv, BeginTry, TypeOK, CachesCurrent, BestIsKept
<1>2. nFlips' \in FlipCounts /\ left' = nFlips'
  BY DEF BeginTry
<1>3. nFlips' \in Nat \ {0}
  BY <1>2, SolverAnnealAssumption
<1>4. nFlips' - left' = 0 /\ left' \in 0 .. nFlips' /\ left' > 0
  <2>1. ASSUME NEW n \in Nat \ {0}, NEW m, m = n
        PROVE  n - m = 0 /\ m \in 0 .. n /\ m > 0
    BY <2>1
  <2> QED BY <1>2, <1>3, <2>1
<1>5. TypeOK'
  BY <1>1, <1>2, <1>4 DEF IInv, BeginTry, TypeOK
<1>6. Back(solCurr, flips, solCurr, eBest, 0)
  BY BackStarts DEF IInv, TypeOK
<1>7. CachesCurrent' /\ BestIsKept'
  BY <1>1 DEF IInv, BeginTry, CachesCurrent, BestIsKept
<1>8. Stage'
  BY <1>1, <1>2, <1>4, <1>6 DEF BeginTry, Stage
<1> QED BY <1>5, <1>7, <1>8 DEF IInv

\* A flip of the try.
LEMMA FlipOneIInv ==
    ASSUME NEW b \in LutBits
    PROVE  IInv /\ FlipOne(b) => IInv'
<1> SUFFICES ASSUME IInv, FlipOne(b) PROVE IInv'
  OBVIOUS
<1>1. /\ solCurr \in Luts /\ before \in Luts /\ flips \in Seq(LutBits)
      /\ eBest \in Nat /\ ePrev \in Nat /\ left \in 0 .. nFlips
      /\ nFlips \in FlipCounts \cup {0}
  BY DEF IInv, TypeOK
<1>2. nFlips \in Nat
  BY <1>1, SolverAnnealAssumption
<1>3. /\ left > 0 /\ nFlips > 0 /\ eBest <= ePrev /\ tries < maxTries
      /\ Back(solCurr, flips, before, eBest, nFlips - left)
  BY DEF IInv, FlipOne, Stage
<1>4. view = solCurr /\ eBest <= Score[solCurr]
  BY DEF IInv, FlipOne, CachesCurrent, BestIsKept
<1>5. /\ nFlips - left \in Nat
      /\ nFlips - (left - 1) = (nFlips - left) + 1
      /\ left - 1 \in 0 .. nFlips
  BY <1>1, <1>2, <1>3
<1>6. Flipped(solCurr, b) \in Luts /\ Score[Flipped(solCurr, b)] \in Nat
  BY <1>1, FlippedLut, ScoreType
<1>7. Back(Flipped(solCurr, b), Append(flips, b), before, eBest, nFlips - (left - 1))
  BY <1>1, <1>3, <1>4, <1>5, BackGrows
<1>8. /\ solCurr' = Flipped(solCurr, b) /\ view' = Flipped(solCurr, b)
      /\ eCurr' = Score[solCurr'] /\ eCurr' \in Nat
      /\ left' = left - 1
  BY <1>4, <1>6 DEF FlipOne
<1>9. TypeOK'
  BY <1>5, <1>6, <1>8 DEF IInv, FlipOne, TypeOK
<1>10. CachesCurrent'
  BY <1>8 DEF CachesCurrent
<1>11. BestIsKept'
  <2>1. CASE eCurr' < ePrev \/ left' = 0
    BY <2>1 DEF IInv, FlipOne, BestIsKept
  <2>2. CASE ~(eCurr' < ePrev \/ left' = 0)
    <3>1. eBest <= Score[solCurr']
      BY <1>1, <1>3, <1>8, <2>2
    <3> QED BY <3>1 DEF IInv, FlipOne, BestIsKept
  <2> QED BY <2>1, <2>2
<1>12. Stage'
  <2>1. Back(solCurr', flips', before', eBest', nFlips' - left')
    BY <1>7, <1>8 DEF FlipOne
  <2>2. CASE eCurr' < ePrev \/ left' = 0
    BY <1>3, <1>8, <2>1, <2>2 DEF FlipOne, Stage
  <2>3. CASE ~(eCurr' < ePrev \/ left' = 0)
    <3>1. left - 1 # 0 /\ left - 1 >= 0
      BY <1>1, <1>2, <1>3, <1>8, <2>3
    <3>2. left' > 0
      BY <1>1, <1>2, <1>8, <3>1
    <3> QED BY <1>3, <2>1, <2>3, <3>2 DEF FlipOne, Stage
  <2> QED BY <2>2, <2>3
<1> QED BY <1>9, <1>10, <1>11, <1>12 DEF IInv

(* The best hash changes only for one that is at least as good, so that     *)
(* everything passed on the way remains no better than it.                  *)
LEMMA JudgeIInv == IInv /\ Judge => IInv'
<1> SUFFICES ASSUME IInv, Judge PROVE IInv'
  OBVIOUS
<1>1. /\ solCurr \in Luts /\ before \in Luts /\ flips \in Seq(LutBits)
      /\ eBest \in Nat /\ eCurr \in Nat /\ left \in 0 .. nFlips
      /\ solBest \in Seq(Luts) /\ nFlips \in FlipCounts \cup {0}
  BY DEF IInv, TypeOK
<1>2. nFlips - left \in Nat
  BY <1>1, SolverAnnealAssumption
<1>3. /\ eCurr = Score[solCurr] /\ (left = 0 \/ eCurr < ePrev)
      /\ nFlips > 0 /\ tries < maxTries
      /\ Back(solCurr, flips, before, eBest, nFlips - left)
  BY DEF IInv, Judge, Stage
<1>4. Len(solBest) = 1 /\ eBest = Score[solBest[1]]
  BY DEF IInv, BestIsKept
<1>5. ASSUME eCurr <= eBest
      PROVE  Recorded \in Seq(Luts) /\ Len(Recorded) = 1 /\ Score[Recorded[1]] = eCurr
  <2>1. CASE eCurr < eBest
    BY <1>1, <1>3, <2>1 DEF Recorded
  <2>2. CASE ~(eCurr < eBest) /\ \E n \in DOMAIN solBest : solBest[n] = solCurr
    BY <1>1, <1>4, <1>5, <2>2 DEF Recorded
  <2>3. CASE ~(eCurr < eBest) /\ ~ \E n \in DOMAIN solBest : solBest[n] = solCurr
    <3>1. Recorded = Append(Tail(solBest), solCurr)
      BY <2>3 DEF Recorded
    <3>2. Tail(solBest) \in Seq(Luts) /\ Len(Tail(solBest)) = 0
      BY <1>1, <1>4, HeadTailProperties
    <3>3. /\ Recorded \in Seq(Luts) /\ Len(Recorded) = Len(Tail(solBest)) + 1
          /\ Recorded[Len(Tail(solBest)) + 1] = solCurr
      <4>1. solCurr \in Luts
        BY <1>1
      <4>. QED
        BY <3>1, <3>2, <4>1, AppendProperties, ZenonT(40)
    <3>4. Len(Recorded) = 0 + 1 /\ Recorded[0 + 1] = solCurr
      BY <3>2, <3>3, Zenon
    <3> QED BY <1>3, <3>3, <3>4
  <2> QED BY <2>1, <2>2, <2>3
<1>6. /\ eBest' \in Nat /\ eBest' <= eBest /\ eBest' <= Score[solCurr]
      /\ solBest' \in Seq(Luts) /\ Len(solBest') = 1 /\ eBest' = Score[solBest'[1]]
  BY <1>1, <1>3, <1>4, <1>5 DEF Judge
<1>7. Back(solCurr, flips, before, eBest', nFlips - left)
  BY <1>1, <1>2, <1>3, <1>6, BackLower
<1>8. TypeOK'
  BY <1>6 DEF IInv, Judge, TypeOK
<1>9. CachesCurrent' /\ BestIsKept'
  BY <1>6 DEF IInv, Judge, CachesCurrent, BestIsKept
<1>10. Stage'
  BY <1>3, <1>7 DEF Judge, Stage
<1> QED BY <1>8, <1>9, <1>10 DEF IInv

(* Only a try that made all its flips is rejected.                          *)
LEMMA RejectIInv == IInv /\ Reject => IInv'
<1> SUFFICES ASSUME IInv, Reject PROVE IInv'
  OBVIOUS
<1>1. eCurr \in Nat /\ ePrev \in Nat /\ nFlips \in FlipCounts \cup {0} /\ left \in 0 .. nFlips
  BY DEF IInv, TypeOK
<1>2. nFlips \in Nat
  BY <1>1, SolverAnnealAssumption
<1>3. /\ eCurr >= ePrev /\ (left = 0 \/ eCurr < ePrev)
      /\ nFlips > 0 /\ tries < maxTries
      /\ Back(solCurr, flips, before, eBest, nFlips - left)
  BY DEF IInv, Reject, Stage
<1>4. nFlips - left = nFlips
  BY <1>1, <1>2, <1>3
<1>5. Back(solCurr, flips, before, eBest, nFlips)
  BY <1>3, <1>4
<1>6. TypeOK'
  BY <1>2 DEF IInv, Reject, TypeOK
<1>7. CachesCurrent' /\ BestIsKept'
  BY DEF IInv, Reject, CachesCurrent, BestIsKept
<1>8. Stage'
  BY <1>3, <1>5 DEF Reject, Stage
<1> QED BY <1>6, <1>7, <1>8 DEF IInv

(* One step back along the walk; the last one ends where the try began.     *)
LEMMA UndoneOne ==
    ASSUME IInv, UndoOne
    PROVE  /\ solCurr' \in Luts /\ view' = solCurr' /\ flips' \in Seq(LutBits)
           /\ eBest <= Score[solCurr']
           /\ Back(solCurr', flips', before, eBest, left - 1)
           /\ left = 1 => solCurr' = before
<1>1. /\ solCurr \in Luts /\ before \in Luts /\ flips \in Seq(LutBits)
      /\ eBest \in Nat /\ left \in 0 .. nFlips /\ nFlips \in FlipCounts \cup {0}
  BY DEF IInv, TypeOK
<1>2. left > 0 /\ Back(solCurr, flips, before, eBest, left)
  BY DEF IInv, UndoOne, Stage
<1>3. left \in Nat \ {0}
  BY <1>1, <1>2, SolverAnnealAssumption
<1>4. view = solCurr
  BY DEF IInv, UndoOne, CachesCurrent
<1>5. /\ solCurr' = Flipped(solCurr, flips[Len(flips)]) /\ view' = solCurr'
      /\ flips' = SubSeq(flips, 1, Len(flips) - 1)
  BY <1>4 DEF UndoOne
<1> QED BY <1>1, <1>2, <1>3, <1>5, BackShrinks

\* A flip of a rejected try is undone.
LEMMA UndoOneIInv == IInv /\ UndoOne => IInv'
<1> SUFFICES ASSUME IInv, UndoOne PROVE IInv'
  OBVIOUS
<1>1. /\ solCurr' \in Luts /\ view' = solCurr' /\ flips' \in Seq(LutBits)
      /\ eBest <= Score[solCurr']
      /\ Back(solCurr', flips', before, eBest, left - 1)
  BY UndoneOne
<1>2. /\ left \in 0 .. nFlips /\ nFlips \in FlipCounts \cup {0}
      /\ left > 0 /\ tries < maxTries
  BY DEF IInv, UndoOne, TypeOK, Stage
<1>3. left - 1 \in 0 .. nFlips /\ (left - 1 = 0 \/ left - 1 > 0)
  BY <1>2, SolverAnnealAssumption
<1>4. TypeOK'
  BY <1>1, <1>3 DEF IInv, UndoOne, TypeOK
<1>5. CachesCurrent' /\ BestIsKept'
  BY <1>1 DEF IInv, UndoOne, CachesCurrent, BestIsKept
<1>6. Stage'
  <2>1. Back(solCurr', flips', before', eBest', left')
    BY <1>1 DEF UndoOne
  <2>2. left' = 0 \/ left' > 0
    BY <1>3 DEF UndoOne
  <2> QED BY <1>2, <2>1, <2>2 DEF UndoOne, Stage
<1> QED BY <1>4, <1>5, <1>6 DEF IInv

(* A restart leaves for a best hash, or stays: the caches are behind until  *)
(* the sync, and nothing that is there is better than the best.             *)
LEMMA RestartIInv == IInv /\ (Restart \/ sync) => IInv'
<1>1. ASSUME IInv, Restart PROVE IInv'
  <2>1. /\ solBest \in Seq(Luts) /\ Len(solBest) = 1 /\ eBest = Score[solBest[1]]
        /\ solCurr \in Luts /\ eBest \in Nat /\ eBest <= Score[solCurr]
    BY <1>1 DEF IInv, Restart, TypeOK, BestIsKept
  <2>2. solCurr' \in {solCurr, solBest[1]}
    BY <1>1, <2>1 DEF Restart
  <2>3. solBest[1] \in Luts
    <3>1. 1 \in 1 .. Len(solBest)
      BY <2>1
    <3> QED BY <2>1, <3>1, ElementOfSeq
  <2>4. solCurr' \in Luts /\ eBest <= Score[solCurr']
    BY <2>1, <2>2, <2>3
  <2>5. TypeOK'
    BY <1>1, <2>4 DEF IInv, Restart, TypeOK
  <2>6. CachesCurrent' /\ BestIsKept' /\ Stage'
    BY <1>1, <2>4 DEF IInv, Restart, CachesCurrent, BestIsKept, Stage
  <2> QED BY <2>5, <2>6 DEF IInv
<1>2. ASSUME IInv, sync PROVE IInv'
  BY <1>2 DEF IInv, sync, TypeOK, CachesCurrent, BestIsKept, Stage
<1> QED BY <1>1, <1>2

(* The steps that only move on.                                             *)
LEMMA MoveOnIInv ==
    IInv /\ (Accept \/ Count \/ Cool \/ CheckTime \/ Finish \/ UNCHANGED vars) => IInv'
<1>1. ASSUME IInv, Accept PROVE IInv'
  BY <1>1 DEF IInv, Accept, TypeOK, CachesCurrent, BestIsKept, Stage
<1>2. ASSUME IInv, Count PROVE IInv'
  <2>1. tries \in Nat /\ tries < maxTries /\ maxTries \in Nat
    BY <1>2, SolverAnnealAssumption DEF IInv, Count, TypeOK, Stage
  <2>2. tries' \in 0 .. maxTries
    BY <1>2, <2>1 DEF Count
  <2> QED BY <1>2, <2>2 DEF IInv, Count, TypeOK, CachesCurrent, BestIsKept, Stage
<1>3. ASSUME IInv, Cool PROVE IInv'
  BY <1>3 DEF IInv, Cool, TypeOK, CachesCurrent, BestIsKept, Stage
<1>4. ASSUME IInv, CheckTime PROVE IInv'
  BY <1>4 DEF IInv, CheckTime, TypeOK, CachesCurrent, BestIsKept, Stage
<1>5. ASSUME IInv, Finish PROVE IInv'
  BY <1>5 DEF IInv, Finish, TypeOK, CachesCurrent, BestIsKept, Stage
<1>6. ASSUME IInv, UNCHANGED vars PROVE IInv'
  BY <1>6 DEF IInv, vars, TypeOK, CachesCurrent, BestIsKept, Stage
<1> QED BY <1>1, <1>2, <1>3, <1>4, <1>5, <1>6

\* Every step keeps the invariant.
LEMMA NextIInv == IInv /\ [Next]_vars => IInv'
<1>1. ASSUME NEW b \in LutBits, IInv, FlipOne(b) PROVE IInv'
  BY <1>1, FlipOneIInv
<1> QED BY <1>1, BeginTryIInv, JudgeIInv, RejectIInv, UndoOneIInv, RestartIInv,
           MoveOnIInv DEF Next

-----------------------------------------------------------------------------
(* Every reachable state satisfies the inductive invariant.                 *)
THEOREM Invariance == Spec => []IInv
<1> QED BY InitIInv, NextIInv, PTL DEF Spec

(* The variables of solver_anneal keep their types for every problem, and   *)
(* the counter of flips to undo never passes the number of flips.           *)
THEOREM TypeCorrect == Spec => []TypeOK
<1>1. IInv => TypeOK
  BY DEF IInv
<1> QED BY Invariance, <1>1, PTL

(* The caches of manipCurr describe solCurr whenever they are looked at.    *)
THEOREM CachesAlwaysCurrent == Spec => []CachesCurrent
<1>1. IInv => CachesCurrent
  BY DEF IInv
<1> QED BY Invariance, <1>1, PTL

(* No hash on the search's way is better than the one solver_anneal         *)
(* returns, those an undo goes back over included.                          *)
THEOREM BestAlwaysKept == Spec => []BestIsKept
<1>1. IInv => BestIsKept
  BY DEF IInv
<1> QED BY Invariance, <1>1, PTL

(* Undoing a rejected try gives back the hash it began with, whatever is on *)
(* the stack below its flips.                                               *)
THEOREM RejectionsRestore == Spec => RejectRestores
<1>1. IInv /\ [Next]_vars => [pc = "undo" /\ pc' = "count" =>
                                 solCurr' = before /\ view' = before]_vars
  <2> SUFFICES ASSUME IInv, [Next]_vars, pc = "undo", pc' = "count"
               PROVE  solCurr' = before /\ view' = before
    OBVIOUS
  <2>1. UndoOne
    BY DEF Next, vars, BeginTry, FlipOne, Judge, Accept, Reject, Count, Cool,
           Restart, sync, CheckTime, Finish
  <2>2. left = 1
    <3>1. left \in 0 .. nFlips /\ nFlips \in FlipCounts \cup {0}
      BY DEF IInv, TypeOK
    <3>2. left - 1 = 0
      BY <2>1 DEF UndoOne
    <3> QED BY <3>1, <3>2, SolverAnnealAssumption
  <2> QED BY <2>1, <2>2, UndoneOne
<1> QED BY Invariance, <1>1, PTL DEF Spec, RejectRestores

-----------------------------------------------------------------------------
(* Part 2: the chain of tools.                                              *)

\* The values of a bit, and the vectors that are read as k bits.
Trits == {-1, 0, 1}
Vectors(k) == [0 .. k-1 -> Trits]

\* The size is a number of bits, with zeros above it and none at its top.
LEMMA SizeType ==
    ASSUME NEW k \in Nat, NEW x \in Vectors(k)
    PROVE  /\ size(x) \in 0 .. k
           /\ \A i \in 0 .. k-1 : i >= size(x) => x[i] = 0
           /\ size(x) > 0 => x[size(x)-1] # 0
<1>. DEFINE N == {j \in DOMAIN x : x[j] # 0}
            S == {0} \cup {i + 1 : i \in N}
<1>1. N \in SUBSET (0 .. k-1) /\ DOMAIN x = 0 .. k-1
  BY DEF Vectors
<1>2. S \in SUBSET (0 .. k)
  BY <1>1
<1>3. IsFiniteSet(S) /\ S # {} /\ S \in SUBSET Int
  <2>1. IsFiniteSet(0 .. k)
    BY FS_Interval
  <2>. HIDE DEF S
  <2>2. S \in SUBSET Int
    BY <1>2
  <2>3. S # {}
    BY DEF S
  <2>. QED
    BY <1>2, <2>1, <2>2, <2>3, FS_Subset
<1>4. PICK m \in S : \A y \in S : m >= y
  <2>. HIDE DEF S
  <2>. QED
    BY <1>3, GreatestNumber
<1>5. size(x) \in S /\ \A y \in S : size(x) >= y
  <2>1. size(x) = CHOOSE z \in S : \A y \in S : z >= y
    BY DEF size, Max
  <2>. HIDE DEF S
  <2>. QED
    BY <1>4, <2>1
<1>6. ASSUME NEW i \in 0 .. k-1, i >= size(x)
      PROVE  x[i] = 0
  <2>1. i \in N => i + 1 \in S
    OBVIOUS
  <2>2. size(x) \in Int
    BY <1>2, <1>5
  <2>. QED
    BY <1>1, <1>5, <1>6, <2>1, <2>2
<1>7. size(x) > 0 => x[size(x)-1] # 0
  <2>1. size(x) > 0 => \E i \in N : size(x) = i + 1
    BY <1>5
  <2>. QED
    BY <1>1, <2>1
<1>. QED
  BY <1>2, <1>5, <1>6, <1>7

\* A vector that is printed and parsed comes back.
LEMMA PrintedParses ==
    ASSUME NEW k \in Nat, NEW x \in Vectors(k)
    PROVE  parse_bit_vector(to_string(x), k) = x /\ to_string(x) \in Seq(Trits)
<1>1. size(x) \in 0 .. k /\ \A i \in 0 .. k-1 : i >= size(x) => x[i] = 0
  BY SizeType
<1>2. CASE size(x) = 0
  <2>1. to_string(x) = <<0>> /\ to_string(x) \in Seq(Trits)
    BY <1>2 DEF to_string, Trits
  <2>2. \A i \in 0 .. k-1 : (IF i < Len(<<0>>) THEN <<0>>[Len(<<0>>) - i] ELSE 0) = x[i]
    BY <1>1, <1>2
  <2>. QED
    BY <2>1, <2>2 DEF parse_bit_vector, Vectors
<1>3. CASE size(x) # 0
  <2>. DEFINE s == [j \in 1 .. size(x) |-> x[size(x) - j]]
  <2>1. to_string(x) = s
    BY <1>3 DEF to_string
  <2>2. \A j \in 1 .. size(x) : size(x) - j \in 0 .. k-1
    BY <1>1
  <2>3. s \in [1 .. size(x) -> Trits] /\ size(x) \in Nat
    BY <1>1, <2>2 DEF Vectors
  <2>4. s \in Seq(Trits) /\ Len(s) = size(x)
    BY <2>3
  <2>5. \A i \in 0 .. k-1 :
           i < size(x) => size(x) - i \in 1 .. size(x) /\ size(x) - (size(x) - i) = i
    BY <1>1
  <2>6. \A i \in 0 .. k-1 : (IF i < Len(s) THEN s[Len(s) - i] ELSE 0) = x[i]
    BY <1>1, <2>4, <2>5
  <2>. HIDE DEF s
  <2>. QED
    BY <2>1, <2>4, <2>6 DEF parse_bit_vector, Vectors
<1>. QED
  BY <1>2, <1>3

\* Whatever is parsed is a vector.
LEMMA ParseType ==
    ASSUME NEW k \in Nat, NEW s \in Seq(Trits)
    PROVE  parse_bit_vector(s, k) \in Vectors(k)
<1>1. ASSUME NEW i \in 0 .. k-1, i < Len(s)
      PROVE  s[Len(s) - i] \in Trits
  <2>1. Len(s) - i \in 1 .. Len(s)
    BY <1>1
  <2>. QED
    BY <2>1
<1>. QED
  BY <1>1 DEF parse_bit_vector, Vectors, Trits

\* Two keys overlap when a concrete key belongs to both.
LEMMA OverlapIsCommon ==
    ASSUME NEW x \in AbstractKeys, NEW y \in AbstractKeys
    PROVE  /\ overlaps(x, y) <=> variants(x) \cap variants(y) # {}
           /\ overlaps(x, x)
           /\ overlaps(x, y) <=> overlaps(y, x)
<1>1. ASSUME overlaps(x, y)
      PROVE  variants(x) \cap variants(y) # {}
  <2>. DEFINE z == [i \in Inputs |-> IF x[i] # -1 THEN x[i] ELSE IF y[i] # -1 THEN y[i] ELSE 0]
  <2>1. z \in ConcreteKeys
    BY DEF AbstractKeys, ConcreteKeys
  <2>2. z \in variants(x)
    BY <2>1 DEF variants
  <2>3. z \in variants(y)
    BY <1>1, <2>1 DEF variants, overlaps
  <2>. QED
    BY <2>2, <2>3
<1>2. ASSUME NEW z \in variants(x) \cap variants(y)
      PROVE  overlaps(x, y)
  BY DEF variants, overlaps
<1>3. overlaps(x, x) /\ (overlaps(x, y) <=> overlaps(y, x))
  BY DEF overlaps
<1>. QED
  BY <1>1, <1>2, <1>3

-----------------------------------------------------------------------------
(* The order of the keys.                                                   *)

\* operator< spelt out over the bits of a key.
LEMMA LessMeans ==
    ASSUME NEW x \in AbstractKeys, NEW y \in AbstractKeys
    PROVE  /\ size(x) \in Int /\ size(y) \in Int
           /\ Less(x, y) <=>
                 \/ size(x) < size(y)
                 \/ /\ size(x) = size(y)
                    /\ \E i \in Inputs : /\ x[i] < y[i]
                                        /\ \A j \in Inputs : j > i => x[j] = y[j]
<1>1. DOMAIN x = Inputs /\ DOMAIN y = Inputs
  BY DEF AbstractKeys
<1>2. size(x) \in Int /\ size(y) \in Int
  <2>1. wI \in Nat /\ x \in Vectors(wI) /\ y \in Vectors(wI)
    BY BitHashAssumption DEF AbstractKeys, Vectors, Trits, Inputs
  <2>. QED
    BY <2>1, SizeType
<1>. DEFINE Higher(S) == \E i \in S : x[i] < y[i] /\ \A j \in S : j > i => x[j] = y[j]
<1>3. Higher(DOMAIN x) <=> Higher(Inputs)
  <2>. HIDE DEF Higher
  <2>. QED
    BY <1>1, Zenon
<1>4. Less(x, y) <=>
        \/ size(x) < size(y)
        \/ /\ size(x) = size(y)
           /\ \E i \in DOMAIN x : x[i] < y[i] /\ \A j \in DOMAIN x : j > i => x[j] = y[j]
  BY Zenon DEF Less
<1>. QED
  BY <1>2, <1>3, <1>4, Zenon

\* operator< orders the keys strictly and totally.
LEMMA LessIsOrder ==
    ASSUME NEW x \in AbstractKeys, NEW y \in AbstractKeys, NEW z \in AbstractKeys
    PROVE  /\ ~ Less(x, x)
           /\ Less(x, y) /\ Less(y, z) => Less(x, z)
           /\ x # y => Less(x, y) \/ Less(y, x)
<1>. DEFINE Higher(a, b) == \E i \in Inputs : /\ a[i] < b[i]
                                           /\ \A j \in Inputs : j > i => a[j] = b[j]
<1>1. /\ \A i \in Inputs : x[i] \in Int /\ y[i] \in Int /\ z[i] \in Int
      /\ Inputs = 0 .. wI-1 /\ wI \in Nat
  BY BitHashAssumption DEF AbstractKeys, Inputs
<1>2. /\ size(x) \in Int /\ size(y) \in Int /\ size(z) \in Int
      /\ \A a, b \in {x, y, z} :
           Less(a, b) <=> size(a) < size(b) \/ (size(a) = size(b) /\ Higher(a, b))
  BY LessMeans
<1>3. ~ Higher(x, x)
  BY <1>1
<1>4. ASSUME Higher(x, y), Higher(y, z)
      PROVE  Higher(x, z)
  <2>1. PICK i \in Inputs : x[i] < y[i] /\ \A j \in Inputs : j > i => x[j] = y[j]
    BY <1>4
  <2>2. PICK k \in Inputs : y[k] < z[k] /\ \A j \in Inputs : j > k => y[j] = z[j]
    BY <1>4
  <2>3. PICK m \in {i, k} : m >= i /\ m >= k
    BY <1>1
  <2>4. m \in Inputs /\ x[m] < z[m]
    BY <1>1, <2>1, <2>2, <2>3
  <2>5. \A j \in Inputs : j > m => x[j] = z[j]
    BY <1>1, <2>1, <2>2, <2>3
  <2>. QED
    BY <2>4, <2>5
<1>5. ASSUME x # y
      PROVE  Higher(x, y) \/ Higher(y, x)
  <2>. DEFINE D == {i \in Inputs : x[i] # y[i]}
  <2>1. D # {}
    BY <1>5 DEF AbstractKeys
  <2>2. IsFiniteSet(D) /\ D \in SUBSET Int
    <3>1. IsFiniteSet(Inputs)
      BY <1>1, FS_Interval
    <3>2. D \in SUBSET Inputs /\ Inputs \in SUBSET Int
      BY <1>1
    <3>. HIDE DEF D
    <3>. QED
      BY <3>1, <3>2, FS_Subset
  <2>3. PICK i \in D : \A j \in D : i >= j
    <3>. HIDE DEF D
    <3>. QED
      BY <2>1, <2>2, GreatestNumber
  <2>4. \A j \in Inputs : j > i => x[j] = y[j]
    BY <1>1, <2>3
  <2>5. x[i] < y[i] \/ y[i] < x[i]
    BY <1>1, <2>3
  <2>. QED
    BY <1>1, <2>3, <2>4, <2>5
<1>. HIDE DEF Higher
<1>6. x \in {x, y, z} /\ y \in {x, y, z} /\ z \in {x, y, z}
  OBVIOUS
<1>7. ~ Less(x, x)
  BY <1>2, <1>3, <1>6
<1>8. Less(x, y) /\ Less(y, z) => Less(x, z)
  <2>1. Less(x, y) <=> size(x) < size(y) \/ (size(x) = size(y) /\ Higher(x, y))
    BY <1>2
  <2>2. Less(y, z) <=> size(y) < size(z) \/ (size(y) = size(z) /\ Higher(y, z))
    BY <1>2
  <2>3. Less(x, z) <=> size(x) < size(z) \/ (size(x) = size(z) /\ Higher(x, z))
    BY <1>2
  <2>. QED
    BY <1>2, <1>4, <2>1, <2>2, <2>3
<1>9. x # y => Less(x, y) \/ Less(y, x)
  <2>1. Less(x, y) <=> size(x) < size(y) \/ (size(x) = size(y) /\ Higher(x, y))
    BY <1>2
  <2>2. Less(y, x) <=> size(y) < size(x) \/ (size(y) = size(x) /\ Higher(y, x))
    BY <1>2
  <2>. QED
    BY <1>2, <1>5, <2>1, <2>2
<1>. QED
  BY <1>7, <1>8, <1>9

\* R orders the members of S strictly and totally.
Orders(R, S) ==
    /\ \A x \in S : <<x, x>> \notin R
    /\ \A x, y, z \in S : <<x, y>> \in R /\ <<y, z>> \in R => <<x, z>> \in R
    /\ \A x, y \in S : x # y => <<x, y>> \in R \/ <<y, x>> \in R

\* The order of the map does so with any keys.
LEMMA BeforeOrders ==
    ASSUME NEW D \in SUBSET AbstractKeys
    PROVE  Orders(Before, D)
BY LessIsOrder DEF Orders, Before

\* The members of S before x.
Earlier(S, R, x) == {y \in S : <<y, x>> \in R}

\* The number of earlier members puts every member at a place of its own.
LEMMA Placing ==
    ASSUME NEW S, IsFiniteSet(S), NEW R, Orders(R, S)
    PROVE  /\ \A x \in S : Cardinality(Earlier(S, R, x)) \in 0 .. Cardinality(S)-1
           /\ \A r \in 0 .. Cardinality(S)-1 :
                \E x \in S : Cardinality(Earlier(S, R, x)) = r
           /\ \A x, y \in S :
                <<x, y>> \in R => Cardinality(Earlier(S, R, x)) < Cardinality(Earlier(S, R, y))
<1>. DEFINE n == Cardinality(S)
            rank == [x \in S |-> Cardinality(Earlier(S, R, x))]
<1>1. n \in Nat
  BY FS_CardinalityType
<1>2. ASSUME NEW x \in S
      PROVE  IsFiniteSet(Earlier(S, R, x)) /\ Cardinality(Earlier(S, R, x)) \in 0 .. n-1
  <2>1. Earlier(S, R, x) \in SUBSET S /\ x \notin Earlier(S, R, x)
    BY DEF Orders, Earlier
  <2>2. IsFiniteSet(Earlier(S, R, x)) /\ Cardinality(Earlier(S, R, x)) <= n
    BY <2>1, FS_Subset
  <2>3. Cardinality(Earlier(S, R, x)) # n
    BY <2>1, FS_Subset
  <2>4. Cardinality(Earlier(S, R, x)) \in Nat
    BY <2>2, FS_CardinalityType
  <2>. QED
    BY <1>1, <2>2, <2>3, <2>4
<1>3. ASSUME NEW x \in S, NEW y \in S, <<x, y>> \in R
      PROVE  Cardinality(Earlier(S, R, x)) < Cardinality(Earlier(S, R, y))
  <2>1. Earlier(S, R, x) \in SUBSET Earlier(S, R, y)
    BY <1>3 DEF Orders, Earlier
  <2>2. x \in Earlier(S, R, y) /\ x \notin Earlier(S, R, x)
    BY <1>3 DEF Orders, Earlier
  <2>3. Cardinality(Earlier(S, R, x)) <= Cardinality(Earlier(S, R, y)) /\
        Cardinality(Earlier(S, R, x)) # Cardinality(Earlier(S, R, y))
    BY <1>2, <2>1, <2>2, FS_Subset
  <2>. QED
    BY <1>2, <2>3
<1>4. ASSUME NEW x \in S, NEW y \in S,
             Cardinality(Earlier(S, R, x)) = Cardinality(Earlier(S, R, y))
      PROVE  x = y
  <2>1. x # y => <<x, y>> \in R \/ <<y, x>> \in R
    BY DEF Orders
  <2>. QED
    BY <1>1, <1>2, <1>3, <1>4, <2>1
<1>5. rank \in Injection(S, 0 .. n-1)
  BY <1>2, <1>4 DEF Injection, IsInjective
<1>6. IsFiniteSet(0 .. n-1) /\ Cardinality(0 .. n-1) = n
  <2>1. 0 \in Int /\ n-1 \in Int
    BY <1>1
  <2>2. /\ IsFiniteSet(0 .. n-1)
        /\ Cardinality(0 .. n-1) = IF 0 > n-1 THEN 0 ELSE n-1 - 0 + 1
    BY <2>1, FS_Interval, Zenon
  <2>. QED
    BY <1>1, <2>2
<1>7. rank \in Surjection(S, 0 .. n-1)
  BY <1>5, <1>6, FS_Injection
<1>8. \A r \in 0 .. n-1 : \E x \in S : rank[x] = r
  <2>. HIDE DEF n, rank
  <2>. QED
    BY <1>7 DEF Surjection
<1>. QED
  BY <1>2, <1>3, <1>8

\* Ranked has every member at one place, and the members in their order.
LEMMA RankedIsOrdered ==
    ASSUME NEW S, IsFiniteSet(S), NEW R, Orders(R, S)
    PROVE  /\ Cardinality(S) \in Nat
           /\ Ranked(S, R) \in [1 .. Cardinality(S) -> S]
           /\ \A x \in S : \E r \in 1 .. Cardinality(S) : Ranked(S, R)[r] = x
           /\ \A q, r \in 1 .. Cardinality(S) : Ranked(S, R)[q] = Ranked(S, R)[r] => q = r
           /\ \A q, r \in 1 .. Cardinality(S) :
                <<Ranked(S, R)[q], Ranked(S, R)[r]>> \in R <=> q < r
<1>. DEFINE n == Cardinality(S)
            o == Ranked(S, R)
            rank(x) == Cardinality(Earlier(S, R, x))
<1>1. n \in Nat
  BY FS_CardinalityType
<1>2. /\ \A x \in S : rank(x) \in 0 .. n-1
      /\ \A r \in 0 .. n-1 : \E x \in S : rank(x) = r
      /\ \A x, y \in S : <<x, y>> \in R => rank(x) < rank(y)
  BY Placing
<1>3. o = [r \in 1 .. n |-> CHOOSE x \in S : rank(x) = r - 1]
  BY DEF Ranked, Earlier
<1>. HIDE DEF n, o, rank
<1>4. ASSUME NEW r \in 1 .. n
      PROVE  o[r] \in S /\ rank(o[r]) = r - 1
  <2>1. r - 1 \in 0 .. n-1
    BY <1>1
  <2>2. \E x \in S : rank(x) = r - 1
    BY <1>2, <2>1
  <2>. QED
    BY <1>3, <2>2
<1>5. o \in [1 .. n -> S]
  BY <1>3, <1>4
<1>6. \A x, y \in S : rank(x) = rank(y) => x = y
  <2>1. ASSUME NEW x \in S, NEW y \in S, rank(x) = rank(y), x # y
        PROVE  FALSE
    <3>1. rank(x) < rank(y) \/ rank(y) < rank(x)
      BY <1>2, <2>1 DEF Orders
    <3>2. rank(x) \in Int /\ rank(y) \in Int
      BY <1>2
    <3>. QED
      BY <2>1, <3>1, <3>2
  <2>. QED
    BY <2>1
<1>7. ASSUME NEW x \in S
      PROVE  \E r \in 1 .. n : o[r] = x
  <2>1. rank(x) + 1 \in 1 .. n
    BY <1>1, <1>2
  <2>2. rank(o[rank(x) + 1]) = rank(x) /\ o[rank(x) + 1] \in S
    BY <1>2, <1>4, <2>1
  <2>. QED
    BY <1>6, <2>1, <2>2
<1>8. ASSUME NEW q \in 1 .. n, NEW r \in 1 .. n
      PROVE  (o[q] = o[r] => q = r) /\ (<<o[q], o[r]>> \in R <=> q < r)
  <2>1. /\ o[q] \in S /\ rank(o[q]) = q - 1
        /\ o[r] \in S /\ rank(o[r]) = r - 1
    BY <1>4
  <2>2. o[q] = o[r] => q = r
    BY <1>1, <2>1
  <2>3. <<o[q], o[r]>> \in R => q < r
    BY <1>1, <1>2, <2>1
  <2>4. <<o[r], o[q]>> \in R => r < q
    BY <1>1, <1>2, <2>1
  <2>5. q < r => <<o[q], o[r]>> \in R
    <3>1. q < r => o[q] # o[r]
      BY <1>1, <2>2
    <3>. QED
      BY <1>1, <2>1, <2>4, <3>1 DEF Orders
  <2>. QED
    BY <2>2, <2>3, <2>5
<1>. QED
  BY <1>1, <1>5, <1>7, <1>8 DEF n, o

\* The order of the map has every key, and has it once.
LEMMA InOrderIsPermutation ==
    ASSUME NEW e, DOMAIN e \in SUBSET AbstractKeys, IsFiniteSet(DOMAIN e)
    PROVE  /\ Cardinality(DOMAIN e) \in Nat
           /\ InOrder(e) \in [1 .. Cardinality(DOMAIN e) -> DOMAIN e]
           /\ \A x \in DOMAIN e : \E r \in 1 .. Cardinality(DOMAIN e) : InOrder(e)[r] = x
           /\ \A q, r \in 1 .. Cardinality(DOMAIN e) : InOrder(e)[q] = InOrder(e)[r] => q = r
BY BeforeOrders, RankedIsOrdered DEF InOrder

-----------------------------------------------------------------------------
(* Key sets as a tool has them, and as texts.                               *)

\* A key set: finitely many keys, each with a value.
IsKeySet(e) == /\ DOMAIN e \in SUBSET AbstractKeys /\ IsFiniteSet(DOMAIN e)
               /\ e \in [DOMAIN e -> Vectors(wV)]

\* The two halves of a line.
Texts == Seq(Trits) \X Seq(Trits)

\* The key and the value of a line.
KeyOf(line)   == parse_bit_vector(line[1], wI)
ValueOf(line) == parse_bit_vector(line[2], wV)

\* A line gives a key and a value, whatever is in it.
LEMMA LineType ==
    ASSUME NEW line \in Texts
    PROVE  KeyOf(line) \in AbstractKeys /\ ValueOf(line) \in Vectors(wV)
<1>1. line[1] \in Seq(Trits) /\ line[2] \in Seq(Trits) /\ wI \in Nat /\ wV \in Nat
  BY BitHashAssumption, KeyValueSetAssumption DEF Texts
<1>2. Vectors(wI) = AbstractKeys
  BY DEF Vectors, AbstractKeys, Inputs, Trits
<1>. QED
  BY <1>1, <1>2, ParseType DEF KeyOf, ValueOf

\* What print() writes has a line for every key, and no two for the same.
LEMMA Printout ==
    ASSUME NEW e, IsKeySet(e)
    PROVE  /\ print(e) \in Seq(Texts) /\ Len(print(e)) = Cardinality(DOMAIN e)
           /\ DOMAIN print(e) = 1 .. Len(print(e))
           /\ \A m \in DOMAIN print(e) :
                /\ KeyOf(print(e)[m]) \in DOMAIN e
                /\ ValueOf(print(e)[m]) = e[KeyOf(print(e)[m])]
           /\ \A x \in DOMAIN e : \E m \in DOMAIN print(e) : KeyOf(print(e)[m]) = x
           /\ \A k, m \in DOMAIN print(e) : KeyOf(print(e)[k]) = KeyOf(print(e)[m]) => k = m
<1>. DEFINE n == Cardinality(DOMAIN e)
            o == InOrder(e)
            p == print(e)
<1>1. /\ n \in Nat /\ o \in [1 .. n -> DOMAIN e]
      /\ \A x \in DOMAIN e : \E r \in 1 .. n : o[r] = x
      /\ \A q, r \in 1 .. n : o[q] = o[r] => q = r
  BY InOrderIsPermutation DEF IsKeySet
<1>2. p = [m \in 1 .. n |-> <<to_string(o[m]), to_string(e[o[m]])>>]
  <2>1. DOMAIN o = 1 .. n
    BY <1>1
  <2>2. p = [m \in DOMAIN o |-> <<to_string(o[m]), to_string(e[o[m]])>>]
    BY DEF print
  <2>. QED
    BY <2>1, <2>2
<1>3. ASSUME NEW m \in 1 .. n
      PROVE  p[m] \in Texts /\ KeyOf(p[m]) = o[m] /\ ValueOf(p[m]) = e[o[m]]
  <2>1. o[m] \in DOMAIN e
    BY <1>1
  <2>2. o[m] \in Vectors(wI) /\ e[o[m]] \in Vectors(wV) /\ wI \in Nat /\ wV \in Nat
    BY <2>1, BitHashAssumption, KeyValueSetAssumption
       DEF IsKeySet, Vectors, AbstractKeys, Inputs, Trits
  <2>3. p[m] = <<to_string(o[m]), to_string(e[o[m]])>>
    BY <1>2
  <2>4. p[m][1] = to_string(o[m]) /\ p[m][2] = to_string(e[o[m]])
    BY <2>3
  <2>5. /\ parse_bit_vector(to_string(o[m]), wI) = o[m] /\ to_string(o[m]) \in Seq(Trits)
        /\ parse_bit_vector(to_string(e[o[m]]), wV) = e[o[m]] /\ to_string(e[o[m]]) \in Seq(Trits)
    BY <2>2, PrintedParses
  <2>. QED
    BY <2>3, <2>4, <2>5 DEF Texts, KeyOf, ValueOf
<1>4. DOMAIN p = 1 .. n
  BY <1>2
<1>5. p \in Seq(Texts) /\ Len(p) = n
  <2>1. p \in [1 .. n -> Texts]
    BY <1>2, <1>3
  <2>. HIDE DEF p
  <2>. QED
    BY <1>1, <2>1
<1>. HIDE DEF n, o, p
<1>6. \A m \in 1 .. n : o[m] \in DOMAIN e
  BY <1>1
<1>. QED
  BY <1>1, <1>3, <1>4, <1>5, <1>6 DEF n, p

\* The lines of a text give these keys.
Named(ls) == {KeyOf(ls[m]) : m \in DOMAIN ls}

\* The first line for a key.
IsFirst(ls, x, m) == KeyOf(ls[m]) = x /\ \A k \in 1 .. m-1 : KeyOf(ls[k]) # x

\* The key set on its way, for any entries and any lines.
Flight(e, ls) ==
    [x \in DOMAIN e \cup Named(ls) |->
        IF x \in DOMAIN e THEN e[x]
        ELSE ValueOf(ls[CHOOSE m \in DOMAIN ls : IsFirst(ls, x, m)])]

\* It is what the specification calls InFlight.
LEMMA InFlightIs == InFlight = Flight(entries, lines)
BY DEF InFlight, Flight, LineKeys, Named, IsFirst, KeyOf, ValueOf

\* A key of a text has one first line.
LEMMA FirstExists ==
    ASSUME NEW ls \in Seq(Texts), NEW x \in Named(ls)
    PROVE  /\ \E m \in DOMAIN ls : IsFirst(ls, x, m)
           /\ \A k, m \in DOMAIN ls : IsFirst(ls, x, k) /\ IsFirst(ls, x, m) => k = m
<1>. DEFINE M == {m \in DOMAIN ls : KeyOf(ls[m]) = x}
<1>1. DOMAIN ls = 1 .. Len(ls) /\ Len(ls) \in Nat
  OBVIOUS
<1>2. M \in SUBSET Nat /\ M # {}
  BY <1>1 DEF Named
<1>3. PICK m \in M : \A k \in M : m <= k
  <2>. HIDE DEF M
  <2>. QED
    BY <1>2, LeastNatural
<1>4. IsFirst(ls, x, m) /\ m \in DOMAIN ls
  BY <1>1, <1>3 DEF IsFirst
<1>5. ASSUME NEW j \in DOMAIN ls, NEW k \in DOMAIN ls, IsFirst(ls, x, j), IsFirst(ls, x, k)
      PROVE  j = k
  BY <1>1, <1>5 DEF IsFirst
<1>. QED
  BY <1>4, <1>5

\* Printing a key set puts it on its way as it is.
LEMMA FlightPrinted ==
    ASSUME NEW e, IsKeySet(e)
    PROVE  Flight(NoEntries, print(e)) = e
<1>. DEFINE p == print(e)
<1>1. /\ p \in Seq(Texts)
      /\ \A m \in DOMAIN p : KeyOf(p[m]) \in DOMAIN e /\ ValueOf(p[m]) = e[KeyOf(p[m])]
      /\ \A x \in DOMAIN e : \E m \in DOMAIN p : KeyOf(p[m]) = x
  BY Printout
<1>. HIDE DEF p
<1>2. DOMAIN NoEntries = {}
  BY DEF NoEntries
<1>3. Named(p) = DOMAIN e
  BY <1>1 DEF Named
<1>4. ASSUME NEW x \in DOMAIN e
      PROVE  ValueOf(p[CHOOSE m \in DOMAIN p : IsFirst(p, x, m)]) = e[x]
  <2>1. \E m \in DOMAIN p : IsFirst(p, x, m)
    BY <1>1, <1>3, FirstExists
  <2>2. PICK m \in DOMAIN p : IsFirst(p, x, m) /\ m = CHOOSE k \in DOMAIN p : IsFirst(p, x, k)
    BY <2>1
  <2>. QED
    BY <1>1, <2>2 DEF IsFirst
<1>5. Flight(NoEntries, p) =
         [x \in DOMAIN e |-> ValueOf(p[CHOOSE m \in DOMAIN p : IsFirst(p, x, m)])]
  BY <1>2, <1>3 DEF Flight
<1>6. Flight(NoEntries, p) = [x \in DOMAIN e |-> e[x]]
  BY <1>4, <1>5
<1>. QED
  BY <1>6 DEF p, IsKeySet

\* With no lines left, all keys have arrived.
LEMMA FlightArrived ==
    ASSUME NEW e, IsKeySet(e)
    PROVE  Flight(e, <<>>) = e
<1>1. Named(<<>>) = {}
  BY DEF Named
<1>2. Flight(e, <<>>) = [x \in DOMAIN e |-> e[x]]
  BY <1>1 DEF Flight
<1>. QED
  BY <1>2 DEF IsKeySet

\* Parsing a line with a new key moves the key from the text to the entries.
LEMMA FlightParsed ==
    ASSUME NEW e, NEW ls \in Seq(Texts), ls # <<>>, KeyOf(Head(ls)) \notin DOMAIN e
    PROVE  Flight(With(e, KeyOf(Head(ls)), ValueOf(Head(ls))), Tail(ls)) = Flight(e, ls)
<1>. DEFINE h == KeyOf(Head(ls))
            v == ValueOf(Head(ls))
            f == With(e, h, v)
            tl == Tail(ls)
<1>1. /\ Head(ls) = ls[1] /\ tl \in Seq(Texts)
      /\ Len(ls) \in Nat \ {0} /\ Len(tl) = Len(ls) - 1
      /\ DOMAIN ls = 1 .. Len(ls) /\ DOMAIN tl = 1 .. Len(ls)-1
      /\ \A m \in DOMAIN tl : tl[m] = ls[m+1]
  OBVIOUS
<1>. HIDE DEF tl
<1>2. DOMAIN f = DOMAIN e \cup {h}
  BY DEF With
<1>3. DOMAIN f \cup Named(tl) = DOMAIN e \cup Named(ls)
  <2>1. h \in Named(ls)
    BY <1>1 DEF Named
  <2>2. Named(tl) \in SUBSET Named(ls)
    <3>1. \A m \in DOMAIN tl : m + 1 \in DOMAIN ls
      BY <1>1
    <3>. QED
      BY <1>1, <3>1 DEF Named
  <2>3. ASSUME NEW m \in DOMAIN ls, KeyOf(ls[m]) # h
        PROVE  KeyOf(ls[m]) \in Named(tl)
    <3>1. m - 1 \in DOMAIN tl /\ ls[m] = tl[m-1]
      BY <1>1, <2>3
    <3>. QED
      BY <3>1 DEF Named
  <2>. HIDE DEF h, f
  <2>. QED
    BY <1>2, <2>1, <2>2, <2>3 DEF Named
<1>4. ASSUME NEW x \in DOMAIN e \cup Named(ls)
      PROVE  (IF x \in DOMAIN f THEN f[x]
              ELSE ValueOf(tl[CHOOSE m \in DOMAIN tl : IsFirst(tl, x, m)]))
             = (IF x \in DOMAIN e THEN e[x]
                ELSE ValueOf(ls[CHOOSE m \in DOMAIN ls : IsFirst(ls, x, m)]))
  <2>1. CASE x \in DOMAIN e
    BY <1>2, <2>1 DEF With
  <2>2. CASE x = h
    <3>1. x \notin DOMAIN e /\ x \in DOMAIN f /\ f[x] = v
      BY <1>2, <2>2 DEF With
    <3>2. x \in Named(ls) /\ 1 \in DOMAIN ls /\ IsFirst(ls, x, 1)
      BY <1>1, <2>2 DEF Named, IsFirst
    <3>3. (CHOOSE m \in DOMAIN ls : IsFirst(ls, x, m)) = 1
      BY <3>2, FirstExists
    <3>. QED
      BY <1>1, <3>1, <3>3
  <2>3. CASE x \notin DOMAIN e /\ x # h
    <3>1. x \notin DOMAIN f /\ x \in Named(tl) /\ x \in Named(ls)
      BY <1>2, <1>3, <2>3
    <3>2. PICK m \in DOMAIN tl : IsFirst(tl, x, m)
      BY <1>1, <3>1, FirstExists
    <3>3. m + 1 \in DOMAIN ls /\ ls[m+1] = tl[m]
      BY <1>1
    <3>4. ASSUME NEW k \in 1 .. (m+1)-1
          PROVE  KeyOf(ls[k]) # x
      <4>1. CASE k = 1
        BY <1>1, <2>3, <4>1
      <4>2. CASE k # 1
        <5>1. k - 1 \in 1 .. m-1 /\ k - 1 \in DOMAIN tl /\ (k - 1) + 1 = k
          BY <1>1, <4>2
        <5>. QED
          BY <1>1, <3>2, <5>1 DEF IsFirst
      <4>. QED
        BY <4>1, <4>2
    <3>5. IsFirst(ls, x, m+1)
      BY <3>2, <3>3, <3>4 DEF IsFirst
    <3>6. (CHOOSE k \in DOMAIN tl : IsFirst(tl, x, k)) = m
      BY <1>1, <3>1, <3>2, FirstExists
    <3>7. (CHOOSE k \in DOMAIN ls : IsFirst(ls, x, k)) = m + 1
      BY <3>1, <3>3, <3>5, FirstExists
    <3>8. ValueOf(tl[CHOOSE k \in DOMAIN tl : IsFirst(tl, x, k)]) = ValueOf(ls[m+1])
      BY <3>3, <3>6
    <3>9. ValueOf(ls[CHOOSE k \in DOMAIN ls : IsFirst(ls, x, k)]) = ValueOf(ls[m+1])
      BY <3>7
    <3>. HIDE DEF f
    <3>. QED
      BY <2>3, <3>1, <3>8, <3>9, Zenon
  <2>. QED
    BY <2>1, <2>2, <2>3
<1>. DEFINE In(x)  == IF x \in DOMAIN f THEN f[x]
                      ELSE ValueOf(tl[CHOOSE m \in DOMAIN tl : IsFirst(tl, x, m)])
            Out(x) == IF x \in DOMAIN e THEN e[x]
                      ELSE ValueOf(ls[CHOOSE m \in DOMAIN ls : IsFirst(ls, x, m)])
<1>. HIDE DEF f
<1>5. Flight(f, tl) = [x \in DOMAIN f \cup Named(tl) |-> In(x)]
  BY Zenon DEF Flight
<1>6. Flight(e, ls) = [x \in DOMAIN e \cup Named(ls) |-> Out(x)]
  BY Zenon DEF Flight
<1>7. \A x \in DOMAIN e \cup Named(ls) : In(x) = Out(x)
  BY <1>4, Zenon
<1>. HIDE DEF In, Out
<1>8. Flight(f, tl) = Flight(e, ls)
  BY <1>3, <1>5, <1>6, <1>7
<1>. QED
  BY <1>8 DEF f, tl

-----------------------------------------------------------------------------
(***************************************************************************)
(* A sum over a finite set is the number of places that its members have,  *)
(* each as many as its value: this satisfies the recursion that defines    *)
(* the sum, and nothing else does.                                         *)
(***************************************************************************)
\* The member that the recursion takes out first.
Some(s) == CHOOSE c \in s : TRUE

\* The function that the recursion of FoldSet defines, for sums of g.
IsSum(f, g, S) ==
    f = [s \in SUBSET S |-> IF s = {} THEN 0 ELSE g[Some(s)] + f[s \ {Some(s)}]]

\* The sum of g over S, as MapThenSumSet gives it.
Sum(g, S) == (CHOOSE f : IsSum(f, g, S))[S]

\* As many pairs for each member of s as g says.
Places(g, s) == {p \in s \X Nat : p[2] < g[p[1]]}

\* The places of one member, apart from those of the others.
LEMMA PlacesOfOne ==
    ASSUME NEW g, NEW s, NEW c \in s, g[c] \in Nat
    PROVE  /\ IsFiniteSet(Places(g, {c})) /\ Cardinality(Places(g, {c})) = g[c]
           /\ Places(g, s) = Places(g, {c}) \cup Places(g, s \ {c})
           /\ Places(g, {c}) \cap Places(g, s \ {c}) = {}
<1>. DEFINE R == 0 .. g[c]-1
<1>1. Places(g, {c}) = {c} \X R
  <2>1. ASSUME NEW p \in Places(g, {c})
        PROVE  p \in {c} \X R
    <3>1. p \in {c} \X Nat /\ p[2] < g[p[1]]
      BY DEF Places
    <3>2. p = <<c, p[2]>> /\ p[1] = c /\ p[2] \in Nat
      BY <3>1
    <3>3. p[2] \in R
      BY <3>1, <3>2
    <3>. QED
      BY <3>2, <3>3
  <2>2. ASSUME NEW k \in R
        PROVE  <<c, k>> \in Places(g, {c})
    BY DEF Places
  <2>. HIDE DEF R
  <2>3. \A p \in {c} \X R : p = <<c, p[2]>> /\ p[2] \in R
    OBVIOUS
  <2>. QED
    BY <2>1, <2>2, <2>3
<1>2. IsFiniteSet(R) /\ Cardinality(R) = g[c]
  <2>1. g[c] - 1 \in Int /\ 0 \in Int
    OBVIOUS
  <2>2. /\ IsFiniteSet(R)
        /\ Cardinality(R) = IF 0 > g[c] - 1 THEN 0 ELSE (g[c] - 1) - 0 + 1
    BY <2>1, FS_Interval, Zenon
  <2>. QED
    BY <2>2
<1>3. IsFiniteSet({c}) /\ Cardinality({c}) = 1
  BY FS_Singleton
<1>4. IsFiniteSet({c} \X R) /\ Cardinality({c} \X R) = 1 * g[c]
  <2>. HIDE DEF R
  <2>. QED
    BY <1>2, <1>3, FS_Product
<1>5. Places(g, s) = Places(g, {c}) \cup Places(g, s \ {c})
  BY DEF Places
<1>6. Places(g, {c}) \cap Places(g, s \ {c}) = {}
  BY DEF Places
<1>7. Cardinality(Places(g, {c})) = g[c] /\ IsFiniteSet(Places(g, {c}))
  <2>1. 1 * g[c] = g[c]
    OBVIOUS
  <2>. HIDE DEF R
  <2>. QED
    BY <1>1, <1>4, <2>1, Zenon
<1>. QED
  BY <1>5, <1>6, <1>7

\* Finitely many members have finitely many places.
LEMMA PlacesFinite ==
    ASSUME NEW S, IsFiniteSet(S), NEW g, \A x \in S : g[x] \in Nat
    PROVE  \A s \in SUBSET S : IsFiniteSet(Places(g, s)) /\ Cardinality(Places(g, s)) \in Nat
<1>. DEFINE Bad == {s \in SUBSET S : ~ IsFiniteSet(Places(g, s))}
<1>1. Bad = {}
  <2>. SUFFICES ASSUME Bad # {} PROVE FALSE
    OBVIOUS
  <2>1. PICK s \in Bad : \A u \in SUBSET s : u # s => u \notin Bad
    <3>1. Bad \in SUBSET (SUBSET S)
      OBVIOUS
    <3>. HIDE DEF Bad
    <3>. QED
      BY <3>1, SmallestSubset
  <2>2. CASE s = {}
    <3>1. Places(g, s) = {}
      BY <2>2 DEF Places
    <3>. QED
      BY <2>1, <3>1, FS_EmptySet
  <2>3. CASE s # {}
    <3>1. PICK c \in s : TRUE
      BY <2>3
    <3>2. s \ {c} \in SUBSET S /\ s \ {c} # s /\ g[c] \in Nat
      BY <2>1, <3>1
    <3>3. IsFiniteSet(Places(g, s \ {c}))
      BY <2>1, <3>2
    <3>. HIDE DEF Bad
    <3>4. IsFiniteSet(Places(g, {c})) /\ Places(g, s) = Places(g, {c}) \cup Places(g, s \ {c})
      BY <3>1, <3>2, PlacesOfOne, ZenonT(40)
    <3>5. IsFiniteSet(Places(g, {c}) \cup Places(g, s \ {c}))
      BY <3>3, <3>4, FS_Union
    <3>. QED
      BY <2>1, <3>4, <3>5 DEF Bad
  <2>. QED
    BY <2>2, <2>3
<1>. QED
  BY <1>1, FS_CardinalityType

\* The numbers of places satisfy the recursion.
LEMMA PlacesAreASum ==
    ASSUME NEW S, IsFiniteSet(S), NEW g, \A x \in S : g[x] \in Nat
    PROVE  IsSum([s \in SUBSET S |-> Cardinality(Places(g, s))], g, S)
<1>. DEFINE Parts == [s \in SUBSET S |-> Cardinality(Places(g, s))]
<1>1. ASSUME NEW s \in SUBSET S
      PROVE  Parts[s] = IF s = {} THEN 0 ELSE g[Some(s)] + Parts[s \ {Some(s)}]
  <2>1. CASE s = {}
    <3>1. Places(g, s) = {}
      BY <2>1 DEF Places
    <3>. QED
      BY <2>1, <3>1, FS_EmptySet
  <2>2. CASE s # {}
    <3>. DEFINE c == Some(s)
    <3>1. c \in s /\ g[c] \in Nat
      BY <2>2 DEF Some
    <3>2. s \ {c} \in SUBSET S /\ {c} \in SUBSET S
      BY <3>1
    <3>. HIDE DEF c
    <3>3. /\ IsFiniteSet(Places(g, {c})) /\ IsFiniteSet(Places(g, s \ {c}))
          /\ Cardinality(Places(g, {c})) \in Nat /\ Cardinality(Places(g, s \ {c})) \in Nat
      BY <3>2, PlacesFinite
    <3>4. /\ Cardinality(Places(g, {c})) = g[c]
          /\ Places(g, s) = Places(g, {c}) \cup Places(g, s \ {c})
          /\ Places(g, {c}) \cap Places(g, s \ {c}) = {}
      BY <3>1, PlacesOfOne, ZenonT(40)
    <3>. DEFINE A == Places(g, {c})
                B == Places(g, s \ {c})
    <3>. HIDE DEF A, B
    <3>5. Cardinality(A \cup B) = Cardinality(A) + Cardinality(B) - Cardinality(A \cap B)
      BY <3>3, FS_Union DEF A, B
    <3>6. Cardinality(Places(g, s)) = g[c] + Cardinality(B)
      <4>1. A \cap B = {} /\ Places(g, s) = A \cup B /\ Cardinality(A) = g[c]
        BY <3>4 DEF A, B
      <4>2. Cardinality(A) \in Nat /\ Cardinality(B) \in Nat
        BY <3>3 DEF A, B
      <4>3. Cardinality({}) = 0
        BY FS_EmptySet
      <4>4. Cardinality(A \cup B) = Cardinality(A) + Cardinality(B) - 0
        BY <3>5, <4>1, <4>3, Zenon
      <4>5. Cardinality(A \cup B) = g[c] + Cardinality(B)
        BY <4>1, <4>2, <4>4
      <4>. QED
        BY <4>1, <4>5, Zenon
    <3>. QED
      BY <2>2, <3>2, <3>6 DEF c, B
  <2>. QED
    BY <2>1, <2>2
<1>2. Parts = [s \in SUBSET S |-> Parts[s]]
  OBVIOUS
<1>. HIDE DEF Parts
<1>3. IsSum(Parts, g, S)
  BY <1>1, <1>2 DEF IsSum
<1>. QED
  BY <1>3 DEF Parts

\* Nothing else does.
LEMMA SumIsUnique ==
    ASSUME NEW S, NEW g, NEW f, NEW h, IsSum(f, g, S), IsSum(h, g, S), IsFiniteSet(S)
    PROVE  f[S] = h[S]
<1>. DEFINE Bad == {s \in SUBSET S : f[s] # h[s]}
<1>1. \A s \in SUBSET S : f[s] = IF s = {} THEN 0 ELSE g[Some(s)] + f[s \ {Some(s)}]
  BY DEF IsSum
<1>2. \A s \in SUBSET S : h[s] = IF s = {} THEN 0 ELSE g[Some(s)] + h[s \ {Some(s)}]
  BY DEF IsSum
<1>3. Bad = {}
  <2>. SUFFICES ASSUME Bad # {} PROVE FALSE
    OBVIOUS
  <2>1. PICK s \in Bad : \A u \in SUBSET s : u # s => u \notin Bad
    <3>1. Bad \in SUBSET (SUBSET S)
      OBVIOUS
    <3>. HIDE DEF Bad
    <3>. QED
      BY <3>1, SmallestSubset
  <2>2. s \in SUBSET S /\ f[s] # h[s]
    BY <2>1
  <2>3. s # {}
    BY <1>1, <1>2, <2>2
  <2>4. Some(s) \in s
    BY <2>3 DEF Some
  <2>5. s \ {Some(s)} \in SUBSET S /\ s \ {Some(s)} # s
    BY <2>2, <2>4
  <2>6. f[s \ {Some(s)}] = h[s \ {Some(s)}]
    BY <2>1, <2>5
  <2>. QED
    BY <1>1, <1>2, <2>2, <2>3, <2>6
<1>. QED
  BY <1>3

\* The sum counts the places.
LEMMA SumIsPlaces ==
    ASSUME NEW S, IsFiniteSet(S), NEW g, \A x \in S : g[x] \in Nat
    PROVE  Sum(g, S) = Cardinality(Places(g, S))
<1>. DEFINE Parts == [s \in SUBSET S |-> Cardinality(Places(g, s))]
<1>1. IsSum(Parts, g, S)
  BY PlacesAreASum
<1>2. Parts[S] = Cardinality(Places(g, S))
  OBVIOUS
<1>. HIDE DEF Parts
<1>3. IsSum(CHOOSE f : IsSum(f, g, S), g, S)
  BY <1>1
<1>4. Sum(g, S) = Parts[S]
  BY <1>1, <1>3, SumIsUnique DEF Sum
<1>. QED
  BY <1>2, <1>4

-----------------------------------------------------------------------------
(* The generator counts at least one concrete key for every key drawn.      *)

\* There are finitely many concrete keys: each is the set of its ones.
LEMMA ConcreteFinite == IsFiniteSet(ConcreteKeys)
<1>. DEFINE Ones == [x \in ConcreteKeys |-> {i \in Inputs : x[i] = 1}]
<1>1. IsFiniteSet(Inputs)
  BY FS_Interval, BitHashAssumption DEF Inputs
<1>2. Ones \in Injection(ConcreteKeys, SUBSET Inputs)
  <2>1. ASSUME NEW x \in ConcreteKeys, NEW y \in ConcreteKeys, Ones[x] = Ones[y]
        PROVE  x = y
    <3>1. ASSUME NEW i \in Inputs PROVE x[i] = y[i]
      BY <2>1 DEF ConcreteKeys
    <3>. QED
      BY <3>1 DEF ConcreteKeys
  <2>2. Ones \in [ConcreteKeys -> SUBSET Inputs]
    OBVIOUS
  <2>. HIDE DEF Ones
  <2>. QED
    BY <2>1, <2>2 DEF Injection, IsInjective
<1>3. IsFiniteSet(SUBSET Inputs)
  BY <1>1, FS_SUBSET
<1>. QED
  BY <1>2, <1>3, FS_Injection

\* A key stands for at least one concrete key, and for finitely many.
LEMMA VariantsCounted ==
    ASSUME NEW x \in AbstractKeys
    PROVE  NumVariants[x] \in Nat \ {0}
<1>1. variants(x) \in SUBSET ConcreteKeys /\ FirstVariant(x) \in variants(x)
  BY DEF variants, FirstVariant, AbstractKeys, ConcreteKeys
<1>2. IsFiniteSet(variants(x))
  BY <1>1, ConcreteFinite, FS_Subset
<1>3. Cardinality(variants(x)) \in Nat /\ Cardinality(variants(x)) # 0
  BY <1>1, <1>2, FS_CardinalityType, FS_EmptySet
<1>. QED
  BY <1>3 DEF NumVariants

\* numKeys is the sum of what the drawn keys stand for.
LEMMA CoveredIsSum == Covered = Sum(NumVariants, DOMAIN entries)
BY DEF Covered, MapThenSumSet, MapThenFoldSet, Sum, IsSum, Some

\* numKeys is a number, and no less than the number of keys.
LEMMA CoveredCounts ==
    ASSUME IsKeySet(entries)
    PROVE  Covered \in Nat /\ Cardinality(DOMAIN entries) <= Covered
<1>. DEFINE D == DOMAIN entries
            P == Places(NumVariants, D)
            at == [x \in D |-> <<x, 0>>]
<1>1. IsFiniteSet(D) /\ D \in SUBSET AbstractKeys
  BY DEF IsKeySet
<1>2. \A x \in D : NumVariants[x] \in Nat \ {0}
  BY <1>1, VariantsCounted
<1>3. Covered = Cardinality(P) /\ IsFiniteSet(P) /\ Cardinality(P) \in Nat
  BY <1>1, <1>2, CoveredIsSum, SumIsPlaces, PlacesFinite
<1>4. at \in Injection(D, P)
  <2>1. at \in [D -> P]
    BY <1>2 DEF Places
  <2>2. \A x, y \in D : at[x] = at[y] => x = y
    OBVIOUS
  <2>. HIDE DEF at, D, P
  <2>. QED
    BY <2>1, <2>2 DEF Injection, IsInjective
<1>5. Cardinality(D) <= Cardinality(P)
  <2>. HIDE DEF at, D, P
  <2>. QED
    BY <1>3, <1>4, FS_Injection
<1>. QED
  BY <1>3, <1>5

\* There is more room in a wider hash.
LEMMA PowerMonotone ==
    ASSUME NEW m \in Nat, NEW n \in Nat, m <= n
    PROVE  2^m \in Nat /\ 2^n \in Nat /\ 2^m <= 2^n
<1>1. /\ IsFiniteSet(1 .. m) /\ Cardinality(1 .. m) = m
      /\ IsFiniteSet(1 .. n) /\ Cardinality(1 .. n) = n
  BY FS_Interval
<1>2. IsFiniteSet(SUBSET (1 .. m)) /\ Cardinality(SUBSET (1 .. m)) = 2^m
  BY <1>1, FS_SUBSET
<1>3. IsFiniteSet(SUBSET (1 .. n)) /\ Cardinality(SUBSET (1 .. n)) = 2^n
  BY <1>1, FS_SUBSET
<1>4. SUBSET (1 .. m) \in SUBSET (SUBSET (1 .. n))
  OBVIOUS
<1>5. Cardinality(SUBSET (1 .. m)) <= Cardinality(SUBSET (1 .. n))
  BY <1>3, <1>4, FS_Subset
<1>. QED
  BY <1>2, <1>3, <1>5, FS_CardinalityType

-----------------------------------------------------------------------------
(* The invariant of the chain.                                              *)

\* Where a tool has a key set that it has checked, and no text left to parse.
Checked == {"draw", "solve", "write", "cpp_test", "written", "passed", "failed"}

\* A set is rejected for a concrete key that its text gives to two lines.
Doubled == \/ Ambiguous(InFlight)
           \/ Cardinality(DOMAIN InFlight) < Cardinality(DOMAIN entries) + Len(lines)

\* What is true at every stage: the texts are lines and the entries a key set; a
\* tool at work has parsed its whole text and found no ambiguity; the generator
\* has no more keys than it was asked to cover; a rejection has its reason.
ChainInv ==
    /\ lines \in Seq(Texts) /\ IsKeySet(entries) /\ target \in Nat
    /\ stage \in Checked => lines = <<>> /\ ~ Ambiguous(entries)
    /\ stage = "draw" => target <= 2^wO /\ Cardinality(DOMAIN entries) <= target
    /\ stage = "rejected" => Doubled

\* No step loses a key that is on its way, nor gives it another value.
Kept == \/ InFlight' = InFlight
        \/ stage = "draw" /\ \A x \in DOMAIN InFlight :
              x \in DOMAIN InFlight' /\ InFlight'[x] = InFlight[x]

\* setupProperties() finds what is ambiguous, and nothing else.
LEMMA AmbiguousIsFound ==
    ASSUME NEW e, IsKeySet(e)
    PROVE  Overlapping(e) <=> Ambiguous(e)
BY OverlapIsCommon DEF Overlapping, Ambiguous, IsKeySet

\* The same after a step.
LEMMA InFlightPrimed == InFlight' = Flight(entries', lines')
BY DEF InFlight, Flight, LineKeys, Named, IsFirst, KeyOf, ValueOf

\* A tool starts with a key set, the empty one.
LEMMA NoEntriesKeySet == IsKeySet(NoEntries)
BY FS_EmptySet DEF IsKeySet, NoEntries

\* A key set with one more key.
LEMMA WithKeySet ==
    ASSUME NEW e, IsKeySet(e), NEW x \in AbstractKeys, NEW v \in Vectors(wV)
    PROVE  /\ IsKeySet(With(e, x, v))
           /\ DOMAIN With(e, x, v) = DOMAIN e \cup {x}
           /\ x \notin DOMAIN e =>
                /\ Cardinality(DOMAIN With(e, x, v)) = Cardinality(DOMAIN e) + 1
                /\ \A y \in DOMAIN e : With(e, x, v)[y] = e[y]
<1>1. DOMAIN With(e, x, v) = DOMAIN e \cup {x}
  BY DEF With
<1>2. IsFiniteSet(DOMAIN e)
  BY DEF IsKeySet
<1>3. /\ IsFiniteSet(DOMAIN e \cup {x})
      /\ x \notin DOMAIN e => Cardinality(DOMAIN e \cup {x}) = Cardinality(DOMAIN e) + 1
  BY <1>2, FS_AddElement
<1>4. With(e, x, v) \in [DOMAIN e \cup {x} -> Vectors(wV)]
  <2>1. \A y \in DOMAIN e : e[y] \in Vectors(wV)
    BY DEF IsKeySet
  <2>. QED
    BY <2>1 DEF With
<1>5. DOMAIN e \cup {x} \in SUBSET AbstractKeys
  BY DEF IsKeySet
<1>6. x \notin DOMAIN e => \A y \in DOMAIN e : With(e, x, v)[y] = e[y]
  BY DEF With
<1>. QED
  BY <1>1, <1>3, <1>4, <1>5, <1>6 DEF IsKeySet

\* A second line for a key: there are fewer keys than lines.
LEMMA RepeatedKey ==
    ASSUME IsKeySet(entries), lines \in Seq(Texts), lines # <<>>,
           KeyOf(Head(lines)) \in DOMAIN entries
    PROVE  Cardinality(DOMAIN InFlight) < Cardinality(DOMAIN entries) + Len(lines)
<1>. DEFINE L == Len(lines)
            N == {KeyOf(lines[m]) : m \in 2 .. L}
            f == [m \in 2 .. L |-> KeyOf(lines[m])]
            D == DOMAIN entries
<1>1. L \in Nat \ {0} /\ DOMAIN lines = 1 .. L /\ Head(lines) = lines[1]
  OBVIOUS
<1>2. DOMAIN InFlight = D \cup N
  <2>1. DOMAIN InFlight = D \cup Named(lines)
    BY InFlightIs DEF Flight
  <2>2. Named(lines) = N \cup {KeyOf(lines[1])}
    <3>1. 1 .. L = (2 .. L) \cup {1}
      BY <1>1
    <3>. HIDE DEF L
    <3>. QED
      BY <1>1, <3>1 DEF Named
  <2>. HIDE DEF L, N, D
  <2>. QED
    BY <1>1, <2>1, <2>2 DEF D
<1>3. IsFiniteSet(2 .. L) /\ Cardinality(2 .. L) = L - 1
  <2>1. IsFiniteSet(2 .. L) /\ Cardinality(2 .. L) = IF 2 > L THEN 0 ELSE L - 2 + 1
    BY <1>1, FS_Interval
  <2>. QED
    BY <1>1, <2>1
<1>4. f \in Surjection(2 .. L, N)
  BY DEF Surjection
<1>5. IsFiniteSet(N) /\ Cardinality(N) <= L - 1
  <2>. HIDE DEF f, N, L
  <2>. QED
    BY <1>3, <1>4, FS_Surjection
<1>6. IsFiniteSet(D) /\ Cardinality(D) \in Nat
  BY FS_CardinalityType DEF IsKeySet
<1>7. Cardinality(D \cup N) <= Cardinality(D) + Cardinality(N)
  <2>. HIDE DEF D, N
  <2>1. Cardinality(D \cup N) = Cardinality(D) + Cardinality(N) - Cardinality(D \cap N)
    BY <1>5, <1>6, FS_Union
  <2>2. IsFiniteSet(D \cap N)
    BY <1>6, FS_Intersection
  <2>3. Cardinality(D \cap N) \in Nat /\ Cardinality(N) \in Nat
    BY <1>5, <2>2, FS_CardinalityType
  <2>. QED
    BY <1>6, <2>1, <2>3
<1>8. Cardinality(N) \in Nat /\ Cardinality(D \cup N) \in Nat
  <2>. HIDE DEF D, N
  <2>. QED
    BY <1>5, <1>6, FS_CardinalityType, FS_Union
<1>. HIDE DEF N, f
<1>. QED
  BY <1>1, <1>2, <1>5, <1>6, <1>7, <1>8

\* The invariant holds when the first tool starts.
LEMMA ChainInitInv == ChainInit => ChainInv
<1>. SUFFICES ASSUME ChainInit
             PROVE  ChainInv
  OBVIOUS
<1>1. entries = NoEntries /\ IsKeySet(entries) /\ DOMAIN entries = {}
  BY NoEntriesKeySet DEF ChainInit, NoEntries
<1>2. ~ Ambiguous(entries) /\ Cardinality(DOMAIN entries) = 0
  BY <1>1, FS_EmptySet DEF Ambiguous
<1>3. CASE stage = "draw"
  <2>. DEFINE w == IF wO < wI THEN wO ELSE wI
  <2>1. wO \in Nat /\ w \in Nat /\ w <= wO
    BY BitHashAssumption
  <2>2. 2^w \in Nat /\ 2^wO \in Nat /\ 2^w <= 2^wO
    BY <2>1, PowerMonotone
  <2>3. target \in 0 .. 2^w /\ lines = <<>>
    BY <1>3 DEF ChainInit
  <2>4. lines \in Seq(Texts)
    BY <2>3
  <2>. HIDE DEF w
  <2>. QED
    BY <1>1, <1>2, <1>3, <2>2, <2>3, <2>4 DEF ChainInv, Checked
<1>4. CASE stage = "parse"
  <2>1. target = 0 /\ lines \in UserLines
    BY <1>4 DEF ChainInit
  <2>2. lines \in Seq(Texts)
    BY <2>1, WriteFpgaHashAssumption DEF Texts, Trits
  <2>. QED
    BY <1>1, <1>4, <2>1, <2>2 DEF ChainInv, Checked
<1>. QED
  BY <1>3, <1>4 DEF ChainInit

\* A key is drawn.
LEMMA DrawKeeps ==
    ASSUME ChainInv, NEW x \in AbstractKeys, Draw(x)
    PROVE  ChainInv' /\ Kept
<1>1. /\ stage = "draw" /\ stage' = "draw" /\ lines = <<>> /\ lines' = <<>> /\ target' = target
      /\ IsKeySet(entries) /\ ~ Ambiguous(entries) /\ target \in Nat /\ target <= 2^wO
      /\ Cardinality(DOMAIN entries) <= target /\ Covered < target
  BY DEF Draw, ChainInv, Checked
<1>2. InFlight = entries
  BY <1>1, InFlightIs, FlightArrived
<1>3. CASE entries' = entries
  <2>1. InFlight' = InFlight
    BY <1>1, <1>3, InFlightIs, InFlightPrimed
  <2>2. Ambiguous(entries)' <=> Ambiguous(entries)
    BY <1>3 DEF Ambiguous
  <2>3. lines' \in Seq(Texts)
    BY <1>1
  <2>. QED
    BY <1>1, <1>3, <2>1, <2>2, <2>3 DEF ChainInv, Kept, Checked
<1>4. CASE \E v \in DrawnValues : /\ entries' = With(entries, x, v)
                                  /\ ~ \E y \in DOMAIN entries : overlaps(y, x)
  <2>1. PICK v \in DrawnValues : entries' = With(entries, x, v)
    BY <1>4
  <2>2. \A y \in DOMAIN entries : ~ overlaps(y, x)
    BY <1>4
  <2>3. v \in Vectors(wV)
    BY WriteFpgaHashAssumption DEF Values, Vectors, Trits
  <2>4. x \notin DOMAIN entries
    BY <2>2, OverlapIsCommon
  <2>5. /\ IsKeySet(entries') /\ DOMAIN entries' = DOMAIN entries \cup {x}
        /\ Cardinality(DOMAIN entries') = Cardinality(DOMAIN entries) + 1
        /\ \A y \in DOMAIN entries : entries'[y] = entries[y]
    BY <1>1, <2>1, <2>3, <2>4, WithKeySet
  <2>6. InFlight' = entries'
    BY <1>1, <2>5, InFlightPrimed, FlightArrived
  <2>7. Kept
    BY <1>1, <1>2, <2>5, <2>6 DEF Kept
  <2>8. Cardinality(DOMAIN entries') <= target'
    <3>1. Covered \in Nat /\ Cardinality(DOMAIN entries) <= Covered
      BY <1>1, CoveredCounts
    <3>2. Cardinality(DOMAIN entries) \in Nat
      BY <1>1, FS_CardinalityType DEF IsKeySet
    <3>. QED
      BY <1>1, <2>5, <3>1, <3>2
  <2>9. ~ Overlapping(entries')
    <3>1. ~ Overlapping(entries)
      BY <1>1, AmbiguousIsFound
    <3>2. \A y \in DOMAIN entries : ~ overlaps(x, y) /\ ~ overlaps(y, x)
      BY <1>1, <2>2, OverlapIsCommon DEF IsKeySet
    <3>. QED
      BY <2>5, <3>1, <3>2 DEF Overlapping
  <2>10. ~ Ambiguous(entries')
    BY <2>5, <2>9, AmbiguousIsFound
  <2>11. lines' \in Seq(Texts)
    BY <1>1
  <2>. QED
    BY <1>1, <2>5, <2>7, <2>8, <2>10, <2>11 DEF ChainInv, Checked, Ambiguous
<1>. QED
  BY <1>3, <1>4 DEF Draw

\* A tool prints its key set for the next one.
LEMMA PrintingKeeps ==
    ASSUME ChainInv, PrintKeys \/ Solve
    PROVE  ChainInv' /\ Kept
<1>1. stage \in {"draw", "solve"} /\ lines = <<>> /\ IsKeySet(entries) /\ ~ Ambiguous(entries)
  BY DEF PrintKeys, Solve, ChainInv, Checked
<1>2. ~ Overlapping(entries)
  BY <1>1, AmbiguousIsFound
<1>3. lines' = print(entries) /\ entries' = NoEntries /\ stage' \in {"parse", "read"}
  BY <1>2 DEF PrintKeys, Solve
<1>4. target' \in Nat
  BY DEF PrintKeys, Solve, ChainInv
<1>5. InFlight = entries /\ InFlight' = entries
  BY <1>1, <1>3, InFlightIs, InFlightPrimed, FlightArrived, FlightPrinted
<1>6. lines' \in Seq(Texts) /\ IsKeySet(entries')
  BY <1>1, <1>3, Printout, NoEntriesKeySet
<1>. QED
  BY <1>3, <1>4, <1>5, <1>6 DEF ChainInv, Kept, Checked

\* A line is parsed.
LEMMA ParseLineKeeps ==
    ASSUME ChainInv, ParseLine
    PROVE  ChainInv' /\ Kept
<1>. DEFINE h == KeyOf(Head(lines))
            v == ValueOf(Head(lines))
<1>1. /\ stage \in {"parse", "reparse"} /\ lines # <<>> /\ lines \in Seq(Texts)
      /\ IsKeySet(entries) /\ target' = target /\ target \in Nat
  BY DEF ParseLine, ChainInv
<1>2. Head(lines) \in Texts /\ Tail(lines) \in Seq(Texts)
  BY <1>1
<1>3. h \in AbstractKeys /\ v \in Vectors(wV)
  BY <1>2, LineType
<1>4. CASE h \in DOMAIN entries
  <2>1. stage' = "rejected" /\ lines' = lines /\ entries' = entries
    BY <1>4 DEF ParseLine, KeyOf
  <2>2. InFlight' = InFlight
    BY <2>1, InFlightIs, InFlightPrimed
  <2>3. Cardinality(DOMAIN InFlight) < Cardinality(DOMAIN entries) + Len(lines)
    BY <1>1, <1>4, RepeatedKey
  <2>4. Doubled'
    BY <2>1, <2>2, <2>3 DEF Doubled
  <2>. QED
    BY <1>1, <2>1, <2>2, <2>4 DEF ChainInv, Kept, Checked
<1>5. CASE h \notin DOMAIN entries
  <2>1. stage' = stage /\ lines' = Tail(lines) /\ entries' = With(entries, h, v)
    BY <1>5 DEF ParseLine, KeyOf, ValueOf
  <2>2. IsKeySet(entries')
    BY <1>1, <1>3, <2>1, WithKeySet
  <2>3. InFlight' = InFlight
    BY <1>1, <1>5, <2>1, FlightParsed, InFlightIs, InFlightPrimed
  <2>. QED
    BY <1>1, <1>2, <2>1, <2>2, <2>3 DEF ChainInv, Kept, Checked
<1>. QED
  BY <1>4, <1>5

\* A step that leaves the key set and its text alone.
LEMMA OthersKeep ==
    ASSUME ChainInv,
           \/ ParseEnd \/ GiveUp \/ Abort \/ ReadHash
           \/ WriteCpp \/ WriteVhdl \/ WriteNothing \/ CppTest \/ TestEnd
    PROVE  ChainInv' /\ Kept
<1>1. lines' = lines /\ entries' = entries /\ target' = target /\ stage # "draw"
  BY DEF ParseEnd, GiveUp, Abort, ReadHash, WriteCpp, WriteVhdl, WriteNothing, CppTest, TestEnd
<1>2. InFlight' = InFlight
  BY <1>1, InFlightIs, InFlightPrimed
<1>3. lines \in Seq(Texts) /\ IsKeySet(entries) /\ target \in Nat
  BY DEF ChainInv
<1>4. CASE ParseEnd
  <2>1. lines = <<>> /\ InFlight = entries
    BY <1>3, <1>4, InFlightIs, FlightArrived DEF ParseEnd
  <2>2. CASE Overlapping(entries)
    <3>1. stage' = "rejected" /\ Ambiguous(InFlight)
      BY <1>3, <1>4, <2>1, <2>2, AmbiguousIsFound DEF ParseEnd
    <3>2. Doubled'
      BY <1>2, <3>1 DEF Doubled, Ambiguous
    <3>. QED
      BY <1>1, <1>2, <1>3, <3>1, <3>2 DEF ChainInv, Kept, Checked
  <2>3. CASE ~ Overlapping(entries)
    <3>1. stage' \in {"solve", "write"} /\ ~ Ambiguous(entries)'
      BY <1>1, <1>3, <1>4, <2>3, AmbiguousIsFound DEF ParseEnd, Ambiguous
    <3>. QED
      BY <1>1, <1>2, <1>3, <2>1, <3>1 DEF ChainInv, Kept, Checked
  <2>. QED
    BY <2>2, <2>3
<1>5. CASE GiveUp \/ Abort \/ ReadHash
  <2>1. stage' \in {"unsolved", "aborted", "reparse"}
    BY <1>5 DEF GiveUp, Abort, ReadHash
  <2>. QED
    BY <1>1, <1>2, <1>3, <2>1 DEF ChainInv, Kept, Checked
<1>6. CASE WriteCpp \/ WriteVhdl \/ WriteNothing \/ CppTest \/ TestEnd
  <2>1. /\ stage \in Checked
        /\ stage' \in {"cpp_test", "written", "refused", "passed", "failed"}
    BY <1>6 DEF WriteCpp, WriteVhdl, WriteNothing, CppTest, TestEnd, Checked
  <2>2. lines = <<>> /\ ~ Ambiguous(entries)'
    BY <1>1, <2>1 DEF ChainInv, Ambiguous
  <2>. QED
    BY <1>1, <1>2, <1>3, <2>1, <2>2 DEF ChainInv, Kept, Checked
<1>. QED
  BY <1>4, <1>5, <1>6

\* Every step keeps the invariant and the key set.
LEMMA ChainKeeps == ChainInv /\ [ChainNext]_chainVars => ChainInv' /\ Kept
<1>1. ASSUME ChainInv, ChainNext
      PROVE  ChainInv' /\ Kept
  BY <1>1, DrawKeeps, PrintingKeeps, ParseLineKeeps, OthersKeep DEF ChainNext, Step
<1>2. ASSUME ChainInv, UNCHANGED chainVars
      PROVE  ChainInv' /\ Kept
  <2>1. lines' = lines /\ entries' = entries /\ target' = target /\ stage' = stage
    BY <1>2 DEF chainVars
  <2>2. InFlight' = InFlight
    BY <2>1, InFlightIs, InFlightPrimed
  <2>3. (Ambiguous(entries)' <=> Ambiguous(entries)) /\ (Doubled' <=> Doubled)
    BY <2>1, <2>2 DEF Ambiguous, Doubled
  <2>. QED
    BY <1>2, <2>1, <2>2, <2>3 DEF ChainInv, Kept
<1>. QED
  BY <1>1, <1>2

-----------------------------------------------------------------------------
(* Every reachable state of the chain of tools satisfies the invariant, for *)
(* all widths, tables, user texts and solutions.                            *)
THEOREM ChainInvariance == ChainSpec => []ChainInv
BY ChainInitInv, ChainKeeps, PTL DEF ChainSpec

(* Wherever a tool works with a key set, no concrete key has two entries    *)
(* (setupProperties() and the generator's overlap test see to it), the      *)
(* generator's keys fit the hashes, and a rejection is always the fault of  *)
(* the text.                                                                *)
THEOREM NeverAmbiguous == ChainSpec => []Unambiguous
<1>1. ChainInv => Unambiguous
  <2>. SUFFICES ASSUME ChainInv
               PROVE  Unambiguous
    OBVIOUS
  <2>1. stage = "draw" => Cardinality(DOMAIN entries) <= 2^wO
    <3>1. Cardinality(DOMAIN entries) \in Nat /\ 2^wO \in Nat
      BY FS_CardinalityType, PowerMonotone, BitHashAssumption DEF ChainInv, IsKeySet
    <3>. QED
      BY <3>1 DEF ChainInv
  <2>. QED
    BY <2>1 DEF ChainInv, Unambiguous, Checked, Doubled
<1>. QED
  BY <1>1, ChainInvariance, PTL

(* Printing, trimming, sorting and parsing a key set, from tool to tool, never *)
(* lose a key or change its value.                                          *)
THEOREM KeySetAlwaysKept == ChainSpec => KeySetKept
<1>1. ChainInv /\ [ChainNext]_chainVars => [Kept]_chainVars
  BY ChainKeeps
<1>. QED
  BY <1>1, ChainInvariance, PTL DEF ChainSpec, KeySetKept, Kept

-----------------------------------------------------------------------------
(* Part 3: the generated programs and their tests.                          *)

(***************************************************************************)
(* Vectors of bits as numbers.  The bits of a number make it up again, so  *)
(* that different numbers have different vectors; and there are as many    *)
(* numbers as vectors.                                                     *)
(***************************************************************************)
\* The vectors of k bits without don't-cares, and the one that a number is.
Bits(k) == [0 .. k-1 -> {0, 1}]

Numbered(k, n) == [i \in 0 .. k-1 |-> (n \div 2^i) % 2]

\* What the bits of a vector are worth; those below j together.
Worth(x)  == [i \in DOMAIN x |-> x[i] * 2^i]
Low(x, j) == Cardinality(Places(Worth(x), 0 .. j-1))

\* A bit is worth a number.
LEMMA WorthType ==
    ASSUME NEW k \in Nat, NEW x \in Bits(k)
    PROVE  DOMAIN x = 0 .. k-1 /\ \A i \in 0 .. k-1 : Worth(x)[i] \in Nat
<1>1. DOMAIN x = 0 .. k-1
  BY DEF Bits
<1>2. ASSUME NEW i \in 0 .. k-1
      PROVE  Worth(x)[i] \in Nat
  <2>1. x[i] \in {0, 1} /\ i \in Nat
    BY DEF Bits
  <2>2. 2^i \in Nat
    BY <2>1, Powers
  <2>3. \A w \in Nat : 0 * w \in Nat /\ 1 * w \in Nat
    OBVIOUS
  <2>4. x[i] * 2^i \in Nat
    BY <2>1, <2>2, <2>3
  <2>. QED
    BY <1>1, <2>4 DEF Worth
<1>. QED
  BY <1>1, <1>2

\* A number adds up what the bits are worth.
LEMMA NumberIsLow ==
    ASSUME NEW k \in Nat, NEW x \in Bits(k)
    PROVE  number(x) = Low(x, k)
<1>. DEFINE S == 0 .. k-1
            g == Worth(x)
            IsU(f) == f = [s \in SUBSET DOMAIN x |->
                             IF s = {} THEN 0 ELSE x[Some(s)] * 2^Some(s) + f[s \ {Some(s)}]]
            Parts == [s \in SUBSET S |-> Cardinality(Places(g, s))]
<1>1. number(x) = (CHOOSE f : IsU(f))[DOMAIN x]
  BY DEF number, MapThenSumSet, MapThenFoldSet, Some
<1>2. ASSUME NEW f
      PROVE  IsU(f) <=> IsSum(f, g, S)
  <2>1. DOMAIN x = S
    BY WorthType
  <2>2. ASSUME NEW s \in SUBSET S, s # {}
        PROVE  x[Some(s)] * 2^Some(s) = g[Some(s)]
    <3>1. Some(s) \in S
      BY <2>2 DEF Some
    <3>. QED
      BY <2>1, <3>1 DEF Worth
  <2>. DEFINE A(s) == IF s = {} THEN 0 ELSE x[Some(s)] * 2^Some(s) + f[s \ {Some(s)}]
              B(s) == IF s = {} THEN 0 ELSE g[Some(s)] + f[s \ {Some(s)}]
  <2>. HIDE DEF S, g
  <2>3. \A s \in SUBSET S : A(s) = B(s)
    BY <2>2
  <2>4. IsU(f) <=> f = [s \in SUBSET S |-> A(s)]
    BY <2>1
  <2>5. IsSum(f, g, S) <=> f = [s \in SUBSET S |-> B(s)]
    BY DEF IsSum
  <2>. HIDE DEF A, B, IsU
  <2>6. [s \in SUBSET S |-> A(s)] = [s \in SUBSET S |-> B(s)]
    BY <2>3
  <2>. QED
    BY <2>4, <2>5, <2>6
<1>3. IsFiniteSet(S) /\ \A i \in S : g[i] \in Nat
  BY WorthType, Below
<1>4. IsSum(Parts, g, S)
  <2>. HIDE DEF S, g
  <2>. QED
    BY <1>3, PlacesAreASum
<1>5. Parts[S] = Low(x, k) /\ DOMAIN x = S
  BY WorthType DEF Low
<1>. HIDE DEF Parts, IsU, S, g
<1>6. IsU(CHOOSE f : IsU(f))
  BY <1>2, <1>4
<1>7. (CHOOSE f : IsU(f))[S] = Parts[S]
  BY <1>2, <1>3, <1>4, <1>6, SumIsUnique
<1>. QED
  BY <1>1, <1>5, <1>7

\* The bits below j+1 are those below j and bit j.
LEMMA LowStep ==
    ASSUME NEW k \in Nat, NEW x \in Bits(k)
    PROVE  /\ Low(x, 0) = 0
           /\ \A j \in 0 .. k : Low(x, j) \in Nat
           /\ \A j \in 0 .. k-1 : Low(x, j+1) = Low(x, j) + x[j] * 2^j
<1>. DEFINE g == Worth(x)
<1>1. \A i \in 0 .. k-1 : g[i] \in Nat
  BY WorthType
<1>2. Low(x, 0) = 0
  <2>1. Places(g, 0 .. 0-1) = {}
    <3>1. 0 .. 0-1 = {}
      OBVIOUS
    <3>. QED
      BY <3>1 DEF Places
  <2>. QED
    BY <2>1, FS_EmptySet DEF Low
<1>3. \A s \in SUBSET (0 .. k-1) : IsFiniteSet(Places(g, s)) /\ Cardinality(Places(g, s)) \in Nat
  <2>1. IsFiniteSet(0 .. k-1)
    BY Below
  <2>. HIDE DEF g
  <2>. QED
    BY <1>1, <2>1, PlacesFinite
<1>4. ASSUME NEW j \in 0 .. k
      PROVE  Low(x, j) \in Nat
  <2>1. 0 .. j-1 \in SUBSET (0 .. k-1)
    OBVIOUS
  <2>. QED
    BY <1>3, <2>1 DEF Low
<1>5. ASSUME NEW j \in 0 .. k-1
      PROVE  Low(x, j+1) = Low(x, j) + x[j] * 2^j
  <2>. DEFINE s == 0 .. (j+1)-1
              A == Places(g, {j})
              B == Places(g, s \ {j})
  <2>1. s \ {j} = 0 .. j-1 /\ s \in SUBSET (0 .. k-1) /\ {j} \in SUBSET (0 .. k-1) /\ j \in s
    OBVIOUS
  <2>. HIDE DEF s, g
  <2>2. /\ Cardinality(A) = g[j]
        /\ Places(g, s) = A \cup B
        /\ A \cap B = {}
    <3>1. j \in s /\ g[j] \in Nat
      BY <1>1, <2>1
    <3>. QED
      BY <3>1, PlacesOfOne, ZenonT(40)
  <2>3. IsFiniteSet(A) /\ IsFiniteSet(B) /\ Cardinality(B) \in Nat /\ Cardinality(A) \in Nat
    BY <1>3, <2>1
  <2>. HIDE DEF A, B
  <2>4. Cardinality(A \cup B) = Cardinality(A) + Cardinality(B) - Cardinality({})
    <3>1. Cardinality(A \cup B) = Cardinality(A) + Cardinality(B) - Cardinality(A \cap B)
      BY <2>3, FS_Union
    <3>. QED
      BY <2>2, <3>1, Zenon
  <2>5. Cardinality(A \cup B) = Cardinality(A) + Cardinality(B)
    <3>1. Cardinality({}) = 0
      BY FS_EmptySet
    <3>. QED
      BY <2>3, <2>4, <3>1
  <2>6. g[j] = x[j] * 2^j
    BY WorthType DEF g, Worth
  <2>7. Low(x, j+1) = Cardinality(A \cup B) /\ Low(x, j) = Cardinality(B)
    BY <2>1, <2>2 DEF Low, g, s, B
  <2>. QED
    BY <2>2, <2>3, <2>5, <2>6, <2>7
<1>. QED
  BY <1>2, <1>4, <1>5

\* The bits of n below j make up n modulo 2^j.
LEMMA NumberedBits ==
    ASSUME NEW k \in Nat, NEW n \in Nat
    PROVE  /\ Numbered(k, n) \in Bits(k)
           /\ \A j \in 0 .. k : Low(Numbered(k, n), j) = n % 2^j
<1>. DEFINE x == Numbered(k, n)
            Bad == {j \in 0 .. k : Low(x, j) # n % 2^j}
<1>1. \A i \in Nat : 2^i \in Nat \ {0} /\ 2^(i+1) = 2 * 2^i
  BY Powers
<1>2. \A i \in Nat : (n \div 2^i) % 2 \in {0, 1}
  BY <1>1, ModStep
<1>3. x \in Bits(k)
  <2>1. 0 .. k-1 \in SUBSET Nat
    OBVIOUS
  <2>. QED
    BY <1>2, <2>1 DEF Numbered, Bits
<1>4. /\ Low(x, 0) = 0
      /\ \A j \in 0 .. k-1 : Low(x, j+1) = Low(x, j) + x[j] * 2^j
  <2>. HIDE DEF x
  <2>. QED
    BY <1>3, LowStep
<1>5. Bad = {}
  <2>. SUFFICES ASSUME Bad # {} PROVE FALSE
    OBVIOUS
  <2>1. PICK m \in Bad : \A j \in Bad : m <= j
    <3>1. Bad \in SUBSET Nat
      OBVIOUS
    <3>. HIDE DEF Bad
    <3>. QED
      BY <3>1, LeastNatural
  <2>2. m \in 0 .. k /\ Low(x, m) # n % 2^m
    BY <2>1
  <2>3. CASE m = 0
    <3>1. n % 1 = 0
      OBVIOUS
    <3>. QED
      BY <1>4, <2>2, <2>3, <3>1, Powers
  <2>4. CASE m # 0
    <3>1. PICK j \in 0 .. k-1 : j + 1 = m
      BY <2>2, <2>4
    <3>2. Low(x, j) = n % 2^j
      BY <2>1, <2>2, <3>1
    <3>. DEFINE q == 2^j
    <3>3. q \in Nat \ {0} /\ 2^m = 2 * q
      BY <1>1, <3>1
    <3>4. x[j] = (n \div q) % 2
      BY DEF Numbered
    <3>5. Low(x, m) = Low(x, j) + x[j] * q
      BY <1>4, <3>1
    <3>6. x[j] * q \in Nat /\ Low(x, m) = x[j] * q + Low(x, j)
      <4>. HIDE DEF q, x
      <4>1. x[j] \in {0, 1} /\ n % q \in Nat
        <5>1. x[j] \in {0, 1}
          BY <1>3 DEF Bits
        <5>2. n % q \in 0 .. q-1
          BY <3>3, DivMod
        <5>. QED
          BY <3>3, <5>1, <5>2
      <4>2. \A w \in Nat : 0 * w \in Nat /\ 1 * w \in Nat
        OBVIOUS
      <4>3. x[j] * q \in Nat
        BY <3>3, <4>1, <4>2
      <4>. QED
        BY <3>2, <3>5, <4>1, <4>3 DEF q
    <3>. HIDE DEF q, x
    <3>7. n % (2 * q) = ((n \div q) % 2) * q + (n % q)
      BY <3>3, ModStep
    <3>. QED
      BY <2>2, <3>2, <3>3, <3>4, <3>6, <3>7 DEF q
  <2>. QED
    BY <2>3, <2>4
<1>. QED
  BY <1>3, <1>5

\* There are 2^k vectors of k bits: each is the set of its ones.
LEMMA BinaryCounted ==
    ASSUME NEW S, IsFiniteSet(S)
    PROVE  IsFiniteSet([S -> {0, 1}]) /\ Cardinality([S -> {0, 1}]) = 2^Cardinality(S)
<1>. DEFINE F == [S -> {0, 1}]
            vector == [s \in SUBSET S |-> [i \in S |-> IF i \in s THEN 1 ELSE 0]]
<1>1. vector \in [SUBSET S -> F]
  OBVIOUS
<1>2. ASSUME NEW s \in SUBSET S, NEW u \in SUBSET S, vector[s] = vector[u]
      PROVE  s = u
  <2>1. ASSUME NEW i \in S
        PROVE  i \in s <=> i \in u
    <3>1. vector[s][i] = vector[u][i]
      BY <1>2
    <3>. QED
      BY <3>1
  <2>. QED
    BY <2>1
<1>3. ASSUME NEW x \in F
      PROVE  \E s \in SUBSET S : vector[s] = x
  <2>. DEFINE s == {i \in S : x[i] = 1}
  <2>1. s \in SUBSET S /\ vector[s] = [i \in S |-> IF i \in s THEN 1 ELSE 0]
    OBVIOUS
  <2>2. \A i \in S : (IF i \in s THEN 1 ELSE 0) = x[i]
    OBVIOUS
  <2>3. x = [i \in S |-> x[i]]
    OBVIOUS
  <2>. HIDE DEF s, vector
  <2>4. vector[s] = x
    BY <2>1, <2>2, <2>3
  <2>. QED
    BY <2>1, <2>4
<1>. HIDE DEF F, vector
<1>4. vector \in Bijection(SUBSET S, F)
  BY <1>1, <1>2, <1>3 DEF Bijection, Injection, Surjection, IsInjective
<1>5. ExistsBijection(SUBSET S, F)
  BY <1>4 DEF ExistsBijection
<1>6. IsFiniteSet(SUBSET S) /\ Cardinality(SUBSET S) = 2^Cardinality(S)
  BY FS_SUBSET
<1>. QED
  BY <1>5, <1>6, FS_Bijection DEF F

\* So there are as many as numbers below 2^k.
LEMMA BitsCounted ==
    ASSUME NEW k \in Nat
    PROVE  IsFiniteSet(Bits(k)) /\ Cardinality(Bits(k)) = 2^k
BY Below, BinaryCounted DEF Bits

\* Their numbers turn the vectors of k bits into the numbers below 2^k, one to one.
LEMMA NumberOfNumbered ==
    ASSUME NEW k \in Nat, NEW n \in 0 .. 2^k-1
    PROVE  Numbered(k, n) \in Bits(k) /\ number(Numbered(k, n)) = n
<1>1. 2^k \in Nat
  BY Powers
<1>2. n \in Nat
  BY <1>1
<1>3. Numbered(k, n) \in Bits(k) /\ Low(Numbered(k, n), k) = n % 2^k
  BY <1>2, NumberedBits
<1>4. n % 2^k = n
  BY <1>1
<1>. QED
  BY <1>3, <1>4, NumberIsLow

\* A vector is the one of its number, whose remainders are those of the lower bits.
LEMMA NumberedOfNumber ==
    ASSUME NEW k \in Nat, NEW x \in Bits(k)
    PROVE  /\ number(x) \in 0 .. 2^k-1 /\ Numbered(k, number(x)) = x
           /\ \A j \in 0 .. k : Low(x, j) = number(x) % 2^j
<1>. DEFINE N == 0 .. 2^k-1
            f == [n \in N |-> Numbered(k, n)]
<1>1. 2^k \in Nat
  BY Powers
<1>2. \A n \in N : f[n] \in Bits(k) /\ number(f[n]) = n
  BY NumberOfNumbered
<1>3. f \in Injection(N, Bits(k))
  <2>1. DOMAIN f = N
    OBVIOUS
  <2>2. f = [n \in N |-> f[n]]
    OBVIOUS
  <2>. HIDE DEF f, N
  <2>3. f \in [N -> Bits(k)]
    BY <1>2, <2>2
  <2>4. \A m, n \in N : f[m] = f[n] => m = n
    BY <1>2
  <2>. QED
    BY <2>3, <2>4 DEF Injection, IsInjective
<1>4. Cardinality(N) = 2^k
  BY <1>1, Below
<1>5. f \in Surjection(N, Bits(k))
  <2>. HIDE DEF f, N
  <2>. QED
    BY <1>3, <1>4, BitsCounted, FS_Injection
<1>6. PICK n \in N : f[n] = x
  <2>. HIDE DEF f, N
  <2>. QED
    BY <1>5 DEF Surjection
<1>7. n = number(x) /\ Numbered(k, n) = x
  BY <1>2, <1>6
<1>8. \A j \in 0 .. k : Low(x, j) = n % 2^j
  <2>1. n \in Nat
    BY <1>1, <1>6
  <2>. QED
    BY <1>7, <2>1, NumberedBits
<1>. QED
  BY <1>6, <1>7, <1>8

\* The highest bit in which two vectors differ decides which number is lower.
LEMMA HigherDecides ==
    ASSUME NEW k \in Nat, NEW x \in Bits(k), NEW y \in Bits(k), NEW i \in 0 .. k-1,
           x[i] < y[i], \A j \in 0 .. k-1 : j > i => x[j] = y[j]
    PROVE  number(x) < number(y)
<1>. DEFINE Bad == {j \in i+1 .. k : ~ Low(x, j) < Low(y, j)}
<1>1. \A j \in 0 .. k : Low(x, j) \in Nat /\ Low(y, j) \in Nat
  BY LowStep
<1>2. Low(x, i+1) < Low(y, i+1)
  <2>1. Low(x, i+1) = Low(x, i) + x[i] * 2^i /\ Low(y, i+1) = Low(y, i) + y[i] * 2^i
    BY LowStep
  <2>2. x[i] = 0 /\ y[i] = 1 /\ i \in Nat /\ i \in 0 .. k
    BY DEF Bits
  <2>3. 2^i \in Nat \ {0}
    BY <2>2, Powers
  <2>4. Low(x, i) < 2^i
    <3>1. number(x) \in 0 .. 2^k-1 /\ Low(x, i) = number(x) % 2^i
      BY <2>2, NumberedOfNumber
    <3>2. number(x) \in Nat
      BY <3>1, Powers
    <3>3. \A n \in Nat, w \in Nat \ {0} : n % w < w
      OBVIOUS
    <3>. QED
      BY <2>3, <3>1, <3>2, <3>3
  <2>5. \A w \in Nat : 0 * w = 0 /\ 1 * w = w
    OBVIOUS
  <2>6. Low(x, i+1) = Low(x, i) + 0 /\ Low(y, i+1) = Low(y, i) + 2^i
    BY <2>1, <2>2, <2>3, <2>5
  <2>. QED
    BY <1>1, <2>2, <2>3, <2>4, <2>6
<1>3. Bad = {}
  <2>. SUFFICES ASSUME Bad # {} PROVE FALSE
    OBVIOUS
  <2>1. PICK m \in Bad : \A j \in Bad : m <= j
    <3>1. Bad \in SUBSET Nat
      OBVIOUS
    <3>. HIDE DEF Bad
    <3>. QED
      BY <3>1, LeastNatural
  <2>2. m \in i+1 .. k /\ ~ Low(x, m) < Low(y, m) /\ m # i+1
    BY <1>2, <2>1
  <2>3. PICK j \in i+1 .. k-1 : j + 1 = m
    BY <2>2
  <2>4. Low(x, j) < Low(y, j) /\ x[j] = y[j] /\ j \in 0 .. k-1
    BY <2>1, <2>2, <2>3
  <2>. DEFINE w == x[j] * 2^j
  <2>5. Low(x, m) = Low(x, j) + w /\ Low(y, m) = Low(y, j) + w
    BY <2>3, <2>4, LowStep
  <2>6. w \in Nat
    <3>1. x[j] \in {0, 1} /\ 2^j \in Nat
      BY <2>4, Powers DEF Bits
    <3>2. \A z \in Nat : 0 * z \in Nat /\ 1 * z \in Nat
      OBVIOUS
    <3>. QED
      BY <3>1, <3>2
  <2>. HIDE DEF w
  <2>. QED
    BY <1>1, <2>2, <2>4, <2>5, <2>6
<1>4. k \in i+1 .. k
  OBVIOUS
<1>. QED
  BY <1>3, <1>4, NumberIsLow

-----------------------------------------------------------------------------
(* BitHash::print() and parse_bit_hash().                                   *)

\* An address of a table, by its lines from 0 up, is a vector of bits.
Shifted(a) == [j \in 0 .. Len(a)-1 |-> a[j+1]]

\* A table has as many addresses as its lines have vectors.
LEMMA AddressesCounted ==
    ASSUME NEW t \in Tables
    PROVE  /\ Len(Selectors[t]) \in Nat /\ DOMAIN Selectors[t] = 1 .. Len(Selectors[t])
           /\ Cardinality(Addresses(t)) = 2^Len(Selectors[t])
           /\ Cardinality(Addresses(t)) \in Nat
<1>. DEFINE L == Len(Selectors[t])
<1>1. L \in Nat /\ DOMAIN Selectors[t] = 1 .. L
  <2>1. Selectors[t] \in Seq(Inputs)
    BY BitHashAssumption
  <2>. QED
    BY <2>1
<1>2. IsFiniteSet(1 .. L) /\ Cardinality(1 .. L) = L
  BY <1>1, FS_Interval
<1>3. 2^L \in Nat
  BY <1>1, Powers
<1>. HIDE DEF L
<1>4. Cardinality([1 .. L -> {0, 1}]) = 2^L
  BY <1>2, BinaryCounted
<1>. QED
  BY <1>1, <1>3, <1>4 DEF L, Addresses

\* The number of an address finds the address again.
LEMMA AddressComesBack ==
    ASSUME NEW t \in Tables, NEW a \in Addresses(t)
    PROVE  /\ number(Shifted(a)) \in 0 .. Cardinality(Addresses(t))-1
           /\ AddressNumbered(t, number(Shifted(a))) = a
<1>. DEFINE L == Len(Selectors[t])
            n == number(Shifted(a))
<1>1. /\ L \in Nat /\ DOMAIN Selectors[t] = 1 .. L
      /\ Cardinality(Addresses(t)) = 2^L
  BY AddressesCounted
<1>2. a \in [1 .. L -> {0, 1}]
  BY <1>1 DEF Addresses
<1>. HIDE DEF L
<1>3. a \in Seq({0, 1}) /\ Len(a) = L
  BY <1>1, <1>2
<1>4. Shifted(a) = [j \in 0 .. L-1 |-> a[j+1]]
  BY <1>3 DEF Shifted
<1>5. Shifted(a) \in Bits(L)
  <2>1. \A j \in 0 .. L-1 : a[j+1] \in {0, 1}
    BY <1>1, <1>2
  <2>. QED
    BY <1>4, <2>1 DEF Bits
<1>6. n \in 0 .. 2^L-1 /\ Numbered(L, n) = Shifted(a)
  BY <1>1, <1>5, NumberedOfNumber
<1>. HIDE DEF n
<1>7. ASSUME NEW j \in 1 .. L
      PROVE  (n \div 2^(j-1)) % 2 = a[j]
  <2>1. j - 1 \in 0 .. L-1 /\ (j - 1) + 1 = j
    BY <1>1
  <2>2. Numbered(L, n)[j-1] = (n \div 2^(j-1)) % 2
    BY <2>1 DEF Numbered
  <2>3. Shifted(a)[j-1] = a[j]
    BY <1>4, <2>1
  <2>. QED
    BY <1>6, <2>2, <2>3
<1>8. AddressNumbered(t, n) = [j \in 1 .. L |-> a[j]]
  BY <1>1, <1>7 DEF AddressNumbered
<1>9. AddressNumbered(t, n) = a
  BY <1>2, <1>8
<1>. QED
  BY <1>1, <1>6, <1>9 DEF n

\* A lut as a vector.
LEMMA VectorType ==
    ASSUME NEW l \in PartialLuts, NEW t \in Tables
    PROVE  Vector(l, t) \in Vectors(Cardinality(Addresses(t)))
<1>1. ASSUME NEW n \in Nat
      PROVE  <<t, AddressNumbered(t, n)>> \in LutBits
  <2>1. ASSUME NEW j \in DOMAIN Selectors[t]
        PROVE  (n \div 2^(j-1)) % 2 \in {0, 1}
    <3>1. j - 1 \in Nat
      BY AddressesCounted
    <3>2. 2^(j-1) \in Nat \ {0}
      BY <3>1, Powers
    <3>. QED
      BY <3>2, ModStep
  <2>2. AddressNumbered(t, n) \in Addresses(t)
    BY <2>1 DEF AddressNumbered, Addresses
  <2>. QED
    BY <2>2 DEF LutBits
<1>2. ASSUME NEW n \in 0 .. Cardinality(Addresses(t))-1
      PROVE  l[<<t, AddressNumbered(t, n)>>] \in Trits
  <2>1. n \in Nat
    BY AddressesCounted
  <2>. QED
    BY <1>1, <2>1 DEF PartialLuts, Trits
<1>. QED
  BY <1>2 DEF Vector, Vectors

\* The printed BitHash: for each table its lut as a text.
HashText(l) == [t \in Tables |-> to_string(Vector(l, t))]

\* Printed and parsed, the tables have the same contents again.
LEMMA HashComesBack ==
    ASSUME NEW l \in PartialLuts
    PROVE  l = [b \in LutBits |->
                  parse_bit_vector(HashText(l)[b[1]], Cardinality(Addresses(b[1])))[
                      number([j \in 0 .. Len(b[2])-1 |-> b[2][j+1]])]]
<1>1. ASSUME NEW b \in LutBits
      PROVE  parse_bit_vector(HashText(l)[b[1]], Cardinality(Addresses(b[1])))[
                      number([j \in 0 .. Len(b[2])-1 |-> b[2][j+1]])] = l[b]
  <2>0. PICK t \in Tables : \E a \in Addresses(t) : b = <<t, a>>
    BY DEF LutBits
  <2>1. PICK a \in Addresses(t) : b = <<t, a>>
    BY <2>0
  <2>. DEFINE n == number(Shifted(a))
              v == Vector(l, t)
              k == Cardinality(Addresses(t))
  <2>2. n \in 0 .. k-1 /\ AddressNumbered(t, n) = a
    BY AddressComesBack
  <2>3. v[n] = l[b]
    BY <2>1, <2>2 DEF Vector
  <2>4. v \in Vectors(k) /\ k \in Nat
    BY VectorType, AddressesCounted
  <2>5. parse_bit_vector(to_string(v), k) = v
    <3>. HIDE DEF v, k
    <3>. QED
      BY <2>4, PrintedParses
  <2>6. HashText(l)[t] = to_string(v) /\ b[1] = t /\ b[2] = a
    BY <2>1 DEF HashText
  <2>7. number([j \in 0 .. Len(b[2])-1 |-> b[2][j+1]]) = n
    BY <2>6 DEF Shifted
  <2>. HIDE DEF n, v, k
  <2>8. parse_bit_vector(HashText(l)[b[1]], Cardinality(Addresses(b[1])))[n] = l[b]
    BY <2>3, <2>5, <2>6 DEF k
  <2>. QED
    BY <2>7, <2>8
<1>2. l = [b \in LutBits |-> l[b]]
  BY DEF PartialLuts
<1>. DEFINE Read(b) == parse_bit_vector(HashText(l)[b[1]], Cardinality(Addresses(b[1])))[
                           number([j \in 0 .. Len(b[2])-1 |-> b[2][j+1]])]
<1>3. \A b \in LutBits : Read(b) = l[b]
  BY <1>1
<1>. HIDE DEF Read
<1>4. l = [b \in LutBits |-> Read(b)]
  BY <1>2, <1>3
<1>. QED
  BY <1>4 DEF Read

-----------------------------------------------------------------------------
(* Keys as numbers.                                                         *)

\* A key without don't-cares is a number below 2^wI, and is found by it.
LEMMA KeyNumbers ==
    /\ \A x \in ConcreteKeys : number(x) \in 0 .. 2^wI-1 /\ KeyNumbered(number(x)) = x
    /\ \A n \in 0 .. 2^wI-1 : KeyNumbered(n) \in ConcreteKeys /\ number(KeyNumbered(n)) = n
    /\ wI \in Nat /\ 2^wI \in Nat \ {0}
<1>1. wI \in Nat /\ 2^wI \in Nat \ {0}
  BY BitHashAssumption, Powers
<1>2. ConcreteKeys = Bits(wI) /\ \A n : KeyNumbered(n) = Numbered(wI, n)
  BY DEF ConcreteKeys, Bits, KeyNumbered, Numbered, Inputs
<1>. QED
  BY <1>1, <1>2, NumberedOfNumber, NumberOfNumbered

\* The lower number has 0 where the two differ first from the top.
LEMMA KeyDecides ==
    ASSUME NEW x \in ConcreteKeys, NEW y \in ConcreteKeys, NEW i \in Inputs,
           x[i] < y[i], \A j \in Inputs : j > i => x[j] = y[j]
    PROVE  number(x) < number(y)
<1>1. x \in Bits(wI) /\ y \in Bits(wI) /\ wI \in Nat /\ i \in 0 .. wI-1
  BY BitHashAssumption DEF ConcreteKeys, Bits, Inputs
<1>2. \A j \in 0 .. wI-1 : j > i => x[j] = y[j]
  BY DEF Inputs
<1>. QED
  BY <1>1, <1>2, HigherDecides

\* The first variant of a key has the lowest number.
LEMMA FirstIsLowest ==
    ASSUME NEW x \in AbstractKeys
    PROVE  /\ FirstVariant(x) \in variants(x) /\ variants(x) \in SUBSET ConcreteKeys
           /\ \A y \in variants(x) :
                y # FirstVariant(x) => number(FirstVariant(x)) < number(y)
           /\ is_concrete(x) => variants(x) = {x} /\ FirstVariant(x) = x
           /\ ~ is_concrete(x) => \E y \in variants(x) : y # FirstVariant(x)
<1>. DEFINE f == FirstVariant(x)
<1>1. variants(x) \in SUBSET ConcreteKeys /\ f \in variants(x)
  BY DEF variants, FirstVariant, AbstractKeys, ConcreteKeys
<1>2. ASSUME NEW y \in variants(x), y # f
      PROVE  number(f) < number(y)
  <2>. DEFINE D == {i \in Inputs : y[i] # f[i]}
  <2>1. f \in ConcreteKeys /\ y \in ConcreteKeys
    BY <1>1
  <2>2. D # {}
    BY <1>2, <2>1 DEF ConcreteKeys
  <2>3. IsFiniteSet(D) /\ D \in SUBSET Int
    <3>1. IsFiniteSet(Inputs) /\ Inputs \in SUBSET Int
      BY FS_Interval, BitHashAssumption DEF Inputs
    <3>2. D \in SUBSET Inputs
      OBVIOUS
    <3>. HIDE DEF D
    <3>. QED
      BY <3>1, <3>2, FS_Subset
  <2>4. PICK i \in D : \A j \in D : i >= j
    <3>. HIDE DEF D
    <3>. QED
      BY <2>2, <2>3, GreatestNumber
  <2>5. \A j \in Inputs : j > i => f[j] = y[j]
    BY <2>3, <2>4 DEF Inputs
  <2>6. x[i] = -1
    BY <2>4 DEF variants, FirstVariant
  <2>7. f[i] = 0 /\ y[i] \in {0, 1} /\ y[i] # f[i]
    BY <2>1, <2>4, <2>6 DEF FirstVariant, ConcreteKeys
  <2>. HIDE DEF f
  <2>. QED
    BY <2>1, <2>4, <2>5, <2>7, KeyDecides
<1>3. ASSUME is_concrete(x)
      PROVE  variants(x) = {x} /\ f = x
  <2>1. \A i \in Inputs : x[i] # -1 /\ f[i] = x[i]
    BY <1>3 DEF is_concrete, AbstractKeys, FirstVariant
  <2>2. f = x
    BY <2>1 DEF FirstVariant, AbstractKeys
  <2>3. ASSUME NEW y \in variants(x)
        PROVE  y = x
    <3>1. \A i \in Inputs : y[i] = x[i]
      BY <2>1 DEF variants
    <3>. QED
      BY <1>1, <3>1 DEF ConcreteKeys, AbstractKeys
  <2>. QED
    BY <1>1, <2>2, <2>3
<1>4. ASSUME ~ is_concrete(x)
      PROVE  \E y \in variants(x) : y # f
  <2>1. PICK i \in Inputs : x[i] = -1
    BY <1>4 DEF is_concrete, AbstractKeys
  <2>. DEFINE y == [j \in Inputs |-> IF j = i THEN 1 ELSE f[j]]
  <2>2. y \in ConcreteKeys
    BY <1>1 DEF ConcreteKeys
  <2>3. y \in variants(x)
    BY <2>1, <2>2 DEF variants, FirstVariant
  <2>4. y[i] = 1 /\ f[i] = 0
    BY <2>1 DEF FirstVariant
  <2>. QED
    BY <2>3, <2>4
<1>. QED
  BY <1>1, <1>2, <1>3, <1>4

\* operator< orders keys without don't-cares by their numbers.
LEMMA LessIsLower ==
    ASSUME NEW x \in ConcreteKeys, NEW y \in ConcreteKeys, Less(x, y)
    PROVE  number(x) < number(y)
<1>1. x \in AbstractKeys /\ y \in AbstractKeys
  BY DEF ConcreteKeys, AbstractKeys
<1>2. CASE \E i \in Inputs : x[i] < y[i] /\ \A j \in Inputs : j > i => x[j] = y[j]
  BY <1>2, KeyDecides
<1>3. CASE size(x) < size(y)
  <2>1. wI \in Nat /\ x \in Vectors(wI) /\ y \in Vectors(wI)
    BY <1>1, BitHashAssumption DEF AbstractKeys, Vectors, Trits, Inputs
  <2>2. /\ size(x) \in 0 .. wI /\ size(y) \in 0 .. wI
        /\ \A i \in 0 .. wI-1 : i >= size(x) => x[i] = 0
        /\ \A i \in 0 .. wI-1 : i >= size(y) => y[i] = 0
        /\ size(y) > 0 => y[size(y)-1] # 0
    BY <2>1, SizeType
  <2>. DEFINE i == size(y) - 1
  <2>3. i \in Inputs /\ x[i] = 0 /\ y[i] # 0
    BY <1>3, <2>1, <2>2 DEF Inputs
  <2>4. y[i] \in {0, 1}
    BY <2>3 DEF ConcreteKeys
  <2>5. \A j \in Inputs : j > i => x[j] = y[j]
    BY <1>3, <2>1, <2>2 DEF Inputs
  <2>. HIDE DEF i
  <2>. QED
    BY <2>3, <2>4, <2>5, KeyDecides
<1>. QED
  BY <1>1, <1>2, <1>3, LessMeans

-----------------------------------------------------------------------------
(* The arrays of a generated program.                                       *)

\* The tables decide every bit that a key reads, and solve the key set.
Solves(l, e) ==
    /\ is_solution(l, DOMAIN e)
    /\ \A x \in DOMAIN e : \A y \in variants(x) : \A t \in Tables :
          l[<<t, address(t, y)>>] # -1

\* The hash of the program and the hash of the tables agree on the keys.
LEMMA RomsHash ==
    ASSUME NEW l \in PartialLuts
    PROVE  /\ \A z \in ConcreteKeys : HashOf(roms(l), z) \in Hashes
           /\ \A e : IsKeySet(e) /\ Solves(l, e) =>
                \A x \in DOMAIN e : \A y \in variants(x) :
                    HashOf(roms(l), y) = HashOf(l, y) /\ HashOf(l, y) = HashOf(l, FirstVariant(x))
<1>1. \A z \in ConcreteKeys : \A t \in Tables : <<t, address(t, z)>> \in LutBits
  BY AddressType
<1>2. \A b \in LutBits : roms(l)[b] \in {0, 1} /\ (l[b] # -1 => roms(l)[b] = l[b])
  BY DEF roms, PartialLuts
<1>3. \A z \in ConcreteKeys : HashOf(roms(l), z) \in Hashes
  BY <1>1, <1>2 DEF HashOf, Hashes
<1>4. ASSUME NEW e, IsKeySet(e), Solves(l, e), NEW x \in DOMAIN e, NEW y \in variants(x)
      PROVE  HashOf(roms(l), y) = HashOf(l, y) /\ HashOf(l, y) = HashOf(l, FirstVariant(x))
  <2>1. y \in ConcreteKeys
    BY DEF variants
  <2>2. \A t \in Tables : roms(l)[<<t, address(t, y)>>] = l[<<t, address(t, y)>>]
    BY <1>1, <1>2, <1>4, <2>1 DEF Solves
  <2>3. HashOf(roms(l), y) = HashOf(l, y)
    BY <2>2 DEF HashOf
  <2>. QED
    BY <1>4, <2>3 DEF Solves, is_solution
<1>. QED
  BY <1>3, <1>4

\* The entry of a key's hash is that key's, and others have the default.
LEMMA FilledIs ==
    ASSUME NEW l, NEW e, IsKeySet(e), Solves(l, e), NEW entry, NEW default, NEW h \in Hashes
    PROVE  /\ \A x \in DOMAIN e :
                HashOf(l, FirstVariant(x)) = h => Filled(l, e, entry, default)[h] = entry[x]
           /\ (\A x \in DOMAIN e : HashOf(l, FirstVariant(x)) # h) =>
                Filled(l, e, entry, default)[h] = default
<1>. DEFINE hashOf == [x \in DOMAIN e |-> HashOf(l, FirstVariant(x))]
<1>1. Filled(l, e, entry, default)[h] =
         IF Owners(hashOf, h) = {} THEN default ELSE entry[Owner(hashOf, h)]
  BY DEF Filled
<1>2. Owners(hashOf, h) = {x \in DOMAIN e : HashOf(l, FirstVariant(x)) = h}
  BY DEF Owners, Fibre
<1>3. ASSUME NEW x \in DOMAIN e, HashOf(l, FirstVariant(x)) = h
      PROVE  Owner(hashOf, h) = x
  <2>1. Owners(hashOf, h) = {x}
    BY <1>2, <1>3 DEF Solves, is_solution
  <2>2. ~ Less(x, x)
    BY LessIsOrder DEF IsKeySet
  <2>. HIDE DEF hashOf
  <2>. QED
    BY <2>1, <2>2 DEF Owner
<1>. HIDE DEF hashOf
<1>. QED
  BY <1>1, <1>2, <1>3

\* Zeros everywhere are the number 0; a mask of ones changes nothing.
LEMMA Masked ==
    /\ number([i \in Inputs |-> 0]) = 0
    /\ \A x \in AbstractKeys, z \in ConcreteKeys :
          [i \in Inputs |-> z[i] * get_concrete_mask(FirstVariant(x))[i]] = z
    /\ \A z \in ConcreteKeys :
          [i \in Inputs |-> z[i] * [j \in Inputs |-> 0][i]] = [i \in Inputs |-> 0]
<1>1. number([i \in Inputs |-> 0]) = 0
  <2>1. 0 \in 0 .. 2^wI-1
    BY KeyNumbers
  <2>2. \A i \in Inputs : (0 \div 2^i) % 2 = 0
    <3>1. \A q \in Nat \ {0} : (0 \div q) % 2 = 0
      OBVIOUS
    <3>2. \A i \in Inputs : 2^i \in Nat \ {0}
      BY Powers, BitHashAssumption DEF Inputs
    <3>. QED
      BY <3>1, <3>2
  <2>3. KeyNumbered(0) = [i \in Inputs |-> 0]
    BY <2>2 DEF KeyNumbered
  <2>. QED
    BY <2>1, <2>3, KeyNumbers
<1>2. ASSUME NEW x \in AbstractKeys, NEW z \in ConcreteKeys
      PROVE  [i \in Inputs |-> z[i] * get_concrete_mask(FirstVariant(x))[i]] = z
  <2>1. \A i \in Inputs : get_concrete_mask(FirstVariant(x))[i] = 1
    BY DEF get_concrete_mask, FirstVariant, AbstractKeys
  <2>2. \A i \in Inputs : z[i] * 1 = z[i]
    BY DEF ConcreteKeys
  <2>3. z = [i \in Inputs |-> z[i]]
    BY DEF ConcreteKeys
  <2>4. \A i \in Inputs : z[i] * get_concrete_mask(FirstVariant(x))[i] = z[i]
    BY <2>1, <2>2
  <2>. QED
    BY <2>3, <2>4
<1>3. ASSUME NEW z \in ConcreteKeys
      PROVE  [i \in Inputs |-> z[i] * [j \in Inputs |-> 0][i]] = [i \in Inputs |-> 0]
  <2>1. \A i \in Inputs : z[i] * [j \in Inputs |-> 0][i] = 0
    BY DEF ConcreteKeys
  <2>. QED
    BY <2>1
<1>. QED
  BY <1>1, <1>2, <1>3

\* What a program knows of the keys: the tables, the number of a key at the key's
\* hash, and a sentinel where no key is.
Knows(p, l, e, sentinel) ==
    /\ p.rom = roms(l) /\ p.concrete \in BOOLEAN
    /\ ~ p.concrete => p.mask = masks(l, e)
    /\ \A x \in DOMAIN e : p.tag[HashOf(l, FirstVariant(x))] = number(FirstVariant(x))
    /\ \A h \in Hashes : (\A x \in DOMAIN e : HashOf(l, FirstVariant(x)) # h) =>
          p.tag[h] = sentinel

\* The tag at the hash of a number decides: it is that of a key, or the sentinel,
\* which is no number of a key if it is 2^wI.
LEMMA HitIsFirst ==
    ASSUME NEW l \in PartialLuts, NEW e, IsKeySet(e), Solves(l, e), NEW p, NEW sentinel,
           Knows(p, l, e, sentinel), NEW n \in 0 .. 2^wI-1
    PROVE  /\ (\E x \in DOMAIN e : KeyNumbered(n) = FirstVariant(x)) => hit(p, n)
           /\ sentinel = 2^wI /\ hit(p, n) =>
                \E x \in DOMAIN e : KeyNumbered(n) = FirstVariant(x)
<1>. DEFINE z == KeyNumbered(n)
            h == hash(p, n)
            seen == IF p.concrete THEN n ELSE number([i \in Inputs |-> z[i] * p.mask[h][i]])
<1>1. z \in ConcreteKeys /\ number(z) = n
  BY KeyNumbers
<1>2. h = HashOf(roms(l), z) /\ h \in Hashes
  BY <1>1, RomsHash DEF hash, Knows
<1>3. hit(p, n) <=> p.tag[h] = seen
  BY <1>2 DEF hit
<1>. HIDE DEF z, h
<1>4. ASSUME NEW x \in DOMAIN e, HashOf(l, FirstVariant(x)) = h
      PROVE  hit(p, n) <=> z = FirstVariant(x)
  <2>1. x \in AbstractKeys
    BY DEF IsKeySet
  <2>2. p.tag[h] = number(FirstVariant(x))
    BY <1>4 DEF Knows
  <2>3. masks(l, e)[h] = get_concrete_mask(FirstVariant(x))
    BY <1>2, <1>4, FilledIs DEF masks
  <2>4. seen = n
    BY <1>1, <2>1, <2>3, Masked DEF Knows
  <2>5. FirstVariant(x) \in ConcreteKeys
    BY <2>1, FirstIsLowest
  <2>. HIDE DEF seen
  <2>. QED
    BY <1>1, <1>3, <2>2, <2>4, <2>5, KeyNumbers
<1>5. ASSUME sentinel = 2^wI, \A x \in DOMAIN e : HashOf(l, FirstVariant(x)) # h
      PROVE  ~ hit(p, n)
  <2>1. p.tag[h] = 2^wI
    BY <1>2, <1>5 DEF Knows
  <2>2. masks(l, e)[h] = [i \in Inputs |-> 0]
    BY <1>2, <1>5, FilledIs DEF masks
  <2>3. ~ p.concrete => seen = 0
    <3>1. ~ p.concrete => [i \in Inputs |-> z[i] * p.mask[h][i]] = [i \in Inputs |-> 0]
      BY <1>1, <2>2, Masked DEF Knows
    <3>. QED
      BY <3>1, Masked
  <2>4. p.concrete => seen = n
    OBVIOUS
  <2>. HIDE DEF seen
  <2>. QED
    BY <1>3, <2>1, <2>3, <2>4, KeyNumbers
<1>6. ASSUME NEW x \in DOMAIN e, z = FirstVariant(x)
      PROVE  HashOf(l, FirstVariant(x)) = h
  <2>1. z \in variants(x)
    BY <1>6, FirstIsLowest DEF IsKeySet
  <2>. QED
    BY <1>2, <1>6, <2>1, RomsHash
<1>. QED
  BY <1>4, <1>5, <1>6 DEF z

\* What a tool's array of tags holds.
LEMMA TagsKnow ==
    ASSUME NEW l \in PartialLuts, NEW e, IsKeySet(e), Solves(l, e), NEW sentinel
    PROVE  /\ \A x \in DOMAIN e :
                /\ HashOf(l, FirstVariant(x)) \in Hashes
                /\ number(FirstVariant(x)) \in 0 .. 2^wI-1
                /\ tags(l, e, sentinel)[HashOf(l, FirstVariant(x))] = number(FirstVariant(x))
           /\ \A h \in Hashes : (\A x \in DOMAIN e : HashOf(l, FirstVariant(x)) # h) =>
                tags(l, e, sentinel)[h] = sentinel
<1>1. ASSUME NEW x \in DOMAIN e
      PROVE  /\ HashOf(l, FirstVariant(x)) \in Hashes
             /\ number(FirstVariant(x)) \in 0 .. 2^wI-1
             /\ tags(l, e, sentinel)[HashOf(l, FirstVariant(x))] = number(FirstVariant(x))
  <2>1. FirstVariant(x) \in variants(x) /\ FirstVariant(x) \in ConcreteKeys
    BY FirstIsLowest DEF IsKeySet
  <2>2. HashOf(l, FirstVariant(x)) \in Hashes /\ number(FirstVariant(x)) \in 0 .. 2^wI-1
    <3>1. HashOf(roms(l), FirstVariant(x)) \in Hashes
      BY <2>1, RomsHash
    <3>2. HashOf(roms(l), FirstVariant(x)) = HashOf(l, FirstVariant(x))
      BY <2>1, RomsHash
    <3>. QED
      BY <2>1, <3>1, <3>2, KeyNumbers
  <2>. QED
    BY <2>2, FilledIs DEF tags
<1>2. ASSUME NEW h \in Hashes, \A x \in DOMAIN e : HashOf(l, FirstVariant(x)) # h
      PROVE  tags(l, e, sentinel)[h] = sentinel
  BY <1>2, FilledIs DEF tags
<1>. QED
  BY <1>1, <1>2

\* The programs of both writers know the keys, with a sentinel that is 2^wI if an
\* unsigned is wider than a key.
LEMMA ProgramsKnow ==
    ASSUME NEW l \in PartialLuts, NEW e, IsKeySet(e), Solves(l, e), NEW w, NEW p,
           p \in CppPrograms(l, e, w) \cup VhdlPrograms(l, e, w)
    PROVE  \E sentinel : Knows(p, l, e, sentinel) /\ (wI < w => sentinel = 2^wI)
<1>1. CASE p \in CppPrograms(l, e, w)
  <2>1. PICK sentinel \in shifted(w) :
           /\ p.rom = roms(l) /\ p.concrete = has_concrete_keys(e)
           /\ p.tag = tags(l, e, sentinel) /\ p.mask = masks(l, e)
    BY <1>1 DEF CppPrograms
  <2>2. wI < w => sentinel = 2^wI
    BY <2>1 DEF shifted
  <2>3. p.concrete \in BOOLEAN
    BY <2>1 DEF has_concrete_keys
  <2>4. Knows(p, l, e, sentinel)
    BY <2>1, <2>3, TagsKnow DEF Knows
  <2>. QED
    BY <2>2, <2>4
<1>2. CASE p \in VhdlPrograms(l, e, w)
  <2>1. PICK sentinel \in shifted(w) :
           /\ p.rom = roms(l) /\ p.concrete = TRUE
           /\ p.tag = [h \in Hashes |-> tags(l, e, sentinel)[h] % 2^(wI+1)]
    BY <1>2 DEF VhdlPrograms
  <2>2. 2^(wI+1) = 2 * 2^wI /\ 2^wI \in Nat \ {0}
    BY KeyNumbers, Powers
  <2>3. \A m \in 0 .. 2^wI : m % 2^(wI+1) = m
    <3>1. \A v \in Nat \ {0} : \A m \in 0 .. v : m % (2 * v) = m
      OBVIOUS
    <3>. QED
      BY <2>2, <3>1
  <2>4. wI < w => sentinel % 2^(wI+1) = 2^wI
    <3>1. wI < w => sentinel = 2^wI
      BY <2>1 DEF shifted
    <3>2. 2^wI \in 0 .. 2^wI
      BY <2>2
    <3>. QED
      BY <2>3, <3>1, <3>2
  <2>5. Knows(p, l, e, sentinel % 2^(wI+1))
    <3>1. ASSUME NEW x \in DOMAIN e
          PROVE  p.tag[HashOf(l, FirstVariant(x))] = number(FirstVariant(x))
      <4>1. number(FirstVariant(x)) \in 0 .. 2^wI /\ HashOf(l, FirstVariant(x)) \in Hashes
        BY <2>2, TagsKnow
      <4>. QED
        BY <2>1, <2>3, <4>1, TagsKnow
    <3>2. ASSUME NEW h \in Hashes, \A x \in DOMAIN e : HashOf(l, FirstVariant(x)) # h
          PROVE  p.tag[h] = sentinel % 2^(wI+1)
      BY <2>1, <3>2, TagsKnow
    <3>. QED
      BY <2>1, <3>1, <3>2 DEF Knows
  <2>. QED
    BY <2>4, <2>5
<1>. QED
  BY <1>1, <1>2

\* They hit the first variant of every key, and nothing else if an unsigned is wider
\* than a key.
LEMMA ProgramsHit ==
    ASSUME NEW l \in PartialLuts, NEW e, IsKeySet(e), Solves(l, e), NEW w, NEW p,
           p \in CppPrograms(l, e, w) \cup VhdlPrograms(l, e, w)
    PROVE  /\ p.rom = roms(l)
           /\ \A x \in DOMAIN e : hit(p, number(FirstVariant(x)))
           /\ wI < w => \A n \in 0 .. 2^wI-1 :
                hit(p, n) => \E x \in DOMAIN e : KeyNumbered(n) = FirstVariant(x)
<1>1. PICK sentinel : Knows(p, l, e, sentinel) /\ (wI < w => sentinel = 2^wI)
  BY ProgramsKnow
<1>2. ASSUME NEW x \in DOMAIN e
      PROVE  hit(p, number(FirstVariant(x)))
  <2>1. FirstVariant(x) \in ConcreteKeys
    BY FirstIsLowest DEF IsKeySet
  <2>2. /\ number(FirstVariant(x)) \in 0 .. 2^wI-1
        /\ KeyNumbered(number(FirstVariant(x))) = FirstVariant(x)
    BY <2>1, KeyNumbers
  <2>. QED
    BY <1>1, <2>2, HitIsFirst
<1>3. wI < w => \A n \in 0 .. 2^wI-1 :
                hit(p, n) => \E x \in DOMAIN e : KeyNumbered(n) = FirstVariant(x)
  BY <1>1, HitIsFirst
<1>. QED
  BY <1>1, <1>2, <1>3 DEF Knows

\* A value that an unsigned holds is read as it is.
LEMMA ReadingIs ==
    ASSUME NEW e, NEW w, NEW reading \in Readings(e, w), NEW x \in DOMAIN e, size(e[x]) <= w
    PROVE  reading[x] = number(e[x])
BY DEF Readings, to_unsigned

\* Every variant of a key finds what the table has for the key.
LEMMA ValueFound ==
    ASSUME NEW l \in PartialLuts, NEW e, IsKeySet(e), Solves(l, e), NEW p, p.rom = roms(l),
           NEW x \in DOMAIN e, NEW y \in variants(x), NEW reading
    PROVE  /\ HashOf(l, FirstVariant(x)) \in Hashes
           /\ hash(p, number(y)) = HashOf(l, FirstVariant(x))
           /\ lookup(p, number(y)) = p.value[HashOf(l, FirstVariant(x))]
           /\ values(l, e, reading)[HashOf(l, FirstVariant(x))] =
                 IF getKeyWidth(e) = 0 THEN 0 ELSE reading[x]
<1>1. y \in ConcreteKeys
  BY DEF variants
<1>2. KeyNumbered(number(y)) = y
  BY <1>1, KeyNumbers
<1>3. HashOf(roms(l), y) = HashOf(l, FirstVariant(x))
  BY RomsHash
<1>4. HashOf(l, FirstVariant(x)) \in Hashes
  BY <1>1, <1>3, RomsHash
<1>5. values(l, e, reading)[HashOf(l, FirstVariant(x))] =
                 IF getKeyWidth(e) = 0 THEN 0 ELSE reading[x]
  BY <1>4, FilledIs DEF values
<1>. QED
  BY <1>2, <1>3, <1>4, <1>5 DEF hash, lookup

\* A value without don't-cares is a number of its bits.
LEMMA ValueNumbers ==
    ASSUME IsKeySet(entries), ConcreteValues, NEW x \in DOMAIN entries
    PROVE  number(entries[x]) % 2^wV = number(entries[x])
<1>1. wV \in Nat /\ entries[x] \in Vectors(wV) /\ is_concrete(entries[x])
  BY KeyValueSetAssumption DEF IsKeySet, ConcreteValues
<1>2. entries[x] \in Bits(wV)
  BY <1>1 DEF is_concrete, Vectors, Bits, Trits
<1>3. number(entries[x]) \in 0 .. 2^wV-1 /\ 2^wV \in Nat
  BY <1>1, <1>2, NumberedOfNumber, Powers
<1>. QED
  BY <1>3

\* The programs find the values that an unsigned holds, ...
LEMMA CppFinds ==
    ASSUME lut \in PartialLuts, IsKeySet(entries), Solves(lut, entries),
           program \in CppPrograms(lut, entries, word), ConcreteValues, ValuesFit,
           getKeyWidth(entries) > 0
    PROVE  FindsValues(wV)
<1>1. PICK reading \in Readings(entries, word) :
         program.rom = roms(lut) /\ program.value = values(lut, entries, reading)
  BY DEF CppPrograms
<1>2. ASSUME NEW x \in DOMAIN entries, NEW y \in variants(x)
      PROVE  lookup(program, number(y)) = number(entries[x]) % 2^wV
  <2>1. lookup(program, number(y)) = program.value[HashOf(lut, FirstVariant(x))]
    BY <1>1, ValueFound
  <2>2. program.value[HashOf(lut, FirstVariant(x))] = reading[x]
    <3>1. values(lut, entries, reading)[HashOf(lut, FirstVariant(x))] = reading[x]
      <4>1. getKeyWidth(entries) # 0
        OBVIOUS
      <4>. QED
        BY <1>1, <4>1, ValueFound
    <3>. QED
      BY <1>1, <3>1
  <2>3. reading[x] = number(entries[x])
    BY ReadingIs DEF ValuesFit
  <2>. QED
    BY <2>1, <2>2, <2>3, ValueNumbers
<1>. QED
  BY <1>2 DEF FindsValues

\* ... and a VHDL design the part that its table is wide enough for.
LEMMA VhdlFinds ==
    ASSUME lut \in PartialLuts, IsKeySet(entries), Solves(lut, entries),
           program \in VhdlPrograms(lut, entries, word), ValuesFit, getKeyWidth(entries) > 0
    PROVE  FindsValues(getKeyWidth(entries))
<1>1. PICK reading \in Readings(entries, word) :
         /\ program.rom = roms(lut)
         /\ program.value = [h \in Hashes |->
                values(lut, entries, reading)[h] % 2^getKeyWidth(entries)]
  BY DEF VhdlPrograms
<1>2. ASSUME NEW x \in DOMAIN entries, NEW y \in variants(x)
      PROVE  lookup(program, number(y)) = number(entries[x]) % 2^getKeyWidth(entries)
  <2>1. /\ lookup(program, number(y)) = program.value[HashOf(lut, FirstVariant(x))]
        /\ HashOf(lut, FirstVariant(x)) \in Hashes
    BY <1>1, ValueFound
  <2>2. values(lut, entries, reading)[HashOf(lut, FirstVariant(x))] = reading[x]
    <3>1. getKeyWidth(entries) # 0
      OBVIOUS
    <3>. QED
      BY <1>1, <3>1, ValueFound
  <2>3. reading[x] = number(entries[x])
    BY ReadingIs DEF ValuesFit
  <2>. QED
    BY <1>1, <2>1, <2>2, <2>3
<1>. QED
  BY <1>2 DEF FindsValues

-----------------------------------------------------------------------------
(* The rows of the test's table.                                            *)

\* The two loops go through the variants of the keys in a strict and total order.
LEMMA VariantsOrdered ==
    ASSUME NEW e, IsKeySet(e)
    PROVE  /\ IsFiniteSet(KeyVariants(e)) /\ Orders(VariantBefore, KeyVariants(e))
           /\ \A x \in DOMAIN e : \A y \in variants(x) : <<x, y>> \in KeyVariants(e)
           /\ \A p \in KeyVariants(e) :
                /\ p = <<p[1], p[2]>> /\ p[1] \in DOMAIN e /\ p[1] \in AbstractKeys
                /\ p[2] \in variants(p[1]) /\ p[2] \in ConcreteKeys
                /\ number(p[2]) \in 0 .. 2^wI-1
           /\ \A p, q \in KeyVariants(e) :
                <<p, q>> \in VariantBefore <=>
                   \/ Less(p[1], q[1])
                   \/ p[1] = q[1] /\ number(p[2]) < number(q[2])
<1>. DEFINE V == KeyVariants(e)
<1>1. DOMAIN e \in SUBSET AbstractKeys /\ IsFiniteSet(DOMAIN e)
  BY DEF IsKeySet
<1>2. \A x \in DOMAIN e : \A y \in variants(x) : <<x, y>> \in V
  BY DEF KeyVariants, variants
<1>3. ASSUME NEW p \in V
      PROVE  /\ p = <<p[1], p[2]>> /\ p[1] \in DOMAIN e /\ p[1] \in AbstractKeys
             /\ p[2] \in variants(p[1]) /\ p[2] \in ConcreteKeys
             /\ number(p[2]) \in 0 .. 2^wI-1
  <2>1. p \in (DOMAIN e) \X ConcreteKeys /\ p[2] \in variants(p[1])
    BY DEF KeyVariants
  <2>. QED
    BY <1>1, <2>1, KeyNumbers
<1>4. ASSUME NEW p \in V, NEW q \in V
      PROVE  <<p, q>> \in VariantBefore <=>
                   \/ Less(p[1], q[1])
                   \/ p[1] = q[1] /\ number(p[2]) < number(q[2])
  <2>1. /\ p \in AbstractKeys \X ConcreteKeys /\ q \in AbstractKeys \X ConcreteKeys
        /\ p[1] \in AbstractKeys /\ q[1] \in AbstractKeys
    BY <1>3
  <2>2. <<p[1], q[1]>> \in Before <=> Less(p[1], q[1])
    BY <2>1 DEF Before
  <2>. QED
    BY <2>1, <2>2 DEF VariantBefore
<1>5. IsFiniteSet(V)
  <2>1. IsFiniteSet((DOMAIN e) \X ConcreteKeys)
    BY <1>1, ConcreteFinite, FS_Product
  <2>2. V \in SUBSET ((DOMAIN e) \X ConcreteKeys)
    BY DEF KeyVariants
  <2>. QED
    BY <2>1, <2>2, FS_Subset
<1>. HIDE DEF V
<1>6. ASSUME NEW p \in V
      PROVE  <<p, p>> \notin VariantBefore
  BY <1>3, <1>4, LessIsOrder, KeyNumbers
<1>7. ASSUME NEW p \in V, NEW q \in V, NEW r \in V,
             <<p, q>> \in VariantBefore, <<q, r>> \in VariantBefore
      PROVE  <<p, r>> \in VariantBefore
  <2>1. /\ p[1] \in AbstractKeys /\ q[1] \in AbstractKeys /\ r[1] \in AbstractKeys
        /\ number(p[2]) \in Int /\ number(q[2]) \in Int /\ number(r[2]) \in Int
    BY <1>3, KeyNumbers
  <2>2. Less(p[1], q[1]) /\ Less(q[1], r[1]) => Less(p[1], r[1])
    BY <2>1, LessIsOrder
  <2>3. Less(p[1], q[1]) \/ (p[1] = q[1] /\ number(p[2]) < number(q[2]))
    BY <1>4, <1>7
  <2>4. Less(q[1], r[1]) \/ (q[1] = r[1] /\ number(q[2]) < number(r[2]))
    BY <1>4, <1>7
  <2>5. number(p[2]) < number(q[2]) /\ number(q[2]) < number(r[2])
           => number(p[2]) < number(r[2])
    BY <2>1
  <2>6. Less(p[1], r[1]) \/ (p[1] = r[1] /\ number(p[2]) < number(r[2]))
    BY <2>2, <2>3, <2>4, <2>5, Zenon
  <2>. QED
    BY <1>4, <2>6
<1>8. ASSUME NEW p \in V, NEW q \in V, p # q
      PROVE  <<p, q>> \in VariantBefore \/ <<q, p>> \in VariantBefore
  <2>1. CASE p[1] # q[1]
    BY <1>3, <1>4, <2>1, LessIsOrder
  <2>2. CASE p[1] = q[1]
    <3>1. p[2] # q[2] /\ p[2] \in ConcreteKeys /\ q[2] \in ConcreteKeys
      BY <1>3, <1>8, <2>2
    <3>2. number(p[2]) # number(q[2])
      BY <3>1, KeyNumbers
    <3>3. number(p[2]) \in Int /\ number(q[2]) \in Int
      BY <1>3, KeyNumbers
    <3>. QED
      BY <1>4, <2>2, <3>2, <3>3
  <2>. QED
    BY <2>1, <2>2
<1>9. Orders(VariantBefore, V)
  BY <1>6, <1>7, <1>8 DEF Orders
<1>. QED
  BY <1>2, <1>3, <1>4, <1>5, <1>9 DEF V

\* What the test's loop needs to know of the rows, when F are the first variants.
WellOrdered(row, F) ==
    /\ Len(row) \in Nat
    /\ \A r \in 1 .. Len(row) : row[r].key \in 0 .. 2^wI-1
    /\ \A q, r \in 1 .. Len(row) : row[q].key = row[r].key => q = r
    /\ \A y \in F : \E r \in 1 .. Len(row) : row[r].key = number(y)
    /\ \A r \in 1 .. Len(row) :
          KeyNumbered(row[r].key) \notin F => r > 1 /\ row[r-1].key < row[r].key

\* The rows are those of the variants of the keys, and ascend if there are no others.
RowsMatch(row, l, e, reading) ==
    /\ \A r \in 1 .. Len(row) : \E x \in DOMAIN e : \E y \in variants(x) :
          row[r] = [key |-> number(y), hash |-> HashOf(l, FirstVariant(x)),
                    value |-> reading[x]]
    /\ \A x \in DOMAIN e : \A y \in variants(x) :
          \E r \in 1 .. Len(row) : row[r].key = number(y)
    /\ has_concrete_keys(e) =>
          \A q, r \in 1 .. Len(row) : q < r => row[q].key < row[r].key

\* The rows keep their places when one more comes last.
Extendable(row) ==
    \A last : /\ Len(Append(row, last)) = Len(row) + 1
              /\ Append(row, last)[Len(row) + 1] = last
              /\ \A r \in 1 .. Len(row) : Append(row, last)[r] = row[r]

\* Every variant has its row, after a lower one of the same key or as the first one.
LEMMA RowsWellOrdered ==
    ASSUME NEW l, NEW e, IsKeySet(e), ~ Ambiguous(e), NEW reading
    PROVE  /\ WellOrdered(Rows(l, e, reading), {FirstVariant(x) : x \in DOMAIN e})
           /\ RowsMatch(Rows(l, e, reading), l, e, reading)
           /\ Extendable(Rows(l, e, reading))
<1>. DEFINE V == KeyVariants(e)
            n == Cardinality(V)
            o == Ranked(V, VariantBefore)
            row == Rows(l, e, reading)
            F == {FirstVariant(x) : x \in DOMAIN e}
            Row(p) == [key |-> number(p[2]), hash |-> HashOf(l, FirstVariant(p[1])),
                       value |-> reading[p[1]]]
<1>1. IsFiniteSet(V) /\ Orders(VariantBefore, V)
  BY VariantsOrdered
<1>2. \A x \in DOMAIN e : \A y \in variants(x) : <<x, y>> \in V
  BY VariantsOrdered
<1>3. \A p \in V : /\ p = <<p[1], p[2]>> /\ p[1] \in DOMAIN e /\ p[1] \in AbstractKeys
                   /\ p[2] \in variants(p[1]) /\ p[2] \in ConcreteKeys
                   /\ number(p[2]) \in 0 .. 2^wI-1
  BY VariantsOrdered
<1>4. \A p, q \in V : <<p, q>> \in VariantBefore <=>
                   \/ Less(p[1], q[1])
                   \/ p[1] = q[1] /\ number(p[2]) < number(q[2])
  BY VariantsOrdered
<1>5. row = [r \in DOMAIN o |-> Row(o[r])]
  BY DEF Rows
<1>. HIDE DEF V, row, Row
<1>6. /\ n \in Nat /\ o \in [1 .. n -> V]
      /\ \A p \in V : \E r \in 1 .. n : o[r] = p
      /\ \A q, r \in 1 .. n : o[q] = o[r] => q = r
      /\ \A q, r \in 1 .. n : <<o[q], o[r]>> \in VariantBefore <=> q < r
  BY <1>1, RankedIsOrdered
<1>. HIDE DEF n, o
<1>7. row = [r \in 1 .. n |-> Row(o[r])]
  BY <1>5, <1>6
<1>8. row \in Seq({row[r] : r \in 1 .. n}) /\ Len(row) = n
  <2>1. row \in [1 .. n -> {row[r] : r \in 1 .. n}]
    BY <1>7
  <2>. QED
    BY <1>6, <2>1
<1>9. \A last : /\ Len(Append(row, last)) = n + 1 /\ Append(row, last)[n + 1] = last
                /\ \A r \in 1 .. n : Append(row, last)[r] = row[r]
  <2>1. ASSUME NEW S, row \in Seq(S), NEW last
        PROVE  /\ Len(Append(row, last)) = n + 1 /\ Append(row, last)[n + 1] = last
               /\ \A r \in 1 .. n : Append(row, last)[r] = row[r]
    BY <1>6, <1>8, <2>1
  <2>. QED
    BY <1>8, <2>1
<1>10. ASSUME NEW r \in 1 .. n
       PROVE  /\ o[r] \in V /\ row[r] = Row(o[r]) /\ row[r].key = number(o[r][2])
              /\ row[r].key \in 0 .. 2^wI-1 /\ row[r].key \in Int
              /\ KeyNumbered(row[r].key) = o[r][2]
  <2>1. o[r] \in V /\ row[r] = Row(o[r])
    BY <1>6, <1>7
  <2>2. row[r].key = number(o[r][2])
    BY <2>1 DEF Row
  <2>3. number(o[r][2]) \in 0 .. 2^wI-1 /\ o[r][2] \in ConcreteKeys
    BY <1>3, <2>1
  <2>. QED
    BY <2>1, <2>2, <2>3, KeyNumbers
<1>11. ASSUME NEW q \in 1 .. n, NEW r \in 1 .. n, row[q].key = row[r].key
       PROVE  q = r
  <2>1. o[q][2] = o[r][2]
    BY <1>10, <1>11
  <2>2. /\ o[q][2] \in variants(o[q][1]) /\ o[r][2] \in variants(o[r][1])
        /\ o[q][1] \in DOMAIN e /\ o[r][1] \in DOMAIN e
    BY <1>3, <1>10
  <2>3. o[q][1] = o[r][1]
    BY <2>1, <2>2 DEF Ambiguous
  <2>4. o[q] = o[r]
    <3>1. o[q] = <<o[q][1], o[q][2]>> /\ o[r] = <<o[r][1], o[r][2]>>
      BY <1>3, <1>10
    <3>. QED
      BY <2>1, <2>3, <3>1
  <2>. QED
    BY <1>6, <2>4
<1>12. ASSUME NEW x \in DOMAIN e, NEW y \in variants(x)
       PROVE  \E r \in 1 .. n : o[r] = <<x, y>> /\ row[r].key = number(y)
  <2>1. <<x, y>> \in V
    BY <1>2
  <2>2. PICK r \in 1 .. n : o[r] = <<x, y>>
    BY <1>6, <2>1
  <2>3. o[r][2] = y
    BY <2>2
  <2>. QED
    BY <1>10, <2>2, <2>3
<1>13. \A y \in F : \E r \in 1 .. n : row[r].key = number(y)
  <2>1. \A x \in DOMAIN e : FirstVariant(x) \in variants(x)
    BY FirstIsLowest DEF IsKeySet
  <2>. QED
    BY <1>12, <2>1
<1>14. ASSUME NEW r \in 1 .. n, KeyNumbered(row[r].key) \notin F
       PROVE  r > 1 /\ row[r-1].key < row[r].key
  <2>. DEFINE x == o[r][1]
              y == o[r][2]
              f == FirstVariant(x)
  <2>1. /\ o[r] \in V /\ x \in DOMAIN e /\ y \in variants(x) /\ y \notin F
        /\ number(y) \in Int /\ x \in AbstractKeys
    BY <1>3, <1>10, <1>14
  <2>2. y # f /\ f \in variants(x)
    BY <2>1, FirstIsLowest
  <2>3. number(f) < number(y)
    BY <2>1, <2>2, FirstIsLowest
  <2>4. PICK q \in 1 .. n : o[q] = <<x, f>>
    BY <1>12, <2>1, <2>2
  <2>5. o[q][1] = x /\ o[q][2] = f /\ o[q] \in V
    BY <1>6, <2>4
  <2>. HIDE DEF x, y, f
  <2>6. q < r
    <3>1. <<o[q], o[r]>> \in VariantBefore
      BY <1>4, <2>1, <2>3, <2>5 DEF x, y
    <3>. QED
      BY <1>6, <3>1
  <2>7. r > 1 /\ r - 1 \in 1 .. n
    BY <1>6, <2>6
  <2>8. o[r-1] \in V
    BY <1>6, <2>7
  <2>9. o[r-1][1] = x /\ number(o[r-1][2]) < number(y)
    <3>1. <<o[r-1], o[r]>> \in VariantBefore
      BY <1>6, <2>7
    <3>2. \/ Less(o[r-1][1], x)
          \/ o[r-1][1] = x /\ number(o[r-1][2]) < number(y)
      BY <1>4, <2>1, <2>8, <3>1 DEF x, y
    <3>3. ~ Less(o[r-1][1], x)
      <4>1. SUFFICES ASSUME Less(o[r-1][1], x) PROVE FALSE
        OBVIOUS
      <4>2. <<o[r-1], o[q]>> \in VariantBefore
        BY <1>4, <2>5, <2>8, <4>1
      <4>3. r - 1 < q
        BY <1>6, <2>7, <4>2
      <4>. QED
        BY <1>6, <2>6, <4>3
    <3>. QED
      BY <3>2, <3>3
  <2>. QED
    BY <1>10, <2>7, <2>9 DEF y
<1>15. ASSUME has_concrete_keys(e), NEW q \in 1 .. n, NEW r \in 1 .. n, q < r
       PROVE  row[q].key < row[r].key
  <2>1. /\ o[q] \in V /\ o[r] \in V
        /\ Less(o[q][1], o[r][1])
             \/ (o[q][1] = o[r][1] /\ number(o[q][2]) < number(o[r][2]))
    BY <1>4, <1>6, <1>15
  <2>2. \A p \in V : p[2] = p[1] /\ p[1] \in ConcreteKeys
    <3>1. ASSUME NEW p \in V
          PROVE  p[2] = p[1] /\ p[1] \in ConcreteKeys
      <4>1. /\ is_concrete(p[1]) /\ p[1] \in AbstractKeys
            /\ p[2] \in variants(p[1]) /\ p[2] \in ConcreteKeys
        BY <1>3, <1>15 DEF has_concrete_keys
      <4>2. variants(p[1]) = {p[1]}
        BY <4>1, FirstIsLowest
      <4>. QED
        BY <4>1, <4>2
    <3>. QED
      BY <3>1
  <2>3. Less(o[q][1], o[r][1]) => number(o[q][2]) < number(o[r][2])
    BY <2>1, <2>2, LessIsLower
  <2>. QED
    BY <1>10, <2>1, <2>3
<1>16. WellOrdered(row, F)
  <2>. HIDE DEF F
  <2>. QED
    BY <1>6, <1>8, <1>10, <1>11, <1>13, <1>14 DEF WellOrdered
<1>17. ASSUME NEW r \in 1 .. n
       PROVE  \E x \in DOMAIN e : \E y \in variants(x) :
                row[r] = [key |-> number(y), hash |-> HashOf(l, FirstVariant(x)),
                          value |-> reading[x]]
  <2>1. o[r][1] \in DOMAIN e /\ o[r][2] \in variants(o[r][1])
    BY <1>3, <1>10
  <2>. QED
    BY <1>10, <2>1 DEF Row
<1>. HIDE DEF F
<1>18. /\ \A x \in DOMAIN e : \A y \in variants(x) : \E r \in 1 .. n : row[r].key = number(y)
       /\ has_concrete_keys(e) => \A q, r \in 1 .. n : q < r => row[q].key < row[r].key
  BY <1>12, <1>15
<1>19. RowsMatch(row, l, e, reading)
  BY <1>8, <1>17, <1>18 DEF RowsMatch
<1>20. Extendable(row)
  BY <1>8, <1>9 DEF Extendable
<1>. QED
  BY <1>16, <1>19, <1>20 DEF row, F

-----------------------------------------------------------------------------
(* The loop of the generated test, over the numbers n, with c the row that  *)
(* is expected next.                                                        *)

\* The rows before c are behind the loop, are first variants, and are all of them;
\* row c is still ahead.
InLoop(row, F, n, c) ==
    /\ n \in 0 .. 2^wI /\ c \in 1 .. Len(row)+1
    /\ \A r \in 1 .. c-1 : row[r].key < n /\ KeyNumbered(row[r].key) \in F
    /\ \A m \in 0 .. n-1 : KeyNumbered(m) \in F => \E r \in 1 .. c-1 : row[r].key = m
    /\ c <= Len(row) => row[c].key >= n

\* At 0, nothing has been met and the first row is expected.
LEMMA LoopStarts ==
    ASSUME NEW row, NEW F, WellOrdered(row, F)
    PROVE  InLoop(row, F, 0, 1)
<1>1. Len(row) \in Nat /\ \A r \in 1 .. Len(row) : row[r].key \in 0 .. 2^wI-1
  BY DEF WellOrdered
<1>2. 0 \in 0 .. 2^wI /\ 1 \in 1 .. Len(row)+1
  BY <1>1, KeyNumbers
<1>3. 1 .. 1-1 = {} /\ 0 .. 0-1 = {}
  OBVIOUS
<1>4. 1 <= Len(row) => row[1].key >= 0
  BY <1>1, KeyNumbers
<1>. QED
  BY <1>2, <1>3, <1>4 DEF InLoop

\* A row that the loop has passed would be the row of no first variant, and so come
\* right after a lower one; the loop expects it before it gets there.
LEMMA LoopTurns ==
    ASSUME NEW row, NEW F, WellOrdered(row, F), NEW n \in 0 .. 2^wI-1, NEW c,
           InLoop(row, F, n, c)
    PROVE  /\ c <= Len(row) /\ n = row[c].key /\ KeyNumbered(n) \in F
                => InLoop(row, F, n+1, c+1)
           /\ (c <= Len(row) => n # row[c].key) /\ KeyNumbered(n) \notin F
                => InLoop(row, F, n+1, c)
<1>. DEFINE R == Len(row)
            K(r) == row[r].key
            In(m) == KeyNumbered(m) \in F
<1>1. /\ R \in Nat /\ 2^wI \in Nat /\ n \in Nat /\ n + 1 \in 0 .. 2^wI
      /\ \A r \in 1 .. R : K(r) \in Int
      /\ \A q, r \in 1 .. R : K(q) = K(r) => q = r
      /\ \A r \in 1 .. R : ~ In(K(r)) => r > 1 /\ K(r-1) < K(r)
  BY KeyNumbers DEF WellOrdered
<1>2. /\ c \in 1 .. R+1
      /\ \A r \in 1 .. c-1 : K(r) < n /\ In(K(r))
      /\ \A m \in 0 .. n-1 : In(m) => \E r \in 1 .. c-1 : K(r) = m
      /\ c <= R => K(c) >= n
  BY DEF InLoop
<1>3. \A r \in 1 .. R : K(r) \in Nat
  BY KeyNumbers DEF WellOrdered
<1>. HIDE DEF R, K, In
<1>4. ASSUME c <= R, n = K(c), In(n)
      PROVE  InLoop(row, F, n+1, c+1)
  <2>1. \A r \in 1 .. (c+1)-1 : K(r) < n+1 /\ In(K(r))
    BY <1>1, <1>2, <1>4
  <2>2. ASSUME NEW m \in 0 .. (n+1)-1, In(m)
        PROVE  \E r \in 1 .. (c+1)-1 : K(r) = m
    <3>1. CASE m = n
      BY <1>2, <1>4, <3>1
    <3>2. CASE m # n
      <4>1. m \in 0 .. n-1
        BY <1>1, <3>2
      <4>2. PICK r \in 1 .. c-1 : K(r) = m
        BY <1>2, <2>2, <4>1
      <4>. QED
        BY <1>2, <4>2
    <3>. QED
      BY <3>1, <3>2
  <2>3. ASSUME c + 1 <= R
        PROVE  K(c+1) >= n+1
    <3>1. c \in 1 .. R /\ c + 1 \in 1 .. R /\ c + 1 # c /\ (c + 1) - 1 = c
      BY <1>1, <1>2, <2>3
    <3>2. K(c+1) # n /\ K(c+1) \in Nat
      BY <1>1, <1>3, <1>4, <3>1
    <3>3. K(c+1) < n => ~ In(K(c+1))
      <4>1. SUFFICES ASSUME K(c+1) < n, In(K(c+1)) PROVE FALSE
        OBVIOUS
      <4>2. PICK r \in 1 .. c-1 : K(r) = K(c+1)
        BY <1>1, <1>2, <3>2, <4>1
      <4>3. r \in 1 .. R /\ r # c+1
        BY <1>1, <1>2, <3>1
      <4>. QED
        BY <1>1, <3>1, <4>2, <4>3
    <3>4. K(c+1) < n => K(c) < K(c+1)
      BY <1>1, <3>1, <3>3
    <3>. QED
      BY <1>1, <1>4, <3>2, <3>4
  <2>4. c + 1 \in 1 .. R+1
    BY <1>1, <1>2, <1>4
  <2>. QED
    BY <1>1, <2>1, <2>2, <2>3, <2>4 DEF InLoop, R, K, In
<1>5. ASSUME c <= R => n # K(c), ~ In(n)
      PROVE  InLoop(row, F, n+1, c)
  <2>1. \A r \in 1 .. c-1 : K(r) < n+1 /\ In(K(r))
    <3>1. \A r \in 1 .. c-1 : r \in 1 .. R
      BY <1>1, <1>2
    <3>. QED
      BY <1>1, <1>2, <3>1
  <2>2. ASSUME NEW m \in 0 .. (n+1)-1, In(m)
        PROVE  \E r \in 1 .. c-1 : K(r) = m
    <3>1. m # n
      BY <1>5, <2>2
    <3>2. m \in 0 .. n-1
      BY <1>1, <3>1
    <3>. QED
      BY <1>2, <2>2, <3>2
  <2>3. c <= R => K(c) >= n+1
    <3>1. c <= R => c \in 1 .. R
      BY <1>1, <1>2
    <3>. QED
      BY <1>1, <1>2, <1>5, <3>1
  <2>. QED
    BY <1>1, <1>2, <2>1, <2>2, <2>3 DEF InLoop, R, K, In
<1>. QED
  BY <1>4, <1>5 DEF R, K, In

\* A loop that gets to its end has met every row.
LEMMA LoopEnds ==
    ASSUME NEW row, NEW F, WellOrdered(row, F), NEW c, InLoop(row, F, 2^wI, c)
    PROVE  c = Len(row) + 1 /\ \A r \in 1 .. Len(row) : KeyNumbered(row[r].key) \in F
<1>1. Len(row) \in Nat /\ \A r \in 1 .. Len(row) : row[r].key \in 0 .. 2^wI-1
  BY DEF WellOrdered
<1>2. c \in 1 .. Len(row)+1 /\ (c <= Len(row) => row[c].key >= 2^wI)
  BY DEF InLoop
<1>3. c = Len(row) + 1
  <2>1. ASSUME c <= Len(row)
        PROVE  FALSE
    <3>1. row[c].key \in 0 .. 2^wI-1 /\ 2^wI \in Nat
      BY <1>1, <1>2, <2>1, KeyNumbers
    <3>. QED
      BY <1>2, <2>1, <3>1
  <2>. QED
    BY <1>1, <1>2, <2>1
<1>4. 1 .. c-1 = 1 .. Len(row)
  BY <1>1, <1>3
<1>. QED
  BY <1>3, <1>4 DEF InLoop

\* If the keys of the rows ascend, a first variant is met at its own row.
LEMMA LoopExact ==
    ASSUME NEW row, NEW F, WellOrdered(row, F), NEW n \in 0 .. 2^wI-1, NEW c,
           InLoop(row, F, n, c), KeyNumbered(n) \in F,
           \A q, r \in 1 .. Len(row) : q < r => row[q].key < row[r].key
    PROVE  c <= Len(row) /\ row[c].key = n
<1>1. /\ Len(row) \in Nat /\ c \in 1 .. Len(row)+1
      /\ \A r \in 1 .. Len(row) : row[r].key \in 0 .. 2^wI-1
  BY DEF WellOrdered, InLoop
<1>2. PICK r \in 1 .. Len(row) : row[r].key = n
  BY KeyNumbers DEF WellOrdered
<1>3. n \in Int /\ 2^wI \in Nat
  BY KeyNumbers
<1>4. ~ r < c
  <2>1. r < c => r \in 1 .. c-1
    BY <1>1
  <2>. QED
    BY <1>2, <1>3, <2>1 DEF InLoop
<1>5. ~ c < r
  <2>1. c < r => c \in 1 .. Len(row) /\ c <= Len(row)
    BY <1>1
  <2>2. c < r => row[c].key < n /\ row[c].key >= n /\ row[c].key \in Int
    BY <1>1, <1>2, <1>3, <2>1 DEF InLoop
  <2>. QED
    BY <1>3, <2>2
<1>. QED
  BY <1>1, <1>2, <1>4, <1>5

-----------------------------------------------------------------------------
(* The invariant of the generated programs and their tests.                 *)

\* The stages at which a C++ program, or a design, has been written.
Tested  == {"cpp_test", "passed", "failed"}
Written == Tested \cup {"written"}

\* The solution on its way: what is printed, parsed and written solves the key set
\* that travels with it.
HashInv ==
    /\ stage = "read" => \E l \in Candidates : Solves(l, InFlight) /\ luts = HashText(l)
    /\ stage = "reparse" => lut \in Candidates /\ Solves(lut, InFlight)
    /\ stage \in {"write"} \cup Written => lut \in Candidates /\ Solves(lut, entries)

\* The program is one that the writer makes of both.
MadeInv ==
    /\ stage \in Tested => program \in CppPrograms(lut, entries, word) /\ ConcreteValues
    /\ stage = "written" => program \in VhdlPrograms(lut, entries, word)

\* A test under way, over rows whose values were read as reading: it stands in the order
\* of the rows, and the program has found the values of those that it has met.
Looping(reading) ==
    /\ reading \in Readings(entries, word)
    /\ program.row = Append(Rows(lut, entries, reading), LastRow(program.limit))
    /\ InLoop(Rows(lut, entries, reading), FirstVariants, tested, curr)
    /\ \A r \in 1 .. curr-1 :
          lookup(program, Rows(lut, entries, reading)[r].key)
             = Rows(lut, entries, reading)[r].value

\* The loop of the test starts at its first key and row, and its bound is 2^wI if an
\* unsigned is wider than a key; then a verdict is right if unsigneds hold the values.
TestInv ==
    /\ stage \notin Tested => tested = 0 /\ curr = 1
    /\ stage = "cpp_test" /\ wI < word =>
          program.limit = 2^wI /\ \E reading : Looping(reading)
    /\ wI < word /\ ValuesFit =>
          /\ stage = "failed" => ~ IsRight
          /\ stage = "passed" => IsRight /\ curr = Len(program.row)

ProgramInv == ChainInv /\ HashInv /\ MadeInv /\ TestInv

\* The invariant holds when the first tool starts.
LEMMA ProgramInitInv == ChainInit => ProgramInv
<1>. SUFFICES ASSUME ChainInit
             PROVE  ProgramInv
  OBVIOUS
<1>1. ChainInv
  BY ChainInitInv
<1>2. tested = 0 /\ curr = 1 /\ stage \in {"draw", "parse"}
  BY DEF ChainInit
<1>. QED
  BY <1>1, <1>2 DEF ProgramInv, HashInv, MadeInv, TestInv, Tested, Written

\* Before a program is written, there is nothing to know of it.
LEMMA NotWrittenYet ==
    ASSUME stage \notin Written, stage' \notin Written,
           tested = 0 /\ curr = 1 => tested' = 0 /\ curr' = 1, TestInv
    PROVE  MadeInv' /\ TestInv'
BY DEF MadeInv, TestInv, Tested, Written

\* The tools that draw, print and parse key sets and hashes, and the search.
LEMMA CarryingProgram ==
    ASSUME ProgramInv, ChainInv', Kept,
           \/ PrintKeys \/ ParseLine \/ ParseEnd \/ Solve \/ GiveUp \/ Abort \/ ReadHash
           \/ WriteNothing \/ \E x \in AbstractKeys : Draw(x)
    PROVE  ProgramInv'
<1>1. MadeInv' /\ TestInv'
  <2>1. /\ stage \in {"draw", "parse", "reparse", "solve", "read", "write"}
        /\ stage' \in {"draw", "parse", "reparse", "solve", "read", "write",
                       "rejected", "unsolved", "aborted", "refused"}
        /\ tested' = tested /\ curr' = curr
    BY DEF PrintKeys, ParseLine, ParseEnd, Solve, GiveUp, Abort, ReadHash, WriteNothing, Draw
  <2>2. stage \notin Written /\ stage' \notin Written
    BY <2>1 DEF Written, Tested
  <2>. QED
    BY <2>1, <2>2, NotWrittenYet DEF ProgramInv
<1>2. stage # "draw" => InFlight' = InFlight
  BY DEF Kept
<1>3. CASE PrintKeys \/ GiveUp \/ Abort \/ WriteNothing \/ \E x \in AbstractKeys : Draw(x)
  <2>1. stage' \in {"draw", "parse", "rejected", "unsolved", "aborted", "refused"}
    BY <1>3 DEF PrintKeys, GiveUp, Abort, WriteNothing, Draw
  <2>2. HashInv'
    BY <2>1 DEF HashInv, Written, Tested
  <2>. QED
    BY <1>1, <2>2 DEF ProgramInv
<1>4. CASE ParseLine
  <2>1. stage' \in {stage, "rejected"} /\ stage \in {"parse", "reparse"} /\ lut' = lut
    BY <1>4 DEF ParseLine
  <2>2. HashInv'
    BY <1>2, <2>1 DEF ProgramInv, HashInv, Written, Tested
  <2>. QED
    BY <1>1, <2>2 DEF ProgramInv
<1>5. CASE ParseEnd
  <2>1. /\ stage' \in {"rejected", "solve", "write"} /\ lut' = lut /\ entries' = entries
        /\ stage' = "write" => stage = "reparse"
        /\ lines = <<>> /\ IsKeySet(entries)
    BY <1>5 DEF ParseEnd, ProgramInv, ChainInv
  <2>2. InFlight = entries
    BY <2>1, InFlightIs, FlightArrived
  <2>3. stage' = "write" => lut' \in Candidates /\ Solves(lut', entries')
    BY <2>1, <2>2 DEF ProgramInv, HashInv
  <2>4. HashInv'
    BY <2>1, <2>3 DEF HashInv, Written, Tested
  <2>. QED
    BY <1>1, <2>4 DEF ProgramInv
<1>6. CASE Solve
  <2>1. stage = "solve" /\ stage' = "read" /\ lines = <<>> /\ IsKeySet(entries)
    BY <1>6 DEF Solve, ProgramInv, ChainInv, Checked
  <2>2. PICK l \in Candidates : /\ Decided(l) /\ is_solution(l, DOMAIN entries)
                                /\ luts' = [t \in Tables |-> to_string(Vector(l, t))]
    BY <1>6 DEF Solve
  <2>3. InFlight' = entries
    BY <1>2, <2>1, InFlightIs, FlightArrived
  <2>4. Solves(l, InFlight')
    BY <2>2, <2>3 DEF Solves, Decided
  <2>5. luts' = HashText(l)
    BY <2>2 DEF HashText
  <2>6. HashInv'
    BY <2>1, <2>4, <2>5 DEF HashInv, Written, Tested
  <2>. QED
    BY <1>1, <2>6 DEF ProgramInv
<1>7. CASE ReadHash
  <2>1. stage = "read" /\ stage' = "reparse"
    BY <1>7 DEF ReadHash
  <2>2. PICK l \in Candidates : Solves(l, InFlight) /\ luts = HashText(l)
    BY <2>1 DEF ProgramInv, HashInv
  <2>3. l \in PartialLuts
    BY WriteFpgaHashAssumption
  <2>4. lut' = l
    <3>1. lut' = [b \in LutBits |->
                    parse_bit_vector(HashText(l)[b[1]], Cardinality(Addresses(b[1])))[
                        number([j \in 0 .. Len(b[2])-1 |-> b[2][j+1]])]]
      BY <1>7, <2>2 DEF ReadHash
    <3>. QED
      BY <2>3, <3>1, HashComesBack
  <2>5. lut' \in Candidates /\ Solves(lut', InFlight')
    BY <1>2, <2>1, <2>2, <2>4
  <2>6. HashInv'
    BY <2>1, <2>5 DEF HashInv, Written, Tested
  <2>. QED
    BY <1>1, <2>6 DEF ProgramInv
<1>. QED
  BY <1>3, <1>4, <1>5, <1>6, <1>7

\* Where a written program stands, and what it hits.
LEMMA Programs ==
    ASSUME ProgramInv, stage \in Written
    PROVE  /\ lut \in PartialLuts /\ IsKeySet(entries) /\ ~ Ambiguous(entries)
           /\ Solves(lut, entries) /\ program.rom = roms(lut)
           /\ \A x \in DOMAIN entries : hit(program, number(FirstVariant(x)))
           /\ wI < word => \A n \in 0 .. 2^wI-1 :
                 hit(program, n) => KeyNumbered(n) \in FirstVariants
           /\ wI < word => HitsOnlyKeys
<1>1. /\ lut \in Candidates /\ Solves(lut, entries)
      /\ program \in CppPrograms(lut, entries, word) \cup VhdlPrograms(lut, entries, word)
  BY DEF ProgramInv, HashInv, MadeInv, Written
<1>2. IsKeySet(entries) /\ ~ Ambiguous(entries)
  BY DEF ProgramInv, ChainInv, Checked, Written, Tested
<1>3. lut \in PartialLuts
  BY <1>1, WriteFpgaHashAssumption
<1>4. /\ program.rom = roms(lut)
      /\ \A x \in DOMAIN entries : hit(program, number(FirstVariant(x)))
      /\ wI < word => \A n \in 0 .. 2^wI-1 :
            hit(program, n) => \E x \in DOMAIN entries : KeyNumbered(n) = FirstVariant(x)
  BY <1>1, <1>2, <1>3, ProgramsHit
<1>5. \A x \in DOMAIN entries : FirstVariant(x) \in variants(x)
  BY <1>2, FirstIsLowest DEF IsKeySet
<1>. QED
  BY <1>1, <1>2, <1>3, <1>4, <1>5 DEF FirstVariants, HitsOnlyKeys

\* If every variant is a first variant, no key has don't-cares.
LEMMA FirstsOnly ==
    ASSUME IsKeySet(entries), ~ Ambiguous(entries),
           \A x \in DOMAIN entries : \A y \in variants(x) : y \in FirstVariants
    PROVE  has_concrete_keys(entries)
<1>1. SUFFICES ASSUME NEW x \in DOMAIN entries, ~ is_concrete(x)
               PROVE  FALSE
  BY DEF has_concrete_keys
<1>2. x \in AbstractKeys
  BY DEF IsKeySet
<1>3. PICK y \in variants(x) : y # FirstVariant(x)
  BY <1>1, <1>2, FirstIsLowest
<1>4. PICK z \in DOMAIN entries : y = FirstVariant(z)
  BY <1>3 DEF FirstVariants
<1>5. y \in variants(z) \cap variants(x)
  BY <1>3, <1>4, FirstIsLowest DEF IsKeySet
<1>6. z = x
  BY <1>5 DEF Ambiguous
<1>. QED
  BY <1>3, <1>4, <1>6

\* A C++ program is written, and its test starts; or a VHDL design.
LEMMA WritingProgram ==
    ASSUME ProgramInv, ChainInv', Kept, WriteCpp \/ WriteVhdl
    PROVE  ProgramInv'
<1>1. /\ stage = "write" /\ tested' = 0 /\ curr' = 1 /\ lut' = lut /\ entries' = entries
      /\ word' = word /\ lut \in Candidates /\ Solves(lut, entries)
      /\ IsKeySet(entries) /\ ~ Ambiguous(entries)
  BY DEF WriteCpp, WriteVhdl, ProgramInv, HashInv, TestInv, Tested, ChainInv, Checked
<1>2. CASE WriteCpp
  <2>1. /\ stage' = "cpp_test" /\ program' \in CppPrograms(lut, entries, word) /\ ConcreteValues
    BY <1>2 DEF WriteCpp
  <2>2. HashInv' /\ MadeInv'
    BY <1>1, <2>1 DEF HashInv, MadeInv, Written, Tested, ConcreteValues
  <2>3. ASSUME wI < word
        PROVE  program'.limit = 2^wI /\ \E reading : Looping(reading)'
    <3>1. PICK limit \in shifted(word) : \E reading \in Readings(entries, word) :
             /\ program'.limit = limit
             /\ program'.row = Append(Rows(lut, entries, reading), LastRow(limit))
      BY <2>1 DEF CppPrograms
    <3>2. PICK reading \in Readings(entries, word) :
             program'.row = Append(Rows(lut, entries, reading), LastRow(program'.limit))
      BY <3>1
    <3>3. program'.limit = 2^wI
      BY <2>3, <3>1 DEF shifted
    <3>4. InLoop(Rows(lut, entries, reading), FirstVariants, 0, 1)
      <4>1. WellOrdered(Rows(lut, entries, reading), FirstVariants)
        BY <1>1, RowsWellOrdered DEF FirstVariants
      <4>. QED
        BY <4>1, LoopStarts
    <3>5. FirstVariants' = FirstVariants /\ 1 .. curr'-1 = {}
      BY <1>1 DEF FirstVariants
    <3>6. Looping(reading)'
      BY <1>1, <3>2, <3>4, <3>5 DEF Looping
    <3>. QED
      BY <3>3, <3>6
  <2>4. TestInv'
    BY <1>1, <2>1, <2>3 DEF TestInv, Tested
  <2>. QED
    BY <2>2, <2>4 DEF ProgramInv
<1>3. CASE WriteVhdl
  <2>1. stage' = "written" /\ program' \in VhdlPrograms(lut, entries, word)
    BY <1>3 DEF WriteVhdl
  <2>2. HashInv' /\ MadeInv' /\ TestInv'
    BY <1>1, <2>1 DEF HashInv, MadeInv, TestInv, Written, Tested
  <2>. QED
    BY <2>2 DEF ProgramInv
<1>. QED
  BY <1>2, <1>3

\* What the loop knows of its rows.
LEMMA Loop ==
    ASSUME ProgramInv, stage = "cpp_test", wI < word, NEW reading, Looping(reading)
    PROVE  LET row == Rows(lut, entries, reading) IN
           /\ WellOrdered(row, FirstVariants) /\ InLoop(row, FirstVariants, tested, curr)
           /\ RowsMatch(row, lut, entries, reading)
           /\ Len(row) \in Nat /\ curr \in 1 .. Len(row)+1 /\ tested \in 0 .. 2^wI
           /\ Len(program.row) = Len(row) + 1
           /\ \A r \in 1 .. Len(row) : program.row[r] = row[r]
           /\ program.row[Len(row) + 1].key = program.limit
<1>. DEFINE row == Rows(lut, entries, reading)
<1>1. IsKeySet(entries) /\ ~ Ambiguous(entries)
  BY Programs DEF Written, Tested
<1>2. /\ WellOrdered(row, FirstVariants) /\ RowsMatch(row, lut, entries, reading)
      /\ \A last : /\ Len(Append(row, last)) = Len(row) + 1
                   /\ Append(row, last)[Len(row) + 1] = last
                   /\ \A r \in 1 .. Len(row) : Append(row, last)[r] = row[r]
  <2>1. FirstVariants = {FirstVariant(x) : x \in DOMAIN entries}
    BY DEF FirstVariants
  <2>2. WellOrdered(row, FirstVariants)
    BY <1>1, <2>1, RowsWellOrdered
  <2>3. RowsMatch(row, lut, entries, reading) /\ Extendable(row)
    BY <1>1, RowsWellOrdered
  <2>. QED
    BY <2>2, <2>3 DEF Extendable
<1>3. /\ program.row = Append(row, LastRow(program.limit))
      /\ InLoop(row, FirstVariants, tested, curr)
  BY DEF Looping
<1>4. LastRow(program.limit).key = program.limit
  BY DEF LastRow
<1>. HIDE DEF row
<1>5. Len(row) \in Nat /\ curr \in 1 .. Len(row)+1 /\ tested \in 0 .. 2^wI
  BY <1>2, <1>3 DEF WellOrdered, InLoop
<1>6. /\ Len(program.row) = Len(row) + 1
      /\ \A r \in 1 .. Len(row) : program.row[r] = row[r]
      /\ program.row[Len(row) + 1].key = program.limit
  BY <1>2, <1>3, <1>4
<1>. QED
  BY <1>2, <1>3, <1>5, <1>6 DEF row

\* A program that is right passes every turn.
LEMMA RightIsFine ==
    ASSUME ProgramInv, stage = "cpp_test", wI < word, ValuesFit, IsRight,
           NEW reading, Looping(reading), program.limit = 2^wI, tested < 2^wI
    PROVE  CppFine(program, program.row[curr], tested)
<1>. DEFINE row == Rows(lut, entries, reading)
            want == program.row[curr]
<1>1. /\ lut \in PartialLuts /\ IsKeySet(entries) /\ ~ Ambiguous(entries)
      /\ Solves(lut, entries) /\ program.rom = roms(lut)
      /\ \A n \in 0 .. 2^wI-1 : hit(program, n) => KeyNumbered(n) \in FirstVariants
  BY Programs DEF Written, Tested
<1>2. /\ WellOrdered(row, FirstVariants) /\ InLoop(row, FirstVariants, tested, curr)
      /\ RowsMatch(row, lut, entries, reading)
      /\ Len(row) \in Nat /\ curr \in 1 .. Len(row)+1 /\ tested \in 0 .. 2^wI
      /\ \A r \in 1 .. Len(row) : program.row[r] = row[r]
      /\ program.row[Len(row) + 1].key = 2^wI
  BY Loop
<1>3. tested \in 0 .. 2^wI-1 /\ tested \in Nat /\ 2^wI \in Nat
  BY <1>2, KeyNumbers
<1>. HIDE DEF row
<1>4. ASSUME tested = want.key
      PROVE  hit(program, tested) /\ hash(program, tested) = want.hash
                /\ lookup(program, tested) = want.value
  <2>1. curr \in 1 .. Len(row)
    BY <1>2, <1>3, <1>4
  <2>2. PICK x \in DOMAIN entries : \E y \in variants(x) :
           row[curr] = [key |-> number(y), hash |-> HashOf(lut, FirstVariant(x)),
                        value |-> reading[x]]
    BY <1>2, <2>1 DEF RowsMatch
  <2>3. PICK y \in variants(x) :
           row[curr] = [key |-> number(y), hash |-> HashOf(lut, FirstVariant(x)),
                        value |-> reading[x]]
    BY <2>2
  <2>4. want = row[curr]
    BY <1>2, <2>1
  <2>5. tested = number(y) /\ want.hash = HashOf(lut, FirstVariant(x)) /\ want.value = reading[x]
    BY <1>4, <2>3, <2>4
  <2>. HIDE DEF want
  <2>6. hit(program, tested)
    BY <2>5 DEF IsRight, HitsKeys
  <2>7. hash(program, tested) = want.hash
    <3>1. hash(program, number(y)) = HashOf(lut, FirstVariant(x))
      BY <1>1, ValueFound
    <3>. QED
      BY <2>5, <3>1
  <2>8. lookup(program, tested) = want.value
    <3>1. lookup(program, number(y)) = number(entries[x]) % 2^wV
      BY DEF IsRight, FindsValues
    <3>2. number(entries[x]) % 2^wV = number(entries[x])
      BY <1>1, ValueNumbers DEF ProgramInv, MadeInv, Tested
    <3>3. reading[x] = number(entries[x])
      BY ReadingIs DEF Looping, ValuesFit
    <3>. QED
      BY <2>5, <3>1, <3>2, <3>3
  <2>. QED
    BY <2>6, <2>7, <2>8
<1>5. ASSUME hit(program, tested)
      PROVE  tested = want.key
  <2>1. KeyNumbered(tested) \in FirstVariants
    BY <1>1, <1>3, <1>5
  <2>2. has_concrete_keys(entries)
    <3>1. ASSUME NEW x \in DOMAIN entries, NEW y \in variants(x)
          PROVE  y \in FirstVariants
      <4>1. hit(program, number(y))
        BY DEF IsRight, HitsKeys
      <4>2. number(y) \in 0 .. 2^wI-1 /\ KeyNumbered(number(y)) = y
        BY KeyNumbers DEF variants
      <4>. QED
        BY <1>1, <4>1, <4>2
    <3>. QED
      BY <1>1, <3>1, FirstsOnly
  <2>3. \A q, r \in 1 .. Len(row) : q < r => row[q].key < row[r].key
    BY <1>2, <2>2 DEF RowsMatch
  <2>4. curr <= Len(row) /\ row[curr].key = tested
    BY <1>2, <1>3, <2>1, <2>3, LoopExact
  <2>5. curr \in 1 .. Len(row)
    BY <1>2, <2>4
  <2>. QED
    BY <1>2, <2>4, <2>5
<1>. QED
  BY <1>4, <1>5 DEF CppFine

\* A turn goes on with the next number, and with the next row if it has met one; if
\* it fails, the program is not right.
LEMMA TurningProgram ==
    ASSUME ProgramInv, ChainInv', CppTest
    PROVE  ProgramInv'
<1>1. /\ stage = "cpp_test" /\ tested < program.limit /\ stage' \in {"cpp_test", "failed"}
      /\ lut' = lut /\ entries' = entries /\ program' = program /\ word' = word
  BY DEF CppTest
<1>2. HashInv' /\ MadeInv'
  BY <1>1 DEF ProgramInv, HashInv, MadeInv, Written, Tested, ConcreteValues
<1>3. /\ FirstVariants' = FirstVariants /\ (ValuesFit' <=> ValuesFit)
      /\ (IsRight' <=> IsRight)
  BY <1>1 DEF FirstVariants, ValuesFit, IsRight, HitsKeys, HitsOnlyKeys, FindsValues
<1>4. ASSUME wI < word, stage' = "cpp_test"
      PROVE  program'.limit = 2^wI /\ \E reading : Looping(reading)'
  <2>1. program.limit = 2^wI
    BY <1>1, <1>4 DEF ProgramInv, TestInv
  <2>2. PICK reading : Looping(reading)
    BY <1>1, <1>4 DEF ProgramInv, TestInv
  <2>. DEFINE row == Rows(lut, entries, reading)
              want == program.row[curr]
              next == IF tested = want.key THEN curr + 1 ELSE curr
  <2>3. /\ WellOrdered(row, FirstVariants) /\ InLoop(row, FirstVariants, tested, curr)
        /\ Len(row) \in Nat /\ curr \in 1 .. Len(row)+1 /\ tested \in 0 .. 2^wI
        /\ \A r \in 1 .. Len(row) : program.row[r] = row[r]
        /\ program.row[Len(row) + 1].key = 2^wI
    BY <1>1, <1>4, <2>1, <2>2, Loop
  <2>4. tested \in 0 .. 2^wI-1 /\ tested \in Nat /\ 2^wI \in Nat
    BY <1>1, <2>1, <2>3, KeyNumbers
  <2>5. CppFine(program, want, tested) /\ tested' = tested + 1 /\ curr' = next
    BY <1>1, <1>4 DEF CppTest
  <2>. HIDE DEF row
  <2>6. /\ curr <= Len(row) => want = row[curr]
        /\ tested = want.key => curr \in 1 .. Len(row)
    BY <2>3, <2>4
  <2>7. KeyNumbered(tested) \in FirstVariants <=> tested = want.key
    <3>1. /\ \A n \in 0 .. 2^wI-1 : hit(program, n) => KeyNumbered(n) \in FirstVariants
          /\ \A x \in DOMAIN entries : hit(program, number(FirstVariant(x)))
      BY <1>1, <1>4, Programs DEF Written, Tested
    <3>2. hit(program, tested) <=> tested = want.key
      BY <2>5 DEF CppFine
    <3>3. KeyNumbered(tested) \in FirstVariants => hit(program, tested)
      <4>1. ASSUME KeyNumbered(tested) \in FirstVariants
            PROVE  hit(program, tested)
        <5>1. PICK x \in DOMAIN entries : KeyNumbered(tested) = FirstVariant(x)
          BY <4>1 DEF FirstVariants
        <5>2. number(KeyNumbered(tested)) = tested
          BY <2>4, KeyNumbers
        <5>. QED
          BY <3>1, <5>1, <5>2
      <4>. QED
        BY <4>1
    <3>. QED
      BY <2>4, <3>1, <3>2, <3>3
  <2>8. InLoop(row, FirstVariants, tested + 1, next)
    <3>. HIDE DEF want
    <3>1. CASE tested = want.key
      <4>1. curr <= Len(row) /\ tested = row[curr].key /\ next = curr + 1
        BY <2>3, <2>6, <3>1
      <4>. QED
        BY <2>3, <2>4, <2>7, <3>1, <4>1, LoopTurns
    <3>2. CASE tested # want.key
      <4>1. (curr <= Len(row) => tested # row[curr].key) /\ next = curr
        BY <2>6, <3>2
      <4>. QED
        BY <2>3, <2>4, <2>7, <3>2, <4>1, LoopTurns
    <3>. QED
      BY <3>1, <3>2
  <2>9. ASSUME NEW r \in 1 .. next-1
        PROVE  lookup(program, row[r].key) = row[r].value
    <3>1. CASE r \in 1 .. curr-1
      BY <2>2, <3>1 DEF Looping, row
    <3>2. CASE r \notin 1 .. curr-1
      <4>1. tested = want.key /\ r = curr
        BY <2>3, <2>9, <3>2
      <4>2. want = row[curr]
        BY <2>6, <4>1
      <4>3. lookup(program, tested) = want.value
        BY <2>5, <4>1 DEF CppFine
      <4>. QED
        BY <4>1, <4>2, <4>3
    <3>. QED
      BY <3>1, <3>2
  <2>10. Looping(reading)'
    <3>1. reading \in Readings(entries', word')
             /\ program'.row = Append(row, LastRow(program'.limit))
      BY <1>1, <2>2 DEF Looping, row
    <3>2. Rows(lut', entries', reading) = row
      BY <1>1 DEF row
    <3>. HIDE DEF next
    <3>. QED
      BY <1>1, <1>3, <2>5, <2>8, <2>9, <3>1, <3>2 DEF Looping
  <2>. QED
    BY <1>1, <2>1, <2>10
<1>5. ASSUME wI < word, ValuesFit, stage' = "failed"
      PROVE  ~ IsRight
  <2>1. program.limit = 2^wI
    BY <1>1, <1>5 DEF ProgramInv, TestInv
  <2>2. PICK reading : Looping(reading)
    BY <1>1, <1>5 DEF ProgramInv, TestInv
  <2>3. ~ CppFine(program, program.row[curr], tested)
    BY <1>1, <1>5 DEF CppTest
  <2>. QED
    BY <1>1, <1>5, <2>1, <2>2, <2>3, RightIsFine
<1>6. TestInv'
  BY <1>1, <1>3, <1>4, <1>5 DEF TestInv, Tested
<1>. QED
  BY <1>2, <1>6 DEF ProgramInv

\* A test that gets to its end has met every row as a first variant: no key has
\* another one, and each has found its value.
LEMMA EndingProgram ==
    ASSUME ProgramInv, ChainInv', TestEnd
    PROVE  ProgramInv'
<1>1. /\ stage = "cpp_test" /\ tested >= program.limit /\ stage' = "passed"
      /\ lut' = lut /\ entries' = entries /\ program' = program /\ word' = word
      /\ tested' = tested /\ curr' = curr
  BY DEF TestEnd
<1>2. HashInv' /\ MadeInv'
  BY <1>1 DEF ProgramInv, HashInv, MadeInv, Written, Tested, ConcreteValues
<1>3. (ValuesFit' <=> ValuesFit) /\ (IsRight' <=> IsRight)
  BY <1>1 DEF ValuesFit, IsRight, HitsKeys, HitsOnlyKeys, FindsValues
<1>4. ASSUME wI < word, ValuesFit
      PROVE  IsRight /\ curr = Len(program.row)
  <2>1. program.limit = 2^wI
    BY <1>1, <1>4 DEF ProgramInv, TestInv
  <2>2. PICK reading : Looping(reading)
    BY <1>1, <1>4 DEF ProgramInv, TestInv
  <2>. DEFINE row == Rows(lut, entries, reading)
  <2>3. /\ WellOrdered(row, FirstVariants) /\ InLoop(row, FirstVariants, tested, curr)
        /\ RowsMatch(row, lut, entries, reading)
        /\ Len(row) \in Nat /\ tested \in 0 .. 2^wI
        /\ Len(program.row) = Len(row) + 1
    BY <1>1, <1>4, <2>1, <2>2, Loop
  <2>4. /\ IsKeySet(entries) /\ ~ Ambiguous(entries) /\ HitsOnlyKeys
        /\ \A x \in DOMAIN entries : hit(program, number(FirstVariant(x)))
    BY <1>1, <1>4, Programs DEF Written, Tested
  <2>5. \A r \in 1 .. curr-1 : lookup(program, row[r].key) = row[r].value
    BY <2>2 DEF Looping
  <2>. HIDE DEF row
  <2>6. tested = 2^wI
    BY <1>1, <2>1, <2>3, KeyNumbers
  <2>7. /\ curr = Len(row) + 1
        /\ \A r \in 1 .. Len(row) : KeyNumbered(row[r].key) \in FirstVariants
    BY <2>3, <2>6, LoopEnds
  <2>8. ASSUME NEW x \in DOMAIN entries, NEW y \in variants(x)
        PROVE  \E r \in 1 .. Len(row) : row[r].key = number(y)
    BY <2>3 DEF RowsMatch
  <2>9. ASSUME NEW x \in DOMAIN entries, NEW y \in variants(x)
        PROVE  y \in FirstVariants
    <3>1. PICK r \in 1 .. Len(row) : row[r].key = number(y)
      BY <2>8
    <3>2. KeyNumbered(number(y)) = y
      BY KeyNumbers DEF variants
    <3>. QED
      BY <2>7, <3>1, <3>2
  <2>10. HitsKeys
    <3>1. ASSUME NEW x \in DOMAIN entries, NEW y \in variants(x)
          PROVE  hit(program, number(y))
      <4>1. PICK z \in DOMAIN entries : y = FirstVariant(z)
        BY <2>9 DEF FirstVariants
      <4>. QED
        BY <2>4, <4>1
    <3>. QED
      BY <3>1 DEF HitsKeys
  <2>11. FindsValues(wV)
    <3>1. ASSUME NEW x \in DOMAIN entries, NEW y \in variants(x)
          PROVE  lookup(program, number(y)) = number(entries[x]) % 2^wV
      <4>1. PICK r \in 1 .. Len(row) : row[r].key = number(y)
        BY <2>8
      <4>2. PICK k \in DOMAIN entries : \E z \in variants(k) :
               row[r] = [key |-> number(z), hash |-> HashOf(lut, FirstVariant(k)),
                         value |-> reading[k]]
        BY <2>3 DEF RowsMatch
      <4>3. PICK z \in variants(k) :
               row[r] = [key |-> number(z), hash |-> HashOf(lut, FirstVariant(k)),
                         value |-> reading[k]]
        BY <4>2
      <4>4. number(z) = number(y) /\ row[r].value = reading[k]
        BY <4>1, <4>3
      <4>5. z = y
        BY <4>4, KeyNumbers DEF variants
      <4>6. k = x
        BY <2>4, <4>5 DEF Ambiguous
      <4>7. lookup(program, number(y)) = reading[x]
        <5>1. r \in 1 .. curr-1
          BY <2>3, <2>7
        <5>2. lookup(program, row[r].key) = row[r].value
          BY <2>5, <5>1
        <5>. QED
          BY <4>1, <4>4, <4>6, <5>2
      <4>8. reading[x] = number(entries[x])
        BY <1>4, <2>2, ReadingIs DEF Looping, ValuesFit
      <4>9. number(entries[x]) % 2^wV = number(entries[x])
        BY <1>1, <2>4, ValueNumbers DEF ProgramInv, MadeInv, Tested
      <4>. QED
        BY <4>7, <4>8, <4>9
    <3>. QED
      BY <3>1 DEF FindsValues
  <2>. QED
    BY <2>3, <2>4, <2>7, <2>10, <2>11 DEF IsRight
<1>5. TestInv'
  BY <1>1, <1>3, <1>4 DEF TestInv, Tested
<1>. QED
  BY <1>2, <1>5 DEF ProgramInv

\* Every step keeps the invariant.
LEMMA ProgramKeeps == ProgramInv /\ [ChainNext]_chainVars => ProgramInv'
<1>1. ASSUME ProgramInv, ChainNext
      PROVE  ProgramInv'
  <2>1. ChainInv' /\ Kept
    BY <1>1, ChainKeeps DEF ProgramInv
  <2>. QED
    BY <1>1, <2>1, CarryingProgram, WritingProgram, TurningProgram, EndingProgram
       DEF ChainNext, Step
<1>2. ASSUME ProgramInv, UNCHANGED chainVars
      PROVE  ProgramInv'
  <2>1. /\ stage' = stage /\ lines' = lines /\ entries' = entries /\ word' = word
        /\ luts' = luts /\ lut' = lut /\ program' = program /\ tested' = tested /\ curr' = curr
    BY <1>2 DEF chainVars
  <2>2. ChainInv'
    BY <1>2, ChainKeeps DEF ProgramInv
  <2>3. InFlight' = InFlight
    BY <2>1, InFlightIs, InFlightPrimed
  <2>4. HashInv'
    BY <1>2, <2>1, <2>3 DEF ProgramInv, HashInv
  <2>5. /\ FirstVariants' = FirstVariants /\ (ConcreteValues' <=> ConcreteValues)
        /\ (ValuesFit' <=> ValuesFit) /\ (IsRight' <=> IsRight)
    BY <2>1 DEF FirstVariants, ConcreteValues, ValuesFit, IsRight,
                HitsKeys, HitsOnlyKeys, FindsValues
  <2>6. MadeInv'
    BY <1>2, <2>1, <2>5 DEF ProgramInv, MadeInv
  <2>7. \A reading : Looping(reading)' <=> Looping(reading)
    BY <2>1, <2>5 DEF Looping
  <2>8. TestInv'
    BY <1>2, <2>1, <2>5, <2>7 DEF ProgramInv, TestInv
  <2>. QED
    BY <2>2, <2>4, <2>6, <2>8 DEF ProgramInv
<1>. QED
  BY <1>1, <1>2

-----------------------------------------------------------------------------
(* Every reachable state of the chain satisfies the invariant of the        *)
(* solution on its way and of the generated program and its test.           *)
THEOREM ProgramInvariance == ChainSpec => []ProgramInv
BY ProgramInitInv, ProgramKeeps, PTL DEF ChainSpec

(* For every solution that the search may print: the C++ programs, and the  *)
(* VHDL designs that can be analysed, hit every key of a key set without    *)
(* don't-cares; they hit nothing else if an unsigned is wider than a key,   *)
(* and find the values that an unsigned holds; and where an unsigned is     *)
(* wide enough for keys and values, the generated C++ test passes a         *)
(* program, with all its rows met, only if it is right with every variant   *)
(* of every key, and fails it only if it is not.                            *)
THEOREM GeneratedAlwaysRight == ChainSpec => []GeneratedIsRight
<1>1. ProgramInv => GeneratedIsRight
  <2>. SUFFICES ASSUME ProgramInv
               PROVE  GeneratedIsRight
    OBVIOUS
  <2>1. ASSUME stage \in Written
        PROVE  /\ has_concrete_keys(entries) => HitsKeys
               /\ wI < word => HitsOnlyKeys
    <3>1. /\ IsKeySet(entries) /\ (wI < word => HitsOnlyKeys)
          /\ \A x \in DOMAIN entries : hit(program, number(FirstVariant(x)))
      BY <2>1, Programs
    <3>2. ASSUME has_concrete_keys(entries), NEW x \in DOMAIN entries, NEW y \in variants(x)
          PROVE  hit(program, number(y))
      <4>1. x \in AbstractKeys /\ is_concrete(x)
        BY <3>1, <3>2 DEF has_concrete_keys, IsKeySet
      <4>2. y = FirstVariant(x)
        BY <4>1, FirstIsLowest
      <4>. QED
        BY <3>1, <4>2
    <3>. QED
      BY <3>1, <3>2 DEF HitsKeys
  <2>2. stage = "cpp_test" /\ getKeyWidth(entries) > 0 /\ ValuesFit => FindsValues(wV)
    BY Programs, CppFinds DEF ProgramInv, MadeInv, Written, Tested
  <2>3. stage = "written" /\ getKeyWidth(entries) > 0 /\ ValuesFit
           => FindsValues(getKeyWidth(entries))
    BY Programs, VhdlFinds DEF ProgramInv, MadeInv, Written
  <2>4. wI < word /\ ValuesFit =>
          /\ stage = "failed" => ~ IsRight
          /\ stage = "passed" => IsRight /\ curr = Len(program.row)
    BY DEF ProgramInv, TestInv
  <2>. QED
    BY <2>1, <2>2, <2>3, <2>4 DEF GeneratedIsRight, Analysable, Written, Tested
<1>. QED
  BY <1>1, ProgramInvariance, PTL
=============================================================================
