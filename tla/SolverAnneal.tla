---------------------------- MODULE SolverAnneal ----------------------------
(***************************************************************************)
(* solver_anneal (include/solver_anneal.hpp): simulated annealing over the *)
(* lut bits.  A try flips a few random bits, keeps the result if it is no  *)
(* worse than the best, and takes the flips back if the move is rejected.  *)
(*                                                                         *)
(* manipCurr, the EntryToKey on solCurr, is represented by the lut that    *)
(* its caches describe, "view": module EntryToKey shows that its eval is   *)
(* evalFull of that lut, and flipBit changes the caches as flipping the    *)
(* same bit of the view does, whether or not they describe solCurr.        *)
(*                                                                         *)
(* Random draws are choices; the temperature is left out, so that a move   *)
(* that is no improvement may be accepted or not at any time, and any      *)
(* level may be the one that restarts.                                     *)
(***************************************************************************)
EXTENDS HashProblem

CONSTANTS groupSize,
          maxTries,
          TriesAtLevel,  \* triesAtLevel, 100000 in the code
          FlipCounts     \* values of nFlips; 4 and more in the code

ASSUME SolverAnnealAssumption ==
    /\ groupSize \in Nat
    /\ maxTries \in Nat
    /\ TriesAtLevel \in Nat \ {0}
    /\ FlipCounts \subseteq Nat \ {0}

VARIABLES solCurr,   \* the current hash
          view,      \* the hash that the caches of manipCurr describe
          solBest,   \* vector of the best hashes
          eBest, ePrev, eCurr,
          flips,     \* every flip of the accepted tries and of this one; a stack
          nFlips,    \* flips this try wants
          left,      \* iterations left in the inner loop
          tries,
          pc,
          before     \* (auxiliary) solCurr when this try began

vars == <<solCurr, view, solBest, eBest, ePrev, eCurr, flips, nFlips, left,
          tries, pc, before>>

\* evalSolution, and eval of an EntryToKey with these caches.
Score == [l \in Luts |-> evalFull(l, groupSize)]

Init == /\ solCurr \in Luts
        /\ view = solCurr
        /\ solBest = <<solCurr>>
        /\ eBest = Score[solCurr]
        /\ ePrev = 0 /\ eCurr = 0
        /\ flips = <<>> /\ nFlips = 0 /\ left = 0
        /\ tries = 0
        /\ pc = "head"
        /\ before = solCurr

-----------------------------------------------------------------------------
BeginTry ==
    /\ pc = "head"
    /\ eBest # 0
    /\ tries < maxTries
    /\ ePrev' = Score[view]
    /\ nFlips' \in FlipCounts
    /\ left' = nFlips'
    /\ before' = solCurr
    /\ pc' = "flip"
    /\ UNCHANGED <<solCurr, view, solBest, eBest, eCurr, flips, tries>>

\* Flip one more bit; stop at the first improvement.
FlipOne(b) ==
    /\ pc = "flip"
    /\ solCurr' = Flipped(solCurr, b)
    /\ view' = Flipped(view, b)
    /\ flips' = Append(flips, b)
    /\ eCurr' = Score[view']
    /\ left' = left - 1
    /\ pc' = IF eCurr' < ePrev \/ left' = 0 THEN "judge" ELSE "flip"
    /\ UNCHANGED <<solBest, eBest, ePrev, nFlips, tries, before>>

\* Mutant: the hashes that were best before stay in front of the new one.
RecordedUncleared ==
    IF eCurr < eBest
      THEN Append(solBest, solCurr)
      ELSE IF \E n \in DOMAIN solBest : solBest[n] = solCurr
             THEN solBest
             ELSE Append(Tail(solBest), solCurr)

\* The best hashes with solCurr put in: instead of them all when it is better,
\* instead of the oldest when it is as good and not yet there.
Recorded ==
    IF eCurr < eBest
      THEN <<solCurr>>
      ELSE IF \E n \in DOMAIN solBest : solBest[n] = solCurr
             THEN solBest
             ELSE Append(Tail(solBest), solCurr)

Judge ==
    /\ pc = "judge"
    /\ IF eCurr <= eBest
         THEN solBest' = Recorded /\ eBest' = eCurr
         ELSE UNCHANGED <<solBest, eBest>>
    /\ pc' = "accept"
    /\ UNCHANGED <<solCurr, view, ePrev, eCurr, flips, nFlips, left, tries, before>>

Accept ==
    /\ pc = "accept"
    /\ pc' = "count"
    /\ UNCHANGED <<solCurr, view, solBest, eBest, ePrev, eCurr, flips, nFlips,
                   left, tries, before>>

\* accept() is 1.0 for an improvement, which the draw is always below.
Reject ==
    /\ pc = "accept"
    /\ eCurr >= ePrev
    /\ left' = nFlips
    /\ pc' = "undo"
    /\ UNCHANGED <<solCurr, view, solBest, eBest, ePrev, eCurr, flips, nFlips,
                   tries, before>>

\* Mutant: the first bit of the stack is flipped back, and the last one popped.
UndoFirst ==
    /\ pc = "undo"
    /\ solCurr' = Flipped(solCurr, flips[1])
    /\ view' = Flipped(view, flips[1])
    /\ flips' = SubSeq(flips, 1, Len(flips) - 1)
    /\ left' = left - 1
    /\ pc' = IF left' = 0 THEN "count" ELSE "undo"
    /\ UNCHANGED <<solBest, eBest, ePrev, eCurr, nFlips, tries, before>>

\* Mutant: a rejected try is not counted.
UndoUncounted ==
    /\ pc = "undo"
    /\ LET b == flips[Len(flips)]
       IN  solCurr' = Flipped(solCurr, b) /\ view' = Flipped(view, b)
    /\ flips' = SubSeq(flips, 1, Len(flips) - 1)
    /\ left' = left - 1
    /\ pc' = IF left' = 0 THEN "head" ELSE "undo"
    /\ UNCHANGED <<solBest, eBest, ePrev, eCurr, nFlips, tries, before>>

\* Flip the last bit of the stack back.
UndoOne ==
    /\ pc = "undo"
    /\ LET b == flips[Len(flips)]
       IN  solCurr' = Flipped(solCurr, b) /\ view' = Flipped(view, b)
    /\ flips' = SubSeq(flips, 1, Len(flips) - 1)
    /\ left' = left - 1
    /\ pc' = IF left' = 0 THEN "count" ELSE "undo"
    /\ UNCHANGED <<solBest, eBest, ePrev, eCurr, nFlips, tries, before>>

Count ==
    /\ pc = "count"
    /\ tries' = tries + 1
    /\ pc' = IF tries' % TriesAtLevel = 0 THEN "level" ELSE "head"
    /\ UNCHANGED <<solCurr, view, solBest, eBest, ePrev, eCurr, flips, nFlips,
                   left, before>>

\* The temperature falls, and is still high enough.
Cool ==
    /\ pc = "level"
    /\ pc' = "time"
    /\ UNCHANGED <<solCurr, view, solBest, eBest, ePrev, eCurr, flips, nFlips,
                   left, tries, before>>

\* The temperature starts again, most often (9 times in 10) from a best hash;
\* the uninitialised index into solBest is taken modulo its size.
Restart ==
    /\ pc = "level"
    /\ \/ \E n \in DOMAIN solBest : solCurr' = solBest[n]
       \/ UNCHANGED solCurr
    /\ pc' = "sync"
    /\ UNCHANGED <<view, solBest, eBest, ePrev, eCurr, flips, nFlips, left,
                   tries, before>>

\* Mutant: manipCurr is not told of the restart.
syncForgotten ==
    /\ pc = "sync"
    /\ pc' = "time"
    /\ UNCHANGED <<solCurr, view, solBest, eBest, ePrev, eCurr, flips, nFlips,
                   left, tries, before>>

sync ==
    /\ pc = "sync"
    /\ view' = solCurr
    /\ pc' = "time"
    /\ UNCHANGED <<solCurr, solBest, eBest, ePrev, eCurr, flips, nFlips, left,
                   tries, before>>

\* cpuTime() is only looked at here, at the end of a level.
CheckTime ==
    /\ pc = "time"
    /\ pc' \in {"head", "done"}
    /\ UNCHANGED <<solCurr, view, solBest, eBest, ePrev, eCurr, flips, nFlips,
                   left, tries, before>>

Finish ==
    /\ pc = "head"
    /\ eBest = 0 \/ tries >= maxTries
    /\ pc' = "done"
    /\ UNCHANGED <<solCurr, view, solBest, eBest, ePrev, eCurr, flips, nFlips,
                   left, tries, before>>

Next == \/ BeginTry
        \/ \E b \in LutBits : FlipOne(b)
        \/ Judge
        \/ Accept
        \/ Reject
        \/ UndoOne
        \/ Count
        \/ Cool
        \/ Restart
        \/ sync
        \/ CheckTime
        \/ Finish

Spec == Init /\ [][Next]_vars

(* The solver is one thread that nothing blocks: it takes its next step.    *)
FairSpec == Spec /\ WF_vars(Next)

-----------------------------------------------------------------------------
(* All the variables have values of the right kind. *)
TypeOK ==
    /\ solCurr \in Luts /\ view \in Luts /\ before \in Luts
    /\ solBest \in Seq(Luts)
    /\ eBest \in Nat /\ ePrev \in Nat /\ eCurr \in Nat
    /\ flips \in Seq(LutBits)
    /\ nFlips \in FlipCounts \cup {0}
    /\ left \in 0 .. nFlips
    /\ tries \in 0 .. maxTries
    /\ pc \in {"head", "flip", "judge", "accept", "undo", "count", "level",
               "sync", "time", "done"}

(* Whatever is decided on the caches of manipCurr is decided on solCurr:    *)
(* between the restart's assignment and its sync() nothing looks at them.   *)
CachesCurrent == pc # "sync" => view = solCurr

(* No hash the search has walked through was better than the one it will    *)
(* return: the intermediate hashes of a try, which are not compared with    *)
(* eBest, and those an undo goes back over, are never better either. And    *)
(* that one, solBest[0], is always there and is the one that eBest is of.   *)
BestIsKept ==
    /\ Len(solBest) = 1 /\ eBest = Score[solBest[1]]
    /\ pc # "judge" => eBest <= Score[solCurr]

(* A rejected try leaves no trace: the flips popped from the stack, which   *)
(* still holds those of every accepted try before, are exactly its own.     *)
RejectRestores ==
    [][pc = "undo" /\ pc' = "count" => solCurr' = before /\ view' = before]_vars

(* The solver stops: with a solution, or out of tries or time. *)
Terminates == <>(pc = "done")
=============================================================================
