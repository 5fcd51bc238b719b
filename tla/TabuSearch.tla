----------------------------- MODULE TabuSearch -----------------------------
(***************************************************************************)
(* What a tabu search promises: a walk over the hashes, one bit at a time, *)
(* that does not enter any of the hashes it has entered most recently,     *)
(* that remembers the best hash it has been to, and that may go back to    *)
(* it at any time.  No signatures, no counters.                            *)
(***************************************************************************)
EXTENDS HashProblem

CONSTANTS GroupSizes,  \* how many keys may share a value
          Window      \* how many of the last hashes are tabu

VARIABLES groupSize,
          at,      \* where the walk is
          recent,  \* the hashes entered last, the oldest in front
          best     \* the latest of the best hashes

tabuVars == <<groupSize, at, recent, best>>

Scores == [g \in GroupSizes |-> [l \in Luts |-> evalFull(l, g)]]
Score  == Scores[groupSize]

\* s with x at its end, and without its front if it gets longer than n.
Remembered(s, x, n) == IF Len(s) >= n THEN Append(Tail(s), x) ELSE Append(s, x)

Init == groupSize \in GroupSizes /\ at \in Luts /\ recent = <<>> /\ best = at

Enter(l) ==
    /\ \E b \in LutBits : l = Flipped(at, b)
    /\ \A n \in DOMAIN recent : recent[n] # l
    /\ at' = l
    /\ recent' = Remembered(recent, l, Window)
    /\ best' = IF Score[l] <= Score[best] THEN l ELSE best
    /\ UNCHANGED groupSize

GoBack == at' = best /\ UNCHANGED <<groupSize, recent, best>>

Next == (\E l \in Luts : Enter(l)) \/ GoBack

Spec == Init /\ [][Next]_tabuVars
=============================================================================
