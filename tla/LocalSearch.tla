---------------------------- MODULE LocalSearch ----------------------------
(***************************************************************************)
(* A hash that is changed by the local moves of bit_hash_anneal.hpp: in    *)
(* any order by any caller, or by the search of tools/anneal_fpga_hash.cpp *)
(* (pc = "loop"), which perturbs the solution, keeps the candidate if it   *)
(* is no worse, and after many failures in a row tries all flips of one,   *)
(* of two and of three bits, each once for a solution. The candidate, the  *)
(* flips and the clock's answer are choices.                               *)
(***************************************************************************)
EXTENDS GreedyMoves

CONSTANTS maxTries,
          Patience   \* failures after which 1, 2, 3 bits are tried: 100, 1000, 10000

ASSUME LocalSearchAssumption ==
    /\ maxTries \in Nat
    /\ Patience \in [1 .. 3 -> Nat]

VARIABLES solution, ePrev,
          tried,   \* greedyOne, greedyTwo, greedyThree: those that are true
          fails, tries,
          pc,
          was,     \* (auxiliary) the hash before the last local move
          last     \* (auxiliary) the last local move, none after a perturbation

searchVars == <<tried, fails, tries>>
vars == <<solution, ePrev, searchVars, pc, was, last>>

Init == /\ solution \in Luts
        /\ ePrev = Score[solution]
        /\ tried = {} /\ fails = 0 /\ tries = 0
        /\ pc \in {"loop", "moves"}
        /\ was = [b \in LutBits |-> 0] /\ last = "none"

-----------------------------------------------------------------------------
\* A move of the caller's hash, which returns the new score.
Move(name, results) ==
    /\ pc = "moves"
    /\ solution' \in results /\ ePrev' = Score[solution']
    /\ was' = solution
    /\ last' = name
    /\ UNCHANGED <<searchVars, pc>>

perturbHash ==
    /\ pc = "moves"
    /\ solution' \in Perturbed(solution) /\ ePrev' = Score[solution']
    /\ was' = solution' /\ last' = "none"
    /\ UNCHANGED <<searchVars, pc>>

greedyOneBitInPlace == Move("oneInPlace", GreedyInPlace(solution, FALSE))
kickOneBit          == Move("kick", GreedyInPlace(solution, TRUE))
greedyTwoBitInPlace == Move("two", {Greedy(solution, TwoBits)})

greedyOneBit       == Move("one", {Greedy(solution, OneBits)})
greedyTwoBit       == Move("twoTables", {Greedy(solution, TwoTables)})
greedyTwoBitFast   == Move("twoFast", {Greedy(solution, TwoBitsFast)})
greedyThreeBit     == Move("threeTables", {Greedy(solution, ThreeTables)})
greedyThreeBitFast == Move("three", {Greedy(solution, ThreeBitsFast)})
greedyFourBitFast  == Move("four", {Greedy(solution, FourBitsFast)})

-----------------------------------------------------------------------------
Searching == pc = "loop" /\ ePrev # 0 /\ tries < maxTries

\* Mutant: the flags stay when a candidate of the same score is taken.
StartAfreshIfBetter ==
    IF ePrev' < ePrev THEN tried' = {} /\ fails' = 0 ELSE UNCHANGED <<tried, fails>>

\* After a success all is tried again.
StartAfresh == tried' = {} /\ fails' = 0

Take(l) == solution' = l /\ ePrev' = Score[l]

\* Mutant: only the failures are counted.
CountedFailures == tries' = IF fails' > fails THEN tries + 1 ELSE tries

Counted == tries' = tries + 1

\* Mutant: the coin decides for any other candidate.
AcceptableByCoin(c) == c # solution

\* A candidate that is better, or as good and another, and then by a coin.
Acceptable(c) == Score[c] < ePrev \/ (Score[c] = ePrev /\ c # solution)

\* The candidate is taken. The greedy search that is made of the solution at this
\* point is thrown away by the swap.
Accept(candidate) ==
    /\ Searching
    /\ candidate \in Perturbed(solution)
    /\ Acceptable(candidate)
    /\ Take(candidate)
    /\ StartAfresh
    /\ Counted
    /\ UNCHANGED <<pc, was, last>>

\* Some candidate can be drawn that is not accepted.
Rejects == Searching /\ ~ \A c \in Perturbed(solution) : Score[c] < ePrev

\* It is the turn of the flips of k bits: the first that is due.
Due(k) ==
    /\ k \notin tried /\ fails > Patience[k]
    /\ \A j \in 1 .. k-1 : j \in tried \/ fails <= Patience[j]
    /\ k = 3 => nKeys < 256

TryGreedy(k, C) ==
    /\ Rejects
    /\ Due(k)
    /\ LET l == Greedy(solution, C)
       IN  IF Score[l] < ePrev
             THEN Take(l) /\ StartAfresh
             ELSE /\ tried' = tried \cup {k}
                  /\ UNCHANGED <<solution, ePrev, fails>>
    /\ Counted
    /\ UNCHANGED <<pc, was, last>>

Fail ==
    /\ Rejects
    /\ \A k \in 1 .. 3 : ~ Due(k)
    /\ fails' = fails + 1
    /\ Counted
    /\ UNCHANGED <<solution, ePrev, tried, pc, was, last>>

\* The loop ends, also when the time is up, and solution is printed.
Finish ==
    /\ pc = "loop"
    /\ pc' = "done"
    /\ UNCHANGED <<solution, ePrev, searchVars, was, last>>

search == \/ \E c \in Luts : Accept(c)
          \/ TryGreedy(1, OneBits)
          \/ TryGreedy(2, TwoBitsFast)
          \/ TryGreedy(3, ThreeBitsFast)
          \/ Fail
          \/ Finish

Next == \/ search
        \/ perturbHash
        \/ greedyOneBitInPlace
        \/ kickOneBit
        \/ greedyTwoBitInPlace
        \/ greedyOneBit
        \/ greedyTwoBit
        \/ greedyTwoBitFast
        \/ greedyThreeBit
        \/ greedyThreeBitFast
        \/ greedyFourBitFast

Spec == Init /\ [][Next]_vars

(* The search is one thread that nothing blocks. *)
FairSpec == Spec /\ WF_vars(search)

-----------------------------------------------------------------------------
(* The search, which keeps no best hash, never gets worse.                  *)
NeverWorse == [][pc = "loop" => ePrev' <= ePrev]_vars

(* A flag is never stale: as long as it is set, the flips that it stands    *)
(* for, of this solution, are all known to be no improvement (for two bits, *)
(* those without the last bit). And the one thread of the loop through      *)
(* which solution and candidate are swapped never mixes them up: ePrev is   *)
(* the score of the hash that is printed.                                   *)
FlagsHonest ==
    /\ ePrev = Score[solution]
    /\ tried # {} => \A m \in Luts :
          LET d == Distance(solution, m)
          IN  (\/ d \in tried \cap {1, 3}
               \/ d = 2 /\ 2 \in tried /\ m[bits[bitCount - 1]] = solution[bits[bitCount - 1]])
              => Score[m] >= ePrev

(* A move is as thorough as its loops look: no hash at the distance that it *)
(* searches is better than its result, so the loops over one, two, three    *)
(* and four bits leave out no combination (but greedyTwoBitFast those with  *)
(* the last bit) and undo every flip; and it makes the hash better or       *)
(* leaves it alone, except that greedyOneBit in place may go sideways.      *)
Thorough ==
    /\ last \notin {"none", "kick"} =>
           \/ ePrev < Score[was]
           \/ solution = was
           \/ last = "oneInPlace" /\ ePrev = Score[was]
    /\ \A m \in Luts :
          LET d   == Distance(was, m)
              end == bits[bitCount - 1]
          IN  (\/ last \in {"one", "oneInPlace", "kick"} /\ d = 1
               \/ last = "two" /\ d = 2
               \/ last = "twoFast" /\ d = 2 /\ m[end] = was[end]
               \/ last = "three" /\ d = 3
               \/ last = "four" /\ d = 4)
              => ePrev <= Score[m]

(* The search ends.                                                         *)
Terminates == [](pc = "loop" => <>(pc = "done"))
=============================================================================
