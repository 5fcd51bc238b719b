------------------------------- MODULE Naboo -------------------------------
(***************************************************************************)
(* The tabu search of tools/naboo_fpga_hash.cpp, with the signatures and   *)
(* the counting filter of include/bit_hash_history.hpp.  Every try makes   *)
(* the best flip that does not lead to a hash whose signature is in the    *)
(* filter, and puts the signature of the new hash into the filter and at   *)
(* the end of a queue, from whose front it is taken out again.             *)
(*                                                                         *)
(* A signature is three words, each the XOR of one pseudo-random word per  *)
(* bit that is set.  A word is represented by the slot of the filter that  *)
(* it selects, a set of slot bits: the fold from 32 bits to a slot is an   *)
(* XOR of shifted words, so the slot of an XOR is the XOR of the slots.    *)
(* The EntryToKey on solCurr is represented by solCurr: see EntryToKey.    *)
(* solBest always has one element, and is represented by it.               *)
(***************************************************************************)
EXTENDS HashProblem

CONSTANTS GroupSizes,    \* values of --group-size
          maxTries,
          TriesAtLevel,  \* triesAtLevel, 10000 in the code
          maxNaboo,      \* 2^16 in the code
          CounterMax,    \* largest value of a counter: 255, a uint8_t
          SlotBits,      \* bits of an index into the filter, 22 in the code
          Mix            \* Mix[j][b]: the slot of table j's word for bit b

Subs  == 1 .. 3          \* the sub-signatures: sig0_t, sig1_t, sig2_t
Slots == SUBSET SlotBits
Sigs  == [Subs -> Slots]

ASSUME NabooAssumption ==
    /\ GroupSizes \subseteq Nat
    /\ maxTries \in Nat
    /\ TriesAtLevel \in Nat \ {0}
    /\ maxNaboo \in Nat
    /\ CounterMax \in Nat \ {0}
    /\ IsFiniteSet(SlotBits)
    /\ Mix \in [Subs -> [LutBits -> Slots]]

VARIABLES groupSize,
          solCurr,     \* the current hash, and the hash its caches describe
          solBest, eBest,
          tries,
          nabooQueue,  \* signatures in the order in which they were added
          m_table,     \* the counters of nabooSet
          pc,
          recent       \* (auxiliary) the hashes whose signatures are queued

vars == <<groupSize, solCurr, solBest, eBest, tries, nabooQueue, m_table, pc, recent>>

Scores == [g \in GroupSizes |-> [l \in Luts |-> evalFull(l, g)]]
Score  == Scores[groupSize]

-----------------------------------------------------------------------------
\* The signature of a hash: flipped once for every bit that is set.
toSignature(l) ==
    [j \in Subs |-> {s \in SlotBits :
        Cardinality({b \in LutBits : l[b] = 1 /\ s \in Mix[j][b]}) % 2 = 1}]

\* hash_with_flip, of all three
FlippedSig(sig, b) == [j \in Subs |-> SymDiff(sig[j], Mix[j][b])]

\* How many of the three words of a signature select slot s.
Hits(sig, s) == Cardinality({j \in Subs : sig[j] = s})

\* Mutant: a counter of one does not count.
containsTwice(sig) == \A j \in Subs : m_table[sig[j]] > 1

contains(sig) == \A j \in Subs : m_table[sig[j]] > 0
contains_with_flip(sig, b) == contains(FlippedSig(sig, b))

\* The counters after remove and after add; their assertions say whether the
\* result is one.
Removed(table, sig) == [s \in Slots |-> table[s] - Hits(sig, s)]
Added(table, sig)   == [s \in Slots |-> table[s] + Hits(sig, s)]

(***************************************************************************)
(* The flips that are allowed, and the best of them.  The search for the   *)
(* best starts from ePrev*1e6.                                             *)
(***************************************************************************)
Allowed == {b \in LutBits :
               /\ ~ contains_with_flip(toSignature(solCurr), b)
               /\ Score[Flipped(solCurr, b)] <= Score[solCurr] * 1000000}

flipBestLocal == {b \in Allowed : \A c \in Allowed :
                     Score[Flipped(solCurr, b)] <= Score[Flipped(solCurr, c)]}

Init == /\ groupSize \in GroupSizes
        /\ solCurr \in Luts
        /\ solBest = solCurr /\ eBest = Score[solCurr]
        /\ tries = 0
        /\ nabooQueue = <<>> /\ m_table = [s \in Slots |-> 0]
        /\ pc = "head"
        /\ recent = <<>>

-----------------------------------------------------------------------------
\* addNaboo: the queue without its front, and the counters without it, when the
\* queue is long enough.
Kept(q) == IF Len(q) > maxNaboo THEN Tail(q) ELSE q

\* Mutant: the counters are not taken off.
EmptiedNever == m_table

Emptied == IF Len(nabooQueue) > maxNaboo
             THEN Removed(m_table, Head(nabooQueue))
             ELSE m_table

\* The assertions of remR and addR.
Underflows    == \E s \in Slots : Emptied[s] < 0
Overflows(sig) == \E s \in Slots : Added(Emptied, sig)[s] > CounterMax

addNaboo(sig, l) ==
    /\ nabooQueue' = Append(Kept(nabooQueue), sig)
    /\ m_table' = Added(Emptied, sig)
    /\ recent' = Append(Kept(recent), l)

\* Mutant: the score remembered is ePrev.
RecordPrevious(l) ==
    IF Score[l] <= eBest
      THEN solBest' = l /\ eBest' = Score[solCurr]
      ELSE UNCHANGED <<solBest, eBest>>

\* A hash no worse than the best replaces it.
Record(l) ==
    IF Score[l] <= eBest
      THEN solBest' = l /\ eBest' = Score[l]
      ELSE UNCHANGED <<solBest, eBest>>

\* Mutant: tries stays what it is.
CountedNever == UNCHANGED tries

Counted == tries' = tries + 1

-----------------------------------------------------------------------------
Searching == pc = "head" /\ eBest # 0 /\ tries < maxTries

\* One try: make one of the best allowed flips.
Try(b) ==
    /\ Searching
    /\ b \in flipBestLocal
    /\ LET l   == Flipped(solCurr, b)
           sig == FlippedSig(toSignature(solCurr), b)
       IN  /\ ~ Underflows /\ ~ Overflows(sig)
           /\ solCurr' = l
           /\ addNaboo(sig, l)
           /\ Record(l)
    /\ Counted
    /\ pc' = "count"
    /\ UNCHANGED groupSize

\* An assertion of the filter fails: the program is aborted.
Abort(b) ==
    /\ Searching
    /\ b \in flipBestLocal
    /\ Underflows \/ Overflows(FlippedSig(toSignature(solCurr), b))
    /\ pc' = IF Underflows THEN "underflow" ELSE "overflow"
    /\ UNCHANGED <<groupSize, solCurr, solBest, eBest, tries, nabooQueue, m_table, recent>>

\* No flip is allowed: "out of moves", exit(1).
OutOfMoves ==
    /\ Searching
    /\ flipBestLocal = {}
    /\ pc' = "stuck"
    /\ UNCHANGED <<groupSize, solCurr, solBest, eBest, tries, nabooQueue, m_table, recent>>

\* After a try, and a restart if any: every TriesAtLevel tries the clock is
\* looked at, and the time may be up.
NextTry == pc' \in IF tries % TriesAtLevel = 0 THEN {"head", "done"} ELSE {"head"}

GoOn ==
    /\ pc = "count"
    /\ NextTry
    /\ UNCHANGED <<groupSize, solCurr, solBest, eBest, tries, nabooQueue, m_table, recent>>

\* One try in a thousand goes back to the best hash, and syncs.
Restart ==
    /\ pc = "count"
    /\ solCurr' = solBest
    /\ NextTry
    /\ UNCHANGED <<groupSize, solBest, eBest, tries, nabooQueue, m_table, recent>>

\* The loop has ended: solBest is printed, solution or not.
Finish ==
    /\ pc = "head"
    /\ ~ Searching
    /\ pc' = "done"
    /\ UNCHANGED <<groupSize, solCurr, solBest, eBest, tries, nabooQueue, m_table, recent>>

Next == \/ \E b \in LutBits : Try(b) \/ Abort(b)
        \/ OutOfMoves
        \/ GoOn
        \/ Restart
        \/ Finish

Spec == Init /\ [][Next]_vars

(* One thread that nothing blocks. *)
FairSpec == Spec /\ WF_vars(Next)

-----------------------------------------------------------------------------
\* The words of the queued signatures that select slot s.
Queued(s) == {x \in (DOMAIN nabooQueue) \X Subs : nabooQueue[x[1]][x[2]] = s}

(* Filter, queue and search stay in step through all additions, evictions   *)
(* and restarts: the queue holds the signatures of the hashes entered last,  *)
(* as they would be computed from scratch, although each was computed by one *)
(* flip more, and a counter is the number of their words that select it; so *)
(* the assertion of remR (line 238 of bit_hash_history.hpp) always holds.    *)
FilterInStep ==
    /\ pc # "underflow"
    /\ Len(recent) = Len(nabooQueue) /\ Len(nabooQueue) <= maxNaboo + 1
    /\ \A n \in DOMAIN recent : nabooQueue[n] = toSignature(recent[n])
    /\ \A s \in Slots : m_table[s] = Cardinality(Queued(s))

(* Neither the current hash nor one on the trail is better than the one     *)
(* that will be printed: so a search that is stuck, or aborted by an        *)
(* assertion, and prints nothing, has not been at a solution. What is       *)
(* printed is what was scored, and the search stops early exactly for a     *)
(* hash that gives no value to more than groupSize keys; this tool has no   *)
(* other check of what it prints.                                           *)
BestIsKept ==
    /\ eBest <= Score[solCurr]
    /\ \A n \in DOMAIN recent : eBest <= Score[recent[n]]
    /\ eBest = Score[solBest]
    /\ eBest = 0 <=>
          \A K \in SUBSET KeyIds :
             Cardinality(K) > groupSize =>
                \E j, k \in K : HashOf(solBest, Key[j]) # HashOf(solBest, Key[k])

Tabu == INSTANCE TabuSearch WITH Window <- maxNaboo + 1, at <- solCurr, best <- solBest

(* The filter implements a tabu list: whatever slots the signatures share,  *)
(* no step enters one of the hashes entered in the last maxNaboo+1 tries.   *)
ImplementsTabuSearch == Tabu!Spec

(* The program ends. *)
Terminates == <>(pc \in {"done", "stuck", "underflow", "overflow"})
=============================================================================
