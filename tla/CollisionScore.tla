--------------------------- MODULE CollisionScore ---------------------------
(***************************************************************************)
(* What an EntryToKey promises to a search: a BitHash that can be changed, *)
(* one bit at a time or altogether, and that answers, once the change is   *)
(* done, with the histogram of its collisions.  No caches, no order of     *)
(* updates: the answer is a function of the hash and the keys.             *)
(***************************************************************************)
EXTENDS HashProblem

VARIABLES lut,       \* the hash
          histogram  \* how many hashes have c keys, for every c, or NotReady

absVars == <<lut, histogram>>

NotReady == <<"not ready">>

HistogramOf(l) ==
    [c \in 0 .. nKeys |-> Cardinality(Fibre(HashCounts(KeysIn(l)), Hashes, c))]

Init == lut \in Luts /\ histogram = HistogramOf(lut)

Flip(b) == /\ histogram # NotReady
           /\ lut' = Flipped(lut, b)
           /\ histogram' = NotReady

Replace(l) == /\ histogram # NotReady
              /\ lut' = l
              /\ histogram' = NotReady

Answer == /\ histogram = NotReady
          /\ histogram' = HistogramOf(lut)
          /\ UNCHANGED lut

Next == \/ \E b \in LutBits : Flip(b)
        \/ \E l \in Luts : Replace(l)
        \/ Answer

Spec == Init /\ [][Next]_absVars
=============================================================================
