----------------------------- MODULE MCShuffle -----------------------------
EXTENDS Shuffle

\* bit_vector::overlaps
Overlap(j, k) == \A i \in Bits : j[i] = -1 \/ k[i] = -1 \/ j[i] = k[i]

\* All problems of one to three keys of three bits; the keys have no overlaps.
Apart == {p \in Keys \X Keys : ~ Overlap(p[1], p[2])}

MCKeySets == {{k} : k \in Keys}
             \cup {{p[1], p[2]} : p \in Apart}
             \cup UNION {{{p[1], p[2], k} : k \in {l \in Keys : ~ Overlap(p[1], l) /\ ~ Overlap(p[2], l)}}
                             : p \in Apart}

BothTools == {"minisat_weighted", "weighted"}
=============================================================================
