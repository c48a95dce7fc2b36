--------------------------- MODULE MCSearchIndex ----------------------------
EXTENDS SearchIndex, TLC

CONSTANTS c1, c2, a1, a2, w1, t1, t2

\* alike: every definition treats the clients alike, and the tags
MCSymmetry == Permutations({c1, c2}) \cup Permutations({t1, t2}) \cup Permutations({a1, a2})

=============================================================================
