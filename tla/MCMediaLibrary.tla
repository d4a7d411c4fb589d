--------------------------- MODULE MCMediaLibrary ---------------------------
EXTENDS MediaLibrary, TLC

CONSTANTS f1, f2, g1, near, far

Symmetry ==
  Permutations(Workers) \union Permutations(Contents) \union Permutations({f1, f2})

LocationOfFile == [f \in {f1, f2, g1} |-> IF f = g1 THEN far ELSE near]
NearFirst == [l \in {near, far} |-> IF l = near THEN 1 ELSE 0]
LimitOf == [l \in {near, far} |-> IF l = near THEN 1 ELSE 1]
=============================================================================
