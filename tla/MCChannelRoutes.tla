--------------------------- MODULE MCChannelRoutes ---------------------------
EXTENDS ChannelRoutes, TLC

\* One channel; the other is created.
OneChannel == {[c \in Ids |-> IF c = 1 THEN [slug |-> "jazz", enabled |-> TRUE] ELSE NoRow]}

\* A rename, a switch, or neither (a new description).
OneField == {ask \in Change : ask.slug = NoSlug \/ ask.enabled = {}}

Symmetry == Permutations(Reqs)
=============================================================================
