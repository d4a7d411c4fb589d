------------------------------ MODULE MCTimeline ------------------------------
EXTENDS Timeline

OneLongTwoShort == <<"long", "a", "b">>
LongAndShort == [i \in Items |-> IF i = "long" THEN 3 ELSE 1]
=============================================================================
