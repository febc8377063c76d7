--------------------------- MODULE MCSegmentLog ----------------------------
EXTENDS SegmentLog

\* An empty message, one with a body, and one with a longer body that starts
\* as the other's does; the offsets tell repeats apart.
MCBody ==
    [id \in Ids |-> CASE id = "empty" -> <<>>
                      [] id = "short" -> <<"x">>
                      [] id = "long" -> <<"x", "x">>]
=============================================================================
