------------------------- MODULE MCConsumerSession --------------------------
EXTENDS ConsumerSession

MCSessions == <<[session_id |-> 2, max_inflight |-> 1],
                [session_id |-> 3, max_inflight |-> 2],
                [session_id |-> 1, max_inflight |-> 1]>>
=============================================================================
