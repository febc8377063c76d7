--------------------------- MODULE SerialExecutor ---------------------------
(***************************************************************************)
(* What a shard promises its callers ("single-writer shard actor           *)
(* serializes queue mutations", docs/PHASE0_SYSTEM_UNDERSTANDING.md:45):   *)
(* calls are executed one at a time, in the order they were submitted, and *)
(* each exactly once.                                                      *)
(***************************************************************************)
EXTENDS Naturals, Sequences

CONSTANTS Clients

VARIABLES queue,     \* callers of the calls not executed yet, oldest first
          executed   \* calls executed for each client

Init == queue = <<>> /\ executed = [c \in Clients |-> 0]

Call(c) ==
    /\ \A i \in 1 .. Len(queue) : queue[i] # c
    /\ queue' = Append(queue, c)
    /\ UNCHANGED executed

Execute ==
    /\ queue # <<>>
    /\ executed' = [executed EXCEPT ![Head(queue)] = @ + 1]
    /\ queue' = Tail(queue)

Next == (\E c \in Clients : Call(c)) \/ Execute

Spec == Init /\ [][Next]_<<queue, executed>>
=============================================================================
