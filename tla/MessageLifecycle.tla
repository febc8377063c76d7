-------------------------- MODULE MessageLifecycle --------------------------
(***************************************************************************)
(* What a consumer group promises about each message (docs/                *)
(* QUEUE_CONTRACT.md:16-24, docs/INVARIANTS.md): it is READY or IN_FLIGHT  *)
(* until it is ACKED or DEAD for good, and is retried a bounded number of  *)
(* times.  A crash may interrupt a lease, or a delivery whose answer the   *)
(* consumer never got; what was interrupted is delivered again, counts as  *)
(* the same attempt, and may still be settled by the consumer that has it. *)
(***************************************************************************)
EXTENDS Naturals

CONSTANTS Ids, MaxRetryCount

VARIABLES phase,     \* id -> "ready", "inflight", "interrupted", "acked" or "dead"
          retries    \* id -> attempts that have failed

Init ==
    /\ phase = [id \in Ids |-> "ready"]
    /\ retries = [id \in Ids |-> 0]

Leased == {"inflight", "interrupted"}

Move(id, from, to) == phase[id] \in from /\ phase'[id] = to
SameAttempt(id) == retries'[id] = retries[id]

Deliver(id) == Move(id, {"ready", "interrupted"}, "inflight") /\ SameAttempt(id)
Interrupt(id) == Move(id, {"ready", "inflight"}, "interrupted") /\ SameAttempt(id)
Ack(id) == Move(id, Leased, "acked") /\ SameAttempt(id)
\* Rejected for good, or out of retries.
Die(id) ==
    /\ Move(id, Leased, "dead")
    /\ \/ SameAttempt(id)
       \/ retries[id] = MaxRetryCount /\ retries'[id] = MaxRetryCount + 1
Retry(id) ==
    /\ Move(id, Leased, "ready")
    /\ retries[id] < MaxRetryCount /\ retries'[id] = retries[id] + 1
Stay(id) == phase'[id] = phase[id] /\ SameAttempt(id)

\* A crash moves several messages at once.
Next ==
    /\ phase' = [id \in Ids |-> phase'[id]]
    /\ retries' = [id \in Ids |-> retries'[id]]
    /\ \A id \in Ids :
          \/ Stay(id) \/ Deliver(id) \/ Interrupt(id) \/ Ack(id) \/ Die(id) \/ Retry(id)

Spec == Init /\ [][Next]_<<phase, retries>>
=============================================================================
