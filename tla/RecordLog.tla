----------------------------- MODULE RecordLog -----------------------------
(***************************************************************************)
(* What a segment promises its queue, and what QueueEngine takes it to be: *)
(* a sequence of whole records that only grows, given back by a reopen     *)
(* except, at the very end, for records whose append was not confirmed.    *)
(* `intact` goes down when the promise no longer stands.                   *)
(***************************************************************************)
EXTENDS Naturals, Sequences

CONSTANT Ids

VARIABLES
    log,        \* the records, in the order of the file
    confirmed,  \* records up to the last one whose append returned Ok
    next,       \* the offset the next record will get
    up,         \* is the segment open?
    intact

logVars == <<log, confirmed, next, up, intact>>

Init ==
    /\ log = <<>> /\ confirmed = 0 /\ next = 0
    /\ up = FALSE /\ intact = TRUE

NextOffset(records) ==
    IF records = <<>> THEN 0 ELSE records[Len(records)].offset + 1

Written(id) == Append(log, [id |-> id, offset |-> next])

Append_(id) ==
    /\ up /\ up'
    /\ log' = Written(id)
    /\ confirmed' = Len(log')
    /\ next' = next + 1

\* The record is there, its append has failed, its offset will be reused.
AppendUnconfirmed(id) ==
    /\ up /\ up'
    /\ log' = Written(id)
    /\ UNCHANGED <<confirmed, next>>

\* The end of a process, or of the machine after it, may lose what was not
\* confirmed, or find one more record complete: the one being appended, even
\* if its last cells are those of an earlier record that was cut off.
Close ==
    /\ ~up'
    /\ \/ \E n \in confirmed .. Len(log) : log' = SubSeq(log, 1, n)
       \/ \E id \in Ids : log' = Written(id)
    /\ next' = 0
    /\ UNCHANGED confirmed

Reopen ==
    /\ ~up /\ up'
    /\ next' = NextOffset(log)
    /\ UNCHANGED <<log, confirmed>>

Next ==
    \/ /\ intact /\ intact'
       /\ (\E id \in Ids : Append_(id) \/ AppendUnconfirmed(id)) \/ Close \/ Reopen
    \/ ~intact'

Spec == Init /\ [][Next]_logVars
=============================================================================
