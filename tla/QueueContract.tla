--------------------------- MODULE QueueContract ---------------------------
(***************************************************************************)
(* What the queue engine has to satisfy: the invariants, action properties *)
(* and the liveness property of QueueEngine, and the statements of the     *)
(* repository's documents (docs/QUEUE_CONTRACT.md, docs/INVARIANTS.md, ... *)
(* ) about it.  Which of them hold, and under which faults, is what the    *)
(* runs and the theorems of QueueEngine_proofs establish.                  *)
(***************************************************************************)
EXTENDS QueueEngine, SequencesExt

-----------------------------------------------------------------------------
(* Types.                                                                  *)

DiskTypeOK ==
    /\ segFile \in Seq(Record)
    /\ eventLog \in Seq(Event)
    /\ stateFile.next_sequence \in Nat
    /\ DOMAIN stateFile.runtime \subseteq Ids
    /\ \A id \in DOMAIN stateFile.runtime : stateFile.runtime[id] \in MessageRuntime

SegmentTypeOK ==
    /\ segPos \in 0 .. Len(segFile) /\ segNext \in Nat
    /\ DOMAIN segIndex \subseteq Nat
    /\ \A o \in DOMAIN segIndex : segIndex[o] \in DOMAIN segFile

GroupTypeOK ==
    /\ loaded \in BOOLEAN
    /\ DOMAIN runtime \subseteq Ids
    /\ \A id \in DOMAIN runtime : runtime[id] \in MessageRuntime
    /\ DOMAIN inflight \subseteq DOMAIN runtime
    /\ \A id \in DOMAIN inflight : inflight[id] \in InflightEntry
    /\ wheel \in [Slots -> SUBSET (Ids \X Nat)]
    /\ base \in Nat /\ nextSeq \in Nat

CallTypeOK ==
    /\ clock \in Nat
    /\ pc \in {"down", "idle", "reap", "dispatch"}
    /\ call \in {"none", "consume", "stats"} /\ now \in Nat
    /\ leases \subseteq Lease /\ acked \subseteq leases
    /\ restarts \in Nat /\ setbacks \in Nat

\* Every variable has its type; a message in flight has a runtime entry
\* (so Ack's "runtime missing" return and the reaper's erase of an entry
\* without runtime are unreachable), the index points into the file.
TypeOK == DiskTypeOK /\ SegmentTypeOK /\ GroupTypeOK /\ CallTypeOK

-----------------------------------------------------------------------------
(* Sequences and lease tokens.                                             *)

\* docs/INVARIANTS.md:4: the sequences in the events file only ever grow,
\* through failed appends, crashes and power losses that cut the file short.
SequencesMonotonic ==
    \A i, j \in DOMAIN eventLog :
        i < j => eventLog[i].sequence < eventLog[j].sequence

\* docs/QUEUE_CONTRACT.md:30: a delivery's lease token (id:sequence) differs
\* from every token handed out before it, also across restarts and power
\* losses: Consume returns a lease only after the snapshot is durable.
LeaseTokensUnique ==
    [][\A l \in leases' \ leases : \A k \in leases : k.sequence < l.sequence]_vars

-----------------------------------------------------------------------------
(* Durability.                                                             *)

Settled == {"acked", "dead"}

\* A message whose Ack returned Ok is ACKED in the events file and in the
\* table, and stays so: no crash, failed snapshot, later timeout, stale
\* wheel entry or other consumer's call brings it back.
AckDurable ==
    \A l \in acked :
        /\ EventsOf(eventLog, l.id) # {}
        /\ LastEvent(eventLog, l.id).state = "acked"
        /\ loaded => l.id \in DOMAIN runtime /\ runtime[l.id].state = "acked"

\* Where a message is in its life: what the group's table says while it is
\* loaded, and what the files will restore while it is not.  A lease that a
\* crash has interrupted is still in the inflight map after recovery.
Phase(id) ==
    IF loaded
    THEN IF id \notin DOMAIN runtime THEN "ready"
         ELSE IF runtime[id].state = "ready" /\ id \in DOMAIN inflight THEN "interrupted"
         ELSE runtime[id].state
    ELSE IF Replayed(eventLog, id, 0).state = "inflight" THEN "interrupted"
         ELSE Replayed(eventLog, id, 0).state

Retries(id) ==
    IF ~loaded THEN Replayed(eventLog, id, 0).retry_count
    ELSE IF id \in DOMAIN runtime THEN runtime[id].retry_count ELSE 0

Lifecycle == INSTANCE MessageLifecycle WITH
    phase <- [id \in Ids |-> Phase(id)], retries <- [id \in Ids |-> Retries(id)]

\* Through calls that fail half way and crashes between any two writes, each
\* message goes through one life: ACKED and DEAD are final, no attempt is
\* forgotten or counted twice, and a lease ends in one of the ways it may.
LifecycleSpec == Lifecycle!Spec

\* docs/FAILURE_MODES.md:7, "after restart the latest durable transition
\* wins": what LoadGroupState would restore is no older than the newest
\* transition on disk, in the snapshot or in the events file.
LatestDurableWins ==
    \A id \in DOMAIN stateFile.runtime :
        /\ Replayed(eventLog, id, 0).sequence >= stateFile.runtime[id].sequence
        /\ \A i \in EventsOf(eventLog, id) :
              Replayed(eventLog, id, 0).sequence >= eventLog[i].sequence

-----------------------------------------------------------------------------
(* Leases.                                                                 *)

\* The inflight map and the runtime table agree: an entry belongs to the
\* transition the table shows last, every IN_FLIGHT message has one, and a
\* READY message has one only if it was recovered from IN_FLIGHT.
LeaseMatchesState ==
    /\ \A id \in DOMAIN inflight :
          /\ inflight[id].sequence = runtime[id].sequence
          /\ runtime[id].state \in {"inflight", "ready"}
          /\ runtime[id].state = "ready" => restarts > 0
    /\ \A id \in DOMAIN runtime :
          runtime[id].state = "inflight" => id \in DOMAIN inflight

\* docs/QUEUE_CONTRACT.md:47-50: max_inflight is a hard limit.
InflightBound == Cardinality(DOMAIN inflight) <= MaxInflight

\* A message is handed out at most once per retry it is allowed, plus once
\* for the first delivery and once for each restart, whatever calls failed in
\* between and however its leases ended (docs/INVARIANTS.md:7).
DeliveriesBounded ==
    \A id \in Ids :
        Cardinality({l \in leases : l.id = id}) <= MaxRetryCount + 1 + restarts

\* docs/PHASE0_SYSTEM_UNDERSTANDING.md:66: an Ack takes effect only for the
\* delivery it belongs to, the current lease of the message.
AckLeaseBound ==
    [][\A l \in acked' \ acked : inflight[l.id].sequence = l.sequence]_vars

-----------------------------------------------------------------------------
(* The deadline wheel.                                                     *)

\* docs/INVARIANTS.md:5: every lease is registered with the scheduler, in
\* the slot its deadline belongs to, until it ends.
WheelRegistered ==
    \A id \in DOMAIN inflight :
        \E x \in wheel[Slot(inflight[id].deadline)] : x[1] = id

\* docs/QUEUE_CONTRACT.md:43: the wheel is never more than one turn past the
\* bucket of a message that is IN_FLIGHT.  A deadline inside a tick may be
\* passed over in its own bucket; the entry is found again a turn later, and
\* neither lost nor passed over a second time.
OverdueWithinTurn ==
    \A id \in DOMAIN runtime :
        runtime[id].state = "inflight" =>
            base <= BucketTick(inflight[id].deadline) + WheelSize

\* docs/QUEUE_CONTRACT.md:43: "Unacked IN_FLIGHT messages are retried after
\* visibility timeout": when ReapExpiredInflight ends, no message is left
\* IN_FLIGHT whose visibility timeout passed a tick or more before now.
ExpiredRetried ==
    [][ReapEnd => \A id \in DOMAIN runtime :
            runtime[id].state = "inflight" => inflight[id].deadline + TickMs > now]_vars

-----------------------------------------------------------------------------
(* Order, replay and visibility.                                           *)

DeliveredBy(log, id, n) == \E i \in EventsOf(log, id) : i <= n /\ log[i].state = "inflight"

ProducedOnce(id) == Cardinality({p \in DOMAIN segFile : segFile[p].id = id}) = 1

\* docs/QUEUE_CONTRACT.md:14: first deliveries follow the segment's offsets,
\* however leases, timeouts, nacks, backoffs and crashes are interleaved
\* with them (an id that producers use twice has no offset of its own).  A
\* delivery is its event in the file; a Consume that fails after writing it
\* hands out no lease.
FirstDeliveryInOrder ==
    \A a, b \in {id \in DOMAIN runtime : ProducedOnce(id)} :
        runtime[a].offset < runtime[b].offset =>
            \A n \in DOMAIN eventLog :
                DeliveredBy(eventLog, b, n) => DeliveredBy(eventLog, a, n)

\* READY, then the last event not after until.
ReplayedState(id, until) ==
    LET upto == {i \in EventsOf(eventLog, id) : eventLog[i].sequence <= until}
    IN  IF upto = {} THEN "ready" ELSE eventLog[Max(upto)].state

\* The ids of the segment's records: of those it indexes, or will index when
\* it is opened again.
ReplayIds ==
    IF pc = "down" THEN {segFile[p].id : p \in Range(RecoverIndex(segFile))} ELSE KnownIds

\* The last event not after until.
AppliedSequence(until) ==
    LET upto == {i \in DOMAIN eventLog : eventLog[i].sequence <= until}
    IN  IF upto = {} THEN 0 ELSE eventLog[Max(upto)].sequence

\* The answer of ReplayToSequence: the last event applied, and how many of
\* the segment's messages are in each state.
ReplayToSequence(until) ==
    [applied_sequence |-> AppliedSequence(until),
     stats |-> [s \in States |->
                   Cardinality({id \in ReplayIds : ReplayedState(id, until) = s})]]

\* docs/QUEUE_CONTRACT.md:71: replaying every persisted transition gives the
\* state the live engine has; only a message recovered from IN_FLIGHT, which
\* recovery makes READY without an event, still replays as IN_FLIGHT.
ReplayMatchesLive ==
    \A id \in DOMAIN runtime :
        ReplayedState(id, nextSeq) =
            IF runtime[id].state = "ready" /\ id \in DOMAIN inflight
            THEN "inflight" ELSE runtime[id].state

\* The sequences given out: in the events file or by the running engine.
GivenOut ==
    {eventLog[i].sequence : i \in DOMAIN eventLog}
        \cup (IF loaded THEN 1 .. nextSeq - 1 ELSE {})

\* What a later replay may differ in: messages produced since are READY.
SameReplay(old, new) ==
    /\ new.applied_sequence = old.applied_sequence
    /\ \A s \in States \ {"ready"} : new.stats[s] = old.stats[s]
    /\ new.stats["ready"] >= old.stats["ready"]

\* docs/QUEUE_CONTRACT.md:72: a replay to a sequence already given out has
\* the same answer ever after, also while and after the server is down, but
\* for the READY messages that later Produce calls add to it.
ReplayStable ==
    [][\A n \in GivenOut : SameReplay(ReplayToSequence(n), ReplayToSequence(n)')]_vars

\* docs/PHASE0_SYSTEM_UNDERSTANDING.md:20: a loaded group treats a newly
\* produced message as READY.
ProducedVisible == loaded => KnownIds \subseteq DOMAIN runtime

-----------------------------------------------------------------------------
(* Inductive strengthenings.                                               *)

\* A loaded group's next_sequence is past everything on disk, and a lease is
\* handed out only once a snapshot past its sequence is in place.
SequenceInv ==
    /\ SequencesMonotonic
    /\ loaded => /\ stateFile.next_sequence <= nextSeq
                 /\ \A i \in DOMAIN eventLog : eventLog[i].sequence < nextSeq
    /\ \A l \in leases : l.sequence < stateFile.next_sequence
    /\ pc \in {"reap", "dispatch"} => loaded

\* Before the group is first loaded there is no event to recover.
LeaseInv ==
    /\ LeaseMatchesState
    /\ ~loaded /\ restarts = 0 => eventLog = <<>>

\* A table's entry for a message is the one a segment record gets, or comes
\* from a transition of that message which is in the events file.
FromLog(id, r) ==
    \/ /\ r.state = "ready" /\ r.retry_count = 0
       /\ r.available_after = 0 /\ r.sequence = 0
    \/ \E i \in EventsOf(eventLog, id) : eventLog[i].sequence = r.sequence

\* Neither the snapshot nor the table is ever ahead of the events file.
LogFirstInv ==
    /\ \A id \in DOMAIN stateFile.runtime : FromLog(id, stateFile.runtime[id])
    /\ \A id \in DOMAIN runtime : FromLog(id, runtime[id])

\* p is where the segment file has offset o for the last time: the place
\* Recover gives o in the index.
LastRecordOf(o, p) ==
    /\ p \in DOMAIN segFile /\ segFile[p].offset = o
    /\ \A q \in DOMAIN segFile : segFile[q].offset = o => q <= p

\* While nothing is produced after a reopen, the index in memory is the one
\* Recover would build, but for a record whose sync failed at the file's end.
IndexInv ==
    /\ pc = "down" /\ restarts = 0 => segFile = <<>>
    /\ pc # "down" => \A o \in DOMAIN segIndex : LastRecordOf(o, segIndex[o])
    /\ pc # "down" /\ restarts > 0 =>
          DOMAIN segIndex = {segFile[p].offset : p \in DOMAIN segFile}
    /\ pc # "down" /\ restarts = 0 =>
          /\ segPos = Len(segFile)
          /\ DOMAIN segIndex = 0 .. segNext - 1
          /\ \A p \in DOMAIN segFile : segFile[p].offset <= segNext

\* Offset o is message id's, and will be after every later recovery.
Placed(id, o) ==
    /\ \E p \in DOMAIN segFile : LastRecordOf(o, p) /\ segFile[p].id = id
    /\ restarts = 0 => o < segNext

\* What the group knows of a message is about a record of the segment, and
\* a loaded group knows every message that has an event.
PlacedInv ==
    /\ \A id \in DOMAIN stateFile.runtime : Placed(id, stateFile.runtime[id].offset)
    /\ \A id \in DOMAIN runtime : Placed(id, runtime[id].offset)
    /\ \A i \in DOMAIN eventLog :
          \E p \in DOMAIN segFile : Placed(eventLog[i].id, segFile[p].offset)
    /\ loaded => \A i \in DOMAIN eventLog : eventLog[i].id \in DOMAIN runtime
    /\ ~loaded => DOMAIN runtime = {}

\* Where the events file alone says a message is in its life.
LoggedPhase(id) ==
    IF EventsOf(eventLog, id) = {} THEN "ready"
    ELSE IF LastEvent(eventLog, id).state = "inflight" THEN "interrupted"
    ELSE LastEvent(eventLog, id).state

LoggedRetries(id) ==
    IF EventsOf(eventLog, id) = {} THEN 0 ELSE LastEvent(eventLog, id).retry_count

\* One step of a message's life, from phase p and r retries to q and s.
LifeStep(p, r, q, s) ==
    \/ q = p /\ s = r
    \/ p \in {"ready", "interrupted"} /\ q = "inflight" /\ s = r
    \/ p \in {"ready", "inflight"} /\ q = "interrupted" /\ s = r
    \/ p \in Lifecycle!Leased /\ q = "acked" /\ s = r
    \/ /\ p \in Lifecycle!Leased /\ q = "dead"
       /\ s = r \/ (r = MaxRetryCount /\ s = MaxRetryCount + 1)
    \/ p \in Lifecycle!Leased /\ q = "ready" /\ r < MaxRetryCount /\ s = r + 1

\* A crash at any moment takes each message through one step of its life at
\* most: the events file is at most one transition ahead of the table.  And
\* only the last retry takes a message past the budget, to DEAD.
RecoveryInv ==
    \A id \in Ids :
        /\ loaded => LifeStep(Phase(id), Retries(id), LoggedPhase(id), LoggedRetries(id))
        /\ Retries(id) <= MaxRetryCount + 1
        /\ Phase(id) # "dead" => Retries(id) <= MaxRetryCount

\* The delivery a message has, or ended with before its retries ran out.
OpenDelivery(p, r) ==
    IF p \in {"inflight", "acked"} \/ (p = "dead" /\ r <= MaxRetryCount) THEN 1 ELSE 0

\* Every other delivery has been paid for by a retry or by a restart.
DeliveryInv ==
    /\ IsFiniteSet(leases)
    /\ \A id \in Ids :
          Cardinality({l \in leases : l.id = id}) <=
              Retries(id) + restarts + OpenDelivery(Phase(id), Retries(id))

\* What replaying the whole events file says of a message, and what the live
\* table does; the leases the file says are open.
LoggedState(id) ==
    IF EventsOf(eventLog, id) = {} THEN "ready" ELSE LastEvent(eventLog, id).state

LiveState(id) ==
    IF runtime[id].state = "ready" /\ id \in DOMAIN inflight
    THEN "inflight" ELSE runtime[id].state

LoggedLeases == {id \in Ids : LoggedState(id) = "inflight"}

\* Where no append fails between the write and the update in memory, the
\* table is never behind the events file, and no crash opens a lease more.
InStepInv ==
    /\ loaded => \A id \in DOMAIN runtime : LoggedState(id) = LiveState(id)
    /\ IsFiniteSet(LoggedLeases) /\ Cardinality(LoggedLeases) <= MaxInflight

\* The records first deliveries are ordered by: the only one of its message,
\* and the one that message's offset is read from.
SoleRecord(p) == \A q \in DOMAIN segFile : segFile[q].id = segFile[p].id => q = p
OwnRecord(p) == SoleRecord(p) /\ Placed(segFile[p].id, segFile[p].offset)

DeliveredAt(log, id, i) == log[i].id = id /\ log[i].state = "inflight"

\* A message's first event is a delivery, and what is in flight has had one.
DeliveredFirst ==
    /\ \A i \in DOMAIN eventLog : \E j \in DOMAIN eventLog :
          j <= i /\ DeliveredAt(eventLog, eventLog[i].id, j)
    /\ \A id \in DOMAIN inflight : EventsOf(eventLog, id) # {}

\* A group that knows a message knows every one at an earlier offset.
KnowsEarlier ==
    \A id \in DOMAIN runtime : \A p \in DOMAIN segFile :
        /\ Placed(segFile[p].id, segFile[p].offset)
        /\ segFile[p].offset < runtime[id].offset
        => segFile[p].id \in DOMAIN runtime

\* Each delivery comes after one of every message at an earlier offset.
EarlierFirst ==
    \A p, q \in DOMAIN segFile :
        OwnRecord(p) /\ OwnRecord(q) /\ segFile[p].offset < segFile[q].offset =>
            \A i \in DOMAIN eventLog : DeliveredAt(eventLog, segFile[q].id, i) =>
                \E j \in DOMAIN eventLog :
                    j <= i /\ DeliveredAt(eventLog, segFile[p].id, j)

OrderInv == DeliveredFirst /\ KnowsEarlier /\ EarlierFirst

-----------------------------------------------------------------------------
(* Liveness.  Time passes while something waits for it: a backoff, or the  *)
(* next turn of the wheel; at most a millisecond between two readings of   *)
(* the clock by one call, which is short against a turn of the wheel (512  *)
(* ticks).  A shard's queue is FIFO, so a consumer that keeps polling has  *)
(* its Consume run again and again, whatever other calls come in between   *)
(* (strong fairness); a started call is carried on by the worker, and the  *)
(* server is restarted after a crash (weak fairness).                      *)

Awaited ==
    \/ \E id \in DOMAIN runtime :
          runtime[id].state = "ready" /\ runtime[id].available_after > clock
    \/ DOMAIN inflight # {} /\ clock \div TickMs < base + WheelSize

LiveTick == Awaited /\ (pc = "idle" \/ clock = now) /\ Tick

LiveNext == LiveTick \/ SetClockBack \/ Restart \/ Crash \/ ClientStep \/ CallStep

LiveSpec ==
    /\ Init /\ [][LiveNext]_vars
    /\ WF_vars(LiveTick)
    /\ WF_vars(CallStep)
    /\ WF_vars(Restart)
    /\ WF_vars(GetGroup)
    /\ SF_vars(BeginConsume)

\* docs/QUEUE_CONTRACT.md:10,43-44: while a consumer polls, each message
\* the group knows is eventually ACKED or DEAD, whether consumers ack, nack
\* or stay silent, and whatever leases a crash has left behind.
EventuallySettled ==
    \A id \in Ids :
        id \in DOMAIN runtime ~>
            EventsOf(eventLog, id) # {} /\ LastEvent(eventLog, id).state \in Settled
=============================================================================
