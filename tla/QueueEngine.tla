---------------------------- MODULE QueueEngine ----------------------------
(***************************************************************************)
(* The queue engine of pomaiqueue (src/core/engine/queue_engine.cc): one   *)
(* queue, with its segment log, and one consumer group of it, with its     *)
(* event log, its snapshot, its runtime table and its deadline wheel.      *)
(*                                                                         *)
(* Every call on a queue runs on the one worker of the queue's shard, so   *)
(* two calls never interleave.  What does move inside a call is the clock, *)
(* which the code reads several times, and a crash may come between any    *)
(* two writes.  Consume and GetStats are therefore several steps (pc);     *)
(* the other calls are one step each, and a crash after k of their writes  *)
(* leaves on disk what one of their error returns followed by Crash does.  *)
(***************************************************************************)
EXTENDS Naturals, Sequences, FiniteSets, FiniteSetsExt, Functions

CONSTANTS
    Ids,                \* message identifiers clients use
    MaxInflight,        \* EngineOptions::max_inflight
    MaxQueueDepth,      \* EngineOptions::max_queue_depth
    MaxSegmentSize,     \* EngineOptions::max_segment_size_bytes, in records
    MaxRetryCount,      \* EngineOptions::max_retry_count
    VisibilityTimeout,  \* EngineOptions::visibility_timeout, ms
    RetryBackoff,       \* EngineOptions::retry_backoff, ms
    SchedulerTick,      \* EngineOptions::scheduler_tick, ms
    WheelSize,          \* slots of the deadline wheel (512 in the code)
    Failpoints,         \* failpoints and I/O errors that may strike a call
    ProduceAfterReopen, \* workload: is the queue written again after a reopen?
    AllowPowerLoss,     \* environment: may unsynced writes be lost?
    MaxTime,            \* bound on the clock
    MaxSequence,        \* bound on the sequences the callers' calls use up
    MaxRestarts,        \* bound on crashes
    MaxSetbacks,        \* bound on the times the system clock is set back
    SetbackMs           \* environment: the furthest it is set back at once

Faults ==
    {"before_log_append", "after_log_append", "before_checkpoint_rename",
     "fsync_file", "fsync_dir", "before_lease_issue",
     "before_ack_transition", "before_dlq_move", "before_timeout_transition"}

ASSUME LimitsAssumption ==
    /\ MaxInflight \in Nat /\ MaxQueueDepth \in Nat
    /\ MaxSegmentSize \in Nat /\ MaxRetryCount \in Nat
ASSUME TimesAssumption ==
    /\ VisibilityTimeout \in Nat /\ RetryBackoff \in Nat
    /\ SchedulerTick \in Nat /\ WheelSize \in Nat \ {0}
ASSUME FaultsAssumption ==
    /\ Failpoints \subseteq Faults
    /\ ProduceAfterReopen \in BOOLEAN /\ AllowPowerLoss \in BOOLEAN /\ SetbackMs \in Nat
ASSUME BoundsAssumption ==
    MaxTime \in Nat /\ MaxSequence \in Nat /\ MaxRestarts \in Nat /\ MaxSetbacks \in Nat

VARIABLES
    clock,      \* CurrentTimeMs()
    \* on disk
    segFile,    \* seg-000001.log: the records, in file order
    eventLog,   \* <group>.events: the transition events, in file order
    stateFile,  \* <group>.state: the snapshot (a missing file is EmptyState)
    \* SegmentLog in memory
    segPos,     \* records before the file position the next write goes to
    segNext,    \* next_offset_
    segIndex,   \* offset_to_position_, positions counted in records from 1
    \* ConsumerGroupState in memory
    loaded,     \* is the group in QueueState::groups?
    runtime,    \* id -> MessageRuntime
    inflight,   \* id -> InflightEntry
    wheel,      \* slot -> entries; an entry remembers the event that pushed it
    base,       \* wheel_base_tick
    nextSeq,    \* next_sequence
    \* the running call
    pc,         \* "down", "idle", "reap" (the wheel loop) or "dispatch"
    call,       \* which call runs: "none", "consume" or "stats"
    now,        \* the running call's last reading of the clock
    \* history
    leases,     \* the deliveries consumers have been handed
    acked,      \* the deliveries whose Ack returned Ok
    restarts,   \* crashes so far
    setbacks    \* times the clock was set back

disk    == <<segFile, eventLog, stateFile>>
segment == <<segPos, segNext, segIndex>>
group   == <<loaded, runtime, inflight, wheel, base, nextSeq>>
running == <<pc, call, now>>
history == <<leases, acked, restarts, setbacks>>
vars == <<clock, disk, segment, group, running, history>>

States == {"ready", "inflight", "acked", "dead"}
TickMs == IF SchedulerTick = 0 THEN 1 ELSE SchedulerTick
Slots == 0 .. WheelSize - 1

Record == [id: Ids, offset: Nat]
Event == [sequence: Nat, id: Ids, state: States, retry_count: Nat,
          available_after: Nat, deadline: Nat]
MessageRuntime == [state: States, offset: Nat, retry_count: Nat,
                   available_after: Nat, sequence: Nat]
InflightEntry == [deadline: Nat, sequence: Nat]
Lease == [id: Ids, sequence: Nat]

EmptyFn == [x \in {} |-> 0]
EmptyState == [next_sequence |-> 1, runtime |-> EmptyFn]

Put(f, k, v) == [x \in DOMAIN f \cup {k} |-> IF x = k THEN v ELSE f[x]]
Drop(f, k) == [x \in DOMAIN f \ {k} |-> f[x]]

-----------------------------------------------------------------------------
(* Segment log: the index Recover builds and the record Read returns.      *)

RecoverIndex(file) ==
    [o \in {file[p].offset : p \in DOMAIN file} |->
        Max({p \in DOMAIN file : file[p].offset = o})]

RecoverNextOffset(file) ==
    IF file = <<>> THEN 0 ELSE file[Len(file)].offset + 1

WriteAll(file, pos, rec) ==
    IF pos < Len(file) THEN [file EXCEPT ![pos + 1] = rec] ELSE Append(file, rec)

Read(offset) == segFile[segIndex[offset]].id

KnownIds == {Read(o) : o \in DOMAIN segIndex}

-----------------------------------------------------------------------------
(* Transitions: the events, and what applying one does to the group.       *)

BucketTick(deadline) == deadline \div TickMs
Slot(deadline) == BucketTick(deadline) % WheelSize

ScheduleInflight(w, e) == [w EXCEPT ![Slot(e.deadline)] = @ \cup {<<e.id, e.sequence>>}]

Runtime(e, offset) ==
    [state |-> e.state, offset |-> offset, retry_count |-> e.retry_count,
     available_after |-> e.available_after, sequence |-> e.sequence]

\* Mutant: the inflight entry is not erased when the lease ends.
ApplyTransitionNoErase(e, rt, w) ==
    /\ runtime' = [rt EXCEPT ![e.id] = Runtime(e, rt[e.id].offset)]
    /\ IF e.state = "inflight"
       THEN /\ inflight' = Put(inflight, e.id,
                               [deadline |-> e.deadline, sequence |-> e.sequence])
            /\ wheel' = ScheduleInflight(w, e)
       ELSE UNCHANGED inflight /\ wheel' = w

\* ApplyTransition on the live group; w is the wheel the call has reached.
ApplyTransition(e, rt, w) ==
    /\ runtime' = [rt EXCEPT ![e.id] = Runtime(e, rt[e.id].offset)]
    /\ IF e.state = "inflight"
       THEN /\ inflight' = Put(inflight, e.id,
                               [deadline |-> e.deadline, sequence |-> e.sequence])
            /\ wheel' = ScheduleInflight(w, e)
       ELSE /\ inflight' = Drop(inflight, e.id)
            /\ wheel' = w

\* Mutant: moves to DEAD are applied without being logged.
AppendTransitionDeadUnlogged(e, rt, w, early, fp) ==
    /\ nextSeq' = nextSeq + 1
    /\ eventLog' = IF e.state = "dead" THEN eventLog ELSE Append(eventLog, e)
    /\ ApplyTransition(e, rt, w)

\* AppendTransition, reached unless a failpoint of `early` has struck first;
\* the sequence has been taken from next_sequence in either case.
AppendTransition(e, rt, w, early, fp) ==
    /\ nextSeq' = nextSeq + 1
    /\ eventLog' = IF fp \in early THEN eventLog ELSE Append(eventLog, e)
    /\ IF fp \in early \cup {"after_log_append"}
       THEN runtime' = rt /\ wheel' = w /\ UNCHANGED inflight
       ELSE ApplyTransition(e, rt, w)

\* PersistGroupState, reached when the append has succeeded.
PersistGroupState(fp) ==
    stateFile' = IF fp \in {"none", "fsync_dir"}
                 THEN [next_sequence |-> nextSeq', runtime |-> runtime']
                 ELSE stateFile

Strikes(points) == {"none"} \cup (Failpoints \cap points)
AppendFaults == {"before_log_append", "after_log_append"}
PersistFaults == {"before_checkpoint_rename", "fsync_file", "fsync_dir"}

\* Mutant: one retry too many.
RetryEventOneMore(id, retries, at) ==
    [sequence |-> nextSeq, id |-> id,
     state |-> IF retries > MaxRetryCount + 1 THEN "dead" ELSE "ready",
     retry_count |-> retries, available_after |-> at + RetryBackoff, deadline |-> 0]

\* READY again after the backoff, or DEAD when the retries are used up.
RetryEvent(id, retries, at) ==
    IF retries > MaxRetryCount
    THEN [sequence |-> nextSeq, id |-> id, state |-> "dead",
          retry_count |-> retries, available_after |-> 0, deadline |-> 0]
    ELSE [sequence |-> nextSeq, id |-> id, state |-> "ready",
          retry_count |-> retries, available_after |-> at + RetryBackoff,
          deadline |-> 0]

-----------------------------------------------------------------------------
(* Recovery: the group LoadGroupState rebuilds from the three files.       *)

EventsOf(log, id) == {i \in DOMAIN log : log[i].id = id}
LastEvent(log, id) == log[Max(EventsOf(log, id))]

\* Mutant: the snapshot is read after the events, and overrides them.
ReplayedSnapshotLast(log, id, offset) ==
    IF id \in DOMAIN stateFile.runtime THEN stateFile.runtime[id]
    ELSE IF EventsOf(log, id) # {} THEN Runtime(LastEvent(log, id), offset)
    ELSE [state |-> "ready", offset |-> offset, retry_count |-> 0,
          available_after |-> 0, sequence |-> 0]

\* Segment default, then the snapshot's entry, then the last event.
Replayed(log, id, offset) ==
    LET default == [state |-> "ready", offset |-> offset, retry_count |-> 0,
                    available_after |-> 0, sequence |-> 0]
        restored == IF id \in DOMAIN stateFile.runtime
                    THEN stateFile.runtime[id] ELSE default
    IN  IF EventsOf(log, id) = {} THEN restored
        ELSE Runtime(LastEvent(log, id), restored.offset)

RecoveredRuntime(log, id, offset) ==
    LET r == Replayed(log, id, offset)
    IN  IF r.state = "inflight"
        THEN [r EXCEPT !.state = "ready", !.available_after = clock] ELSE r

\* Mutant: events of messages the segment does not have are applied too.
RecoveredInflightUnknown(log) ==
    [id \in {log[i].id : i \in {j \in DOMAIN log :
                LastEvent(log, log[j].id).state = "inflight"}} |->
        [deadline |-> LastEvent(log, id).deadline,
         sequence |-> LastEvent(log, id).sequence]]

RecoveredInflight(log) ==
    [id \in {i \in KnownIds : EventsOf(log, i) # {} /\ LastEvent(log, i).state = "inflight"} |->
        [deadline |-> LastEvent(log, id).deadline,
         sequence |-> LastEvent(log, id).sequence]]

\* Mutant: the scheduler is initialised after the replay, not before it.
RecoveredWheelEmpty(log) == [s \in Slots |-> {}]

RecoveredWheel(log) ==
    [s \in Slots |->
        {<<log[i].id, log[i].sequence>> :
            i \in {j \in DOMAIN log : /\ log[j].id \in KnownIds
                                      /\ log[j].state = "inflight"
                                      /\ Slot(log[j].deadline) = s}}]

\* Mutants: next_sequence restored from one of the two files only.
RecoveredSeqSnapshotOnly(log) == stateFile.next_sequence
RecoveredSeqEventsOnly(log) == Max({1} \cup {log[i].sequence + 1 : i \in DOMAIN log})

RecoveredSeq(log) ==
    Max({stateFile.next_sequence} \cup {log[i].sequence + 1 : i \in DOMAIN log})

-----------------------------------------------------------------------------
(* The actions.                                                            *)

Init ==
    /\ clock = 0
    /\ segFile = <<>> /\ eventLog = <<>> /\ stateFile = EmptyState
    /\ segPos = 0 /\ segNext = 0 /\ segIndex = EmptyFn
    /\ loaded = FALSE /\ runtime = EmptyFn /\ inflight = EmptyFn
    /\ wheel = [s \in Slots |-> {}] /\ base = 0 /\ nextSeq = 1
    /\ pc = "down" /\ call = "none" /\ now = 0
    /\ leases = {} /\ acked = {} /\ restarts = 0 /\ setbacks = 0

Tick ==
    /\ clock < MaxTime
    /\ clock' = clock + 1
    /\ UNCHANGED <<disk, segment, group, running, history>>

\* system_clock is not monotonic: it may be set back, also during a call.
SetClockBack ==
    /\ setbacks < MaxSetbacks
    /\ \E t \in 0 .. clock : t < clock /\ clock - t <= SetbackMs /\ clock' = t
    /\ setbacks' = setbacks + 1
    /\ UNCHANGED <<disk, segment, group, running, leases, acked, restarts>>

\* Start and CreateQueue: Open leaves the file position at the start of the
\* file, and Recover reads with pread, which does not move it.
Restart ==
    /\ pc = "down"
    /\ pc' = "idle"
    /\ segPos' = 0
    /\ segNext' = RecoverNextOffset(segFile)
    /\ segIndex' = RecoverIndex(segFile)
    /\ UNCHANGED <<clock, disk, group, call, now, history>>

\* The process ends, killed or after Stop: only the files are left.
LoseMemory ==
    /\ pc # "down" /\ restarts < MaxRestarts
    /\ pc' = "down" /\ call' = "none" /\ now' = 0
    /\ segPos' = 0 /\ segNext' = 0 /\ segIndex' = EmptyFn
    /\ loaded' = FALSE /\ runtime' = EmptyFn /\ inflight' = EmptyFn
    /\ wheel' = [s \in Slots |-> {}] /\ base' = 0 /\ nextSeq' = 1
    /\ restarts' = restarts + 1
    /\ UNCHANGED <<clock, segFile, stateFile, leases, acked, setbacks>>

Crash == LoseMemory /\ UNCHANGED eventLog

\* The events file is never synced (the segment and the snapshot are, under
\* FsyncPolicy::kAlways): after a power loss a prefix of it may be left.
PowerLoss ==
    /\ AllowPowerLoss
    /\ LoseMemory
    /\ \E n \in 0 .. Len(eventLog) : eventLog' = SubSeq(eventLog, 1, n)

\* SegmentLog::Append: the record is written where the file position is, and
\* indexed once it is synced.
SegmentAppend(id, fp) ==
    /\ segFile' = WriteAll(segFile, segPos, [id |-> id, offset |-> segNext])
    /\ segPos' = segPos + 1
    /\ IF fp = "fsync_file"
       THEN UNCHANGED <<segNext, segIndex>>
       ELSE /\ segIndex' = Put(segIndex, segNext, segPos')
            /\ segNext' = segNext + 1

\* Produce writes the segment only: no group is told.
Produce(id, fp) ==
    /\ pc = "idle"
    /\ restarts = 0 \/ ProduceAfterReopen
    /\ segNext < MaxQueueDepth
    /\ Len(segFile) < MaxSegmentSize
    /\ SegmentAppend(id, fp)
    /\ UNCHANGED <<clock, eventLog, stateFile, group, running, history>>

\* The first call that names the group loads it.  Where the segment holds an
\* id twice, the order of an unordered_map decides which offset it gets.
GetGroup ==
    /\ pc = "idle" /\ ~loaded
    /\ loaded' = TRUE
    /\ \E at \in [KnownIds -> DOMAIN segIndex] :
          /\ \A id \in KnownIds : Read(at[id]) = id
          /\ runtime' = [id \in KnownIds |-> RecoveredRuntime(eventLog, id, at[id])]
    /\ inflight' = RecoveredInflight(eventLog)
    /\ wheel' = RecoveredWheel(eventLog)
    /\ base' = clock \div TickMs
    /\ nextSeq' = RecoveredSeq(eventLog)
    /\ UNCHANGED <<clock, disk, segment, running, history>>

\* Consume and GetStats start with ReapExpiredInflight.
Begin(c) ==
    /\ pc = "idle" /\ loaded
    /\ c = "consume" => nextSeq <= MaxSequence
    /\ pc' = "reap" /\ call' = c /\ now' = clock
    /\ UNCHANGED <<clock, disk, segment, group, history>>

BeginConsume == Begin("consume")
BeginStats == Begin("stats")

InWheelLoop == pc = "reap" /\ base <= now \div TickMs
Bucket == wheel[base % WheelSize]

\* The entry's message is in flight and its bucket is no later than this one.
Reached(x) ==
    x[1] \in DOMAIN inflight /\ BucketTick(inflight[x[1]].deadline) <= base
Due == {x \in Bucket : Reached(x) /\ inflight[x[1]].deadline <= now}

\* An entry whose deadline has passed leaves the wheel for good, and its
\* message makes the timeout transition.  No snapshot follows.
ReapTimeout(x, fp) ==
    /\ InWheelLoop
    /\ x \in Due
    /\ AppendTransition(
          RetryEvent(x[1], runtime[x[1]].retry_count + 1, now), runtime,
          [wheel EXCEPT ![base % WheelSize] = @ \ {x}],
          {"before_timeout_transition", "before_log_append"}, fp)
    /\ UNCHANGED <<clock, segFile, stateFile, segment, loaded, base, running, history>>

\* Mutant: a reached entry whose deadline is still ahead is not pushed again.
ReapAdvanceForgets ==
    /\ InWheelLoop
    /\ Due = {}
    /\ wheel' = [wheel EXCEPT ![base % WheelSize] = {}]
    /\ base' = base + 1
    /\ UNCHANGED <<clock, disk, segment, loaded, runtime, inflight, nextSeq,
                   running, history>>

\* The rest of the bucket: a reached entry is pushed again, in the slot of
\* its own bucket; every other entry is dropped.  Then the next bucket.
ReapAdvance ==
    /\ InWheelLoop
    /\ Due = {}
    /\ LET kept == {x \in Bucket : Reached(x)}
           others == [wheel EXCEPT ![base % WheelSize] = {}]
       IN  wheel' = [s \in Slots |-> others[s] \cup
                        {x \in kept : Slot(inflight[x[1]].deadline) = s}]
    /\ base' = base + 1
    /\ UNCHANGED <<clock, disk, segment, loaded, runtime, inflight, nextSeq,
                   running, history>>

\* BuildReadyQueue reads the clock again.
ReapEnd ==
    /\ pc = "reap" /\ ~InWheelLoop
    /\ pc' = "dispatch" /\ now' = clock
    /\ UNCHANGED <<clock, disk, segment, group, call, history>>

ReadyOffsets ==
    {runtime[id].offset : id \in {i \in DOMAIN runtime :
        runtime[i].state = "ready" /\ runtime[i].available_after <= now}}

\* Mutant: the largest offset first.
FrontReadyUnsorted == CHOOSE o \in ReadyOffsets : \A p \in ReadyOffsets : p <= o
\* ready_offsets.front() of the sorted offsets
FrontReady == Min(ReadyOffsets)

\* Mutant: the limit is checked one late.
HasRoomOneMore == Cardinality(DOMAIN inflight) <= MaxInflight

\* Mutant: the new lease is counted against the limit as well.
HasRoomOneLess == Cardinality(DOMAIN inflight) + 1 < MaxInflight

HasRoom == Cardinality(DOMAIN inflight) < MaxInflight

Return == pc' = "idle" /\ call' = "none" /\ now' = 0

\* GetStats has counted the runtime table.
FinishStats ==
    /\ pc = "dispatch" /\ call = "stats"
    /\ Return
    /\ UNCHANGED <<clock, disk, segment, group, history>>

\* Consume hands out nothing: too much in flight, nothing ready, or the
\* segment does not have the first ready offset.
ConsumeNothing ==
    /\ pc = "dispatch" /\ call = "consume"
    /\ \/ ~HasRoom
       \/ ReadyOffsets = {}
       \/ HasRoom /\ ReadyOffsets # {} /\ FrontReady \notin DOMAIN segIndex
    /\ Return
    /\ UNCHANGED <<clock, disk, segment, group, history>>

\* The message delivered is the one the segment has at the offset, whichever
\* it is; a runtime entry is made for it if there is none.
Deliver(fp) ==
    /\ pc = "dispatch" /\ call = "consume"
    /\ HasRoom
    /\ ReadyOffsets # {}
    /\ LET offset == FrontReady
           id == Read(offset)
           rt == IF id \in DOMAIN runtime THEN runtime
                 ELSE Put(runtime, id,
                          [state |-> "ready", offset |-> offset, retry_count |-> 0,
                           available_after |-> 0, sequence |-> 0])
           e == [sequence |-> nextSeq, id |-> id, state |-> "inflight",
                 retry_count |-> rt[id].retry_count, available_after |-> clock,
                 deadline |-> clock + VisibilityTimeout]
       IN  /\ offset \in DOMAIN segIndex
           /\ AppendTransition(e, rt, wheel, {"before_lease_issue", "before_log_append"}, fp)
           /\ leases' = IF fp = "none"
                        THEN leases \cup {[id |-> id, sequence |-> nextSeq]}
                        ELSE leases
    /\ PersistGroupState(fp)
    /\ Return
    /\ UNCHANGED <<clock, segFile, segment, loaded, base, acked, restarts, setbacks>>

\* A consumer acks the delivery l; the call carries the message id only.
Ack(l, fp) ==
    /\ pc = "idle" /\ loaded
    /\ nextSeq <= MaxSequence
    /\ l.id \in DOMAIN inflight
    /\ AppendTransition(
          [sequence |-> nextSeq, id |-> l.id, state |-> "acked",
           retry_count |-> runtime[l.id].retry_count, available_after |-> 0, deadline |-> 0],
          runtime, wheel, {"before_ack_transition", "before_log_append"}, fp)
    /\ PersistGroupState(fp)
    /\ acked' = IF fp = "none" THEN acked \cup {l} ELSE acked
    /\ UNCHANGED <<clock, segFile, segment, loaded, base, running, leases, restarts, setbacks>>

\* Nack without requeue is DEAD at once, with the retry count unchanged.
NackEvent(id, requeue) ==
    IF requeue THEN RetryEvent(id, runtime[id].retry_count + 1, clock)
    ELSE [sequence |-> nextSeq, id |-> id, state |-> "dead",
          retry_count |-> runtime[id].retry_count, available_after |-> 0, deadline |-> 0]

Nack(l, requeue, fp) ==
    /\ pc = "idle" /\ loaded
    /\ nextSeq <= MaxSequence
    /\ l.id \in DOMAIN inflight
    /\ LET e == NackEvent(l.id, requeue)
       IN  /\ fp = "before_dlq_move" => e.state = "dead"
           /\ AppendTransition(e, runtime, wheel, {"before_dlq_move", "before_log_append"}, fp)
    /\ PersistGroupState(fp)
    /\ UNCHANGED <<clock, segFile, segment, loaded, base, running, history>>

Timeouts == \E x \in Bucket :
    \E fp \in Strikes(AppendFaults \cup {"before_timeout_transition"}) : ReapTimeout(x, fp)
Deliveries ==
    \E fp \in Strikes(AppendFaults \cup PersistFaults \cup {"before_lease_issue"}) : Deliver(fp)

\* A call that has started runs on: the shard's worker executes it.
CallStep == Timeouts \/ ReapAdvance \/ ReapEnd \/ FinishStats \/ ConsumeNothing \/ Deliveries

ClientStep ==
    \/ \E id \in Ids, fp \in Strikes({"fsync_file"}) : Produce(id, fp)
    \/ GetGroup \/ BeginConsume \/ BeginStats
    \/ \E l \in leases :
          \/ \E fp \in Strikes(AppendFaults \cup PersistFaults \cup {"before_ack_transition"}) :
                Ack(l, fp)
          \/ \E requeue \in BOOLEAN,
                fp \in Strikes(AppendFaults \cup PersistFaults \cup {"before_dlq_move"}) :
                Nack(l, requeue, fp)

Next == Tick \/ SetClockBack \/ Restart \/ Crash \/ PowerLoss \/ ClientStep \/ CallStep

Spec == Init /\ [][Next]_vars
=============================================================================
