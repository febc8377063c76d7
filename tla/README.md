# TLA+ verification of pomaiqueue

pomaiqueue is an embedded task queue: producers append messages to a queue's
segment log, consumer groups lease them with a visibility timeout, acknowledge
or reject them, and a crash must lose none of this. This directory holds TLA+
models of its parts, the TLC runs that check them and proofs checked by TLAPS.
Paths below are relative to the repository's root.

## 1. Inventory

| Part | State | Operations | Interacts with |
|---|---|---|---|
| Queue engine `src/core/engine/queue_engine.{h,cc}` | per group: runtime table, inflight map, deadline wheel and its base tick, next sequence; on disk `<group>.events` and `<group>.state` | Produce, Consume, Ack, Nack, GetStats, InspectMessage, ReplayToSequence, group loading | runs on a shard; writes the segment log and, through DurableWriteFile, the snapshot |
| Segment log `src/core/storage/segment_log.{h,cc}` with the record codec `record.{h,cc}` | the file, its position, `next_offset_`, `offset_to_position_` | Open, Recover, Append, Read, Offsets; EncodeRecord, DecodeRecord | engine; fsync |
| Shard actor `src/core/engine/shard_actor.{h,cc}` | task queue, mutex, condition variable, `running_`, worker thread | Start, Submit, SubmitValue, RunLoop, Stop | callers' threads |
| Durable writes `src/core/durable_io.cc`, `src/core/util/fsync.cc` | temporary and final file | DurableWriteFile, DurableRename, FsyncFile, FsyncDir | snapshot, checkpoint store |
| Checkpoint store `src/core/storage/checkpoint.cc` | one offset with a CRC | Load, Save | constructed by the engine, never called |
| Consumer sessions `src/core/consumer_session.cc` | credit window, inflight count, heartbeat, round-robin cursor | TryDispatch, AddCredit, AckOne, Expired, NextDispatchable | not called by the engine |
| CRC64 | a static table | Compute | record codec, checkpoint store |
| Server `src/server/main.cc`, `cmd/pomaiqueue-server/main.cc`, configuration `src/server/config.cc` | engine options, bootstrap list, the shutdown flag | LoadServerConfig, start, bootstrap, wait, stop | API, signals |
| Command line tools, RPC definition, benchmarks | none | single calls | API |
| Failpoints `src/core/util/failpoint.cc` | an environment variable | FailpointActive | engine, fsync |

What is hard in this code:

* **Crashes and failing calls.** A transition is an append to the events file, a
  change in memory and a snapshot. Any prefix of these may have happened, by a
  crash or by an error that the engine survives; recovery merges three files.
* **Files.** The segment is written at a file position that errors and reopening
  move; the snapshot is safe only through the order of four system calls; the
  events file is never synced.
* **The deadline wheel.** Slots are shared by ticks 512 apart, entries outlive
  the leases they were pushed for, and the bucket being processed has already
  left the wheel.
* **Leases and sessions.** Ack and Nack name a message, not a delivery; the
  scheduler hands out an index that is used later.
* **Time.** One call reads the clock several times, and the clock is the system's.
* **The shard and the server.** Notifications are sent without the mutex, Stop
  races Submit, a signal may come at any moment of the startup.

Correctness per part:

* engine: acknowledged stays acknowledged; each message goes through one life;
  sequences and lease tokens are never reused; table, inflight map and wheel
  agree; limits are kept; first deliveries are in order; a replay is stable and
  agrees with the engine; every message is eventually settled;
* segment log: an offset that was returned reads as its own record for good, and
  no mixture of records passes for one;
* durable writes: the snapshot is replaced as a whole;
* shard: calls are serial, in order, answered once; no wakeup is lost; Stop
  drains and returns;
* sessions: limits and credit are kept, no session is starved;
* server: settings are what the file means, exit codes tell the truth, it serves
  only when complete, and a signal ends it.

`PROJECT.json` lists every part under `components` and every hazard, at its
line, under `hazards`.

## 2. Modules

| Module | Content |
|---|---|
| `QueueEngine` | the engine: one queue, its segment log, one consumer group |
| `QueueContract` | the properties of `QueueEngine`, the statements of the documents, the liveness specification |
| `MessageLifecycle` | abstract: the life of a message; `QueueEngine` implements it (`LifecycleSpec`) |
| `MCQueueEngine` | `QueueContract` with the symmetry of message ids, for TLC |
| `QueueEngine_proofs` | theorems: types and sequences |
| `QueueLeases_proofs` | theorems: leases and the deadline wheel |
| `QueueDurability_proofs` | theorems: durability, replay, the life cycle, limits, order |
| `SegmentLog` | the segment file in cells, its codec, page cache and disk |
| `RecordLog` | abstract: the log of whole records the engine takes a segment to be; `SegmentLog` implements it while unharmed (`LogSpec`) |
| `SegmentLog_proofs` | theorems about the segment, the refinement among them |
| `GroupFiles` | the events file and the snapshot of a group, one system call at a time |
| `AtomicFile` | abstract: a file that is replaced as a whole; `GroupFiles` implements it when syncs are asked for (`AtomicSpec`) |
| `GroupFiles_proofs` | theorems about the files of a group, the refinement among them |
| `SerialExecutor` | abstract: one call at a time, in order, each once |
| `ShardActor` | mutex, condition variable, worker, callers, Stop; implements `SerialExecutor` (`SerialSpec`) |
| `ShardActor_proofs` | theorems about the shard, the refinement among them |
| `ConsumerSession`, `ConsumerSession_proofs` | sessions and the round-robin scheduler; theorems |
| `Server`, `Server_proofs` | configuration, startup, bootstrap, signals, shutdown; theorems |
| `MCSegmentLog`, `MCConsumerSession`, `MCServer` | constants for TLC |

The layers are checked one on the other: `SegmentLog` establishes what
`QueueEngine` assumes of a segment, `GroupFiles` that a snapshot is the old or
the new one, `ShardActor` that the calls of a queue do not interleave.

### QueueEngine

Variables name the code's: `runtime`, `inflight`, `wheel`, `base`
(`wheel_base_tick`), `nextSeq`, `segFile`, `segPos` (the file position, which
the code never sets), `segNext`, `segIndex`, `eventLog`, `stateFile`. `leases`
and `acked` record what consumers have been told.

| Action | Code |
|---|---|
| `Restart` | Start and CreateQueueOnShard: Open, Recover |
| `Produce` | ProduceOnShard, SegmentLog::Append |
| `GetGroup` | GetGroup, LoadGroupState, the part of a call that first names the group |
| `BeginConsume`, `BeginStats`, `ReapTimeout`, `ReapAdvance`, `ReapEnd` | ReapExpiredInflight: clock, one entry, one bucket, BuildReadyQueue |
| `Deliver`, `ConsumeNothing`, `FinishStats` | the rest of ConsumeOnShard and GetStatsOnShard |
| `Ack`, `Nack` | AckOnShard, NackOnShard |
| `Crash`, `PowerLoss`, `Tick`, `SetClockBack` | the environment |

Granularity. A queue's calls are serialised by its shard, so calls do not
interleave. Ack, Nack and Produce are single steps. Consume and GetStats are
several because the clock is read again inside them. A crash after k writes of a
call leaves on disk what one of the call's error returns leaves, so `fp`
followed by `Crash` covers it.

Abstractions. A record has size one and is its id and offset. Payloads,
timestamps that only InspectMessage shows, owners, reasons and the snapshot's
layout are left out. A bucket is a set of pairs of an id and the sequence that
pushed it (the code holds ids, possibly repeated); the order of entries in a
bucket is a free choice. Which offset a duplicated id gets depends on the order
of an `unordered_map` and is a free choice too. `FsyncPolicy` is `kAlways`, the
default. The clock moves by a millisecond, and may be set back `MaxSetbacks` times by
at most `SetbackMs`, also during a call. `PowerLoss` keeps a prefix of the
events file, the only file written without fsync.

ReplayToSequence changes nothing and is an operator of `QueueContract`: the ids of
the segment's records, READY unless an event up to the sequence says otherwise,
counted by state, with the sequence of the last event applied. GetQueue comes
first in the code; while the server is down the operator answers for the segment
as Recover would index it.

### MessageLifecycle

A message is ready, in flight, acked or dead, with a count of failed attempts.
One phase more, `interrupted`, is what the code makes of a lease at a crash:
the message is READY again and its inflight entry is still there, so it can be
delivered, settled by the consumer that has it, or time out. `Phase` maps the
table while the group is loaded, and what the files would restore while it is
not: the crash is where a message becomes `interrupted`, and loading it a
stutter.

### SegmentLog

The file is a sequence of cells: two for a record's header and one for each
piece of its body. Two halves of a header are needed because the CRC covers the
body only: halves of different headers may meet. `Starts` is Recover's loop, a
recursive function of the position. `position` is the file position of `fd_`,
which is 0 after a reopen and stays in the middle of a record after a short
write. `dirty` are the cells a sync would write; a failed fsync(2) may drop them
from it (`fsync_eio`), the failpoint does not (`fsync_file`). Recover ignores
the result of ftruncate(2): `OpenUncut` opens the segment with the torn tail
still there. Open creates the file and nothing syncs its directory, so a power
loss may take the file itself (`LoseFile`), unless it has survived one. `past`
records what has happened to the file; `Unharmed` means that it was written at
its end only, no write(2) failed half way, torn tails were cut and no sync or
file was lost.

A CRC matches one body only, and bytes that are not half a header never pass for
one. A power loss keeps the first n dirty cells; the header at the very start of
the file lies in one disk sector and is kept or lost whole.

`RecordLog` loses only unconfirmed records when a process or the machine ends,
and may find one more record complete, also while the segment is down
(`Close`). Recover cuts a torn tail with ftruncate(2) and does not sync it. If
the tail was the file's first record, the next process writes over cells the
disk still holds; a power loss between them may then leave the start of the new
record followed by body cells of the old one, and if those are the ones missing
the new record is whole, although no write of it was. The offset was never
confirmed, so nothing promised is lost, but the engine finds a message whose
Produce did not return. The proof of `SegmentIsLog` needed this case; TLC reaches
it with three sizes of record, one body a prefix of another.

### GroupFiles

One message stands for the group, its state is the sequence of its last
transition. `pc` is the next system call of PersistGroupState, DurableWriteFile
and DurableRename. A temporary or final file is a snapshot or `Torn`; `onDisk`
holds what a power loss may leave under the final name: more than one candidate
between the rename and the directory's sync. An event is two pieces, its first 8
bytes and the rest, because LoadTransitions treats a file that ends within the
first differently from one that ends within the second. What is appended behind
a piece of a cut event is read out of step, from the piece's bytes on.
`LoadTransitions` is therefore the set of the results such a file may have: a
corruption; success with events of ids nobody has, as lengths of 0 still read as
0 behind one to three stray bytes, and other lengths may happen to fit; and, if
the reader comes to be in step again at the start of a later event, that event
read well after all. Sequences read out of step move `nextSeq` to any value up to
the bound. The model takes it that a garbled id names no message of the queue.
`failed` stands for every way of not loading, an error as well as an exception on
a length that cannot be allocated.

### ShardActor

A critical section is one step; the notification after it is another; a caller
is `idle`, `notify` or `get`. A wait may end spuriously. Callers may submit until
Stop has returned: after that the engine has destroyed the actor, and
`docs/design/SERVER_RUNTIME_NOTES.md:19` makes it the server's duty that intake
has stopped. A task is named by its caller.

### ConsumerSession

`picked` are the indices NextDispatchable has returned and the caller has not
used yet, so TryDispatch may come after any other call on the session. `owed`
and `bypassed` are history: credit granted and not used, and picks of other
sessions while this one was dispatchable. Session ids are numbers, as they are
only compared. Expired, which nothing calls, is left out, and with it the
heartbeat.

### Server

A file is a sequence of lines, a line a key and a value, a number its sign,
digits and what follows them. `Parsed` is the chain of comparisons in
LoadServerConfig with ParseUint, ParseDurationMs and the casts. Cutting a line
into key and value, and the bootstrap list into names, is text handling and left
out. The moduli and the units are constants. A worker runs CreateQueueOnShard
while main waits for it; opening a segment may succeed, report an error or throw
(`create_directories`), and an exception on a worker ends the process. A signal
may come at any moment. Start and Stop are one step per shard. The two main
functions of the repository differ in the texts they print.

## 3. Runs that pass

| Run | Checks | Shows |
|---|---|---|
| `EngineCrash` | AckDurable, LatestDurableWins, LifecycleSpec, ReplayStable | all nine failpoints, one crash anywhere |
| `EngineLeases` | WheelRegistered, InflightBound, FirstDeliveryInOrder, ReplayMatchesLive | three messages, two leases at a time, backoff, one crash, failing snapshots and lease issues |
| `EngineFaults` | TypeOK, SequencesMonotonic, LeaseMatchesState, LeaseTokensUnique | two crashes or power losses, failing appends, snapshots and segment fsyncs, a clock set back, producing to a reopened queue, duplicate and vanished ids |
| `EngineLive` | DeliveriesBounded, OverdueWithinTurn, EventuallySettled | one message with retry and backoff, a tick of 2 with deadlines inside it, a wheel that turns, a crash, a clock set back |
| `ShardActor` | NoLostWakeup, AnswersMatch, SerialSpec, QueuedAnswered, StopReturns | three callers, two calls each, a concurrent Stop |
| `SegmentLog` | TypeOK, AckedReadableUnharmed, NoHalfRecord, RecoveredReadable, LogSpec | records of three sizes, three appends, three ends of the process, every fault, two fsync policies |
| `GroupFiles` | TypeOK, SnapshotWhole, SequenceNotReused, NoSilentDivergence, CrashRecoverable, AtomicSpec | three sequences, two ends of the process, every call failing, two fsync policies |
| `ConsumerSession` | TypeOK, BoundedBypass, NoFreeCredit, Served | three sessions given out of order, two indices held, credit that wraps |
| `Server` | TypeOK, ConfigAsWritten, ExitExplains, ServesComplete, SignalStops | every file of up to two lines and bootstrap files of three, failing queues, signals |

Bounds. Two ids are enough for two messages to compete for a slot of the wheel,
for `max_inflight = 1`, and for one to be settled while the other is leased;
`EngineLeases` has three, two of them leased at once, for the order of
deliveries. `MaxRetryCount = 1` gives delivery, redelivery and DEAD. Wheels of
3 slots make it turn within `MaxTime`; in `EngineLive`, with no limit on the
sequences, it turns several times, so that an entry passed over in its bucket is
met again, and a message is delivered three times, which one crash allows, and
would be delivered once more if the budget were not kept. `EngineLeases` keeps the clock below
one turn, since beyond it the code loses entries (section 4). `MaxSequence`
bounds the calls, timeouts excepted: a started call always ends. In `EngineLive`
neither `MaxTime` nor `MaxSequence` is ever reached, so no bound stops time.
Symmetry is used in the runs without liveness properties only.
`SegmentLog` has bodies of 0, 1 and 2 cells, one a prefix of another: a record
can end inside another, and the tail of one can complete another. Three appends
are two to write and one over the first, or at its place, after a reopen; each
further end of the process recovers what the one before has left.
`GroupFiles` needs a confirmed, an unconfirmed and a torn event, and two reloads.
In `ConsumerSession` a credit modulus of 3 makes the window wrap with two grants.
`Server` has 16 and 256 for 2^32 and 2^64, so that each boundary of the
conversions is a value in a file; units of 2, 3 and 4 keep seconds, minutes and
hours apart.
The runs of the shard, the files and the server do not check for deadlock: they
end when Stop has returned and every caller is done, when the bounds are used
up, and when the process has ended.

Conditions. The runs of durability and leases say which faults they allow, and
the ones they exclude are those of section 4: WheelRegistered needs timeout
transitions that succeed and leases shorter than the wheel, OverdueWithinTurn
these and a clock that is not set back (in `EngineLive` it may be, by half a
tick), LatestDurableWins no power loss, AckDurable, DeliveriesBounded, ReplayStable and LifecycleSpec no power loss and no
producing after a reopen, EventuallySettled a clock set back by less than the
wheel's span less the visibility timeout. In the time of `LiveSpec` a call does
not stall for a turn of the wheel, which keeps the leases of `EngineLive` within
one. The conditions of the segment's and the group files'
properties are in the properties themselves (`Unharmed`, `past`, `policy`,
`InStep`).

Two properties say less than their names may suggest. ReplayStable lets the READY
count of an old sequence grow: ReplayToSequence counts the messages the segment
has now, also those produced after that sequence. FirstDeliveryInOrder orders the
deliveries in the events file: a Consume that fails after its event
(`before_checkpoint_rename`) hands out no lease, and a consumer may see a later
message first.

Fairness. `LiveSpec` assumes that the worker goes on with a started call, that a
crashed server is restarted, and that a consumer keeps polling: the shard's queue
is FIFO, so its Consume is run again and again whatever else is called (strong
fairness of `BeginConsume`). Time passes while a backoff or a lease waits for it,
at most a millisecond between two readings of the clock in one call; a stall of a
whole turn of the wheel inside a call loses the entry (section 4). In
`ShardActor` the worker, a caller inside a call and a thread inside Stop are
weakly fair; calling, stopping and spurious wakeups are not. In `ConsumerSession`
the dispatch loop goes on, asking for an index and using it; consumers may be
silent. In `Server` the main thread and the worker of a submitted call run;
nobody has to send a signal.

## 4. Disagreements with the documents

Each of these runs states what a document says and ends in a counterexample.

| Run | Document | Code |
|---|---|---|
| `DocVisible` | PHASE0_SYSTEM_UNDERSTANDING.md:20 | a loaded group never learns of new messages |
| `DocSegment` | QUEUE_CONTRACT.md:33 | a reopened segment is written from position 0, over its first records |
| `DocDivergence` | FAILURE_MODES.md:13 | a failed append leaves bytes that the next event is read from; the group may load without an error and without a confirmed Ack |

In `DocDivergence` a Consume is confirmed, an append leaves fewer than 8 bytes and
reports it, an Ack is appended behind them and confirmed. The next process reads
the Consume, then an event of an unknown id, meets the end of the file in the bytes
left over and returns Ok: the earlier IN_FLIGHT event overrides the ACKED of the
snapshot. The same file with a length that reads as huge makes `resize` throw on the
worker thread, which ends the process.

TLC shows further disagreements, from which the conditions of section 3 come, when
the run named is given the property and the constants in brackets:

* Ack and Nack look the id up and not the lease: after a timeout and a second
  delivery the first consumer's Ack settles the second one's lease, against
  PHASE0_SYSTEM_UNDERSTANDING.md:66 (AckLeaseBound in `EngineLeases`);
* a deadline inside a tick is passed over by a reap earlier in that tick, which
  finds it not due, puts it back into its slot and moves the wheel on; reaps after
  the deadline leave the message IN_FLIGHT until the wheel has turned, 51.2 s later
  at the default tick, against QUEUE_CONTRACT.md:43 (ExpiredRetried in
  `EngineLive`; OverdueWithinTurn says what does hold);
* the events file is not fsynced, and after a power loss its older events
  override the newer snapshot, against FAILURE_MODES.md:7 (LatestDurableWins in
  `EngineCrash` [AllowPowerLoss = TRUE]; a replay then changes its answer too,
  ReplayStable);
* a timeout transition that fails leaves the lease in no bucket, against
  INVARIANTS.md:5 (WheelRegistered in `EngineLeases`
  [Failpoints = {"before_timeout_transition"}]);
* a lease of a whole turn of the wheel (512 ticks) or more is dropped when the
  wheel passes its slot too early, and never expires (WheelRegistered in
  `EngineLeases` [VisibilityTimeout = 3, WheelSize = 3]);
* a clock set back far enough across a crash leaves recovered inflight entries
  that no bucket is ever reached for; they count against `max_inflight` for good,
  and once it is full nothing is delivered (EventuallySettled in `EngineLive`
  [SetbackMs = 3]).

In the models by construction, as in the code:

* recovery makes a message READY and keeps its inflight entry, against
  QUEUE_CONTRACT.md:24, "No dual-state membership is allowed"; this is the phase
  `interrupted`, and why ReplayMatchesLive makes an exception for it;
* events are replayed over the snapshot, against QUEUE_CONTRACT.md:39, "state is
  recovered from last atomic snapshot";
* after an event that is cut short behind its first 8 bytes the group cannot be
  loaded, and nothing repairs the file (`CrashRecoverable` allows it through
  `past`);
* after a short write, a cut that failed or a lost sync or file the segment may lose confirmed records at
  the next recovery, and after an overwrite the halves of two headers may decode
  as a record nobody wrote (`Unharmed`, and the condition of `NoHalfRecord`);
* `config/pomaiqueue.toml`, which docs/runbook.md:7 starts the server with, is
  rejected: its durations are quoted, and a quoted value does not end in a unit.
  A minus sign and a value that does not fit its field are accepted;
* `shutdown_grace` is parsed and not used, and exit code 6 cannot occur.

## 5. Theorems

Each holds for every value of the constants: any ids, bodies, limits, times,
wheel, sets of faults, number of restarts, sessions, callers, configuration
files. Where a property needs a condition on them, the theorem states it (column
"if"); the conditions are those section 4 shows to be necessary. Every property
below is also checked by a run.

### The engine

| Theorem | States | If |
|---|---|---|
| `TypeCorrect` | `[]TypeOK` | |
| `LogMonotonic` | `[]SequencesMonotonic` | |
| `TokensUnique` | `LeaseTokensUnique` | |
| `LeasesMatch` | `[]LeaseMatchesState` | |
| `LeasesAreRegistered` | `[]WheelRegistered` | T, W |
| `OverdueAreWithinTurn` | `[]OverdueWithinTurn` | T, W, clock not set back |
| `LatestWins` | `[]LatestDurableWins` | P |
| `ReplayIsStable` | `ReplayStable` | P, R |
| `EngineIsLifecycle` | `LifecycleSpec` | P, R |
| `AcksAreDurable` | `[]AckDurable` | P, R |
| `DeliveriesAreBounded` | `[]DeliveriesBounded` | P, R |
| `FirstDeliveriesInOrder` | `[]FirstDeliveryInOrder` | P, R |
| `ReplayIsLive` | `[]ReplayMatchesLive` | P, R, A |
| `InflightIsBounded` | `[]InflightBound` | P, R, A |

* P, no power loss: the events file is never synced. Crashes of the process are
  not restricted.
* R, no producing to a reopened queue: a reopened segment is written over from
  position 0, and a message that was acknowledged may vanish from it.
* A, no failure between the write of an event and its effect
  (`after_log_append`): it leaves the table behind the file until a restart.
* T, no failing timeout transition: it leaves the lease in no bucket.
* W, `[]WithinTurn`: no lease ends a turn of the wheel, or more, ahead of the
  wheel. It is a condition on behaviours, not on constants, as it depends on how
  long a call stalls between reaping and delivering and on how far the clock was
  set back before a recovery; at the code's 512 buckets of a tick it holds for
  every lease shorter than 512 ticks less such a stall.

The invariants, defined in `QueueContract` unless said otherwise, each inductive
together with those above it:

* `SequenceInv`: a loaded group's `nextSeq` is above every sequence in the events
  file and not below the snapshot's, and every lease handed out is below the
  snapshot's `next_sequence`. The last part is why tokens survive a power loss:
  Consume returns a lease only after the snapshot, which is fsynced, contains a
  higher next sequence.
* `LeaseInv`: the property, and that nothing can be recovered before the first
  load.
* The wheel needs only the property itself: `ReapAdvance` drops an entry whose
  deadline is not reached, and two ticks that share a slot and are less than a
  turn apart are equal (`SlotsApart`), so no dropped entry belongs to a lease.
  For `OverdueWithinTurn`, `BaseInv` (in the proof module): the wheel is at most
  one bucket ahead of the clock. A bucket is left when nothing in it is due. An
  entry whose deadline lies inside the bucket may be left behind, in the same slot;
  a turn later the wheel is at that slot again (`TurnSlot`), the deadline is past
  and the entry is due, so the wheel does not leave the slot with it.
* `LogFirstInv`: neither snapshot nor table is ever ahead of the events file.
  This is what the order of AppendTransition, ApplyTransition and
  PersistGroupState is for; with it replay over the snapshot loses nothing.
* `IndexInv`, `PlacedInv`: the index in memory is the one Recover would build,
  but for a record whose sync failed at the end of the file, and what a group
  knows of a message is about a record of the segment. With them the ids a replay
  counts never shrink, a message with an event is among them, and one that joins
  has no event yet: `ReplayIsStable`.
* `RecoveryInv`: for each message, what a crash now would restore is one step of
  its life (`LifeStep`) from what is in the table. A failed call makes this step
  without the table; the crash makes it visible. The refinement mapping `Phase`
  switches from table to files at the crash.
* `DeliveryInv`: each lease handed out is the open one, or was paid for by a
  retry or by a restart.
* `InStepInv`: without `after_log_append`, table and events file agree, so the
  leases in the file, which recovery brings back, are no more than
  `max_inflight`.
* `OrderInv`: a message's first event is a delivery, a group that knows a message
  knows every one at an earlier offset, and each delivery in the events file
  comes after one of every message at an earlier offset. A message not yet
  delivered is READY with no backoff, so the smallest ready offset is never past
  it.

### The files of a group

`GroupFiles_proofs`: `TypeCorrect`, `SnapshotIsWhole`, `SequencesAreFresh`,
`DivergenceIsReported`, `CrashesAreRecovered` and the refinement
`SnapshotIsAtomic`. The invariant is `Types /\ FileInv /\ SeqInv /\ EventsInv`.
`FileInv` follows the system calls: a file is renamed only when it was written
and, if syncs are asked for, synced. `SeqInv`: every snapshot a power loss may
leave is past the confirmed sequence. `EventsInv`: a file that is `Sound`, whole
events with at most a fragment at the end, ends in a transition no older than the
last that took effect. A file that ends in an event cut short is rejected. Of a
file that goes on behind a cut nothing is claimed: `DocDivergence` shows why.

### The segment

| Theorem | States |
|---|---|
| `TypeCorrect` | `[]TypeOK` |
| `RecoverIsReadable` | `RecoveredReadable` |
| `NoHalfRecordIsRead` | `[]NoHalfRecord` |
| `AckedIsReadable` | `[]AckedReadableUnharmed` |
| `SegmentIsLog` | `LogSpec` |

The bodies are arbitrary sequences and the file is of any length. `Starts`, the
loop of Recover, is a recursive function of the position. What it finds is shown
by taking the least position at which a claim about it would fail (`LeastNat`,
from the library's well-founded minimum) and stepping the definition once, which
replaces an induction that would need an operator as a parameter.

* `SegmentInv` gives the types, and that the position is never past the end of
  the file: a write leaves no hole.
* `PairedInv`: as long as cells are only appended, the two halves of a header
  belong to one record that some Append was given. After a power loss the same
  is shown of an unharmed segment through `Sound`, a joint statement about file,
  disk and dirty cells: file and disk agree where both reach, or, after the cut
  described in section 2, the disk holds the torn first record of an earlier
  process and nothing else.
* `AckedInv`: a confirmed record is the last with its offset (`Held`), is clean
  under `kAlways`, and every whole record on the disk is one of the file
  (`Filed`), so that neither a crash nor a power loss takes it.
* `OffsetInv`, for the refinement: a closed segment has no next offset, and as
  long as no record is whole on the disk every header is of a first record. With
  it a record that old cells complete has the offset RecordLog would give it.

The refinement maps the file to the records `Starts` finds. A complete write adds
one (`OneMoreRecord`), a partial one none (`PrefixShortened`), a power loss keeps a
first part and may complete one more (`TornCompleted`, `JoinedRecords`), Recover's
cut is a stutter.

### Shard, sessions, server

| Theorem | States | Argument |
|---|---|---|
| `WakeupsKept` | `[]NoLostWakeup` | from `TypeOK /\ QueueInv /\ NoLostWakeup /\ AnswersMatch` |
| `AnswersCorrect` | `[]AnswersMatch` | same; `QueueInv` says a queued task's caller waits for it, and no two queued tasks have one caller |
| `ShardIsSerial` | `SerialSpec` | the running task is the head of the abstract queue: popping it is a stutter, running it the abstract step |
| `TypeCorrect`, `CreditIsGranted` | `[]TypeOK`, `[]NoFreeCredit` | TryDispatch asks again what NextDispatchable saw; a wrapped sum is smaller than the credit granted |
| `BypassIsBounded` | `[]BoundedBypass` | `RoundRobin`: the picks a waiting session was passed over by, and the cursor's distance to it, add up to less than the number of sessions |
| `TypeCorrect`, `ConfigIsAsWritten` | `[]TypeOK`, `[]ConfigAsWritten` | `LoadInv`: after n lines each field is what the last of them for it means; one lemma gives the value of ParseUint and ParseDurationMs with their casts |
| `ExitIsExplained`, `ServingIsComplete` | `[]ExitExplains`, `[]ServesComplete` | `RunInv`: which shards and queues are there at each step of main, with a call in progress counted once it has answered |

The assumptions are those of the modules: naturals for limits and times, a wheel
with at least one slot, faults and policies among the ones named, bodies that are
sequences, sessions with distinct ids, and for the server positive moduli of
which the smaller is that of 32 bits, files of well-formed lines and defaults
that fit their fields.

Only model-checked: liveness under fairness (EventuallySettled, QueuedAnswered,
StopReturns, Served, SignalStops), which the prover does not handle. Every
invariant, safety action property and refinement that a passing run checks has
its theorem.

## 6. Plan

1. Several groups of one queue over one segment, and Start after Stop of one
   engine object, which keeps its queues.
2. Proofs about that module, along the arguments of section 5.

Not modelled: the byte layout of records and files; the CRC's polynomial and the
race on its table, where both threads write the same values; the checkpoint
store, which the engine never calls (Save is a DurableWriteFile); argument
parsing and printing of the command line tools; the RPC definition; benchmarks.
They keep no state of their own.
