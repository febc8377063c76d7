----------------------------- MODULE GroupFiles -----------------------------
(***************************************************************************)
(* The two files of a consumer group and how they are written: the events  *)
(* file, appended to and never synced (QueueEngine::AppendTransition), and *)
(* the snapshot, replaced through a temporary file (PersistGroupState,     *)
(* DurableWriteFile and DurableRename), one step per system call that a    *)
(* crash or an error may follow; and LoadGroupState's reading of them.     *)
(*                                                                         *)
(* One message stands for the group: its state is the sequence of its last *)
(* transition.  A process that ends leaves the page cache; a power loss    *)
(* leaves what was synced and any part of the rest.                        *)
(***************************************************************************)
EXTENDS Naturals, Sequences, FiniteSets, FiniteSetsExt

CONSTANTS
    Policies,         \* FsyncPolicy values considered
    Faults,           \* failures that may strike
    MaxSequence,      \* bound on the sequences used up
    MaxRestarts       \* bound on the ends of the process

ASSUME PoliciesAssumption == Policies \subseteq {"always", "interval", "never"}
ASSUME FaultsAssumption ==
    Faults \subseteq {"before_log_append", "after_log_append", "few_bytes", "short_event",
                      "before_checkpoint_rename", "write", "fsync_file", "rename",
                      "fsync_dir", "power_loss"}
ASSUME BoundsAssumption == MaxSequence \in Nat /\ MaxRestarts \in Nat

VARIABLES
    policy,     \* FsyncPolicy
    events,     \* <group>.events, in pieces
    tmp,        \* <group>.state.tmp: a snapshot, Torn, or NoTmp
    tmpSynced,  \* is its content on disk?
    final,      \* <group>.state as a reader sees it
    finalSynced,
    onDisk,     \* what a power loss may leave under the name <group>.state
    pc,         \* the next step of the running call
    state,      \* in memory: the last transition applied
    nextSeq,    \* next_sequence
    \* history
    applied,    \* the last transition applied, by any process
    confirmed,  \* the last transition whose call returned Ok
    past,       \* "torn_event", "power_loss": what the events file has met
    restarts

snapshotFile == <<tmp, tmpSynced, final, finalSynced, onDisk>>
memory == <<state, nextSeq>>
vars == <<policy, events, snapshotFile, pc, memory, applied, confirmed, past, restarts>>

NoFile == [next |-> 1, state |-> 0]
Snapshot == [next: Nat, state: Nat]
Torn == [torn |-> TRUE]     \* opened or written in part, or not synced and lost
NoTmp == [tmp |-> FALSE]

-----------------------------------------------------------------------------
(* The events file.  An event is its first 8 bytes, the sequence, and the  *)
(* rest; a write cut short leaves the first piece, or part of it.          *)

Pieces(n) == <<[part |-> "sequence", of |-> n], [part |-> "rest", of |-> n]>>
Fragment == [part |-> "fragment", of |-> 0]

\* What a write of the event n leaves: all of it, or less than its first 8
\* bytes or than its end when the write is cut short.
Written(n, fault) ==
    CASE fault = "before_log_append" -> <<>>
      [] fault = "few_bytes" -> <<Fragment>>
      [] fault = "short_event" -> <<Pieces(n)[1]>>
      [] OTHER -> Pieces(n)

CutShort == {"few_bytes", "short_event"}

Whole(f, i) ==
    /\ 2 * i <= Len(f)
    /\ f[2 * i - 1].part = "sequence" /\ f[2 * i].part = "rest"

\* How many whole events the file starts with.
WholeEvents(f) == Cardinality({i \in 1 .. Len(f) : \A j \in 1 .. i : Whole(f, j)})

\* Nothing follows a piece of an event: every event is read where it starts.
InStep(f) == Len(f) <= 2 * WholeEvents(f) + 1

FailedRead == [ok |-> FALSE, sequences |-> <<>>]
Read(sequences) == [ok |-> TRUE, sequences |-> sequences]

\* What LoadTransitions may return.  It reads whole events up to the end of
\* the file; a last read of the sequence that meets the end stops it, and a
\* last event cut after its sequence is a corruption.  An event that follows
\* a piece of another one is read out of step, from the piece's bytes on:
\* lengths that do not fit the file are a corruption (or more than resize can
\* allocate, and the process ends); lengths that read as 0, as those of a
\* transition without owner and token do behind one to three stray bytes, or
\* that happen to fit, give an event of an id nobody has.  So does what
\* follows, unless the reader comes to be in step again at the start of a
\* later event and reads on from there, up to the next piece or the end.
LoadTransitions(f) ==
    LET n == WholeEvents(f)
        rest == SubSeq(f, 2 * n + 1, Len(f))
        first == [i \in 1 .. n |-> f[2 * i].of]
        rejoined == {i \in 2 * n + 3 .. Len(f) :
                       /\ f[i].part = "rest" /\ f[i - 2].part = "rest"
                       /\ ~(i + 2 <= Len(f) /\ f[i + 2].part = "rest")}
    IN  IF rest \in {<<>>, <<Fragment>>} THEN {Read(first)}
        ELSE IF InStep(f) THEN {FailedRead}
        ELSE {FailedRead, Read(first)} \cup {Read(Append(first, f[i].of)) : i \in rejoined}

-----------------------------------------------------------------------------
(* LoadGroupState: the snapshot, then the events over it.                  *)

\* Mutant: next_sequence is taken from the snapshot only.
LoadedNextSnapshotOnly(s, sequences) == s.next

LoadedNext(s, sequences) == Max({s.next} \cup {sequences[i] + 1 : i \in DOMAIN sequences})

LoadedState(s, sequences) ==
    IF sequences = <<>> THEN s.state ELSE sequences[Len(sequences)]

\* Events read out of step have sequences of their own, which next_sequence
\* is moved past as well.
LoadedNexts(s, sequences) ==
    IF InStep(events) THEN {LoadedNext(s, sequences)}
    ELSE LoadedNext(s, sequences) .. MaxSequence + 1

-----------------------------------------------------------------------------
Init ==
    /\ policy \in Policies
    /\ events = <<>>
    /\ tmp = NoTmp /\ tmpSynced = FALSE
    /\ final = NoFile /\ finalSynced = TRUE /\ onDisk = {NoFile}
    /\ pc = "down" /\ state = 0 /\ nextSeq = 1
    /\ applied = 0 /\ confirmed = 0 /\ past = {} /\ restarts = 0

\* GetGroup of the new process; on an error the group is not kept, and every
\* later call tries again.
LoadGroupState ==
    /\ pc = "down"
    /\ \E r \in LoadTransitions(events) :
          IF final # Torn /\ r.ok
          THEN /\ pc' = "idle"
               /\ state' = LoadedState(final, r.sequences)
               /\ nextSeq' \in LoadedNexts(final, r.sequences)
          ELSE pc' = "failed" /\ UNCHANGED memory
    /\ UNCHANGED <<policy, events, snapshotFile, applied, confirmed, past, restarts>>

Strikes(points) == {"none"} \cup (Faults \cap points)

\* Mutant: the stream is not tested after the flush, and a transition whose
\* event was cut short takes effect.
AppendTransitionUnchecked(client, fault) ==
    /\ pc = "idle" /\ nextSeq <= MaxSequence
    /\ nextSeq' = nextSeq + 1
    /\ events' = events \o Written(nextSeq, fault)
    /\ state' = IF fault \in {"none"} \cup CutShort THEN nextSeq ELSE state
    /\ applied' = IF fault \in {"none"} \cup CutShort THEN nextSeq ELSE applied
    /\ pc' = IF fault \in {"none"} \cup CutShort /\ client THEN "persist" ELSE "idle"
    /\ past' = IF fault \in CutShort THEN past \cup {"torn_event"} ELSE past
    /\ UNCHANGED <<policy, snapshotFile, confirmed, restarts>>

\* AppendTransition, for a client's call, which goes on to write a snapshot,
\* or for a timeout, which does not.
AppendTransition(client, fault) ==
    /\ pc = "idle" /\ nextSeq <= MaxSequence
    /\ nextSeq' = nextSeq + 1
    /\ events' = events \o Written(nextSeq, fault)
    /\ state' = IF fault = "none" THEN nextSeq ELSE state
    /\ applied' = IF fault = "none" THEN nextSeq ELSE applied
    /\ pc' = IF fault = "none" /\ client THEN "persist" ELSE "idle"
    /\ past' = IF fault \in CutShort THEN past \cup {"torn_event"} ELSE past
    /\ UNCHANGED <<policy, snapshotFile, confirmed, restarts>>

Current == [next |-> nextSeq, state |-> state]

Fails == pc' = "idle" /\ UNCHANGED confirmed
Succeeds == pc' = "idle" /\ confirmed' = state

\* Mutant: the snapshot is written under its own name.
OpenTmpInPlace(fault) ==
    /\ pc = "persist"
    /\ final' = Torn /\ tmp' = Torn /\ tmpSynced' = FALSE /\ pc' = "write"
    /\ UNCHANGED <<policy, events, finalSynced, onDisk, memory, applied, confirmed, past, restarts>>

\* std::ofstream(tmp_path, trunc): whatever was under the name is gone.
OpenTmp(fault) ==
    /\ pc = "persist"
    /\ IF fault = "none"
       THEN tmp' = Torn /\ tmpSynced' = FALSE /\ pc' = "write" /\ UNCHANGED confirmed
       ELSE Fails /\ UNCHANGED <<tmp, tmpSynced>>
    /\ UNCHANGED <<policy, events, final, finalSynced, onDisk, memory, applied, past, restarts>>

\* Mutant: a failed write is renamed all the same.
WriteTmpUnchecked(fault) ==
    /\ pc = "write"
    /\ tmp' = IF fault = "none" THEN Current ELSE Torn
    /\ pc' = IF policy = "never" THEN "rename" ELSE "sync"
    /\ UNCHANGED <<policy, events, tmpSynced, final, finalSynced, onDisk, memory, applied,
                   confirmed, past, restarts>>

WriteTmp(fault) ==
    /\ pc = "write"
    /\ IF fault = "none"
       THEN /\ tmp' = Current
            /\ pc' = IF policy = "never" THEN "rename" ELSE "sync"
            /\ UNCHANGED confirmed
       ELSE Fails /\ UNCHANGED tmp
    /\ UNCHANGED <<policy, events, tmpSynced, final, finalSynced, onDisk, memory,
                   applied, past, restarts>>

\* Mutant: the file is renamed without having been synced.
SyncTmpSkipped(fault) ==
    /\ pc = "sync"
    /\ pc' = "rename"
    /\ UNCHANGED <<policy, events, snapshotFile, memory, applied, confirmed, past, restarts>>

SyncTmp(fault) ==
    /\ pc = "sync"
    /\ IF fault = "none"
       THEN tmpSynced' = TRUE /\ pc' = "rename" /\ UNCHANGED confirmed
       ELSE Fails /\ UNCHANGED tmpSynced
    /\ UNCHANGED <<policy, events, tmp, final, finalSynced, onDisk, memory, applied, past, restarts>>

Readings(content, synced) == IF synced THEN {content} ELSE {content, Torn}

Rename(fault) ==
    /\ pc = "rename"
    /\ IF fault = "none"
       THEN /\ final' = tmp /\ finalSynced' = tmpSynced
            /\ tmp' = NoTmp /\ tmpSynced' = FALSE
            /\ onDisk' = onDisk \cup Readings(tmp, tmpSynced)
            /\ IF policy = "never" THEN Succeeds
               ELSE pc' = "syncdir" /\ UNCHANGED confirmed
       ELSE Fails /\ UNCHANGED snapshotFile
    /\ UNCHANGED <<policy, events, memory, applied, past, restarts>>

\* Mutant: a failed sync of the directory is not reported.
SyncDirIgnored(fault) ==
    /\ pc = "syncdir"
    /\ Succeeds
    /\ onDisk' = IF fault = "none" THEN Readings(final, finalSynced) ELSE onDisk
    /\ UNCHANGED <<policy, events, tmp, tmpSynced, final, finalSynced, memory, applied, past, restarts>>

SyncDir(fault) ==
    /\ pc = "syncdir"
    /\ IF fault = "none"
       THEN Succeeds /\ onDisk' = Readings(final, finalSynced)
       ELSE Fails /\ UNCHANGED onDisk
    /\ UNCHANGED <<policy, events, tmp, tmpSynced, final, finalSynced, memory, applied, past, restarts>>

LoseMemory ==
    /\ restarts < MaxRestarts
    /\ pc' = "down" /\ state' = 0 /\ nextSeq' = 1
    /\ restarts' = restarts + 1
    /\ UNCHANGED <<policy, applied, confirmed>>

\* The process ends, between any two steps of a call.
Crash ==
    /\ pc # "down"
    /\ LoseMemory
    /\ UNCHANGED <<events, snapshotFile, past>>

\* The machine ends, with the process or after it.
PowerLoss ==
    /\ "power_loss" \in Faults
    /\ LoseMemory
    /\ final' \in onDisk /\ onDisk' = {final'} /\ finalSynced' = TRUE
    /\ tmp' \in {NoTmp, Torn} /\ tmpSynced' = FALSE
    /\ \E n \in 0 .. Len(events) :
          \E tail \in IF n < Len(events) /\ events[n + 1].part = "sequence"
                      THEN {<<>>, <<Fragment>>} ELSE {<<>>} :
             events' = SubSeq(events, 1, n) \o tail
    /\ past' = past \cup {"power_loss"}

Next ==
    \/ LoadGroupState \/ Crash \/ PowerLoss
    \/ \E client \in BOOLEAN :
          \E fault \in Strikes({"before_log_append", "after_log_append"} \cup CutShort) :
             AppendTransition(client, fault)
    \/ \E fault \in Strikes({"before_checkpoint_rename"}) : OpenTmp(fault)
    \/ \E fault \in Strikes({"write"}) : WriteTmp(fault)
    \/ \E fault \in Strikes({"fsync_file"}) : SyncTmp(fault)
    \/ \E fault \in Strikes({"rename"}) : Rename(fault)
    \/ \E fault \in Strikes({"fsync_dir"}) : SyncDir(fault)

Spec == Init /\ [][Next]_vars

-----------------------------------------------------------------------------
(* Properties.                                                             *)

TypeOK ==
    /\ tmp \in {NoTmp, Torn} \cup Snapshot
    /\ final \in {Torn} \cup Snapshot
    /\ onDisk \subseteq {Torn} \cup Snapshot
    /\ state \in Nat /\ nextSeq \in Nat /\ state < nextSeq
    /\ pc \in {"down", "failed", "idle", "persist", "write", "sync", "rename", "syncdir"}

\* docs/QUEUE_CONTRACT.md:34: as long as syncs are asked for, the snapshot is
\* whole, after any crash, failed call or power loss.
SnapshotWhole == policy # "never" => Torn \notin {final} \cup onDisk

\* docs/QUEUE_CONTRACT.md:30: no sequence that a confirmed transition (and so
\* a lease token) has used is given again, not even after a power loss has
\* taken the whole events file: the snapshot a power loss may leave is never
\* older than the last confirmed call.
SequenceNotReused ==
    policy # "never" /\ pc \notin {"down", "failed"} => confirmed < nextSeq

\* However the group may load now, it comes back no older than transition n.
LoadsSince(n) ==
    \A r \in LoadTransitions(events) :
        final # Torn /\ r.ok => n <= LoadedState(final, r.sequences)

\* AppendTransition tests the stream before a transition takes effect: after
\* crashes, failed appends and an event that was cut short the group fails to
\* load or comes back with the last transition that took effect, confirmed or
\* not, as long as nothing has been appended behind a cut event.
NoSilentDivergence == "power_loss" \notin past /\ InStep(events) => LoadsSince(applied)

\* docs/FAILURE_MODES.md:13, "Engine returns corruption/IO status and avoids
\* silent divergence": an IO error that has cut an event short never makes
\* the group load without a transition whose call returned Ok.
DivergenceReported == "power_loss" \notin past => LoadsSince(confirmed)

\* docs/QUEUE_CONTRACT.md:39: after a crash inside any call the group loads;
\* only a torn event or a power loss makes it fail.
CrashRecoverable ==
    past = {} => final # Torn /\ \A r \in LoadTransitions(events) : r.ok

\* The snapshot is a file replaced as a whole.
Atomic == INSTANCE AtomicFile WITH
    Versions <- Snapshot, visible <- final, candidates <- onDisk,
    promised <- policy # "never"
AtomicSpec == Atomic!Spec
=============================================================================
