----------------------------- MODULE SegmentLog -----------------------------
(***************************************************************************)
(* The segment of a queue (src/core/storage/segment_log.cc) with the       *)
(* records' encoding (record.cc): a file of cells, the page cache and the  *)
(* disk under it, and the index and file position kept in memory.          *)
(*                                                                         *)
(* A record is a header in two halves and a body.  The first half stands   *)
(* for magic, version, sizes and the CRC, which covers the body only; the  *)
(* second for offset and message id.  A CRC matches the one body it was    *)
(* computed from, and bytes that are not half a header never pass as one.  *)
(***************************************************************************)
EXTENDS Naturals, Sequences, FiniteSets, FiniteSetsExt

CONSTANTS
    Ids,              \* messages produced
    Body,             \* id -> its header pairs, routing key and payload
    MaxQueueDepth,    \* EngineOptions::max_queue_depth
    MaxSegmentSize,   \* EngineOptions::max_segment_size_bytes, in cells
    Policies,         \* FsyncPolicy values considered
    Faults,           \* system calls that may fail, and "lost_file"
    MaxAppends,       \* bound on the appends that write anything
    MaxRestarts       \* bound on the ends of the process

ASSUME BodyAssumption == Body \in [Ids -> Seq(STRING)]
ASSUME LimitsAssumption == MaxQueueDepth \in Nat /\ MaxSegmentSize \in Nat
ASSUME PoliciesAssumption == Policies \subseteq {"always", "interval", "never"}
ASSUME FaultsAssumption ==
    Faults \subseteq {"short_write", "fsync_file", "fsync_eio", "ftruncate", "lost_file"}
ASSUME BoundsAssumption == MaxAppends \in Nat /\ MaxRestarts \in Nat

VARIABLES
    policy,     \* FsyncPolicy; the segment syncs under "always" only
    file,       \* seg-000001.log as the process reads it
    disk,       \* what has been synced of it
    dirty,      \* positions in the page cache that a sync would write
    open,       \* is fd_ open?
    position,   \* file position of fd_: cells before the next write
    nextOffset, \* next_offset_
    index,      \* offset_to_position_
    \* history
    acked,      \* offset and id of the appends that returned Ok
    written,    \* offset and id of the appends that wrote anything
    appends,    \* their number
    past,       \* what has happened to the file
    restarts

memory == <<open, position, nextOffset, index>>
vars == <<policy, file, disk, dirty, memory, acked, written, appends, past, restarts>>

EmptyFn == [x \in {} |-> 0]

-----------------------------------------------------------------------------
(* The codec.                                                              *)

Zero == [part |-> "zero"]

EncodeRecord(id, offset) ==
    <<[part |-> "sizes", body |-> Body[id]],
      [part |-> "ids", offset |-> offset, id |-> id]>>
    \o [i \in DOMAIN Body[id] |-> [part |-> "body", byte |-> Body[id][i]]]

RecordSize(f, p) == 2 + Len(f[p + 1].body)

HeaderAt(f, p) ==
    p + 2 <= Len(f) /\ f[p + 1].part = "sizes" /\ f[p + 2].part = "ids"

\* Mutant: the CRC is not compared.
DecodesUnchecked(f, p) == HeaderAt(f, p) /\ p + RecordSize(f, p) <= Len(f)

\* Is there a whole record at p, with the body its CRC was computed from?
Decodes(f, p) ==
    /\ HeaderAt(f, p)
    /\ p + RecordSize(f, p) <= Len(f)
    /\ \A i \in DOMAIN f[p + 1].body :
          f[p + 2 + i] = [part |-> "body", byte |-> f[p + 1].body[i]]

DecodeRecord(f, p) == [offset |-> f[p + 2].offset, id |-> f[p + 2].id]

-----------------------------------------------------------------------------
(* Recover: records are found one after the other up to the first place    *)
(* that does not decode, where the file is cut.                            *)

Starts(f) ==
    LET from[p \in 0 .. Len(f)] ==
          IF Decodes(f, p) THEN <<p>> \o from[p + RecordSize(f, p)] ELSE <<>>
    IN  from[0]

Records(f) == [i \in DOMAIN Starts(f) |-> DecodeRecord(f, Starts(f)[i])]

\* Mutant: the cut is made where the last record starts.
RecoveredEndEarly(f) ==
    IF Starts(f) = <<>> THEN 0 ELSE Starts(f)[Len(Starts(f))]

RecoveredEnd(f) ==
    LET starts == Starts(f)
    IN  IF starts = <<>> THEN 0
        ELSE starts[Len(starts)] + RecordSize(f, starts[Len(starts)])

RecoveredIndex(f) ==
    LET starts == Starts(f)
    IN  [o \in {Records(f)[i].offset : i \in DOMAIN starts} |->
            Max({starts[i] : i \in {j \in DOMAIN starts : Records(f)[j].offset = o}})]

RecoveredNext(f) ==
    LET records == Records(f)
    IN  IF records = <<>> THEN 0 ELSE records[Len(records)].offset + 1

\* Read finds the record the index points at, or fails.
Readable(o) == o \in DOMAIN index /\ Decodes(file, index[o])
Read(o) == DecodeRecord(file, index[o])

-----------------------------------------------------------------------------
(* Writing.                                                                *)

Init ==
    /\ policy \in Policies
    /\ file = <<>> /\ disk = <<>> /\ dirty = {}
    /\ open = FALSE /\ position = 0 /\ nextOffset = 0 /\ index = EmptyFn
    /\ acked = {} /\ written = {} /\ appends = 0 /\ past = {} /\ restarts = 0

\* Mutant: the position is set to the end of the file before it is cut.
OpenAndRecoverSeekFirst ==
    /\ ~open
    /\ open' = TRUE
    /\ position' = Len(file)
    /\ file' = SubSeq(file, 1, RecoveredEnd(file))
    /\ dirty' = dirty \cap 1 .. Len(file')
    /\ index' = RecoveredIndex(file)
    /\ nextOffset' = RecoveredNext(file)
    /\ UNCHANGED <<policy, disk, acked, written, appends, past, restarts>>

\* Open and Recover.  Recover reads with pread: the file position stays 0.
\* (An open or pread that fails leaves the segment closed, as it was.)
OpenAndRecover ==
    /\ ~open
    /\ open' = TRUE
    /\ position' = 0
    /\ file' = SubSeq(file, 1, RecoveredEnd(file))
    /\ dirty' = dirty \cap 1 .. Len(file')
    /\ index' = RecoveredIndex(file)
    /\ nextOffset' = RecoveredNext(file)
    /\ UNCHANGED <<policy, disk, acked, written, appends, past, restarts>>

\* Recover does not look at ftruncate's result: if it fails, the segment is
\* open all the same, with the torn tail still in the file.
OpenUncut ==
    /\ ~open
    /\ "ftruncate" \in Faults /\ RecoveredEnd(file) < Len(file)
    /\ open' = TRUE
    /\ position' = 0
    /\ index' = RecoveredIndex(file)
    /\ nextOffset' = RecoveredNext(file)
    /\ past' = past \cup {"not_cut"}
    /\ UNCHANGED <<policy, file, disk, dirty, acked, written, appends, restarts>>

\* ProduceOnShard's refusals.
Admits ==
    /\ open
    /\ nextOffset < MaxQueueDepth
    /\ Len(file) < MaxSegmentSize
    /\ appends < MaxAppends

Cells(id) == EncodeRecord(id, nextOffset)
Size(id) == Len(Cells(id))

\* WriteAll gets `count` cells of the record into the file, at its position.
WriteAll(id, count) ==
    LET end == position + count
    IN  /\ file' = [i \in 1 .. Max({Len(file), end}) |->
                      IF i \in position + 1 .. end THEN Cells(id)[i - position] ELSE file[i]]
        /\ written' = written \cup {[offset |-> nextOffset, id |-> id]}
        /\ appends' = appends + 1

Touched(count) == dirty \cup (position + 1 .. position + count)

\* Written at the file position, which need not be the end of the file.
Overwrite == IF position < Len(file) THEN {"overwrite"} ELSE {}

\* FsyncFile writes the dirty cells; a cell that an earlier failed sync has
\* dropped from the page cache's dirty set is not written again.
Synced(touched) ==
    [i \in DOMAIN file' |->
        IF i \in touched THEN file'[i] ELSE IF i <= Len(disk) THEN disk[i] ELSE Zero]

IndexRecord(id) ==
    /\ index' = [o \in DOMAIN index \cup {nextOffset} |->
                    IF o = nextOffset THEN position ELSE index[o]]
    /\ nextOffset' = nextOffset + 1
    /\ acked' = acked \cup {[offset |-> nextOffset, id |-> id]}

\* Mutant: the append is confirmed without the sync.
AppendRecordUnsynced(id) ==
    /\ Admits
    /\ WriteAll(id, Size(id))
    /\ position' = position + Size(id)
    /\ disk' = disk /\ dirty' = Touched(Size(id))
    /\ IndexRecord(id)
    /\ past' = past \cup Overwrite
    /\ UNCHANGED <<policy, open, restarts>>

\* Append returns the record's offset.
AppendRecord(id) ==
    /\ Admits
    /\ WriteAll(id, Size(id))
    /\ position' = position + Size(id)
    /\ IF policy = "always"
       THEN disk' = Synced(Touched(Size(id))) /\ dirty' = {}
       ELSE disk' = disk /\ dirty' = Touched(Size(id))
    /\ IndexRecord(id)
    /\ past' = past \cup Overwrite
    /\ UNCHANGED <<policy, open, restarts>>

\* Mutant: the offset is used up by an append whose sync fails.
AppendNotSyncedSkips(id, fault) ==
    /\ Admits
    /\ policy = "always" /\ fault \in Faults
    /\ WriteAll(id, Size(id))
    /\ position' = position + Size(id)
    /\ nextOffset' = nextOffset + 1
    /\ dirty' = IF fault = "fsync_file" THEN Touched(Size(id)) ELSE {}
    /\ past' = past \cup Overwrite \cup ({fault} \ {"fsync_file"})
    /\ UNCHANGED <<policy, disk, open, index, acked, restarts>>

\* The sync fails: Append returns an error with the record in the file.  The
\* failpoint leaves the cells dirty; a failed fsync(2) may drop them.
AppendNotSynced(id, fault) ==
    /\ Admits
    /\ policy = "always" /\ fault \in Faults
    /\ WriteAll(id, Size(id))
    /\ position' = position + Size(id)
    /\ dirty' = IF fault = "fsync_file" THEN Touched(Size(id)) ELSE {}
    /\ past' = past \cup Overwrite \cup ({fault} \ {"fsync_file"})
    /\ UNCHANGED <<policy, disk, open, nextOffset, index, acked, restarts>>

\* write(2) fails after some of the cells: Append returns an error, with the
\* file position in the middle of the record.
AppendShort(id, count) ==
    /\ Admits
    /\ "short_write" \in Faults /\ count < Size(id)
    /\ WriteAll(id, count)
    /\ position' = position + count
    /\ dirty' = Touched(count)
    /\ past' = past \cup Overwrite \cup {"short_write"}
    /\ UNCHANGED <<policy, disk, open, nextOffset, index, acked, restarts>>

LoseMemory ==
    /\ restarts < MaxRestarts
    /\ open' = FALSE /\ position' = 0 /\ nextOffset' = 0 /\ index' = EmptyFn
    /\ restarts' = restarts + 1
    /\ UNCHANGED <<policy, acked>>

\* The process ends, and the page cache stays.
Crash ==
    /\ open
    /\ LoseMemory
    /\ UNCHANGED <<file, disk, dirty, written, appends, past>>

\* The process ends inside an append, after some of its cells.
CrashInAppend(id, count) ==
    /\ Admits
    /\ WriteAll(id, count)
    /\ dirty' = Touched(count)
    /\ LoseMemory
    /\ past' = past \cup Overwrite
    /\ UNCHANGED disk

\* The machine ends, with the process or after it: of the cells that were not
\* synced the first n are left.  A cut made by Recover and not synced since
\* is undone.  The header at the start of the file is within one disk
\* sector, and is kept or lost whole.
PowerLoss(n) ==
    /\ n # 1
    /\ LoseMemory
    /\ file' = [i \in 1 .. Max({Len(disk), n}) |->
                  IF i <= n /\ i \in dirty THEN file[i]
                  ELSE IF i <= Len(disk) THEN disk[i] ELSE Zero]
    /\ disk' = file' /\ dirty' = {}
    /\ past' = past \cup {"power_loss"}
                    \cup (IF policy = "always" \/ dirty = {} THEN {} ELSE {"not_synced"})
    /\ UNCHANGED <<written, appends>>

\* Open creates the file and nobody syncs its directory: until it has
\* survived a power loss, one may take the file itself.
LoseFile ==
    /\ "lost_file" \in Faults /\ "power_loss" \notin past
    /\ LoseMemory
    /\ file' = <<>> /\ disk' = <<>> /\ dirty' = {}
    /\ past' = past \cup {"lost_file"}
    /\ UNCHANGED <<written, appends>>

Next ==
    \/ OpenAndRecover \/ OpenUncut
    \/ Crash \/ LoseFile
    \/ \E n \in 0 .. Len(file) : PowerLoss(n)
    \/ \E id \in Ids :
          \/ AppendRecord(id)
          \/ \E fault \in {"fsync_file", "fsync_eio"} : AppendNotSynced(id, fault)
          \/ \E count \in 1 .. Size(id) : AppendShort(id, count) \/ CrashInAppend(id, count)

Spec == Init /\ [][Next]_vars

-----------------------------------------------------------------------------
(* Properties.                                                             *)

Record == [offset: Nat, id: Ids]

Unharmed == past \subseteq {"power_loss"}

\* Types; the position is never past the end, so a write leaves no hole.
TypeOK ==
    /\ dirty \subseteq DOMAIN file
    /\ position \in 0 .. Len(file) /\ nextOffset \in Nat
    /\ DOMAIN index \subseteq Nat /\ \A o \in DOMAIN index : index[o] \in Nat
    /\ acked \subseteq written /\ written \subseteq Record

\* docs/QUEUE_CONTRACT.md:33 and docs/PHASE0_SYSTEM_UNDERSTANDING.md:19: an
\* offset that Append has returned reads as its own record ever after, in
\* the running process and in any later one.
AckedReadable ==
    \A r \in acked :
        IF open THEN Readable(r.offset) /\ Read(r.offset) = r
        ELSE /\ r.offset \in DOMAIN RecoveredIndex(file)
             /\ DecodeRecord(file, RecoveredIndex(file)[r.offset]) = r

\* The same as long as the segment is written at its end only, no write(2)
\* fails half-way, a torn tail is cut, and no sync or file is lost: crashes
\* inside an append, syncs that fail cleanly and, under "always", power
\* losses that leave the file do not break it.
AckedReadableUnharmed == Unharmed => AckedReadable

\* docs/FAILURE_MODES.md:4, "no half-record is replayed": whatever Read
\* returns is a record that some Append was given, with its own body.  This
\* needs that cells are not replaced in place, by an overwrite or by a power
\* loss that undoes some of them: the CRC does not cover the header, and the
\* halves of two headers may meet.
NoHalfRecord ==
    Unharmed \/ past \cap {"overwrite", "power_loss"} = {} =>
        \A o \in DOMAIN index : Readable(o) =>
            /\ Read(o) \in written
            /\ SubSeq(file, index[o] + 1, index[o] + RecordSize(file, index[o]))
                 = EncodeRecord(Read(o).id, Read(o).offset)

\* Recover leaves no offset it has indexed unreadable, whatever it finds:
\* LoadGroupState fails for good on the first one that is.
RecoveredReadable ==
    [][~open /\ open' =>
        \A o \in DOMAIN index' : Readable(o)' /\ Read(o)'.offset = o]_vars

\* Unharmed, the segment is the log of whole records that QueueEngine
\* takes it to be.
Confirmed ==
    LET last == {i \in DOMAIN Records(file) : Records(file)[i] \in acked}
    IN  IF last = {} THEN 0 ELSE Max(last)

Log == INSTANCE RecordLog WITH
    log <- Records(file), confirmed <- Confirmed, next <- nextOffset,
    up <- open, intact <- Unharmed
LogSpec == Log!Spec
=============================================================================
