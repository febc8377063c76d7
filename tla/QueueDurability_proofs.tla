----------------------- MODULE QueueDurability_proofs -----------------------
(***************************************************************************)
(* What a crash cannot undo: proofs about the events file, the snapshot    *)
(* and the life of each message, for every value of QueueEngine's limits   *)
(* and times and under every failpoint.  Each theorem names the conditions *)
(* it needs: no power loss (the events file is never synced), no write to  *)
(* a segment after a reopen, which overwrites its records, or no failure   *)
(* between the write of an event and its effect in memory.                 *)
(***************************************************************************)
EXTENDS QueueLeases_proofs, FiniteSetTheorems

-----------------------------------------------------------------------------
(* The steps that log a transition, seen alike: Consume, Ack, Nack and the *)
(* reaper differ only in the event and in what the caller is told.         *)

\* The call failed before the append, after it, or not before its effect.
Skipped(rt) == UNCHANGED <<eventLog, inflight>> /\ runtime' = rt

Logged(e, rt) ==
    eventLog' = Append(eventLog, e) /\ runtime' = rt /\ UNCHANGED inflight

Applied(e, rt) ==
    /\ eventLog' = Append(eventLog, e)
    /\ runtime' = [rt EXCEPT ![e.id] = Runtime(e, rt[e.id].offset)]
    /\ inflight' = IF e.state = "inflight"
                   THEN Put(inflight, e.id,
                            [deadline |-> e.deadline, sequence |-> e.sequence])
                   ELSE Drop(inflight, e.id)

\* The table a call works on is the group's, or has one fresh entry more.
Covers(rt) ==
    /\ DOMAIN runtime \subseteq DOMAIN rt
    /\ \A id \in DOMAIN runtime : rt[id] = runtime[id]
    /\ \A id \in DOMAIN rt \ DOMAIN runtime :
          /\ rt[id].state = "ready" /\ rt[id].retry_count = 0
          /\ rt[id].available_after = 0 /\ rt[id].sequence = 0

\* A delivery: e is about the message at the first offset that is ready.
Delivers(e, rt) ==
    /\ e.state = "inflight"
    /\ HasRoom /\ ReadyOffsets # {} /\ FrontReady \in DOMAIN segIndex
    /\ e.id = Read(FrontReady)
    /\ e.retry_count = rt[e.id].retry_count
    /\ e.id \in DOMAIN runtime => rt = runtime

\* The end of a lease, of a message that is in flight.
Ends(e, rt) ==
    /\ rt = runtime /\ e.id \in DOMAIN inflight
    /\ \/ e.state \in {"acked", "dead"} /\ e.retry_count = runtime[e.id].retry_count
       \/ /\ e.retry_count = runtime[e.id].retry_count + 1
          /\ e.state = IF e.retry_count > MaxRetryCount THEN "dead" ELSE "ready"

Transition(e, rt) ==
    /\ loaded /\ loaded' /\ nextSeq' = nextSeq + 1
    /\ e \in Event /\ e.sequence = nextSeq /\ e.id \in DOMAIN rt
    /\ TableOK(rt) /\ Covers(rt)
    /\ Delivers(e, rt) \/ Ends(e, rt)
    /\ \/ Skipped(rt) /\ UNCHANGED <<leases, acked>>
       \/ "after_log_append" \in Failpoints /\ Logged(e, rt) /\ UNCHANGED <<leases, acked>>
       \/ /\ Applied(e, rt)
          /\ \/ UNCHANGED leases
             \/ /\ e.state = "inflight"
                /\ leases' = leases \cup {[id |-> e.id, sequence |-> nextSeq]}
          /\ \/ UNCHANGED acked
             \/ e.state = "acked" /\ \E l \in leases : l.id = e.id /\ acked' = acked \cup {l}
    /\ \/ UNCHANGED stateFile
       \/ stateFile' = [next_sequence |-> nextSeq', runtime |-> runtime']
    /\ UNCHANGED <<segFile, segPos, segNext, segIndex, restarts>>
    /\ pc # "down" /\ pc' # "down"

\* A step that neither writes nor changes what the table says.
Quiet ==
    /\ UNCHANGED <<segFile, eventLog, stateFile, segPos, segNext, segIndex, restarts>>
    /\ UNCHANGED <<loaded, runtime, inflight, nextSeq, leases, acked>>
    /\ pc' = "down" <=> pc = "down"

\* What AppendTransition does with a failpoint the calls may meet.
LEMMA AppendOutcome ==
  ASSUME NEW e, NEW rt, NEW w, NEW early, NEW fp,
         fp \in {"none"} \cup Failpoints, "none" \notin early,
         AppendTransition(e, rt, w, early, fp)
  PROVE  \/ fp # "none" /\ Skipped(rt)
         \/ "after_log_append" \in Failpoints /\ fp # "none" /\ Logged(e, rt)
         \/ Applied(e, rt)
<1>1. CASE fp \in early
  BY <1>1 DEF AppendTransition, Skipped
<1>2. CASE fp \notin early /\ fp = "after_log_append"
  BY <1>2 DEF AppendTransition, Logged
<1>3. CASE ~(fp \in early \cup {"after_log_append"})
  BY <1>3 DEF AppendTransition, ApplyTransition, Applied
<1> QED
  BY <1>1, <1>2, <1>3

LEMMA DeliverTransition ==
  ASSUME Inv, NEW fp \in {"none"} \cup Failpoints, Deliver(fp)
  PROVE  \E e, rt : Transition(e, rt)
<1> DEFINE offset == FrontReady
           id == Read(offset)
           fresh == [state |-> "ready", offset |-> offset, retry_count |-> 0,
                     available_after |-> 0, sequence |-> 0]
           rt == IF id \in DOMAIN runtime THEN runtime ELSE Put(runtime, id, fresh)
           e == [sequence |-> nextSeq, id |-> id, state |-> "inflight",
                 retry_count |-> rt[id].retry_count, available_after |-> clock,
                 deadline |-> clock + VisibilityTimeout]
           early == {"before_lease_issue", "before_log_append"}
           lease == [id |-> id, sequence |-> nextSeq]
<1>1. /\ offset \in DOMAIN segIndex /\ HasRoom /\ ReadyOffsets # {}
      /\ AppendTransition(e, rt, wheel, early, fp)
      /\ leases' = IF fp = "none" THEN leases \cup {lease} ELSE leases
      /\ loaded /\ loaded'
      /\ PersistGroupState(fp)
      /\ UNCHANGED <<segFile, segPos, segNext, segIndex, restarts, acked>>
      /\ pc # "down" /\ pc' # "down"
  BY DEF Deliver, Return, Inv, SequenceInv, segment
<1>2. offset \in Nat /\ id \in Ids
  BY <1>1, KnownIdsType DEF Inv, TypeOK, SegmentTypeOK
<1>3. fresh \in MessageRuntime
  BY <1>2 DEF MessageRuntime, States
<1>4. id \in DOMAIN rt /\ Covers(rt) /\ TableOK(rt)
  <2> HIDE DEF id, offset
  <2> QED
    BY <1>2, <1>3 DEF Put, Covers, TableOK, Inv, TypeOK, GroupTypeOK
<1>5. rt[id].retry_count \in Nat
  <2> HIDE DEF rt, id
  <2> QED
    BY <1>4 DEF TableOK, MessageRuntime
<1>6. /\ e \in Event /\ e.id = id /\ e.sequence = nextSeq /\ e.state = "inflight"
      /\ e.retry_count = rt[id].retry_count
  <2> HIDE DEF rt, id
  <2> QED
    BY <1>2, <1>5, TimesAssumption DEF Event, States, Inv, TypeOK, GroupTypeOK, CallTypeOK
<1>7. id \in DOMAIN runtime => rt = runtime
  OBVIOUS
<1>8. lease = [id |-> e.id, sequence |-> nextSeq]
  OBVIOUS
<1>9. id = Read(FrontReady) /\ offset = FrontReady
  OBVIOUS
<1>10. "none" \notin early
  OBVIOUS
<1> HIDE DEF rt, e, early, id, fresh, offset, lease
<1>11. Delivers(e, rt)
  BY <1>1, <1>6, <1>7, <1>9 DEF Delivers
<1>12. nextSeq' = nextSeq + 1
  BY <1>1 DEF AppendTransition
<1>13. \/ UNCHANGED stateFile
       \/ stateFile' = [next_sequence |-> nextSeq', runtime |-> runtime']
  BY <1>1 DEF PersistGroupState
<1>14. \/ Skipped(rt) /\ UNCHANGED <<leases, acked>>
       \/ "after_log_append" \in Failpoints /\ Logged(e, rt) /\ UNCHANGED <<leases, acked>>
       \/ Applied(e, rt) /\ UNCHANGED acked
          /\ (leases' = leases \/ leases' = leases \cup {[id |-> e.id, sequence |-> nextSeq]})
  BY <1>1, <1>8, <1>10, AppendOutcome
<1>15. Transition(e, rt)
  BY <1>1, <1>4, <1>6, <1>11, <1>12, <1>13, <1>14 DEF Transition
<1> QED
  BY <1>15

\* Ack, Nack and the reaper: one event about a message in flight.
LEMMA EndTransition ==
  ASSUME Inv, NEW e \in Event, Ends(e, runtime), e.sequence = nextSeq, NEW w,
         NEW early, "none" \notin early, NEW fp \in {"none"} \cup Failpoints,
         AppendTransition(e, runtime, w, early, fp), loaded, loaded' = loaded, pc # "down",
         UNCHANGED stateFile \/ PersistGroupState(fp),
         UNCHANGED <<segFile, segPos, segNext, segIndex, restarts, pc, leases>>,
         \/ UNCHANGED acked
         \/ fp = "none" /\ e.state = "acked"
            /\ \E l \in leases : l.id = e.id /\ acked' = acked \cup {l}
  PROVE  \E f, rt : Transition(f, rt)
<1>1. e.id \in DOMAIN runtime /\ TableOK(runtime) /\ Covers(runtime)
  BY DEF Ends, Inv, TypeOK, GroupTypeOK, TableOK, Covers
<1>2. nextSeq' = nextSeq + 1
  BY DEF AppendTransition
<1>3. \/ UNCHANGED stateFile
      \/ stateFile' = [next_sequence |-> nextSeq', runtime |-> runtime']
  BY DEF PersistGroupState
<1>4. \/ fp # "none" /\ Skipped(runtime)
      \/ "after_log_append" \in Failpoints /\ fp # "none" /\ Logged(e, runtime)
      \/ Applied(e, runtime)
  BY AppendOutcome
<1>5. Transition(e, runtime)
  BY <1>1, <1>2, <1>3, <1>4 DEF Transition
<1> QED
  BY <1>5

\* READY again, or DEAD once the retries are used up.
LEMMA RetryEnds ==
  ASSUME Inv, NEW id \in DOMAIN inflight, NEW at \in Nat
  PROVE  LET e == RetryEvent(id, runtime[id].retry_count + 1, at)
         IN  e \in Event /\ Ends(e, runtime) /\ e.sequence = nextSeq /\ e.state # "acked"
<1> DEFINE r == runtime[id].retry_count + 1
           e == RetryEvent(id, r, at)
<1>1. id \in Ids /\ r \in Nat /\ nextSeq \in Nat
  BY DEF Inv, TypeOK, GroupTypeOK, MessageRuntime
<1>2. e \in Event /\ e.id = id
  BY <1>1, RetryEventType
<1>3. e.retry_count = r /\ e.sequence = nextSeq
  BY DEF RetryEvent
<1>4. e.state = IF r > MaxRetryCount THEN "dead" ELSE "ready"
  BY DEF RetryEvent
<1>5. Ends(e, runtime) /\ e.state # "acked"
  <2>1. r = runtime[id].retry_count + 1
    OBVIOUS
  <2> HIDE DEF r, e
  <2> QED
    BY <1>2, <1>3, <1>4, <2>1 DEF Ends
<1> QED
  BY <1>2, <1>3, <1>5

LEMMA AckTransition ==
  ASSUME Inv, NEW l \in leases, NEW fp \in {"none"} \cup Failpoints, Ack(l, fp)
  PROVE  \E e, rt : Transition(e, rt)
<1> DEFINE e == [sequence |-> nextSeq, id |-> l.id, state |-> "acked",
                 retry_count |-> runtime[l.id].retry_count,
                 available_after |-> 0, deadline |-> 0]
           early == {"before_ack_transition", "before_log_append"}
<1>1. l.id \in DOMAIN inflight /\ l.id \in DOMAIN runtime /\ l.id \in Ids
  BY DEF Ack, Inv, TypeOK, GroupTypeOK
<1>2. e \in Event /\ Ends(e, runtime) /\ e.sequence = nextSeq /\ e.state = "acked" /\ e.id = l.id
  BY <1>1 DEF Event, States, Ends, Inv, TypeOK, GroupTypeOK, MessageRuntime
<1>3. /\ AppendTransition(e, runtime, wheel, early, fp) /\ "none" \notin early
      /\ loaded /\ loaded' = loaded /\ pc # "down" /\ PersistGroupState(fp)
      /\ UNCHANGED <<segFile, segPos, segNext, segIndex, restarts, pc, leases>>
      /\ acked' = IF fp = "none" THEN acked \cup {l} ELSE acked
  BY DEF Ack, segment, running
<1> HIDE DEF e, early
<1> QED
  BY <1>2, <1>3, EndTransition

LEMMA NackTransition ==
  ASSUME Inv, NEW l \in leases, NEW requeue \in BOOLEAN,
         NEW fp \in {"none"} \cup Failpoints, Nack(l, requeue, fp)
  PROVE  \E e, rt : Transition(e, rt)
<1> DEFINE e == NackEvent(l.id, requeue)
           early == {"before_dlq_move", "before_log_append"}
<1>1. l.id \in DOMAIN inflight /\ l.id \in DOMAIN runtime /\ l.id \in Ids /\ clock \in Nat
  BY DEF Nack, Inv, TypeOK, GroupTypeOK, CallTypeOK
<1>2. e \in Event /\ Ends(e, runtime) /\ e.sequence = nextSeq
  <2>1. CASE requeue
    BY <1>1, <2>1, RetryEnds DEF NackEvent
  <2>2. CASE ~requeue
    BY <1>1, <2>2 DEF NackEvent, Event, States, Ends, Inv, TypeOK, GroupTypeOK, MessageRuntime
  <2> QED
    BY <2>1, <2>2
<1>3. /\ AppendTransition(e, runtime, wheel, early, fp) /\ "none" \notin early
      /\ loaded /\ loaded' = loaded /\ pc # "down" /\ PersistGroupState(fp)
      /\ UNCHANGED <<segFile, segPos, segNext, segIndex, restarts, pc, leases, acked>>
  BY DEF Nack, segment, running, history
<1> HIDE DEF e, early
<1> QED
  BY <1>2, <1>3, EndTransition

LEMMA ReapTimeoutTransition ==
  ASSUME Inv, NEW x, NEW fp \in {"none"} \cup Failpoints, ReapTimeout(x, fp)
  PROVE  \E e, rt : Transition(e, rt)
<1> DEFINE e == RetryEvent(x[1], runtime[x[1]].retry_count + 1, now)
           w == [wheel EXCEPT ![base % WheelSize] = @ \ {x}]
           early == {"before_timeout_transition", "before_log_append"}
<1>1. x[1] \in DOMAIN inflight /\ now \in Nat
  BY DEF ReapTimeout, Due, Reached, Inv, TypeOK, CallTypeOK
<1>2. e \in Event /\ Ends(e, runtime) /\ e.sequence = nextSeq
  BY <1>1, RetryEnds
<1>3. /\ AppendTransition(e, runtime, w, early, fp) /\ "none" \notin early
      /\ loaded /\ loaded' = loaded /\ pc # "down" /\ UNCHANGED stateFile
      /\ UNCHANGED <<segFile, segPos, segNext, segIndex, restarts, pc, leases, acked>>
  BY DEF ReapTimeout, InWheelLoop, Inv, SequenceInv, segment, running, history
<1> HIDE DEF e, w, early
<1> QED
  BY <1>2, <1>3, EndTransition

\* Every step of the engine, sorted by what it does to the files and tables.
LEMMA StepShapes ==
  ASSUME Inv, [Next]_vars
  PROVE  \/ Quiet
         \/ Restart
         \/ LoseMemory /\ (UNCHANGED eventLog \/ AllowPowerLoss)
         \/ \E id \in Ids, fp \in {"none", "fsync_file"} : Produce(id, fp)
         \/ GetGroup
         \/ \E e, rt : Transition(e, rt)
<1>0. \A S : Strikes(S) \subseteq {"none"} \cup Failpoints
  BY DEF Strikes
<1>1. CASE Tick \/ SetClockBack
  BY <1>1 DEF Tick, SetClockBack, Quiet, disk, segment, group, running, history
<1>2. CASE Crash \/ PowerLoss
  BY <1>2 DEF Crash, PowerLoss
<1>3. CASE ClientStep
  <2>1. ASSUME NEW c, Begin(c) PROVE Quiet
    BY <2>1 DEF Begin, Quiet, disk, segment, group, history
  <2>2. Strikes({"fsync_file"}) \subseteq {"none", "fsync_file"}
    BY DEF Strikes
  <2> QED
    BY <1>0, <1>3, <2>1, <2>2, AckTransition, NackTransition
       DEF ClientStep, BeginConsume, BeginStats
<1>4. CASE CallStep
  <2>1. CASE ReapAdvance \/ ReapEnd \/ FinishStats \/ ConsumeNothing
    BY <2>1 DEF ReapAdvance, ReapEnd, FinishStats, ConsumeNothing, Return, Quiet,
       InWheelLoop, disk, segment, group, running, history
  <2> QED
    BY <1>0, <1>4, <2>1, ReapTimeoutTransition, DeliverTransition
       DEF CallStep, Timeouts, Deliveries
<1>5. CASE UNCHANGED vars
  BY <1>5 DEF vars, Quiet, disk, segment, group, running, history
<1> QED
  BY <1>1, <1>2, <1>3, <1>4, <1>5 DEF Next

-----------------------------------------------------------------------------
(* The events file: the last event of a message, and an append.            *)

\* LastEvent is the event of the message with the largest sequence.
LEMMA LastEventLatest ==
  ASSUME eventLog \in Seq(Event), SequencesMonotonic, NEW id, EventsOf(eventLog, id) # {}
  PROVE  /\ Max(EventsOf(eventLog, id)) \in EventsOf(eventLog, id)
         /\ LastEvent(eventLog, id).sequence \in Nat
         /\ \A i \in EventsOf(eventLog, id) :
               eventLog[i].sequence <= LastEvent(eventLog, id).sequence
<1> DEFINE m == Max(EventsOf(eventLog, id))
<1>1. EventsOf(eventLog, id) \in SUBSET DOMAIN eventLog
  BY DEF EventsOf
<1>2. m \in EventsOf(eventLog, id) /\ \A i \in EventsOf(eventLog, id) : m >= i
  BY <1>1, MaxPosition, Zenon
<1>3. LastEvent(eventLog, id) = eventLog[m]
  BY DEF LastEvent
<1> HIDE DEF m
<1>4. DOMAIN eventLog = 1 .. Len(eventLog) /\ Len(eventLog) \in Nat
  OBVIOUS
<1>5. ASSUME NEW i \in EventsOf(eventLog, id) PROVE eventLog[i].sequence <= eventLog[m].sequence
  <2>1. i \in DOMAIN eventLog /\ m \in DOMAIN eventLog
    BY <1>1, <1>2
  <2>2. eventLog[i].sequence \in Nat /\ eventLog[m].sequence \in Nat
    BY <2>1, EventTypes
  <2>3. i = m \/ i < m
    BY <1>2, <1>4, <2>1
  <2> QED
    BY <2>1, <2>2, <2>3 DEF SequencesMonotonic
<1>6. eventLog[m].sequence \in Nat
  BY <1>1, <1>2, EventTypes
<1> QED
  BY <1>2, <1>3, <1>5, <1>6 DEF m

\* An append gives its message a new last event and no other message any.
LEMMA AppendEvents ==
  ASSUME eventLog \in Seq(Event), NEW e \in Event, eventLog' = Append(eventLog, e)
  PROVE  /\ DOMAIN eventLog \subseteq DOMAIN eventLog'
         /\ DOMAIN eventLog' = DOMAIN eventLog \cup {Len(eventLog) + 1}
         /\ Len(eventLog) + 1 \notin DOMAIN eventLog
         /\ \A i \in DOMAIN eventLog : eventLog'[i] = eventLog[i]
         /\ eventLog'[Len(eventLog) + 1] = e
         /\ EventsOf(eventLog', e.id) = EventsOf(eventLog, e.id) \cup {Len(eventLog) + 1}
         /\ LastEvent(eventLog', e.id) = e
         /\ \A id : id # e.id =>
               /\ EventsOf(eventLog', id) = EventsOf(eventLog, id)
               /\ EventsOf(eventLog, id) # {} =>
                     LastEvent(eventLog', id) = LastEvent(eventLog, id)
<1> DEFINE n == Len(eventLog) + 1
<1>1. /\ n \in Nat /\ Len(eventLog) \in Nat
      /\ DOMAIN eventLog = 1 .. Len(eventLog) /\ DOMAIN eventLog' = 1 .. n
      /\ eventLog' \in Seq(Event)
      /\ \A i \in DOMAIN eventLog : eventLog'[i] = eventLog[i]
      /\ eventLog'[n] = e
  OBVIOUS
<1>2. DOMAIN eventLog' = DOMAIN eventLog \cup {n} /\ n \notin DOMAIN eventLog
  BY <1>1
<1> HIDE DEF n
<1>3. EventsOf(eventLog', e.id) = EventsOf(eventLog, e.id) \cup {n}
  BY <1>1, <1>2 DEF EventsOf
<1>4. LastEvent(eventLog', e.id) = e
  <2> DEFINE P == EventsOf(eventLog', e.id)
             m == Max(P)
  <2>1. P \in SUBSET DOMAIN eventLog' /\ n \in P
    BY <1>3 DEF EventsOf
  <2>2. m \in P /\ \A i \in P : m >= i
    BY <1>1, <2>1, MaxPosition, Zenon
  <2>3. LastEvent(eventLog', e.id) = eventLog'[m]
    BY DEF LastEvent
  <2> HIDE DEF m, P
  <2>4. m >= n /\ m \in 1 .. n
    BY <1>1, <2>1, <2>2
  <2> QED
    BY <1>1, <2>3, <2>4
<1>5. ASSUME NEW id, id # e.id
      PROVE  EventsOf(eventLog', id) = EventsOf(eventLog, id)
  BY <1>1, <1>2, <1>5 DEF EventsOf
<1>6. ASSUME NEW id, id # e.id, EventsOf(eventLog, id) # {}
      PROVE  LastEvent(eventLog', id) = LastEvent(eventLog, id)
  <2>1. EventsOf(eventLog', id) = EventsOf(eventLog, id)
    BY <1>5, <1>6
  <2>2. Max(EventsOf(eventLog, id)) \in DOMAIN eventLog
    BY <1>6, LastEventProperties
  <2> QED
    BY <1>1, <2>1, <2>2 DEF LastEvent
<1> QED
  BY <1>1, <1>2, <1>3, <1>4, <1>5, <1>6 DEF n

-----------------------------------------------------------------------------
(* The events file is written first: nothing is in the snapshot or in the  *)
(* table that is not in the file.                                          *)

\* What the file has, it has after an append as well.
LEMMA FromLogKept ==
  ASSUME eventLog \in Seq(Event), NEW e \in Event,
         eventLog' = eventLog \/ eventLog' = Append(eventLog, e),
         NEW id, NEW r, FromLog(id, r)
  PROVE  \/ /\ r.state = "ready" /\ r.retry_count = 0
            /\ r.available_after = 0 /\ r.sequence = 0
         \/ \E i \in EventsOf(eventLog', id) : eventLog'[i].sequence = r.sequence
<1>1. CASE \E i \in EventsOf(eventLog, id) : eventLog[i].sequence = r.sequence
  <2>1. PICK i \in EventsOf(eventLog, id) : eventLog[i].sequence = r.sequence
    BY <1>1
  <2>2. i \in EventsOf(eventLog', id) /\ eventLog'[i] = eventLog[i]
    <3>1. CASE eventLog' = eventLog
      BY <3>1
    <3>2. CASE eventLog' = Append(eventLog, e)
      BY <3>2, AppendEvents DEF EventsOf
    <3> QED
      BY <3>1, <3>2
  <2> QED
    BY <2>1, <2>2
<1> QED
  BY <1>1 DEF FromLog

LEMMA TransitionLogFirst ==
  ASSUME Inv, LogFirstInv, NEW e, NEW rt, Transition(e, rt)
  PROVE  LogFirstInv'
<1>1. eventLog \in Seq(Event) /\ e \in Event /\ e.id \in DOMAIN rt
  BY DEF Inv, TypeOK, DiskTypeOK, Transition
<1>2. eventLog' = eventLog \/ eventLog' = Append(eventLog, e)
  BY DEF Transition, Skipped, Logged, Applied
<1>3. \A id \in DOMAIN rt : FromLog(id, rt[id])
  BY DEF Transition, Covers, LogFirstInv, FromLog
<1>4. ASSUME NEW id \in DOMAIN runtime' PROVE FromLog(id, runtime[id])'
  <2>1. CASE runtime' = rt
    BY <1>1, <1>2, <1>3, <2>1, FromLogKept DEF FromLog
  <2>2. CASE Applied(e, rt)
    <3>1. id \in DOMAIN rt /\ (id # e.id => runtime'[id] = rt[id])
      BY <2>2 DEF Applied
    <3>2. CASE id # e.id
      BY <1>1, <1>2, <1>3, <3>1, <3>2, FromLogKept DEF FromLog
    <3>3. CASE id = e.id
      <4>1. runtime'[id].sequence = e.sequence
        BY <1>1, <2>2, <3>3 DEF Applied, Runtime
      <4>2. Len(eventLog) + 1 \in EventsOf(eventLog', e.id) /\ eventLog'[Len(eventLog) + 1] = e
        BY <1>1, <2>2, AppendEvents DEF Applied
      <4> QED
        BY <3>3, <4>1, <4>2 DEF FromLog
    <3> QED
      BY <3>2, <3>3
  <2> QED
    BY <2>1, <2>2 DEF Transition, Skipped, Logged
<1>5. ASSUME NEW id \in DOMAIN stateFile'.runtime PROVE FromLog(id, stateFile.runtime[id])'
  <2>1. CASE stateFile' = stateFile
    <3>1. FromLog(id, stateFile.runtime[id])
      BY <2>1 DEF LogFirstInv
    <3> QED
      BY <1>1, <1>2, <2>1, <3>1, FromLogKept DEF FromLog
  <2>2. CASE stateFile' = [next_sequence |-> nextSeq', runtime |-> runtime']
    <3>1. stateFile'.runtime = runtime'
      BY <2>2
    <3> QED
      BY <1>4, <3>1 DEF FromLog
  <2> QED
    BY <2>1, <2>2 DEF Transition
<1> QED
  BY <1>4, <1>5 DEF LogFirstInv

\* Recovery takes an entry from the last event, or from the snapshot.
LEMMA GetGroupLogFirst ==
  ASSUME Inv, LogFirstInv, GetGroup
  PROVE  LogFirstInv'
<1>1. PICK at \in [KnownIds -> DOMAIN segIndex] :
         runtime' = [id \in KnownIds |-> RecoveredRuntime(eventLog, id, at[id])]
  BY DEF GetGroup
<1>2. UNCHANGED <<eventLog, stateFile>> /\ eventLog \in Seq(Event) /\ SequencesMonotonic
  BY DEF GetGroup, disk, Inv, TypeOK, DiskTypeOK, SequenceInv
<1>3. ASSUME NEW id \in KnownIds PROVE FromLog(id, RecoveredRuntime(eventLog, id, at[id]))
  <2> DEFINE r == Replayed(eventLog, id, at[id])
  <2>1. CASE EventsOf(eventLog, id) = {}
    <3>1. /\ r.state = "ready" /\ r.retry_count = 0
          /\ r.available_after = 0 /\ r.sequence = 0
      BY <2>1 DEF Replayed, LogFirstInv, FromLog
    <3> QED
      BY <3>1 DEF RecoveredRuntime, FromLog
  <2>2. CASE EventsOf(eventLog, id) # {}
    <3>1. /\ r.sequence = LastEvent(eventLog, id).sequence
          /\ DOMAIN r = {"state", "offset", "retry_count", "available_after", "sequence"}
      BY <2>2 DEF Replayed, Runtime
    <3>2. RecoveredRuntime(eventLog, id, at[id]).sequence = LastEvent(eventLog, id).sequence
      <4> HIDE DEF r
      <4>1. RecoveredRuntime(eventLog, id, at[id]) =
               IF r.state = "inflight"
               THEN [r EXCEPT !.state = "ready", !.available_after = clock] ELSE r
        BY DEF RecoveredRuntime, r
      <4> QED
        BY <3>1, <4>1
    <3>3. Max(EventsOf(eventLog, id)) \in EventsOf(eventLog, id)
      BY <1>2, <2>2, LastEventLatest
    <3> QED
      BY <3>2, <3>3 DEF FromLog, LastEvent
  <2> QED
    BY <2>1, <2>2
<1> QED
  BY <1>1, <1>2, <1>3 DEF LogFirstInv, FromLog

LEMMA NextLogFirst ==
  ASSUME ~AllowPowerLoss, Inv, LogFirstInv, [Next]_vars
  PROVE  LogFirstInv'
<1>1. CASE Quiet
  BY <1>1 DEF Quiet, LogFirstInv, FromLog
<1>2. CASE Restart
  BY <1>2 DEF Restart, disk, group, LogFirstInv, FromLog
<1>3. CASE LoseMemory /\ UNCHANGED eventLog
  BY <1>3, EmptyDomain DEF LoseMemory, LogFirstInv, FromLog
<1>4. ASSUME NEW id, NEW fp, Produce(id, fp) PROVE LogFirstInv'
  BY <1>4 DEF Produce, group, LogFirstInv, FromLog
<1> QED
  BY <1>1, <1>2, <1>3, <1>4, StepShapes, GetGroupLogFirst, TransitionLogFirst

LEMMA LogFirstHolds == ASSUME ~AllowPowerLoss PROVE Spec => []LogFirstInv
<1>1. Init => LogFirstInv
  BY EmptyDomain DEF Init, EmptyState, LogFirstInv
<1>2. Inv /\ LogFirstInv /\ [Next]_vars => LogFirstInv'
  BY NextLogFirst
<1> QED
  BY <1>1, <1>2, InvHolds, PTL DEF Spec

\* docs/FAILURE_MODES.md:7, after a restart the latest durable transition
\* wins, whatever failed before it: unless events were lost, recovery never
\* falls back behind the snapshot or behind an event.
THEOREM LatestWins == ASSUME ~AllowPowerLoss PROVE Spec => []LatestDurableWins
<1>1. Inv /\ LogFirstInv => LatestDurableWins
  <2> SUFFICES ASSUME Inv, LogFirstInv, NEW id \in DOMAIN stateFile.runtime
               PROVE  /\ Replayed(eventLog, id, 0).sequence >= stateFile.runtime[id].sequence
                      /\ \A i \in EventsOf(eventLog, id) :
                            Replayed(eventLog, id, 0).sequence >= eventLog[i].sequence
    BY DEF LatestDurableWins
  <2> DEFINE q == stateFile.runtime[id].sequence
             l == LastEvent(eventLog, id).sequence
  <2>1. q \in Nat /\ FromLog(id, stateFile.runtime[id])
    BY DEF Inv, TypeOK, DiskTypeOK, MessageRuntime, LogFirstInv
  <2>2. CASE EventsOf(eventLog, id) = {}
    BY <2>1, <2>2 DEF Replayed
  <2>3. CASE EventsOf(eventLog, id) # {}
    <3>1. Replayed(eventLog, id, 0).sequence = l
      BY <2>3 DEF Replayed, Runtime
    <3>2. l \in Nat /\ \A i \in EventsOf(eventLog, id) : eventLog[i].sequence <= l
      BY <2>3, LastEventLatest DEF Inv, TypeOK, DiskTypeOK, SequenceInv
    <3>3. \A i \in EventsOf(eventLog, id) : eventLog[i].sequence \in Nat
      BY EventTypes DEF EventsOf, Inv, TypeOK, DiskTypeOK
    <3>4. q <= l
      BY <2>1, <3>2, <3>3 DEF FromLog
    <3> HIDE DEF l, q
    <3>5. l >= q /\ \A i \in EventsOf(eventLog, id) : l >= eventLog[i].sequence
      BY <2>1, <3>2, <3>3, <3>4
    <3> QED
      BY <3>1, <3>5 DEF q
  <2> QED
    BY <2>2, <2>3
<1> QED
  BY <1>1, InvHolds, LogFirstHolds, PTL

\* An event appended later is past every sequence given out before it.
LEMMA AppendReplay ==
  ASSUME Inv, loaded, NEW e \in Event, e.sequence = nextSeq,
         eventLog' = Append(eventLog, e), NEW id, NEW n \in Nat, n < nextSeq
  PROVE  ReplayedState(id, n)' = ReplayedState(id, n)
<1> DEFINE upto == {i \in EventsOf(eventLog, id) : eventLog[i].sequence <= n}
           upto1 == {i \in EventsOf(eventLog', id) : eventLog'[i].sequence <= n}
<1>1. eventLog \in Seq(Event) /\ nextSeq \in Nat
  BY DEF Inv, TypeOK, DiskTypeOK, GroupTypeOK
<1>2. /\ DOMAIN eventLog' = DOMAIN eventLog \cup {Len(eventLog) + 1}
      /\ \A i \in DOMAIN eventLog : eventLog'[i] = eventLog[i]
      /\ eventLog'[Len(eventLog) + 1] = e
      /\ EventsOf(eventLog', e.id) = EventsOf(eventLog, e.id) \cup {Len(eventLog) + 1}
      /\ \A i : i # e.id => EventsOf(eventLog', i) = EventsOf(eventLog, i)
  BY <1>1, AppendEvents
<1>3. EventsOf(eventLog, id) \subseteq DOMAIN eventLog
  BY DEF EventsOf
<1>4. ~(e.sequence <= n)
  BY <1>1
<1>5. upto1 = upto
  <2>1. CASE id = e.id
    BY <1>2, <1>3, <1>4, <2>1
  <2>2. CASE id # e.id
    BY <1>2, <1>3, <2>2
  <2> QED
    BY <2>1, <2>2
<1>6. ReplayedState(id, n) = IF upto = {} THEN "ready" ELSE eventLog[Max(upto)].state
  BY DEF ReplayedState
<1>7. ReplayedState(id, n)' = IF upto1 = {} THEN "ready" ELSE eventLog'[Max(upto1)].state
  BY DEF ReplayedState
<1>8. upto # {} => Max(upto) \in DOMAIN eventLog
  <2> SUFFICES ASSUME upto # {} PROVE Max(upto) \in DOMAIN eventLog
    OBVIOUS
  <2>1. upto \in SUBSET DOMAIN eventLog
    BY <1>3
  <2> HIDE DEF upto
  <2>2. Max(upto) \in upto
    BY <1>1, <2>1, MaxPosition, Zenon
  <2> QED
    BY <2>1, <2>2
<1> HIDE DEF upto, upto1
<1> QED
  BY <1>2, <1>5, <1>6, <1>7, <1>8

LEMMA AppendApplied ==
  ASSUME Inv, loaded, NEW e \in Event, e.sequence = nextSeq,
         eventLog' = Append(eventLog, e), NEW n \in Nat, n < nextSeq
  PROVE  AppliedSequence(n)' = AppliedSequence(n)
<1> DEFINE upto == {i \in DOMAIN eventLog : eventLog[i].sequence <= n}
           upto1 == {i \in DOMAIN eventLog' : eventLog'[i].sequence <= n}
<1>1. eventLog \in Seq(Event) /\ nextSeq \in Nat
  BY DEF Inv, TypeOK, DiskTypeOK, GroupTypeOK
<1>2. /\ DOMAIN eventLog' = DOMAIN eventLog \cup {Len(eventLog) + 1}
      /\ \A i \in DOMAIN eventLog : eventLog'[i] = eventLog[i]
      /\ eventLog'[Len(eventLog) + 1] = e
  BY <1>1, AppendEvents
<1>3. ~(e.sequence <= n)
  BY <1>1
<1>4. upto1 = upto
  BY <1>2, <1>3
<1>5. AppliedSequence(n) = IF upto = {} THEN 0 ELSE eventLog[Max(upto)].sequence
  BY DEF AppliedSequence
<1>6. AppliedSequence(n)' = IF upto1 = {} THEN 0 ELSE eventLog'[Max(upto1)].sequence
  BY DEF AppliedSequence
<1>7. upto # {} => Max(upto) \in DOMAIN eventLog
  <2> SUFFICES ASSUME upto # {} PROVE Max(upto) \in DOMAIN eventLog
    OBVIOUS
  <2>1. upto \in SUBSET DOMAIN eventLog
    OBVIOUS
  <2> HIDE DEF upto
  <2>2. Max(upto) \in upto
    BY <1>1, <2>1, MaxPosition, Zenon
  <2> QED
    BY <2>1, <2>2
<1> HIDE DEF upto, upto1
<1> QED
  BY <1>2, <1>4, <1>5, <1>6, <1>7

\* Unless events were lost, the events up to a sequence that has been given
\* out are the same ever after.
LEMMA GivenOutStays ==
  ASSUME ~AllowPowerLoss, Inv, [Next]_vars, NEW n \in GivenOut
  PROVE  /\ AppliedSequence(n)' = AppliedSequence(n)
         /\ \A id : ReplayedState(id, n)' = ReplayedState(id, n)
<1>1. CASE eventLog' = eventLog
  BY <1>1 DEF AppliedSequence, ReplayedState
<1>2. ASSUME NEW e, NEW rt, Transition(e, rt), eventLog' # eventLog
      PROVE  /\ AppliedSequence(n)' = AppliedSequence(n)
             /\ \A id : ReplayedState(id, n)' = ReplayedState(id, n)
  <2>1. /\ loaded /\ e \in Event /\ e.sequence = nextSeq
        /\ eventLog' = Append(eventLog, e)
    BY <1>2 DEF Transition, Skipped, Logged, Applied
  <2>2. /\ nextSeq \in Nat
        /\ \A i \in DOMAIN eventLog : eventLog[i].sequence \in Nat /\ eventLog[i].sequence < nextSeq
    BY <2>1, EventTypes DEF Inv, TypeOK, DiskTypeOK, GroupTypeOK, SequenceInv
  <2>3. n \in Nat /\ n < nextSeq
    <3>1. CASE n \in 1 .. nextSeq - 1
      BY <2>2, <3>1
    <3>2. CASE \E i \in DOMAIN eventLog : n = eventLog[i].sequence
      BY <2>2, <3>2
    <3> QED
      BY <2>1, <3>1, <3>2 DEF GivenOut
  <2> QED
    BY <2>1, <2>3, AppendReplay, AppendApplied
<1>3. eventLog' = eventLog \/ \E e, rt : Transition(e, rt)
  BY StepShapes DEF Quiet, Restart, GetGroup, Produce, disk
<1> QED
  BY <1>1, <1>2, <1>3

-----------------------------------------------------------------------------
(* The segment, while nothing is produced after a reopen: each offset the  *)
(* group remembers stays the offset of the same message.                   *)

LEMMA SegmentTypes ==
  ASSUME TypeOK
  PROVE  /\ segFile \in Seq(Record) /\ segNext \in Nat /\ Len(segFile) \in Nat
         /\ DOMAIN segFile = 1 .. Len(segFile)
         /\ \A p \in DOMAIN segFile : segFile[p].offset \in Nat /\ segFile[p].id \in Ids
<1>1. segFile \in Seq(Record) /\ segNext \in Nat
  BY DEF TypeOK, DiskTypeOK, SegmentTypeOK
<1>2. \A p \in DOMAIN segFile : segFile[p] \in Record
  BY <1>1
<1> QED
  BY <1>1, <1>2 DEF Record

LEMMA RestartIndex ==
  ASSUME Inv, IndexInv, Restart
  PROVE  IndexInv'
<1>1. /\ segFile' = segFile /\ segIndex' = RecoverIndex(segFile)
      /\ segNext' = RecoverNextOffset(segFile) /\ segPos' = 0
      /\ pc' # "down" /\ pc = "down" /\ restarts' = restarts
  BY DEF Restart, disk, history
<1>2. DOMAIN segIndex' = {segFile[p].offset : p \in DOMAIN segFile}
  BY <1>1 DEF RecoverIndex
<1>3. ASSUME NEW o \in DOMAIN segIndex' PROVE LastRecordOf(o, segIndex'[o])
  <2> DEFINE P == {p \in DOMAIN segFile : segFile[p].offset = o}
  <2>1. P \in SUBSET DOMAIN segFile /\ P # {} /\ segIndex'[o] = Max(P)
    BY <1>1, <1>3 DEF RecoverIndex
  <2>2. \A p : p \in P <=> p \in DOMAIN segFile /\ segFile[p].offset = o
    OBVIOUS
  <2> HIDE DEF P
  <2>3. Max(P) \in P /\ \A p \in P : Max(P) >= p
    BY <2>1, MaxPosition, SegmentTypes DEF Inv
  <2>4. \A p \in P : p \in Nat
    BY <2>1, SegmentTypes DEF Inv
  <2>5. \A p \in P : p <= Max(P)
    BY <2>3, <2>4
  <2> QED
    BY <2>1, <2>2, <2>3, <2>5 DEF LastRecordOf
<1>4. CASE restarts = 0
  <2>1. segFile = <<>>
    BY <1>1, <1>4 DEF IndexInv
  <2>2. segNext' = 0 /\ DOMAIN segFile = {} /\ Len(segFile') = 0
    BY <1>1, <2>1 DEF RecoverNextOffset
  <2>3. 0 .. segNext' - 1 = {}
    BY <2>2
  <2> QED
    BY <1>1, <1>2, <1>3, <1>4, <2>2, <2>3 DEF IndexInv, LastRecordOf
<1>5. CASE restarts # 0
  <2>1. restarts > 0
    BY <1>5 DEF Inv, TypeOK, CallTypeOK
  <2> QED
    BY <1>1, <1>2, <1>3, <2>1 DEF IndexInv, LastRecordOf
<1> QED
  BY <1>4, <1>5

\* A first life's Produce writes at the end, with an offset not yet indexed.
WritesAtEnd(id) ==
    /\ restarts = 0 /\ restarts' = 0 /\ pc # "down" /\ pc' # "down"
    /\ segPos' = Len(segFile')
    /\ DOMAIN segFile' = DOMAIN segFile \cup {Len(segFile) + 1}
    /\ Len(segFile') = Len(segFile) + 1
    /\ \A p \in DOMAIN segFile : segFile'[p] = segFile[p]
    /\ segFile'[Len(segFile) + 1] = [id |-> id, offset |-> segNext]
    /\ \A p \in DOMAIN segFile : segFile[p].offset <= segNext
    /\ DOMAIN segIndex = 0 .. segNext - 1
    /\ \/ segNext' = segNext /\ segIndex' = segIndex
       \/ /\ segNext' = segNext + 1
          /\ segIndex' = Put(segIndex, segNext, Len(segFile) + 1)

LEMMA ProduceWrites ==
  ASSUME ~ProduceAfterReopen, Inv, IndexInv, NEW id, NEW fp, Produce(id, fp)
  PROVE  WritesAtEnd(id)
<1> DEFINE rec == [id |-> id, offset |-> segNext]
<1>1. /\ restarts = 0 /\ restarts' = 0 /\ pc # "down" /\ pc' # "down"
      /\ segFile' = WriteAll(segFile, segPos, rec) /\ segPos' = segPos + 1
      /\ \/ segNext' = segNext /\ segIndex' = segIndex
         \/ segNext' = segNext + 1 /\ segIndex' = Put(segIndex, segNext, segPos')
  BY DEF Produce, SegmentAppend, running, history
<1>2. /\ segPos = Len(segFile) /\ DOMAIN segIndex = 0 .. segNext - 1
      /\ \A p \in DOMAIN segFile : segFile[p].offset <= segNext
  BY <1>1 DEF IndexInv
<1>3. segFile \in Seq(Record) /\ Len(segFile) \in Nat
  BY SegmentTypes DEF Inv
<1> HIDE DEF rec
<1>4. segFile' = Append(segFile, rec)
  BY <1>1, <1>2, <1>3 DEF WriteAll
<1>5. /\ DOMAIN segFile' = DOMAIN segFile \cup {Len(segFile) + 1}
      /\ Len(segFile') = Len(segFile) + 1
      /\ \A p \in DOMAIN segFile : segFile'[p] = segFile[p]
      /\ segFile'[Len(segFile) + 1] = rec
  BY <1>3, <1>4
<1> QED
  BY <1>1, <1>2, <1>5 DEF rec, WritesAtEnd

\* The last record of an earlier offset stays its last record.
LEMMA WriteKeepsLast ==
  ASSUME Inv, NEW id, WritesAtEnd(id), NEW o \in Nat, o < segNext, NEW p, LastRecordOf(o, p)
  PROVE  LastRecordOf(o, p)' /\ segFile'[p] = segFile[p] /\ p \in DOMAIN segFile'
<1>1. p \in DOMAIN segFile /\ segNext \in Nat
  BY SegmentTypes DEF LastRecordOf, Inv
<1>2. segFile'[Len(segFile) + 1].offset # o
  BY <1>1 DEF WritesAtEnd
<1> QED
  BY <1>1, <1>2 DEF LastRecordOf, WritesAtEnd

LEMMA WriteIndex ==
  ASSUME Inv, IndexInv, NEW id, WritesAtEnd(id)
  PROVE  IndexInv'
<1> USE DEF WritesAtEnd
<1>1. segNext \in Nat /\ Len(segFile) \in Nat /\ DOMAIN segFile = 1 .. Len(segFile)
  BY SegmentTypes DEF Inv
<1>2. ASSUME NEW o \in DOMAIN segIndex
      PROVE  LastRecordOf(o, segIndex[o])' /\ segIndex'[o] = segIndex[o]
  <2>1. o \in Nat /\ o < segNext /\ LastRecordOf(o, segIndex[o])
    BY <1>1 DEF IndexInv
  <2>2. segIndex'[o] = segIndex[o]
    BY <1>1, <2>1 DEF Put
  <2> QED
    BY <2>1, <2>2, WriteKeepsLast DEF LastRecordOf
<1>3. \A p \in DOMAIN segFile' : segFile'[p].offset <= segNext
  BY <1>1
<1>4. CASE segNext' = segNext /\ segIndex' = segIndex
  BY <1>2, <1>3, <1>4 DEF IndexInv
<1>5. CASE segNext' = segNext + 1 /\ segIndex' = Put(segIndex, segNext, Len(segFile) + 1)
  <2>1. /\ DOMAIN segIndex' = DOMAIN segIndex \cup {segNext}
        /\ segIndex'[segNext] = Len(segFile) + 1
    BY <1>5 DEF Put
  <2>2. DOMAIN segIndex' = 0 .. segNext' - 1
    <3>1. segNext' - 1 = segNext /\ 0 .. segNext = (0 .. segNext - 1) \cup {segNext}
      BY <1>1, <1>5
    <3> QED
      BY <2>1, <3>1
  <2>3. PICK k, n : k = segNext /\ n = Len(segFile) + 1
    OBVIOUS
  <2>4. LastRecordOf(k, n)'
    BY <1>1, <2>3 DEF LastRecordOf
  <2>5. ASSUME NEW o \in DOMAIN segIndex' PROVE LastRecordOf(o, segIndex[o])'
    <3>1. CASE o \in DOMAIN segIndex
      BY <1>2, <3>1
    <3>2. CASE o = segNext
      BY <2>1, <2>3, <2>4, <3>2 DEF LastRecordOf
    <3> QED
      BY <2>1, <2>5, <3>1, <3>2
  <2>6. \A p \in DOMAIN segFile' : segFile'[p].offset <= segNext'
    BY <1>1, <1>5, SegmentTypes DEF Inv
  <2> QED
    BY <2>2, <2>5, <2>6 DEF IndexInv
<1> QED
  BY <1>4, <1>5

LEMMA NextIndex ==
  ASSUME ~ProduceAfterReopen, Inv, IndexInv, [Next]_vars
  PROVE  IndexInv'
<1>1. CASE UNCHANGED <<segFile, segPos, segNext, segIndex, restarts>>
           /\ (pc' = "down" <=> pc = "down")
  BY <1>1 DEF IndexInv, LastRecordOf
<1>2. CASE LoseMemory
  <2>1. restarts' > 0 /\ pc' = "down"
    BY <1>2 DEF LoseMemory, Inv, TypeOK, CallTypeOK
  <2> QED
    BY <2>1 DEF IndexInv
<1>3. CASE Quiet
  BY <1>1, <1>3 DEF Quiet
<1>4. CASE GetGroup
  BY <1>1, <1>4 DEF GetGroup, disk, segment, running, history
<1>5. ASSUME NEW e, NEW rt, Transition(e, rt) PROVE IndexInv'
  BY <1>1, <1>5 DEF Transition
<1> QED
  BY <1>2, <1>3, <1>4, <1>5, StepShapes, RestartIndex, ProduceWrites, WriteIndex

\* The index has an offset that is some message's, and reads that message.
LEMMA PlacedRead ==
  ASSUME Inv, IndexInv, pc # "down", NEW id, NEW o, Placed(id, o)
  PROVE  o \in DOMAIN segIndex /\ Read(o) = id
<1>1. PICK p \in DOMAIN segFile : LastRecordOf(o, p) /\ segFile[p].id = id
  BY DEF Placed
<1>2. o = segFile[p].offset /\ o \in Nat /\ segNext \in Nat
  BY <1>1, SegmentTypes DEF LastRecordOf, Inv
<1>3. o \in DOMAIN segIndex
  <2>1. CASE restarts = 0
    BY <1>2, <2>1 DEF Placed, IndexInv
  <2>2. CASE restarts # 0
    <3>1. restarts > 0
      BY <2>2 DEF Inv, TypeOK, CallTypeOK
    <3> QED
      BY <1>2, <3>1 DEF IndexInv
  <2> QED
    BY <2>1, <2>2
<1>4. LastRecordOf(o, segIndex[o])
  BY <1>3 DEF IndexInv
<1>5. segIndex[o] = p
  BY <1>1, <1>4, SegmentTypes DEF LastRecordOf, Inv
<1> QED
  BY <1>1, <1>3, <1>5 DEF Read

\* And the other way round.
LEMMA IndexPlaced ==
  ASSUME Inv, IndexInv, pc # "down", NEW o \in DOMAIN segIndex
  PROVE  Placed(Read(o), o)
<1>1. LastRecordOf(o, segIndex[o])
  BY DEF IndexInv
<1>2. restarts = 0 => o < segNext
  BY SegmentTypes DEF IndexInv, Inv
<1> QED
  BY <1>1, <1>2 DEF Placed, Read, LastRecordOf

LEMMA MinOfNat ==
  ASSUME NEW S \in SUBSET Nat, S # {}
  PROVE  Min(S) \in S /\ \A x \in S : Min(S) <= x
<1>1. PICK m \in S : \A y \in S : ~ (<<y, m>> \in OpToRel(<, Nat))
  BY NatLessThanWellFounded, WFMin
<1>2. ASSUME NEW y \in S PROVE m <= y
  <2>1. ~(y < m) /\ y \in Nat /\ m \in Nat
    BY <1>1 DEF OpToRel
  <2> QED
    BY <2>1
<1> QED
  BY <1>2 DEF Min

\* So Consume delivers a message of the table that is READY, on its own
\* table entry.
LEMMA DeliversReady ==
  ASSUME Inv, IndexInv, PlacedInv, pc # "down", NEW e, NEW rt, Delivers(e, rt)
  PROVE  e.id \in DOMAIN runtime /\ rt = runtime /\ runtime[e.id].state = "ready"
<1>1. ReadyOffsets \in SUBSET Nat
  BY DEF ReadyOffsets, Inv, TypeOK, GroupTypeOK, MessageRuntime
<1>2. FrontReady \in ReadyOffsets
  BY <1>1, MinOfNat DEF FrontReady, Delivers
<1>3. PICK id \in DOMAIN runtime :
         runtime[id].state = "ready" /\ FrontReady = runtime[id].offset
  BY <1>2 DEF ReadyOffsets
<1>4. Read(FrontReady) = id
  BY <1>3, PlacedRead DEF PlacedInv
<1> QED
  BY <1>3, <1>4 DEF Delivers

LEMMA TransitionOnTable ==
  ASSUME Inv, IndexInv, PlacedInv, NEW e, NEW rt, Transition(e, rt)
  PROVE  rt = runtime /\ e.id \in DOMAIN runtime
BY DeliversReady DEF Transition, Ends

LEMMA WriteKeepsPlaced ==
  ASSUME Inv, NEW id, WritesAtEnd(id), NEW k, NEW o, Placed(k, o)
  PROVE  Placed(k, o)'
<1>1. PICK p \in DOMAIN segFile : LastRecordOf(o, p) /\ segFile[p].id = k
  BY DEF Placed
<1>2. o \in Nat /\ segNext \in Nat /\ o < segNext
  BY <1>1, SegmentTypes DEF LastRecordOf, Inv, Placed, WritesAtEnd
<1>3. LastRecordOf(o, p)' /\ segFile'[p] = segFile[p] /\ p \in DOMAIN segFile'
  BY <1>1, <1>2, WriteKeepsLast
<1>4. o < segNext'
  BY <1>2 DEF WritesAtEnd
<1> QED
  BY <1>1, <1>3, <1>4 DEF Placed

\* A step that writes no event and no snapshot keeps what the group knows
\* if the offsets stay where they are.
LEMMA SameKnowledge ==
  ASSUME PlacedInv, UNCHANGED <<eventLog, stateFile>>,
         \/ UNCHANGED <<runtime, loaded>>
         \/ runtime' = EmptyFn /\ ~loaded',
         \A p \in DOMAIN segFile : p \in DOMAIN segFile' /\ segFile'[p] = segFile[p],
         \A k, o : Placed(k, o) => Placed(k, o)'
  PROVE  PlacedInv'
<1>1. ASSUME NEW id \in DOMAIN stateFile'.runtime
      PROVE  Placed(id, stateFile.runtime[id].offset)'
  <2>1. PICK o : o = stateFile.runtime[id].offset
    OBVIOUS
  <2>2. Placed(id, o)'
    BY <1>1, <2>1 DEF PlacedInv
  <2> QED
    BY <2>1, <2>2 DEF Placed
<1>2. ASSUME NEW id \in DOMAIN runtime' PROVE Placed(id, runtime[id].offset)'
  <2>1. id \in DOMAIN runtime /\ runtime' = runtime
    BY <1>2, EmptyDomain
  <2>2. PICK o : o = runtime[id].offset
    OBVIOUS
  <2>3. Placed(id, o)'
    BY <2>1, <2>2 DEF PlacedInv
  <2> QED
    BY <2>1, <2>2, <2>3 DEF Placed
<1>3. \A i \in DOMAIN eventLog' :
         \E p \in DOMAIN segFile' : Placed(eventLog[i].id, segFile[p].offset)'
  <2> SUFFICES ASSUME NEW i \in DOMAIN eventLog
               PROVE  \E p \in DOMAIN segFile' : Placed(eventLog[i].id, segFile[p].offset)'
    OBVIOUS
  <2>1. PICK p \in DOMAIN segFile : Placed(eventLog[i].id, segFile[p].offset)
    BY DEF PlacedInv
  <2>2. PICK k, o : k = eventLog[i].id /\ o = segFile[p].offset
    OBVIOUS
  <2>3. Placed(k, o)'
    BY <2>1, <2>2
  <2> QED
    BY <2>2, <2>3 DEF Placed
<1>4. /\ loaded' => \A i \in DOMAIN eventLog' : eventLog'[i].id \in DOMAIN runtime'
      /\ ~loaded' => DOMAIN runtime' = {}
  BY EmptyDomain DEF PlacedInv
<1> QED
  BY <1>1, <1>2, <1>3, <1>4 DEF PlacedInv

LEMMA TransitionPlaced ==
  ASSUME Inv, IndexInv, PlacedInv, NEW e, NEW rt, Transition(e, rt)
  PROVE  PlacedInv'
<1>1. rt = runtime /\ e.id \in DOMAIN runtime /\ e \in Event /\ eventLog \in Seq(Event)
  BY TransitionOnTable DEF Transition, Inv, TypeOK, DiskTypeOK
<1>2. UNCHANGED <<segFile, segNext, restarts>> /\ loaded /\ loaded'
  BY DEF Transition
<1>3. /\ DOMAIN runtime' = DOMAIN runtime
      /\ \A id \in DOMAIN runtime : runtime'[id].offset = runtime[id].offset
  BY <1>1 DEF Transition, Skipped, Logged, Applied, Runtime
<1>4. \A k, o : Placed(k, o) <=> Placed(k, o)'
  BY <1>2 DEF Placed, LastRecordOf
<1>5. ASSUME NEW id \in DOMAIN runtime' PROVE Placed(id, runtime[id].offset)'
  <2>1. PICK o : o = runtime[id].offset
    OBVIOUS
  <2>2. Placed(id, o)'
    BY <1>3, <1>4, <1>5, <2>1 DEF PlacedInv
  <2> QED
    BY <1>3, <1>5, <2>1, <2>2 DEF Placed
<1>6. ASSUME NEW id \in DOMAIN stateFile'.runtime
      PROVE  Placed(id, stateFile.runtime[id].offset)'
  <2>1. CASE stateFile' = [next_sequence |-> nextSeq', runtime |-> runtime']
    <3>1. stateFile'.runtime = runtime'
      BY <2>1
    <3> QED
      BY <1>5, <1>6, <3>1 DEF Placed
  <2>2. CASE stateFile' = stateFile
    <3>1. PICK o : o = stateFile.runtime[id].offset
      OBVIOUS
    <3>2. Placed(id, o)'
      BY <1>4, <1>6, <2>2, <3>1 DEF PlacedInv
    <3> QED
      BY <2>2, <3>1, <3>2 DEF Placed
  <2> QED
    BY <2>1, <2>2 DEF Transition
<1>7. ASSUME NEW i \in DOMAIN eventLog'
      PROVE  eventLog'[i].id \in DOMAIN runtime
  <2>1. CASE eventLog' = eventLog
    BY <1>2, <1>7, <2>1 DEF PlacedInv
  <2>2. CASE eventLog' = Append(eventLog, e)
    <3>1. /\ DOMAIN eventLog' = DOMAIN eventLog \cup {Len(eventLog) + 1}
          /\ \A j \in DOMAIN eventLog : eventLog'[j] = eventLog[j]
          /\ eventLog'[Len(eventLog) + 1] = e
      BY <1>1, <2>2, AppendEvents
    <3> QED
      BY <1>1, <1>2, <1>7, <3>1 DEF PlacedInv
  <2> QED
    BY <2>1, <2>2 DEF Transition, Skipped, Logged, Applied
<1>8. ASSUME NEW i \in DOMAIN eventLog'
      PROVE  \E p \in DOMAIN segFile' : Placed(eventLog[i].id, segFile[p].offset)'
  <2>1. PICK k : k = eventLog'[i].id
    OBVIOUS
  <2>2. PICK o : o = runtime[k].offset
    OBVIOUS
  <2>3. Placed(k, o)
    BY <1>7, <1>8, <2>1, <2>2 DEF PlacedInv
  <2>4. PICK p \in DOMAIN segFile : segFile[p].offset = o
    BY <2>3 DEF Placed, LastRecordOf
  <2>5. Placed(k, o)'
    BY <1>4, <2>3
  <2> QED
    BY <1>2, <2>1, <2>4, <2>5 DEF Placed
<1> QED
  BY <1>2, <1>3, <1>5, <1>6, <1>7, <1>8 DEF PlacedInv

\* Recovery: a known message has a record at the offset it is given, and a
\* message that has an event is known.
LEMMA GetGroupPlaced ==
  ASSUME Inv, IndexInv, PlacedInv, GetGroup
  PROVE  PlacedInv'
<1>1. PICK at \in [KnownIds -> DOMAIN segIndex] :
         /\ \A id \in KnownIds : Read(at[id]) = id
         /\ runtime' = [id \in KnownIds |-> RecoveredRuntime(eventLog, id, at[id])]
  BY DEF GetGroup
<1>2. UNCHANGED <<eventLog, stateFile, segFile, segNext, restarts>> /\ pc # "down" /\ loaded'
  BY DEF GetGroup, disk, segment, history
<1>3. \A k, o : Placed(k, o) <=> Placed(k, o)'
  BY <1>2 DEF Placed, LastRecordOf
<1>4. ASSUME NEW id \in KnownIds
      PROVE  Placed(id, RecoveredRuntime(eventLog, id, at[id]).offset)
  <2> DEFINE restored == IF id \in DOMAIN stateFile.runtime THEN stateFile.runtime[id]
                         ELSE [state |-> "ready", offset |-> at[id], retry_count |-> 0,
                               available_after |-> 0, sequence |-> 0]
             r == Replayed(eventLog, id, at[id])
  <2>1. Placed(id, restored.offset)
    <3>1. CASE id \in DOMAIN stateFile.runtime
      BY <3>1 DEF PlacedInv
    <3>2. CASE id \notin DOMAIN stateFile.runtime
      <4>1. Placed(Read(at[id]), at[id])
        BY <1>2, IndexPlaced
      <4> QED
        BY <1>1, <3>2, <4>1
    <3> QED
      BY <3>1, <3>2
  <2>2. r.offset = restored.offset
    BY DEF Replayed, Runtime
  <2>3. RecoveredRuntime(eventLog, id, at[id]).offset = r.offset
    <3>1. at[id] \in Nat /\ id \in Ids
      BY KnownIdsType DEF Inv, TypeOK, SegmentTypeOK
    <3>2. RecoveredRuntime(eventLog, id, at[id]) =
             IF r.state = "inflight"
             THEN [r EXCEPT !.state = "ready", !.available_after = clock] ELSE r
      BY DEF RecoveredRuntime
    <3> HIDE DEF r
    <3>3. [r EXCEPT !.state = "ready", !.available_after = clock].offset = r.offset
      OBVIOUS
    <3> QED
      BY <3>2, <3>3
  <2> HIDE DEF restored, r
  <2> QED
    BY <2>1, <2>2, <2>3
<1>5. ASSUME NEW id \in DOMAIN runtime' PROVE Placed(id, runtime[id].offset)'
  <2>1. id \in KnownIds /\ runtime'[id] = RecoveredRuntime(eventLog, id, at[id])
    BY <1>1, <1>5
  <2>2. PICK o : o = runtime'[id].offset
    OBVIOUS
  <2>3. Placed(id, o)'
    BY <1>3, <1>4, <2>1, <2>2
  <2> QED
    BY <2>2, <2>3 DEF Placed
<1>6. ASSUME NEW id \in DOMAIN stateFile'.runtime
      PROVE  Placed(id, stateFile.runtime[id].offset)'
  <2>1. PICK o : o = stateFile.runtime[id].offset
    OBVIOUS
  <2>2. Placed(id, o)'
    BY <1>2, <1>3, <1>6, <2>1 DEF PlacedInv
  <2> QED
    BY <1>2, <2>1, <2>2 DEF Placed
<1>7. ASSUME NEW i \in DOMAIN eventLog'
      PROVE  /\ \E p \in DOMAIN segFile' : Placed(eventLog[i].id, segFile[p].offset)'
             /\ eventLog'[i].id \in DOMAIN runtime'
  <2>1. PICK p \in DOMAIN segFile : Placed(eventLog[i].id, segFile[p].offset)
    BY <1>2, <1>7 DEF PlacedInv
  <2>2. PICK k, o : k = eventLog[i].id /\ o = segFile[p].offset
    OBVIOUS
  <2>3. Placed(k, o)' /\ Placed(k, o)
    BY <1>3, <2>1, <2>2
  <2>4. o \in DOMAIN segIndex /\ Read(o) = k
    BY <1>2, <2>3, PlacedRead
  <2>5. k \in KnownIds
    BY <2>4 DEF KnownIds
  <2> QED
    BY <1>1, <1>2, <2>2, <2>3, <2>5 DEF Placed
<1> QED
  BY <1>2, <1>5, <1>6, <1>7 DEF PlacedInv

\* An offset that is a message's stays that message's.
LEMMA NextKeepsPlaced ==
  ASSUME ~AllowPowerLoss, ~ProduceAfterReopen, Inv, IndexInv, [Next]_vars,
         NEW k, NEW o, Placed(k, o)
  PROVE  Placed(k, o)'
<1>1. CASE UNCHANGED <<segFile, segNext, restarts>>
  BY <1>1 DEF Placed, LastRecordOf
<1>2. CASE Restart
  BY <1>2 DEF Restart, disk, history, Placed, LastRecordOf, IndexInv
<1>3. CASE LoseMemory
  <2>1. UNCHANGED segFile /\ restarts' # 0
    BY <1>3 DEF LoseMemory, Inv, TypeOK, CallTypeOK
  <2> QED
    BY <2>1 DEF Placed, LastRecordOf
<1>4. ASSUME NEW id, NEW fp, Produce(id, fp) PROVE Placed(k, o)'
  BY <1>4, ProduceWrites, WriteKeepsPlaced
<1>5. ASSUME NEW e, NEW rt, Transition(e, rt) PROVE Placed(k, o)'
  BY <1>1, <1>5 DEF Transition
<1>6. CASE Quiet \/ GetGroup
  BY <1>1, <1>6 DEF Quiet, GetGroup, disk, segment, history
<1> QED
  BY <1>2, <1>3, <1>4, <1>5, <1>6, StepShapes

LEMMA NextPlaced ==
  ASSUME ~AllowPowerLoss, ~ProduceAfterReopen, Inv, IndexInv, PlacedInv, [Next]_vars
  PROVE  PlacedInv'
<1>1. \A k, o : Placed(k, o) => Placed(k, o)'
  BY NextKeepsPlaced
<1>2. CASE Quiet
  BY <1>1, <1>2, SameKnowledge DEF Quiet
<1>3. CASE Restart
  BY <1>1, <1>3, SameKnowledge DEF Restart, disk, group
<1>4. CASE LoseMemory /\ UNCHANGED eventLog
  BY <1>1, <1>4, SameKnowledge DEF LoseMemory
<1>5. ASSUME NEW id, NEW fp, Produce(id, fp) PROVE PlacedInv'
  <2>1. UNCHANGED <<eventLog, stateFile, runtime, loaded>>
    BY <1>5 DEF Produce, group
  <2>2. \A p \in DOMAIN segFile : p \in DOMAIN segFile' /\ segFile'[p] = segFile[p]
    BY <1>5, ProduceWrites DEF WritesAtEnd
  <2> QED
    BY <1>1, <2>1, <2>2, SameKnowledge
<1> QED
  BY <1>2, <1>3, <1>4, <1>5, StepShapes, GetGroupPlaced, TransitionPlaced

-----------------------------------------------------------------------------
(* The life of a message, in the table and in the events file.             *)

\* While the group is not loaded, the events file alone decides.
LEMMA ReplayedPhase ==
  ASSUME LogFirstInv, NEW id
  PROVE  LET r == Replayed(eventLog, id, 0)
         IN  /\ LoggedPhase(id) = IF r.state = "inflight" THEN "interrupted" ELSE r.state
             /\ LoggedRetries(id) = r.retry_count
<1>1. CASE EventsOf(eventLog, id) = {}
  <2>1. /\ Replayed(eventLog, id, 0).state = "ready"
        /\ Replayed(eventLog, id, 0).retry_count = 0
    BY <1>1 DEF Replayed, LogFirstInv, FromLog
  <2> QED
    BY <1>1, <2>1 DEF LoggedPhase, LoggedRetries
<1>2. CASE EventsOf(eventLog, id) # {}
  <2>1. /\ Replayed(eventLog, id, 0).state = LastEvent(eventLog, id).state
        /\ Replayed(eventLog, id, 0).retry_count = LastEvent(eventLog, id).retry_count
    BY <1>2 DEF Replayed, Runtime
  <2> QED
    BY <1>2, <2>1 DEF LoggedPhase, LoggedRetries
<1> QED
  BY <1>1, <1>2

LEMMA UnloadedPhase ==
  ASSUME LogFirstInv, ~loaded, NEW id
  PROVE  Phase(id) = LoggedPhase(id) /\ Retries(id) = LoggedRetries(id)
BY ReplayedPhase DEF Phase, Retries

\* Recovery restores just that, when it knows every message with an event.
LEMMA GetGroupPhase ==
  ASSUME Inv, LogFirstInv, GetGroup, NEW id,
         EventsOf(eventLog, id) # {} => id \in DOMAIN runtime'
  PROVE  /\ Phase(id)' = LoggedPhase(id) /\ Retries(id)' = LoggedRetries(id)
         /\ LoggedPhase(id)' = LoggedPhase(id) /\ LoggedRetries(id)' = LoggedRetries(id)
<1>1. PICK at \in [KnownIds -> DOMAIN segIndex] :
         runtime' = [k \in KnownIds |-> RecoveredRuntime(eventLog, k, at[k])]
  BY DEF GetGroup
<1>2. eventLog' = eventLog /\ loaded' /\ inflight' = RecoveredInflight(eventLog)
  BY DEF GetGroup, disk
<1>3. DOMAIN inflight' = {k \in KnownIds : EventsOf(eventLog, k) # {}
                                           /\ LastEvent(eventLog, k).state = "inflight"}
  BY <1>2 DEF RecoveredInflight
<1>4. LoggedPhase(id)' = LoggedPhase(id) /\ LoggedRetries(id)' = LoggedRetries(id)
  BY <1>2 DEF LoggedPhase, LoggedRetries
<1>5. CASE id \notin DOMAIN runtime'
  BY <1>2, <1>4, <1>5 DEF Phase, Retries, LoggedPhase, LoggedRetries
<1>6. CASE id \in DOMAIN runtime'
  <2> DEFINE r == Replayed(eventLog, id, at[id])
  <2>1. /\ id \in KnownIds
        /\ runtime'[id] = IF r.state = "inflight"
                          THEN [r EXCEPT !.state = "ready", !.available_after = clock] ELSE r
    BY <1>1, <1>6 DEF RecoveredRuntime
  <2>2. CASE EventsOf(eventLog, id) = {}
    <3>1. r.state = "ready" /\ r.retry_count = 0
      BY <2>2 DEF Replayed, LogFirstInv, FromLog
    <3>2. runtime'[id].state = "ready" /\ runtime'[id].retry_count = 0 /\ id \notin DOMAIN inflight'
      BY <1>3, <2>1, <2>2, <3>1
    <3> QED
      BY <1>2, <1>4, <1>6, <2>2, <3>2 DEF Phase, Retries, LoggedPhase, LoggedRetries
  <2>3. CASE EventsOf(eventLog, id) # {}
    <3> DEFINE l == LastEvent(eventLog, id)
    <3>1. /\ r.state = l.state /\ r.retry_count = l.retry_count
          /\ DOMAIN r = {"state", "offset", "retry_count", "available_after", "sequence"}
      BY <2>3 DEF Replayed, Runtime
    <3>2. id \in DOMAIN inflight' <=> l.state = "inflight"
      BY <1>3, <2>1, <2>3
    <3>3. LoggedPhase(id) = (IF l.state = "inflight" THEN "interrupted" ELSE l.state)
          /\ LoggedRetries(id) = l.retry_count
      BY <2>3 DEF LoggedPhase, LoggedRetries
    <3> HIDE DEF r, l
    <3>4. /\ runtime'[id].retry_count = l.retry_count
          /\ runtime'[id].state = IF l.state = "inflight" THEN "ready" ELSE l.state
      BY <2>1, <3>1
    <3>5. Retries(id)' = runtime'[id].retry_count
      BY <1>2, <1>6 DEF Retries
    <3>6. Phase(id)' = IF runtime'[id].state = "ready" /\ id \in DOMAIN inflight'
                       THEN "interrupted" ELSE runtime'[id].state
      BY <1>2, <1>6 DEF Phase
    <3> QED
      BY <1>4, <3>2, <3>3, <3>4, <3>5, <3>6
  <2> QED
    BY <2>2, <2>3
<1> QED
  BY <1>5, <1>6

\* A step that leaves tables and files alone leaves every life alone.
LEMMA SameLife ==
  ASSUME UNCHANGED <<loaded, runtime, inflight, eventLog, stateFile>>, NEW id
  PROVE  /\ Phase(id)' = Phase(id) /\ Retries(id)' = Retries(id)
         /\ LoggedPhase(id)' = LoggedPhase(id) /\ LoggedRetries(id)' = LoggedRetries(id)
BY DEF Phase, Retries, LoggedPhase, LoggedRetries, Replayed

\* The retries of a message of the table, or of one with events, are counted.
LEMMA RetriesNat ==
  ASSUME Inv, NEW id
  PROVE  /\ loaded => Retries(id) \in Nat
         /\ LoggedRetries(id) \in Nat
<1>1. loaded => Retries(id) \in Nat
  BY DEF Retries, Inv, TypeOK, GroupTypeOK, MessageRuntime
<1>2. CASE EventsOf(eventLog, id) # {}
  <2>1. LastEvent(eventLog, id) \in Event
    BY <1>2, LastEventProperties DEF Inv, TypeOK, DiskTypeOK
  <2> QED
    BY <1>1, <1>2, <2>1 DEF LoggedRetries, Event
<1> QED
  BY <1>1, <1>2 DEF LoggedRetries

\* A step of a message's life keeps it within its budget of retries.
LEMMA StepBudget ==
  ASSUME NEW p, NEW q, NEW r \in Nat, NEW s, LifeStep(p, r, q, s),
         r <= MaxRetryCount + 1, p # "dead" => r <= MaxRetryCount
  PROVE  s <= MaxRetryCount + 1 /\ (q # "dead" => s <= MaxRetryCount)
BY LimitsAssumption DEF LifeStep, Lifecycle!Leased

\* The event of a transition is one step on from where its message is, for
\* the table and for a recovery that finds the event last in the file.
LEMMA TransitionLife ==
  ASSUME Inv, LeaseInv, IndexInv, PlacedInv, RecoveryInv, NEW e, NEW rt, Transition(e, rt)
  PROVE  LET file == IF e.state = "inflight" THEN "interrupted" ELSE e.state
         IN  /\ LifeStep(Phase(e.id), Retries(e.id), e.state, e.retry_count)
             /\ LifeStep(Phase(e.id), Retries(e.id), file, e.retry_count)
             /\ LifeStep(e.state, e.retry_count, file, e.retry_count)
             /\ Phase(e.id) = "inflight" => e.state # "inflight"
<1> DEFINE P == Phase(e.id)
           R == Retries(e.id)
<1>1. /\ rt = runtime /\ e.id \in DOMAIN runtime /\ e.id \in Ids
      /\ loaded /\ runtime[e.id].retry_count \in Nat
  BY TransitionOnTable DEF Transition, Inv, TypeOK, GroupTypeOK, MessageRuntime
<1>2. R = runtime[e.id].retry_count /\ R \in Nat
  BY <1>1 DEF Retries
<1>3. P = IF runtime[e.id].state = "ready" /\ e.id \in DOMAIN inflight
          THEN "interrupted" ELSE runtime[e.id].state
  BY <1>1 DEF Phase
<1>4. P # "dead" => R <= MaxRetryCount
  BY <1>1 DEF RecoveryInv
<1> HIDE DEF P, R
<1>5. CASE Delivers(e, rt)
  <2>1. runtime[e.id].state = "ready"
    BY <1>5, DeliversReady DEF Transition
  <2>2. P \in {"ready", "interrupted"} /\ e.state = "inflight" /\ e.retry_count = R
    BY <1>1, <1>2, <1>3, <1>5, <2>1 DEF Delivers
  <2> QED
    BY <2>2 DEF LifeStep, P, R
<1>6. CASE Ends(e, rt)
  <2>1. P \in {"inflight", "interrupted"}
    BY <1>1, <1>3, <1>6 DEF Ends, LeaseInv, LeaseMatchesState
  <2>2. \/ e.state \in {"acked", "dead"} /\ e.retry_count = R
        \/ e.retry_count = R + 1 /\ R + 1 > MaxRetryCount /\ e.state = "dead"
        \/ e.retry_count = R + 1 /\ ~(R + 1 > MaxRetryCount) /\ e.state = "ready"
    BY <1>2, <1>6 DEF Ends
  <2>3. R <= MaxRetryCount /\ MaxRetryCount \in Nat
    BY <1>4, <2>1, LimitsAssumption
  <2>4. \/ e.state \in {"acked", "dead"} /\ e.retry_count = R
        \/ e.retry_count = MaxRetryCount + 1 /\ R = MaxRetryCount /\ e.state = "dead"
        \/ e.retry_count = R + 1 /\ R < MaxRetryCount /\ e.state = "ready"
    BY <1>2, <2>2, <2>3
  <2> QED
    BY <2>1, <2>4 DEF LifeStep, Lifecycle!Leased, P, R
<1> QED
  BY <1>5, <1>6 DEF Transition

\* Where a message is, in the table and in the file, after a transition.
LEMMA TransitionPhases ==
  ASSUME Inv, NEW e, Transition(e, runtime), NEW id
  PROVE  LET file == IF e.state = "inflight" THEN "interrupted" ELSE e.state
             SameTable == Phase(id)' = Phase(id) /\ Retries(id)' = Retries(id)
             SameFile == /\ LoggedPhase(id)' = LoggedPhase(id)
                         /\ LoggedRetries(id)' = LoggedRetries(id)
             InTable == Phase(id)' = e.state /\ Retries(id)' = e.retry_count
             InFile == LoggedPhase(id)' = file /\ LoggedRetries(id)' = e.retry_count
         IN  \/ SameTable /\ SameFile
             \/ id = e.id /\ SameTable /\ InFile
             \/ id = e.id /\ InTable /\ InFile
<1>1. /\ e \in Event /\ eventLog \in Seq(Event) /\ loaded /\ loaded'
      /\ e.id \in DOMAIN runtime
  BY DEF Transition, Inv, TypeOK, DiskTypeOK
<1>2. CASE Skipped(runtime)
  BY <1>1, <1>2 DEF Skipped, Phase, Retries, LoggedPhase, LoggedRetries
<1>3. ASSUME eventLog' = Append(eventLog, e)
      PROVE  /\ LoggedPhase(e.id)' = IF e.state = "inflight" THEN "interrupted" ELSE e.state
             /\ LoggedRetries(e.id)' = e.retry_count
             /\ id # e.id => /\ LoggedPhase(id)' = LoggedPhase(id)
                             /\ LoggedRetries(id)' = LoggedRetries(id)
  <2>1. /\ EventsOf(eventLog', e.id) # {}
        /\ LastEvent(eventLog', e.id) = e
        /\ id # e.id =>
              /\ EventsOf(eventLog', id) = EventsOf(eventLog, id)
              /\ EventsOf(eventLog, id) # {} =>
                    LastEvent(eventLog', id) = LastEvent(eventLog, id)
    BY <1>1, <1>3, AppendEvents
  <2>2. PICK k : k = e.id
    OBVIOUS
  <2> QED
    BY <2>1, <2>2 DEF LoggedPhase, LoggedRetries
<1>4. CASE Logged(e, runtime)
  <2>1. Phase(id)' = Phase(id) /\ Retries(id)' = Retries(id)
    BY <1>1, <1>4 DEF Logged, Phase, Retries
  <2> QED
    BY <1>3, <1>4, <2>1 DEF Logged
<1>5. CASE Applied(e, runtime)
  <2>1. /\ DOMAIN runtime' = DOMAIN runtime
        /\ runtime'[e.id].state = e.state /\ runtime'[e.id].retry_count = e.retry_count
        /\ id \in DOMAIN runtime /\ id # e.id => runtime'[id] = runtime[id]
    BY <1>1, <1>5 DEF Applied, Runtime
  <2>2. /\ id # e.id => (id \in DOMAIN inflight' <=> id \in DOMAIN inflight)
        /\ e.state # "inflight" => e.id \notin DOMAIN inflight'
    BY <1>5 DEF Applied, Put, Drop
  <2>3. CASE id = e.id
    <3>1. Phase(id)' = e.state /\ Retries(id)' = e.retry_count
      BY <1>1, <2>1, <2>2, <2>3 DEF Phase, Retries
    <3> QED
      BY <1>3, <1>5, <2>3, <3>1 DEF Applied
  <2>4. CASE id # e.id
    <3>1. Phase(id)' = Phase(id) /\ Retries(id)' = Retries(id)
      BY <1>1, <2>1, <2>2, <2>4 DEF Phase, Retries
    <3> QED
      BY <1>3, <1>5, <2>4, <3>1 DEF Applied
  <2> QED
    BY <2>3, <2>4
<1> QED
  BY <1>2, <1>4, <1>5 DEF Transition

\* The step of one message's life that a step of the engine is.
LifeStepOf(id) == LifeStep(Phase(id), Retries(id), Phase(id)', Retries(id)')

\* The invariants that a message's life rests on.
LifeInv ==
    /\ Inv /\ LeaseInv /\ LogFirstInv /\ IndexInv /\ PlacedInv /\ RecoveryInv

LEMMA TransitionRecovery ==
  ASSUME LifeInv, NEW e, NEW rt, Transition(e, rt)
  PROVE  /\ RecoveryInv'
         /\ \A id \in Ids : LifeStepOf(id) /\ ~(Phase(id) = "inflight" /\ Phase(id)' = "interrupted")
<1> DEFINE file == IF e.state = "inflight" THEN "interrupted" ELSE e.state
<1>1. rt = runtime /\ loaded /\ loaded'
  BY TransitionOnTable DEF LifeInv, Transition
<1>2. /\ LifeStep(Phase(e.id), Retries(e.id), e.state, e.retry_count)
      /\ LifeStep(Phase(e.id), Retries(e.id), file, e.retry_count)
      /\ LifeStep(e.state, e.retry_count, file, e.retry_count)
      /\ e.state # "interrupted"
  BY TransitionLife DEF LifeInv, Transition, Event, States
<1> HIDE DEF file
<1>3. ASSUME NEW id \in Ids
      PROVE  /\ LifeStepOf(id) /\ ~(Phase(id) = "inflight" /\ Phase(id)' = "interrupted")
             /\ LifeStep(Phase(id), Retries(id), LoggedPhase(id), LoggedRetries(id))'
  <2>1. LifeStep(Phase(id), Retries(id), LoggedPhase(id), LoggedRetries(id))
    BY <1>1 DEF LifeInv, RecoveryInv
  <2>2. \/ /\ Phase(id)' = Phase(id) /\ Retries(id)' = Retries(id)
           /\ LoggedPhase(id)' = LoggedPhase(id) /\ LoggedRetries(id)' = LoggedRetries(id)
        \/ /\ id = e.id
           /\ Phase(id)' = Phase(id) /\ Retries(id)' = Retries(id)
           /\ LoggedPhase(id)' = file /\ LoggedRetries(id)' = e.retry_count
        \/ /\ id = e.id
           /\ Phase(id)' = e.state /\ Retries(id)' = e.retry_count
           /\ LoggedPhase(id)' = file /\ LoggedRetries(id)' = e.retry_count
    BY <1>1, TransitionPhases DEF LifeInv, file
  <2>3. \A p, r : LifeStep(p, r, p, r)
    BY DEF LifeStep
  <2>4. LifeStep(Phase(id)', Retries(id)', LoggedPhase(id)', LoggedRetries(id)')
    BY <1>2, <2>1, <2>2
  <2>5. LifeStepOf(id)
    BY <1>2, <2>2, <2>3 DEF LifeStepOf
  <2>6. LifeStep(Phase(id), Retries(id), LoggedPhase(id), LoggedRetries(id))'
    BY <2>4 DEF LifeStep
  <2> QED
    BY <1>2, <2>2, <2>5, <2>6
<1>4. ASSUME NEW id \in Ids
      PROVE  /\ Retries(id)' <= MaxRetryCount + 1
             /\ Phase(id)' # "dead" => Retries(id)' <= MaxRetryCount
  <2>1. /\ Retries(id) \in Nat /\ Retries(id) <= MaxRetryCount + 1
        /\ Phase(id) # "dead" => Retries(id) <= MaxRetryCount
    BY <1>1, RetriesNat DEF LifeInv, RecoveryInv
  <2> QED
    BY <1>3, <2>1, StepBudget DEF LifeStepOf
<1> QED
  BY <1>3, <1>4 DEF RecoveryInv

\* What recovery restores after a crash was one step away before it.
LEMMA LoseMemoryRecovery ==
  ASSUME LifeInv, LoseMemory, UNCHANGED eventLog
  PROVE  RecoveryInv' /\ \A id \in Ids : LifeStepOf(id)
<1>1. ~loaded'
  BY DEF LoseMemory
<1>2. ASSUME NEW id \in Ids
      PROVE  LifeStepOf(id)
             /\ Retries(id)' <= MaxRetryCount + 1
             /\ (Phase(id)' # "dead" => Retries(id)' <= MaxRetryCount)
  <2>1. Phase(id)' = LoggedPhase(id)' /\ Retries(id)' = LoggedRetries(id)'
    <3>1. Replayed(eventLog, id, 0)' = Replayed(eventLog, id, 0)
      BY DEF LoseMemory, Replayed
    <3>2. LoggedPhase(id)' = LoggedPhase(id) /\ LoggedRetries(id)' = LoggedRetries(id)
      BY DEF LoggedPhase, LoggedRetries
    <3> QED
      BY <1>1, <3>1, <3>2, ReplayedPhase DEF LifeInv, Phase, Retries
  <2>2. LoggedPhase(id)' = LoggedPhase(id) /\ LoggedRetries(id)' = LoggedRetries(id)
    BY DEF LoggedPhase, LoggedRetries
  <2>3. LifeStep(Phase(id), Retries(id), LoggedPhase(id), LoggedRetries(id)) /\ Retries(id) \in Nat
    <3>1. CASE loaded
      BY <3>1, RetriesNat DEF LifeInv, RecoveryInv
    <3>2. CASE ~loaded
      BY <3>2, UnloadedPhase, RetriesNat DEF LifeInv, LifeStep
    <3> QED
      BY <3>1, <3>2
  <2>4. LifeStepOf(id)
    BY <2>1, <2>2, <2>3 DEF LifeStepOf
  <2>5. /\ Retries(id) <= MaxRetryCount + 1
        /\ Phase(id) # "dead" => Retries(id) <= MaxRetryCount
    BY DEF LifeInv, RecoveryInv
  <2> QED
    BY <2>3, <2>4, <2>5, StepBudget DEF LifeStepOf
<1> QED
  BY <1>1, <1>2 DEF RecoveryInv

\* Every step of the engine is at most one step of each message's life, and
\* only a crash interrupts a lease.
LEMMA NextRecovery ==
  ASSUME ~AllowPowerLoss, ~ProduceAfterReopen, LifeInv, [Next]_vars
  PROVE  /\ RecoveryInv'
         /\ \A id \in Ids : LifeStepOf(id)
         /\ \A id \in Ids : Phase(id) = "inflight" /\ Phase(id)' = "interrupted" => LoseMemory
<1>0. \A p, r : LifeStep(p, r, p, r)
  BY DEF LifeStep
<1>1. ASSUME UNCHANGED <<loaded, runtime, inflight, eventLog, stateFile>>
      PROVE  /\ RecoveryInv'
             /\ \A id \in Ids : LifeStepOf(id) /\ Phase(id)' = Phase(id)
  <2>1. \A id : /\ Phase(id)' = Phase(id) /\ Retries(id)' = Retries(id)
                /\ LoggedPhase(id)' = LoggedPhase(id) /\ LoggedRetries(id)' = LoggedRetries(id)
    BY <1>1, SameLife
  <2>2. \A id \in Ids : LifeStepOf(id)
    BY <1>0, <2>1 DEF LifeStepOf
  <2>3. RecoveryInv'
    BY <1>1, <2>1 DEF LifeInv, RecoveryInv, LifeStep
  <2> QED
    BY <2>1, <2>2, <2>3
<1>2. CASE Quiet
  BY <1>1, <1>2 DEF Quiet
<1>3. CASE Restart
  BY <1>1, <1>3 DEF Restart, disk, group
<1>4. ASSUME NEW id, NEW fp, Produce(id, fp)
      PROVE  UNCHANGED <<loaded, runtime, inflight, eventLog, stateFile>>
  BY <1>4 DEF Produce, group
<1>5. CASE GetGroup
  <2>1. PlacedInv' /\ loaded' /\ eventLog' = eventLog /\ ~loaded
    BY <1>5, GetGroupPlaced DEF LifeInv, GetGroup, disk
  <2>2. \A id : EventsOf(eventLog, id) # {} => id \in DOMAIN runtime'
    BY <2>1 DEF PlacedInv, EventsOf
  <2>3. \A id : /\ Phase(id)' = LoggedPhase(id) /\ Retries(id)' = LoggedRetries(id)
                /\ LoggedPhase(id)' = LoggedPhase(id) /\ LoggedRetries(id)' = LoggedRetries(id)
    BY <1>5, <2>2, GetGroupPhase DEF LifeInv
  <2>4. \A id : Phase(id) = LoggedPhase(id) /\ Retries(id) = LoggedRetries(id)
    BY <2>1, UnloadedPhase DEF LifeInv
  <2>5. \A id \in Ids : LifeStepOf(id) /\ Phase(id)' = Phase(id)
    BY <1>0, <2>3, <2>4 DEF LifeStepOf
  <2>6. RecoveryInv'
    BY <1>0, <2>3, <2>4 DEF LifeInv, RecoveryInv, LifeStep
  <2> QED
    BY <2>5, <2>6
<1> QED
  BY <1>1, <1>2, <1>3, <1>4, <1>5, StepShapes, LoseMemoryRecovery, TransitionRecovery DEF LifeInv

LEMMA LifeHolds ==
  ASSUME ~AllowPowerLoss, ~ProduceAfterReopen
  PROVE  Spec => []LifeInv
<1>1. Init => LifeInv
  <2> SUFFICES ASSUME Init PROVE LifeInv
    OBVIOUS
  <2>1. Inv /\ LeaseInv
    BY InitInv, EmptyDomain DEF Init, LeaseInv, LeaseMatchesState
  <2>2. LogFirstInv /\ PlacedInv
    BY EmptyDomain DEF Init, EmptyState, LogFirstInv, PlacedInv
  <2>3. IndexInv
    BY DEF Init, IndexInv
  <2>4. \A id : EventsOf(eventLog, id) = {}
    BY DEF Init, EventsOf
  <2>5. \A id : Phase(id) = "ready" /\ Retries(id) = 0
    BY <2>2, <2>4, UnloadedPhase DEF Init, LoggedPhase, LoggedRetries
  <2>6. RecoveryInv
    BY <2>5, LimitsAssumption DEF Init, RecoveryInv
  <2> QED
    BY <2>1, <2>2, <2>3, <2>6 DEF LifeInv
<1>2. LifeInv /\ [Next]_vars => LifeInv'
  BY NextInv, NextLease, NextLogFirst, NextIndex, NextPlaced, NextRecovery DEF LifeInv
<1> QED
  BY <1>1, <1>2, PTL DEF Spec

\* The engine implements the life cycle (docs/QUEUE_CONTRACT.md:16-24): with
\* any failpoints, and crashes between any two writes, every message goes
\* through one life, in which ACKED and DEAD are final.
THEOREM EngineIsLifecycle ==
  ASSUME ~AllowPowerLoss, ~ProduceAfterReopen
  PROVE  Spec => LifecycleSpec
<1> DEFINE phase == [id \in Ids |-> Phase(id)]
           retries == [id \in Ids |-> Retries(id)]
<1>1. Init => Lifecycle!Init
  <2> SUFFICES ASSUME Init PROVE Lifecycle!Init
    OBVIOUS
  <2>1. LogFirstInv
    BY EmptyDomain DEF Init, EmptyState, LogFirstInv
  <2>2. \A id : EventsOf(eventLog, id) = {}
    BY DEF Init, EventsOf
  <2>3. \A id : Phase(id) = "ready" /\ Retries(id) = 0
    BY <2>1, <2>2, UnloadedPhase DEF Init, LoggedPhase, LoggedRetries
  <2> QED
    BY <2>3 DEF Lifecycle!Init
<1>2. LifeInv /\ [Next]_vars => [Lifecycle!Next]_<<phase, retries>>
  <2> SUFFICES ASSUME LifeInv, [Next]_vars PROVE Lifecycle!Next
    OBVIOUS
  <2>1. \A id \in Ids : LifeStepOf(id)
    BY NextRecovery
  <2>2. ASSUME NEW id \in Ids
        PROVE  \/ Lifecycle!Stay(id) \/ Lifecycle!Deliver(id) \/ Lifecycle!Interrupt(id)
               \/ Lifecycle!Ack(id) \/ Lifecycle!Die(id) \/ Lifecycle!Retry(id)
    BY <2>1 DEF LifeStepOf, LifeStep, Lifecycle!Stay, Lifecycle!Deliver, Lifecycle!Interrupt,
       Lifecycle!Ack, Lifecycle!Die, Lifecycle!Retry, Lifecycle!Move, Lifecycle!SameAttempt,
       Lifecycle!Leased
  <2> QED
    BY <2>2 DEF Lifecycle!Next
<1> QED
  BY <1>1, <1>2, LifeHolds, PTL DEF Spec, LifecycleSpec, Lifecycle!Spec

\* No transition is about a message that is ACKED in the table.
LEMMA TransitionAck ==
  ASSUME LifeInv, AckDurable, NEW e, NEW rt, Transition(e, rt)
  PROVE  AckDurable'
<1>1. /\ rt = runtime /\ loaded /\ e \in Event /\ eventLog \in Seq(Event)
      /\ e.id \in DOMAIN runtime
  BY TransitionOnTable DEF LifeInv, Transition, Inv, TypeOK, DiskTypeOK
<1>2. runtime[e.id].state # "acked"
  BY DeliversReady DEF Transition, Ends, LifeInv, LeaseInv, LeaseMatchesState
<1>3. eventLog' = eventLog \/ eventLog' = Append(eventLog, e)
  BY DEF Transition, Skipped, Logged, Applied
<1>4. ASSUME NEW l \in acked
      PROVE  /\ EventsOf(eventLog', l.id) # {} /\ LastEvent(eventLog', l.id).state = "acked"
             /\ l.id \in DOMAIN runtime' /\ runtime'[l.id].state = "acked"
  <2>1. /\ EventsOf(eventLog, l.id) # {} /\ LastEvent(eventLog, l.id).state = "acked"
        /\ l.id \in DOMAIN runtime /\ runtime[l.id].state = "acked"
    BY <1>1 DEF AckDurable
  <2>2. l.id # e.id
    BY <1>2, <2>1
  <2>3. EventsOf(eventLog', l.id) # {} /\ LastEvent(eventLog', l.id).state = "acked"
    BY <1>1, <1>3, <2>1, <2>2, AppendEvents
  <2>4. l.id \in DOMAIN runtime' /\ runtime'[l.id] = runtime[l.id]
    BY <1>1, <2>1, <2>2 DEF Transition, Skipped, Logged, Applied
  <2> QED
    BY <2>1, <2>3, <2>4
<1>5. ASSUME NEW l \in acked', l \notin acked
      PROVE  /\ EventsOf(eventLog', l.id) # {} /\ LastEvent(eventLog', l.id).state = "acked"
             /\ l.id \in DOMAIN runtime' /\ runtime'[l.id].state = "acked"
  <2>1. Applied(e, rt) /\ e.state = "acked" /\ l.id = e.id
    BY <1>5 DEF Transition
  <2>2. EventsOf(eventLog', e.id) # {} /\ LastEvent(eventLog', e.id) = e
    BY <1>1, <2>1, AppendEvents DEF Applied
  <2>3. e.id \in DOMAIN runtime' /\ runtime'[e.id].state = e.state
    BY <1>1, <2>1 DEF Applied, Runtime
  <2> QED
    BY <2>1, <2>2, <2>3
<1> QED
  BY <1>4, <1>5 DEF AckDurable

LEMMA NextAck ==
  ASSUME ~AllowPowerLoss, ~ProduceAfterReopen, LifeInv, AckDurable, [Next]_vars
  PROVE  AckDurable'
<1>1. CASE Quiet \/ Restart
  BY <1>1 DEF Quiet, Restart, disk, group, history, AckDurable
<1>2. CASE LoseMemory /\ UNCHANGED eventLog
  BY <1>2 DEF LoseMemory, AckDurable
<1>3. ASSUME NEW id, NEW fp, Produce(id, fp) PROVE AckDurable'
  BY <1>3 DEF Produce, group, history, AckDurable
<1>4. CASE GetGroup
  <2>1. PlacedInv' /\ UNCHANGED <<eventLog, acked>> /\ loaded'
    BY <1>4, GetGroupPlaced DEF LifeInv, GetGroup, disk, history
  <2>2. ASSUME NEW l \in acked PROVE l.id \in DOMAIN runtime' /\ runtime'[l.id].state = "acked"
    <3>1. EventsOf(eventLog, l.id) # {} /\ LastEvent(eventLog, l.id).state = "acked"
      BY DEF AckDurable
    <3>2. l.id \in DOMAIN runtime'
      BY <2>1, <3>1 DEF PlacedInv, EventsOf
    <3>3. PICK id : id = l.id
      OBVIOUS
    <3>4. Phase(id)' = "acked"
      BY <1>4, <3>1, <3>2, <3>3, GetGroupPhase DEF LifeInv, LoggedPhase
    <3> QED
      BY <2>1, <3>2, <3>3, <3>4 DEF Phase
  <2> QED
    BY <2>1, <2>2 DEF AckDurable
<1> QED
  BY <1>1, <1>2, <1>3, <1>4, StepShapes, TransitionAck DEF LifeInv

\* A message whose Ack returned Ok is ACKED for good, in the events file and
\* in the table: no crash, failed snapshot, later timeout, stale wheel entry
\* or other consumer's call brings it back.
THEOREM AcksAreDurable ==
  ASSUME ~AllowPowerLoss, ~ProduceAfterReopen
  PROVE  Spec => []AckDurable
<1>1. Init => AckDurable
  BY DEF Init, AckDurable
<1>2. LifeInv /\ AckDurable /\ [Next]_vars => AckDurable'
  BY NextAck
<1> QED
  BY <1>1, <1>2, LifeHolds, PTL DEF Spec

-----------------------------------------------------------------------------
(* How often a message is delivered.                                       *)

\* A step of a message's life pays for the delivery it leaves behind; only
\* an interruption does not, and it comes with a restart.
LEMMA PaidStep ==
  ASSUME NEW p, NEW q, NEW r \in Nat, NEW s \in Nat, LifeStep(p, r, q, s),
         p # "dead" => r <= MaxRetryCount, NEW n \in Nat, NEW m \in Nat,
         m = n \/ m = n + 1, p = "inflight" /\ q = "interrupted" => m = n + 1,
         NEW c \in Nat, c <= r + n + OpenDelivery(p, r)
  PROVE  c <= s + m + OpenDelivery(q, s)
BY LimitsAssumption DEF LifeStep, Lifecycle!Leased, OpenDelivery

LEMMA NextDeliveries ==
  ASSUME ~AllowPowerLoss, ~ProduceAfterReopen, LifeInv, LifeInv', DeliveryInv, [Next]_vars
  PROVE  DeliveryInv'
<1> DEFINE Count(id) == Cardinality({l \in leases : l.id = id})
<1>1. /\ restarts \in Nat /\ restarts' \in Nat
      /\ restarts' = restarts \/ restarts' = restarts + 1
      /\ LoseMemory => restarts' = restarts + 1
  <2>1. restarts \in Nat /\ restarts' \in Nat
    BY DEF LifeInv, Inv, TypeOK, CallTypeOK
  <2>2. ASSUME NEW id, NEW fp, Produce(id, fp) PROVE restarts' = restarts
    BY <2>2 DEF Produce, history
  <2> QED
    BY <2>1, <2>2, StepShapes
       DEF LifeInv, Quiet, Restart, LoseMemory, GetGroup, Transition, history
<1>2. ASSUME NEW id \in Ids
      PROVE  /\ Retries(id) \in Nat /\ Retries(id)' \in Nat
             /\ IsFiniteSet({l \in leases : l.id = id}) /\ Count(id) \in Nat
             /\ Count(id) <= Retries(id)' + restarts' + OpenDelivery(Phase(id)', Retries(id)')
  <2>1. IsFiniteSet({l \in leases : l.id = id})
    BY FS_Subset DEF DeliveryInv
  <2>2. Count(id) \in Nat
    BY <2>1, FS_CardinalityType
  <2>3. Retries(id) \in Nat
    BY UnloadedPhase, RetriesNat DEF LifeInv
  <2>4. LifeStep(Phase(id), Retries(id), Phase(id)', Retries(id)')
    BY NextRecovery DEF LifeStepOf
  <2>5. Retries(id)' \in Nat
    BY <2>3, <2>4, LimitsAssumption DEF LifeStep
  <2>6. Phase(id) = "inflight" /\ Phase(id)' = "interrupted" => restarts' = restarts + 1
    BY <1>1, NextRecovery
  <2>7. /\ Phase(id) # "dead" => Retries(id) <= MaxRetryCount
        /\ Count(id) <= Retries(id) + restarts + OpenDelivery(Phase(id), Retries(id))
    BY DEF LifeInv, RecoveryInv, DeliveryInv
  <2> HIDE DEF Count
  <2>8. Count(id) <= Retries(id)' + restarts' + OpenDelivery(Phase(id)', Retries(id)')
    BY <1>1, <2>2, <2>3, <2>4, <2>5, <2>6, <2>7, PaidStep
  <2> QED
    BY <2>1, <2>2, <2>3, <2>5, <2>8 DEF Count
<1>3. CASE leases' = leases
  <2>1. ASSUME NEW id \in Ids
        PROVE  (Cardinality({l \in leases : l.id = id})
                 <= Retries(id) + restarts + OpenDelivery(Phase(id), Retries(id)))'
    BY <1>2, <1>3 DEF OpenDelivery
  <2> QED
    BY <1>3, <2>1 DEF DeliveryInv
<1>4. ASSUME NEW e, NEW rt, Transition(e, rt), leases' # leases
      PROVE  DeliveryInv'
  <2> DEFINE lease == [id |-> e.id, sequence |-> nextSeq]
  <2>1. /\ Applied(e, rt) /\ e.state = "inflight" /\ e \in Event
        /\ leases' = leases \cup {lease}
        /\ rt = runtime /\ restarts' = restarts /\ loaded /\ loaded'
        /\ e.id \in DOMAIN runtime /\ e.id \in Ids
    BY <1>4, TransitionOnTable DEF Transition, LifeInv, Inv, TypeOK, GroupTypeOK
  <2>2. /\ Phase(e.id) \in {"ready", "interrupted"}
        /\ Retries(e.id) = e.retry_count
    BY <1>4, <2>1, TransitionLife DEF LifeInv, LifeStep, Lifecycle!Leased
  <2>3. PICK k \in Ids : k = e.id
    BY <2>1
  <2>4. Phase(k)' = "inflight" /\ Retries(k)' = Retries(k)
    <3>1. /\ DOMAIN runtime' = DOMAIN runtime
          /\ runtime'[k].state = "inflight" /\ runtime'[k].retry_count = e.retry_count
      BY <2>1, <2>3 DEF Applied, Runtime
    <3> QED
      BY <2>1, <2>2, <2>3, <3>1 DEF Phase, Retries
  <2>5. IsFiniteSet(leases')
    BY <2>1, FS_AddElement DEF DeliveryInv
  <2>6. ASSUME NEW id \in Ids, id # k
        PROVE  (Cardinality({l \in leases : l.id = id})
                 <= Retries(id) + restarts + OpenDelivery(Phase(id), Retries(id)))'
    <3>1. {l \in leases' : l.id = id} = {l \in leases : l.id = id}
      BY <2>1, <2>3, <2>6
    <3> QED
      BY <1>2, <2>6, <3>1 DEF OpenDelivery
  <2>7. (Cardinality({l \in leases : l.id = k})
          <= Retries(k) + restarts + OpenDelivery(Phase(k), Retries(k)))'
    <3> DEFINE S == {l \in leases : l.id = k}
               n == Cardinality(S)
    <3>1. {l \in leases' : l.id = k} = S \cup {lease}
      BY <2>1, <2>3
    <3>2. IsFiniteSet(S) /\ n \in Nat /\ Retries(k) \in Nat
      BY <1>2
    <3>3. Cardinality(S \cup {lease}) <= n + 1
      <4>1. Cardinality(S \cup {lease}) = IF lease \in S THEN n ELSE n + 1
        BY <3>2, FS_AddElement, Zenon
      <4> HIDE DEF n, S, lease
      <4> QED
        BY <3>2, <4>1
    <3>4. Cardinality(S \cup {lease}) \in Nat
      BY <3>2, FS_AddElement, FS_CardinalityType
    <3>5. n <= Retries(k) + restarts + OpenDelivery(Phase(k), Retries(k))
      BY DEF DeliveryInv
    <3>6. OpenDelivery(Phase(k), Retries(k)) = 0 /\ OpenDelivery(Phase(k)', Retries(k)') = 1
      BY <2>2, <2>3, <2>4 DEF OpenDelivery
    <3>7. n + 1 <= Retries(k)' + restarts' + OpenDelivery(Phase(k)', Retries(k)')
      <4> HIDE DEF n, S
      <4> QED
        BY <1>1, <2>1, <2>4, <3>2, <3>5, <3>6
    <3>8. PICK c : c = Cardinality(S \cup {lease})
      OBVIOUS
    <3>9. c <= Retries(k)' + restarts' + OpenDelivery(Phase(k)', Retries(k)')
      <4> HIDE DEF n, S, lease
      <4> QED
        BY <1>1, <2>1, <2>4, <3>2, <3>3, <3>4, <3>6, <3>7, <3>8
    <3> QED
      BY <3>1, <3>8, <3>9 DEF OpenDelivery
  <2> QED
    BY <2>5, <2>6, <2>7 DEF DeliveryInv
<1>5. leases' = leases \/ \E e, rt : Transition(e, rt)
  <2>1. ASSUME NEW id, NEW fp, Produce(id, fp) PROVE leases' = leases
    BY <2>1 DEF Produce, history
  <2> QED
    BY <2>1, StepShapes DEF LifeInv, Quiet, Restart, LoseMemory, GetGroup, history
<1> QED
  BY <1>3, <1>4, <1>5

\* A message is handed out at most once per retry it is allowed, plus once
\* for the first delivery and once for each restart, whatever calls failed in
\* between and however its leases ended (docs/INVARIANTS.md:7).
THEOREM DeliveriesAreBounded ==
  ASSUME ~AllowPowerLoss, ~ProduceAfterReopen
  PROVE  Spec => []DeliveriesBounded
<1>1. Init => DeliveryInv
  <2> SUFFICES ASSUME Init PROVE DeliveryInv
    OBVIOUS
  <2>1. IsFiniteSet(leases) /\ \A id : Cardinality({l \in leases : l.id = id}) = 0
    BY FS_EmptySet DEF Init
  <2>2. LogFirstInv
    BY EmptyDomain DEF Init, EmptyState, LogFirstInv
  <2>3. \A id : EventsOf(eventLog, id) = {}
    BY DEF Init, EventsOf
  <2>4. \A id : Phase(id) = "ready" /\ Retries(id) = 0
    BY <2>2, <2>3, UnloadedPhase DEF Init, LoggedPhase, LoggedRetries
  <2> QED
    BY <2>1, <2>4 DEF Init, DeliveryInv, OpenDelivery
<1>2. LifeInv /\ LifeInv' /\ DeliveryInv /\ [Next]_vars => DeliveryInv'
  BY NextDeliveries
<1>3. LifeInv /\ DeliveryInv => DeliveriesBounded
  <2> SUFFICES ASSUME LifeInv, DeliveryInv PROVE DeliveriesBounded
    OBVIOUS
  <2>1. ASSUME NEW id \in Ids
        PROVE  Cardinality({l \in leases : l.id = id}) <= MaxRetryCount + 1 + restarts
    <3> DEFINE n == Cardinality({l \in leases : l.id = id})
    <3>1. n \in Nat
      BY FS_Subset, FS_CardinalityType DEF DeliveryInv
    <3>2. n <= Retries(id) + restarts + OpenDelivery(Phase(id), Retries(id))
      BY DEF DeliveryInv
    <3>3. /\ Retries(id) \in Nat /\ Retries(id) <= MaxRetryCount + 1 /\ restarts \in Nat
          /\ Phase(id) # "dead" => Retries(id) <= MaxRetryCount
      BY UnloadedPhase, RetriesNat DEF LifeInv, RecoveryInv, Inv, TypeOK, CallTypeOK
    <3> HIDE DEF n
    <3>4. n <= MaxRetryCount + 1 + restarts
      BY <3>1, <3>2, <3>3, LimitsAssumption DEF OpenDelivery
    <3> QED
      BY <3>4 DEF n
  <2> QED
    BY <2>1 DEF DeliveriesBounded
<1> QED
  BY <1>1, <1>2, <1>3, LifeHolds, PTL DEF Spec

-----------------------------------------------------------------------------
(* Replay.                                                                 *)

\* The messages a replay counts are those that have an offset of their own.
LEMMA ReplayIdsPlaced ==
  ASSUME Inv, IndexInv, NEW id
  PROVE  id \in ReplayIds <=> \E o : Placed(id, o)
<1>1. CASE pc # "down"
  <2>1. ReplayIds = KnownIds
    BY <1>1 DEF ReplayIds
  <2>2. ASSUME id \in KnownIds PROVE \E o : Placed(id, o)
    BY <1>1, <2>2, IndexPlaced DEF KnownIds
  <2>3. ASSUME NEW o, Placed(id, o) PROVE id \in KnownIds
    BY <1>1, <2>3, PlacedRead DEF KnownIds
  <2> QED
    BY <2>1, <2>2, <2>3
<1>2. CASE pc = "down"
  <2> DEFINE R == RecoverIndex(segFile)
             At(o) == {p \in DOMAIN segFile : segFile[p].offset = o}
  <2>1. ReplayIds = {segFile[p].id : p \in Range(R)}
    BY <1>2 DEF ReplayIds
  <2>2. /\ DOMAIN R = {segFile[p].offset : p \in DOMAIN segFile}
        /\ \A o \in DOMAIN R : R[o] = Max(At(o))
    BY DEF RecoverIndex
  <2>3. ASSUME NEW o \in DOMAIN R PROVE LastRecordOf(o, R[o])
    <3>1. PICK P : P = At(o)
      OBVIOUS
    <3>2. P \in SUBSET DOMAIN segFile /\ P # {} /\ R[o] = Max(P)
      BY <2>2, <2>3, <3>1
    <3>3. Max(P) \in P /\ \A p \in P : Max(P) >= p
      BY <3>2, MaxPosition, SegmentTypes DEF Inv
    <3>4. \A p \in P : p \in Nat
      BY <3>2, SegmentTypes DEF Inv
    <3>5. \A p \in P : p <= Max(P)
      BY <3>3, <3>4
    <3> HIDE DEF R
    <3> QED
      BY <3>1, <3>2, <3>3, <3>5 DEF LastRecordOf
  <2>4. ASSUME NEW p, NEW o, LastRecordOf(o, p) PROVE o \in DOMAIN R /\ R[o] = p
    <3>1. o \in DOMAIN R
      BY <2>2, <2>4 DEF LastRecordOf
    <3>2. LastRecordOf(o, R[o])
      BY <2>3, <3>1
    <3> HIDE DEF R
    <3> QED
      BY <2>4, <3>1, <3>2, SegmentTypes DEF LastRecordOf, Inv
  <2>5. restarts = 0 => DOMAIN segFile = {}
    BY <1>2 DEF IndexInv
  <2> HIDE DEF R
  <2>6. ASSUME NEW p \in Range(R), segFile[p].id = id PROVE \E o : Placed(id, o)
    <3>1. PICK o \in DOMAIN R : R[o] = p
      BY <2>6 DEF Range
    <3>2. LastRecordOf(o, p)
      BY <2>3, <3>1
    <3> QED
      BY <2>5, <2>6, <3>2 DEF Placed, LastRecordOf
  <2>7. ASSUME NEW o, Placed(id, o) PROVE id \in ReplayIds
    <3>1. PICK p \in DOMAIN segFile : LastRecordOf(o, p) /\ segFile[p].id = id
      BY <2>7 DEF Placed
    <3>2. p \in Range(R)
      BY <2>4, <3>1 DEF Range
    <3> QED
      BY <2>1, <3>1, <3>2
  <2> QED
    BY <2>1, <2>6, <2>7
<1> QED
  BY <1>1, <1>2

LEMMA ReplayIdsFinite ==
  ASSUME Inv, IndexInv
  PROVE  IsFiniteSet(ReplayIds)
<1> DEFINE T == {segFile[p].id : p \in DOMAIN segFile}
           f == [p \in DOMAIN segFile |-> segFile[p].id]
<1>1. Len(segFile) \in Nat /\ DOMAIN segFile = 1 .. Len(segFile)
  BY SegmentTypes DEF Inv
<1>2. IsFiniteSet(DOMAIN segFile)
  BY <1>1, FS_Interval
<1>3. f \in Surjection(DOMAIN segFile, T)
  BY DEF Surjection
<1>4. IsFiniteSet(T)
  <2> HIDE DEF T, f
  <2> QED
    BY <1>2, <1>3, FS_Surjection
<1>5. ReplayIds \in SUBSET T
  BY ReplayIdsPlaced DEF Placed
<1> QED
  BY <1>4, <1>5, FS_Subset

\* What a replay counts, and that it can count it, in one formula.
ReplayInv ==
    /\ \A id : id \in ReplayIds <=> \E o : Placed(id, o)
    /\ IsFiniteSet(ReplayIds)

\* docs/QUEUE_CONTRACT.md:72, replay is deterministic: with any failpoints
\* and crashes, a replay to a sequence that has been given out applies the
\* same events ever after and counts the same leases, acknowledged and dead
\* messages; only messages produced since are added to the READY ones.
THEOREM ReplayIsStable ==
  ASSUME ~AllowPowerLoss, ~ProduceAfterReopen
  PROVE  Spec => ReplayStable
<1>0. LifeInv => ReplayInv
  BY ReplayIdsPlaced, ReplayIdsFinite DEF LifeInv, ReplayInv
<1>1. ASSUME LifeInv, ReplayInv, ReplayInv', [Next]_vars, NEW n \in GivenOut
      PROVE  SameReplay(ReplayToSequence(n), ReplayToSequence(n)')
  <2> DEFINE A(s) == {id \in ReplayIds : ReplayedState(id, n) = s}
             B(s) == {id \in ReplayIds' : ReplayedState(id, n)' = s}
  <2>1. /\ AppliedSequence(n)' = AppliedSequence(n)
        /\ \A id : ReplayedState(id, n)' = ReplayedState(id, n)
    BY <1>1, GivenOutStays DEF LifeInv
  <2>2. ReplayIds \subseteq ReplayIds'
    <3> SUFFICES ASSUME NEW id \in ReplayIds PROVE id \in ReplayIds'
      OBVIOUS
    <3>1. PICK o : Placed(id, o)
      BY <1>1 DEF ReplayInv
    <3>2. Placed(id, o)'
      BY <1>1, <3>1, NextKeepsPlaced DEF LifeInv
    <3> QED
      BY <1>1, <3>2 DEF ReplayInv
  <2>3. ASSUME NEW id, ReplayedState(id, n) # "ready" PROVE id \in ReplayIds
    <3>1. PICK i \in DOMAIN eventLog : eventLog[i].id = id
      BY <2>3 DEF ReplayedState, EventsOf
    <3> QED
      BY <1>1, <3>1 DEF LifeInv, PlacedInv, ReplayInv
  <2>4. ASSUME NEW s \in States \ {"ready"} PROVE A(s) = B(s)
    BY <2>1, <2>2, <2>3, <2>4
  <2>5. Cardinality(A("ready")) <= Cardinality(B("ready")) /\ Cardinality(A("ready")) \in Nat
        /\ Cardinality(B("ready")) \in Nat
    <3>1. IsFiniteSet(ReplayIds)'
      BY <1>1 DEF ReplayInv
    <3>2. B("ready") \in SUBSET ReplayIds' /\ A("ready") \in SUBSET B("ready")
      BY <2>1, <2>2
    <3> HIDE DEF A, B
    <3>3. IsFiniteSet(B("ready"))
      BY <3>1, <3>2, FS_Subset
    <3> QED
      BY <3>2, <3>3, FS_Subset, FS_CardinalityType
  <2>6. /\ ReplayToSequence(n).applied_sequence = AppliedSequence(n)
        /\ \A s \in States : ReplayToSequence(n).stats[s] = Cardinality(A(s))
    BY DEF ReplayToSequence
  <2>7. /\ ReplayToSequence(n)'.applied_sequence = AppliedSequence(n)'
        /\ \A s \in States : ReplayToSequence(n)'.stats[s] = Cardinality(B(s))
    BY DEF ReplayToSequence
  <2>8. "ready" \in States
    BY DEF States
  <2> HIDE DEF A, B
  <2> QED
    BY <2>1, <2>4, <2>5, <2>6, <2>7, <2>8 DEF SameReplay
<1>2. LifeInv /\ ReplayInv /\ ReplayInv' /\ [Next]_vars =>
         [\A n \in GivenOut : SameReplay(ReplayToSequence(n), ReplayToSequence(n)')]_vars
  BY <1>1
<1> QED
  BY <1>0, <1>2, LifeHolds, PTL DEF Spec, ReplayStable

-----------------------------------------------------------------------------
(* The table and the events file in step.                                  *)

\* Replaying to the next sequence is replaying the whole file.
LEMMA ReplayAll ==
  ASSUME Inv, loaded, NEW id
  PROVE  ReplayedState(id, nextSeq) = LoggedState(id)
<1> DEFINE upto == {i \in EventsOf(eventLog, id) : eventLog[i].sequence <= nextSeq}
<1>1. eventLog \in Seq(Event) /\ nextSeq \in Nat
  BY DEF Inv, TypeOK, DiskTypeOK, GroupTypeOK
<1>2. ASSUME NEW i \in DOMAIN eventLog PROVE eventLog[i].sequence <= nextSeq
  <2>1. eventLog[i].sequence \in Nat /\ eventLog[i].sequence < nextSeq
    BY <1>1, EventTypes DEF Inv, SequenceInv
  <2> QED
    BY <1>1, <2>1
<1>3. upto = EventsOf(eventLog, id)
  BY <1>2 DEF EventsOf
<1>4. ReplayedState(id, nextSeq) = IF upto = {} THEN "ready" ELSE eventLog[Max(upto)].state
  BY DEF ReplayedState
<1> HIDE DEF upto
<1> QED
  BY <1>3, <1>4 DEF LoggedState, LastEvent

\* In step, the inflight map holds the leases that the events file has open.
LEMMA InflightLogged ==
  ASSUME Inv, LeaseInv, PlacedInv, InStepInv, loaded
  PROVE  DOMAIN inflight = LoggedLeases
<1>1. ASSUME NEW id \in DOMAIN inflight PROVE id \in LoggedLeases
  <2>1. id \in DOMAIN runtime /\ id \in Ids
    BY DEF Inv, TypeOK, GroupTypeOK
  <2>2. LiveState(id) = "inflight"
    BY DEF LiveState, LeaseInv, LeaseMatchesState
  <2> QED
    BY <2>1, <2>2 DEF InStepInv, LoggedLeases
<1>2. ASSUME NEW id \in LoggedLeases PROVE id \in DOMAIN inflight
  <2>1. LoggedState(id) = "inflight" /\ EventsOf(eventLog, id) # {}
    BY DEF LoggedLeases, LoggedState
  <2>2. id \in DOMAIN runtime
    BY <2>1 DEF PlacedInv, EventsOf
  <2>3. LiveState(id) = "inflight"
    BY <2>1, <2>2 DEF InStepInv
  <2> QED
    BY <2>2, <2>3 DEF LiveState, LeaseInv, LeaseMatchesState
<1> QED
  BY <1>1, <1>2

\* A transition that is logged is applied, so table and file move together;
\* only a delivery opens a lease, when there is room for it.
LEMMA TransitionInStep ==
  ASSUME "after_log_append" \notin Failpoints, LifeInv, InStepInv,
         NEW e, NEW rt, Transition(e, rt)
  PROVE  InStepInv'
<1>1. /\ rt = runtime /\ loaded /\ loaded' /\ e \in Event /\ eventLog \in Seq(Event)
      /\ e.id \in DOMAIN runtime /\ e.id \in Ids
  BY TransitionOnTable DEF LifeInv, Transition, Inv, TypeOK, DiskTypeOK, GroupTypeOK
<1>2. CASE Skipped(rt)
  <2>1. UNCHANGED <<eventLog, runtime, inflight>>
    BY <1>1, <1>2 DEF Skipped
  <2> QED
    BY <1>1, <2>1 DEF InStepInv, LoggedLeases, LoggedState, LiveState
<1>3. CASE Applied(e, rt)
  <2>1. PICK k \in Ids : k = e.id
    BY <1>1
  <2>2. \A id : LoggedState(id)' = IF id = k THEN e.state ELSE LoggedState(id)
    <3>1. /\ EventsOf(eventLog', k) # {} /\ LastEvent(eventLog', k) = e
          /\ \A id : id # k =>
                /\ EventsOf(eventLog', id) = EventsOf(eventLog, id)
                /\ EventsOf(eventLog, id) # {} =>
                      LastEvent(eventLog', id) = LastEvent(eventLog, id)
      BY <1>1, <1>3, <2>1, AppendEvents DEF Applied
    <3> QED
      BY <3>1 DEF LoggedState
  <2>3. DOMAIN runtime' = DOMAIN runtime
    BY <1>1, <1>3 DEF Applied
  <2>4. \A id \in DOMAIN runtime :
           LiveState(id)' = IF id = k THEN e.state ELSE LiveState(id)
    <3>1. /\ runtime'[k].state = e.state
          /\ \A id \in DOMAIN runtime : id # k => runtime'[id] = runtime[id]
      BY <1>1, <1>3, <2>1 DEF Applied, Runtime
    <3>2. /\ \A id : id # k => (id \in DOMAIN inflight' <=> id \in DOMAIN inflight)
          /\ e.state # "inflight" => k \notin DOMAIN inflight'
      BY <1>3, <2>1 DEF Applied, Put, Drop
    <3> QED
      BY <3>1, <3>2 DEF LiveState
  <2>5. \A id \in DOMAIN runtime' : LoggedState(id)' = LiveState(id)'
    BY <1>1, <2>2, <2>3, <2>4 DEF InStepInv
  <2>6. IsFiniteSet(LoggedLeases)' /\ (Cardinality(LoggedLeases) <= MaxInflight)'
    <3> DEFINE S == LoggedLeases
    <3>1. IsFiniteSet(S) /\ Cardinality(S) \in Nat /\ Cardinality(S) <= MaxInflight
      BY FS_CardinalityType DEF InStepInv
    <3>2. CASE e.state = "inflight"
      <4>1. LoggedLeases' = S \cup {k}
        BY <2>1, <2>2, <3>2 DEF LoggedLeases
      <4>2. Cardinality(S) < MaxInflight
        <5>1. HasRoom
          BY <3>2, <1>1 DEF Transition, Delivers, Ends
        <5>2. DOMAIN inflight = S
          BY <1>1, InflightLogged DEF LifeInv
        <5> QED
          BY <5>1, <5>2 DEF HasRoom
      <4>3. IsFiniteSet(S \cup {k})
        BY <3>1, FS_AddElement, Zenon
      <4>4. Cardinality(S \cup {k}) = IF k \in S THEN Cardinality(S) ELSE Cardinality(S) + 1
        BY <3>1, FS_AddElement, Zenon
      <4> HIDE DEF S
      <4>5. Cardinality(S \cup {k}) <= MaxInflight
        BY <3>1, <4>2, <4>4, LimitsAssumption
      <4> QED
        BY <4>1, <4>3, <4>5
    <3>3. CASE e.state # "inflight"
      <4>1. LoggedLeases' \subseteq S
        BY <2>1, <2>2, <3>3 DEF LoggedLeases
      <4>2. PICK T : T = LoggedLeases'
        OBVIOUS
      <4>3. IsFiniteSet(T) /\ Cardinality(T) <= Cardinality(S)
        BY <3>1, <4>1, <4>2, FS_Subset, Zenon
      <4>4. Cardinality(T) \in Nat
        BY <4>3, FS_CardinalityType
      <4> HIDE DEF S
      <4>5. Cardinality(T) <= MaxInflight
        BY <3>1, <4>3, <4>4, LimitsAssumption
      <4> QED
        BY <4>2, <4>3, <4>5
    <3> QED
      BY <3>2, <3>3
  <2> QED
    BY <2>5, <2>6 DEF InStepInv
<1> QED
  BY <1>2, <1>3 DEF Transition

\* Recovery gives the table just the states the events file has.
LEMMA GetGroupInStep ==
  ASSUME LifeInv, InStepInv, GetGroup
  PROVE  InStepInv'
<1>1. PICK at \in [KnownIds -> DOMAIN segIndex] :
         runtime' = [k \in KnownIds |-> RecoveredRuntime(eventLog, k, at[k])]
  BY DEF GetGroup
<1>2. eventLog' = eventLog /\ loaded' /\ inflight' = RecoveredInflight(eventLog)
  BY DEF GetGroup, disk
<1>3. DOMAIN inflight' = {k \in KnownIds : EventsOf(eventLog, k) # {}
                                           /\ LastEvent(eventLog, k).state = "inflight"}
  BY <1>2 DEF RecoveredInflight
<1>4. ASSUME NEW id \in DOMAIN runtime'
      PROVE  LoggedState(id)' = LiveState(id)'
  <2> DEFINE r == Replayed(eventLog, id, at[id])
  <2>1. id \in KnownIds
    BY <1>1, <1>4
  <2>2. runtime'[id] = IF r.state = "inflight"
                       THEN [r EXCEPT !.state = "ready", !.available_after = clock] ELSE r
    BY <1>1, <2>1 DEF RecoveredRuntime
  <2>3. r.state = LoggedState(id)
    BY DEF LifeInv, LogFirstInv, FromLog, Replayed, Runtime, LoggedState
  <2>4. DOMAIN r = {"state", "offset", "retry_count", "available_after", "sequence"}
        \/ EventsOf(eventLog, id) = {}
    BY DEF Replayed, Runtime
  <2>5. id \in DOMAIN inflight' <=> LoggedState(id) = "inflight"
    BY <1>3, <2>1 DEF LoggedState
  <2>6. EventsOf(eventLog, id) = {} => LoggedState(id) = "ready"
    BY DEF LoggedState
  <2> HIDE DEF r
  <2>7. runtime'[id].state = IF LoggedState(id) = "inflight" THEN "ready" ELSE LoggedState(id)
    BY <2>2, <2>3, <2>4, <2>6
  <2>8. LiveState(id)' = IF runtime'[id].state = "ready" /\ id \in DOMAIN inflight'
                         THEN "inflight" ELSE runtime'[id].state
    BY DEF LiveState
  <2>9. LoggedState(id)' = LoggedState(id)
    BY <1>2 DEF LoggedState
  <2> QED
    BY <2>5, <2>7, <2>8, <2>9
<1>5. LoggedLeases' = LoggedLeases
  BY <1>2 DEF LoggedLeases, LoggedState
<1> QED
  BY <1>4, <1>5 DEF InStepInv

LEMMA NextInStep ==
  ASSUME ~AllowPowerLoss, ~ProduceAfterReopen, "after_log_append" \notin Failpoints,
         LifeInv, InStepInv, [Next]_vars
  PROVE  InStepInv'
<1>1. CASE Quiet \/ Restart
  <2>1. UNCHANGED <<loaded, runtime, inflight, eventLog>>
    BY <1>1 DEF Quiet, Restart, disk, group
  <2> QED
    BY <2>1 DEF InStepInv, LoggedLeases, LoggedState, LiveState
<1>2. CASE LoseMemory /\ UNCHANGED eventLog
  BY <1>2 DEF LoseMemory, InStepInv, LoggedLeases, LoggedState
<1>3. ASSUME NEW id, NEW fp, Produce(id, fp) PROVE InStepInv'
  <2>1. UNCHANGED <<loaded, runtime, inflight, eventLog>>
    BY <1>3 DEF Produce, group
  <2> QED
    BY <2>1 DEF InStepInv, LoggedLeases, LoggedState, LiveState
<1> QED
  BY <1>1, <1>2, <1>3, StepShapes, GetGroupInStep, TransitionInStep DEF LifeInv

LEMMA InStepHolds ==
  ASSUME ~AllowPowerLoss, ~ProduceAfterReopen, "after_log_append" \notin Failpoints
  PROVE  Spec => []InStepInv
<1>1. Init => InStepInv
  <2> SUFFICES ASSUME Init PROVE InStepInv
    OBVIOUS
  <2>1. \A id : LoggedState(id) = "ready"
    BY DEF Init, EventsOf, LoggedState
  <2>2. LoggedLeases = {}
    BY <2>1 DEF LoggedLeases
  <2>3. IsFiniteSet(LoggedLeases) /\ Cardinality(LoggedLeases) <= MaxInflight
    BY <2>2, FS_EmptySet, LimitsAssumption
  <2> QED
    BY <2>3 DEF Init, InStepInv
<1>2. LifeInv /\ InStepInv /\ [Next]_vars => InStepInv'
  BY NextInStep
<1> QED
  BY <1>1, <1>2, LifeHolds, PTL DEF Spec

\* docs/QUEUE_CONTRACT.md:71: replaying every persisted transition gives the
\* state the live engine has, with failpoints anywhere but between the write
\* of an event and its effect, and through any number of crashes.
THEOREM ReplayIsLive ==
  ASSUME ~AllowPowerLoss, ~ProduceAfterReopen, "after_log_append" \notin Failpoints
  PROVE  Spec => []ReplayMatchesLive
<1>1. LifeInv /\ InStepInv => ReplayMatchesLive
  <2> SUFFICES ASSUME LifeInv, InStepInv, NEW id \in DOMAIN runtime
               PROVE  ReplayedState(id, nextSeq) = LiveState(id)
    BY DEF ReplayMatchesLive, LiveState
  <2>1. loaded
    BY DEF LifeInv, PlacedInv
  <2> QED
    BY <2>1, ReplayAll DEF LifeInv, InStepInv
<1> QED
  BY <1>1, LifeHolds, InStepHolds, PTL

\* docs/QUEUE_CONTRACT.md:47-50: max_inflight is a hard limit, also for the
\* leases that a crash has left open and recovery finds again.
THEOREM InflightIsBounded ==
  ASSUME ~AllowPowerLoss, ~ProduceAfterReopen, "after_log_append" \notin Failpoints
  PROVE  Spec => []InflightBound
<1>1. LifeInv /\ InStepInv => InflightBound
  <2> SUFFICES ASSUME LifeInv, InStepInv PROVE InflightBound
    OBVIOUS
  <2>1. CASE loaded
    BY <2>1, InflightLogged DEF LifeInv, InStepInv, InflightBound
  <2>2. CASE ~loaded
    <3>1. DOMAIN inflight = {}
      BY <2>2 DEF LifeInv, PlacedInv, Inv, TypeOK, GroupTypeOK
    <3> QED
      BY <3>1, FS_EmptySet, LimitsAssumption DEF InflightBound
  <2> QED
    BY <2>1, <2>2
<1> QED
  BY <1>1, LifeHolds, InStepHolds, PTL

-----------------------------------------------------------------------------
(* The order of first deliveries.                                          *)

\* A message with one record has one offset, and it is that record's.
LEMMA SoleOffset ==
  ASSUME NEW p \in DOMAIN segFile, SoleRecord(p), NEW o, Placed(segFile[p].id, o)
  PROVE  o = segFile[p].offset
BY DEF SoleRecord, Placed, LastRecordOf

\* So the record of a message that has an event is in place.
LEMMA EventOwns ==
  ASSUME PlacedInv, NEW p \in DOMAIN segFile, SoleRecord(p),
         NEW i \in DOMAIN eventLog, eventLog[i].id = segFile[p].id
  PROVE  OwnRecord(p)
<1>1. PICK q \in DOMAIN segFile : Placed(segFile[p].id, segFile[q].offset)
  BY DEF PlacedInv
<1>2. segFile[q].offset = segFile[p].offset
  BY <1>1, SoleOffset
<1> QED
  BY <1>1, <1>2 DEF OwnRecord

\* A step that writes no event keeps the order of the records it leaves.
LEMMA SameDeliveries ==
  ASSUME PlacedInv, EarlierFirst, UNCHANGED eventLog,
         \A q \in DOMAIN segFile' : \A i \in DOMAIN eventLog :
            OwnRecord(q)' /\ eventLog[i].id = segFile'[q].id =>
               q \in DOMAIN segFile /\ SoleRecord(q) /\ segFile'[q] = segFile[q],
         \A p \in DOMAIN segFile' : \A q \in DOMAIN segFile :
            OwnRecord(p)' /\ OwnRecord(q) /\ segFile'[p].offset < segFile[q].offset =>
               p \in DOMAIN segFile /\ OwnRecord(p) /\ segFile'[p] = segFile[p]
  PROVE  EarlierFirst'
<1> SUFFICES ASSUME NEW p \in DOMAIN segFile', NEW q \in DOMAIN segFile',
                    OwnRecord(p)', OwnRecord(q)', segFile'[p].offset < segFile'[q].offset,
                    NEW i \in DOMAIN eventLog, DeliveredAt(eventLog, segFile'[q].id, i)
             PROVE  \E j \in DOMAIN eventLog : j <= i /\ DeliveredAt(eventLog, segFile'[p].id, j)
  BY DEF EarlierFirst, DeliveredAt
<1>1. q \in DOMAIN segFile /\ SoleRecord(q) /\ segFile'[q] = segFile[q]
  BY DEF DeliveredAt
<1>2. OwnRecord(q)
  BY <1>1, EventOwns DEF DeliveredAt
<1>3. p \in DOMAIN segFile /\ OwnRecord(p) /\ segFile'[p] = segFile[p]
  BY <1>1, <1>2
<1> QED
  BY <1>1, <1>2, <1>3 DEF EarlierFirst

LEMMA LoseMemoryOrder ==
  ASSUME LifeInv, OrderInv, LoseMemory, UNCHANGED eventLog
  PROVE  OrderInv'
<1>1. /\ UNCHANGED <<segFile, eventLog>> /\ pc # "down"
      /\ DOMAIN runtime' = {} /\ DOMAIN inflight' = {}
  BY EmptyDomain DEF LoseMemory
<1>2. /\ segNext \in Nat /\ \A p \in DOMAIN segFile : segFile[p].offset \in Nat
      /\ restarts = 0 => \A p \in DOMAIN segFile : segFile[p].offset <= segNext
  BY <1>1, SegmentTypes DEF LifeInv, Inv, IndexInv
<1>3. \A p \in DOMAIN segFile : SoleRecord(p)' <=> SoleRecord(p)
  BY <1>1 DEF SoleRecord
<1>4. ASSUME NEW p \in DOMAIN segFile, NEW q \in DOMAIN segFile,
             OwnRecord(p)', segFile[p].offset < segFile[q].offset
      PROVE  OwnRecord(p)
  <2>1. restarts = 0 => segFile[p].offset < segNext
    BY <1>2, <1>4
  <2> QED
    BY <1>1, <1>3, <1>4, <2>1 DEF OwnRecord, Placed, LastRecordOf
<1>5. EarlierFirst'
  <2>1. \A q \in DOMAIN segFile' : OwnRecord(q)' => SoleRecord(q)
    BY <1>1, <1>3 DEF OwnRecord
  <2> QED
    BY <1>1, <1>4, <2>1, SameDeliveries DEF OrderInv, LifeInv
<1> QED
  BY <1>1, <1>5 DEF OrderInv, DeliveredFirst, KnowsEarlier, DeliveredAt

\* A record Produce writes is after all others, and its message is new or
\* has a second record now.
LEMMA ProduceOrder ==
  ASSUME ~ProduceAfterReopen, LifeInv, OrderInv, NEW id, NEW fp, Produce(id, fp)
  PROVE  OrderInv'
<1> DEFINE n == Len(segFile) + 1
<1>1. UNCHANGED <<eventLog, runtime, inflight>>
  BY DEF Produce, group
<1>2. /\ restarts = 0 /\ restarts' = 0
      /\ DOMAIN segFile' = DOMAIN segFile \cup {n}
      /\ \A p \in DOMAIN segFile : segFile'[p] = segFile[p]
      /\ segFile'[n].id = id /\ segFile'[n].offset = segNext
      /\ \A p \in DOMAIN segFile : segFile[p].offset <= segNext
      /\ segNext' = segNext \/ segNext' = segNext + 1
  <2>1. WritesAtEnd(id)
    BY ProduceWrites DEF LifeInv
  <2> QED
    BY <2>1 DEF WritesAtEnd
<1>3. /\ segNext \in Nat /\ n \notin DOMAIN segFile
      /\ \A p \in DOMAIN segFile : segFile[p].offset \in Nat /\ p < n
  BY SegmentTypes DEF LifeInv, Inv
<1> HIDE DEF n
<1>4. ASSUME NEW k, NEW o \in Nat, o < segNext, Placed(k, o)'
      PROVE  Placed(k, o)
  <2>1. PICK p \in DOMAIN segFile' : LastRecordOf(o, p)' /\ segFile'[p].id = k
    BY <1>4 DEF Placed
  <2>2. p \in DOMAIN segFile
    BY <1>2, <1>3, <1>4, <2>1 DEF LastRecordOf
  <2>3. LastRecordOf(o, p) /\ segFile[p].id = k
    BY <1>2, <2>1, <2>2 DEF LastRecordOf
  <2> QED
    BY <1>4, <2>2, <2>3 DEF Placed
<1>5. KnowsEarlier'
  <2> SUFFICES ASSUME NEW k \in DOMAIN runtime, NEW p \in DOMAIN segFile',
                      Placed(segFile[p].id, segFile[p].offset)',
                      segFile'[p].offset < runtime[k].offset
               PROVE  segFile'[p].id \in DOMAIN runtime
    BY <1>1 DEF KnowsEarlier
  <2>1. runtime[k].offset < segNext /\ runtime[k].offset \in Nat
    BY <1>2 DEF LifeInv, PlacedInv, Placed, Inv, TypeOK, GroupTypeOK, MessageRuntime
  <2>2. PICK j, o : j = segFile'[p].id /\ o = segFile'[p].offset
    OBVIOUS
  <2>3. o \in Nat /\ o < segNext /\ p \in DOMAIN segFile
    BY <1>2, <1>3, <2>1, <2>2
  <2>4. Placed(j, o)'
    BY <2>2 DEF Placed
  <2>5. Placed(j, o)
    BY <1>4, <2>3, <2>4
  <2> QED
    BY <1>2, <2>2, <2>3, <2>5 DEF OrderInv, KnowsEarlier
<1>6. ASSUME NEW p \in DOMAIN segFile', OwnRecord(p)', p \in DOMAIN segFile
      PROVE  OwnRecord(p)
  <2>1. SoleRecord(p)
    BY <1>2, <1>6 DEF OwnRecord, SoleRecord
  <2>2. PICK k, o : k = segFile'[p].id /\ o = segFile'[p].offset
    OBVIOUS
  <2>3. Placed(k, o)' /\ o \in Nat /\ o <= segNext
    BY <1>2, <1>3, <1>6, <2>2 DEF OwnRecord, Placed
  <2>4. o # segNext
    <3> SUFFICES ASSUME o = segNext PROVE FALSE
      OBVIOUS
    <3>1. PICK r \in DOMAIN segFile' : LastRecordOf(o, r)' /\ segFile'[r].id = k
      BY <2>3 DEF Placed
    <3>2. r = p
      BY <1>6, <2>2, <3>1 DEF OwnRecord, SoleRecord
    <3>3. n <= p
      BY <1>2, <3>1, <3>2 DEF LastRecordOf
    <3>4. p < n /\ p \in Nat /\ n \in Nat
      BY <1>3, <1>6, SegmentTypes DEF LifeInv, Inv, n
    <3> QED
      BY <3>3, <3>4
  <2>5. Placed(k, o)
    BY <1>3, <1>4, <2>3, <2>4
  <2> QED
    BY <1>2, <1>6, <2>1, <2>2, <2>5 DEF OwnRecord
<1>7. EarlierFirst'
  <2>1. ASSUME NEW q \in DOMAIN segFile', NEW i \in DOMAIN eventLog,
               OwnRecord(q)', eventLog[i].id = segFile'[q].id
        PROVE  q \in DOMAIN segFile /\ SoleRecord(q) /\ segFile'[q] = segFile[q]
    <3>1. PICK r \in DOMAIN segFile : Placed(eventLog[i].id, segFile[r].offset)
      BY DEF LifeInv, PlacedInv
    <3>2. PICK s \in DOMAIN segFile : segFile[s].id = eventLog[i].id
      BY <3>1 DEF Placed
    <3>3. s = q
      BY <1>2, <2>1, <3>2 DEF OwnRecord, SoleRecord
    <3> QED
      BY <1>2, <1>6, <2>1, <3>3 DEF OwnRecord
  <2>2. ASSUME NEW p \in DOMAIN segFile', NEW q \in DOMAIN segFile,
               OwnRecord(p)', segFile'[p].offset < segFile[q].offset
        PROVE  p \in DOMAIN segFile /\ OwnRecord(p) /\ segFile'[p] = segFile[p]
    <3>1. p # n
      BY <1>2, <1>3, <2>2
    <3> QED
      BY <1>2, <1>6, <2>2, <3>1
  <2> QED
    BY <1>1, <2>1, <2>2, SameDeliveries DEF OrderInv, LifeInv
<1> QED
  BY <1>1, <1>5, <1>7 DEF OrderInv, DeliveredFirst, DeliveredAt

\* Recovery finds every message that has its place in the segment.
LEMMA GetGroupOrder ==
  ASSUME LifeInv, OrderInv, GetGroup
  PROVE  OrderInv'
<1>1. /\ UNCHANGED <<segFile, eventLog, segNext, restarts>> /\ pc # "down"
      /\ DOMAIN runtime' = KnownIds /\ inflight' = RecoveredInflight(eventLog)
  BY DEF GetGroup, disk, segment, history
<1>2. DeliveredFirst'
  BY <1>1 DEF OrderInv, DeliveredFirst, DeliveredAt, RecoveredInflight
<1>3. EarlierFirst'
  BY <1>1 DEF OrderInv, EarlierFirst, DeliveredAt, OwnRecord, SoleRecord, Placed, LastRecordOf
<1>4. KnowsEarlier'
  <2> SUFFICES ASSUME NEW p \in DOMAIN segFile, Placed(segFile[p].id, segFile[p].offset)'
               PROVE  segFile[p].id \in KnownIds
    BY <1>1 DEF KnowsEarlier
  <2>1. Placed(segFile[p].id, segFile[p].offset)
    BY <1>1 DEF Placed, LastRecordOf
  <2>2. segFile[p].offset \in DOMAIN segIndex /\ Read(segFile[p].offset) = segFile[p].id
    BY <1>1, <2>1, PlacedRead DEF LifeInv
  <2> QED
    BY <2>2 DEF KnownIds
<1> QED
  BY <1>2, <1>3, <1>4 DEF OrderInv

\* A message that was never delivered is ready, and stands before every
\* message at a later offset: Consume takes the smallest ready offset.
LEMMA DeliveryWaits ==
  ASSUME LifeInv, OrderInv, NEW e, NEW rt, Transition(e, rt), e.state = "inflight",
         NEW p \in DOMAIN segFile, NEW q \in DOMAIN segFile, OwnRecord(p), OwnRecord(q),
         segFile[q].id = e.id, segFile[p].offset < segFile[q].offset
  PROVE  \E j \in DOMAIN eventLog : DeliveredAt(eventLog, segFile[p].id, j)
<1> DEFINE a == segFile[p].id
<1>1. /\ Delivers(e, rt) /\ pc # "down" /\ rt = runtime /\ e.id \in DOMAIN runtime
  BY TransitionOnTable DEF LifeInv, Transition, Ends
<1>2. ReadyOffsets \in SUBSET Nat /\ ReadyOffsets # {}
  BY <1>1 DEF ReadyOffsets, LifeInv, Inv, TypeOK, GroupTypeOK, MessageRuntime, Delivers
<1>3. FrontReady \in ReadyOffsets /\ \A o \in ReadyOffsets : FrontReady <= o
  BY <1>2, MinOfNat DEF FrontReady
<1>4. FrontReady = runtime[e.id].offset
  <2>1. PICK id \in DOMAIN runtime : FrontReady = runtime[id].offset
    BY <1>3 DEF ReadyOffsets
  <2>2. Read(FrontReady) = id
    BY <1>1, <2>1, PlacedRead DEF LifeInv, PlacedInv
  <2> QED
    BY <1>1, <2>1, <2>2 DEF Delivers
<1>5. runtime[e.id].offset = segFile[q].offset
  BY <1>1, SoleOffset DEF LifeInv, PlacedInv, OwnRecord
<1>6. a \in DOMAIN runtime
  BY <1>1, <1>5 DEF OrderInv, KnowsEarlier, OwnRecord
<1>7. runtime[a].offset = segFile[p].offset
  <2>1. Placed(segFile[p].id, runtime[a].offset)
    BY <1>6 DEF LifeInv, PlacedInv
  <2> HIDE DEF a
  <2> QED
    BY <2>1, SoleOffset DEF OwnRecord
<1>8. runtime[a].offset \in Nat /\ runtime[e.id].offset \in Nat /\ now \in Nat
  BY <1>1, <1>6 DEF LifeInv, Inv, TypeOK, GroupTypeOK, MessageRuntime, CallTypeOK
<1>9. runtime[a].offset \notin ReadyOffsets
  BY <1>3, <1>4, <1>5, <1>7, <1>8
<1>10. EventsOf(eventLog, a) # {}
  <2> SUFFICES ASSUME EventsOf(eventLog, a) = {} PROVE FALSE
    OBVIOUS
  <2>1. runtime[a].state = "ready" /\ runtime[a].available_after = 0
    BY <1>6 DEF LifeInv, LogFirstInv, FromLog
  <2>2. runtime[a].available_after <= now
    BY <1>8, <2>1
  <2> QED
    BY <1>6, <1>9, <2>1, <2>2 DEF ReadyOffsets
<1> QED
  BY <1>10 DEF EventsOf, OrderInv, DeliveredFirst

LEMMA TransitionOrder ==
  ASSUME LifeInv, OrderInv, NEW e, NEW rt, Transition(e, rt)
  PROVE  OrderInv'
<1> DEFINE n == Len(eventLog) + 1
<1>1. /\ rt = runtime /\ e.id \in DOMAIN runtime /\ e \in Event /\ eventLog \in Seq(Event)
      /\ UNCHANGED <<segFile, segNext, restarts>>
  BY TransitionOnTable DEF LifeInv, Transition, Inv, TypeOK, DiskTypeOK
<1>2. /\ DOMAIN runtime' = DOMAIN runtime
      /\ \A id \in DOMAIN runtime : runtime'[id].offset = runtime[id].offset
  BY <1>1 DEF Transition, Skipped, Logged, Applied, Runtime
<1>3. \A k, o : Placed(k, o) <=> Placed(k, o)'
  BY <1>1 DEF Placed, LastRecordOf
<1>4. KnowsEarlier'
  <2> SUFFICES ASSUME NEW k \in DOMAIN runtime, NEW p \in DOMAIN segFile,
                      Placed(segFile[p].id, segFile[p].offset)',
                      segFile[p].offset < runtime[k].offset
               PROVE  segFile[p].id \in DOMAIN runtime
    BY <1>1, <1>2 DEF KnowsEarlier
  <2>1. Placed(segFile[p].id, segFile[p].offset)
    BY <1>1 DEF Placed, LastRecordOf
  <2> QED
    BY <2>1 DEF OrderInv, KnowsEarlier
<1>5. \A p \in DOMAIN segFile : OwnRecord(p)' => OwnRecord(p)
  BY <1>1 DEF OwnRecord, SoleRecord, Placed, LastRecordOf
<1>6. CASE Skipped(rt)
  <2>1. UNCHANGED <<eventLog, inflight>>
    BY <1>6 DEF Skipped
  <2>2. EarlierFirst'
    BY <1>1, <1>5, <2>1 DEF OrderInv, EarlierFirst, DeliveredAt
  <2> QED
    BY <1>4, <2>1, <2>2 DEF OrderInv, DeliveredFirst, DeliveredAt
<1>7. CASE eventLog' = Append(eventLog, e)
  <2>1. /\ DOMAIN eventLog' = DOMAIN eventLog \cup {n} /\ n \notin DOMAIN eventLog
        /\ \A i \in DOMAIN eventLog : eventLog'[i] = eventLog[i]
        /\ eventLog'[n] = e
        /\ EventsOf(eventLog', e.id) = EventsOf(eventLog, e.id) \cup {n}
        /\ \A id : id # e.id => EventsOf(eventLog', id) = EventsOf(eventLog, id)
    BY <1>1, <1>7, AppendEvents
  <2>2. n \in Nat /\ \A i \in DOMAIN eventLog : i <= n /\ i \in Nat
    BY <1>1
  <2> HIDE DEF n
  <2>3. \A id : \A i \in DOMAIN eventLog : DeliveredAt(eventLog', id, i) <=> DeliveredAt(eventLog, id, i)
    BY <2>1 DEF DeliveredAt
  <2>4. \A id : DeliveredAt(eventLog', id, n) <=> id = e.id /\ e.state = "inflight"
    BY <2>1 DEF DeliveredAt
  <2>5. DOMAIN inflight' \subseteq DOMAIN inflight \cup {e.id}
    BY <1>7 DEF Transition, Skipped, Logged, Applied, Put, Drop
  <2>6. ASSUME NEW i \in DOMAIN eventLog'
        PROVE  \E j \in DOMAIN eventLog' : j <= i /\ DeliveredAt(eventLog', eventLog'[i].id, j)
    <3>1. CASE i \in DOMAIN eventLog
      BY <2>1, <2>3, <3>1 DEF OrderInv, DeliveredFirst
    <3>2. CASE i = n /\ e.state = "inflight"
      BY <2>1, <2>2, <2>4, <3>2
    <3>3. CASE i = n /\ e.state # "inflight"
      <4>1. e.id \in DOMAIN inflight
        BY <3>3 DEF Transition, Delivers, Ends
      <4>2. PICK k \in DOMAIN eventLog : eventLog[k].id = e.id
        BY <4>1 DEF OrderInv, DeliveredFirst, EventsOf
      <4>3. PICK j \in DOMAIN eventLog : DeliveredAt(eventLog, e.id, j)
        BY <4>2 DEF OrderInv, DeliveredFirst
      <4> QED
        BY <2>1, <2>2, <2>3, <3>3, <4>3
    <3> QED
      BY <2>1, <3>1, <3>2, <3>3
  <2>7. \A id \in DOMAIN inflight' : EventsOf(eventLog', id) # {}
    BY <2>1, <2>5 DEF OrderInv, DeliveredFirst
  <2>8. DeliveredFirst'
    BY <2>6, <2>7 DEF DeliveredFirst, DeliveredAt
  <2>9. ASSUME NEW p \in DOMAIN segFile, NEW q \in DOMAIN segFile,
               OwnRecord(p), OwnRecord(q), segFile[p].offset < segFile[q].offset,
               NEW i \in DOMAIN eventLog', DeliveredAt(eventLog', segFile[q].id, i)
        PROVE  \E j \in DOMAIN eventLog' : j <= i /\ DeliveredAt(eventLog', segFile[p].id, j)
    <3>0. PICK a, b : a = segFile[p].id /\ b = segFile[q].id
      OBVIOUS
    <3>1. DeliveredAt(eventLog', b, i)
      BY <1>1, <2>9, <3>0 DEF DeliveredAt
    <3>2. \E j \in DOMAIN eventLog' : j <= i /\ DeliveredAt(eventLog', a, j)
      <4>1. CASE i \in DOMAIN eventLog
        <5>1. DeliveredAt(eventLog, b, i)
          BY <2>3, <3>1, <4>1
        <5>2. PICK j \in DOMAIN eventLog : j <= i /\ DeliveredAt(eventLog, a, j)
          BY <2>9, <3>0, <4>1, <5>1 DEF OrderInv, EarlierFirst
        <5> QED
          BY <2>1, <2>3, <5>2
      <4>2. CASE i = n
        <5>1. b = e.id /\ e.state = "inflight"
          BY <2>4, <3>1, <4>2
        <5>2. PICK j \in DOMAIN eventLog : DeliveredAt(eventLog, a, j)
          BY <2>9, <3>0, <5>1, DeliveryWaits
        <5> QED
          BY <2>1, <2>2, <2>3, <4>2, <5>2
      <4> QED
        BY <2>1, <2>9, <4>1, <4>2
    <3> QED
      BY <1>1, <3>0, <3>2 DEF DeliveredAt
  <2>10. EarlierFirst'
    BY <1>1, <1>5, <2>9 DEF EarlierFirst
  <2> QED
    BY <1>4, <2>8, <2>10 DEF OrderInv
<1> QED
  BY <1>6, <1>7 DEF Transition, Logged, Applied

LEMMA NextOrder ==
  ASSUME ~AllowPowerLoss, ~ProduceAfterReopen, LifeInv, OrderInv, [Next]_vars
  PROVE  OrderInv'
<1>1. ASSUME UNCHANGED <<segFile, eventLog, runtime, inflight, restarts>>,
             restarts = 0 /\ segFile # <<>> => segNext' = segNext
      PROVE  OrderInv'
  <2>1. \A p \in DOMAIN segFile : OwnRecord(p)' => OwnRecord(p)
    BY <1>1 DEF OwnRecord, SoleRecord, Placed, LastRecordOf
  <2>2. \A p \in DOMAIN segFile : Placed(segFile[p].id, segFile[p].offset)'
                                     => Placed(segFile[p].id, segFile[p].offset)
    BY <1>1 DEF Placed, LastRecordOf
  <2>3. EarlierFirst'
    BY <1>1, <2>1 DEF OrderInv, EarlierFirst, DeliveredAt
  <2>4. KnowsEarlier'
    BY <1>1, <2>2 DEF OrderInv, KnowsEarlier
  <2> QED
    BY <1>1, <2>3, <2>4 DEF OrderInv, DeliveredFirst, DeliveredAt
<1>2. CASE Quiet
  BY <1>1, <1>2 DEF Quiet
<1>3. CASE Restart
  <2>1. UNCHANGED <<segFile, eventLog, runtime, inflight, restarts>> /\ pc = "down"
    BY <1>3 DEF Restart, disk, group, history
  <2> QED
    BY <1>1, <2>1 DEF LifeInv, IndexInv
<1> QED
  BY <1>2, <1>3, StepShapes, LoseMemoryOrder, ProduceOrder, GetGroupOrder, TransitionOrder
     DEF LifeInv

\* docs/QUEUE_CONTRACT.md:14: however leases, timeouts, nacks, backoffs,
\* failed calls and crashes are interleaved, first deliveries follow the
\* offsets of the segment.
THEOREM FirstDeliveriesInOrder ==
  ASSUME ~AllowPowerLoss, ~ProduceAfterReopen
  PROVE  Spec => []FirstDeliveryInOrder
<1>1. Init => OrderInv
  BY EmptyDomain DEF Init, OrderInv, DeliveredFirst, KnowsEarlier, EarlierFirst
<1>2. LifeInv /\ OrderInv /\ [Next]_vars => OrderInv'
  BY NextOrder
<1>3. LifeInv /\ OrderInv => FirstDeliveryInOrder
  <2> SUFFICES ASSUME LifeInv, OrderInv,
                      NEW a \in DOMAIN runtime, NEW b \in DOMAIN runtime,
                      ProducedOnce(a), ProducedOnce(b), runtime[a].offset < runtime[b].offset,
                      NEW n \in DOMAIN eventLog, DeliveredBy(eventLog, b, n)
               PROVE  DeliveredBy(eventLog, a, n)
    BY DEF FirstDeliveryInOrder
  <2>1. ASSUME NEW id \in DOMAIN runtime, ProducedOnce(id)
        PROVE  \E p \in DOMAIN segFile :
                  segFile[p].id = id /\ segFile[p].offset = runtime[id].offset /\ OwnRecord(p)
    <3> DEFINE S == {p \in DOMAIN segFile : segFile[p].id = id}
    <3>1. PICK p \in DOMAIN segFile : /\ LastRecordOf(runtime[id].offset, p)
                                      /\ segFile[p].id = id
      BY DEF LifeInv, PlacedInv, Placed
    <3>2. \E x : S = {x}
      <4>1. IsFiniteSet(DOMAIN segFile)
        <5>1. DOMAIN segFile = 1 .. Len(segFile) /\ Len(segFile) \in Nat
          BY SegmentTypes DEF LifeInv, Inv
        <5> QED
          BY <5>1, FS_Interval
      <4>2. IsFiniteSet(S)
        BY <4>1, FS_Subset
      <4> QED
        BY <2>1, <4>2, FS_Singleton DEF ProducedOnce
    <3>3. SoleRecord(p)
      BY <3>1, <3>2 DEF SoleRecord
    <3>4. segFile[p].offset = runtime[id].offset
      BY <3>1 DEF LastRecordOf
    <3>5. OwnRecord(p)
      BY <3>1, <3>3, <3>4 DEF OwnRecord, LifeInv, PlacedInv
    <3> QED
      BY <3>1, <3>4, <3>5
  <2>2. PICK p \in DOMAIN segFile :
           segFile[p].id = a /\ segFile[p].offset = runtime[a].offset /\ OwnRecord(p)
    BY <2>1
  <2>3. PICK q \in DOMAIN segFile :
           segFile[q].id = b /\ segFile[q].offset = runtime[b].offset /\ OwnRecord(q)
    BY <2>1
  <2>4. PICK i \in DOMAIN eventLog : i <= n /\ DeliveredAt(eventLog, b, i)
    BY DEF DeliveredBy, EventsOf, DeliveredAt
  <2>5. PICK j \in DOMAIN eventLog : j <= i /\ DeliveredAt(eventLog, a, j)
    BY <2>2, <2>3, <2>4 DEF OrderInv, EarlierFirst
  <2>6. i \in Nat /\ j \in Nat /\ n \in Nat
    BY DEF LifeInv, Inv, TypeOK, DiskTypeOK
  <2>7. j <= n
    BY <2>4, <2>5, <2>6
  <2> QED
    BY <2>5, <2>7 DEF DeliveredBy, EventsOf, DeliveredAt
<1> QED
  BY <1>1, <1>2, <1>3, LifeHolds, PTL DEF Spec
=============================================================================
