------------------------- MODULE QueueEngine_proofs -------------------------
(***************************************************************************)
(* Proofs about QueueEngine, for every value of its constants: any set of  *)
(* messages, any limits, every failpoint, crashes, power losses and writes *)
(* after a reopen.                                                         *)
(***************************************************************************)
EXTENDS QueueContract, WellFoundedInduction, TLAPS

-----------------------------------------------------------------------------
(* Bounded sets of naturals have a largest element.                        *)

LEMMA MaxOfBounded ==
  ASSUME NEW S \in SUBSET Nat, S # {}, NEW n \in Nat, \A x \in S : x <= n
  PROVE  Max(S) \in S /\ \A y \in S : Max(S) >= y
<1> DEFINE T == {k \in Nat : \E x \in S : k = n - x}
<1>1. T \subseteq Nat /\ T # {}
  <2>1. PICK x \in S : x \in Nat
    OBVIOUS
  <2>2. n - x \in T
    BY <2>1
  <2> QED
    BY <2>2
<1>2. PICK t \in T : \A y \in T : ~ (<<y, t>> \in OpToRel(<, Nat))
  BY <1>1, NatLessThanWellFounded, WFMin
<1>3. PICK x \in S : t = n - x
  OBVIOUS
<1>4. \A y \in S : x >= y
  <2> SUFFICES ASSUME NEW y \in S PROVE x >= y
    OBVIOUS
  <2>1. n - y \in T /\ n - y \in Nat /\ t \in Nat
    BY <1>1
  <2>2. ~ (n - y < t)
    BY <1>2, <2>1 DEF OpToRel
  <2> QED
    BY <2>2, <1>3
<1> QED
  BY <1>4 DEF Max

-----------------------------------------------------------------------------
(* What the helpers return.                                                *)

LEMMA TickType == TickMs \in Nat \ {0}
BY TimesAssumption DEF TickMs

LEMMA DivNat ==
  ASSUME NEW t \in Nat
  PROVE  t \div TickMs \in Nat
BY TickType

LEMMA ModSlot ==
  ASSUME NEW t \in Nat
  PROVE  t % WheelSize \in Slots
BY TimesAssumption DEF Slots

LEMMA SlotType ==
  ASSUME NEW d \in Nat
  PROVE  BucketTick(d) \in Nat /\ Slot(d) \in Slots
BY DivNat, ModSlot DEF BucketTick, Slot

\* Every nonempty set of positions of a log has a last one.
LEMMA MaxPosition ==
  ASSUME NEW S, NEW s \in Seq(S), NEW P \in SUBSET DOMAIN s, P # {}
  PROVE  Max(P) \in P /\ \A i \in P : Max(P) >= i
<1>1. Len(s) \in Nat /\ DOMAIN s = 1 .. Len(s)
  OBVIOUS
<1>2. P \in SUBSET Nat /\ \A i \in P : i <= Len(s)
  BY <1>1
<1> QED
  BY <1>1, <1>2, MaxOfBounded

LEMMA EventTypes ==
  ASSUME eventLog \in Seq(Event)
  PROVE  \A i \in DOMAIN eventLog :
            /\ eventLog[i] \in Event
            /\ eventLog[i].id \in Ids
            /\ eventLog[i].sequence \in Nat
            /\ eventLog[i].deadline \in Nat
<1>1. \A i \in DOMAIN eventLog : eventLog[i] \in Event
  OBVIOUS
<1> QED
  BY <1>1 DEF Event

LEMMA LastEventProperties ==
  ASSUME eventLog \in Seq(Event), NEW id, EventsOf(eventLog, id) # {}
  PROVE  /\ Max(EventsOf(eventLog, id)) \in DOMAIN eventLog
         /\ LastEvent(eventLog, id) \in Event
         /\ LastEvent(eventLog, id).id = id
<1>1. EventsOf(eventLog, id) \in SUBSET DOMAIN eventLog
  BY DEF EventsOf
<1>2. Max(EventsOf(eventLog, id)) \in EventsOf(eventLog, id)
  BY <1>1, MaxPosition, Zenon
<1>3. \A i \in DOMAIN eventLog : eventLog[i] \in Event
  OBVIOUS
<1> QED
  BY <1>1, <1>2, <1>3 DEF EventsOf, LastEvent

LEMMA RuntimeType ==
  ASSUME NEW e \in Event, NEW o \in Nat
  PROVE  Runtime(e, o) \in MessageRuntime
BY DEF Runtime, Event, MessageRuntime

LEMMA KnownIdsType ==
  ASSUME DiskTypeOK, SegmentTypeOK
  PROVE  /\ KnownIds \subseteq Ids
         /\ \A o \in DOMAIN segIndex : Read(o) \in Ids
<1>1. ASSUME NEW o \in DOMAIN segIndex PROVE Read(o) \in Ids
  <2>1. segIndex[o] \in DOMAIN segFile
    BY DEF SegmentTypeOK
  <2>2. segFile[segIndex[o]] \in Record
    BY <2>1 DEF DiskTypeOK
  <2> QED
    BY <2>2 DEF Read, Record
<1> QED
  BY <1>1 DEF KnownIds

\* next_sequence as recovered exceeds the snapshot's and every logged one.
LEMMA RecoveredSeqProperties ==
  ASSUME eventLog \in Seq(Event), stateFile.next_sequence \in Nat,
         NEW n \in Nat, \A i \in DOMAIN eventLog : eventLog[i].sequence <= n
  PROVE  /\ RecoveredSeq(eventLog) \in Nat
         /\ RecoveredSeq(eventLog) >= stateFile.next_sequence
         /\ \A i \in DOMAIN eventLog : RecoveredSeq(eventLog) > eventLog[i].sequence
<1> DEFINE S == {stateFile.next_sequence} \cup {eventLog[i].sequence + 1 : i \in DOMAIN eventLog}
<1>1. \A i \in DOMAIN eventLog : eventLog[i].sequence \in Nat
  BY EventTypes
<1>2. S \in SUBSET Nat /\ S # {}
  BY <1>1
<1> DEFINE b == stateFile.next_sequence + n + 1
<1>3. b \in Nat /\ b >= stateFile.next_sequence /\ b >= n + 1
  OBVIOUS
<1>4. \A x \in S : x <= b
  BY <1>1, <1>3
<1>5. Max(S) \in S /\ \A y \in S : Max(S) >= y
  BY <1>2, <1>3, <1>4, MaxOfBounded
<1>6. RecoveredSeq(eventLog) = Max(S)
  BY DEF RecoveredSeq
<1>7. \A i \in DOMAIN eventLog : eventLog[i].sequence + 1 \in S
  OBVIOUS
<1>8. ASSUME NEW i \in DOMAIN eventLog PROVE Max(S) > eventLog[i].sequence
  <2> DEFINE m == Max(S)
             q == eventLog[i].sequence
  <2>1. m \in Nat /\ q \in Nat /\ m >= q + 1
    BY <1>1, <1>2, <1>5, <1>7
  <2> HIDE DEF m, q
  <2>2. m > q
    BY <2>1
  <2> QED
    BY <2>2 DEF m, q
<1> QED
  BY <1>2, <1>5, <1>6, <1>8
-----------------------------------------------------------------------------
(* Type correctness.                                                       *)

TableOK(rt) ==
    /\ DOMAIN rt \subseteq Ids
    /\ \A id \in DOMAIN rt : rt[id] \in MessageRuntime

WheelType == [Slots -> SUBSET (Ids \X Nat)]

LEMMA PushType ==
  ASSUME NEW E, NEW w \in [Slots -> SUBSET E], NEW s \in Slots, NEW x \in E
  PROVE  [w EXCEPT ![s] = @ \cup {x}] \in [Slots -> SUBSET E]
OBVIOUS

\* AppendTransition keeps the types, whichever failpoint strikes.
LEMMA AppendTransitionType ==
  ASSUME eventLog \in Seq(Event), GroupTypeOK,
         NEW e \in Event, NEW rt, TableOK(rt), e.id \in DOMAIN rt,
         DOMAIN inflight \subseteq DOMAIN rt, NEW w \in WheelType,
         NEW early, NEW fp, AppendTransition(e, rt, w, early, fp)
  PROVE  /\ eventLog' \in Seq(Event) /\ nextSeq' = nextSeq + 1 /\ nextSeq' \in Nat
         /\ TableOK(runtime)'
         /\ DOMAIN inflight' \subseteq DOMAIN runtime'
         /\ \A id \in DOMAIN inflight' : inflight'[id] \in InflightEntry
         /\ wheel' \in WheelType
<1>1. eventLog' \in Seq(Event) /\ nextSeq' = nextSeq + 1 /\ nextSeq' \in Nat
  BY DEF AppendTransition, GroupTypeOK
<1>2. CASE fp \in early \cup {"after_log_append"}
  BY <1>1, <1>2 DEF AppendTransition, GroupTypeOK, TableOK
<1>3. CASE ~(fp \in early \cup {"after_log_append"})
  <2>1. ApplyTransition(e, rt, w)
    BY <1>3 DEF AppendTransition
  <2>2. rt[e.id].offset \in Nat
    BY DEF TableOK, MessageRuntime
  <2>3. Runtime(e, rt[e.id].offset) \in MessageRuntime
    BY <2>2, RuntimeType
  <2>4. runtime' = [rt EXCEPT ![e.id] = Runtime(e, rt[e.id].offset)]
    BY <2>1 DEF ApplyTransition
  <2>5. DOMAIN runtime' = DOMAIN rt /\ TableOK(runtime)'
    BY <2>3, <2>4 DEF TableOK
  <2>6. e.deadline \in Nat /\ e.sequence \in Nat /\ e.id \in Ids
    BY DEF Event
  <2>7. CASE e.state = "inflight"
    <3>1. inflight' = Put(inflight, e.id, [deadline |-> e.deadline, sequence |-> e.sequence])
      BY <2>1, <2>7 DEF ApplyTransition
    <3>2. /\ DOMAIN inflight' \subseteq DOMAIN runtime'
          /\ \A id \in DOMAIN inflight' : inflight'[id] \in InflightEntry
      BY <3>1, <2>5, <2>6 DEF Put, GroupTypeOK, InflightEntry
    <3>3. wheel' = ScheduleInflight(w, e)
      BY <2>1, <2>7 DEF ApplyTransition
    <3>4. <<e.id, e.sequence>> \in Ids \X Nat /\ Slot(e.deadline) \in Slots
      BY <2>6, SlotType
    <3>5. wheel' = [w EXCEPT ![Slot(e.deadline)] = @ \cup {<<e.id, e.sequence>>}]
      BY <3>3 DEF ScheduleInflight
    <3>6. wheel' \in WheelType
      BY <3>4, <3>5, PushType DEF WheelType
    <3> QED
      BY <1>1, <2>5, <3>2, <3>6
  <2>8. CASE e.state # "inflight"
    <3>1. inflight' = Drop(inflight, e.id) /\ wheel' = w
      BY <2>1, <2>8 DEF ApplyTransition
    <3>2. /\ DOMAIN inflight' \subseteq DOMAIN runtime'
          /\ \A id \in DOMAIN inflight' : inflight'[id] \in InflightEntry
      BY <3>1, <2>5 DEF Drop, GroupTypeOK
    <3> QED
      BY <1>1, <2>5, <3>1, <3>2
  <2> QED
    BY <2>7, <2>8
<1> QED
  BY <1>2, <1>3

\* PersistGroupState writes a well-typed snapshot or nothing.
LEMMA PersistType ==
  ASSUME DiskTypeOK, NEW fp, PersistGroupState(fp), TableOK(runtime)', nextSeq' \in Nat
  PROVE  /\ stateFile'.next_sequence \in Nat
         /\ DOMAIN stateFile'.runtime \subseteq Ids
         /\ \A id \in DOMAIN stateFile'.runtime : stateFile'.runtime[id] \in MessageRuntime
<1>1. CASE stateFile' = stateFile
  BY <1>1 DEF DiskTypeOK
<1>2. CASE stateFile' = [next_sequence |-> nextSeq', runtime |-> runtime']
  BY <1>2 DEF TableOK
<1> QED
  BY <1>1, <1>2 DEF PersistGroupState
\* What LoadGroupState rebuilds is well typed.
LEMMA RecoveredRuntimeType ==
  ASSUME DiskTypeOK, clock \in Nat, NEW id \in Ids, NEW o \in Nat
  PROVE  RecoveredRuntime(eventLog, id, o) \in MessageRuntime
<1> DEFINE default == [state |-> "ready", offset |-> o, retry_count |-> 0,
                       available_after |-> 0, sequence |-> 0]
           restored == IF id \in DOMAIN stateFile.runtime
                       THEN stateFile.runtime[id] ELSE default
<1>1. restored \in MessageRuntime
  BY DEF DiskTypeOK, MessageRuntime, States
<1>2. restored.offset \in Nat
  BY <1>1 DEF MessageRuntime
<1>3. Replayed(eventLog, id, o) \in MessageRuntime
  <2>1. CASE EventsOf(eventLog, id) = {}
    BY <1>1, <2>1 DEF Replayed
  <2>2. CASE EventsOf(eventLog, id) # {}
    <3>1. LastEvent(eventLog, id) \in Event
      BY <2>2, LastEventProperties DEF DiskTypeOK
    <3>2. Runtime(LastEvent(eventLog, id), restored.offset) \in MessageRuntime
      BY <3>1, <1>2, RuntimeType
    <3> QED
      BY <2>2, <3>2 DEF Replayed
  <2> QED
    BY <2>1, <2>2
<1> QED
  BY <1>3 DEF RecoveredRuntime, MessageRuntime, States

LEMMA RecoveredInflightType ==
  ASSUME DiskTypeOK
  PROVE  /\ DOMAIN RecoveredInflight(eventLog) \subseteq KnownIds
         /\ \A id \in DOMAIN RecoveredInflight(eventLog) :
               /\ EventsOf(eventLog, id) # {}
               /\ LastEvent(eventLog, id).state = "inflight"
               /\ RecoveredInflight(eventLog)[id].sequence = LastEvent(eventLog, id).sequence
               /\ RecoveredInflight(eventLog)[id] \in InflightEntry
<1> SUFFICES ASSUME NEW id \in DOMAIN RecoveredInflight(eventLog)
             PROVE  /\ id \in KnownIds
                    /\ EventsOf(eventLog, id) # {}
                    /\ LastEvent(eventLog, id).state = "inflight"
                    /\ RecoveredInflight(eventLog)[id].sequence = LastEvent(eventLog, id).sequence
                    /\ RecoveredInflight(eventLog)[id] \in InflightEntry
  OBVIOUS
<1>1. /\ id \in KnownIds
      /\ EventsOf(eventLog, id) # {}
      /\ LastEvent(eventLog, id).state = "inflight"
      /\ RecoveredInflight(eventLog)[id] = [deadline |-> LastEvent(eventLog, id).deadline,
                                            sequence |-> LastEvent(eventLog, id).sequence]
  BY DEF RecoveredInflight
<1>2. LastEvent(eventLog, id) \in Event
  BY <1>1, LastEventProperties DEF DiskTypeOK
<1> QED
  BY <1>1, <1>2 DEF Event, InflightEntry

LEMMA RecoveredWheelType ==
  ASSUME DiskTypeOK
  PROVE  RecoveredWheel(eventLog) \in WheelType
<1>1. \A i \in DOMAIN eventLog : <<eventLog[i].id, eventLog[i].sequence>> \in Ids \X Nat
  BY EventTypes DEF DiskTypeOK
<1> QED
  BY <1>1 DEF RecoveredWheel, WheelType

\* The last event has the largest sequence, which bounds the others.
LEMMA LogBounded ==
  ASSUME eventLog \in Seq(Event), SequencesMonotonic
  PROVE  \E n \in Nat : \A i \in DOMAIN eventLog : eventLog[i].sequence <= n
<1>1. CASE eventLog = <<>>
  BY <1>1
<1>2. CASE eventLog # <<>>
  <2>1. Len(eventLog) \in DOMAIN eventLog /\ DOMAIN eventLog = 1 .. Len(eventLog)
    BY <1>2
  <2> DEFINE n == eventLog[Len(eventLog)].sequence
  <2>2. n \in Nat
    BY <2>1, EventTypes
  <2>3. ASSUME NEW i \in DOMAIN eventLog PROVE eventLog[i].sequence <= n
    <3>1. eventLog[i].sequence \in Nat
      BY EventTypes
    <3>2. i = Len(eventLog) \/ i < Len(eventLog)
      BY <2>1
    <3> QED
      BY <2>1, <2>2, <3>1, <3>2 DEF SequencesMonotonic
  <2> QED
    BY <2>2, <2>3
<1> QED
  BY <1>1, <1>2
LEMMA EmptyDomain == DOMAIN EmptyFn = {}
BY DEF EmptyFn

LEMMA EmptyWheel == [s \in Slots |-> {}] \in WheelType
BY DEF WheelType

LEMMA InitType == Init => TypeOK
<1> SUFFICES ASSUME Init PROVE TypeOK
  OBVIOUS
<1>1. DiskTypeOK
  BY EmptyDomain DEF Init, DiskTypeOK, EmptyState
<1>2. SegmentTypeOK
  BY EmptyDomain DEF Init, SegmentTypeOK
<1>3. GroupTypeOK
  BY EmptyDomain, EmptyWheel DEF Init, GroupTypeOK, WheelType
<1>4. CallTypeOK
  BY DEF Init, CallTypeOK
<1> QED
  BY <1>1, <1>2, <1>3, <1>4 DEF TypeOK

\* The event Deliver, Ack, Nack and the reaper build is an event.
LEMMA RetryEventType ==
  ASSUME nextSeq \in Nat, NEW id \in Ids, NEW r \in Nat, NEW at \in Nat
  PROVE  RetryEvent(id, r, at) \in Event /\ RetryEvent(id, r, at).id = id
BY TimesAssumption DEF RetryEvent, Event, States

LEMMA TickTypeStep == ASSUME TypeOK, Tick PROVE TypeOK'
BY DEF TypeOK, DiskTypeOK, SegmentTypeOK, GroupTypeOK, CallTypeOK, Tick,
       disk, segment, group, running, history

LEMMA SetClockBackType == ASSUME TypeOK, SetClockBack PROVE TypeOK'
BY DEF TypeOK, DiskTypeOK, SegmentTypeOK, GroupTypeOK, CallTypeOK, SetClockBack,
       disk, segment, group, running

LEMMA RestartType == ASSUME TypeOK, Restart PROVE TypeOK'
<1> USE DEF TypeOK
<1>1. DiskTypeOK' /\ GroupTypeOK' /\ CallTypeOK'
  BY DEF DiskTypeOK, GroupTypeOK, CallTypeOK, Restart, disk, group, history
<1>2. \A p \in DOMAIN segFile : segFile[p].offset \in Nat
  <2>1. \A p \in DOMAIN segFile : segFile[p] \in Record
    BY DEF DiskTypeOK
  <2> QED
    BY <2>1 DEF Record
<1>3. segNext' \in Nat
  <2>1. CASE segFile = <<>>
    BY <2>1 DEF Restart, RecoverNextOffset
  <2>2. CASE segFile # <<>>
    <3>1. Len(segFile) \in DOMAIN segFile
      BY <2>2 DEF DiskTypeOK
    <3> QED
      BY <2>2, <3>1, <1>2 DEF Restart, RecoverNextOffset
  <2> QED
    BY <2>1, <2>2
<1>4. segIndex' = RecoverIndex(segFile) /\ segFile' = segFile /\ segPos' = 0
  BY DEF Restart, disk
<1>5. DOMAIN segIndex' \subseteq Nat
  BY <1>2, <1>4 DEF RecoverIndex
<1>6. ASSUME NEW o \in DOMAIN segIndex' PROVE segIndex'[o] \in DOMAIN segFile'
  <2> DEFINE P == {p \in DOMAIN segFile : segFile[p].offset = o}
  <2>1. P \in SUBSET DOMAIN segFile /\ P # {} /\ segIndex'[o] = Max(P)
    BY <1>4 DEF RecoverIndex
  <2> HIDE DEF P
  <2>2. Max(P) \in P
    BY <2>1, MaxPosition DEF DiskTypeOK
  <2> QED
    BY <2>1, <2>2, <1>4
<1>7. SegmentTypeOK'
  BY <1>3, <1>4, <1>5, <1>6 DEF SegmentTypeOK, DiskTypeOK
<1> QED
  BY <1>1, <1>7

LEMMA LoseMemoryType ==
  ASSUME TypeOK, LoseMemory, eventLog' \in Seq(Event)
  PROVE  TypeOK'
<1> USE DEF TypeOK
<1>1. DiskTypeOK'
  BY DEF LoseMemory, DiskTypeOK
<1>2. SegmentTypeOK'
  BY EmptyDomain DEF LoseMemory, SegmentTypeOK, DiskTypeOK
<1>3. GroupTypeOK'
  BY EmptyDomain, EmptyWheel DEF LoseMemory, GroupTypeOK, WheelType
<1>4. CallTypeOK'
  BY DEF LoseMemory, CallTypeOK
<1> QED
  BY <1>1, <1>2, <1>3, <1>4

LEMMA CrashType == ASSUME TypeOK, Crash PROVE TypeOK'
BY LoseMemoryType DEF Crash, TypeOK, DiskTypeOK

LEMMA PowerLossType == ASSUME TypeOK, PowerLoss PROVE TypeOK'
<1>1. PICK n \in 0 .. Len(eventLog) : eventLog' = SubSeq(eventLog, 1, n)
  BY DEF PowerLoss
<1>2. eventLog \in Seq(Event)
  BY DEF TypeOK, DiskTypeOK
<1>3. eventLog' \in Seq(Event)
  BY <1>1, <1>2
<1> QED
  BY <1>3, LoseMemoryType DEF PowerLoss

LEMMA ProduceType ==
  ASSUME TypeOK, NEW id \in Ids, NEW fp, Produce(id, fp)
  PROVE  TypeOK'
<1> USE DEF TypeOK
<1> DEFINE rec == [id |-> id, offset |-> segNext]
<1>1. rec \in Record
  BY DEF Record, SegmentTypeOK
<1>2. segFile \in Seq(Record) /\ segPos \in 0 .. Len(segFile)
  BY DEF DiskTypeOK, SegmentTypeOK
<1>3. /\ segFile' \in Seq(Record) /\ Len(segFile') >= Len(segFile)
      /\ segPos + 1 <= Len(segFile')
  <2> HIDE DEF rec
  <2>1. segFile' = WriteAll(segFile, segPos, rec)
    BY DEF Produce, SegmentAppend, rec
  <2>2. CASE segPos < Len(segFile)
    BY <1>1, <1>2, <2>1, <2>2 DEF WriteAll
  <2>3. CASE ~(segPos < Len(segFile))
    BY <1>1, <1>2, <2>1, <2>3 DEF WriteAll
  <2> QED
    BY <2>2, <2>3
<1>4. DiskTypeOK' /\ GroupTypeOK' /\ CallTypeOK'
  BY <1>3 DEF DiskTypeOK, GroupTypeOK, CallTypeOK, Produce, group, running, history
<1>5. segPos' = segPos + 1 /\ segPos' \in 0 .. Len(segFile') /\ segPos' \in DOMAIN segFile'
  BY <1>2, <1>3 DEF Produce, SegmentAppend
<1>6. DOMAIN segFile \subseteq DOMAIN segFile'
  BY <1>2, <1>3
<1>7. SegmentTypeOK'
  BY <1>5, <1>6 DEF SegmentTypeOK, Produce, SegmentAppend, Put
<1> QED
  BY <1>4, <1>7

LEMMA GetGroupType ==
  ASSUME TypeOK, SequencesMonotonic, GetGroup
  PROVE  TypeOK'
<1> USE DEF TypeOK
<1>1. DiskTypeOK' /\ SegmentTypeOK' /\ CallTypeOK'
  BY DEF DiskTypeOK, SegmentTypeOK, CallTypeOK, GetGroup, disk, segment, running, history
<1>2. KnownIds \subseteq Ids
  BY KnownIdsType
<1>3. DOMAIN runtime' = KnownIds /\ \A id \in DOMAIN runtime' : runtime'[id] \in MessageRuntime
  <2>1. PICK at \in [KnownIds -> DOMAIN segIndex] :
           runtime' = [id \in KnownIds |-> RecoveredRuntime(eventLog, id, at[id])]
    BY DEF GetGroup
  <2>2. ASSUME NEW id \in KnownIds PROVE runtime'[id] \in MessageRuntime
    <3>1. at[id] \in Nat
      BY DEF SegmentTypeOK
    <3>2. RecoveredRuntime(eventLog, id, at[id]) \in MessageRuntime
      BY <1>2, <3>1, RecoveredRuntimeType DEF CallTypeOK
    <3> QED
      BY <2>1, <3>2
  <2> QED
    BY <2>1, <2>2
<1>4. /\ DOMAIN inflight' \subseteq KnownIds
      /\ \A id \in DOMAIN inflight' : inflight'[id] \in InflightEntry
  BY RecoveredInflightType DEF GetGroup
<1>5. wheel' \in WheelType
  BY RecoveredWheelType DEF GetGroup
<1>6. nextSeq' \in Nat
  BY LogBounded, RecoveredSeqProperties DEF GetGroup, DiskTypeOK
<1>7. base' \in Nat /\ loaded' \in BOOLEAN
  BY DivNat DEF GetGroup, CallTypeOK
<1>8. GroupTypeOK'
  BY <1>2, <1>3, <1>4, <1>5, <1>6, <1>7 DEF GroupTypeOK, WheelType
<1> QED
  BY <1>1, <1>8
LEMMA BeginType == ASSUME TypeOK, NEW c \in {"consume", "stats"}, Begin(c) PROVE TypeOK'
BY DEF TypeOK, DiskTypeOK, SegmentTypeOK, GroupTypeOK, CallTypeOK, Begin,
       disk, segment, group, history

LEMMA ReapTimeoutType ==
  ASSUME TypeOK, NEW x, NEW fp, ReapTimeout(x, fp)
  PROVE  TypeOK'
<1> USE DEF TypeOK
<1> DEFINE e == RetryEvent(x[1], runtime[x[1]].retry_count + 1, now)
           w == [wheel EXCEPT ![base % WheelSize] = @ \ {x}]
           early == {"before_timeout_transition", "before_log_append"}
<1>1. x[1] \in DOMAIN runtime /\ x[1] \in Ids
  BY DEF ReapTimeout, Due, Reached, GroupTypeOK
<1>2. runtime[x[1]].retry_count + 1 \in Nat
  BY <1>1 DEF GroupTypeOK, MessageRuntime
<1>3. e \in Event /\ e.id \in DOMAIN runtime
  BY <1>1, <1>2, RetryEventType DEF GroupTypeOK, CallTypeOK
<1>4. w \in WheelType
  BY DEF GroupTypeOK, WheelType
<1>5. AppendTransition(e, runtime, w, early, fp)
  BY DEF ReapTimeout
<1> HIDE DEF e, w, early
<1>6. TableOK(runtime) /\ DOMAIN inflight \subseteq DOMAIN runtime /\ eventLog \in Seq(Event)
  BY DEF GroupTypeOK, TableOK, DiskTypeOK
<1>7. /\ eventLog' \in Seq(Event) /\ nextSeq' \in Nat
      /\ TableOK(runtime)'
      /\ DOMAIN inflight' \subseteq DOMAIN runtime'
      /\ \A id \in DOMAIN inflight' : inflight'[id] \in InflightEntry
      /\ wheel' \in WheelType
  BY <1>3, <1>4, <1>5, <1>6, AppendTransitionType
<1>8. UNCHANGED <<clock, segFile, stateFile, segment, loaded, base, running, history>>
  BY DEF ReapTimeout
<1>9. DiskTypeOK' /\ SegmentTypeOK' /\ CallTypeOK'
  BY <1>7, <1>8 DEF DiskTypeOK, SegmentTypeOK, CallTypeOK, segment, running, history
<1>10. GroupTypeOK'
  BY <1>7, <1>8 DEF GroupTypeOK, TableOK, WheelType
<1> QED
  BY <1>9, <1>10

LEMMA ReapAdvanceType == ASSUME TypeOK, ReapAdvance PROVE TypeOK'
<1> USE DEF TypeOK
<1>1. DiskTypeOK' /\ SegmentTypeOK' /\ CallTypeOK'
  BY DEF DiskTypeOK, SegmentTypeOK, CallTypeOK, ReapAdvance, disk, segment, running, history
<1>2. wheel' \in WheelType
  <2> DEFINE kept == {x \in Bucket : Reached(x)}
             others == [wheel EXCEPT ![base % WheelSize] = {}]
  <2>1. kept \subseteq Ids \X Nat
    BY ModSlot DEF Bucket, GroupTypeOK
  <2>2. others \in WheelType
    BY DEF GroupTypeOK, WheelType
  <2>3. wheel' = [s \in Slots |-> others[s] \cup
                     {x \in kept : Slot(inflight[x[1]].deadline) = s}]
    BY DEF ReapAdvance
  <2> HIDE DEF kept, others
  <2> QED
    BY <2>1, <2>2, <2>3 DEF WheelType
<1>3. GroupTypeOK'
  BY <1>2 DEF GroupTypeOK, ReapAdvance, WheelType
<1> QED
  BY <1>1, <1>3

LEMMA ReapEndType == ASSUME TypeOK, ReapEnd PROVE TypeOK'
BY DEF TypeOK, DiskTypeOK, SegmentTypeOK, GroupTypeOK, CallTypeOK, ReapEnd,
       disk, segment, group, history

LEMMA ReturnType ==
  ASSUME TypeOK, Return, UNCHANGED <<clock, disk, segment, group, history>>
  PROVE  TypeOK'
BY DEF TypeOK, DiskTypeOK, SegmentTypeOK, GroupTypeOK, CallTypeOK, Return,
       disk, segment, group, history

\* Deliver: the message read at the front offset, with a table entry made
\* for it if it had none.
LEMMA DeliverType == ASSUME TypeOK, NEW fp, Deliver(fp) PROVE TypeOK'
<1> USE DEF TypeOK
<1> DEFINE offset == FrontReady
           id == Read(offset)
           fresh == [state |-> "ready", offset |-> offset, retry_count |-> 0,
                     available_after |-> 0, sequence |-> 0]
           rt == IF id \in DOMAIN runtime THEN runtime ELSE Put(runtime, id, fresh)
           e == [sequence |-> nextSeq, id |-> id, state |-> "inflight",
                 retry_count |-> rt[id].retry_count, available_after |-> clock,
                 deadline |-> clock + VisibilityTimeout]
           early == {"before_lease_issue", "before_log_append"}
<1>1. /\ offset \in DOMAIN segIndex
      /\ AppendTransition(e, rt, wheel, early, fp)
      /\ leases' = IF fp = "none"
                   THEN leases \cup {[id |-> id, sequence |-> nextSeq]} ELSE leases
      /\ PersistGroupState(fp)
      /\ UNCHANGED <<clock, segFile, segment, loaded, base, acked, restarts, setbacks>>
      /\ pc' = "idle" /\ call' = "none" /\ now' = 0
  BY DEF Deliver, Return
<1>2. offset \in Nat /\ id \in Ids
  BY <1>1, KnownIdsType DEF SegmentTypeOK
<1>3. fresh \in MessageRuntime
  BY <1>2 DEF MessageRuntime, States
<1>4. TableOK(rt) /\ id \in DOMAIN rt /\ DOMAIN inflight \subseteq DOMAIN rt
  <2> HIDE DEF fresh, id
  <2> QED
    BY <1>2, <1>3 DEF TableOK, GroupTypeOK, Put
<1>5. rt[id].retry_count \in Nat
  <2> HIDE DEF rt, id
  <2> QED
    BY <1>4 DEF TableOK, MessageRuntime
<1>6. e \in Event /\ e.id = id
  <2> HIDE DEF rt, id
  <2> QED
    BY <1>2, <1>5, TimesAssumption DEF Event, States, GroupTypeOK, CallTypeOK
<1>7. wheel \in WheelType /\ eventLog \in Seq(Event)
  BY DEF GroupTypeOK, WheelType, DiskTypeOK
<1> HIDE DEF rt, e, early, id, fresh, offset
<1>8. /\ eventLog' \in Seq(Event) /\ nextSeq' \in Nat
      /\ TableOK(runtime)'
      /\ DOMAIN inflight' \subseteq DOMAIN runtime'
      /\ \A i \in DOMAIN inflight' : inflight'[i] \in InflightEntry
      /\ wheel' \in WheelType
  BY <1>1, <1>4, <1>6, <1>7, AppendTransitionType
<1>9. DiskTypeOK'
  BY <1>1, <1>8, PersistType DEF DiskTypeOK
<1>10. SegmentTypeOK'
  BY <1>1 DEF SegmentTypeOK, segment
<1>11. GroupTypeOK'
  BY <1>1, <1>8 DEF GroupTypeOK, TableOK, WheelType
<1>12. CallTypeOK'
  BY <1>1, <1>2 DEF CallTypeOK, GroupTypeOK, Lease
<1> QED
  BY <1>9, <1>10, <1>11, <1>12

\* The calls that end a lease.
LEMMA EndLeaseType ==
  ASSUME TypeOK, NEW e \in Event, e.id \in DOMAIN runtime, NEW early, NEW fp,
         AppendTransition(e, runtime, wheel, early, fp), PersistGroupState(fp),
         UNCHANGED <<clock, segFile, segment, loaded, base, running, leases, restarts, setbacks>>,
         acked' \subseteq leases
  PROVE  TypeOK'
<1> USE DEF TypeOK
<1>1. /\ wheel \in WheelType /\ eventLog \in Seq(Event)
      /\ TableOK(runtime) /\ DOMAIN inflight \subseteq DOMAIN runtime
  BY DEF GroupTypeOK, WheelType, DiskTypeOK, TableOK
<1>2. /\ eventLog' \in Seq(Event) /\ nextSeq' \in Nat
      /\ TableOK(runtime)'
      /\ DOMAIN inflight' \subseteq DOMAIN runtime'
      /\ \A i \in DOMAIN inflight' : inflight'[i] \in InflightEntry
      /\ wheel' \in WheelType
  BY <1>1, AppendTransitionType
<1>3. DiskTypeOK'
  BY <1>2, PersistType DEF DiskTypeOK
<1>4. SegmentTypeOK' /\ CallTypeOK'
  BY DEF SegmentTypeOK, CallTypeOK, segment, running
<1>5. GroupTypeOK'
  BY <1>2 DEF GroupTypeOK, TableOK, WheelType
<1> QED
  BY <1>3, <1>4, <1>5

LEMMA AckType == ASSUME TypeOK, NEW l \in leases, NEW fp, Ack(l, fp) PROVE TypeOK'
<1> USE DEF TypeOK
<1> DEFINE e == [sequence |-> nextSeq, id |-> l.id, state |-> "acked",
                 retry_count |-> runtime[l.id].retry_count,
                 available_after |-> 0, deadline |-> 0]
<1>1. l.id \in DOMAIN runtime /\ l.id \in Ids
  BY DEF Ack, GroupTypeOK
<1>2. e \in Event /\ e.id \in DOMAIN runtime
  BY <1>1 DEF Event, States, GroupTypeOK, MessageRuntime
<1>3. acked' \subseteq leases
  BY DEF Ack, CallTypeOK
<1>4. /\ AppendTransition(e, runtime, wheel, {"before_ack_transition", "before_log_append"}, fp)
      /\ PersistGroupState(fp)
      /\ UNCHANGED <<clock, segFile, segment, loaded, base, running, leases, restarts, setbacks>>
  BY DEF Ack
<1> HIDE DEF e
<1> QED
  BY <1>2, <1>3, <1>4, EndLeaseType

LEMMA NackType ==
  ASSUME TypeOK, NEW l \in leases, NEW requeue \in BOOLEAN, NEW fp, Nack(l, requeue, fp)
  PROVE  TypeOK'
<1> USE DEF TypeOK
<1> DEFINE e == NackEvent(l.id, requeue)
<1>1. l.id \in DOMAIN runtime /\ l.id \in Ids
  BY DEF Nack, GroupTypeOK
<1>2. runtime[l.id].retry_count \in Nat
  BY <1>1 DEF GroupTypeOK, MessageRuntime
<1>3. e \in Event /\ e.id = l.id
  <2>1. CASE requeue
    BY <1>1, <1>2, <2>1, RetryEventType DEF NackEvent, GroupTypeOK, CallTypeOK
  <2>2. CASE ~requeue
    BY <1>1, <1>2, <2>2 DEF NackEvent, GroupTypeOK, Event, States
  <2> QED
    BY <2>1, <2>2
<1>4. /\ AppendTransition(e, runtime, wheel, {"before_dlq_move", "before_log_append"}, fp)
      /\ PersistGroupState(fp)
      /\ UNCHANGED <<clock, segFile, segment, loaded, base, running, leases, restarts, setbacks>>
      /\ acked' \subseteq leases
  BY DEF Nack, history, CallTypeOK
<1> HIDE DEF e
<1> QED
  BY <1>1, <1>3, <1>4, EndLeaseType
-----------------------------------------------------------------------------
(* Sequences.  A call takes its sequence from next_sequence, which is past *)
(* everything on disk while the group is loaded, and recovery restores it  *)
(* past both files; a power loss only shortens the log, and the snapshot   *)
(* still bounds the leases handed out.                                     *)

LEMMA AppendSequence ==
  ASSUME TypeOK, SequenceInv, loaded,
         NEW e \in Event, e.sequence = nextSeq,
         NEW rt, NEW w, NEW early, NEW fp, AppendTransition(e, rt, w, early, fp)
  PROVE  /\ SequencesMonotonic'
         /\ nextSeq' = nextSeq + 1 /\ nextSeq \in Nat
         /\ \A i \in DOMAIN eventLog' : eventLog'[i].sequence < nextSeq'
<1>1. /\ eventLog \in Seq(Event) /\ nextSeq \in Nat /\ nextSeq' = nextSeq + 1
      /\ \A i \in DOMAIN eventLog : eventLog[i].sequence \in Nat /\ eventLog[i].sequence < nextSeq
      /\ \A i, j \in DOMAIN eventLog : i < j => eventLog[i].sequence < eventLog[j].sequence
  BY EventTypes DEF TypeOK, DiskTypeOK, GroupTypeOK, SequenceInv, SequencesMonotonic, AppendTransition
<1>2. CASE eventLog' = eventLog
  <2>1. \A i \in DOMAIN eventLog' : eventLog'[i].sequence < nextSeq'
    BY <1>1, <1>2
  <2> QED
    BY <1>1, <1>2, <2>1 DEF SequencesMonotonic
<1>3. CASE eventLog' = Append(eventLog, e)
  <2>1. /\ DOMAIN eventLog' = 1 .. Len(eventLog) + 1
        /\ DOMAIN eventLog = 1 .. Len(eventLog)
        /\ \A i \in DOMAIN eventLog : eventLog'[i] = eventLog[i]
        /\ eventLog'[Len(eventLog) + 1] = e
        /\ Len(eventLog) \in Nat
    BY <1>1, <1>3
  <2>2. \A i \in DOMAIN eventLog' : eventLog'[i].sequence < nextSeq'
    BY <1>1, <2>1
  <2>3. ASSUME NEW i \in DOMAIN eventLog', NEW j \in DOMAIN eventLog', i < j
        PROVE  eventLog'[i].sequence < eventLog'[j].sequence
    <3>1. i \in DOMAIN eventLog
      BY <2>1, <2>3
    <3>2. CASE j \in DOMAIN eventLog
      BY <1>1, <2>1, <2>3, <3>1, <3>2
    <3>3. CASE j = Len(eventLog) + 1
      BY <1>1, <2>1, <3>1, <3>3
    <3> QED
      BY <2>1, <3>2, <3>3
  <2> QED
    BY <1>1, <2>2, <2>3 DEF SequencesMonotonic
<1> QED
  BY <1>2, <1>3 DEF AppendTransition

LEMMA PersistSequence ==
  ASSUME TypeOK, SequenceInv, loaded, nextSeq' = nextSeq + 1,
         NEW fp, PersistGroupState(fp)
  PROVE  /\ stateFile'.next_sequence <= nextSeq'
         /\ stateFile.next_sequence <= stateFile'.next_sequence
         /\ stateFile'.next_sequence \in Nat
         /\ fp = "none" => stateFile'.next_sequence = nextSeq'
<1>1. /\ stateFile.next_sequence \in Nat /\ nextSeq \in Nat
      /\ stateFile.next_sequence <= nextSeq
  BY DEF TypeOK, DiskTypeOK, GroupTypeOK, SequenceInv
<1>2. CASE fp \in {"none", "fsync_dir"}
  <2>1. stateFile'.next_sequence = nextSeq'
    BY <1>2 DEF PersistGroupState
  <2> QED
    BY <1>1, <2>1
<1>3. CASE ~(fp \in {"none", "fsync_dir"})
  <2>1. stateFile' = stateFile
    BY <1>3 DEF PersistGroupState
  <2> QED
    BY <1>1, <1>3, <2>1
<1> QED
  BY <1>2, <1>3

\* Leases of earlier calls stay below the snapshot as it only grows.
LEMMA OldLeases ==
  ASSUME TypeOK, SequenceInv, stateFile'.next_sequence \in Nat,
         stateFile.next_sequence <= stateFile'.next_sequence
  PROVE  \A l \in leases : l.sequence \in Nat /\ l.sequence < stateFile'.next_sequence
BY DEF TypeOK, DiskTypeOK, CallTypeOK, SequenceInv, Lease

LEMMA CutSequence ==
  ASSUME eventLog \in Seq(Event), SequencesMonotonic, NEW n \in 0 .. Len(eventLog),
         eventLog' = SubSeq(eventLog, 1, n)
  PROVE  SequencesMonotonic'
<1>1. /\ DOMAIN eventLog' = 1 .. n
      /\ DOMAIN eventLog = 1 .. Len(eventLog)
      /\ \A i \in 1 .. n : eventLog'[i] = eventLog[i]
  OBVIOUS
<1> QED
  BY <1>1 DEF SequencesMonotonic

LEMMA DeliverSequence ==
  ASSUME TypeOK, SequenceInv, NEW fp, Deliver(fp)
  PROVE  /\ SequenceInv'
         /\ \A l \in leases' \ leases : \A k \in leases : k.sequence < l.sequence
<1> DEFINE offset == FrontReady
           id == Read(offset)
           fresh == [state |-> "ready", offset |-> offset, retry_count |-> 0,
                     available_after |-> 0, sequence |-> 0]
           rt == IF id \in DOMAIN runtime THEN runtime ELSE Put(runtime, id, fresh)
           e == [sequence |-> nextSeq, id |-> id, state |-> "inflight",
                 retry_count |-> rt[id].retry_count, available_after |-> clock,
                 deadline |-> clock + VisibilityTimeout]
           early == {"before_lease_issue", "before_log_append"}
           lease == [id |-> id, sequence |-> nextSeq]
<1>1. /\ loaded /\ loaded' = loaded /\ pc' = "idle"
      /\ AppendTransition(e, rt, wheel, early, fp)
      /\ leases' = IF fp = "none" THEN leases \cup {lease} ELSE leases
      /\ PersistGroupState(fp)
  BY DEF Deliver, Return, SequenceInv
<1>2. e \in Event /\ e.sequence = nextSeq /\ lease.sequence = nextSeq
  <2>1. id \in Ids /\ offset \in Nat
    BY KnownIdsType DEF Deliver, TypeOK, SegmentTypeOK
  <2>2. rt[id].retry_count \in Nat
    <3>1. CASE id \in DOMAIN runtime
      BY <3>1 DEF TypeOK, GroupTypeOK, MessageRuntime
    <3>2. CASE id \notin DOMAIN runtime
      BY <3>2 DEF Put
    <3> QED
      BY <3>1, <3>2
  <2> HIDE DEF rt, id
  <2> QED
    BY <2>1, <2>2, TimesAssumption DEF Event, States, TypeOK, GroupTypeOK, CallTypeOK
<1> HIDE DEF rt, e, early, id, fresh, offset, lease
<1>3. /\ SequencesMonotonic'
      /\ nextSeq' = nextSeq + 1 /\ nextSeq \in Nat
      /\ \A i \in DOMAIN eventLog' : eventLog'[i].sequence < nextSeq'
  BY <1>1, <1>2, AppendSequence
<1>4. /\ stateFile'.next_sequence <= nextSeq'
      /\ stateFile.next_sequence <= stateFile'.next_sequence
      /\ stateFile'.next_sequence \in Nat
      /\ fp = "none" => stateFile'.next_sequence = nextSeq'
  BY <1>1, <1>3, PersistSequence
<1>5. \A l \in leases : l.sequence \in Nat /\ l.sequence < stateFile'.next_sequence
  BY <1>4, OldLeases
<1>6. \A l \in leases' : l.sequence < stateFile'.next_sequence
  BY <1>1, <1>2, <1>3, <1>4, <1>5
<1>7. SequenceInv'
  BY <1>1, <1>3, <1>4, <1>6 DEF SequenceInv
<1>8. \A k \in leases : k.sequence < nextSeq
  BY DEF SequenceInv, TypeOK, DiskTypeOK, GroupTypeOK, CallTypeOK, Lease, Deliver
<1>9. \A l \in leases' \ leases : \A k \in leases : k.sequence < l.sequence
  BY <1>1, <1>2, <1>8
<1> QED
  BY <1>7, <1>9

\* Ack and Nack.
LEMMA EndLeaseSequence ==
  ASSUME TypeOK, SequenceInv, loaded, NEW e \in Event, e.sequence = nextSeq,
         NEW rt, NEW w, NEW early, NEW fp,
         AppendTransition(e, rt, w, early, fp), PersistGroupState(fp),
         UNCHANGED <<loaded, pc, leases>>
  PROVE  SequenceInv'
<1>1. /\ SequencesMonotonic'
      /\ nextSeq' = nextSeq + 1 /\ nextSeq \in Nat
      /\ \A i \in DOMAIN eventLog' : eventLog'[i].sequence < nextSeq'
  BY AppendSequence
<1>2. /\ stateFile'.next_sequence <= nextSeq'
      /\ stateFile.next_sequence <= stateFile'.next_sequence
      /\ stateFile'.next_sequence \in Nat
  BY <1>1, PersistSequence
<1>3. \A l \in leases : l.sequence < stateFile'.next_sequence
  BY <1>2, OldLeases
<1> QED
  BY <1>1, <1>2, <1>3 DEF SequenceInv

LEMMA AckSequence ==
  ASSUME TypeOK, SequenceInv, NEW l \in leases, NEW fp, Ack(l, fp)
  PROVE  SequenceInv'
<1> DEFINE e == [sequence |-> nextSeq, id |-> l.id, state |-> "acked",
                 retry_count |-> runtime[l.id].retry_count,
                 available_after |-> 0, deadline |-> 0]
<1>1. l.id \in DOMAIN runtime /\ l.id \in Ids
  BY DEF Ack, TypeOK, GroupTypeOK
<1>2. e \in Event /\ e.sequence = nextSeq
  BY <1>1 DEF Event, States, TypeOK, GroupTypeOK, MessageRuntime
<1>3. /\ AppendTransition(e, runtime, wheel, {"before_ack_transition", "before_log_append"}, fp)
      /\ PersistGroupState(fp) /\ loaded
      /\ UNCHANGED <<loaded, pc, leases>>
  BY DEF Ack, running
<1> HIDE DEF e
<1> QED
  BY <1>2, <1>3, EndLeaseSequence

LEMMA NackSequence ==
  ASSUME TypeOK, SequenceInv, NEW l \in leases, NEW requeue \in BOOLEAN, NEW fp,
         Nack(l, requeue, fp)
  PROVE  SequenceInv'
<1> DEFINE e == NackEvent(l.id, requeue)
<1>1. l.id \in Ids /\ runtime[l.id].retry_count \in Nat /\ nextSeq \in Nat /\ clock \in Nat
  BY DEF Nack, TypeOK, GroupTypeOK, CallTypeOK, MessageRuntime
<1>2. e \in Event
  <2>1. CASE requeue
    BY <1>1, <2>1, RetryEventType DEF NackEvent
  <2>2. CASE ~requeue
    BY <1>1, <2>2 DEF NackEvent, Event, States
  <2> QED
    BY <2>1, <2>2
<1>3. e.sequence = nextSeq
  BY DEF NackEvent, RetryEvent
<1>4. /\ AppendTransition(e, runtime, wheel, {"before_dlq_move", "before_log_append"}, fp)
      /\ PersistGroupState(fp) /\ loaded
      /\ UNCHANGED <<loaded, pc, leases>>
  BY DEF Nack, running, history
<1> HIDE DEF e
<1> QED
  BY <1>2, <1>3, <1>4, EndLeaseSequence

LEMMA ReapTimeoutSequence ==
  ASSUME TypeOK, SequenceInv, NEW x, NEW fp, ReapTimeout(x, fp)
  PROVE  SequenceInv'
<1> DEFINE e == RetryEvent(x[1], runtime[x[1]].retry_count + 1, now)
           w == [wheel EXCEPT ![base % WheelSize] = @ \ {x}]
           early == {"before_timeout_transition", "before_log_append"}
<1>1. x[1] \in DOMAIN runtime /\ x[1] \in Ids
  BY DEF ReapTimeout, Due, Reached, TypeOK, GroupTypeOK
<1>2. runtime[x[1]].retry_count + 1 \in Nat /\ nextSeq \in Nat /\ now \in Nat
  BY <1>1 DEF TypeOK, GroupTypeOK, CallTypeOK, MessageRuntime
<1>3. e \in Event /\ e.sequence = nextSeq
  BY <1>1, <1>2, RetryEventType DEF RetryEvent
<1>4. /\ AppendTransition(e, runtime, w, early, fp)
      /\ loaded /\ UNCHANGED <<stateFile, loaded, pc, leases>>
  BY DEF ReapTimeout, InWheelLoop, SequenceInv, running, history
<1> HIDE DEF e, w, early
<1>5. /\ SequencesMonotonic'
      /\ nextSeq' = nextSeq + 1 /\ nextSeq \in Nat
      /\ \A i \in DOMAIN eventLog' : eventLog'[i].sequence < nextSeq'
  BY <1>3, <1>4, AppendSequence
<1>6. stateFile.next_sequence \in Nat /\ stateFile.next_sequence <= nextSeq
  BY <1>4 DEF TypeOK, DiskTypeOK, SequenceInv
<1>7. stateFile'.next_sequence <= nextSeq'
  BY <1>4, <1>5, <1>6
<1> QED
  BY <1>4, <1>5, <1>7 DEF SequenceInv
LEMMA GetGroupSequence ==
  ASSUME TypeOK, SequenceInv, GetGroup
  PROVE  SequenceInv'
<1>1. eventLog \in Seq(Event) /\ stateFile.next_sequence \in Nat /\ SequencesMonotonic
  BY DEF TypeOK, DiskTypeOK, SequenceInv
<1>2. PICK n \in Nat : \A i \in DOMAIN eventLog : eventLog[i].sequence <= n
  BY <1>1, LogBounded
<1>3. /\ RecoveredSeq(eventLog) \in Nat
      /\ RecoveredSeq(eventLog) >= stateFile.next_sequence
      /\ \A i \in DOMAIN eventLog : RecoveredSeq(eventLog) > eventLog[i].sequence
  BY <1>1, <1>2, RecoveredSeqProperties
<1>4. nextSeq' = RecoveredSeq(eventLog) /\ UNCHANGED <<eventLog, stateFile, leases>> /\ loaded'
  BY DEF GetGroup, disk, history
<1>5. stateFile'.next_sequence <= nextSeq'
  BY <1>1, <1>3, <1>4
<1>6. \A i \in DOMAIN eventLog' : eventLog'[i].sequence < nextSeq'
  BY <1>1, <1>3, <1>4, EventTypes
<1> QED
  BY <1>4, <1>5, <1>6 DEF SequenceInv, SequencesMonotonic

\* The actions that write no event and no snapshot.
LEMMA QuietSequence ==
  ASSUME SequenceInv, UNCHANGED <<eventLog, stateFile, loaded, nextSeq, leases>>,
         pc' \in {"reap", "dispatch"} => loaded
  PROVE  SequenceInv'
BY DEF SequenceInv, SequencesMonotonic

LEMMA LoseMemorySequence ==
  ASSUME SequenceInv, LoseMemory, SequencesMonotonic'
  PROVE  SequenceInv'
BY DEF SequenceInv, LoseMemory

Inv == TypeOK /\ SequenceInv

LEMMA InitInv == Init => Inv
<1> SUFFICES ASSUME Init PROVE Inv
  OBVIOUS
<1>1. TypeOK
  BY InitType
<1>2. SequenceInv
  BY DEF Init, SequenceInv, SequencesMonotonic
<1> QED
  BY <1>1, <1>2 DEF Inv

\* Every action preserves the invariant, and hands out only fresh tokens.
LEMMA NextInv ==
  ASSUME Inv, [Next]_vars
  PROVE  /\ Inv'
         /\ \A l \in leases' \ leases : \A k \in leases : k.sequence < l.sequence
<1> USE DEF Inv
<1>1. ASSUME NEW fp, Deliver(fp)
      PROVE  /\ Inv'
             /\ \A l \in leases' \ leases : \A k \in leases : k.sequence < l.sequence
  BY <1>1, DeliverType, DeliverSequence
<1>2. ASSUME Inv', leases' = leases
      PROVE  /\ Inv'
             /\ \A l \in leases' \ leases : \A k \in leases : k.sequence < l.sequence
  BY <1>2
<1>3. CASE Tick
  <2>1. SequenceInv' /\ leases' = leases
    BY <1>3, QuietSequence DEF Tick, disk, group, running, history, SequenceInv
  <2> QED
    BY <1>2, <1>3, <2>1, TickTypeStep
<1>4. CASE Restart
  <2>1. SequenceInv' /\ leases' = leases
    BY <1>4, QuietSequence DEF Restart, disk, group, history
  <2> QED
    BY <1>2, <1>4, <2>1, RestartType
<1>5. CASE Crash
  <2>1. SequenceInv' /\ leases' = leases
    BY <1>5, LoseMemorySequence DEF Crash, LoseMemory, SequenceInv, SequencesMonotonic
  <2> QED
    BY <1>2, <1>5, <2>1, CrashType
<1>6. CASE PowerLoss
  <2>1. PICK n \in 0 .. Len(eventLog) : eventLog' = SubSeq(eventLog, 1, n)
    BY <1>6 DEF PowerLoss
  <2>2. SequencesMonotonic'
    BY <2>1, CutSequence DEF TypeOK, DiskTypeOK, SequenceInv
  <2>3. SequenceInv' /\ leases' = leases
    BY <1>6, <2>2, LoseMemorySequence DEF PowerLoss, LoseMemory
  <2> QED
    BY <1>2, <1>6, <2>3, PowerLossType
<1>7. CASE ClientStep
  <2>1. ASSUME NEW id \in Ids, NEW fp, Produce(id, fp) PROVE Inv' /\ leases' = leases
    <3>1. SequenceInv' /\ leases' = leases
      BY <2>1, QuietSequence DEF Produce, group, running, history, SequenceInv
    <3> QED
      BY <2>1, <3>1, ProduceType
  <2>2. CASE GetGroup
    <3>1. SequenceInv' /\ leases' = leases
      BY <2>2, GetGroupSequence DEF GetGroup, history
    <3>2. TypeOK'
      BY <2>2, GetGroupType DEF SequenceInv
    <3> QED
      BY <1>2, <3>1, <3>2
  <2>3. ASSUME NEW c \in {"consume", "stats"}, Begin(c) PROVE Inv' /\ leases' = leases
    <3>1. SequenceInv' /\ leases' = leases
      BY <2>3, QuietSequence DEF Begin, disk, group, history
    <3> QED
      BY <2>3, <3>1, BeginType
  <2>4. ASSUME NEW l \in leases, NEW fp, Ack(l, fp) PROVE Inv' /\ leases' = leases
    BY <2>4, AckType, AckSequence DEF Ack
  <2>5. ASSUME NEW l \in leases, NEW requeue \in BOOLEAN, NEW fp, Nack(l, requeue, fp)
        PROVE  Inv' /\ leases' = leases
    BY <2>5, NackType, NackSequence DEF Nack, history
  <2>6. GetGroup \/ (Inv' /\ leases' = leases)
    BY <1>7, <2>1, <2>3, <2>4, <2>5 DEF ClientStep, BeginConsume, BeginStats
  <2> QED
    BY <1>2, <2>2, <2>6
<1>8. CASE CallStep
  <2>1. ASSUME NEW x, NEW fp, ReapTimeout(x, fp) PROVE Inv' /\ leases' = leases
    BY <2>1, ReapTimeoutType, ReapTimeoutSequence DEF ReapTimeout, history
  <2>2. CASE ReapAdvance
    <3>1. SequenceInv' /\ leases' = leases
      BY <2>2, QuietSequence DEF ReapAdvance, disk, running, history, SequenceInv
    <3> QED
      BY <1>2, <2>2, <3>1, ReapAdvanceType
  <2>3. CASE ReapEnd
    <3>1. SequenceInv' /\ leases' = leases
      BY <2>3, QuietSequence DEF ReapEnd, disk, group, history, SequenceInv
    <3> QED
      BY <1>2, <2>3, <3>1, ReapEndType
  <2>4. CASE FinishStats \/ ConsumeNothing
    <3>1. Return /\ UNCHANGED <<clock, disk, segment, group, history>>
      BY <2>4 DEF FinishStats, ConsumeNothing
    <3>2. SequenceInv' /\ leases' = leases
      BY <3>1, QuietSequence DEF Return, disk, group, history
    <3> QED
      BY <1>2, <3>1, <3>2, ReturnType
  <2>5. CASE Timeouts
    BY <1>2, <2>1, <2>5 DEF Timeouts
  <2>6. CASE Deliveries
    BY <1>1, <2>6 DEF Deliveries
  <2> QED
    BY <1>8, <2>2, <2>3, <2>4, <2>5, <2>6 DEF CallStep
<1>9. CASE UNCHANGED vars
  <2>1. Inv' /\ leases' = leases
    BY <1>9 DEF vars, disk, segment, group, running, history, TypeOK, DiskTypeOK,
       SegmentTypeOK, GroupTypeOK, CallTypeOK, SequenceInv, SequencesMonotonic, KnownIds
  <2> QED
    BY <1>2, <2>1
<1>10. CASE SetClockBack
  <2>1. SequenceInv' /\ leases' = leases
    BY <1>10, QuietSequence DEF SetClockBack, disk, group, running, SequenceInv
  <2> QED
    BY <1>2, <1>10, <2>1, SetClockBackType
<1> QED
  BY <1>3, <1>4, <1>5, <1>6, <1>7, <1>8, <1>9, <1>10 DEF Next

LEMMA InvHolds == Spec => []Inv
<1>1. Inv /\ [Next]_vars => Inv'
  BY NextInv
<1> QED
  BY InitInv, <1>1, PTL DEF Spec

\* Type correctness of the engine, for all constants; with it, that an
\* inflight entry always has a runtime entry and every indexed offset a
\* record in the segment file.
THEOREM TypeCorrect == Spec => []TypeOK
<1>1. Inv => TypeOK
  BY DEF Inv
<1> QED
  BY InvHolds, <1>1, PTL

\* The sequences in the events file grow strictly (docs/INVARIANTS.md:4),
\* whatever fails, crashes or is lost.
THEOREM LogMonotonic == Spec => []SequencesMonotonic
<1>1. Inv => SequencesMonotonic
  BY DEF Inv, SequenceInv
<1> QED
  BY InvHolds, <1>1, PTL

\* No lease token is ever handed out twice (docs/QUEUE_CONTRACT.md:30), also
\* after crashes and after power losses that cut the events file short.
THEOREM TokensUnique == Spec => LeaseTokensUnique
<1>1. Inv /\ [Next]_vars =>
         [\A l \in leases' \ leases : \A k \in leases : k.sequence < l.sequence]_vars
  BY NextInv
<1> QED
  BY InvHolds, <1>1, PTL DEF Spec, LeaseTokensUnique
=============================================================================
