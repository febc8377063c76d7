------------------------- MODULE QueueLeases_proofs -------------------------
(***************************************************************************)
(* The inflight map and the runtime table of QueueEngine agree, for every  *)
(* value of the constants: under any failpoints, crashes, power losses and *)
(* writes after a reopen.  The deadline wheel holds every lease, and is    *)
(* never more than a turn past one, under the hypotheses named with those  *)
(* theorems.                                                               *)
(***************************************************************************)
EXTENDS QueueEngine_proofs

\* A logged and applied, or failed, transition of a loaded group.
LEMMA AppendLease ==
  ASSUME TypeOK, LeaseInv, loaded, loaded', restarts' = restarts,
         NEW e \in Event, NEW rt, e.id \in DOMAIN rt,
         DOMAIN runtime \subseteq DOMAIN rt,
         \A id \in DOMAIN runtime : rt[id] = runtime[id],
         \A id \in DOMAIN rt \ DOMAIN runtime : rt[id].state = "ready",
         NEW w, NEW early, NEW fp, AppendTransition(e, rt, w, early, fp)
  PROVE  LeaseInv'
<1> USE DEF LeaseInv
<1>1. DOMAIN inflight \subseteq DOMAIN runtime
  BY DEF TypeOK, GroupTypeOK
<1>2. CASE fp \in early \cup {"after_log_append"}
  <2>1. runtime' = rt /\ inflight' = inflight
    BY <1>2 DEF AppendTransition
  <2> QED
    BY <1>1, <2>1 DEF LeaseMatchesState
<1>3. CASE ~(fp \in early \cup {"after_log_append"})
  <2>1. ApplyTransition(e, rt, w)
    BY <1>3 DEF AppendTransition
  <2>2. /\ DOMAIN runtime' = DOMAIN rt
        /\ \A id \in DOMAIN rt \ {e.id} : runtime'[id] = rt[id]
        /\ runtime'[e.id].state = e.state
        /\ runtime'[e.id].sequence = e.sequence
    BY <2>1 DEF ApplyTransition, Runtime
  <2>3. CASE e.state = "inflight"
    <3>1. inflight' = Put(inflight, e.id, [deadline |-> e.deadline, sequence |-> e.sequence])
      BY <2>1, <2>3 DEF ApplyTransition
    <3>2. /\ DOMAIN inflight' = DOMAIN inflight \cup {e.id}
          /\ \A id \in DOMAIN inflight \ {e.id} : inflight'[id] = inflight[id]
          /\ inflight'[e.id].sequence = e.sequence
      BY <3>1 DEF Put
    <3> QED
      BY <1>1, <2>2, <2>3, <3>2 DEF LeaseMatchesState
  <2>4. CASE e.state # "inflight"
    <3>1. inflight' = Drop(inflight, e.id)
      BY <2>1, <2>4 DEF ApplyTransition
    <3>2. /\ DOMAIN inflight' = DOMAIN inflight \ {e.id}
          /\ \A id \in DOMAIN inflight' : inflight'[id] = inflight[id]
      BY <3>1 DEF Drop
    <3> QED
      BY <1>1, <2>2, <2>4, <3>2 DEF LeaseMatchesState
  <2> QED
    BY <2>3, <2>4
<1> QED
  BY <1>2, <1>3

LEMMA DeliverLease ==
  ASSUME Inv, LeaseInv, NEW fp, Deliver(fp)
  PROVE  LeaseInv'
<1> DEFINE offset == FrontReady
           id == Read(offset)
           fresh == [state |-> "ready", offset |-> offset, retry_count |-> 0,
                     available_after |-> 0, sequence |-> 0]
           rt == IF id \in DOMAIN runtime THEN runtime ELSE Put(runtime, id, fresh)
           e == [sequence |-> nextSeq, id |-> id, state |-> "inflight",
                 retry_count |-> rt[id].retry_count, available_after |-> clock,
                 deadline |-> clock + VisibilityTimeout]
           early == {"before_lease_issue", "before_log_append"}
<1>1. /\ offset \in DOMAIN segIndex
      /\ AppendTransition(e, rt, wheel, early, fp)
      /\ loaded /\ loaded' /\ restarts' = restarts
  BY DEF Deliver, Inv, SequenceInv
<1>2. offset \in Nat /\ id \in Ids
  BY <1>1, KnownIdsType DEF Inv, TypeOK, SegmentTypeOK
<1>3. /\ id \in DOMAIN rt
      /\ DOMAIN runtime \subseteq DOMAIN rt
      /\ \A i \in DOMAIN runtime : rt[i] = runtime[i]
      /\ \A i \in DOMAIN rt \ DOMAIN runtime : rt[i].state = "ready"
  <2> HIDE DEF id, offset
  <2> QED
    BY DEF Put
<1>4. rt[id].retry_count \in Nat
  <2>1. CASE id \in DOMAIN runtime
    BY <2>1 DEF Inv, TypeOK, GroupTypeOK, MessageRuntime
  <2>2. CASE id \notin DOMAIN runtime
    BY <2>2 DEF Put
  <2> QED
    BY <2>1, <2>2
<1>5. e \in Event /\ e.id = id
  <2> HIDE DEF rt, id
  <2> QED
    BY <1>2, <1>4, TimesAssumption DEF Event, States, Inv, TypeOK, GroupTypeOK, CallTypeOK
<1> HIDE DEF rt, e, early, id, fresh, offset
<1> QED
  BY <1>1, <1>3, <1>5, AppendLease DEF Inv

\* A call that logs one event about a message of the table.
LEMMA EndLease ==
  ASSUME Inv, LeaseInv, loaded, loaded' = loaded, restarts' = restarts,
         NEW e \in Event, e.id \in DOMAIN runtime, NEW w, NEW early, NEW fp,
         AppendTransition(e, runtime, w, early, fp)
  PROVE  LeaseInv'
BY AppendLease DEF Inv

LEMMA AckLease ==
  ASSUME Inv, LeaseInv, NEW l \in leases, NEW fp, Ack(l, fp)
  PROVE  LeaseInv'
<1> DEFINE e == [sequence |-> nextSeq, id |-> l.id, state |-> "acked",
                 retry_count |-> runtime[l.id].retry_count,
                 available_after |-> 0, deadline |-> 0]
<1>1. l.id \in DOMAIN runtime /\ l.id \in Ids
  BY DEF Ack, Inv, TypeOK, GroupTypeOK
<1>2. e \in Event /\ e.id \in DOMAIN runtime
  BY <1>1 DEF Event, States, Inv, TypeOK, GroupTypeOK, MessageRuntime
<1>3. /\ AppendTransition(e, runtime, wheel, {"before_ack_transition", "before_log_append"}, fp)
      /\ loaded /\ loaded' = loaded /\ restarts' = restarts
  BY DEF Ack
<1> HIDE DEF e
<1> QED
  BY <1>2, <1>3, EndLease

LEMMA NackLease ==
  ASSUME Inv, LeaseInv, NEW l \in leases, NEW requeue \in BOOLEAN, NEW fp,
         Nack(l, requeue, fp)
  PROVE  LeaseInv'
<1> DEFINE e == NackEvent(l.id, requeue)
<1>1. /\ l.id \in DOMAIN runtime /\ l.id \in Ids
      /\ runtime[l.id].retry_count \in Nat /\ nextSeq \in Nat /\ clock \in Nat
  BY DEF Nack, Inv, TypeOK, GroupTypeOK, CallTypeOK, MessageRuntime
<1>2. e \in Event /\ e.id = l.id
  <2>1. CASE requeue
    BY <1>1, <2>1, RetryEventType DEF NackEvent
  <2>2. CASE ~requeue
    BY <1>1, <2>2 DEF NackEvent, Event, States
  <2> QED
    BY <2>1, <2>2
<1>3. /\ AppendTransition(e, runtime, wheel, {"before_dlq_move", "before_log_append"}, fp)
      /\ loaded /\ loaded' = loaded /\ restarts' = restarts
  BY DEF Nack, history
<1> HIDE DEF e
<1> QED
  BY <1>1, <1>2, <1>3, EndLease

LEMMA ReapTimeoutLease ==
  ASSUME Inv, LeaseInv, NEW x, NEW fp, ReapTimeout(x, fp)
  PROVE  LeaseInv'
<1> DEFINE e == RetryEvent(x[1], runtime[x[1]].retry_count + 1, now)
           w == [wheel EXCEPT ![base % WheelSize] = @ \ {x}]
           early == {"before_timeout_transition", "before_log_append"}
<1>1. x[1] \in DOMAIN runtime /\ x[1] \in Ids
  BY DEF ReapTimeout, Due, Reached, Inv, TypeOK, GroupTypeOK
<1>2. runtime[x[1]].retry_count + 1 \in Nat /\ nextSeq \in Nat /\ now \in Nat
  BY <1>1 DEF Inv, TypeOK, GroupTypeOK, CallTypeOK, MessageRuntime
<1>3. e \in Event /\ e.id \in DOMAIN runtime
  BY <1>1, <1>2, RetryEventType
<1>4. /\ AppendTransition(e, runtime, w, early, fp)
      /\ loaded /\ loaded' = loaded /\ restarts' = restarts
  BY DEF ReapTimeout, InWheelLoop, Inv, SequenceInv, history
<1> HIDE DEF e, w, early
<1> QED
  BY <1>3, <1>4, EndLease

\* Recovery: an inflight entry comes from the message's last event, which
\* also gives the runtime its sequence; the state is set back to READY.
\* Replay leaves no message IN_FLIGHT.
LEMMA NoneInflight ==
  ASSUME Inv, NEW at \in [KnownIds -> DOMAIN segIndex], NEW id \in KnownIds
  PROVE  RecoveredRuntime(eventLog, id, at[id]).state # "inflight"
<1>1. at[id] \in Nat /\ id \in Ids
  BY KnownIdsType DEF Inv, TypeOK, SegmentTypeOK
<1>2. RecoveredRuntime(eventLog, id, at[id]) \in MessageRuntime
  BY <1>1, RecoveredRuntimeType DEF Inv, TypeOK, CallTypeOK
<1>3. CASE Replayed(eventLog, id, at[id]).state = "inflight"
  <2>1. RecoveredRuntime(eventLog, id, at[id]) =
           [Replayed(eventLog, id, at[id]) EXCEPT !.state = "ready", !.available_after = clock]
    BY <1>3 DEF RecoveredRuntime
  <2> QED
    BY <1>2, <2>1 DEF MessageRuntime
<1>4. CASE Replayed(eventLog, id, at[id]).state # "inflight"
  BY <1>4 DEF RecoveredRuntime
<1> QED
  BY <1>3, <1>4

LEMMA GetGroupLease ==
  ASSUME Inv, LeaseInv, GetGroup
  PROVE  LeaseInv'
<1>1. PICK at \in [KnownIds -> DOMAIN segIndex] :
         runtime' = [id \in KnownIds |-> RecoveredRuntime(eventLog, id, at[id])]
  BY DEF GetGroup
<1>2. DOMAIN runtime' = KnownIds /\ \A id \in KnownIds : runtime'[id].state # "inflight"
  BY <1>1, NoneInflight
<1>3. inflight' = RecoveredInflight(eventLog) /\ restarts' = restarts /\ loaded' /\ ~loaded
  BY DEF GetGroup, history
<1>4. ASSUME NEW id \in DOMAIN inflight'
      PROVE  /\ id \in KnownIds
             /\ inflight'[id].sequence = runtime'[id].sequence
             /\ runtime'[id].state = "ready"
             /\ restarts' > 0
  <2>1. /\ id \in KnownIds
        /\ EventsOf(eventLog, id) # {}
        /\ LastEvent(eventLog, id).state = "inflight"
        /\ inflight'[id].sequence = LastEvent(eventLog, id).sequence
    BY <1>3, RecoveredInflightType DEF Inv, TypeOK
  <2>2. /\ Replayed(eventLog, id, at[id]).state = "inflight"
        /\ Replayed(eventLog, id, at[id]).sequence = LastEvent(eventLog, id).sequence
        /\ DOMAIN Replayed(eventLog, id, at[id]) =
              {"state", "offset", "retry_count", "available_after", "sequence"}
    BY <2>1 DEF Replayed, Runtime
  <2>3. runtime'[id] = [Replayed(eventLog, id, at[id]) EXCEPT
                          !.state = "ready", !.available_after = clock]
    BY <1>1, <2>1, <2>2 DEF RecoveredRuntime
  <2>4. runtime'[id].state = "ready"
        /\ runtime'[id].sequence = LastEvent(eventLog, id).sequence
    BY <2>2, <2>3
  <2>5. restarts # 0
    BY <1>3, <2>1 DEF LeaseInv, EventsOf
  <2> QED
    BY <1>3, <2>1, <2>4, <2>5 DEF Inv, TypeOK, CallTypeOK
<1> QED
  BY <1>2, <1>3, <1>4 DEF LeaseInv, LeaseMatchesState

\* The actions that touch neither the tables nor the log.
LEMMA QuietLease ==
  ASSUME LeaseInv, UNCHANGED <<runtime, inflight, eventLog, loaded, restarts>>
  PROVE  LeaseInv'
BY DEF LeaseInv, LeaseMatchesState

LEMMA LoseMemoryLease ==
  ASSUME Inv, LoseMemory
  PROVE  LeaseInv'
<1>1. restarts' # 0
  BY DEF LoseMemory, Inv, TypeOK, CallTypeOK
<1> QED
  BY <1>1, EmptyDomain DEF LoseMemory, LeaseInv, LeaseMatchesState

LEMMA NextLease ==
  ASSUME Inv, LeaseInv, [Next]_vars
  PROVE  LeaseInv'
<1>1. CASE Tick \/ SetClockBack \/ Restart
  BY <1>1, QuietLease DEF Tick, SetClockBack, Restart, disk, group, history
<1>2. CASE Crash \/ PowerLoss
  BY <1>2, LoseMemoryLease DEF Crash, PowerLoss
<1>3. CASE ClientStep
  <2>1. ASSUME NEW id \in Ids, NEW fp, Produce(id, fp) PROVE LeaseInv'
    BY <2>1, QuietLease DEF Produce, group, history
  <2>2. ASSUME NEW c, Begin(c) PROVE LeaseInv'
    BY <2>2, QuietLease DEF Begin, disk, group, history
  <2> QED
    BY <1>3, <2>1, <2>2, GetGroupLease, AckLease, NackLease
       DEF ClientStep, BeginConsume, BeginStats
<1>4. CASE CallStep
  <2>1. CASE ReapAdvance \/ ReapEnd \/ FinishStats \/ ConsumeNothing
    BY <2>1, QuietLease DEF ReapAdvance, ReapEnd, FinishStats, ConsumeNothing,
       disk, group, history
  <2> QED
    BY <1>4, <2>1, ReapTimeoutLease, DeliverLease DEF CallStep, Timeouts, Deliveries
<1>5. CASE UNCHANGED vars
  BY <1>5, QuietLease DEF vars, disk, group, history
<1> QED
  BY <1>1, <1>2, <1>3, <1>4, <1>5 DEF Next

\* The inflight map and the runtime table never disagree: every IN_FLIGHT
\* message has its lease, a lease belongs to the last transition of its
\* message, and a READY message has one only after a restart.
THEOREM LeasesMatch == Spec => []LeaseMatchesState
<1>1. Init => LeaseInv
  BY EmptyDomain DEF Init, LeaseInv, LeaseMatchesState
<1>2. Inv /\ LeaseInv /\ [Next]_vars => LeaseInv'
  BY NextLease
<1>3. LeaseInv => LeaseMatchesState
  BY DEF LeaseInv
<1> QED
  BY <1>1, <1>2, <1>3, InvHolds, PTL DEF Spec

-----------------------------------------------------------------------------
(* The deadline wheel.                                                     *)

\* No failpoint strikes a timeout transition.
TimeoutsSucceed ==
    Failpoints \cap {"before_timeout_transition", "before_log_append", "after_log_append"} = {}

\* No lease ends a whole turn of the wheel, or more, ahead of it.
WithinTurn ==
    \A id \in DOMAIN inflight : BucketTick(inflight[id].deadline) < base + WheelSize

\* Two ticks that share a slot are a whole turn apart.
LEMMA SlotsApart ==
  ASSUME NEW w \in Nat \ {0}, NEW a \in Nat, NEW b \in Nat, a % w = b % w, b < a, a < b + w
  PROVE  FALSE
<1> DEFINE q == a \div w
           p == b \div w
           r == a % w
<1>1. a = w * q + r /\ q \in Int /\ r \in Int
  OBVIOUS
<1>2. b = w * p + r /\ p \in Int
  OBVIOUS
<1> HIDE DEF q, p, r
<1>3. a - b = w * (q - p)
  BY <1>1, <1>2
<1>4. PICK k \in Int : k = q - p
  BY <1>1, <1>2
<1>5. w * k > 0 /\ w * k < w
  BY <1>3, <1>4
<1>6. CASE k <= 0
  BY <1>5, <1>6
<1>7. CASE k >= 1
  BY <1>5, <1>7
<1> QED
  BY <1>6, <1>7

\* A turn later the wheel is at the same slot.
LEMMA TurnSlot ==
  ASSUME NEW w \in Nat \ {0}, NEW a \in Nat
  PROVE  (a + w) % w = a % w
<1> DEFINE q == a \div w
           r == a % w
           p == (a + w) \div w
           s == (a + w) % w
<1>1. a = w * q + r /\ q \in Int /\ r \in 0 .. w - 1
  OBVIOUS
<1>2. a + w = w * p + s /\ p \in Int /\ s \in 0 .. w - 1
  OBVIOUS
<1> HIDE DEF q, r, p, s
<1>3. PICK k \in Int : k = p - q - 1
  BY <1>1, <1>2
<1>4. w * k = r - s
  BY <1>1, <1>2, <1>3
<1>5. w * k > 0 - w /\ w * k < w
  BY <1>1, <1>2, <1>4
<1>6. CASE k <= 0 - 1
  BY <1>5, <1>6
<1>7. CASE k >= 1
  BY <1>5, <1>7
<1>8. CASE k = 0
  <2>1. s = r
    BY <1>1, <1>2, <1>4, <1>8
  <2> QED
    BY <2>1 DEF r, s
<1> QED
  BY <1>6, <1>7, <1>8

\* Division by the tick is monotone, and a smaller tick number is an earlier
\* time.
LEMMA DivMonotone ==
  ASSUME NEW t \in Nat \ {0}, NEW a \in Nat, NEW b \in Nat, a <= b
  PROVE  a \div t <= b \div t
OBVIOUS

LEMMA DivBefore ==
  ASSUME NEW t \in Nat \ {0}, NEW a \in Nat, NEW b \in Nat, a \div t < b \div t
  PROVE  a < b
OBVIOUS

\* A transition, on a wheel w that still has what the other messages need.
LEMMA AppendRegistered ==
  ASSUME TypeOK, NEW e \in Event, NEW rt, NEW w \in WheelType, NEW early, NEW fp,
         AppendTransition(e, rt, w, early, fp),
         \A id \in DOMAIN inflight :
            \/ \E x \in w[Slot(inflight[id].deadline)] : x[1] = id
            \/ id = e.id /\ fp \notin early \cup {"after_log_append"} /\ e.state # "inflight"
  PROVE  WheelRegistered'
<1>1. CASE fp \in early \cup {"after_log_append"}
  BY <1>1 DEF AppendTransition, WheelRegistered
<1>2. CASE fp \notin early \cup {"after_log_append"}
  <2>1. ApplyTransition(e, rt, w)
    BY <1>2 DEF AppendTransition
  <2>2. CASE e.state # "inflight"
    <3>1. wheel' = w /\ inflight' = Drop(inflight, e.id)
      BY <2>1, <2>2 DEF ApplyTransition
    <3>2. /\ DOMAIN inflight' = DOMAIN inflight \ {e.id}
          /\ \A id \in DOMAIN inflight' : inflight'[id] = inflight[id]
      BY <3>1 DEF Drop
    <3> QED
      BY <3>1, <3>2 DEF WheelRegistered
  <2>3. CASE e.state = "inflight"
    <3>1. /\ wheel' = ScheduleInflight(w, e)
          /\ inflight' = Put(inflight, e.id, [deadline |-> e.deadline, sequence |-> e.sequence])
      BY <2>1, <2>3 DEF ApplyTransition
    <3>2. /\ DOMAIN inflight' = DOMAIN inflight \cup {e.id}
          /\ \A id \in DOMAIN inflight \ {e.id} : inflight'[id] = inflight[id]
          /\ inflight'[e.id].deadline = e.deadline
      BY <3>1 DEF Put
    <3>3. Slot(e.deadline) \in Slots
      BY SlotType DEF Event
    <3>4. /\ \A s \in Slots : w[s] \subseteq wheel'[s]
          /\ <<e.id, e.sequence>> \in wheel'[Slot(e.deadline)]
      BY <3>1, <3>3 DEF ScheduleInflight, WheelType
    <3>5. ASSUME NEW id \in DOMAIN inflight'
          PROVE  \E x \in wheel'[Slot(inflight'[id].deadline)] : x[1] = id
      <4>1. CASE id = e.id
        <5>1. <<e.id, e.sequence>>[1] = id
          BY <4>1
        <5> QED
          BY <3>2, <3>4, <4>1, <5>1
      <4>2. CASE id # e.id
        <5>1. id \in DOMAIN inflight /\ inflight'[id] = inflight[id]
          BY <3>2, <4>2
        <5>2. PICK x \in w[Slot(inflight[id].deadline)] : x[1] = id
          BY <4>2, <5>1
        <5>3. Slot(inflight[id].deadline) \in Slots
          BY <5>1, SlotType DEF TypeOK, GroupTypeOK, InflightEntry
        <5> QED
          BY <3>4, <5>1, <5>2, <5>3
      <4> QED
        BY <4>1, <4>2
    <3> QED
      BY <3>5 DEF WheelRegistered
  <2> QED
    BY <2>2, <2>3
<1> QED
  BY <1>1, <1>2

\* The event of a delivery: a lease that ends a visibility timeout from now.
LEMMA DeliverIs ==
  ASSUME Inv, NEW fp, Deliver(fp)
  PROVE  \E e \in Event : \E rt :
            /\ AppendTransition(e, rt, wheel, {"before_lease_issue", "before_log_append"}, fp)
            /\ e.state = "inflight" /\ e.deadline = clock + VisibilityTimeout
            /\ e.id \in DOMAIN rt
            /\ \A id \in DOMAIN runtime : rt[id] = runtime[id]
            /\ \A id \in DOMAIN rt \ DOMAIN runtime : rt[id].state # "inflight"
            /\ UNCHANGED <<base, clock>>
<1> DEFINE offset == FrontReady
           id == Read(offset)
           fresh == [state |-> "ready", offset |-> offset, retry_count |-> 0,
                     available_after |-> 0, sequence |-> 0]
           rt == IF id \in DOMAIN runtime THEN runtime ELSE Put(runtime, id, fresh)
           e == [sequence |-> nextSeq, id |-> id, state |-> "inflight",
                 retry_count |-> rt[id].retry_count, available_after |-> clock,
                 deadline |-> clock + VisibilityTimeout]
<1>1. /\ offset \in DOMAIN segIndex /\ UNCHANGED <<base, clock>>
      /\ AppendTransition(e, rt, wheel, {"before_lease_issue", "before_log_append"}, fp)
  BY DEF Deliver
<1>2. id \in Ids
  BY <1>1, KnownIdsType DEF Inv, TypeOK, SegmentTypeOK
<1>3. rt[id].retry_count \in Nat
  <2>1. CASE id \in DOMAIN runtime
    BY <2>1 DEF Inv, TypeOK, GroupTypeOK, MessageRuntime
  <2>2. CASE id \notin DOMAIN runtime
    BY <2>2 DEF Put
  <2> QED
    BY <2>1, <2>2
<1>4. e \in Event /\ e.id = id /\ e.state = "inflight" /\ e.deadline = clock + VisibilityTimeout
  <2> HIDE DEF rt, id
  <2> QED
    BY <1>2, <1>3, TimesAssumption DEF Event, States, Inv, TypeOK, GroupTypeOK, CallTypeOK
<1>5. /\ id \in DOMAIN rt
      /\ \A i \in DOMAIN runtime : rt[i] = runtime[i]
      /\ \A i \in DOMAIN rt \ DOMAIN runtime : rt[i].state # "inflight"
  <2> HIDE DEF id, offset
  <2> QED
    BY DEF Put
<1> HIDE DEF e, rt
<1> QED
  BY <1>1, <1>4, <1>5

\* The event of an Ack or a Nack: not a lease.
LEMMA EndLeaseIs ==
  ASSUME Inv, NEW l \in leases, NEW fp,
         \/ Ack(l, fp)
         \/ \E requeue \in BOOLEAN : Nack(l, requeue, fp)
  PROVE  \E e \in Event, early \in SUBSET Faults :
            /\ AppendTransition(e, runtime, wheel, early, fp)
            /\ e.state # "inflight" /\ e.id \in DOMAIN runtime /\ UNCHANGED <<base, clock>>
<1>1. /\ l.id \in DOMAIN runtime /\ l.id \in Ids
      /\ runtime[l.id].retry_count \in Nat /\ nextSeq \in Nat /\ clock \in Nat
  BY DEF Ack, Nack, Inv, TypeOK, GroupTypeOK, CallTypeOK, MessageRuntime
<1>2. CASE Ack(l, fp)
  <2> DEFINE e == [sequence |-> nextSeq, id |-> l.id, state |-> "acked",
                   retry_count |-> runtime[l.id].retry_count,
                   available_after |-> 0, deadline |-> 0]
  <2>1. e \in Event /\ e.state # "inflight" /\ e.id = l.id
    BY <1>1 DEF Event, States
  <2>2. AppendTransition(e, runtime, wheel, {"before_ack_transition", "before_log_append"}, fp)
        /\ UNCHANGED <<base, clock>>
    BY <1>2 DEF Ack
  <2>3. {"before_ack_transition", "before_log_append"} \in SUBSET Faults
    BY DEF Faults
  <2> HIDE DEF e
  <2> QED
    BY <1>1, <2>1, <2>2, <2>3
<1>3. ASSUME NEW requeue \in BOOLEAN, Nack(l, requeue, fp)
      PROVE  \E e \in Event, early \in SUBSET Faults :
                /\ AppendTransition(e, runtime, wheel, early, fp)
                /\ e.state # "inflight" /\ e.id \in DOMAIN runtime /\ UNCHANGED <<base, clock>>
  <2> DEFINE e == NackEvent(l.id, requeue)
  <2>1. e \in Event /\ e.state # "inflight" /\ e.id = l.id
    <3>1. CASE requeue
      <4>1. e = RetryEvent(l.id, runtime[l.id].retry_count + 1, clock)
        BY <3>1 DEF NackEvent
      <4> QED
        BY <1>1, <4>1, RetryEventType DEF RetryEvent
    <3>2. CASE ~requeue
      BY <1>1, <3>2 DEF NackEvent, Event, States
    <3> QED
      BY <3>1, <3>2
  <2>2. AppendTransition(e, runtime, wheel, {"before_dlq_move", "before_log_append"}, fp)
        /\ UNCHANGED <<base, clock>>
    BY <1>3 DEF Nack
  <2>3. {"before_dlq_move", "before_log_append"} \in SUBSET Faults
    BY DEF Faults
  <2> HIDE DEF e
  <2> QED
    BY <1>1, <2>1, <2>2, <2>3
<1> QED
  BY <1>2, <1>3

\* The event of a timeout: not a lease, and its wheel entry is gone.
LEMMA TimeoutIs ==
  ASSUME Inv, NEW x, NEW fp, ReapTimeout(x, fp)
  PROVE  \E e \in Event, early \in {{"before_timeout_transition", "before_log_append"}} :
            /\ AppendTransition(e, runtime, [wheel EXCEPT ![base % WheelSize] = @ \ {x}], early, fp)
            /\ e.state # "inflight" /\ e.id = x[1] /\ e.id \in DOMAIN runtime
            /\ UNCHANGED <<base, clock>>
<1> DEFINE e == RetryEvent(x[1], runtime[x[1]].retry_count + 1, now)
<1>1. x[1] \in DOMAIN runtime /\ x[1] \in Ids
  BY DEF ReapTimeout, Due, Reached, Inv, TypeOK, GroupTypeOK
<1>2. runtime[x[1]].retry_count + 1 \in Nat /\ nextSeq \in Nat /\ now \in Nat
  BY <1>1 DEF Inv, TypeOK, GroupTypeOK, CallTypeOK, MessageRuntime
<1>3. e \in Event /\ e.id = x[1] /\ e.state # "inflight"
  BY <1>1, <1>2, RetryEventType DEF RetryEvent
<1>4. AppendTransition(e, runtime, [wheel EXCEPT ![base % WheelSize] = @ \ {x}],
                       {"before_timeout_transition", "before_log_append"}, fp)
      /\ UNCHANGED <<base, clock>>
  BY DEF ReapTimeout
<1> HIDE DEF e
<1> QED
  BY <1>1, <1>3, <1>4

\* The entries a bucket drops belong to no lease: a lease in the bucket's
\* slot that is not a turn ahead has its deadline reached, and is pushed back.
LEMMA ReapAdvanceRegistered ==
  ASSUME Inv, WheelRegistered, WithinTurn, ReapAdvance
  PROVE  WheelRegistered'
<1> DEFINE kept == {x \in Bucket : Reached(x)}
           others == [wheel EXCEPT ![base % WheelSize] = {}]
<1>1. /\ wheel' = [s \in Slots |-> others[s] \cup {x \in kept : Slot(inflight[x[1]].deadline) = s}]
      /\ inflight' = inflight
  BY DEF ReapAdvance
<1>2. ASSUME NEW id \in DOMAIN inflight
      PROVE  \E x \in wheel'[Slot(inflight[id].deadline)] : x[1] = id
  <2>1. PICK b \in Nat : b = base
    BY DEF Inv, TypeOK, GroupTypeOK
  <2>2. PICK t \in Nat, s \in Slots :
           t = BucketTick(inflight[id].deadline) /\ s = Slot(inflight[id].deadline) /\ s = t % WheelSize
    <3>1. inflight[id].deadline \in Nat
      BY DEF Inv, TypeOK, GroupTypeOK, InflightEntry
    <3> QED
      BY <3>1, SlotType DEF Slot
  <2>3. PICK x \in wheel[s] : x[1] = id
    BY <2>2 DEF WheelRegistered
  <2>4. wheel \in [Slots -> SUBSET (Ids \X Nat)]
    BY DEF Inv, TypeOK, GroupTypeOK
  <2>5. CASE s # b % WheelSize
    <3>1. x \in others[s]
      BY <2>1, <2>3, <2>4, <2>5
    <3>2. x \in wheel'[s]
      BY <1>1, <3>1
    <3> QED
      BY <2>2, <2>3, <3>2
  <2>6. CASE s = b % WheelSize
    <3>1. t < b + WheelSize
      BY <2>1, <2>2 DEF WithinTurn
    <3>2. t <= b
      BY <2>2, <2>6, <3>1, SlotsApart, TimesAssumption
    <3>3. x \in kept
      BY <2>1, <2>2, <2>3, <2>6, <3>2 DEF Bucket, Reached
    <3>4. x \in wheel'[s]
      BY <1>1, <2>2, <2>3, <3>3
    <3> QED
      BY <2>2, <2>3, <3>4
  <2> QED
    BY <2>5, <2>6
<1> QED
  BY <1>1, <1>2 DEF WheelRegistered

\* Replay schedules the last IN_FLIGHT event of every recovered lease.
LEMMA GetGroupRegistered ==
  ASSUME Inv, GetGroup
  PROVE  WheelRegistered'
<1>1. inflight' = RecoveredInflight(eventLog) /\ wheel' = RecoveredWheel(eventLog)
  BY DEF GetGroup
<1>2. ASSUME NEW id \in DOMAIN inflight'
      PROVE  \E x \in wheel'[Slot(inflight'[id].deadline)] : x[1] = id
  <2>1. /\ id \in KnownIds /\ EventsOf(eventLog, id) # {} /\ LastEvent(eventLog, id).state = "inflight"
        /\ inflight'[id].deadline = LastEvent(eventLog, id).deadline
    BY <1>1 DEF RecoveredInflight
  <2>2. PICK i \in DOMAIN eventLog : i = Max(EventsOf(eventLog, id)) /\ eventLog[i].id = id
    BY <2>1, LastEventProperties DEF Inv, TypeOK, DiskTypeOK, LastEvent
  <2>3. PICK s \in Slots : s = Slot(eventLog[i].deadline)
    <3>1. eventLog \in Seq(Event)
      BY DEF Inv, TypeOK, DiskTypeOK
    <3>2. eventLog[i] \in Event
      BY <2>2, <3>1
    <3>3. eventLog[i].deadline \in Nat
      BY <3>2 DEF Event
    <3> QED
      BY <3>3, SlotType
  <2>4. eventLog[i].state = "inflight" /\ Slot(inflight'[id].deadline) = s
    BY <2>1, <2>2, <2>3 DEF LastEvent
  <2>5. <<eventLog[i].id, eventLog[i].sequence>> \in wheel'[s]
    BY <1>1, <2>1, <2>2, <2>3, <2>4 DEF RecoveredWheel
  <2>6. <<eventLog[i].id, eventLog[i].sequence>>[1] = id
    BY <2>2
  <2> QED
    BY <2>4, <2>5, <2>6
<1> QED
  BY <1>2 DEF WheelRegistered

LEMMA NextRegistered ==
  ASSUME TimeoutsSucceed, Inv, WheelRegistered, WithinTurn, [Next]_vars
  PROVE  WheelRegistered'
<1>1. ASSUME UNCHANGED <<inflight, wheel>> PROVE WheelRegistered'
  BY <1>1 DEF WheelRegistered
<1>2. TypeOK /\ wheel \in WheelType /\ base \in Nat
  BY DEF Inv, TypeOK, GroupTypeOK, WheelType
<1>3. CASE Tick \/ SetClockBack \/ Restart
  BY <1>1, <1>3 DEF Tick, SetClockBack, Restart, group
<1>4. CASE Crash \/ PowerLoss
  BY <1>4, EmptyDomain DEF Crash, PowerLoss, LoseMemory, WheelRegistered
<1>5. ASSUME NEW l \in leases, NEW fp, Ack(l, fp) \/ \E requeue \in BOOLEAN : Nack(l, requeue, fp)
      PROVE  WheelRegistered'
  <2>1. PICK e \in Event, early \in SUBSET Faults : AppendTransition(e, runtime, wheel, early, fp)
    BY <1>5, EndLeaseIs
  <2> QED
    BY <1>2, <2>1, AppendRegistered DEF WheelRegistered
<1>6. CASE ClientStep
  <2>1. ASSUME NEW id \in Ids, NEW fp, Produce(id, fp) PROVE WheelRegistered'
    BY <1>1, <2>1 DEF Produce, group
  <2>2. ASSUME NEW c, Begin(c) PROVE WheelRegistered'
    BY <1>1, <2>2 DEF Begin, group
  <2> QED
    BY <1>5, <1>6, <2>1, <2>2, GetGroupRegistered DEF ClientStep, BeginConsume, BeginStats
<1>7. ASSUME NEW fp, Deliver(fp) PROVE WheelRegistered'
  <2>1. PICK e \in Event : \E rt :
           AppendTransition(e, rt, wheel, {"before_lease_issue", "before_log_append"}, fp)
    BY <1>7, DeliverIs
  <2> QED
    BY <1>2, <2>1, AppendRegistered DEF WheelRegistered
<1>8. ASSUME NEW x, NEW fp \in Strikes(AppendFaults \cup {"before_timeout_transition"}),
             ReapTimeout(x, fp)
      PROVE  WheelRegistered'
  <2>1. fp = "none"
    BY <1>8 DEF TimeoutsSucceed, Strikes, AppendFaults
  <2>2. PICK e \in Event, early \in {{"before_timeout_transition", "before_log_append"}} :
           /\ AppendTransition(e, runtime, [wheel EXCEPT ![base % WheelSize] = @ \ {x}], early, fp)
           /\ e.state # "inflight" /\ e.id = x[1]
    BY <1>8, TimeoutIs
  <2>3. PICK w \in WheelType : w = [wheel EXCEPT ![base % WheelSize] = @ \ {x}]
    BY <1>2 DEF WheelType
  <2>4. \A s \in Slots : wheel[s] \ {x} \subseteq w[s]
    BY <1>2, <2>3 DEF WheelType
  <2>5. ASSUME NEW id \in DOMAIN inflight, id # x[1]
        PROVE  \E y \in w[Slot(inflight[id].deadline)] : y[1] = id
    <3>1. PICK y \in wheel[Slot(inflight[id].deadline)] : y[1] = id
      BY DEF WheelRegistered
    <3>2. Slot(inflight[id].deadline) \in Slots /\ y # x
      BY <2>5, <3>1, SlotType DEF Inv, TypeOK, GroupTypeOK, InflightEntry
    <3> QED
      BY <2>4, <3>1, <3>2
  <2>6. fp \notin early \cup {"after_log_append"}
    BY <2>1
  <2>7. AppendTransition(e, runtime, w, early, fp)
    BY <2>2, <2>3
  <2>8. \A id \in DOMAIN inflight :
           \/ \E y \in w[Slot(inflight[id].deadline)] : y[1] = id
           \/ id = e.id /\ fp \notin early \cup {"after_log_append"} /\ e.state # "inflight"
    BY <2>2, <2>5, <2>6
  <2> QED
    BY <1>2, <2>7, <2>8, AppendRegistered
<1>9. CASE CallStep
  <2>1. CASE ReapEnd \/ FinishStats \/ ConsumeNothing
    BY <1>1, <2>1 DEF ReapEnd, FinishStats, ConsumeNothing, group
  <2> QED
    BY <1>7, <1>8, <1>9, <2>1, ReapAdvanceRegistered DEF CallStep, Timeouts, Deliveries
<1>10. CASE UNCHANGED vars
  BY <1>1, <1>10 DEF vars, group
<1> QED
  BY <1>3, <1>4, <1>6, <1>9, <1>10 DEF Next

\* Every lease is in the slot of its deadline until it ends, through crashes,
\* power losses, a clock set back and writes after a reopen, as long as no
\* timeout transition fails and no lease ends a turn of the wheel ahead.
THEOREM LeasesAreRegistered ==
  ASSUME TimeoutsSucceed
  PROVE  Spec /\ []WithinTurn => []WheelRegistered
<1>1. Init => WheelRegistered
  BY EmptyDomain DEF Init, WheelRegistered
<1>2. Inv /\ WheelRegistered /\ WithinTurn /\ [Next]_vars => WheelRegistered'
  BY NextRegistered
<1> QED
  BY <1>1, <1>2, InvHolds, PTL DEF Spec

-----------------------------------------------------------------------------
(* The wheel is never more than one turn past a lease.                     *)

\* The wheel is at most one bucket ahead of a clock that is never set back.
BaseInv ==
    /\ base <= (clock \div TickMs) + 1
    /\ now <= clock

LEMMA NextBase ==
  ASSUME MaxSetbacks = 0, Inv, BaseInv, [Next]_vars
  PROVE  BaseInv'
<1>1. base \in Nat /\ clock \in Nat /\ now \in Nat /\ setbacks \in Nat
  BY DEF Inv, TypeOK, GroupTypeOK, CallTypeOK
<1>2. ASSUME UNCHANGED <<base, clock>>, now' \in {0, now, clock} PROVE BaseInv'
  BY <1>1, <1>2 DEF BaseInv
<1>3. CASE Tick
  <2>1. clock' = clock + 1 /\ UNCHANGED <<base, now>>
    BY <1>3 DEF Tick, group, running
  <2>2. clock \div TickMs <= (clock + 1) \div TickMs
    BY <1>1, TickType, DivMonotone
  <2>3. clock \div TickMs \in Nat /\ (clock + 1) \div TickMs \in Nat
    BY <1>1, TickType
  <2> QED
    BY <1>1, <2>1, <2>2, <2>3 DEF BaseInv
<1>4. ~SetClockBack
  BY <1>1 DEF SetClockBack
<1>5. CASE Restart
  BY <1>2, <1>5 DEF Restart, group
<1>6. CASE Crash \/ PowerLoss
  <2>1. base' = 0 /\ now' = 0 /\ clock' = clock
    BY <1>6 DEF Crash, PowerLoss, LoseMemory
  <2>2. clock \div TickMs \in Nat
    BY <1>1, TickType
  <2> QED
    BY <1>1, <2>1, <2>2 DEF BaseInv
<1>7. CASE ClientStep
  <2>1. ASSUME NEW id \in Ids, NEW fp, Produce(id, fp) PROVE BaseInv'
    BY <1>2, <2>1 DEF Produce, group, running
  <2>2. ASSUME NEW c, Begin(c) PROVE BaseInv'
    BY <1>2, <2>2 DEF Begin, group
  <2>3. CASE GetGroup
    <3>1. base' = clock \div TickMs /\ UNCHANGED <<clock, now>>
      BY <2>3 DEF GetGroup, running
    <3>2. clock \div TickMs \in Nat
      BY <1>1, TickType
    <3> QED
      BY <1>1, <3>1, <3>2 DEF BaseInv
  <2>4. ASSUME NEW l \in leases, NEW fp, Ack(l, fp) \/ \E requeue \in BOOLEAN : Nack(l, requeue, fp)
        PROVE  BaseInv'
    BY <1>2, <2>4 DEF Ack, Nack, running
  <2> QED
    BY <1>7, <2>1, <2>2, <2>3, <2>4 DEF ClientStep, BeginConsume, BeginStats
<1>8. CASE CallStep
  <2>1. CASE ReapEnd \/ FinishStats \/ ConsumeNothing
    BY <1>2, <2>1 DEF ReapEnd, FinishStats, ConsumeNothing, Return, group
  <2>2. CASE ReapAdvance
    <3>1. base' = base + 1 /\ UNCHANGED <<clock, now>> /\ base <= now \div TickMs
      BY <2>2 DEF ReapAdvance, InWheelLoop, running
    <3>2. now \div TickMs <= clock \div TickMs
      BY <1>1, TickType, DivMonotone DEF BaseInv
    <3>3. now \div TickMs \in Nat /\ clock \div TickMs \in Nat
      BY <1>1, TickType
    <3> QED
      BY <1>1, <3>1, <3>2, <3>3 DEF BaseInv
  <2>3. ASSUME NEW x, NEW fp, ReapTimeout(x, fp) PROVE BaseInv'
    BY <1>2, <2>3 DEF ReapTimeout, running
  <2>4. ASSUME NEW fp, Deliver(fp) PROVE BaseInv'
    BY <1>2, <2>4 DEF Deliver, Return
  <2> QED
    BY <1>8, <2>1, <2>2, <2>3, <2>4 DEF CallStep, Timeouts, Deliveries
<1>9. CASE UNCHANGED vars
  BY <1>2, <1>9 DEF vars, group, running
<1> QED
  BY <1>3, <1>4, <1>5, <1>6, <1>7, <1>8, <1>9 DEF Next

\* A transition to IN_FLIGHT whose deadline is within a turn, or to another
\* state, leaves every IN_FLIGHT message within a turn.
LEMMA AppendOverdue ==
  ASSUME TypeOK, LeaseMatchesState, OverdueWithinTurn, base' = base,
         NEW e \in Event, NEW rt, e.id \in DOMAIN rt,
         \A id \in DOMAIN runtime : rt[id] = runtime[id],
         \A id \in DOMAIN rt \ DOMAIN runtime : rt[id].state # "inflight",
         NEW w, NEW early, NEW fp, AppendTransition(e, rt, w, early, fp),
         e.state = "inflight" => base <= BucketTick(e.deadline) + WheelSize
  PROVE  OverdueWithinTurn'
<1>1. CASE fp \in early \cup {"after_log_append"}
  <2>1. runtime' = rt /\ inflight' = inflight
    BY <1>1 DEF AppendTransition
  <2> QED
    BY <2>1 DEF OverdueWithinTurn
<1>2. CASE ~(fp \in early \cup {"after_log_append"})
  <2>1. ApplyTransition(e, rt, w)
    BY <1>2 DEF AppendTransition
  <2>2. /\ DOMAIN runtime' = DOMAIN rt
        /\ \A id \in DOMAIN rt \ {e.id} : runtime'[id] = rt[id]
        /\ runtime'[e.id].state = e.state
    BY <2>1 DEF ApplyTransition, Runtime
  <2>3. /\ \A id \in DOMAIN inflight \ {e.id} : inflight'[id] = inflight[id]
        /\ e.state = "inflight" => inflight'[e.id].deadline = e.deadline
    <3>1. CASE e.state = "inflight"
      BY <2>1, <3>1 DEF ApplyTransition, Put
    <3>2. CASE e.state # "inflight"
      BY <2>1, <3>2 DEF ApplyTransition, Drop
    <3> QED
      BY <3>1, <3>2
  <2>4. ASSUME NEW id \in DOMAIN runtime', runtime'[id].state = "inflight"
        PROVE  base' <= BucketTick(inflight'[id].deadline) + WheelSize
    <3>1. CASE id = e.id
      BY <2>2, <2>3, <2>4, <3>1
    <3>2. CASE id # e.id
      <4>1. id \in DOMAIN runtime /\ runtime[id].state = "inflight"
        BY <2>2, <2>4, <3>2
      <4>2. id \in DOMAIN inflight /\ inflight'[id] = inflight[id]
        BY <2>3, <3>2, <4>1 DEF LeaseMatchesState
      <4> QED
        BY <4>1, <4>2 DEF OverdueWithinTurn
    <3> QED
      BY <3>1, <3>2
  <2> QED
    BY <2>4 DEF OverdueWithinTurn
<1> QED
  BY <1>1, <1>2

\* A turn after its own bucket the wheel finds the entry of a message again,
\* and by then the deadline has passed wherever in its tick it was: the
\* message makes its timeout transition before the wheel moves on.
LEMMA ReapAdvanceOverdue ==
  ASSUME Inv, LeaseMatchesState, WheelRegistered, OverdueWithinTurn, ReapAdvance
  PROVE  OverdueWithinTurn'
<1>1. /\ base' = base + 1 /\ UNCHANGED <<runtime, inflight>> /\ Due = {}
      /\ base <= now \div TickMs
  BY DEF ReapAdvance, InWheelLoop
<1>2. ASSUME NEW id \in DOMAIN runtime, runtime[id].state = "inflight"
      PROVE  base + 1 <= BucketTick(inflight[id].deadline) + WheelSize
  <2>1. id \in DOMAIN inflight /\ base <= BucketTick(inflight[id].deadline) + WheelSize
    BY <1>2 DEF LeaseMatchesState, OverdueWithinTurn
  <2>2. PICK d \in Nat : d = inflight[id].deadline
    BY <2>1 DEF Inv, TypeOK, GroupTypeOK, InflightEntry
  <2>3. PICK t \in Nat : t = BucketTick(d)
    BY <2>2, TickType DEF BucketTick
  <2>4. base \in Nat /\ now \in Nat /\ WheelSize \in Nat \ {0}
    BY TimesAssumption DEF Inv, TypeOK, GroupTypeOK, CallTypeOK
  <2>5. ASSUME base = t + WheelSize PROVE FALSE
    <3>1. PICK x \in wheel[Slot(d)] : x[1] = id
      BY <2>1, <2>2 DEF WheelRegistered
    <3>2. base % WheelSize = t % WheelSize
      BY <2>3, <2>4, <2>5, TurnSlot
    <3>3. x \in Bucket
      BY <2>3, <3>1, <3>2 DEF Slot, Bucket
    <3>4. Reached(x)
      BY <2>1, <2>2, <2>3, <2>4, <2>5, <3>1 DEF Reached
    <3>5. now \div TickMs \in Nat
      BY <2>4, TickType
    <3>6. t < now \div TickMs
      BY <1>1, <2>3, <2>4, <2>5, <3>5
    <3>7. d \div TickMs < now \div TickMs
      BY <2>3, <3>6 DEF BucketTick
    <3>8. d < now
      BY <2>2, <2>4, <3>7, TickType, DivBefore
    <3>9. x \in Due
      BY <2>2, <2>4, <3>1, <3>3, <3>4, <3>8 DEF Due
    <3> QED
      BY <1>1, <3>9
  <2> QED
    BY <2>1, <2>2, <2>3, <2>4, <2>5
<1> QED
  BY <1>1, <1>2 DEF OverdueWithinTurn

\* A group just loaded has no IN_FLIGHT message: replay made them READY.
LEMMA GetGroupOverdue ==
  ASSUME Inv, GetGroup
  PROVE  OverdueWithinTurn'
<1>1. PICK at \in [KnownIds -> DOMAIN segIndex] :
         runtime' = [id \in KnownIds |-> RecoveredRuntime(eventLog, id, at[id])]
  BY DEF GetGroup
<1>2. ASSUME NEW id \in KnownIds PROVE runtime'[id].state # "inflight"
  BY <1>1, NoneInflight
<1> QED
  BY <1>1, <1>2 DEF OverdueWithinTurn

LEMMA NextOverdue ==
  ASSUME Inv, BaseInv, LeaseMatchesState, WheelRegistered, OverdueWithinTurn, [Next]_vars
  PROVE  OverdueWithinTurn'
<1>1. ASSUME UNCHANGED <<runtime, inflight, base>> PROVE OverdueWithinTurn'
  BY <1>1 DEF OverdueWithinTurn
<1>2. TypeOK /\ base \in Nat /\ clock \in Nat
  BY DEF Inv, TypeOK, GroupTypeOK, CallTypeOK
<1>3. CASE Tick \/ SetClockBack \/ Restart
  BY <1>1, <1>3 DEF Tick, SetClockBack, Restart, group
<1>4. CASE Crash \/ PowerLoss
  BY <1>4, EmptyDomain DEF Crash, PowerLoss, LoseMemory, OverdueWithinTurn
<1>5. ASSUME NEW l \in leases, NEW fp, Ack(l, fp) \/ \E requeue \in BOOLEAN : Nack(l, requeue, fp)
      PROVE  OverdueWithinTurn'
  <2>1. PICK e \in Event, early \in SUBSET Faults :
           /\ AppendTransition(e, runtime, wheel, early, fp)
           /\ e.state # "inflight" /\ e.id \in DOMAIN runtime /\ UNCHANGED <<base, clock>>
    BY <1>5, EndLeaseIs
  <2> QED
    BY <1>2, <2>1, AppendOverdue
<1>6. CASE ClientStep
  <2>1. ASSUME NEW id \in Ids, NEW fp, Produce(id, fp) PROVE OverdueWithinTurn'
    BY <1>1, <2>1 DEF Produce, group
  <2>2. ASSUME NEW c, Begin(c) PROVE OverdueWithinTurn'
    BY <1>1, <2>2 DEF Begin, group
  <2> QED
    BY <1>5, <1>6, <2>1, <2>2, GetGroupOverdue DEF ClientStep, BeginConsume, BeginStats
<1>7. ASSUME NEW fp, Deliver(fp) PROVE OverdueWithinTurn'
  <2>1. PICK e \in Event : \E rt :
           /\ AppendTransition(e, rt, wheel, {"before_lease_issue", "before_log_append"}, fp)
           /\ e.id \in DOMAIN rt
           /\ \A id \in DOMAIN runtime : rt[id] = runtime[id]
           /\ \A id \in DOMAIN rt \ DOMAIN runtime : rt[id].state # "inflight"
           /\ e.deadline = clock + VisibilityTimeout /\ UNCHANGED <<base, clock>>
    BY <1>7, DeliverIs
  <2>2. base <= BucketTick(e.deadline) + WheelSize
    <3>1. clock \div TickMs <= (clock + VisibilityTimeout) \div TickMs
      BY <1>2, TickType, TimesAssumption, DivMonotone
    <3>2. clock \div TickMs \in Nat /\ (clock + VisibilityTimeout) \div TickMs \in Nat
      BY <1>2, TickType, TimesAssumption
    <3>3. BucketTick(e.deadline) = (clock + VisibilityTimeout) \div TickMs
      BY <2>1 DEF BucketTick
    <3> QED
      BY <1>2, <3>1, <3>2, <3>3, TimesAssumption DEF BaseInv
  <2> QED
    BY <1>2, <2>1, <2>2, AppendOverdue
<1>8. ASSUME NEW x, NEW fp, ReapTimeout(x, fp) PROVE OverdueWithinTurn'
  <2>1. PICK e \in Event, early \in {{"before_timeout_transition", "before_log_append"}} :
           /\ AppendTransition(e, runtime, [wheel EXCEPT ![base % WheelSize] = @ \ {x}], early, fp)
           /\ e.state # "inflight" /\ e.id = x[1] /\ e.id \in DOMAIN runtime
           /\ UNCHANGED <<base, clock>>
    BY <1>8, TimeoutIs
  <2> QED
    BY <1>2, <2>1, AppendOverdue
<1>9. CASE CallStep
  <2>1. CASE ReapEnd \/ FinishStats \/ ConsumeNothing
    BY <1>1, <2>1 DEF ReapEnd, FinishStats, ConsumeNothing, group
  <2> QED
    BY <1>7, <1>8, <1>9, <2>1, ReapAdvanceOverdue DEF CallStep, Timeouts, Deliveries
<1>10. CASE UNCHANGED vars
  BY <1>1, <1>10 DEF vars, group
<1> QED
  BY <1>3, <1>4, <1>6, <1>9, <1>10 DEF Next

\* The wheel is never more than a turn past the bucket of an IN_FLIGHT
\* message, whatever the tick and wherever in its tick a deadline is, through
\* crashes and power losses, when the clock is not set back, no timeout
\* transition fails and no lease ends a turn of the wheel ahead.
THEOREM OverdueAreWithinTurn ==
  ASSUME TimeoutsSucceed, MaxSetbacks = 0
  PROVE  Spec /\ []WithinTurn => []OverdueWithinTurn
<1>1. Init => BaseInv /\ OverdueWithinTurn
  <2> SUFFICES ASSUME Init PROVE BaseInv /\ OverdueWithinTurn
    OBVIOUS
  <2>1. 0 \div TickMs \in Nat
    BY TickType
  <2> QED
    BY <2>1, EmptyDomain DEF Init, BaseInv, OverdueWithinTurn
<1>2. Inv /\ BaseInv /\ [Next]_vars => BaseInv'
  BY NextBase
<1>3. Inv /\ BaseInv /\ LeaseMatchesState /\ WheelRegistered /\ OverdueWithinTurn
        /\ [Next]_vars => OverdueWithinTurn'
  BY NextOverdue
<1> QED
  BY <1>1, <1>2, <1>3, InvHolds, LeasesMatch, LeasesAreRegistered, PTL DEF Spec
=============================================================================
