----------------------- MODULE ConsumerSession_proofs -----------------------
(***************************************************************************)
(* Proofs about the push consumers (ConsumerSession), for any number of    *)
(* sessions, any limits and any width of the credit window.                *)
(***************************************************************************)
EXTENDS ConsumerSession, SequenceTheorems, WellFoundedInduction, TLAPS

-----------------------------------------------------------------------------
(* The inductive invariant.                                                *)

Session == [session_id: Nat, max_inflight: Nat, credit_window: 0 .. CreditModulus - 1,
            inflight: Nat]

Types ==
    /\ sessions \in [Indices -> Session]
    /\ \A i \in Indices : sessions[i].inflight <= sessions[i].max_inflight
    /\ cursor \in {0} \cup 0 .. N - 1
    /\ picked \in Seq(Indices) /\ served \in 0 .. N
    /\ owed \in [Indices -> Nat] /\ bypassed \in [Indices -> Nat]

\* The places between the cursor and a session: ScanIndex(Distance(i)) = i.
Distance(i) == IF cursor < i THEN i - 1 - cursor ELSE i - 1 - cursor + N

\* Each pick of another session brings the cursor closer to one that waits.
RoundRobin ==
    \A i \in Indices :
        IF Dispatchable(i) THEN bypassed[i] + Distance(i) < N ELSE bypassed[i] = 0

Inv == Types /\ NoFreeCredit /\ RoundRobin

-----------------------------------------------------------------------------
(* Lemmas on the operators.                                                *)

LEMMA ModSmall ==
  ASSUME NEW a \in Nat, NEW n \in Nat \ {0}
  PROVE  /\ a < n => a % n = a
         /\ (n <= a /\ a < 2 * n) => a % n = a - n
         /\ a % n \in 0 .. n - 1
<1>1. a < n => a % n = a
  OBVIOUS
<1>2. (n <= a /\ a < 2 * n) => a % n = a - n
  OBVIOUS
<1>3. a % n \in 0 .. n - 1
  OBVIOUS
<1> QED
  BY <1>1, <1>2, <1>3

LEMMA LeastNat ==
  ASSUME NEW S \in SUBSET Nat, S # {}
  PROVE  \E m \in S : \A y \in S : m <= y
<1>1. PICK m \in S : \A y \in S : ~ (<<y, m>> \in OpToRel(<, Nat))
  BY NatLessThanWellFounded, WFMin
<1>2. ASSUME NEW y \in S PROVE m <= y
  <2>1. ~(y < m) /\ y \in Nat /\ m \in Nat
    BY <1>1 DEF OpToRel
  <2> QED
    BY <2>1
<1> QED
  BY <1>2

LEMMA NType == N \in Nat
BY SessionsAssumption DEF N

\* The scan reaches each session once, at its distance from the cursor.
LEMMA ScanReaches ==
  ASSUME Types, NEW k \in 0 .. N - 1
  PROVE  ScanIndex(k) \in Indices /\ Distance(ScanIndex(k)) = k
<1>1. N \in Nat \ {0} /\ cursor \in 0 .. N - 1
  BY NType DEF Types
<1>2. PICK a \in Nat : a = cursor + k
  BY <1>1
<1>3. a % N = IF a < N THEN a ELSE a - N
  <2>1. a < 2 * N
    BY <1>1, <1>2
  <2>2. /\ a < N => a % N = a
        /\ (N <= a /\ a < 2 * N) => a % N = a - N
    BY <1>1, ModSmall
  <2> QED
    BY <1>1, <2>1, <2>2
<1>4. ScanIndex(k) = IF cursor + k < N THEN cursor + k + 1 ELSE cursor + k - N + 1
  BY <1>1, <1>2, <1>3 DEF ScanIndex
<1> QED
  BY <1>1, <1>4 DEF Indices, Distance

LEMMA DistanceScanned ==
  ASSUME Types, NEW i \in Indices
  PROVE  Distance(i) \in 0 .. N - 1 /\ ScanIndex(Distance(i)) = i
<1>1. N \in Nat \ {0} /\ cursor \in 0 .. N - 1 /\ i \in 1 .. N
  BY NType DEF Types, Indices
<1>2. Distance(i) \in 0 .. N - 1
  BY <1>1 DEF Distance
<1>3. PICK d \in 0 .. N - 1 : d = Distance(i)
  BY <1>2
<1>a. PICK a \in Nat : a = cursor + d
  BY <1>1
<1>4. a % N = IF a < N THEN a ELSE a - N
  <2>1. a < 2 * N
    BY <1>1, <1>a
  <2>2. /\ a < N => a % N = a
        /\ (N <= a /\ a < 2 * N) => a % N = a - N
    BY <1>1, ModSmall
  <2> QED
    BY <1>1, <2>1, <2>2
<1>5. ScanIndex(d) = i
  BY <1>1, <1>3, <1>a, <1>4 DEF ScanIndex, Distance
<1> QED
  BY <1>2, <1>3, <1>5

\* NextDispatchable's session is dispatchable, and no other dispatchable one
\* is closer to the cursor.
LEMMA FoundFirst ==
  ASSUME Types, Hits # {},
         NEW found, found = ScanIndex(CHOOSE k \in Hits : \A j \in Hits : k <= j)
  PROVE  /\ found \in Indices /\ Dispatchable(found)
         /\ \A i \in Indices \ {found} : Dispatchable(i) => Distance(found) < Distance(i)
<1>1. Hits \in SUBSET (0 .. N - 1) /\ N \in Nat
  BY NType DEF Hits
<1>2. \E k \in Hits : \A j \in Hits : k <= j
  <2>1. Hits \in SUBSET Nat
    BY <1>1
  <2> QED
    BY <2>1, LeastNat
<1>3. PICK k \in 0 .. N - 1 : k \in Hits /\ (\A j \in Hits : k <= j) /\ found = ScanIndex(k)
  BY <1>1, <1>2
<1>4. found \in Indices /\ Distance(found) = k
  BY <1>3, ScanReaches
<1>5. Dispatchable(found)
  BY <1>3 DEF Hits
<1>6. ASSUME NEW i \in Indices \ {found}, Dispatchable(i)
      PROVE  Distance(found) < Distance(i)
  <2>1. Distance(i) \in 0 .. N - 1 /\ ScanIndex(Distance(i)) = i
    BY DistanceScanned
  <2>2. Distance(i) \in Hits
    BY <1>6, <2>1 DEF Hits
  <2>3. k <= Distance(i) /\ k # Distance(i)
    BY <1>3, <1>6, <2>1, <2>2
  <2> QED
    BY <1>1, <1>3, <1>4, <2>1, <2>3
<1> QED
  BY <1>4, <1>5, <1>6

-----------------------------------------------------------------------------
(* The invariant, action by action.                                        *)

LEMMA InitInv == ASSUME Init PROVE Inv
<1>1. PICK order \in [Indices -> Indices] :
         sessions = [i \in Indices |->
            [session_id |-> Sessions[order[i]].session_id,
             max_inflight |-> Sessions[order[i]].max_inflight,
             credit_window |-> 0, inflight |-> 0]]
  BY DEF Init
<1>2. Sessions \in [Indices -> [session_id: Nat, max_inflight: Nat]]
  BY SessionsAssumption, LenProperties DEF Indices, N
<1>3. \A i \in Indices : /\ Sessions[order[i]].session_id \in Nat
                         /\ Sessions[order[i]].max_inflight \in Nat
  BY <1>2
<1>4. 0 \in 0 .. CreditModulus - 1
  BY CreditAssumption
<1>5. sessions \in [Indices -> Session] /\ \A i \in Indices :
         /\ sessions[i].inflight = 0 /\ sessions[i].credit_window = 0
         /\ sessions[i].max_inflight \in Nat
  BY <1>1, <1>3, <1>4 DEF Session
<1>6. Types
  <2>1. \A i \in Indices : sessions[i].inflight <= sessions[i].max_inflight
    BY <1>5
  <2>2. /\ cursor \in {0} \cup 0 .. N - 1 /\ picked \in Seq(Indices) /\ served \in 0 .. N
        /\ owed \in [Indices -> Nat] /\ bypassed \in [Indices -> Nat]
    BY NType DEF Init
  <2> QED
    BY <1>5, <2>1, <2>2 DEF Types
<1>7. NoFreeCredit
  <2>1. owed = [i \in Indices |-> 0]
    BY DEF Init
  <2> QED
    BY <1>5, <2>1 DEF NoFreeCredit
<1>8. RoundRobin
  <2>1. bypassed = [i \in Indices |-> 0]
    BY DEF Init
  <2> QED
    BY <1>5, <2>1 DEF RoundRobin, Dispatchable, CanDispatch
<1> QED
  BY <1>6, <1>7, <1>8 DEF Inv

\* A step that moves no cursor passes over no session.
LEMMA WaitingKept ==
  ASSUME Inv, bypassed' = Waiting(bypassed), cursor' = cursor
  PROVE  RoundRobin' /\ bypassed' \in [Indices -> Nat]
<1>1. bypassed \in [Indices -> Nat] /\ N \in Nat
  BY NType DEF Inv, Types
<1>2. \A i \in Indices : bypassed'[i] = IF Dispatchable(i)' THEN bypassed[i] ELSE 0
  BY DEF Waiting
<1>3. bypassed' \in [Indices -> Nat]
  BY <1>1 DEF Waiting
<1>4. ASSUME NEW i \in Indices
      PROVE  IF Dispatchable(i)' THEN bypassed'[i] + Distance(i)' < N ELSE bypassed'[i] = 0
  <2>1. Distance(i)' = Distance(i)
    BY DEF Distance
  <2>2. Distance(i) \in 0 .. N - 1
    BY DistanceScanned DEF Inv
  <2>3. bypassed[i] + Distance(i) < N
    BY <1>1, <2>2 DEF Inv, RoundRobin
  <2> QED
    BY <1>2, <2>1, <2>3
<1> QED
  BY <1>3, <1>4 DEF RoundRobin

LEMMA NextDispatchableInv == ASSUME Inv, NextDispatchable PROVE Inv'
<1>1. PICK found :
         /\ found = ScanIndex(CHOOSE k \in Hits : \A j \in Hits : k <= j)
         /\ cursor' = found % N /\ picked' = Append(picked, found)
         /\ bypassed' = Waiting([i \in Indices |-> IF i = found THEN 0 ELSE bypassed[i] + 1])
  BY DEF NextDispatchable
<1>2. UNCHANGED <<sessions, served, owed>> /\ Hits # {}
  BY DEF NextDispatchable
<1>3. /\ found \in Indices /\ Dispatchable(found)
      /\ \A i \in Indices \ {found} : Dispatchable(i) => Distance(found) < Distance(i)
  BY <1>1, <1>2, FoundFirst DEF Inv
<1>4. N \in Nat \ {0} /\ found \in 1 .. N /\ cursor \in 0 .. N - 1
  BY <1>3, NType DEF Indices, Inv, Types
<1>5. cursor' = IF found = N THEN 0 ELSE found
  <2>0. found \in Nat /\ N \in Nat \ {0}
    BY <1>4
  <2>1. /\ found < N => found % N = found
        /\ (N <= found /\ found < 2 * N) => found % N = found - N
    BY <2>0, ModSmall
  <2> QED
    BY <1>1, <1>4, <2>1
<1>6. bypassed \in [Indices -> Nat]
  BY DEF Inv, Types
<1>7. \A i \in Indices :
         bypassed'[i] = IF Dispatchable(i) /\ i # found THEN bypassed[i] + 1 ELSE 0
  BY <1>1, <1>2 DEF Waiting, Dispatchable
<1>8. bypassed' \in [Indices -> Nat]
  BY <1>1, <1>6 DEF Waiting
<1>9. Types'
  <2>1. cursor' \in 0 .. N - 1
    BY <1>4, <1>5
  <2>2. picked' \in Seq(Indices)
    BY <1>1, <1>3, AppendProperties DEF Inv, Types
  <2> QED
    BY <1>2, <1>8, <2>1, <2>2 DEF Inv, Types
<1>10. NoFreeCredit'
  BY <1>2 DEF Inv, NoFreeCredit
<1>11. ASSUME NEW i \in Indices
       PROVE  IF Dispatchable(i)' THEN bypassed'[i] + Distance(i)' < N ELSE bypassed'[i] = 0
  <2>1. i \in 1 .. N
    BY DEF Indices
  <2>2. Distance(i)' \in 0 .. N - 1
    BY <1>4, <1>5, <2>1 DEF Distance
  <2>3. Dispatchable(i)' = Dispatchable(i)
    BY <1>2 DEF Dispatchable
  <2>4. CASE ~Dispatchable(i)
    BY <1>7, <2>3, <2>4
  <2>5. CASE Dispatchable(i) /\ i = found
    <3>1. bypassed'[i] = 0
      BY <1>7, <2>5
    <3> QED
      BY <1>4, <2>2, <2>3, <2>5, <3>1
  <2>6. CASE Dispatchable(i) /\ i # found
    <3>1. bypassed'[i] = bypassed[i] + 1 /\ bypassed[i] \in Nat
      BY <1>6, <1>7, <2>6
    <3>2. bypassed[i] + Distance(i) < N
      BY <2>6 DEF Inv, RoundRobin
    <3>3. Distance(found) < Distance(i)
      BY <1>3, <2>6
    <3>4. Distance(i)' = Distance(i) - Distance(found) - 1
      BY <1>4, <1>5, <2>1, <2>6, <3>3 DEF Distance
    <3>5. Distance(found) \in Nat /\ Distance(i) \in Nat
      BY <1>4, <2>1 DEF Distance
    <3> QED
      BY <1>4, <2>3, <2>6, <3>1, <3>2, <3>4, <3>5
  <2> QED
    BY <2>4, <2>5, <2>6
<1>12. RoundRobin'
  BY <1>11 DEF RoundRobin
<1> QED
  BY <1>9, <1>10, <1>12 DEF Inv

\* A session after TryDispatch: within its limit, and with less credit if it
\* has been dispatched to.
LEMMA DispatchedSession ==
  ASSUME NEW s \in Session, s.inflight <= s.max_inflight
  PROVE  /\ Dispatched(s) \in Session
         /\ Dispatched(s).inflight <= Dispatched(s).max_inflight
         /\ Dispatched(s) # s => Dispatched(s).credit_window = s.credit_window - 1
         /\ Dispatched(s).credit_window <= s.credit_window
<1>1. CASE ~CanDispatch(s)
  BY <1>1, CreditAssumption DEF Dispatched, Session
<1>2. CASE CanDispatch(s)
  <2>1. Dispatched(s) = [s EXCEPT !.credit_window = @ - 1, !.inflight = @ + 1]
    BY <1>2 DEF Dispatched
  <2>2. s.credit_window - 1 \in 0 .. CreditModulus - 1 /\ s.inflight + 1 \in Nat
    BY <1>2, CreditAssumption DEF CanDispatch, Session
  <2>3. /\ Dispatched(s) \in Session
        /\ Dispatched(s).credit_window = s.credit_window - 1
        /\ Dispatched(s).inflight = s.inflight + 1
        /\ Dispatched(s).max_inflight = s.max_inflight
    BY <2>1, <2>2 DEF Session
  <2>4. s.inflight + 1 <= s.max_inflight /\ s.credit_window - 1 <= s.credit_window
    BY <1>2, CreditAssumption DEF CanDispatch, Session
  <2> QED
    BY <2>3, <2>4
<1> QED
  BY <1>1, <1>2

LEMMA TryDispatchInv == ASSUME Inv, TryDispatch PROVE Inv'
<1>1. PICK i : /\ i = Head(picked)
               /\ sessions' = [sessions EXCEPT ![i] = Dispatched(@)]
               /\ served' = IF sessions'[i] # sessions[i] THEN i ELSE 0
               /\ owed' = IF served' = 0 \/ owed[i] = 0 THEN owed ELSE [owed EXCEPT ![i] = @ - 1]
  BY DEF TryDispatch
<1>2. /\ picked # <<>> /\ picked' = Tail(picked)
      /\ bypassed' = Waiting(bypassed) /\ cursor' = cursor
  BY DEF TryDispatch
<1>3. i \in Indices /\ picked' \in Seq(Indices)
  BY <1>1, <1>2, HeadTailProperties DEF Inv, Types
<1>4. /\ sessions \in [Indices -> Session] /\ sessions[i] \in Session
      /\ sessions[i].inflight <= sessions[i].max_inflight /\ owed \in [Indices -> Nat]
  BY <1>3 DEF Inv, Types
<1>5. PICK t \in Session :
         /\ t = Dispatched(sessions[i]) /\ t.inflight <= t.max_inflight
         /\ t # sessions[i] => t.credit_window = sessions[i].credit_window - 1
         /\ t.credit_window <= sessions[i].credit_window
  BY <1>4, DispatchedSession
<1>6. sessions' = [sessions EXCEPT ![i] = t]
  BY <1>1, <1>5
<1>7. served' = (IF t # sessions[i] THEN i ELSE 0) /\ i \in 1 .. N /\ N \in Nat
  BY <1>1, <1>3, <1>4, <1>6, NType DEF Indices
<1>8. RoundRobin' /\ bypassed' \in [Indices -> Nat]
  BY <1>2, WaitingKept
<1>9. owed' \in [Indices -> Nat] /\ served' \in 0 .. N
  BY <1>1, <1>3, <1>4, <1>7
<1>10. Types'
  BY <1>2, <1>3, <1>4, <1>5, <1>6, <1>8, <1>9 DEF Inv, Types
<1>11. ASSUME NEW j \in Indices PROVE sessions'[j].credit_window <= owed'[j]
  <2>1. sessions[j].credit_window <= owed[j] /\ owed[j] \in Nat
    BY <1>4 DEF Inv, NoFreeCredit
  <2>2. CASE j # i
    <3>1. sessions'[j] = sessions[j] /\ owed'[j] = owed[j]
      BY <1>1, <1>4, <1>6, <2>2
    <3> QED
      BY <2>1, <3>1
  <2>3. CASE j = i /\ (t = sessions[i] \/ owed[i] = 0)
    <3>1. owed' = owed
      BY <1>1, <1>7, <2>3
    <3>2. sessions'[i] = t
      BY <1>3, <1>4, <1>6
    <3>3. t.credit_window \in Nat /\ sessions[i].credit_window \in Nat
      BY <1>4, CreditAssumption DEF Session
    <3> QED
      BY <1>5, <2>1, <2>3, <3>1, <3>2, <3>3
  <2>4. CASE j = i /\ t # sessions[i] /\ owed[i] # 0
    <3>1. owed' = [owed EXCEPT ![i] = @ - 1]
      BY <1>1, <1>7, <2>4
    <3>2. sessions'[i] = t /\ owed'[i] = owed[i] - 1
      BY <1>3, <1>4, <1>6, <3>1
    <3>3. t.credit_window = sessions[i].credit_window - 1
      BY <1>5, <2>4
    <3>4. sessions[i].credit_window \in Nat
      BY <1>4, CreditAssumption DEF Session
    <3> QED
      BY <2>1, <2>4, <3>2, <3>3, <3>4
  <2> QED
    BY <2>2, <2>3, <2>4
<1> QED
  BY <1>8, <1>10, <1>11 DEF Inv, NoFreeCredit

\* A sum that runs over the window loses credit.
LEMMA AddCreditInv ==
  ASSUME Inv, NEW i \in Indices, NEW credit \in Grants, AddCredit(i, credit)
  PROVE  Inv'
<1>1. /\ owed' = [owed EXCEPT ![i] = @ + credit]
      /\ sessions' = [sessions EXCEPT ![i].credit_window = (@ + credit) % CreditModulus]
      /\ served' = 0 /\ bypassed' = Waiting(bypassed) /\ UNCHANGED <<cursor, picked>>
  BY DEF AddCredit
<1>2. /\ sessions \in [Indices -> Session] /\ sessions[i] \in Session
      /\ owed \in [Indices -> Nat] /\ owed[i] \in Nat
      /\ CreditModulus \in Nat \ {0} /\ credit \in Nat
      /\ sessions[i].credit_window \in Nat
  BY CreditAssumption DEF Inv, Types, Session
<1>3. PICK a \in Nat : a = sessions[i].credit_window + credit
  BY <1>2
<1>4. a % CreditModulus \in 0 .. CreditModulus - 1
  BY <1>2, ModSmall
<1>5. a % CreditModulus <= a
  BY <1>2
<1>6. PICK c \in 0 .. CreditModulus - 1 : c = a % CreditModulus /\ c <= a
  BY <1>4, <1>5
<1>7. sessions' = [sessions EXCEPT ![i] = [sessions[i] EXCEPT !.credit_window = c]]
  BY <1>1, <1>2, <1>3, <1>6
<1>8. /\ sessions' \in [Indices -> Session] /\ owed' \in [Indices -> Nat]
      /\ sessions'[i].credit_window = c
      /\ \A j \in Indices : /\ sessions'[j].inflight = sessions[j].inflight
                            /\ sessions'[j].max_inflight = sessions[j].max_inflight
                            /\ j # i => sessions'[j] = sessions[j]
  BY <1>1, <1>2, <1>7 DEF Session
<1>9. RoundRobin' /\ bypassed' \in [Indices -> Nat]
  BY <1>1, WaitingKept
<1>10. Types'
  BY <1>1, <1>8, <1>9, NType DEF Inv, Types
<1>11. ASSUME NEW j \in Indices PROVE sessions'[j].credit_window <= owed'[j]
  <2>1. sessions[j].credit_window <= owed[j]
    BY DEF Inv, NoFreeCredit
  <2>2. CASE j # i
    BY <1>1, <1>2, <1>8, <2>1, <2>2
  <2>3. CASE j = i
    <3>1. owed'[i] = owed[i] + credit
      BY <1>1, <1>2
    <3> QED
      BY <1>2, <1>3, <1>6, <1>8, <2>1, <2>3, <3>1
  <2> QED
    BY <2>2, <2>3
<1> QED
  BY <1>9, <1>10, <1>11 DEF Inv, NoFreeCredit

LEMMA AckOneInv == ASSUME Inv, NEW i \in Indices, AckOne(i) PROVE Inv'
<1>1. /\ sessions[i].inflight > 0
      /\ sessions' = [sessions EXCEPT ![i].inflight = @ - 1]
      /\ served' = 0 /\ bypassed' = Waiting(bypassed) /\ UNCHANGED <<cursor, picked, owed>>
  BY DEF AckOne
<1>2. sessions \in [Indices -> Session] /\ sessions[i].inflight \in Nat
  BY DEF Inv, Types, Session
<1>3. PICK m \in Nat : m = sessions[i].inflight - 1
  BY <1>1, <1>2
<1>4. sessions' = [sessions EXCEPT ![i] = [sessions[i] EXCEPT !.inflight = m]]
  BY <1>1, <1>2, <1>3
<1>5. /\ sessions' \in [Indices -> Session] /\ sessions'[i].inflight = m
      /\ \A j \in Indices : /\ sessions'[j].credit_window = sessions[j].credit_window
                            /\ sessions'[j].max_inflight = sessions[j].max_inflight
                            /\ j # i => sessions'[j] = sessions[j]
  BY <1>2, <1>4 DEF Session
<1>6. \A j \in Indices : sessions'[j].inflight <= sessions'[j].max_inflight
  <2>1. m <= sessions[i].max_inflight
    BY <1>2, <1>3 DEF Inv, Types, Session
  <2> QED
    BY <1>5, <2>1 DEF Inv, Types
<1>7. RoundRobin' /\ bypassed' \in [Indices -> Nat]
  BY <1>1, WaitingKept
<1>8. Types'
  BY <1>1, <1>5, <1>6, <1>7, NType DEF Inv, Types
<1>9. NoFreeCredit'
  BY <1>1, <1>5 DEF Inv, NoFreeCredit
<1> QED
  BY <1>7, <1>8, <1>9 DEF Inv

LEMMA NextInv == ASSUME Inv, [Next]_vars PROVE Inv'
<1>1. CASE UNCHANGED vars
  BY <1>1 DEF vars, Inv, Types, NoFreeCredit, RoundRobin, Dispatchable, Distance
<1>2. CASE Next
  BY <1>2, NextDispatchableInv, TryDispatchInv, AddCreditInv, AckOneInv DEF Next
<1> QED
  BY <1>1, <1>2

LEMMA InvHolds == Spec => []Inv
BY InitInv, NextInv, PTL DEF Spec

-----------------------------------------------------------------------------
(* The theorems.                                                           *)

\* TryDispatch asks the session again: no stale index takes it past its
\* limit, or its window below zero.
THEOREM TypeCorrect == Spec => []TypeOK
<1>1. Inv => TypeOK
  <2>1. SUFFICES ASSUME Inv PROVE TypeOK
    OBVIOUS
  <2>2. ASSUME NEW i \in Indices
        PROVE  /\ sessions[i].credit_window \in 0 .. CreditModulus - 1
               /\ sessions[i].inflight \in 0 .. sessions[i].max_inflight
    BY <2>1 DEF Inv, Types, Session
  <2> QED
    BY <2>1, <2>2 DEF TypeOK, Inv, Types
<1> QED
  BY <1>1, InvHolds, PTL

\* NextDispatchable's round robin: a session that stays dispatchable is
\* passed over fewer times than there are sessions, however acknowledgements,
\* credit and dispatches of held indices come in between.
THEOREM BypassIsBounded == Spec => []BoundedBypass
<1>1. Inv => BoundedBypass
  <2>1. SUFFICES ASSUME Inv, NEW i \in Indices PROVE bypassed[i] < N
    BY DEF BoundedBypass
  <2>2. Distance(i) \in 0 .. N - 1 /\ N \in Nat /\ bypassed[i] \in Nat
    BY <2>1, DistanceScanned, NType DEF Inv, Types
  <2> QED
    BY <2>1, <2>2 DEF Inv, RoundRobin
<1> QED
  BY <1>1, InvHolds, PTL

\* AddCredit and TryDispatch: a window never holds credit its consumer has
\* not granted, also when a sum runs over its width.
THEOREM CreditIsGranted == Spec => []NoFreeCredit
BY InvHolds, PTL DEF Inv
=============================================================================
