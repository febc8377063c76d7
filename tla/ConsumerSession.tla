-------------------------- MODULE ConsumerSession --------------------------
(***************************************************************************)
(* Push consumers (src/core/consumer_session.cc): sessions with a credit   *)
(* window and an inflight limit, and the scheduler that picks, round-robin,*)
(* the next one a message may be sent to.  Picking and dispatching are two *)
(* calls: an index may be used after credit, acknowledgements or other     *)
(* dispatches have changed the session it names.                           *)
(***************************************************************************)
EXTENDS Naturals, Sequences

CONSTANTS
    Sessions,      \* the sessions as handed to the scheduler, in any order:
                   \* records of a session_id and a max_inflight
    CreditModulus, \* 2^32: credit_window is a uint32_t
    Grants,        \* amounts of credit consumers add
    MaxPicked,     \* bound on the indices held before they are used
    MaxOwed        \* bound on the credit granted and not used

ASSUME SessionsAssumption ==
    /\ Sessions \in Seq([session_id: Nat, max_inflight: Nat])
    /\ \A i, j \in DOMAIN Sessions :
          Sessions[i].session_id = Sessions[j].session_id => i = j
ASSUME CreditAssumption ==
    CreditModulus \in Nat \ {0} /\ Grants \subseteq 0 .. CreditModulus - 1
ASSUME BoundsAssumption == MaxPicked \in Nat /\ MaxOwed \in Nat

VARIABLES
    sessions,   \* sessions_: sorted; index i of the model is i - 1 of the code
    cursor,     \* cursor_, from 0
    picked,     \* indices NextDispatchable returned and not used yet
    \* history
    served,     \* the session the last TryDispatch was granted to, or 0
    bypassed,   \* per session: picks of others since it has been dispatchable
    owed        \* per session: messages it has granted credit for and not got

vars == <<sessions, cursor, picked, served, bypassed, owed>>

N == Len(Sessions)
Indices == 1 .. N

CanDispatch(s) == s.credit_window > 0 /\ s.inflight < s.max_inflight

Dispatchable(i) == CanDispatch(sessions[i])

\* A session that cannot be dispatched to is not waiting.
Waiting(count) == [i \in Indices |-> IF Dispatchable(i)' THEN count[i] ELSE 0]

Init ==
    /\ \E order \in {f \in [Indices -> Indices] : \A i, j \in Indices : f[i] = f[j] => i = j} :
          /\ \A i, j \in Indices :
                i < j => Sessions[order[i]].session_id < Sessions[order[j]].session_id
          /\ sessions = [i \in Indices |->
                [session_id |-> Sessions[order[i]].session_id,
                 max_inflight |-> Sessions[order[i]].max_inflight,
                 credit_window |-> 0, inflight |-> 0]]
    /\ cursor = 0 /\ picked = <<>> /\ served = 0
    /\ bypassed = [i \in Indices |-> 0] /\ owed = [i \in Indices |-> 0]

-----------------------------------------------------------------------------
(* The scheduler.                                                          *)

\* The index that is `scanned` places after the cursor.
ScanIndex(scanned) == ((cursor + scanned) % N) + 1

\* Mutant: the scan stops one session early.
HitsShort == {k \in 0 .. N - 2 : Dispatchable(ScanIndex(k))}

Hits == {k \in 0 .. N - 1 : Dispatchable(ScanIndex(k))}

\* Mutant: the cursor stays on the session it has found.
NextDispatchableStays ==
    /\ Len(picked) < MaxPicked
    /\ Hits # {}
    /\ LET found == ScanIndex(CHOOSE k \in Hits : \A j \in Hits : k <= j)
       IN  /\ cursor' = found - 1
           /\ picked' = Append(picked, found)
           /\ sessions' = sessions
           /\ bypassed' = Waiting([i \in Indices |->
                 IF i = found THEN 0 ELSE bypassed[i] + 1])
    /\ UNCHANGED <<served, owed>>

\* NextDispatchable finds a session, the first from the cursor on.
NextDispatchable ==
    /\ Len(picked) < MaxPicked
    /\ Hits # {}
    /\ LET found == ScanIndex(CHOOSE k \in Hits : \A j \in Hits : k <= j)
       IN  /\ cursor' = found % N
           /\ picked' = Append(picked, found)
           /\ sessions' = sessions
           /\ bypassed' = Waiting([i \in Indices |->
                 IF i = found THEN 0 ELSE bypassed[i] + 1])
    /\ UNCHANGED <<served, owed>>

-----------------------------------------------------------------------------
(* The sessions.                                                           *)

\* Mutant: the index is trusted, and the session not asked again.
DispatchedTrusting(s) ==
    [s EXCEPT !.credit_window = (@ + CreditModulus - 1) % CreditModulus, !.inflight = @ + 1]

\* TryDispatch: what is left of the session; unchanged when it refuses.
Dispatched(s) ==
    IF CanDispatch(s)
    THEN [s EXCEPT !.credit_window = @ - 1, !.inflight = @ + 1] ELSE s

TryDispatch ==
    /\ picked # <<>>
    /\ LET i == Head(picked)
       IN  /\ sessions' = [sessions EXCEPT ![i] = Dispatched(@)]
           /\ served' = IF sessions'[i] # sessions[i] THEN i ELSE 0
           /\ owed' = IF served' = 0 \/ owed[i] = 0 THEN owed ELSE [owed EXCEPT ![i] = @ - 1]
    /\ picked' = Tail(picked)
    /\ bypassed' = Waiting(bypassed)
    /\ UNCHANGED cursor

\* Unsigned addition: a sum past the modulus starts again from zero.
AddCredit(i, credit) ==
    /\ owed[i] + credit <= MaxOwed
    /\ owed' = [owed EXCEPT ![i] = @ + credit]
    /\ sessions' = [sessions EXCEPT ![i].credit_window = (@ + credit) % CreditModulus]
    /\ served' = 0
    /\ bypassed' = Waiting(bypassed)
    /\ UNCHANGED <<cursor, picked>>

AckOne(i) ==
    /\ sessions[i].inflight > 0
    /\ sessions' = [sessions EXCEPT ![i].inflight = @ - 1]
    /\ served' = 0
    /\ bypassed' = Waiting(bypassed)
    /\ UNCHANGED <<cursor, picked, owed>>

Next ==
    \/ NextDispatchable \/ TryDispatch
    \/ \E i \in Indices : AckOne(i) \/ \E credit \in Grants : AddCredit(i, credit)

\* The dispatch loop goes on: it asks for an index and uses it.
Spec == Init /\ [][Next]_vars /\ WF_vars(NextDispatchable) /\ WF_vars(TryDispatch)

-----------------------------------------------------------------------------
(* Properties.                                                             *)

\* Types; each session within its limit, also when an index is used after
\* the session has been filled through another one.
TypeOK ==
    /\ \A i \in Indices :
          /\ sessions[i].credit_window \in 0 .. CreditModulus - 1
          /\ sessions[i].inflight \in 0 .. sessions[i].max_inflight
    /\ cursor \in {0} \cup 0 .. N - 1
    /\ picked \in Seq(Indices) /\ served \in 0 .. N

\* Round robin: a session that stays dispatchable is passed over at most
\* once for each other session, from wherever the cursor stands.
BoundedBypass == \A i \in Indices : bypassed[i] < N

\* A dispatchable session is eventually dispatched to, or stops being so.
Served == \A i \in Indices : Dispatchable(i) ~> (served = i \/ ~Dispatchable(i))

\* No free credit: the window never lets through a message its consumer has
\* not granted credit for.  A grant that runs over the 32 bits of the window
\* loses credit; nothing makes any.
NoFreeCredit ==
    \A i \in Indices : sessions[i].credit_window <= owed[i]
=============================================================================
