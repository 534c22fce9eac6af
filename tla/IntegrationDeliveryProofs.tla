---------------------- MODULE IntegrationDeliveryProofs ---------------------
(***************************************************************************)
(* Proofs about IntegrationDelivery, for any number of deliveries and      *)
(* workers, any backoff, and any number of replays, crashes and lost       *)
(* locks.                                                                  *)
(***************************************************************************)
EXTENDS IntegrationDelivery, TLAPS

\* Status, attempts and retry time of a row or of an outcome agree.
Consistent(x) ==
    /\ x.status = "failed" <=> x.nextAttemptAt # Null
    /\ x.status = "failed" => x.attempts \in 1..(MaxAttempts - 1)
    /\ x.status = "dead_letter" => x.attempts >= MaxAttempts

\* A process that is dispatching works on an existing row, and the outcome it
\* is about to save belongs to the attempt after the one it read.
ProcessesAligned ==
    \A p \in Workers :
        /\ proc[p].pc \in {"load", "send", "save"} =>
                proc[p].id \in Deliveries /\ rows[proc[p].id] # Null
        /\ proc[p].pc = "save" =>
                /\ proc[p].outcome \in Outcome
                /\ proc[p].outcome.attempts = proc[p].attempts + 1
                /\ Consistent(proc[p].outcome)

IInv == TypeOK /\ RetriesBounded /\ ProcessesAligned

-----------------------------------------------------------------------------
\* A retry time is a time, whatever the backoff.
LEMMA RetryTimeType ==
    ASSUME TypeOK, NEW a \in Nat \ {0}
    PROVE  RetryTime(a) \in Nat
<1> DEFINE index == IF a <= Len(Backoff) THEN a ELSE Len(Backoff)
<1>1. Len(Backoff) \in Nat /\ Len(Backoff) # 0 /\ clock \in Nat /\ MaxClock \in Nat
  BY DeliveryAssumption DEF TypeOK
<1>2. index \in 1..Len(Backoff)
  BY <1>1
<1>3. Backoff[index] \in Nat
  BY <1>2, DeliveryAssumption
<1> QED
  BY <1>1, <1>3 DEF RetryTime

\* What fail and the success path save counts one more attempt and is
\* consistent: a dead letter exactly when no attempt is left.
LEMMA OutcomeFacts ==
    ASSUME TypeOK, NEW a \in Nat, NEW o \in {Success(a), Failure(a)}
    PROVE  o \in Outcome /\ o.attempts = a + 1 /\ Consistent(o)
<1>1. RetryTime(a + 1) \in Nat
  BY RetryTimeType
<1>2. MaxAttempts \in Nat \ {0} /\ Null \notin Nat
  BY DeliveryAssumption
<1>3. CASE o = Success(a)
  BY <1>3, <1>2 DEF Success, Outcome, Statuses, Consistent
<1>4. CASE o = Failure(a) /\ a + 1 >= MaxAttempts
  BY <1>4, <1>2 DEF Failure, Outcome, Statuses, Consistent
<1>5. CASE o = Failure(a) /\ ~(a + 1 >= MaxAttempts)
  BY <1>5, <1>1, <1>2 DEF Failure, Outcome, Statuses, Consistent
<1> QED
  BY <1>3, <1>4, <1>5

\* A process that is down, or has nothing to dispatch, is well typed.
LEMMA ProcessTypes == Down \in Process /\ Polling \in Process /\ Polling.pc = "poll"
BY DEF Down, Polling, Process

\* The invariant holds before the first request.
LEMMA InitInv == Init => IInv
<1> SUFFICES ASSUME Init PROVE IInv
  OBVIOUS
<1>1. TypeOK
  <2>1. clock \in 0..MaxClock /\ replays \in Nat /\ faults \in Nat /\ posts \in [Deliveries -> Nat]
    BY DeliveryAssumption DEF Init
  <2>2. rows \in [Deliveries -> Row \cup {Null}] /\ proc \in [Workers -> Process]
    BY ProcessTypes DEF Init
  <2>3. endpoint \in {"active", "disabled"} /\ owner \in Workers \cup {Null}
    BY DEF Init
  <2>4. dropped \in BOOLEAN
    BY DEF Init
  <2> QED
    BY <2>1, <2>2, <2>3, <2>4 DEF TypeOK
<1>2. RetriesBounded
  BY DEF Init, RetriesBounded
<1>3. ProcessesAligned
  BY DEF Init, ProcessesAligned, Down
<1> QED
  BY <1>1, <1>2, <1>3 DEF IInv

\* Requests on the row: a new row is pending, a replay makes it pending again,
\* both without a retry time.
LEMMA RequestInv ==
    ASSUME IInv, NEW d \in Deliveries, CreateDelivery(d) \/ Replay(d)
    PROVE  IInv'
<1> USE DEF IInv
<1>1. clock \in Nat /\ Null \notin Nat /\ MaxAttempts \in Nat
  BY DeliveryAssumption DEF TypeOK
<1>2. PICK row \in Row : /\ row.status = "pending" /\ row.nextAttemptAt = Null
                         /\ rows' = [rows EXCEPT ![d] = row]
  <2>1. CASE CreateDelivery(d)
    BY <2>1, <1>1 DEF CreateDelivery, Row, Statuses
  <2>2. CASE Replay(d)
    <3>1. rows[d] \in Row
      BY <2>2 DEF Replay, TypeOK
    <3>2. [rows[d] EXCEPT !.status = "pending", !.nextAttemptAt = Null] \in Row
      BY <3>1 DEF Row, Statuses
    <3>3. rows' = [rows EXCEPT ![d] =
                      [rows[d] EXCEPT !.status = "pending", !.nextAttemptAt = Null]]
      BY <2>2 DEF Replay, TypeOK
    <3> QED
      BY <3>1, <3>2, <3>3 DEF Row
  <2> QED
    BY <2>1, <2>2
<1>3. row # Null
  BY <1>2, NullAssumption
<1>4. TypeOK'
  BY <1>2 DEF CreateDelivery, Replay, TypeOK
<1>5. RetriesBounded'
  BY <1>2, <1>3 DEF RetriesBounded, TypeOK
<1>6. ProcessesAligned'
  <2>1. UNCHANGED proc
    BY DEF CreateDelivery, Replay
  <2>2. \A e \in Deliveries : rows[e] # Null => rows'[e] # Null
    BY <1>2, <1>3 DEF TypeOK
  <2> QED
    BY <2>1, <2>2 DEF ProcessesAligned, Consistent
<1> QED
  BY <1>4, <1>5, <1>6

\* Steps that leave the rows alone and at most send a process down or back to
\* polling: clock, endpoint, lock, crashes, stops and failed statements.
LEMMA QuietInv ==
    ASSUME IInv, TypeOK', UNCHANGED rows,
           \A p \in Workers : proc'[p] = proc[p] \/ proc'[p] \in {Down, Polling}
    PROVE  IInv'
<1>1. RetriesBounded'
  BY DEF IInv, RetriesBounded
<1>2. ProcessesAligned'
  BY DEF IInv, ProcessesAligned, Consistent, Down, Polling
<1> QED
  BY <1>1, <1>2 DEF IInv

\* Polling picks an existing row.
LEMMA PollInv ==
    ASSUME IInv, NEW p \in Workers, Poll(p)
    PROVE  IInv'
<1>1. PICK d \in Deliveries :
            rows[d] # Null /\ proc' = [proc EXCEPT ![p].pc = "load", ![p].id = d]
  BY DEF Poll, IsNextDispatch, Due
<1> DEFINE new == [proc[p] EXCEPT !.pc = "load", !.id = d]
<1>2. proc' \in [Workers -> Process]
  <2>1. proc[p] \in Process
    BY DEF IInv, TypeOK
  <2>2. new \in Process
    BY <2>1 DEF Process
  <2>3. proc' = [proc EXCEPT ![p] = new]
    BY <1>1
  <2> QED
    BY <2>2, <2>3 DEF IInv, TypeOK
<1>3. TypeOK'
  BY <1>2 DEF Poll, IInv, TypeOK
<1>4. RetriesBounded'
  BY DEF Poll, IInv, RetriesBounded
<1>5. ProcessesAligned'
  BY <1>1 DEF Poll, IInv, TypeOK, Process, ProcessesAligned, Consistent
<1> QED
  BY <1>3, <1>4, <1>5 DEF IInv

\* Loading remembers the attempts of the row that is there, and may fail the
\* attempt at once.
LEMMA LoadInv ==
    ASSUME IInv, NEW p \in Workers, Load(p)
    PROVE  IInv'
<1> DEFINE d == proc[p].id
<1> DEFINE a == rows[d].attempts
<1>1. d \in Deliveries /\ rows[d] \in Row /\ a \in Nat
  BY DEF IInv, TypeOK, ProcessesAligned, Load, Row
<1>2. Failure(a) \in Outcome /\ Failure(a).attempts = a + 1 /\ Consistent(Failure(a))
  BY <1>1, OutcomeFacts DEF IInv
<1>3. PICK new \in Process :
            /\ proc' = [proc EXCEPT ![p] = new]
            /\ \/ new = Polling
               \/ new.pc = "send" /\ new.id = d
               \/ /\ new.pc = "save" /\ new.id = d /\ new.attempts = a
                  /\ new.outcome = Failure(a)
  <2>1. proc[p] \in Process
    BY DEF IInv, TypeOK
  <2> DEFINE loaded == [proc[p] EXCEPT !.attempts = a]
             refused == [loaded EXCEPT !.pc = "save", !.outcome = Failure(a)]
             accepted == [loaded EXCEPT !.pc = "send"]
  <2>2. PICK next \in {Polling, refused, accepted} : proc' = [proc EXCEPT ![p] = next]
    BY DEF Load
  <2>3. /\ refused \in Process /\ refused.pc = "save" /\ refused.id = d
        /\ refused.attempts = a /\ refused.outcome = Failure(a)
    BY <2>1, <1>1, <1>2 DEF Process
  <2>4. accepted \in Process /\ accepted.pc = "send" /\ accepted.id = d
    BY <2>1, <1>1 DEF Process
  <2> QED
    BY <2>2, <2>3, <2>4, ProcessTypes
<1>4. TypeOK'
  BY <1>3 DEF Load, IInv, TypeOK
<1>5. RetriesBounded'
  BY DEF Load, IInv, RetriesBounded
<1>6. ProcessesAligned'
  <2> SUFFICES ASSUME NEW q \in Workers
               PROVE  /\ proc'[q].pc \in {"load", "send", "save"} =>
                            proc'[q].id \in Deliveries /\ rows'[proc'[q].id] # Null
                      /\ proc'[q].pc = "save" =>
                            /\ proc'[q].outcome \in Outcome
                            /\ proc'[q].outcome.attempts = proc'[q].attempts + 1
                            /\ Consistent(proc'[q].outcome)
    BY DEF ProcessesAligned, Consistent
  <2>1. rows' = rows /\ rows[d] # Null
    BY DEF Load, IInv, ProcessesAligned
  <2>2. CASE q = p
    <3>1. proc'[q] = new
      BY <2>2, <1>3 DEF IInv, TypeOK
    <3> QED
      BY <3>1, <2>1, <1>1, <1>2, <1>3, ProcessTypes
  <2>3. CASE q # p
    BY <2>3, <1>3, <2>1 DEF IInv, TypeOK, ProcessesAligned
  <2> QED
    BY <2>2, <2>3
<1> QED
  BY <1>4, <1>5, <1>6 DEF IInv

\* The response decides between two outcomes of the attempt that was read.
LEMMA SendInv ==
    ASSUME IInv, NEW p \in Workers, Send(p)
    PROVE  IInv'
<1> DEFINE a == proc[p].attempts
<1>1. proc[p] \in Process /\ a \in Nat
  BY DEF IInv, TypeOK, Process
<1>2. proc[p].id \in Deliveries /\ rows[proc[p].id] # Null
  BY DEF IInv, ProcessesAligned, Send
<1>3. PICK o \in {Success(a), Failure(a)} :
            proc' = [proc EXCEPT ![p].pc = "save", ![p].outcome = o]
  BY DEF Send
<1>4. o \in Outcome /\ o.attempts = a + 1 /\ Consistent(o)
  BY <1>1, OutcomeFacts DEF IInv
<1>5. TypeOK'
  <2>1. proc' \in [Workers -> Process]
    <3>1. [proc[p] EXCEPT !.pc = "save", !.outcome = o] \in Process
      BY <1>1, <1>4 DEF Process
    <3>2. proc' = [proc EXCEPT ![p] = [proc[p] EXCEPT !.pc = "save", !.outcome = o]]
      BY <1>3 DEF IInv, TypeOK
    <3> QED
      BY <3>1, <3>2 DEF IInv, TypeOK
  <2>2. posts' \in [Deliveries -> Nat]
    BY <1>2 DEF Send, IInv, TypeOK
  <2> QED
    BY <2>1, <2>2 DEF Send, IInv, TypeOK
<1>6. RetriesBounded'
  BY DEF Send, IInv, RetriesBounded
<1>7. ProcessesAligned'
  <2>1. UNCHANGED rows
    BY DEF Send
  <2>2. /\ proc'[p].id = proc[p].id /\ proc'[p].attempts = a
        /\ proc'[p].outcome = o
    BY <1>1, <1>3 DEF IInv, TypeOK, Process
  <2>3. \A q \in Workers \ {p} : proc'[q] = proc[q]
    BY <1>3 DEF IInv, TypeOK
  <2>4. ASSUME NEW q \in Workers
        PROVE  /\ proc'[q].pc \in {"load", "send", "save"} =>
                        proc'[q].id \in Deliveries /\ rows'[proc'[q].id] # Null
               /\ proc'[q].pc = "save" =>
                        /\ proc'[q].outcome \in Outcome
                        /\ proc'[q].outcome.attempts = proc'[q].attempts + 1
                        /\ Consistent(proc'[q].outcome)
    <3>1. CASE q = p
      BY <3>1, <1>2, <1>4, <2>1, <2>2
    <3>2. CASE q # p
      BY <3>2, <2>1, <2>3 DEF IInv, ProcessesAligned
    <3> QED
      BY <3>1, <3>2
  <2> QED
    BY <2>4 DEF ProcessesAligned, Consistent
<1> QED
  BY <1>5, <1>6, <1>7 DEF IInv

\* Saving replaces a row by a consistent outcome or leaves it alone.
LEMMA SaveInv ==
    ASSUME IInv, NEW p \in Workers, Save(p)
    PROVE  IInv'
<1> DEFINE d == proc[p].id
<1> DEFINE o == proc[p].outcome
<1>1. d \in Deliveries /\ rows[d] # Null /\ o \in Outcome /\ Consistent(o)
  BY DEF IInv, ProcessesAligned, Save
<1>2. rows[d] \in Row
  BY <1>1 DEF IInv, TypeOK
<1>3. /\ Saved(rows[d], o) \in Row /\ Consistent(Saved(rows[d], o))
      /\ Saved(rows[d], o) # Null
  <2>1. Saved(rows[d], o) \in Row
    BY <1>1, <1>2 DEF Saved, Row, Outcome
  <2>2. /\ Saved(rows[d], o).status = o.status
        /\ Saved(rows[d], o).attempts = o.attempts
        /\ Saved(rows[d], o).nextAttemptAt = o.nextAttemptAt
    BY <1>2 DEF Saved, Row
  <2> QED
    BY <2>1, <2>2, <1>1, NullAssumption DEF Consistent
<1>4. rows' = [rows EXCEPT ![d] = Saved(rows[d], o)] \/ rows' = rows
  BY DEF Save
<1>5. TypeOK'
  BY <1>3, <1>4, ProcessTypes DEF Save, IInv, TypeOK
<1>6. RetriesBounded'
  BY <1>1, <1>3, <1>4 DEF IInv, TypeOK, RetriesBounded, Consistent
<1>7. ProcessesAligned'
  <2>1. \A e \in Deliveries : rows[e] # Null => rows'[e] # Null
    BY <1>3, <1>4 DEF IInv, TypeOK
  <2>2. \A q \in Workers : proc'[q] = proc[q] \/ proc'[q] = Polling
    BY DEF Save, IInv, TypeOK
  <2> QED
    BY <2>1, <2>2, ProcessTypes DEF IInv, ProcessesAligned, Consistent
<1> QED
  BY <1>5, <1>6, <1>7 DEF IInv

\* Every step keeps the invariant.
LEMMA NextInv == IInv /\ [Next]_vars => IInv'
<1> SUFFICES ASSUME IInv, [Next]_vars PROVE IInv'
  OBVIOUS
<1>1. CASE Tick \/ \E s \in {"active", "disabled"} : UpdateEndpointStatus(s)
  <2>1. TypeOK'
    BY <1>1, DeliveryAssumption DEF IInv, TypeOK, Tick, UpdateEndpointStatus
  <2> QED
    BY <1>1, <2>1, QuietInv DEF Tick, UpdateEndpointStatus
<1>2. CASE \E d \in Deliveries : CreateDelivery(d) \/ Replay(d)
  BY <1>2, RequestInv
<1>3. ASSUME NEW p \in Workers, Start(p) \/ Stop(p) \/ Crash(p) \/ DatabaseFails(p)
      PROVE  IInv'
  <2>1. proc' \in [Workers -> Process]
    BY <1>3, ProcessTypes DEF IInv, TypeOK, Start, Stop, Crash, DatabaseFails
  <2>2. owner' \in Workers \cup {Null} /\ faults' \in Nat
    BY <1>3 DEF IInv, TypeOK, Start, Stop, Crash, DatabaseFails
  <2>3. TypeOK'
    BY <1>3, <2>1, <2>2 DEF IInv, TypeOK, Start, Stop, Crash, DatabaseFails
  <2>4. \A q \in Workers : proc'[q] = proc[q] \/ proc'[q] \in {Down, Polling}
    BY <1>3 DEF IInv, TypeOK, Start, Stop, Crash, DatabaseFails
  <2> QED
    BY <1>3, <2>3, <2>4, QuietInv DEF Start, Stop, Crash, DatabaseFails
<1>4. CASE \E p \in Workers : Dispatch(p)
  BY <1>4, PollInv, LoadInv, SendInv, SaveInv DEF Dispatch
<1>5. CASE ReleaseDeadLock \/ DropLease
  <2>1. dropped' \in BOOLEAN
    BY <1>5 DEF IInv, TypeOK, ReleaseDeadLock, DropLease
  <2>2. TypeOK'
    BY <1>5, <2>1 DEF IInv, TypeOK, ReleaseDeadLock, DropLease
  <2> QED
    BY <1>5, <2>2, QuietInv DEF ReleaseDeadLock, DropLease
<1>6. CASE UNCHANGED vars
  <2>1. TypeOK'
    BY <1>6 DEF IInv, TypeOK, vars
  <2> QED
    BY <1>6, <2>1, QuietInv DEF vars
<1> QED
  BY <1>1, <1>2, <1>3, <1>4, <1>5, <1>6 DEF Next

\* The strengthened invariant holds in every reachable state.
THEOREM DeliveryInvariance == Spec => []IInv
BY InitInv, NextInv, PTL DEF Spec

\* Rows and processes are well typed through requests, dispatches and faults.
THEOREM DeliveryTypes == Spec => []TypeOK
<1>1. IInv => TypeOK
  BY DEF IInv
<1> QED
  BY <1>1, DeliveryInvariance, PTL

\* Dispatcher.fail bounds the retries of every delivery, replayed ones
\* included, whatever workers overlap or fail.
THEOREM RetriesAreBounded == Spec => []RetriesBounded
<1>1. IInv => RetriesBounded
  BY DEF IInv
<1> QED
  BY <1>1, DeliveryInvariance, PTL

\* The guard of SaveDispatchOutcome: two consumers cannot both finalize the
\* same attempt, even when the advisory lock was lost and they overlap.
THEOREM AttemptsFinalizedOnce == Spec => AttemptFinalizedOnce
<1> DEFINE Step(d) ==
        rows[d] # Null /\ rows'[d] # rows[d] =>
            \/ rows'[d].attempts = rows[d].attempts + 1 /\ rows'[d].status # "pending"
            \/ rows'[d].attempts = rows[d].attempts /\ rows'[d].status = "pending"
<1>1. IInv /\ [Next]_vars => [\A d \in Deliveries : Step(d)]_vars
  <2> SUFFICES ASSUME IInv, Next, NEW d \in Deliveries, rows[d] # Null, rows'[d] # rows[d]
               PROVE  \/ rows'[d].attempts = rows[d].attempts + 1 /\ rows'[d].status # "pending"
                      \/ rows'[d].attempts = rows[d].attempts /\ rows'[d].status = "pending"
    BY DEF vars
  <2>1. rows[d] \in Row
    BY DEF IInv, TypeOK
  <2>2. CASE \E e \in Deliveries : CreateDelivery(e) \/ Replay(e)
    <3>1. rows'[d] = [rows[d] EXCEPT !.status = "pending", !.nextAttemptAt = Null]
      BY <2>2 DEF CreateDelivery, Replay, IInv, TypeOK
    <3> QED
      BY <3>1, <2>1 DEF Row
  <2>3. CASE \E p \in Workers : Save(p)
    <3>1. PICK p \in Workers : Save(p)
      BY <2>3
    <3>2. /\ proc[p].id = d /\ rows'[d] = Saved(rows[d], proc[p].outcome)
          /\ rows[d].attempts = proc[p].attempts
      BY <3>1 DEF Save, Current, IInv, TypeOK
    <3>3. /\ proc[p].outcome \in Outcome
          /\ proc[p].outcome.attempts = proc[p].attempts + 1
      BY <3>1 DEF Save, IInv, ProcessesAligned
    <3>4. /\ rows'[d].attempts = proc[p].outcome.attempts
          /\ rows'[d].status = proc[p].outcome.status
      BY <3>2, <2>1 DEF Saved, Row
    <3> QED
      BY <3>2, <3>3, <3>4 DEF Outcome
  <2> QED
    BY <2>2, <2>3 DEF Next, Dispatch, Tick, UpdateEndpointStatus, Start, Stop, Crash,
        DatabaseFails, ReleaseDeadLock, DropLease, Poll, Load, Send
<1>2. [][\A d \in Deliveries : Step(d)]_vars => AttemptFinalizedOnce
  BY PTL DEF AttemptFinalizedOnce
<1> QED
  BY <1>1, <1>2, DeliveryInvariance, PTL DEF Spec
=============================================================================
