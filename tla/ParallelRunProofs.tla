------------------------- MODULE ParallelRunProofs --------------------------
(***************************************************************************)
(* Proofs about ParallelRun, for any set of workers, any concurrency, any  *)
(* leases and any delay.                                                   *)
(***************************************************************************)
EXTENDS ParallelRun, FiniteSetTheorems, TLAPS

-----------------------------------------------------------------------------
(***************************************************************************)
(* Worker states and their counters.                                       *)
(***************************************************************************)

\* A count is a natural number, and is zero exactly when no worker has the
\* status: what lets a counter column stand for a set of workers.
LEMMA CountIsNat ==
    ASSUME NEW ids \in SUBSET WorkerIds, NEW ws \in [ids -> Worker], NEW s
    PROVE  /\ IsFiniteSet(WorkersWith(ws, s))
           /\ Count(ws, s) \in Nat
           /\ Count(ws, s) = 0 <=> WorkersWith(ws, s) = {}
<1>1. WorkersWith(ws, s) \subseteq WorkerIds
  BY DEF WorkersWith
<1>2. IsFiniteSet(WorkersWith(ws, s))
  BY <1>1, RowAssumption, FS_Subset
<1> QED
  BY <1>2, FS_CardinalityType, FS_EmptySet DEF Count

\* The counters computed from typed worker states are natural numbers.
LEMMA CountersType ==
    ASSUME NEW ids \in SUBSET WorkerIds, NEW ws \in [ids -> Worker]
    PROVE  Counters(ws) \in [active : Nat, total : Nat, completed : Nat,
                             failed : Nat, cancelled : Nat]
<1>1. Cardinality(DOMAIN ws) \in Nat
  BY RowAssumption, FS_Subset, FS_CardinalityType
<1>2. \A s : Count(ws, s) \in Nat
  BY CountIsNat
<1> QED
  BY <1>1, <1>2 DEF Counters

\* Recalculation keeps every worker and its type.
LEMMA RecalculateType ==
    ASSUME NEW ids \in SUBSET WorkerIds, NEW ws \in [ids -> Worker], NEW now \in Nat
    PROVE  Recalculate(ws, now) \in [ids -> Worker]
BY DEF Recalculate, Worker, WorkerStatuses

\* Storing typed worker states keeps the row typed.
LEMMA WithWorkersType ==
    ASSUME NEW ids \in SUBSET WorkerIds, NEW old \in SUBSET WorkerIds,
           NEW row \in RowOver(old), NEW ws \in [ids -> Worker]
    PROVE  /\ WithWorkers(row, ws) \in RowOver(ids)
           /\ WithWorkers(row, ws).workers = ws
           /\ WithWorkers(row, ws).counters = Counters(ws)
           /\ WithWorkers(row, ws).status = row.status
           /\ WithWorkers(row, ws).aggregate = row.aggregate
           /\ WithWorkers(row, ws).startedAt = row.startedAt
           /\ WithWorkers(row, ws).completedAt = row.completedAt
           /\ WithWorkers(row, ws).cancelledAt = row.cancelledAt
BY CountersType DEF WithWorkers, RowOver

\* The outcome keeps the row typed and leaves its workers and counters alone;
\* either it changes nothing, because there is no worker or one is running, or
\* it settles the run.
LEMMA OutcomeFacts ==
    ASSUME NEW ids \in SUBSET WorkerIds, NEW row \in RowOver(ids), NEW now \in Nat
    PROVE  /\ Outcome(row, now) \in RowOver(ids)
           /\ Outcome(row, now).workers = row.workers
           /\ Outcome(row, now).counters = row.counters
           /\ Outcome(row, now).startedAt = row.startedAt
           /\ Outcome(row, now).cancelledAt = row.cancelledAt
           /\ \/ /\ Outcome(row, now) = row
                 /\ DOMAIN row.workers = {} \/ Running(row) # {}
              \/ /\ Terminal(Outcome(row, now).status)
                 /\ Outcome(row, now).aggregate # Null
                 /\ Outcome(row, now).completedAt
                        = IF row.completedAt = Null THEN now ELSE row.completedAt
                 /\ Running(row) = {}
                 /\ DOMAIN row.workers # {}
<1>1. /\ Verdict(row.workers).status \in TerminalStatuses
      /\ Verdict(row.workers).aggregate \in 1..4
  BY DEF Verdict, TerminalStatuses
<1>2. /\ Outcome(row, now) \in RowOver(ids)
      /\ Outcome(row, now).workers = row.workers
      /\ Outcome(row, now).counters = row.counters
      /\ Outcome(row, now).startedAt = row.startedAt
      /\ Outcome(row, now).cancelledAt = row.cancelledAt
  BY <1>1 DEF Outcome, RowOver, RunStatuses, Times
<1>3. row.workers \in [ids -> Worker]
  BY DEF RowOver
<1>4. /\ Count(row.workers, "running") \in Nat
      /\ Count(row.workers, "running") = 0 <=> Running(row) = {}
  BY <1>3, CountIsNat DEF Running
<1>5. CASE DOMAIN row.workers = {} \/ Count(row.workers, "running") > 0
  <2>1. Outcome(row, now) = row
    BY <1>5 DEF Outcome
  <2>2. DOMAIN row.workers = {} \/ Running(row) # {}
    BY <1>4, <1>5
  <2> QED
    BY <1>2, <2>1, <2>2
<1>6. CASE ~(DOMAIN row.workers = {} \/ Count(row.workers, "running") > 0)
  <2>1. /\ Outcome(row, now).status = Verdict(row.workers).status
        /\ Outcome(row, now).aggregate = Verdict(row.workers).aggregate
        /\ Outcome(row, now).completedAt
                = IF row.completedAt = Null THEN now ELSE row.completedAt
    BY <1>6 DEF Outcome, RowOver
  <2>2. Running(row) = {} /\ DOMAIN row.workers # {}
    BY <1>4, <1>6
  <2> QED
    BY <1>1, <1>2, <2>1, <2>2, RowAssumption DEF Terminal
<1> QED
  BY <1>5, <1>6

-----------------------------------------------------------------------------
(***************************************************************************)
(* What each transaction leaves in the row.                                *)
(***************************************************************************)

ClaimEffect(ids, row, w, now, cred, new) ==
    /\ new \in RowOver(ids \cup {w})
    /\ new.workers = Recalculate(ClaimedWorkers(row.workers, w, now, cred), now)
    /\ new.counters = Counters(new.workers)
    /\ new.status = "running"
    /\ new.startedAt = IF row.startedAt = Null THEN now ELSE row.startedAt
    /\ new.aggregate = row.aggregate
    /\ new.completedAt = row.completedAt
    /\ new.cancelledAt = row.cancelledAt

\* ClaimParallelRun starts the run and adds at most the claiming worker.
LEMMA ClaimFacts ==
    ASSUME NEW ids \in SUBSET WorkerIds, NEW row \in RowOver(ids),
           NEW w \in WorkerIds, NEW now \in Nat, NEW cred \in Creds \cup {Null},
           NEW new, new = ClaimRow(row, w, now, cred)
    PROVE  ClaimEffect(ids, row, w, now, cred, new)
<1> DEFINE ws == Recalculate(ClaimedWorkers(row.workers, w, now, cred), now)
<1>1. ClaimedWorkers(row.workers, w, now, cred) \in [ids \cup {w} -> Worker]
  BY RowAssumption DEF ClaimedWorkers, RowOver, Worker, WorkerStatuses, Times
<1>2. ws \in [ids \cup {w} -> Worker]
  BY <1>1, RecalculateType
<1>3. /\ WithWorkers(row, ws) \in RowOver(ids \cup {w})
      /\ WithWorkers(row, ws).workers = ws
      /\ WithWorkers(row, ws).counters = Counters(ws)
      /\ WithWorkers(row, ws).aggregate = row.aggregate
      /\ WithWorkers(row, ws).startedAt = row.startedAt
      /\ WithWorkers(row, ws).completedAt = row.completedAt
      /\ WithWorkers(row, ws).cancelledAt = row.cancelledAt
  BY <1>2, WithWorkersType
<1> DEFINE stored == WithWorkers(row, ws)
<1>4. new = [stored EXCEPT !.status = "running",
                           !.startedAt = IF @ = Null THEN now ELSE @]
  BY DEF ClaimRow
<1> HIDE DEF ws, stored
<1>5. stored \in RowOver(ids \cup {w})
  BY <1>3 DEF stored
<1>6. new \in RowOver(ids \cup {w})
  BY <1>4, <1>5 DEF RowOver, RunStatuses, Times
<1>7. /\ new.workers = stored.workers
      /\ new.counters = stored.counters
      /\ new.aggregate = stored.aggregate
      /\ new.completedAt = stored.completedAt
      /\ new.cancelledAt = stored.cancelledAt
  BY <1>4, <1>5 DEF RowOver
<1>8. /\ new.status = "running"
      /\ new.startedAt = IF stored.startedAt = Null THEN now ELSE stored.startedAt
  BY <1>4, <1>5 DEF RowOver
<1> QED
  BY <1>3, <1>6, <1>7, <1>8 DEF ClaimEffect, stored, ws

HeartbeatEffect(ids, row, w, now, lease, new) ==
    /\ new \in RowOver(ids)
    /\ new.workers = Recalculate(
            RenewedWorkers(Recalculate(row.workers, now), w, now, lease), now)
    /\ new.counters = Counters(new.workers)
    /\ new.startedAt = row.startedAt
    /\ new.cancelledAt = row.cancelledAt
    /\ \/ /\ new.status = row.status
          /\ new.aggregate = row.aggregate
          /\ new.completedAt = row.completedAt
          /\ DOMAIN new.workers = {} \/ Running(new) # {}
       \/ /\ Terminal(new.status)
          /\ new.aggregate # Null
          /\ new.completedAt = IF row.completedAt = Null THEN now ELSE row.completedAt
          /\ Running(new) = {}

\* HeartbeatParallelRunWorker keeps the workers, and settles the run exactly
\* when the states it stores leave none running.
LEMMA HeartbeatFacts ==
    ASSUME NEW ids \in SUBSET WorkerIds, NEW row \in RowOver(ids),
           NEW w \in ids, NEW now \in Nat, NEW lease \in Leases,
           NEW new, new = HeartbeatRow(row, w, now, lease)
    PROVE  HeartbeatEffect(ids, row, w, now, lease, new)
<1> DEFINE ws == Recalculate(RenewedWorkers(Recalculate(row.workers, now), w, now, lease), now)
           stored == WithWorkers(row, ws)
<1>1. row.workers \in [ids -> Worker]
  BY DEF RowOver
<1>2. Recalculate(row.workers, now) \in [ids -> Worker]
  BY <1>1, RecalculateType
<1>3. now + lease \in Nat
  BY RowAssumption
<1>4. RenewedWorkers(Recalculate(row.workers, now), w, now, lease) \in [ids -> Worker]
  BY <1>2, <1>3 DEF RenewedWorkers, Worker
<1>5. ws \in [ids -> Worker]
  BY <1>4, RecalculateType
<1>6. /\ stored \in RowOver(ids)
      /\ stored.workers = ws
      /\ stored.counters = Counters(ws)
      /\ stored.status = row.status
      /\ stored.aggregate = row.aggregate
      /\ stored.startedAt = row.startedAt
      /\ stored.completedAt = row.completedAt
      /\ stored.cancelledAt = row.cancelledAt
  BY <1>5, WithWorkersType
<1>7. new = Outcome(stored, now)
  BY DEF HeartbeatRow
<1> HIDE DEF ws, stored
<1>8. Running(new) = Running(stored)
  BY <1>6, <1>7, OutcomeFacts DEF Running
<1> QED
  BY <1>6, <1>7, <1>8, OutcomeFacts DEF HeartbeatEffect, ws

\* UpdateRunnerWorker keeps the workers and the status of the run.
LEMMA UpdateFacts ==
    ASSUME NEW ids \in SUBSET WorkerIds, NEW row \in RowOver(ids),
           NEW w \in ids, NEW now \in Nat,
           NEW status \in WorkerStatuses, NEW result \in Results \cup {Null},
           NEW new, new = UpdateRow(row, w, now, status, result)
    PROVE  /\ new \in RowOver(ids)
           /\ new.workers = Recalculate(ReportedWorkers(row.workers, w, status, result), now)
           /\ new.counters = Counters(new.workers)
           /\ new.status = row.status
           /\ new.aggregate = row.aggregate
           /\ new.startedAt = row.startedAt
           /\ new.completedAt = row.completedAt
           /\ new.cancelledAt = row.cancelledAt
<1>1. ReportedWorkers(row.workers, w, status, result) \in [ids -> Worker]
  <2>1. row.workers \in [ids -> Worker]
    BY DEF RowOver
  <2>2. row.workers[w] \in Worker
    BY <2>1
  <2>3. Reported(row.workers[w], status, result) \in Worker
    BY <2>2 DEF Reported, Worker
  <2> QED
    BY <2>1, <2>3 DEF ReportedWorkers
<1>2. Recalculate(ReportedWorkers(row.workers, w, status, result), now) \in [ids -> Worker]
  BY <1>1, RecalculateType
<1> QED
  BY <1>2, WithWorkersType DEF UpdateRow

\* CancelParallelRun leaves no worker running and always settles the run.
LEMMA CancelFacts ==
    ASSUME NEW ids \in SUBSET WorkerIds, NEW row \in RowOver(ids), NEW now \in Nat,
           NEW new, new = CancelRow(row, now)
    PROVE  /\ new \in RowOver(ids)
           /\ new.workers = Recalculate(CancelledWorkers(row.workers), now)
           /\ new.counters = Counters(new.workers)
           /\ Running(new) = {}
           /\ Terminal(new.status)
           /\ DOMAIN row.workers = {} => new.status = "cancelled"
           /\ new.aggregate # Null
           /\ new.startedAt = row.startedAt
           /\ new.completedAt = now
           /\ new.cancelledAt = now
<1> DEFINE ws == Recalculate(CancelledWorkers(row.workers), now)
           stored == WithWorkers(row, ws)
           base == [stored EXCEPT !.status = "cancelled", !.aggregate = 3,
                                  !.completedAt = now, !.cancelledAt = now]
<1>1. row.workers \in [ids -> Worker]
  BY DEF RowOver
<1>2. CancelledWorkers(row.workers) \in [ids -> Worker]
  BY <1>1 DEF CancelledWorkers, Worker, WorkerStatuses
<1>3. ws \in [ids -> Worker]
  BY <1>2, RecalculateType
<1>4. \A w \in ids : ws[w].status # "running"
  BY <1>1, <1>2 DEF Recalculate, CancelledWorkers, Worker, Expired
<1>5. /\ stored \in RowOver(ids)
      /\ stored.workers = ws
      /\ stored.counters = Counters(ws)
      /\ stored.startedAt = row.startedAt
  BY <1>3, WithWorkersType
<1> HIDE DEF ws, stored
<1>6. /\ base \in RowOver(ids)
      /\ base.workers = ws
      /\ base.counters = Counters(ws)
      /\ base.status = "cancelled"
      /\ base.aggregate = 3
      /\ base.startedAt = row.startedAt
      /\ base.completedAt = now
      /\ base.cancelledAt = now
  <2>1. "cancelled" \in RunStatuses /\ now \in Times /\ 3 \in (1..4) \cup {Null}
    BY DEF RunStatuses, TerminalStatuses, Times
  <2>2. base \in RowOver(ids)
    BY <1>5, <2>1 DEF RowOver
  <2>3. /\ base.workers = stored.workers
        /\ base.counters = stored.counters
        /\ base.startedAt = stored.startedAt
    BY <1>5 DEF RowOver
  <2>4. base.status = "cancelled" /\ base.aggregate = 3
    BY <1>5 DEF RowOver
  <2>5. base.completedAt = now /\ base.cancelledAt = now
    BY <1>5 DEF RowOver
  <2> QED
    BY <1>5, <2>2, <2>3, <2>4, <2>5
<1>7. CancelRow(row, now) = Outcome(base, now)
  BY DEF CancelRow, ws, stored
<1> HIDE DEF base
<1>8. Running(base) = {}
  BY <1>3, <1>4, <1>6 DEF Running, WorkersWith
<1>9. now # Null /\ 3 # Null
  BY RowAssumption
<1>10. /\ Outcome(base, now) \in RowOver(ids)
       /\ Outcome(base, now).workers = ws
       /\ Outcome(base, now).counters = Counters(ws)
       /\ Outcome(base, now).startedAt = row.startedAt
       /\ Outcome(base, now).cancelledAt = now
       /\ Outcome(base, now).completedAt = now
       /\ Terminal(Outcome(base, now).status)
       /\ Outcome(base, now).aggregate # Null
       /\ DOMAIN ws = {} => Outcome(base, now).status = "cancelled"
  BY <1>6, <1>9, OutcomeFacts, SMTT(60) DEF Terminal, TerminalStatuses
<1>11. Running(Outcome(base, now)) = {}
  BY <1>6, <1>8, <1>10 DEF Running
<1>12. DOMAIN ws = DOMAIN row.workers
  BY <1>1, <1>3
<1> QED
  BY <1>7, <1>10, <1>11, <1>12 DEF ws

-----------------------------------------------------------------------------
(***************************************************************************)
(* The inductive invariant.  OutcomeIsWhole and CountersMatchWorkers are  *)
(* inductive once the row is typed; the stamps also need that a run is     *)
(* never started in the future, and the refinement that a queued run has   *)
(* no worker.                                                              *)
(***************************************************************************)

\* A run nobody claimed has no worker record.
QueuedIsEmpty == run.status = "queued" => DOMAIN run.workers = {}

\* A handler stamps startedAt with a time it has read from the clock.
StartedInPast == run.startedAt # Null => run.startedAt <= clock

IInv ==
    /\ TypeOK
    /\ CountersMatchWorkers
    /\ OutcomeIsWhole
    /\ QueuedIsEmpty
    /\ StartedInPast
    /\ StampsWithinDelay

\* The row createParallelRuns inserts satisfies the invariant.
LEMMA InitInv == Init => IInv
<1> SUFFICES ASSUME Init PROVE IInv
  OBVIOUS
<1>1. NoWorkers \in [{} -> Worker] /\ DOMAIN NoWorkers = {}
  BY DEF NoWorkers
<1>2. Counters(NoWorkers) \in [active : Nat, total : Nat, completed : Nat,
                               failed : Nat, cancelled : Nat]
  BY <1>1, CountersType
<1>3. run \in RowOver({})
  BY <1>1, <1>2 DEF Init, QueuedRow, RowOver, RunStatuses, Times
<1>4. TypeOK
  BY <1>3, TimeAssumption DEF Init, TypeOK, IsRow
<1> QED
  BY <1>1, <1>4 DEF Init, QueuedRow, IInv, CountersMatchWorkers, OutcomeIsWhole, QueuedIsEmpty,
                    StartedInPast, StampsWithinDelay, Terminal, TerminalStatuses

\* Passing time changes nothing in the row.
LEMMA TickInv == IInv /\ Tick => IInv'
<1> SUFFICES ASSUME IInv, Tick PROVE IInv'
  OBVIOUS
<1>1. clock \in Nat /\ clock' = clock + 1 /\ run' = run /\ clock' \in 0..MaxClock
  BY TimeAssumption DEF IInv, TypeOK, Tick
<1>2. PICK ids \in SUBSET WorkerIds : run \in RowOver(ids)
  BY DEF IInv, TypeOK, IsRow
<1>3. run.startedAt # Null => run.startedAt \in Nat
  BY <1>2 DEF RowOver, Times
<1>4. StartedInPast'
  BY <1>1, <1>3 DEF IInv, StartedInPast
<1> QED
  BY <1>1, <1>4 DEF IInv, TypeOK, CountersMatchWorkers, OutcomeIsWhole, QueuedIsEmpty,
                    StampsWithinDelay

\* A time a handler may have captured.
LEMMA CapturedFacts ==
    ASSUME TypeOK, NEW now \in CapturedTimes
    PROVE  now \in Nat /\ now <= clock /\ clock <= now + MaxDelay /\ now # Null
BY TimeAssumption, RowAssumption DEF TypeOK, CapturedTimes

\* A claim preserves the invariant.
LEMMA ClaimInv ==
    ASSUME IInv, NEW w \in WorkerIds, NEW now \in CapturedTimes,
           NEW cred \in Creds \cup {Null}, Claim(w, now, cred)
    PROVE  IInv'
<1>1. PICK ids \in SUBSET WorkerIds : run \in RowOver(ids)
  BY DEF IInv, TypeOK, IsRow
<1>2. now \in Nat /\ now <= clock
  BY CapturedFacts DEF IInv
<1>3. /\ run' = ClaimRow(run, w, now, cred)
      /\ clock' = clock
      /\ ~Terminal(run.status)
  BY DEF Claim, ClaimAllowed
<1>4. /\ run' \in RowOver(ids \cup {w})
      /\ run'.counters = Counters(run'.workers)
      /\ run'.status = "running"
      /\ run'.startedAt = IF run.startedAt = Null THEN now ELSE run.startedAt
      /\ run'.aggregate = run.aggregate
      /\ run'.completedAt = run.completedAt
      /\ run'.cancelledAt = run.cancelledAt
  <2>1. ClaimEffect(ids, run, w, now, cred, run')
    BY <1>1, <1>2, <1>3, ClaimFacts
  <2> QED
    BY <2>1 DEF ClaimEffect
<1>5. ~Terminal(run'.status)
  BY <1>4 DEF Terminal, TerminalStatuses
<1>6. TypeOK'
  BY <1>3, <1>4 DEF IInv, TypeOK, IsRow
<1>7. OutcomeIsWhole'
  BY <1>3, <1>4, <1>5 DEF IInv, OutcomeIsWhole
<1>8. StampsWithinDelay'
  BY <1>5, <1>7 DEF OutcomeIsWhole, StampsWithinDelay
<1>9. StartedInPast'
  BY <1>2, <1>3, <1>4 DEF IInv, StartedInPast
<1> QED
  BY <1>4, <1>6, <1>7, <1>8, <1>9 DEF IInv, CountersMatchWorkers, QueuedIsEmpty

\* A heartbeat preserves the invariant.
LEMMA HeartbeatInv ==
    ASSUME IInv, NEW w \in WorkerIds, NEW now \in CapturedTimes, NEW lease \in Leases,
           Heartbeat(w, now, lease)
    PROVE  IInv'
<1>1. PICK ids \in SUBSET WorkerIds : run \in RowOver(ids)
  BY DEF IInv, TypeOK, IsRow
<1>2. now \in Nat /\ now <= clock /\ clock <= now + MaxDelay /\ now # Null
  BY CapturedFacts DEF IInv
<1>3. /\ run' = HeartbeatRow(run, w, now, lease)
      /\ clock' = clock
      /\ ~Terminal(run.status)
      /\ w \in DOMAIN run.workers
  BY DEF Heartbeat, WorkerWritable
<1>4. w \in ids
  BY <1>1, <1>3 DEF RowOver
<1>5. /\ run' \in RowOver(ids)
      /\ run'.counters = Counters(run'.workers)
      /\ run'.startedAt = run.startedAt
      /\ run'.cancelledAt = run.cancelledAt
      /\ \/ /\ run'.status = run.status
            /\ run'.aggregate = run.aggregate
            /\ run'.completedAt = run.completedAt
         \/ /\ Terminal(run'.status)
            /\ run'.aggregate # Null
            /\ run'.completedAt = IF run.completedAt = Null THEN now ELSE run.completedAt
            /\ Running(run') = {}
  <2>1. HeartbeatEffect(ids, run, w, now, lease, run')
    BY <1>1, <1>2, <1>3, <1>4, HeartbeatFacts
  <2> QED
    BY <2>1 DEF HeartbeatEffect
<1>6. run.aggregate = Null /\ run.completedAt = Null /\ run.cancelledAt = Null
  BY <1>3 DEF IInv, OutcomeIsWhole
<1>7. TypeOK'
  BY <1>3, <1>5 DEF IInv, TypeOK, IsRow
<1>8. OutcomeIsWhole'
  BY <1>2, <1>3, <1>5, <1>6 DEF OutcomeIsWhole
<1>9. QueuedIsEmpty'
  BY <1>3, <1>5 DEF IInv, QueuedIsEmpty, Terminal, TerminalStatuses
<1>10. StartedInPast'
  BY <1>3, <1>5 DEF IInv, StartedInPast
<1>11. StampsWithinDelay'
  <2>1. run'.completedAt = Null \/ run'.completedAt = now
    BY <1>5, <1>6
  <2>2. run'.startedAt # Null => run'.startedAt <= clock /\ run'.startedAt \in Nat
    BY <1>1, <1>5 DEF IInv, StartedInPast, RowOver, Times
  <2>3. clock \in Nat
    BY DEF IInv, TypeOK
  <2> QED
    BY <1>2, <1>5, <1>6, <2>1, <2>2, <2>3, TimeAssumption DEF StampsWithinDelay
<1> QED
  BY <1>5, <1>7, <1>8, <1>9, <1>10, <1>11 DEF IInv, CountersMatchWorkers

\* A worker report preserves the invariant.
LEMMA UpdateInv ==
    ASSUME IInv, NEW w \in WorkerIds, NEW now \in CapturedTimes,
           NEW status \in WorkerStatuses, NEW result \in Results \cup {Null},
           UpdateWorker(w, now, status, result)
    PROVE  IInv'
<1>1. PICK ids \in SUBSET WorkerIds : run \in RowOver(ids)
  BY DEF IInv, TypeOK, IsRow
<1>2. now \in Nat
  BY CapturedFacts DEF IInv
<1>3. /\ run' = UpdateRow(run, w, now, status, result)
      /\ clock' = clock
      /\ ~Terminal(run.status)
      /\ w \in DOMAIN run.workers
  BY DEF UpdateWorker, WorkerWritable
<1>4. w \in ids
  BY <1>1, <1>3 DEF RowOver
<1>5. /\ run' \in RowOver(ids)
      /\ run'.counters = Counters(run'.workers)
      /\ run'.status = run.status
      /\ run'.aggregate = run.aggregate
      /\ run'.startedAt = run.startedAt
      /\ run'.completedAt = run.completedAt
      /\ run'.cancelledAt = run.cancelledAt
  BY <1>1, <1>2, <1>3, <1>4, UpdateFacts
<1>6. TypeOK'
  BY <1>3, <1>5 DEF IInv, TypeOK, IsRow
<1>7. OutcomeIsWhole'
  BY <1>3, <1>5 DEF IInv, OutcomeIsWhole
<1>8. QueuedIsEmpty'
  BY <1>3, <1>5 DEF IInv, QueuedIsEmpty
<1>9. StartedInPast' /\ StampsWithinDelay'
  BY <1>3, <1>5 DEF IInv, StartedInPast, StampsWithinDelay
<1> QED
  BY <1>5, <1>6, <1>7, <1>8, <1>9 DEF IInv, CountersMatchWorkers

\* A cancellation preserves the invariant.
LEMMA CancelInv ==
    ASSUME IInv, NEW now \in CapturedTimes, Cancel(now)
    PROVE  IInv'
<1>1. PICK ids \in SUBSET WorkerIds : run \in RowOver(ids)
  BY DEF IInv, TypeOK, IsRow
<1>2. now \in Nat /\ now <= clock /\ clock <= now + MaxDelay /\ now # Null
  BY CapturedFacts DEF IInv
<1>3. run' = CancelRow(run, now) /\ clock' = clock
  BY DEF Cancel
<1>4. /\ run' \in RowOver(ids)
      /\ run'.counters = Counters(run'.workers)
      /\ Running(run') = {}
      /\ Terminal(run'.status)
      /\ run'.aggregate # Null
      /\ run'.startedAt = run.startedAt
      /\ run'.completedAt = now
      /\ run'.cancelledAt = now
  BY <1>1, <1>2, <1>3, CancelFacts
<1>5. TypeOK'
  BY <1>3, <1>4 DEF IInv, TypeOK, IsRow
<1>6. OutcomeIsWhole'
  BY <1>2, <1>4 DEF OutcomeIsWhole
<1>7. QueuedIsEmpty'
  BY <1>4 DEF QueuedIsEmpty, Terminal, TerminalStatuses
<1>8. StartedInPast'
  BY <1>3, <1>4 DEF IInv, StartedInPast
<1>9. StampsWithinDelay'
  <2>1. run'.startedAt # Null => run'.startedAt <= clock /\ run'.startedAt \in Nat
    BY <1>1, <1>4 DEF IInv, StartedInPast, RowOver, Times
  <2>2. clock \in Nat
    BY DEF IInv, TypeOK
  <2> QED
    BY <1>2, <1>4, <2>1, <2>2, TimeAssumption DEF StampsWithinDelay
<1> QED
  BY <1>4, <1>5, <1>6, <1>7, <1>8, <1>9 DEF IInv, CountersMatchWorkers

\* Laravel marking the run cancelling preserves the invariant.
LEMMA LaravelInv == IInv /\ LaravelCancelling => IInv'
<1> SUFFICES ASSUME IInv, LaravelCancelling PROVE IInv'
  OBVIOUS
<1>1. PICK ids \in SUBSET WorkerIds : run \in RowOver(ids)
  BY DEF IInv, TypeOK, IsRow
<1>2. /\ run' \in RowOver(ids)
      /\ run'.status = "cancelling"
      /\ run'.workers = run.workers
      /\ run'.counters = run.counters
      /\ run'.aggregate = run.aggregate
      /\ run'.startedAt = run.startedAt
      /\ run'.completedAt = run.completedAt
      /\ run'.cancelledAt = run.cancelledAt
      /\ clock' = clock
  BY <1>1 DEF LaravelCancelling, RowOver, RunStatuses
<1>3. ~Terminal(run.status) /\ ~Terminal(run'.status)
  BY <1>2 DEF LaravelCancelling, Terminal, TerminalStatuses
<1>4. TypeOK'
  BY <1>2 DEF IInv, TypeOK, IsRow
<1> QED
  BY <1>2, <1>3, <1>4 DEF IInv, CountersMatchWorkers, OutcomeIsWhole, QueuedIsEmpty,
                          StartedInPast, StampsWithinDelay

\* Every step preserves the invariant.
LEMMA NextInv == IInv /\ [Next]_vars => IInv'
<1> SUFFICES ASSUME IInv, [Next]_vars PROVE IInv'
  OBVIOUS
<1>1. CASE Tick
  BY <1>1, TickInv
<1>2. CASE \E now \in CapturedTimes : Request(now)
  <2>1. PICK now \in CapturedTimes : Request(now)
    BY <1>2
  <2>2. ASSUME NEW w \in WorkerIds, NEW cred \in Creds \cup {Null}, Claim(w, now, cred)
        PROVE  IInv'
    BY <2>2, ClaimInv
  <2>3. ASSUME NEW w \in WorkerIds, NEW lease \in Leases, Heartbeat(w, now, lease)
        PROVE  IInv'
    BY <2>3, HeartbeatInv
  <2>4. ASSUME NEW w \in WorkerIds, NEW status \in WorkerStatuses,
               NEW result \in Results \cup {Null}, UpdateWorker(w, now, status, result)
        PROVE  IInv'
    BY <2>4, UpdateInv
  <2>5. CASE Cancel(now)
    BY <2>5, CancelInv
  <2> QED
    BY <2>1, <2>2, <2>3, <2>4, <2>5 DEF Request
<1>3. CASE LaravelCancelling
  BY <1>3, LaravelInv
<1>4. CASE UNCHANGED vars
  BY <1>4 DEF vars, IInv, TypeOK, CountersMatchWorkers, OutcomeIsWhole, QueuedIsEmpty,
              StartedInPast, StampsWithinDelay
<1> QED
  BY <1>1, <1>2, <1>3, <1>4 DEF Next

\* The invariant holds in every reachable state.
THEOREM Invariance == Spec => []IInv
BY InitInv, NextInv, PTL DEF Spec

\* The row keeps its type.
THEOREM TypeCorrectness == Spec => []TypeOK
<1>1. IInv => TypeOK
  BY DEF IInv
<1> QED
  BY <1>1, Invariance, PTL

\* The stored counters always agree with the stored worker states.
THEOREM CountersAgree == Spec => []CountersMatchWorkers
<1>1. IInv => CountersMatchWorkers
  BY DEF IInv
<1> QED
  BY <1>1, Invariance, PTL

\* A terminal row has an aggregate, a completion time and nobody running, and no
\* other row has an aggregate, a completion or a cancellation time.  That a run
\* whose workers have all ended is terminal does not follow, and is not so.
THEOREM OutcomesAreWhole == Spec => []OutcomeIsWhole
<1>1. IInv => OutcomeIsWhole
  BY DEF IInv
<1> QED
  BY <1>1, Invariance, PTL

\* Stamps are out of order by at most the delay of a request.
THEOREM StampsBounded == Spec => []StampsWithinDelay
<1>1. IInv => StampsWithinDelay
  BY DEF IInv
<1> QED
  BY <1>1, Invariance, PTL

\* Whatever the row looks like, a heartbeat leaves a worker running or the run
\* over: HeartbeatParallelRunWorker derives the outcome from the states it
\* stores, also when it answers its own worker with a conflict.
THEOREM HeartbeatsSettle == Spec => []HeartbeatSettles
<1>1. IInv => HeartbeatSettles
  <2> SUFFICES ASSUME IInv, NEW w \in WorkerIds, NEW now \in CapturedTimes,
                      NEW lease \in Leases, WorkerWritable(run, w)
               PROVE  ~LeftOpen(HeartbeatRow(run, w, now, lease))
    BY DEF HeartbeatSettles
  <2>1. PICK ids \in SUBSET WorkerIds : run \in RowOver(ids)
    BY DEF IInv, TypeOK, IsRow
  <2>2. w \in ids
    BY <2>1 DEF RowOver, WorkerWritable
  <2>3. now \in Nat
    BY CapturedFacts DEF IInv
  <2> DEFINE new == HeartbeatRow(run, w, now, lease)
  <2>4. HeartbeatEffect(ids, run, w, now, lease, new)
    BY <2>1, <2>2, <2>3, HeartbeatFacts
  <2> HIDE DEF new
  <2>5. Terminal(new.status) \/ DOMAIN new.workers = {} \/ Running(new) # {}
    BY <2>4 DEF HeartbeatEffect
  <2>6. ~LeftOpen(new)
    BY <2>5 DEF LeftOpen
  <2> QED
    BY <2>6 DEF new
<1> QED
  BY <1>1, Invariance, PTL

-----------------------------------------------------------------------------
(***************************************************************************)
(* What a step may never do.                                               *)
(***************************************************************************)

\* Every transaction tests the status under the lock, so a run that is over
\* stays exactly as it is.
THEOREM TerminalRunsAreFinal == Spec => TerminalIsFinal
<1>1. [Next]_vars => [Terminal(run.status) => run' = run]_vars
  <2> SUFFICES ASSUME [Next]_vars, Terminal(run.status) PROVE run' = run
    OBVIOUS
  <2>1. \A now \in CapturedTimes : ~Request(now)
    BY DEF Request, Claim, ClaimAllowed, Heartbeat, UpdateWorker, WorkerWritable, Cancel
  <2>2. ~LaravelCancelling
    BY DEF LaravelCancelling, Terminal, TerminalStatuses
  <2> QED
    BY <2>1, <2>2 DEF Next, Tick, vars
<1> QED
  BY <1>1, PTL DEF Spec, TerminalIsFinal

\* After a claim the claimer runs, and of the others only workers that ran
\* before, on leases that reach the captured time.
LEMMA RunningAfterClaim ==
    ASSUME NEW ids \in SUBSET WorkerIds, NEW row \in RowOver(ids),
           NEW w \in WorkerIds, NEW now \in Nat, NEW cred \in Creds \cup {Null},
           NEW new, new = ClaimRow(row, w, now, cred)
    PROVE  /\ w \in Running(new)
           /\ Running(new) \subseteq Running(row) \cup {w}
           /\ \A v \in Running(new) : now <= new.workers[v].lease
<1> DEFINE claimed == ClaimedWorkers(row.workers, w, now, cred)
<1>1. row.workers \in [ids -> Worker]
  BY DEF RowOver
<1>2. claimed \in [ids \cup {w} -> Worker]
  BY <1>1, RowAssumption DEF ClaimedWorkers, Worker, WorkerStatuses, Times
<1>3. claimed[w].status = "running" /\ now <= claimed[w].lease
  BY <1>1, RowAssumption DEF ClaimedWorkers
<1>4. \A v \in ids : v # w => claimed[v] = row.workers[v]
  BY <1>1 DEF ClaimedWorkers
<1>5. new.workers = Recalculate(claimed, now)
  <2>1. new \in RowOver(ids \cup {w})
    BY ClaimFacts DEF ClaimEffect
  <2>2. new.workers = Recalculate(ClaimedWorkers(row.workers, w, now, cred), now)
    BY <2>1, ClaimFacts DEF ClaimEffect
  <2> QED
    BY <2>2
<1> HIDE DEF claimed
<1>6. claimed[w].lease \in Nat /\ ~Expired(claimed[w], now)
  BY <1>2, <1>3 DEF Expired, Worker
<1>7. \A v \in ids \cup {w} :
        /\ claimed[v].lease \in Nat
        /\ new.workers[v] = IF Expired(claimed[v], now)
                            THEN [claimed[v] EXCEPT !.status = "lost"] ELSE claimed[v]
  BY <1>2, <1>5 DEF Recalculate, Worker
<1>8. DOMAIN new.workers = ids \cup {w} /\ DOMAIN row.workers = ids
  BY <1>1, <1>2, <1>5 DEF Recalculate
<1>9. \A v \in ids \cup {w} : new.workers[v].status = "running" =>
        /\ new.workers[v] = claimed[v]
        /\ now <= claimed[v].lease
  <2> SUFFICES ASSUME NEW v \in ids \cup {w}, new.workers[v].status = "running"
               PROVE  new.workers[v] = claimed[v] /\ now <= claimed[v].lease
    OBVIOUS
  <2>1. claimed[v] \in Worker
    BY <1>2
  <2>2. ~Expired(claimed[v], now)
    BY <1>7, <2>1 DEF Worker
  <2>3. new.workers[v] = claimed[v]
    BY <1>7, <2>2
  <2>4. claimed[v].status = "running" /\ claimed[v].lease \in Nat
    BY <2>1, <2>3 DEF Worker
  <2>5. now <= claimed[v].lease
    BY <2>2, <2>4 DEF Expired
  <2> QED
    BY <2>3, <2>5
<1> QED
  BY <1>1, <1>3, <1>4, <1>6, <1>7, <1>8, <1>9 DEF Running, WorkersWith

\* After a heartbeat only workers that ran before run, on leases that reach
\* the captured time.
LEMMA RunningAfterHeartbeat ==
    ASSUME NEW ids \in SUBSET WorkerIds, NEW row \in RowOver(ids),
           NEW w \in ids, NEW now \in Nat, NEW lease \in Leases,
           NEW new, new = HeartbeatRow(row, w, now, lease)
    PROVE  /\ DOMAIN new.workers = DOMAIN row.workers
           /\ Running(new) \subseteq Running(row)
           /\ \A v \in Running(new) : now <= new.workers[v].lease
<1> DEFINE first == Recalculate(row.workers, now)
           renewed == RenewedWorkers(first, w, now, lease)
<1>1. row.workers \in [ids -> Worker]
  BY DEF RowOver
<1>2. first \in [ids -> Worker]
  BY <1>1, RecalculateType
<1>3. \A v \in ids : first[v].status = "running" => row.workers[v].status = "running"
  BY <1>1 DEF Recalculate, Worker
<1>4. new.workers = Recalculate(renewed, now)
  BY HeartbeatFacts DEF HeartbeatEffect
<1> HIDE DEF first
<1>5. now + lease \in Nat
  BY RowAssumption
<1>6. renewed \in [ids -> Worker]
  BY <1>2, <1>5 DEF RenewedWorkers, Worker
<1>7. \A v \in ids : renewed[v].status = first[v].status
  BY <1>2 DEF RenewedWorkers, Worker
<1> HIDE DEF renewed
<1>8. \A v \in ids : new.workers[v].status = "running" =>
        /\ renewed[v].status = "running"
        /\ now <= new.workers[v].lease
  BY <1>4, <1>6 DEF Recalculate, Expired, Worker
<1>9. DOMAIN new.workers = ids /\ DOMAIN row.workers = ids
  BY <1>1, <1>4, <1>6 DEF Recalculate
<1> QED
  BY <1>3, <1>7, <1>8, <1>9 DEF Running, WorkersWith

\* After a report only workers that ran before, and the reporting one, run, on
\* leases that reach the captured time.
LEMMA RunningAfterUpdate ==
    ASSUME NEW ids \in SUBSET WorkerIds, NEW row \in RowOver(ids),
           NEW w \in ids, NEW now \in Nat,
           NEW status \in WorkerStatuses, NEW result \in Results \cup {Null},
           NEW new, new = UpdateRow(row, w, now, status, result)
    PROVE  /\ DOMAIN new.workers = DOMAIN row.workers
           /\ Running(new) \subseteq Running(row) \cup {w}
           /\ status = "running" \/ w \notin Running(new)
           /\ \A v \in Running(new) : now <= new.workers[v].lease
<1> DEFINE reported == ReportedWorkers(row.workers, w, status, result)
<1>1. row.workers \in [ids -> Worker]
  BY DEF RowOver
<1>2. Reported(row.workers[w], status, result) \in Worker
  BY <1>1 DEF Reported, Worker
<1>3. reported \in [ids -> Worker]
  BY <1>1, <1>2 DEF ReportedWorkers
<1>4. \A v \in ids : v # w => reported[v] = row.workers[v]
  BY <1>1 DEF ReportedWorkers
<1>5. reported[w].status = status
  BY <1>1 DEF ReportedWorkers, Reported, Worker
<1>6. new.workers = Recalculate(reported, now)
  BY UpdateFacts
<1> HIDE DEF reported
<1>7. \A v \in ids : new.workers[v].status = "running" =>
        /\ reported[v].status = "running"
        /\ now <= new.workers[v].lease
  BY <1>3, <1>6 DEF Recalculate, Expired, Worker
<1>8. DOMAIN new.workers = ids /\ DOMAIN row.workers = ids
  BY <1>1, <1>3, <1>6 DEF Recalculate
<1> QED
  BY <1>4, <1>5, <1>7, <1>8 DEF Running, WorkersWith

\* The steps that rewrite the workers, and what they leave running: a claim
\* adds its worker, a report at most the reporting one, the others nobody.
\* Whoever runs does so on a lease that reached the time the handler captured.
LEMMA StepEffect ==
    ASSUME IInv, [Next]_vars
    PROVE  \/ run' = run
           \/ /\ run'.workers = run.workers
              /\ LaravelCancelling
           \/ \E w \in WorkerIds :
                /\ run.status \in {"queued", "running"}
                /\ run'.status = "running"
                /\ w \in DOMAIN run.workers
                        \/ Cardinality(Running(run)) < RequestedConcurrency
                /\ DOMAIN run'.workers = DOMAIN run.workers \cup {w}
                /\ w \in Running(run')
                /\ Running(run') \subseteq Running(run) \cup {w}
                /\ \A v \in Running(run') : clock <= run'.workers[v].lease + MaxDelay
           \/ \E w \in DOMAIN run.workers :
                /\ run.status \in {"running", "cancelling"}
                /\ run'.status = run.status
                /\ DOMAIN run'.workers = DOMAIN run.workers
                /\ Running(run') \subseteq Running(run) \cup {w}
                /\ \A v \in Running(run') : clock <= run'.workers[v].lease + MaxDelay
           \/ /\ ~Terminal(run.status)
              /\ Terminal(run'.status)
              /\ run.status = "queued" => run'.status = "cancelled"
              /\ DOMAIN run'.workers = DOMAIN run.workers
              /\ Running(run') = {}
<1>1. PICK ids \in SUBSET WorkerIds : run \in RowOver(ids)
  BY DEF IInv, TypeOK, IsRow
<1>2. DOMAIN run.workers = ids /\ run.status \in RunStatuses
  BY <1>1 DEF RowOver
<1>3. clock \in Nat /\ MaxDelay \in Nat
  BY TimeAssumption DEF IInv, TypeOK
<1>4. ASSUME NEW w \in DOMAIN run.workers, ~Terminal(run.status)
      PROVE  run.status \in {"running", "cancelling"}
  BY <1>2, <1>4 DEF IInv, QueuedIsEmpty, RunStatuses, Terminal
<1>5. CASE Tick \/ UNCHANGED vars
  BY <1>5 DEF Tick, vars
<1>6. CASE LaravelCancelling
  BY <1>1, <1>6 DEF LaravelCancelling, RowOver
<1>7. ASSUME NEW now \in CapturedTimes, NEW w \in WorkerIds, NEW cred \in Creds \cup {Null},
             Claim(w, now, cred)
      PROVE  \E v \in WorkerIds :
                /\ run.status \in {"queued", "running"}
                /\ run'.status = "running"
                /\ v \in DOMAIN run.workers
                        \/ Cardinality(Running(run)) < RequestedConcurrency
                /\ DOMAIN run'.workers = DOMAIN run.workers \cup {v}
                /\ v \in Running(run')
                /\ Running(run') \subseteq Running(run) \cup {v}
                /\ \A u \in Running(run') : clock <= run'.workers[u].lease + MaxDelay
  <2>1. now \in Nat /\ clock <= now + MaxDelay
    BY CapturedFacts DEF IInv
  <2>2. run' = ClaimRow(run, w, now, cred) /\ ClaimAllowed(run, w)
    BY <1>7 DEF Claim
  <2>3. run.status \in {"queued", "running"}
    BY <1>2, <2>2 DEF ClaimAllowed, Terminal, RunStatuses
  <2>4. w \in DOMAIN run.workers \/ Cardinality(Running(run)) < RequestedConcurrency
    BY <2>2 DEF ClaimAllowed, IInv, CountersMatchWorkers, Counters, Count, Running
  <2>5. run' \in RowOver(ids \cup {w}) /\ run'.status = "running"
    <3>1. ClaimEffect(ids, run, w, now, cred, run')
      BY <1>1, <2>1, <2>2, ClaimFacts
    <3> QED
      BY <3>1 DEF ClaimEffect
  <2>7. DOMAIN run'.workers = DOMAIN run.workers \cup {w}
    BY <1>2, <2>5 DEF RowOver
  <2>8. /\ w \in Running(run')
        /\ Running(run') \subseteq Running(run) \cup {w}
        /\ \A v \in Running(run') : now <= run'.workers[v].lease
    BY <1>1, <2>1, <2>2, RunningAfterClaim
  <2>9. \A v \in Running(run') : run'.workers[v].lease \in Nat
    BY <2>5 DEF RowOver, Running, WorkersWith, Worker
  <2>10. \A v \in Running(run') : clock <= run'.workers[v].lease + MaxDelay
    BY <1>3, <2>1, <2>8, <2>9
  <2> QED
    BY <2>3, <2>4, <2>5, <2>7, <2>8, <2>10
<1>8. ASSUME NEW now \in CapturedTimes, NEW w \in WorkerIds, NEW lease \in Leases,
             Heartbeat(w, now, lease)
      PROVE  /\ w \in DOMAIN run.workers
             /\ ~Terminal(run.status)
             /\ DOMAIN run'.workers = DOMAIN run.workers
             /\ Running(run') \subseteq Running(run)
             /\ \A v \in Running(run') : clock <= run'.workers[v].lease + MaxDelay
             /\ run'.status = run.status \/ (Terminal(run'.status) /\ Running(run') = {})
  <2>1. now \in Nat /\ clock <= now + MaxDelay
    BY CapturedFacts DEF IInv
  <2>2. /\ run' = HeartbeatRow(run, w, now, lease)
        /\ w \in DOMAIN run.workers
        /\ ~Terminal(run.status)
    BY <1>8 DEF Heartbeat, WorkerWritable
  <2>3. /\ run' \in RowOver(ids)
        /\ run'.status = run.status \/ (Terminal(run'.status) /\ Running(run') = {})
    <3>1. w \in ids
      BY <1>2, <2>2
    <3>2. HeartbeatEffect(ids, run, w, now, lease, run')
      BY <1>1, <2>1, <2>2, <3>1, HeartbeatFacts
    <3> QED
      BY <3>2 DEF HeartbeatEffect
  <2>4. /\ DOMAIN run'.workers = DOMAIN run.workers
        /\ Running(run') \subseteq Running(run)
        /\ \A v \in Running(run') : now <= run'.workers[v].lease
    BY <1>1, <1>2, <2>1, <2>2, RunningAfterHeartbeat
  <2>5. \A v \in Running(run') : run'.workers[v].lease \in Nat
    BY <2>3 DEF RowOver, Running, WorkersWith, Worker
  <2>6. \A v \in Running(run') : clock <= run'.workers[v].lease + MaxDelay
    BY <1>3, <2>1, <2>4, <2>5
  <2> QED
    BY <2>2, <2>3, <2>4, <2>6
<1>9. ASSUME NEW now \in CapturedTimes, NEW w \in WorkerIds, NEW status \in WorkerStatuses,
             NEW result \in Results \cup {Null}, UpdateWorker(w, now, status, result)
      PROVE  /\ w \in DOMAIN run.workers
             /\ ~Terminal(run.status)
             /\ run'.status = run.status
             /\ DOMAIN run'.workers = DOMAIN run.workers
             /\ Running(run') \subseteq Running(run) \cup {w}
             /\ \A v \in Running(run') : clock <= run'.workers[v].lease + MaxDelay
  <2>1. now \in Nat /\ clock <= now + MaxDelay
    BY CapturedFacts DEF IInv
  <2>2. /\ run' = UpdateRow(run, w, now, status, result)
        /\ w \in DOMAIN run.workers
        /\ ~Terminal(run.status)
    BY <1>9 DEF UpdateWorker, WorkerWritable
  <2>3. run' \in RowOver(ids) /\ run'.status = run.status
    BY <1>1, <1>2, <2>1, <2>2, UpdateFacts
  <2>4. /\ DOMAIN run'.workers = DOMAIN run.workers
        /\ Running(run') \subseteq Running(run) \cup {w}
        /\ \A v \in Running(run') : now <= run'.workers[v].lease
    <3>1. w \in ids
      BY <1>2, <2>2
    <3> QED
      BY <1>1, <2>1, <2>2, <3>1, RunningAfterUpdate
  <2>5. \A v \in Running(run') : run'.workers[v].lease \in Nat
    BY <2>3 DEF RowOver, Running, WorkersWith, Worker
  <2>6. \A v \in Running(run') : clock <= run'.workers[v].lease + MaxDelay
    BY <1>3, <2>1, <2>4, <2>5
  <2> QED
    BY <2>2, <2>3, <2>4, <2>6
<1>10. ASSUME NEW now \in CapturedTimes, Cancel(now)
       PROVE  /\ ~Terminal(run.status)
              /\ Terminal(run'.status)
              /\ run.status = "queued" => run'.status = "cancelled"
              /\ DOMAIN run'.workers = DOMAIN run.workers
              /\ Running(run') = {}
  <2>1. now \in Nat
    BY CapturedFacts DEF IInv
  <2>2. run' = CancelRow(run, now) /\ ~Terminal(run.status)
    BY <1>10 DEF Cancel
  <2>3. /\ run' \in RowOver(ids)
        /\ Terminal(run'.status)
        /\ Running(run') = {}
        /\ DOMAIN run.workers = {} => run'.status = "cancelled"
    BY <1>1, <2>1, <2>2, CancelFacts
  <2>4. DOMAIN run'.workers = ids
    BY <2>3 DEF RowOver
  <2> QED
    BY <1>2, <2>2, <2>3, <2>4 DEF IInv, QueuedIsEmpty
<1>11. CASE \E now \in CapturedTimes : Request(now)
  <2>1. PICK now \in CapturedTimes : Request(now)
    BY <1>11
  <2>2. CASE \E w \in WorkerIds, cred \in Creds \cup {Null} : Claim(w, now, cred)
    BY <1>7, <2>2
  <2>3. CASE \E w \in WorkerIds, lease \in Leases : Heartbeat(w, now, lease)
    <3>1. PICK w \in WorkerIds, lease \in Leases : Heartbeat(w, now, lease)
      BY <2>3
    <3>2. run.status \in {"running", "cancelling"}
      BY <1>4, <1>8, <3>1
    <3> QED
      BY <1>8, <3>1, <3>2
  <2>4. CASE \E w \in WorkerIds, status \in WorkerStatuses, result \in Results \cup {Null} :
                UpdateWorker(w, now, status, result)
    <3>1. PICK w \in WorkerIds, status \in WorkerStatuses, result \in Results \cup {Null} :
                UpdateWorker(w, now, status, result)
      BY <2>4
    <3>2. run.status \in {"running", "cancelling"}
      BY <1>4, <1>9, <3>1
    <3> QED
      BY <1>9, <3>1, <3>2
  <2>5. CASE Cancel(now)
    BY <1>10, <2>5
  <2> QED
    BY <2>1, <2>2, <2>3, <2>4, <2>5 DEF Request
<1> QED
  BY <1>5, <1>6, <1>11 DEF Next

\* A first-time worker is admitted only into a free slot.  The claim reads the
\* activeWorkers column, so this rests on CountersMatchWorkers.
THEOREM NewWorkersFit == Spec => NewWorkerFitsConcurrency
<1>1. IInv /\ [Next]_vars =>
        [DOMAIN run'.workers # DOMAIN run.workers =>
            Cardinality(Running(run')) <= RequestedConcurrency]_vars
  <2> SUFFICES ASSUME IInv, [Next]_vars, DOMAIN run'.workers # DOMAIN run.workers
               PROVE  Cardinality(Running(run')) <= RequestedConcurrency
    OBVIOUS
  <2>1. PICK w \in WorkerIds :
            /\ w \in DOMAIN run.workers
                    \/ Cardinality(Running(run)) < RequestedConcurrency
            /\ DOMAIN run'.workers = DOMAIN run.workers \cup {w}
            /\ Running(run') \subseteq Running(run) \cup {w}
    BY StepEffect
  <2>2. Cardinality(Running(run)) < RequestedConcurrency
    BY <2>1
  <2>3. PICK ids \in SUBSET WorkerIds : run.workers \in [ids -> Worker]
    BY DEF IInv, TypeOK, IsRow, RowOver
  <2>4. IsFiniteSet(Running(run)) /\ Cardinality(Running(run)) \in Nat
    BY <2>3, CountIsNat, FS_CardinalityType DEF Running
  <2>5. /\ IsFiniteSet(Running(run) \cup {w})
        /\ Cardinality(Running(run) \cup {w}) \in Nat
        /\ Cardinality(Running(run) \cup {w}) <= Cardinality(Running(run)) + 1
    <3>1. IsFiniteSet(Running(run) \cup {w})
      BY <2>4, FS_AddElement
    <3>2. Cardinality(Running(run) \cup {w}) =
            IF w \in Running(run) THEN Cardinality(Running(run))
                                  ELSE Cardinality(Running(run)) + 1
      BY <2>4, FS_AddElement
    <3> QED
      BY <2>4, <3>1, <3>2
  <2>6. /\ Cardinality(Running(run')) \in Nat
        /\ Cardinality(Running(run')) <= Cardinality(Running(run) \cup {w})
    BY <2>1, <2>5, FS_Subset, FS_CardinalityType
  <2> QED
    BY <2>2, <2>4, <2>5, <2>6, RowAssumption
<1> QED
  BY <1>1, Invariance, PTL DEF Spec, NewWorkerFitsConcurrency

\* Whatever handler rewrites the workers finds every worker whose lease was
\* over when a request that late was received.
THEOREM SilentWorkersAreFound == Spec => SilentWorkersFound
<1>1. IInv /\ [Next]_vars =>
        [run'.workers # run.workers =>
            \A w \in Running(run') : clock <= run'.workers[w].lease + MaxDelay]_vars
  <2> SUFFICES ASSUME IInv, [Next]_vars, run'.workers # run.workers,
                      NEW w \in Running(run')
               PROVE  clock <= run'.workers[w].lease + MaxDelay
    OBVIOUS
  <2> QED
    BY StepEffect
<1> QED
  BY <1>1, Invariance, PTL DEF Spec, SilentWorkersFound

\* A worker that ended runs again only by its own claim or its own report: the
\* heartbeat expires before it renews, and renews nobody who is not running.
THEOREM NobodyIsRevived == Spec => NoRevival
<1> DEFINE Back(w) ==
        \/ \E now \in CapturedTimes, cred \in Creds \cup {Null} : Claim(w, now, cred)
        \/ \E now \in CapturedTimes, result \in Results \cup {Null} :
                UpdateWorker(w, now, "running", result)
<1>1. ASSUME IInv, [Next]_vars, NEW v \in DOMAIN run.workers \ Running(run),
             v \in Running(run')
      PROVE  Back(v)
  <2>1. PICK ids \in SUBSET WorkerIds : run \in RowOver(ids)
    BY <1>1 DEF IInv, TypeOK, IsRow
  <2>2. DOMAIN run.workers = ids
    BY <2>1 DEF RowOver
  <2>3. \A now \in CapturedTimes : now \in Nat
    BY <1>1, CapturedFacts DEF IInv
  <2>4. ~(Tick \/ UNCHANGED vars)
    BY <1>1 DEF Tick, vars
  <2>5. ~LaravelCancelling
    BY <1>1, <2>1 DEF LaravelCancelling, RowOver, Running
  <2>6. PICK now \in CapturedTimes : Request(now)
    BY <1>1, <2>4, <2>5 DEF Next
  <2>7. ASSUME NEW w \in WorkerIds, NEW cred \in Creds \cup {Null}, Claim(w, now, cred)
        PROVE  Back(v)
    <3>1. run' = ClaimRow(run, w, now, cred)
      BY <2>7 DEF Claim
    <3>2. Running(run') \subseteq Running(run) \cup {w}
      BY <2>1, <2>3, <3>1, RunningAfterClaim
    <3>3. v = w
      BY <1>1, <3>2
    <3> QED
      BY <2>7, <3>3
  <2>8. ASSUME NEW w \in WorkerIds, NEW lease \in Leases
        PROVE  ~Heartbeat(w, now, lease)
    <3> SUFFICES ASSUME Heartbeat(w, now, lease) PROVE FALSE
      OBVIOUS
    <3>1. run' = HeartbeatRow(run, w, now, lease) /\ w \in ids
      BY <2>2 DEF Heartbeat, WorkerWritable
    <3>2. Running(run') \subseteq Running(run)
      BY <2>1, <2>3, <3>1, RunningAfterHeartbeat
    <3> QED
      BY <1>1, <3>2
  <2>9. ASSUME NEW w \in WorkerIds, NEW status \in WorkerStatuses,
               NEW result \in Results \cup {Null}, UpdateWorker(w, now, status, result)
        PROVE  Back(v)
    <3>1. run' = UpdateRow(run, w, now, status, result) /\ w \in ids
      BY <2>2, <2>9 DEF UpdateWorker, WorkerWritable
    <3>2. /\ Running(run') \subseteq Running(run) \cup {w}
          /\ status = "running" \/ w \notin Running(run')
      BY <2>1, <2>3, <3>1, RunningAfterUpdate
    <3>3. v = w /\ status = "running"
      BY <1>1, <3>2
    <3> QED
      BY <2>9, <3>3
  <2>10. ~Cancel(now)
    <3> SUFFICES ASSUME Cancel(now) PROVE FALSE
      OBVIOUS
    <3>1. Running(run') = {}
      BY <2>1, <2>3, CancelFacts DEF Cancel
    <3> QED
      BY <1>1, <3>1
  <2> HIDE DEF Back
  <2> QED
    BY <2>6, <2>7, <2>8, <2>9, <2>10 DEF Request
<1>2. IInv /\ [Next]_vars =>
        [\A w \in DOMAIN run.workers \ Running(run) : w \in Running(run') => Back(w)]_vars
  BY <1>1
<1> QED
  BY <1>2, Invariance, PTL DEF Spec, NoRevival

-----------------------------------------------------------------------------
(***************************************************************************)
(* Leases.  What a delayed request may take back rests on an invariant of  *)
(* its own: no lease, however often renewed, ends later than the length of *)
(* one lease from now.                                                     *)
(***************************************************************************)

Lengths == Leases \cup {ClaimLease}

LeaseInReach ==
    \A w \in DOMAIN run.workers :
        \E granted \in Lengths : run.workers[w].lease <= clock + granted

\* The leases a step leaves: those that were there, and one that a claim or a
\* heartbeat counted from the time it captured.
LEMMA LeaseEffect ==
    ASSUME IInv, [Next]_vars
    PROVE  \A v \in DOMAIN run'.workers :
              \/ /\ v \in DOMAIN run.workers
                 /\ run'.workers[v].lease = run.workers[v].lease
              \/ \E now \in CapturedTimes, asked \in Lengths :
                    /\ run'.workers[v].lease = now + asked
                    /\ clock' = clock
<1>1. PICK ids \in SUBSET WorkerIds : run \in RowOver(ids)
  BY DEF IInv, TypeOK, IsRow
<1>2. run.workers \in [ids -> Worker]
  BY <1>1 DEF RowOver
<1>3. \A now \in CapturedTimes : now \in Nat
  BY CapturedFacts DEF IInv
<1>4. ASSUME NEW some \in SUBSET WorkerIds, NEW ws \in [some -> Worker], NEW now \in Nat
      PROVE  /\ DOMAIN Recalculate(ws, now) = some
             /\ \A v \in some : Recalculate(ws, now)[v].lease = ws[v].lease
  BY DEF Recalculate, Worker
<1>5. CASE Tick \/ UNCHANGED vars
  BY <1>5 DEF Tick, vars
<1>6. CASE LaravelCancelling
  BY <1>1, <1>6 DEF LaravelCancelling, RowOver
<1>7. ASSUME NEW now \in CapturedTimes, NEW w \in WorkerIds, NEW cred \in Creds \cup {Null},
             Claim(w, now, cred), NEW v \in DOMAIN run'.workers
      PROVE  \/ v \in DOMAIN run.workers /\ run'.workers[v].lease = run.workers[v].lease
             \/ run'.workers[v].lease = now + ClaimLease /\ clock' = clock
  <2> DEFINE claimed == ClaimedWorkers(run.workers, w, now, cred)
  <2>1. claimed \in [ids \cup {w} -> Worker]
    BY <1>2, <1>3, RowAssumption DEF ClaimedWorkers, Worker, WorkerStatuses, Times
  <2>2. run'.workers = Recalculate(claimed, now)
    <3>1. run' = ClaimRow(run, w, now, cred)
      BY <1>7 DEF Claim
    <3>2. ClaimEffect(ids, run, w, now, cred, run')
      BY <1>1, <1>3, <3>1, ClaimFacts
    <3> QED
      BY <3>2 DEF ClaimEffect
  <2>3. \A u \in ids \cup {w} : claimed[u].lease =
            IF u = w THEN now + ClaimLease ELSE run.workers[u].lease
    BY <1>2 DEF ClaimedWorkers
  <2> HIDE DEF claimed
  <2>4. v \in ids \cup {w} /\ run'.workers[v].lease = claimed[v].lease
    BY <1>3, <1>4, <1>7, <2>1, <2>2
  <2> QED
    BY <1>2, <1>7, <2>3, <2>4 DEF Claim
<1>8. ASSUME NEW now \in CapturedTimes, NEW w \in WorkerIds, NEW lease \in Leases,
             Heartbeat(w, now, lease), NEW v \in DOMAIN run'.workers
      PROVE  \/ v \in DOMAIN run.workers /\ run'.workers[v].lease = run.workers[v].lease
             \/ run'.workers[v].lease = now + lease /\ clock' = clock
  <2> DEFINE first == Recalculate(run.workers, now)
             renewed == RenewedWorkers(first, w, now, lease)
  <2>1. first \in [ids -> Worker]
    BY <1>2, <1>3, RecalculateType
  <2>2. \A u \in ids : first[u].lease = run.workers[u].lease
    BY <1>2, <1>3, <1>4
  <2>3. w \in ids /\ run' = HeartbeatRow(run, w, now, lease) /\ clock' = clock
    BY <1>2, <1>8 DEF Heartbeat, WorkerWritable
  <2>4. run'.workers = Recalculate(renewed, now)
    <3>1. HeartbeatEffect(ids, run, w, now, lease, run')
      BY <1>1, <1>3, <2>3, HeartbeatFacts
    <3> QED
      BY <3>1 DEF HeartbeatEffect
  <2> HIDE DEF first
  <2>5. now + lease \in Nat
    BY <1>3, RowAssumption
  <2>6. renewed \in [ids -> Worker]
    BY <2>1, <2>5 DEF RenewedWorkers, Worker
  <2>7. \A u \in ids : renewed[u].lease \in {first[u].lease, now + lease}
    BY <2>1, <2>5 DEF RenewedWorkers, Worker
  <2> HIDE DEF renewed
  <2>8. v \in ids /\ run'.workers[v].lease = renewed[v].lease
    BY <1>3, <1>4, <1>8, <2>4, <2>6
  <2> QED
    BY <1>2, <2>2, <2>3, <2>7, <2>8
<1>9. ASSUME NEW now \in CapturedTimes, NEW w \in WorkerIds, NEW status \in WorkerStatuses,
             NEW result \in Results \cup {Null}, UpdateWorker(w, now, status, result),
             NEW v \in DOMAIN run'.workers
      PROVE  v \in DOMAIN run.workers /\ run'.workers[v].lease = run.workers[v].lease
  <2> DEFINE reported == ReportedWorkers(run.workers, w, status, result)
  <2>1. w \in ids /\ run' = UpdateRow(run, w, now, status, result)
    BY <1>2, <1>9 DEF UpdateWorker, WorkerWritable
  <2>2. Reported(run.workers[w], status, result) \in Worker
    BY <1>2, <2>1 DEF Reported, Worker
  <2>3. reported \in [ids -> Worker]
    BY <1>2, <2>2 DEF ReportedWorkers
  <2>4. \A u \in ids : reported[u].lease = run.workers[u].lease
    BY <1>2, <2>1 DEF ReportedWorkers, Reported, Worker
  <2>5. run'.workers = Recalculate(reported, now)
    BY <1>1, <1>3, <2>1, UpdateFacts
  <2> HIDE DEF reported
  <2> QED
    BY <1>2, <1>3, <1>4, <1>9, <2>3, <2>4, <2>5
<1>10. ASSUME NEW now \in CapturedTimes, Cancel(now), NEW v \in DOMAIN run'.workers
       PROVE  v \in DOMAIN run.workers /\ run'.workers[v].lease = run.workers[v].lease
  <2> DEFINE cancelled == CancelledWorkers(run.workers)
  <2>1. cancelled \in [ids -> Worker]
    BY <1>2 DEF CancelledWorkers, Worker, WorkerStatuses
  <2>2. \A u \in ids : cancelled[u].lease = run.workers[u].lease
    BY <1>2 DEF CancelledWorkers, Worker
  <2>3. run'.workers = Recalculate(cancelled, now)
    BY <1>1, <1>3, <1>10, CancelFacts DEF Cancel
  <2> HIDE DEF cancelled
  <2> QED
    BY <1>2, <1>3, <1>4, <1>10, <2>1, <2>2, <2>3
<1>11. CASE \E now \in CapturedTimes : Request(now)
  BY <1>7, <1>8, <1>9, <1>10, <1>11 DEF Request, Lengths
<1> QED
  BY <1>5, <1>6, <1>11 DEF Next

\* A lease is counted from a time that is not in the future, and time only goes
\* on, so no lease gets out of reach.
LEMMA ReachInv == IInv /\ LeaseInReach /\ [Next]_vars => LeaseInReach'
<1> SUFFICES ASSUME IInv, LeaseInReach, [Next]_vars, NEW v \in DOMAIN run'.workers
             PROVE  \E granted \in Lengths : run'.workers[v].lease <= clock' + granted
  BY DEF LeaseInReach, Lengths
<1>1. Lengths \subseteq Nat
  BY RowAssumption DEF Lengths
<1>2. clock \in Nat /\ clock' \in Nat /\ clock <= clock'
  BY CapturedFacts, NextInv DEF IInv, TypeOK, Next, Tick, vars, Request, Claim, Heartbeat,
     UpdateWorker, Cancel, LaravelCancelling
<1>3. CASE v \in DOMAIN run.workers /\ run'.workers[v].lease = run.workers[v].lease
  <2>1. PICK granted \in Lengths : run.workers[v].lease <= clock + granted
    BY <1>3 DEF LeaseInReach
  <2>2. run.workers[v].lease \in Nat
    BY <1>3 DEF IInv, TypeOK, IsRow, RowOver, Worker
  <2>3. run'.workers[v].lease <= clock' + granted
    BY <1>1, <1>2, <1>3, <2>1, <2>2
  <2> QED
    BY <2>3
<1>4. ASSUME NEW now \in CapturedTimes, NEW asked \in Lengths,
             run'.workers[v].lease = now + asked, clock' = clock
      PROVE  run'.workers[v].lease <= clock' + asked
  <2>1. now \in Nat /\ now <= clock
    BY <1>2 DEF CapturedTimes
  <2> QED
    BY <1>1, <1>2, <1>4, <2>1
<1> QED
  BY <1>3, <1>4, LeaseEffect

\* A request that captured its time earlier takes back no more of a lease than
\* the longest delay, apart from what the two asked for.
THEOREM SetBacksAreBounded == Spec => LeaseSetBack
<1>1. Init => LeaseInReach
  BY DEF Init, QueuedRow, NoWorkers, LeaseInReach
<1>2. Spec => [](IInv /\ LeaseInReach)
  BY <1>1, InitInv, NextInv, ReachInv, PTL DEF Spec
<1>3. ASSUME IInv, LeaseInReach, [Next]_vars, NEW v \in Running(run) \cap Running(run')
      PROVE  \E asked, granted \in Leases \cup {ClaimLease} :
                run.workers[v].lease + asked
                    <= run'.workers[v].lease + granted + MaxDelay
  <2>1. Lengths \subseteq Nat /\ Lengths = Leases \cup {ClaimLease}
    BY RowAssumption DEF Lengths
  <2>2. v \in DOMAIN run.workers /\ v \in DOMAIN run'.workers
    BY <1>3 DEF Running, WorkersWith
  <2>3. run.workers[v].lease \in Nat /\ clock \in Nat /\ MaxDelay \in Nat
    BY <1>3, <2>2, TimeAssumption DEF IInv, TypeOK, IsRow, RowOver, Worker
  <2>4. PICK granted \in Lengths : run.workers[v].lease <= clock + granted
    BY <1>3, <2>2 DEF LeaseInReach
  <2>5. CASE run'.workers[v].lease = run.workers[v].lease
    <3>1. run.workers[v].lease + granted <= run'.workers[v].lease + granted + MaxDelay
      BY <2>1, <2>3, <2>5
    <3> QED
      BY <2>1, <3>1
  <2>6. ASSUME NEW now \in CapturedTimes, NEW asked \in Lengths,
               run'.workers[v].lease = now + asked
        PROVE  run.workers[v].lease + asked <= run'.workers[v].lease + granted + MaxDelay
    <3>1. now \in Nat /\ clock <= now + MaxDelay
      BY <1>3, CapturedFacts DEF IInv
    <3> QED
      BY <2>1, <2>3, <2>4, <2>6, <3>1
  <2> QED
    BY <1>3, <2>1, <2>2, <2>5, <2>6, LeaseEffect
<1>4. IInv /\ LeaseInReach /\ [Next]_vars =>
        [\A w \in Running(run) \cap Running(run') :
            \E asked, granted \in Leases \cup {ClaimLease} :
                run.workers[w].lease + asked
                    <= run'.workers[w].lease + granted + MaxDelay]_vars
  BY <1>3
<1> QED
  BY <1>2, <1>4, PTL DEF Spec, LeaseSetBack

-----------------------------------------------------------------------------
(***************************************************************************)
(* The row implements RunLifecycle: initial states map to initial states   *)
(* and, within the invariant, steps to steps or stutters.                  *)
(***************************************************************************)

\* The inserted row is an initial state of the abstract run.
LEMMA InitRefines == Init => Lifecycle!Init
BY DEF Init, QueuedRow, NoWorkers, Running, WorkersWith, Lifecycle!Init

\* Every handler is a step of the abstract run or leaves it alone.
LEMMA StepRefines == IInv /\ [Next]_vars => [Lifecycle!Next]_(Lifecycle!vars)
<1> SUFFICES ASSUME IInv, [Next]_vars PROVE [Lifecycle!Next]_(Lifecycle!vars)
  OBVIOUS
<1>1. CASE run' = run
  BY <1>1 DEF Lifecycle!vars
<1>2. CASE run'.workers = run.workers /\ LaravelCancelling
  <2>1. run'.status = "cancelling"
    BY <1>2 DEF IInv, TypeOK, IsRow, RowOver, LaravelCancelling
  <2>2. Running(run') = Running(run)
    BY <1>2 DEF Running
  <2> QED
    BY <1>2, <2>1, <2>2 DEF LaravelCancelling, Lifecycle!Next, Lifecycle!Withdraw
<1>3. ASSUME NEW w \in WorkerIds,
             run.status \in {"queued", "running"},
             run'.status = "running",
             w \in Running(run'),
             Running(run') \subseteq Running(run) \cup {w}
      PROVE  Lifecycle!Next
  <2>1. Running(run') = (Running(run) \ (Running(run) \ Running(run'))) \cup {w}
    BY <1>3
  <2>2. Lifecycle!Admit(w)
    BY <1>3, <2>1 DEF Lifecycle!Admit
  <2> QED
    BY <2>2 DEF Lifecycle!Next
<1>4. ASSUME NEW w \in DOMAIN run.workers,
             run.status \in {"running", "cancelling"},
             run'.status = run.status,
             Running(run') \subseteq Running(run) \cup {w}
      PROVE  Lifecycle!Next
  <2>1. Running(run') = (Running(run) \cup {w}) \ ((Running(run) \cup {w}) \ Running(run'))
    BY <1>4
  <2>2. Lifecycle!Report(w)
    BY <1>4, <2>1 DEF Lifecycle!Report
  <2>3. w \in WorkerIds
    BY DEF IInv, TypeOK, IsRow, RowOver
  <2> QED
    BY <2>2, <2>3 DEF Lifecycle!Next
<1>5. ASSUME ~Terminal(run.status), Terminal(run'.status),
             run.status = "queued" => run'.status = "cancelled",
             Running(run') = {}
      PROVE  Lifecycle!Next
  <2>1. run'.status \in Lifecycle!Final /\ run.status \notin Lifecycle!Final
    BY <1>5 DEF Terminal, TerminalStatuses, Lifecycle!Final
  <2>2. Lifecycle!Settle(run'.status)
    BY <1>5, <2>1 DEF Lifecycle!Settle
  <2> QED
    BY <2>1, <2>2 DEF Lifecycle!Next
<1> QED
  BY <1>1, <1>2, <1>3, <1>4, <1>5, StepEffect

\* Every behaviour of the row is a behaviour of the abstract run.
THEOREM RefinesLifecycle == Spec => ImplementsLifecycle
BY InitRefines, StepRefines, Invariance, PTL
   DEF Spec, ImplementsLifecycle, Lifecycle!Spec
=============================================================================
