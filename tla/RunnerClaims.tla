---------------------------- MODULE RunnerClaims ----------------------------
(***************************************************************************)
(* How a worker gets hold of a slot and keeps it: single-use run tokens,   *)
(* agent eligibility, the claim itself, and the worker tokens that runner  *)
(* heartbeats and reports must show.                                       *)
(*                                                                         *)
(* A claim is not one transaction.  The run token is consumed in a         *)
(* transaction of its own, the consumption is audited in a second one, and *)
(* only the third takes the slot; the handler's captured time serves all   *)
(* three.  A runner's worker token is checked by a plain read, and the     *)
(* write that follows locks the row later.  Each request is therefore a    *)
(* process with a program counter, and other requests run between its      *)
(* steps.  Any step may fail or find its request gone, in which case the   *)
(* request ends there and what it committed stays.                         *)
(***************************************************************************)
EXTENDS ParallelRunRow, AgentRow

CONSTANTS
    Requests,           \* request slots: how many requests may overlap
    TokenIds,           \* run tokens that may be issued
    RunTokenTTL,        \* IDELIUM_RUN_TOKEN_TTL_SECONDS, 300 by default
    RunTokenRequired,   \* IDELIUM_RUN_TOKEN_REQUIRED_FOR_CLAIM
    HealthInputs,       \* healths the agents report
    StatusInputs,       \* statuses the managers set
    MaxDelay,           \* longest time between reading the clock and a lock
    MaxClock            \* bound on the clock

ASSUME TokenAssumption ==
    /\ RunTokenTTL \in Nat \ {0}
    /\ RunTokenRequired \in BOOLEAN
    /\ HealthInputs \subseteq ReportedHealths
    /\ StatusInputs \subseteq ManagedStatuses
    /\ MaxDelay \in Nat
    /\ MaxClock \in Nat
    /\ Null \notin TokenIds

VARIABLES
    clock,      \* the time the handlers read
    run,        \* the row of parallel_run_schedules
    agents,     \* the rows of agent_registrations
    tokens,     \* the rows of run_tokens, Null for a token not issued yet
    known,      \* run tokens whose plaintext was returned to a client
    held,       \* worker tokens returned to a runner, with their workers
    req,        \* the requests being served
    audit,      \* audit_events about run tokens: pairs of an action and a token
    claims,     \* history: how many claims each run token paid for
    late        \* history: slots each agent took since it became ineligible

vars == <<clock, run, agents, tokens, known, held, req, audit, claims, late>>

RunToken == [agent : WorkerIds, expiresAt : Nat, usedAt : Times, revokedAt : Times]

Idle == [pc |-> "idle", worker |-> Null, token |-> Null, cred |-> Null, now |-> 0]

Init ==
    /\ clock = 0
    /\ run = QueuedRow
    /\ agents = [w \in WorkerIds |-> Unregistered]
    /\ tokens = [t \in TokenIds |-> Null]
    /\ known = {}
    /\ held = {}
    /\ req = [r \in Requests |-> Idle]
    /\ audit = {}
    /\ claims = [t \in TokenIds |-> 0]
    /\ late = [w \in WorkerIds |-> 0]

\* The times a single-transaction request may have captured.
CapturedTimes == {now \in 0..clock : clock <= now + MaxDelay}

\* An event written after the change it is about, in a statement of its own,
\* which may fail; the request ends there either way.
MayAudit(action, t) == audit' \in {audit, audit \cup {<<action, t>>}}

At(r, pc) == req[r].pc = pc

Goto(r, pc) == req' = [req EXCEPT ![r].pc = pc]

Done(r) == req' = [req EXCEPT ![r] = Idle]

Tick ==
    /\ clock < MaxClock
    /\ clock' = clock + 1
    /\ UNCHANGED <<run, agents, tokens, known, held, req, audit, claims, late>>

\* A request ends early: its context is cancelled, a statement fails, or the
\* process dies.
Abort(r) ==
    /\ ~At(r, "idle")
    /\ Done(r)
    /\ UNCHANGED <<clock, run, agents, tokens, known, held, audit, claims, late>>

-----------------------------------------------------------------------------
(***************************************************************************)
(* Run token administration.  The change is committed first and audited    *)
(* afterwards; only then does the client get its answer, which is what     *)
(* makes an issued token usable.                                           *)
(***************************************************************************)
\* Variant: a token without an expiry.
IssueTokenForever(r, t, w, now) ==
    /\ At(r, "idle")
    /\ tokens[t] = Null
    /\ tokens' = [tokens EXCEPT ![t] = [agent |-> w, expiresAt |-> Null,
                                        usedAt |-> Null, revokedAt |-> Null]]
    /\ req' = [req EXCEPT ![r] = [Idle EXCEPT !.pc = "auditIssue", !.token = t]]
    /\ UNCHANGED <<clock, run, agents, known, held, audit, claims, late>>

IssueToken(r, t, w, now) ==
    /\ At(r, "idle")
    /\ tokens[t] = Null
    /\ tokens' = [tokens EXCEPT ![t] = [agent |-> w, expiresAt |-> now + RunTokenTTL,
                                        usedAt |-> Null, revokedAt |-> Null]]
    /\ req' = [req EXCEPT ![r] = [Idle EXCEPT !.pc = "auditIssue", !.token = t]]
    /\ UNCHANGED <<clock, run, agents, known, held, audit, claims, late>>

AnswerIssue(r) ==
    /\ At(r, "auditIssue")
    /\ known' = known \cup {req[r].token}
    /\ audit' = audit \cup {<<"issue", req[r].token>>}
    /\ Done(r)
    /\ UNCHANGED <<clock, run, agents, tokens, held, claims, late>>

\* Variant: a repeated revocation moves the revocation time.
RevokeTokenAgain(t, now) ==
    /\ tokens[t] # Null
    /\ tokens' = [tokens EXCEPT ![t].revokedAt = now]
    /\ MayAudit("revoke", t)
    /\ UNCHANGED <<clock, run, agents, known, held, req, claims, late>>

\* Nobody reads the event between the commit and the answer, and the answer
\* tells the client nothing it uses later, so one step stands for all three.
RevokeToken(t, now) ==
    /\ tokens[t] # Null
    /\ tokens' = [tokens EXCEPT ![t].revokedAt = IF @ = Null THEN now ELSE @]
    /\ MayAudit("revoke", t)
    /\ UNCHANGED <<clock, run, agents, known, held, req, claims, late>>

-----------------------------------------------------------------------------
(***************************************************************************)
(* Claims, by browser session, API key (cred = Null) or runner, who gets a *)
(* worker token that is generated before anything else happens.            *)
(***************************************************************************)
FreshCreds ==
    Creds \ ({h[2] : h \in held} \cup {req[r].cred : r \in Requests}
                \cup {run.workers[w].cred : w \in DOMAIN run.workers})

StartClaim(r, w, t, cred) ==
    /\ At(r, "idle")
    /\ RunTokenRequired => t # Null
    /\ req' = [req EXCEPT ![r] = [pc |-> IF t = Null THEN "claim" ELSE "consume",
                                  worker |-> w, token |-> t, cred |-> cred, now |-> clock]]
    /\ UNCHANGED <<clock, run, agents, tokens, known, held, audit, claims, late>>

\* Variants: a used token is accepted again; a token serves any agent.
ConsumableAgain(t, w, now) ==
    tokens[t].agent = w /\ tokens[t].revokedAt = Null /\ now < tokens[t].expiresAt

ConsumableByAnyone(t, w, now) ==
    tokens[t].usedAt = Null /\ tokens[t].revokedAt = Null /\ now < tokens[t].expiresAt

Consumable(t, w, now) ==
    /\ tokens[t].agent = w
    /\ tokens[t].usedAt = Null
    /\ tokens[t].revokedAt = Null
    /\ now < tokens[t].expiresAt

\* consumeParallelRunToken, in its own transaction.  The commit may take effect
\* and still be reported as failed; the claim is then rejected, and audited as
\* rejected, although the token is spent.
ConsumeToken(r) ==
    LET t == req[r].token
    IN  /\ At(r, "consume")
        /\ Consumable(t, req[r].worker, req[r].now)
        /\ tokens' = [tokens EXCEPT ![t].usedAt = req[r].now]
        /\ \/ Goto(r, "auditConsume") /\ UNCHANGED audit
           \/ Done(r) /\ MayAudit("reject", t)
        /\ UNCHANGED <<clock, run, agents, known, held, claims, late>>

\* The token cannot be consumed, or the transaction failed and rolled back.
RejectToken(r) ==
    /\ At(r, "consume")
    /\ Done(r)
    /\ MayAudit("reject", req[r].token)
    /\ UNCHANGED <<clock, run, agents, tokens, known, held, claims, late>>

AuditConsume(r) ==
    /\ At(r, "auditConsume")
    /\ audit' = audit \cup {<<"consume", req[r].token>>}
    /\ Goto(r, "claim")
    /\ UNCHANGED <<clock, run, agents, tokens, known, held, claims, late>>

\* The claim transaction locks the run row first and holds it until it ends.
\* It reads the agent's row without locking it.
RowFree == \A r \in Requests : ~At(r, "admitted")

\* Variant: the row is read without FOR UPDATE.
AdmitClaimUnlocked(r, shown) ==
    LET w == req[r].worker
    IN  /\ At(r, "claim")
        /\ IF ClaimAllowed(run, w) /\ OwnershipAllowed(agents[w], shown)
           THEN Goto(r, "admitted")
           ELSE Done(r)
        /\ UNCHANGED <<clock, run, agents, tokens, known, held, audit, claims, late>>

AdmitClaim(r, shown) ==
    LET w == req[r].worker
    IN  /\ At(r, "claim")
        /\ RowFree
        /\ IF ClaimAllowed(run, w) /\ OwnershipAllowed(agents[w], shown)
           THEN Goto(r, "admitted")
           ELSE Done(r)
        /\ UNCHANGED <<clock, run, agents, tokens, known, held, audit, claims, late>>

Eligible(agent) ==
    agent = Unregistered \/ (agent.status = "approved" /\ agent.health # "unhealthy")

\* The commit.  The answer, and with it the worker token, may be lost after it.
TakeSlot(r) ==
    LET w == req[r].worker
        t == req[r].token
        cred == req[r].cred
    IN  /\ At(r, "admitted")
        /\ run' = ClaimRow(run, w, req[r].now, cred)
        /\ claims' = IF t = Null THEN claims ELSE [claims EXCEPT ![t] = @ + 1]
        /\ late' = IF Eligible(agents[w]) THEN late ELSE [late EXCEPT ![w] = @ + 1]
        /\ held' \in {held} \cup (IF cred = Null THEN {} ELSE {held \cup {<<w, cred>>}})
        /\ Done(r)
        /\ UNCHANGED <<clock, agents, tokens, known, audit>>

-----------------------------------------------------------------------------
(***************************************************************************)
(* Runner heartbeats and reports: check the worker token, then write.      *)
(***************************************************************************)
WorkerTokenValid(w, cred, now) ==
    /\ w \in DOMAIN run.workers
    /\ run.workers[w].cred = cred
    /\ now < run.workers[w].credExpires

StartRunnerWrite(r, w, cred) ==
    /\ At(r, "idle")
    /\ req' = [req EXCEPT ![r] = [pc |-> "validate", worker |-> w, token |-> Null,
                                  cred |-> cred, now |-> clock]]
    /\ UNCHANGED <<clock, run, agents, tokens, known, held, audit, claims, late>>

\* A plain read of workerStates.  The handler reads the clock for the write only
\* when the check is over, so the write's time is this one or a later one.
ValidateWorkerToken(r) ==
    /\ At(r, "validate")
    /\ IF WorkerTokenValid(req[r].worker, req[r].cred, req[r].now)
       THEN req' = [req EXCEPT ![r].pc = "write", ![r].now = clock]
       ELSE Done(r)
    /\ UNCHANGED <<clock, run, agents, tokens, known, held, audit, claims, late>>

\* Variants: the write trusts the token check and does not look at the run; the
\* write puts back the worker token that was checked.
RunnerWriteTrusting(r) ==
    LET w == req[r].worker
    IN  /\ At(r, "write")
        /\ RowFree
        /\ \E now \in req[r].now..clock :
            \/ \E lease \in Leases : run' = HeartbeatRow(run, w, now, lease)
            \/ \E status \in WorkerStatuses, result \in Results \cup {Null} :
                    run' = UpdateRow(run, w, now, status, result)
        /\ Done(r)
        /\ UNCHANGED <<clock, agents, tokens, known, held, audit, claims, late>>

RunnerWriteStale(r) ==
    LET w == req[r].worker
    IN  /\ At(r, "write")
        /\ RowFree
        /\ WorkerWritable(run, w)
        /\ \E now \in req[r].now..clock, lease \in Leases :
                run' = [HeartbeatRow(run, w, now, lease) EXCEPT !.workers[w].cred = req[r].cred]
        /\ Done(r)
        /\ UNCHANGED <<clock, agents, tokens, known, held, audit, claims, late>>

RunnerWrite(r) ==
    LET w == req[r].worker
    IN  /\ At(r, "write")
        /\ RowFree
        /\ \/ /\ WorkerWritable(run, w)
              /\ \E now \in req[r].now..clock :
                    \/ \E lease \in Leases : run' = HeartbeatRow(run, w, now, lease)
                    \/ \E status \in WorkerStatuses, result \in Results \cup {Null} :
                            run' = UpdateRow(run, w, now, status, result)
           \/ ~WorkerWritable(run, w) /\ UNCHANGED run
        /\ Done(r)
        /\ UNCHANGED <<clock, agents, tokens, known, held, audit, claims, late>>

-----------------------------------------------------------------------------
(***************************************************************************)
(* Single-transaction requests: heartbeats, reports and cancellations by   *)
(* browser session or API key, and the agent inventory.                    *)
(***************************************************************************)
Rewrite(row) ==
    /\ RowFree
    /\ run' = row
    /\ UNCHANGED <<clock, agents, tokens, known, held, req, audit, claims, late>>

DirectWrite(w, now) ==
    /\ WorkerWritable(run, w)
    /\ \/ \E lease \in Leases : Rewrite(HeartbeatRow(run, w, now, lease))
       \/ \E status \in WorkerStatuses, result \in Results \cup {Null} :
                Rewrite(UpdateRow(run, w, now, status, result))

CancelRun(now) ==
    /\ ~Terminal(run.status)
    /\ Rewrite(CancelRow(run, now))

LaravelCancelling ==
    /\ run.status \in {"queued", "running"}
    /\ Rewrite([run EXCEPT !.status = "cancelling"])

SetAgent(w, agent) ==
    /\ agents' = [agents EXCEPT ![w] = agent]
    /\ late' = IF Eligible(agent) THEN [late EXCEPT ![w] = 0] ELSE late
    /\ UNCHANGED <<clock, run, tokens, known, held, req, audit, claims>>

RegisterAgent(w, health, proof) == SetAgent(w, Registered(agents[w], health, proof))

UpdateAgentStatus(w, status) ==
    /\ agents[w] # Unregistered
    /\ SetAgent(w, [agents[w] EXCEPT !.status = status])

-----------------------------------------------------------------------------
TokenRequest(r) ==
    \/ \E t \in TokenIds, w \in WorkerIds, now \in CapturedTimes : IssueToken(r, t, w, now)
    \/ AnswerIssue(r)

ClaimRequest(r) ==
    \/ \E w \in WorkerIds, t \in known \cup {Null} :
            StartClaim(r, w, t, Null) \/ \E cred \in FreshCreds : StartClaim(r, w, t, cred)
    \/ ConsumeToken(r)
    \/ RejectToken(r)
    \/ AuditConsume(r)
    \/ \E shown \in Proofs \cup {Unproven} : AdmitClaim(r, shown)
    \/ TakeSlot(r)

RunnerRequest(r) ==
    \/ \E h \in held : StartRunnerWrite(r, h[1], h[2])
    \/ ValidateWorkerToken(r)
    \/ RunnerWrite(r)

Next ==
    \/ Tick
    \/ \E r \in Requests :
            Abort(r) \/ TokenRequest(r) \/ ClaimRequest(r) \/ RunnerRequest(r)
    \/ \E now \in CapturedTimes :
        \/ CancelRun(now)
        \/ \E w \in WorkerIds : DirectWrite(w, now)
        \/ \E t \in TokenIds : RevokeToken(t, now)
    \/ LaravelCancelling
    \/ \E w \in WorkerIds :
        \/ \E health \in HealthInputs, proof \in Proofs \cup {Unproven} :
                RegisterAgent(w, health, proof)
        \/ \E status \in StatusInputs : UpdateAgentStatus(w, status)

Spec == Init /\ [][Next]_vars

-----------------------------------------------------------------------------
PCs == {"idle", "auditIssue", "consume", "auditConsume", "claim", "admitted",
        "validate", "write"}

AuditActions == {"issue", "revoke", "consume", "reject"}

\* Rows, requests, credentials and audit events keep their types.
TypeOK ==
    /\ clock \in 0..MaxClock
    /\ IsRow(run)
    /\ agents \in [WorkerIds -> Agents]
    /\ tokens \in [TokenIds -> RunToken \cup {Null}]
    /\ known \in SUBSET TokenIds
    /\ held \in SUBSET (WorkerIds \X Creds)
    /\ req \in [Requests -> [pc : PCs, worker : WorkerIds \cup {Null},
                             token : TokenIds \cup {Null}, cred : Creds \cup {Null},
                             now : 0..clock]]
    /\ audit \in SUBSET (AuditActions \X TokenIds)
    /\ claims \in [TokenIds -> Nat]
    /\ late \in [WorkerIds -> Nat]

\* However claims with the same run token interleave, it pays for one slot at
\* most, and both the token row and the audit trail say so before the slot is
\* taken.
TokenPaysOnce ==
    \A t \in TokenIds : claims[t] > 0 =>
        /\ claims[t] = 1
        /\ tokens[t].usedAt # Null
        /\ <<"consume", t>> \in audit

\* While run tokens are required, nobody is in the run who did not spend one:
\* also not through a claim refused, aborted or repeated on the way.
WorkersPaid ==
    RunTokenRequired =>
        \A w \in DOMAIN run.workers :
            \E t \in TokenIds : claims[t] > 0 /\ tokens[t].agent = w

\* Consumption and revocation race for the token row; whichever comes first
\* stands.  Neither stamp ever moves, and a revoked token is never consumed.
TokenStampsStand ==
    [][\A t \in TokenIds : tokens[t] # Null =>
            /\ tokens[t].usedAt # Null => tokens'[t].usedAt = tokens[t].usedAt
            /\ tokens[t].revokedAt # Null =>
                    /\ tokens'[t].revokedAt = tokens[t].revokedAt
                    /\ tokens'[t].usedAt = tokens[t].usedAt]_vars

\* The claim reads its agent's row without a lock, so an agent that loses its
\* approval or its health may still take a slot afterwards.  The lock on the
\* run row, taken before that read, makes it one slot at most: however many
\* claims are on their way, all others see the change.
AtMostOneLateClaim == \A w \in WorkerIds : late[w] <= 1

\* A runner write that passed its token check meets at worst a finished run,
\* never a missing worker, although the check and the write do not share a
\* transaction.
CheckedWorkerIsKnown ==
    \A r \in Requests : At(r, "write") => req[r].worker \in DOMAIN run.workers

\* A worker that claims anew gets a new worker token while requests checked with
\* the old one are on their way.  Their writes start from the row they lock: only
\* a claim changes a worker's token, and the token it stores is its own.
NewestTokenStands ==
    [][\A w \in DOMAIN run.workers \cap DOMAIN run'.workers :
            run'.workers[w].cred # run.workers[w].cred =>
                \E r \in Requests :
                    /\ At(r, "admitted") /\ req'[r] = Idle
                    /\ req[r].worker = w
                    /\ req[r].cred = run'.workers[w].cred]_vars

\* Requests in progress leave the row as ParallelRun says, with the captured
\* time standing for everything a waiting request holds.
Core == INSTANCE ParallelRun WITH MaxDelay <- MaxClock
ImplementsParallelRun == Core!Spec

\* What a worker reported survives claims on their way, heartbeats, cancellation
\* and expiry: nobody removes a worker or changes its result but its own report.
ResultsSurvive == Core!ResultsSurvive
=============================================================================
