--------------------------- MODULE AgentRegistry ----------------------------
(***************************************************************************)
(* The agent inventory of one tenant: registration by agents with an API   *)
(* key, status changes by managers in the browser.                         *)
(*                                                                         *)
(* MySQL reports the rows an UPDATE changed, not those it matched (the     *)
(* connection does not set clientFoundRows), and updated_at has a          *)
(* resolution of one second; both decide what UpdateAgentStatus answers.   *)
(***************************************************************************)
EXTENDS AgentRow, Naturals

CONSTANTS
    AgentIds,
    MaxClock    \* bound on the clock, in seconds

VARIABLES
    clock,      \* NOW(), in seconds
    agents,     \* the rows, by agent
    updatedAt,  \* their updated_at columns
    reply       \* what the last status change answered, and about whom

vars == <<clock, agents, updatedAt, reply>>

NoReply == [answer |-> "none"]

Init ==
    /\ clock = 0
    /\ agents = [a \in AgentIds |-> Unregistered]
    /\ updatedAt = [a \in AgentIds |-> 0]
    /\ reply = NoReply

Tick ==
    /\ clock < MaxClock
    /\ clock' = clock + 1
    /\ UNCHANGED <<agents, updatedAt, reply>>

\* One transaction; a new agent's row is inserted, a known one's rewritten.
RegisterAgent(a, health, proof) ==
    /\ agents' = [agents EXCEPT ![a] = Registered(@, health, proof)]
    /\ updatedAt' = [updatedAt EXCEPT ![a] = clock]
    /\ reply' = NoReply
    /\ UNCHANGED clock

\* The UPDATE changes no row when the agent is unknown, and also when it has
\* the status already and was last updated in the same second.
UpdateAgentStatus(a, status) ==
    LET matched == agents[a] # Unregistered
        changed == matched /\ (agents[a].status # status \/ updatedAt[a] # clock)
    IN  /\ agents' = IF matched THEN [agents EXCEPT ![a].status = status] ELSE agents
        /\ updatedAt' = IF matched THEN [updatedAt EXCEPT ![a] = clock] ELSE updatedAt
        /\ reply' = [answer |-> IF changed THEN "updated" ELSE "not found",
                     agent |-> a, status |-> status]
        /\ UNCHANGED clock

Next ==
    \/ Tick
    \/ \E a \in AgentIds :
        \/ \E health \in ReportedHealths, proof \in Proofs \cup {Unproven} :
                RegisterAgent(a, health, proof)
        \/ \E status \in ManagedStatuses : UpdateAgentStatus(a, status)

Spec == Init /\ [][Next]_vars

-----------------------------------------------------------------------------
\* Rows, stamps and answers keep their types through both handlers.
TypeOK ==
    /\ clock \in 0..MaxClock
    /\ agents \in [AgentIds -> Agents]
    /\ updatedAt \in [AgentIds -> 0..clock]
    /\ reply \in {NoReply} \cup
            [answer : {"updated", "not found"}, agent : AgentIds, status : ManagedStatuses]

\* Registration preserves the approval status on refresh, and cannot grant
\* one: only a manager's answer of "updated" changes the status of an agent
\* that is already known, and a new agent is pending.
StatusIsManaged ==
    [][\A a \in AgentIds :
            agents'[a].status # agents[a].status =>
                \/ agents[a] = Unregistered /\ agents'[a].status = "pending"
                \/ reply' = [answer |-> "updated", agent |-> a,
                             status |-> agents'[a].status]]_vars

\* An agent is reported as not found only when it is not registered.
NotFoundMeansUnknown ==
    reply.answer = "not found" => agents[reply.agent] = Unregistered
=============================================================================
