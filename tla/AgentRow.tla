------------------------------ MODULE AgentRow ------------------------------
(***************************************************************************)
(* One row of agent_registrations: what registration and a status change   *)
(* leave in it, and what a claim asks of it.  Version, runtimes,           *)
(* capabilities and the agent's own concurrency limit, which no other part *)
(* of the service reads, are left out.                                     *)
(***************************************************************************)
CONSTANTS
    Proofs,     \* certificate digests an agent may register
    Unproven    \* no certificate digest (JSON null, or an empty one)

AgentStatuses == {"pending", "approved", "maintenance", "draining", "disabled"}

\* validAgentStatus: what a manager may set; nobody sets pending.
ManagedStatuses == {"approved", "maintenance", "draining", "disabled"}

\* validAgentHealth: what an agent may report, "" when it says nothing.
ReportedHealths == {"", "unknown", "healthy", "unhealthy"}

Unregistered == [status |-> "unregistered"]

Registrations ==
    [status : AgentStatuses, health : ReportedHealths \ {""}, proof : Proofs \cup {Unproven}]

Agents == Registrations \cup {Unregistered}

\* Variants: the default health is not filled in; a refresh needs new approval.
RegisteredNoDefault(agent, health, proof) ==
    [status |-> IF agent = Unregistered THEN "pending" ELSE agent.status,
     health |-> health, proof |-> proof]

RegisteredPending(agent, health, proof) ==
    [status |-> "pending", health |-> IF health = "" THEN "unknown" ELSE health,
     proof |-> proof]

\* RegisterAgent: a new agent is pending; a known one keeps its status.
Registered(agent, health, proof) ==
    [status |-> IF agent = Unregistered THEN "pending" ELSE agent.status,
     health |-> IF health = "" THEN "unknown" ELSE health,
     proof  |-> proof]

\* validateParallelRunAgent: may a claim in the agent's name, showing this
\* certificate digest, take a slot?  Agents need not be registered at all.
OwnershipAllowed(agent, shown) ==
    agent # Unregistered =>
        /\ agent.proof \in {Unproven, shown}
        /\ agent.status = "approved"
        /\ agent.health # "unhealthy"
=============================================================================
