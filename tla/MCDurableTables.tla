--------------------------- MODULE MCDurableTables ---------------------------
(***************************************************************************)
(* The three tables of work that are shown to implement an abstract         *)
(* specification: agent_commands, managed_replication_jobs and mcp_actions. *)
(* They share no state: a behaviour is one of one of the modules, the       *)
(* variables of the others stay as they were.                               *)
(***************************************************************************)
EXTENDS AgentCommandQueue, ManagedReplication, McpActions, TLC

CONSTANTS a1, a2, c1, c2, c3, j1, j2, d1, r1, r2, r3, p1, p2

VARIABLE part   \* the module whose behaviour this is

\* Two agents; two commands for the first, one for the second.
MCAgentOf == [c \in Commands |-> IF c = c3 THEN a2 ELSE a1]

\* Two jobs share a destination; two requests are about one plan.
MCDestinationOf == [j \in Replicas |-> d1]
MCPlanOf        == [r \in Requests |-> IF r = r3 THEN p2 ELSE p1]

\* Lease tokens are only compared for equality, and no property is a liveness one.
TokenSymmetry == Permutations(Tokens)

TablesInit ==
    /\ part \in {"commands", "replication", "actions"}
    /\ QueueInit /\ ReplicationInit /\ ActionsInit

TablesNext ==
    /\ UNCHANGED part
    /\ \/ part = "commands" /\ QueueNext /\ UNCHANGED <<replicationVars, actionVars>>
       \/ part = "replication" /\ ReplicationNext /\ UNCHANGED <<queueVars, actionVars>>
       \/ part = "actions" /\ ActionsNext /\ UNCHANGED <<queueVars, replicationVars>>

TablesSpec == TablesInit /\ [][TablesNext]_<<part, queueVars, replicationVars, actionVars>>
=============================================================================
