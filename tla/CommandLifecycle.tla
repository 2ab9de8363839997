-------------------------- MODULE CommandLifecycle --------------------------
(***************************************************************************)
(* What the command queue promises, without tokens, leases or clocks: an    *)
(* agent is a serial executor.  At most one of its commands is held at a    *)
(* time, a held command may be taken back and handed out again, only a held *)
(* command can finish, and a finished command stays as it is.               *)
(***************************************************************************)
CONSTANTS Agents, Commands, AgentOf

VARIABLE phase   \* of every command

Open == {"pending", "held"}

Init == phase = [c \in Commands |-> "absent"]

Submit(c) ==
    /\ phase[c] = "absent"
    /\ phase' = [phase EXCEPT ![c] = "pending"]

\* A poll of agent a: after it, the commands in grant (none or one) are held
\* and every other open command of the agent is pending.
Assign(a, grant) ==
    /\ \A c \in grant : AgentOf[c] = a /\ phase[c] \in Open
    /\ \A c, d \in grant : c = d
    /\ phase' = [c \in Commands |->
                   IF AgentOf[c] = a /\ phase[c] \in Open
                   THEN IF c \in grant THEN "held" ELSE "pending"
                   ELSE phase[c]]

Finish(c, outcome) ==
    /\ phase[c] = "held"
    /\ phase' = [phase EXCEPT ![c] = outcome]

Cancel(c) ==
    /\ phase[c] \in Open
    /\ phase' = [phase EXCEPT ![c] = "cancelled"]

Next ==
    \/ \E c \in Commands : Submit(c) \/ Cancel(c)
    \/ \E c \in Commands, outcome \in {"completed", "failed"} : Finish(c, outcome)
    \/ \E a \in Agents, grant \in SUBSET Commands : Assign(a, grant)

Spec == Init /\ [][Next]_phase
=============================================================================
