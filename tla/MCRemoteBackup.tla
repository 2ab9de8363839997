--------------------------- MODULE MCRemoteBackup ---------------------------
(* One agent, and one plan that every backup belongs to. *)
EXTENDS RemoteBackup

CONSTANTS a1, b1

MCAgentOf  == [c \in Commands |-> a1]
OnePlan    == [c \in Commands |-> "plan"]

\* Bound: every fault is tried on b1 alone, and overlooked snapshots neither with late
\* requests nor with a server crash.  Beside another backup there is one event per
\* execution, no overlooked snapshot, no late request and no server crash; an agent
\* fault only where b1 was cancelled, so that the agent may still be at it.
SmallTogether ==
    LET beside == \E c \in Commands \ {b1} : commands'[c] # NoRow
        missed == \E c \in Commands : misses'[c] > 0
    IN  /\ beside \/ missed => late' = {} /\ serverCrashes' = 0
        /\ beside => /\ ~missed /\ agent'.sequence <= 1
                     /\ \A c \in Commands : remembered'[c].sequence <= 2
                     /\ agentFaults' = 0 \/ backups'[b1] = "cancelled"

\* For the properties that need no fairness.
FaultySpec == Init /\ [][Next]_vars
=============================================================================
