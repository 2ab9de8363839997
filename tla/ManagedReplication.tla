-------------------------- MODULE ManagedReplication --------------------------
(***************************************************************************)
(* ManagedReplicationStore, ManagedReplicationService and the order in      *)
(* which ManagedReplicationExecutor changes a destination: jobs that copy a *)
(* snapshot into a second repository, one at a time.  There is no lease: a  *)
(* restic process may outlive the server that started it, so an interrupted *)
(* job keeps the one execution slot until an operator has looked.           *)
(***************************************************************************)
EXTENDS Naturals, FiniteSets

CONSTANTS
    Replicas,        \* jobs, one per backup and replica
    Destinations,    \* destination repositories
    DestinationOf,   \* destination_fingerprint of each job
    MaxRuns,         \* bound: claims of one job
    MaxInterruptions \* bound: crashes of the server

ASSUME ReplicationAssumption ==
    /\ DestinationOf \in [Replicas -> Destinations] /\ "none" \notin Replicas
    /\ {MaxRuns, MaxInterruptions} \subseteq Nat

VARIABLES
    replicas,       \* managed_replication_jobs: status and attempts
    destinations,   \* managed_replication_destinations.init_state
    executor,       \* the job runTick executes, and where
    writers,        \* jobs whose restic process may be changing the destination
    repositories,   \* the destinations that hold a repository
    copies,         \* the jobs whose snapshot the destination holds
    interruptions

replicationVars ==
    <<replicas, destinations, executor, writers, repositories, copies, interruptions>>

Resting == [job |-> "none", at |-> "rest", aborted |-> FALSE]
Home(j) == DestinationOf[j]
\* Mutant of Slot: a job in doubt gives the slot back.
SlotOfRunning == {j \in Replicas : replicas[j].status = "running"}
Slot    == {j \in Replicas : replicas[j].status \in {"running", "uncertain"}}
At(j, step) == executor.job = j /\ executor.at = step
GoTo(step)  == executor' = [executor EXCEPT !.at = step]
-----------------------------------------------------------------------------
(* The service's requests. *)

\* admitBackup: reserveDestination, then enqueue.
AdmitReplica(j) ==
    /\ replicas[j].status = "none" /\ destinations[Home(j)] # "detached"
    /\ replicas' = [replicas EXCEPT ![j].status = "pending"]
    /\ UNCHANGED <<destinations, executor, writers, repositories, copies, interruptions>>

\* retryFailed, and the retry of the store.
MayRetry(j) ==
    /\ replicas[j].status \in {"failed", "cancelled"}
    /\ destinations[Home(j)] \notin {"initializing", "detached"}

RetryReplica(j) ==
    /\ MayRetry(j)
    /\ replicas' = [replicas EXCEPT ![j].status = "pending"]
    /\ UNCHANGED <<destinations, executor, writers, repositories, copies, interruptions>>

\* detach: assertPlanIdle
Detach(d) ==
    /\ \A j \in Replicas : replicas[j].status \notin {"pending", "running", "uncertain"}
    /\ destinations[d] # "detached"
    /\ destinations' = [destinations EXCEPT ![d] = "detached"]
    /\ UNCHANGED <<replicas, executor, writers, repositories, copies, interruptions>>

\* cancel and shutdown abort the job this process executes.
AbortReplica(j) ==
    /\ executor.job = j /\ ~executor.aborted
    /\ executor' = [executor EXCEPT !.aborted = TRUE]
    /\ UNCHANGED <<replicas, destinations, writers, repositories, copies, interruptions>>
-----------------------------------------------------------------------------
(* runTick and copy. *)

\* claim: one execution slot for all jobs, kept by running and uncertain ones.
ClaimReplica(j) ==
    /\ executor = Resting /\ Slot = {}
    /\ replicas[j].status = "pending" /\ replicas[j].attempts < MaxRuns
    /\ replicas' = [replicas EXCEPT ![j].status = "running", ![j].attempts = @ + 1]
    /\ executor' = [Resting EXCEPT !.job = j, !.at = "check"]
    /\ UNCHANGED <<destinations, writers, repositories, copies, interruptions>>

\* The bindings hold; a ready destination is copied into.
CheckReady(j) ==
    /\ At(j, "check") /\ ~executor.aborted
    /\ destinations[Home(j)] = "ready" /\ Home(j) \in repositories
    /\ GoTo("copy")
    /\ writers' = writers \cup {j}
    /\ UNCHANGED <<replicas, destinations, repositories, copies, interruptions>>

\* beginInitialization: durable before any change of the destination.
BeginInitialization(j) ==
    /\ At(j, "check") /\ ~executor.aborted
    /\ destinations[Home(j)] = "uninitialized" /\ Home(j) \notin repositories
    /\ destinations' = [destinations EXCEPT ![Home(j)] = "initializing"]
    /\ GoTo("init")
    /\ writers' = writers \cup {j}
    /\ UNCHANGED <<replicas, repositories, copies, interruptions>>

InitRepository(j) ==
    /\ At(j, "init") /\ ~executor.aborted
    /\ repositories' = repositories \cup {Home(j)}
    /\ writers' = writers \ {j}
    /\ GoTo("bind")
    /\ UNCHANGED <<replicas, destinations, copies, interruptions>>

\* bindRepository -> finalizeInitialization: durable before the copy.
BindRepository(j) ==
    /\ At(j, "bind") /\ ~executor.aborted
    /\ replicas[j].status = "running" /\ destinations[Home(j)] = "initializing"
    /\ destinations' = [destinations EXCEPT ![Home(j)] = "ready"]
    /\ GoTo("copy")
    /\ writers' = writers \cup {j}
    /\ UNCHANGED <<replicas, repositories, copies, interruptions>>

\* restic says that it copied; what the destination then holds is verified.
CopySnapshot(j) ==
    /\ At(j, "copy") /\ ~executor.aborted
    /\ copies' \in {copies, copies \cup {j}}
    /\ writers' = writers \ {j}
    /\ GoTo("verify")
    /\ UNCHANGED <<replicas, destinations, repositories, interruptions>>

\* Exactly one copy with the source's tree and artifacts is found.
FinishReplica(j) ==
    /\ At(j, "verify") /\ ~executor.aborted /\ j \in copies
    /\ replicas' = [replicas EXCEPT ![j].status = "completed"]
    /\ executor' = Resting
    /\ UNCHANGED <<destinations, writers, repositories, copies, interruptions>>

\* Mutant of FailedStatuses: a creation that failed is forgotten.
FailedStatusesForget(j, stopped) ==
    IF ~stopped THEN {"uncertain"}
    ELSE {"failed"} \cup {s \in {"cancelled"} : executor.aborted}

\* The status after an error; stopped: every child is known to have stopped.  An abort
\* is reported as a cancellation unless the command had timed out before.
FailedStatuses(j, stopped) ==
    IF destinations[Home(j)] = "initializing" \/ ~stopped
    THEN {"uncertain"}
    ELSE {"failed"} \cup {s \in {"cancelled"} : executor.aborted}

\* What the restic process of a job may have done when nobody waits for it any more.
Effects(j, step) ==
    \/ UNCHANGED <<repositories, copies>>
    \/ step = "init" /\ repositories' = repositories \cup {Home(j)} /\ UNCHANGED copies
    \/ step = "copy" /\ copies' = copies \cup {j} /\ UNCHANGED repositories

FailReplica(j) ==
    /\ executor.job = j
    /\ Effects(j, executor.at)
    /\ \E stopped \in BOOLEAN, s \in {"failed", "cancelled", "uncertain"} :
         /\ s \in FailedStatuses(j, stopped)
         /\ replicas' = [replicas EXCEPT ![j].status = s]
         /\ writers' = IF stopped THEN writers \ {j} ELSE writers
    /\ executor' = Resting
    /\ UNCHANGED <<destinations, interruptions>>

\* The first project throws before the try: the row stays running and nobody executes it.
AbandonReplica(j) ==
    /\ At(j, "check")
    /\ executor' = Resting
    /\ UNCHANGED <<replicas, destinations, writers, repositories, copies, interruptions>>

\* A process that was left behind ends.
WriterEnds(j) ==
    /\ j \in writers /\ executor.job # j
    /\ writers' = writers \ {j}
    /\ Effects(j, IF destinations[Home(j)] = "initializing" THEN "init" ELSE "copy")
    /\ UNCHANGED <<replicas, destinations, executor, interruptions>>

\* markInterrupted, at the next start; a restic process of its own group lives on.
Interrupted(row) ==
    IF row.status = "running" THEN [row EXCEPT !.status = "uncertain"] ELSE row

Interruption ==
    /\ interruptions < MaxInterruptions /\ interruptions' = interruptions + 1
    /\ replicas' = [j \in Replicas |-> Interrupted(replicas[j])]
    /\ executor' = Resting
    /\ UNCHANGED <<destinations, writers, repositories, copies>>
-----------------------------------------------------------------------------
ReplicationInit ==
    /\ replicas = [j \in Replicas |-> [status |-> "none", attempts |-> 0]]
    /\ destinations = [d \in Destinations |-> "uninitialized"]
    /\ executor = Resting
    /\ writers = {} /\ repositories = {} /\ copies = {}
    /\ interruptions = 0

ReplicationNext ==
    \/ \E j \in Replicas :
         \/ AdmitReplica(j) \/ RetryReplica(j) \/ AbortReplica(j) \/ ClaimReplica(j)
         \/ CheckReady(j) \/ BeginInitialization(j) \/ InitRepository(j) \/ BindRepository(j)
         \/ CopySnapshot(j) \/ FinishReplica(j) \/ FailReplica(j) \/ AbandonReplica(j)
         \/ WriterEnds(j)
    \/ \E d \in Destinations : Detach(d)
    \/ Interruption

ReplicationSpec == ReplicationInit /\ [][ReplicationNext]_replicationVars
-----------------------------------------------------------------------------
(* Properties. *)

\* Every variable holds what the tables, the service and the destinations keep.
ReplicationTypeOK ==
    /\ replicas \in [Replicas ->
         [status : {"none", "pending", "running", "completed", "failed", "cancelled",
                    "uncertain"},
          attempts : 0..MaxRuns]]
    /\ destinations \in [Destinations -> {"uninitialized", "initializing", "ready", "detached"}]
    /\ executor \in [job : Replicas \cup {"none"},
                     at : {"rest", "check", "init", "bind", "copy", "verify"}, aborted : BOOLEAN]
    /\ writers \subseteq Replicas /\ copies \subseteq Replicas
    /\ repositories \subseteq Destinations /\ interruptions \in 0..MaxInterruptions

\* A repository exists only where its creation was recorded first, and a creation whose
\* outcome is not recorded is held by a job that runs or is in doubt: no retry, crash or
\* process left behind can make a second job create or use it.
CreationIsHeld ==
    \A d \in Destinations :
        /\ destinations[d] = "uninitialized" => d \notin repositories
        /\ destinations[d] = "initializing" => \E j \in Slot : Home(j) = d
        /\ \A j \in writers : Home(j) = d => destinations[d] \in {"initializing", "ready"}

\* A completed replica is in a repository that is bound to its destination.
CompletedIsCopied ==
    \A j \in Replicas : replicas[j].status = "completed" =>
        j \in copies /\ Home(j) \in repositories /\ destinations[Home(j)] \in {"ready", "detached"}

ReplicaPhase(j) ==
    CASE replicas[j].status = "none"      -> "new"
      [] replicas[j].status = "pending"   -> "open"
      [] replicas[j].status = "running"   -> "held"
      [] replicas[j].status = "uncertain" -> "doubt"
      [] replicas[j].status = "completed" -> "done"
      [] OTHER                            -> "settled"

replicaPhases == [j \in Replicas |-> ReplicaPhase(j)]

\* The job being executed, and every restic process that may still be writing.
atWork == SlotOfRunning \cup writers

ReplicaTable == INSTANCE DurableClaim WITH
    Items   <- Replicas,
    Rivals  <- [j \in Replicas |-> Replicas],
    phase   <- replicaPhases,
    working <- atWork

\* Managed replication implements DurableClaim with every job a rival of every other: a job
\* begins only when no restic process of any job can be writing, also one that outlived a
\* crash or could not be stopped, and a job in doubt is never run again.
ReplicaClaim == ReplicaTable!ClaimSpec
=============================================================================
