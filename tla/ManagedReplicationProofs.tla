----------------------- MODULE ManagedReplicationProofs -----------------------
(***************************************************************************)
(* For any number of jobs, destinations, runs and crashes: the destinations *)
(* are created once and under a held job, completed replicas are copied,    *)
(* and managed replication implements DurableClaim.                         *)
(***************************************************************************)
EXTENDS ManagedReplication, TLAPS

\* At most one job runs or is in doubt, and every restic process is its.
SlotIsOne ==
    /\ \A i, k \in Slot : i = k
    /\ writers \subseteq Slot

\* The executor works on a running job, and where it is tells what the tables and the
\* destination hold.
ExecutorOwns ==
    /\ executor.at = "rest" <=> executor.job = "none"
    /\ executor.job \in Replicas =>
         /\ replicas[executor.job].status = "running"
         /\ executor.at \in {"init", "bind"} => destinations[Home(executor.job)] = "initializing"
         /\ executor.at \in {"copy", "verify"} => destinations[Home(executor.job)] = "ready"
         /\ executor.at = "bind" => Home(executor.job) \in repositories
         /\ executor.at \in {"check", "bind", "verify"} => executor.job \notin writers

\* Only a repository that exists is bound.
ReadyExists == \A d \in Destinations : destinations[d] = "ready" => d \in repositories

ReplicationInv ==
    /\ ReplicationTypeOK /\ SlotIsOne /\ ExecutorOwns /\ ReadyExists
    /\ CreationIsHeld /\ CompletedIsCopied
-----------------------------------------------------------------------------
(* Types. *)

\* The tables start empty.
LEMMA ReplicationTypeInit == ReplicationInit => ReplicationTypeOK
BY ReplicationAssumption DEF ReplicationInit, ReplicationTypeOK, Resting

\* Every action keeps the types.
LEMMA ReplicationTypeNext ==
    ReplicationTypeOK /\ [ReplicationNext]_replicationVars => ReplicationTypeOK'
<1> SUFFICES ASSUME ReplicationTypeOK, [ReplicationNext]_replicationVars
             PROVE  ReplicationTypeOK'
  OBVIOUS
<1> USE ReplicationAssumption DEF ReplicationTypeOK, Home, Resting, At, GoTo
<1>1. ASSUME NEW j \in Replicas, AdmitReplica(j) PROVE ReplicationTypeOK'
  BY <1>1 DEF AdmitReplica
<1>2. ASSUME NEW j \in Replicas, RetryReplica(j) PROVE ReplicationTypeOK'
  BY <1>2 DEF RetryReplica
<1>3. ASSUME NEW j \in Replicas, AbortReplica(j) PROVE ReplicationTypeOK'
  BY <1>3 DEF AbortReplica
<1>4. ASSUME NEW j \in Replicas, ClaimReplica(j) PROVE ReplicationTypeOK'
  BY <1>4 DEF ClaimReplica
<1>5. ASSUME NEW j \in Replicas, CheckReady(j) PROVE ReplicationTypeOK'
  BY <1>5 DEF CheckReady
<1>6. ASSUME NEW j \in Replicas, BeginInitialization(j) PROVE ReplicationTypeOK'
  BY <1>6 DEF BeginInitialization
<1>7. ASSUME NEW j \in Replicas, InitRepository(j) PROVE ReplicationTypeOK'
  BY <1>7 DEF InitRepository
<1>8. ASSUME NEW j \in Replicas, BindRepository(j) PROVE ReplicationTypeOK'
  BY <1>8 DEF BindRepository
<1>9. ASSUME NEW j \in Replicas, CopySnapshot(j) PROVE ReplicationTypeOK'
  BY <1>9 DEF CopySnapshot
<1>10. ASSUME NEW j \in Replicas, FinishReplica(j) PROVE ReplicationTypeOK'
  BY <1>10 DEF FinishReplica
<1>11. ASSUME NEW j \in Replicas, FailReplica(j) PROVE ReplicationTypeOK'
  BY <1>11 DEF FailReplica, Effects
<1>12. ASSUME NEW j \in Replicas, AbandonReplica(j) PROVE ReplicationTypeOK'
  BY <1>12 DEF AbandonReplica
<1>13. ASSUME NEW j \in Replicas, WriterEnds(j) PROVE ReplicationTypeOK'
  BY <1>13 DEF WriterEnds, Effects
<1>14. ASSUME NEW d \in Destinations, Detach(d) PROVE ReplicationTypeOK'
  BY <1>14 DEF Detach
<1>15. CASE Interruption
  BY <1>15 DEF Interruption, Interrupted
<1>16. CASE UNCHANGED replicationVars
  BY <1>16 DEF replicationVars
<1>17. QED
  BY <1>1, <1>2, <1>3, <1>4, <1>5, <1>6, <1>7, <1>8, <1>9, <1>10, <1>11, <1>12, <1>13,
     <1>14, <1>15, <1>16 DEF ReplicationNext
-----------------------------------------------------------------------------
(* The inductive invariant. *)

\* Nothing is claimed, created or copied at first.
LEMMA ReplicationInvInit == ReplicationInit => ReplicationInv
BY ReplicationTypeInit, ReplicationAssumption
   DEF ReplicationInit, ReplicationInv, SlotIsOne, Slot, ExecutorOwns, ReadyExists,
       CreationIsHeld, CompletedIsCopied, Resting, Home

\* The part of the invariant that is not about types.
Promises == SlotIsOne /\ ExecutorOwns /\ ReadyExists /\ CreationIsHeld /\ CompletedIsCopied

\* Every action keeps the invariant.
LEMMA ReplicationInvNext == ReplicationInv /\ [ReplicationNext]_replicationVars => ReplicationInv'
<1> SUFFICES ASSUME ReplicationInv, [ReplicationNext]_replicationVars
             PROVE  Promises'
  BY ReplicationTypeNext DEF ReplicationInv, Promises
<1>0. ReplicationTypeOK /\ ReplicationTypeOK' /\ Promises
  BY ReplicationTypeNext DEF ReplicationInv, Promises
<1> USE <1>0, ReplicationAssumption
    DEF ReplicationTypeOK, Promises, SlotIsOne, ExecutorOwns, ReadyExists, CreationIsHeld,
        CompletedIsCopied, Slot, Home, Resting, At, GoTo
<1>1. ASSUME NEW j \in Replicas, AdmitReplica(j) PROVE Promises'
  BY <1>1 DEF AdmitReplica
<1>2. ASSUME NEW j \in Replicas, RetryReplica(j) PROVE Promises'
  BY <1>2 DEF RetryReplica, MayRetry
<1>3. ASSUME NEW j \in Replicas, AbortReplica(j) PROVE Promises'
  BY <1>3 DEF AbortReplica
<1>4. ASSUME NEW j \in Replicas, ClaimReplica(j) PROVE Promises'
  BY <1>4 DEF ClaimReplica
<1>5. ASSUME NEW j \in Replicas, CheckReady(j) PROVE Promises'
  BY <1>5 DEF CheckReady
<1>6. ASSUME NEW j \in Replicas, BeginInitialization(j) PROVE Promises'
  BY <1>6 DEF BeginInitialization
<1>7. ASSUME NEW j \in Replicas, InitRepository(j) PROVE Promises'
  BY <1>7 DEF InitRepository
<1>8. ASSUME NEW j \in Replicas, BindRepository(j) PROVE Promises'
  BY <1>8 DEF BindRepository
<1>9. ASSUME NEW j \in Replicas, CopySnapshot(j) PROVE Promises'
  BY <1>9 DEF CopySnapshot
<1>10. ASSUME NEW j \in Replicas, FinishReplica(j) PROVE Promises'
  BY <1>10 DEF FinishReplica
<1>11. ASSUME NEW j \in Replicas, FailReplica(j) PROVE Promises'
  BY <1>11 DEF FailReplica, Effects, FailedStatuses
<1>12. ASSUME NEW j \in Replicas, AbandonReplica(j) PROVE Promises'
  BY <1>12 DEF AbandonReplica
<1>13. ASSUME NEW j \in Replicas, WriterEnds(j) PROVE Promises'
  BY <1>13 DEF WriterEnds, Effects
<1>14. ASSUME NEW d \in Destinations, Detach(d) PROVE Promises'
  BY <1>14 DEF Detach
<1>15. CASE Interruption
  BY <1>15 DEF Interruption, Interrupted
<1>16. CASE UNCHANGED replicationVars
  BY <1>16 DEF replicationVars
<1>17. QED
  BY <1>1, <1>2, <1>3, <1>4, <1>5, <1>6, <1>7, <1>8, <1>9,
     <1>10, <1>11, <1>12, <1>13, <1>14, <1>15, <1>16 DEF ReplicationNext
-----------------------------------------------------------------------------
(* Theorems. *)

\* Every reachable state satisfies the invariant.
THEOREM ReplicationInvHolds == ReplicationSpec => []ReplicationInv
BY ReplicationInvInit, ReplicationInvNext, PTL DEF ReplicationSpec

\* Managed replication keeps the creation of a repository under the job that began it.
THEOREM CreationIsHeldHolds == ReplicationSpec => []CreationIsHeld
BY ReplicationInvHolds, PTL DEF ReplicationInv

\* A job that the store calls completed has its snapshot in a bound repository.
THEOREM CompletedIsCopiedHolds == ReplicationSpec => []CompletedIsCopied
BY ReplicationInvHolds, PTL DEF ReplicationInv
-----------------------------------------------------------------------------
(* The refinement of DurableClaim. *)

\* A step that gives job j another status moves it from its phase to the new one.
LEMMA PhaseMoves ==
    ASSUME ReplicationTypeOK, NEW S \in SUBSET Replicas, NEW from, NEW to,
           \A j \in S : ReplicaPhase(j) = from /\ ReplicaPhase(j)' = to,
           \A j \in Replicas \ S : replicas'[j].status = replicas[j].status
    PROVE  ReplicaTable!Moves(S, from, to)
BY DEF ReplicaTable!Moves, replicaPhases, ReplicaPhase

\* A step that changes no status and no process changes nothing of the claims.
LEMMA ClaimStutters ==
    ASSUME \A j \in Replicas : replicas'[j].status = replicas[j].status, UNCHANGED atWork
    PROVE  UNCHANGED ReplicaTable!claimVars
BY DEF ReplicaTable!claimVars, replicaPhases, ReplicaPhase

\* Every step of managed replication is a step of DurableClaim or leaves it alone.
LEMMA ReplicationImplementsStep ==
    ReplicationInv /\ ReplicationInv' /\ [ReplicationNext]_replicationVars
      => [ReplicaTable!ClaimNext]_ReplicaTable!claimVars
<1> SUFFICES ASSUME ReplicationInv, ReplicationInv', [ReplicationNext]_replicationVars
             PROVE  [ReplicaTable!ClaimNext]_ReplicaTable!claimVars
  OBVIOUS
<1>0. ReplicationTypeOK /\ ReplicationTypeOK' /\ SlotIsOne /\ SlotIsOne' /\ ExecutorOwns
  BY DEF ReplicationInv
<1> USE <1>0, ReplicationAssumption DEF ReplicationTypeOK
<1> DEFINE Goal == [ReplicaTable!ClaimNext]_ReplicaTable!claimVars
<1>1. ASSUME NEW j \in Replicas, AdmitReplica(j) PROVE Goal
  <2>1. ReplicaTable!Moves({j}, "new", "open")
    BY <1>1, PhaseMoves DEF AdmitReplica, ReplicaPhase
  <2>2. UNCHANGED atWork
    BY <1>1 DEF AdmitReplica, atWork, SlotOfRunning
  <2>3. QED
    BY <2>1, <2>2 DEF ReplicaTable!ClaimNext, ReplicaTable!Accept
<1>2. ASSUME NEW j \in Replicas, RetryReplica(j) PROVE Goal
  <2>1. ReplicaTable!Moves({j}, "settled", "open")
    BY <1>2, PhaseMoves DEF RetryReplica, MayRetry, ReplicaPhase
  <2>2. UNCHANGED atWork
    BY <1>2 DEF RetryReplica, MayRetry, atWork, SlotOfRunning
  <2>3. QED
    BY <2>1, <2>2 DEF ReplicaTable!ClaimNext, ReplicaTable!Reopen
<1>3. ASSUME NEW j \in Replicas, ClaimReplica(j) PROVE Goal
  <2>1. ReplicaTable!Moves({j}, "open", "held")
    BY <1>3, PhaseMoves DEF ClaimReplica, ReplicaPhase
  <2>2. atWork = {} /\ atWork' = atWork \cup {j}
    BY <1>3 DEF ClaimReplica, atWork, SlotOfRunning, Slot, SlotIsOne
  <2>3. QED
    BY <2>1, <2>2 DEF ReplicaTable!ClaimNext, ReplicaTable!Begin
<1>4. ASSUME NEW j \in Replicas, FinishReplica(j) PROVE Goal
  <2>1. executor.job = j /\ replicas[j].status = "running" /\ j \notin writers
    BY <1>4 DEF FinishReplica, At, ExecutorOwns
  <2>2. ReplicaTable!Moves({j}, "held", "done")
    BY <1>4, <2>1, PhaseMoves DEF FinishReplica, ReplicaPhase
  <2>3. atWork' = atWork \ {j}
    BY <1>4, <2>1 DEF FinishReplica, atWork, SlotOfRunning
  <2>4. QED
    BY <2>2, <2>3 DEF ReplicaTable!ClaimNext, ReplicaTable!Settle
<1>5. ASSUME NEW j \in Replicas, FailReplica(j) PROVE Goal
  <2>1. PICK stopped \in BOOLEAN, s \in {"failed", "cancelled", "uncertain"} :
          /\ s \in FailedStatuses(j, stopped)
          /\ replicas' = [replicas EXCEPT ![j].status = s]
          /\ writers' = IF stopped THEN writers \ {j} ELSE writers
    BY <1>5 DEF FailReplica
  <2>2. replicas[j].status = "running"
    BY <1>5 DEF FailReplica, ExecutorOwns
  <2>3. CASE s = "uncertain"
    <3>1. ReplicaTable!Moves({j}, "held", "doubt")
      BY <2>1, <2>2, <2>3, PhaseMoves DEF ReplicaPhase
    <3>2. \E T \in SUBSET {j} : atWork' = atWork \ T
      <4>1. CASE j \in writers'
        <5>1. atWork' = atWork \ {}
          BY <2>1, <2>2, <2>3, <4>1 DEF atWork, SlotOfRunning
        <5>2. QED
          BY <5>1
      <4>2. CASE j \notin writers'
        <5>1. atWork' = atWork \ {j}
          BY <2>1, <2>2, <2>3, <4>2 DEF atWork, SlotOfRunning
        <5>2. QED
          BY <5>1
      <4>3. QED
        BY <4>1, <4>2
    <3>3. PICK T \in SUBSET {j} : atWork' = atWork \ T
      BY <3>2
    <3>4. ReplicaTable!Lose({j}, T) /\ {j} \in SUBSET Replicas /\ T \in SUBSET Replicas
      BY <3>1, <3>3 DEF ReplicaTable!Lose
    <3>5. QED
      BY <3>4 DEF ReplicaTable!ClaimNext
  <2>4. CASE s # "uncertain"
    <3>1. stopped
      BY <2>1, <2>4 DEF FailedStatuses
    <3>2. ReplicaTable!Moves({j}, "held", "settled")
      BY <2>1, <2>2, <2>4, PhaseMoves DEF ReplicaPhase
    <3>3. atWork' = atWork \ {j}
      BY <2>1, <2>2, <2>4, <3>1 DEF atWork, SlotOfRunning
    <3>4. QED
      BY <3>2, <3>3 DEF ReplicaTable!ClaimNext, ReplicaTable!Settle
  <2>5. QED
    BY <2>3, <2>4
<1>6. ASSUME NEW j \in Replicas, WriterEnds(j) PROVE Goal
  <2>1. \A k \in Replicas : replicas'[k].status = replicas[k].status
    BY <1>6 DEF WriterEnds
  <2>2. CASE replicas[j].status = "running"
    <3>1. UNCHANGED atWork
      BY <1>6, <2>2 DEF WriterEnds, atWork, SlotOfRunning
    <3>2. QED
      BY <2>1, <3>1, ClaimStutters
  <2>3. CASE replicas[j].status # "running"
    <3>1. replicas[j].status = "uncertain"
      BY <1>6, <2>3 DEF WriterEnds, SlotIsOne, Slot
    <3>2. replicaPhases[j] = "doubt" /\ UNCHANGED replicaPhases
      BY <2>1, <3>1 DEF replicaPhases, ReplicaPhase
    <3>3. atWork' = atWork \ {j}
      BY <1>6, <2>3 DEF WriterEnds, atWork, SlotOfRunning
    <3>4. QED
      BY <3>2, <3>3 DEF ReplicaTable!ClaimNext, ReplicaTable!Stop
  <2>4. QED
    BY <2>2, <2>3
<1>7. CASE Interruption
  <2> DEFINE S == SlotOfRunning
  <2>1. \A k \in Replicas : replicas'[k].status =
          IF replicas[k].status = "running" THEN "uncertain" ELSE replicas[k].status
    BY <1>7 DEF Interruption, Interrupted
  <2>2. ReplicaTable!Moves(S, "held", "doubt")
    BY <2>1, PhaseMoves DEF ReplicaPhase, SlotOfRunning
  <2>3. atWork' = atWork \ (S \ writers)
    BY <1>7, <2>1 DEF Interruption, atWork, SlotOfRunning
  <2>4. ReplicaTable!Lose(S, S \ writers) /\ S \in SUBSET Replicas
        /\ S \ writers \in SUBSET Replicas
    BY <2>2, <2>3 DEF ReplicaTable!Lose, SlotOfRunning
  <2>5. QED
    BY <2>4 DEF ReplicaTable!ClaimNext
<1>8. ASSUME NEW j \in Replicas,
             \/ CheckReady(j) \/ BeginInitialization(j) \/ InitRepository(j)
             \/ BindRepository(j) \/ CopySnapshot(j)
      PROVE  Goal
  <2>1. replicas' = replicas /\ replicas[j].status = "running"
    BY <1>8 DEF CheckReady, BeginInitialization, InitRepository, BindRepository, CopySnapshot,
                At, ExecutorOwns
  <2>2. writers' \in {writers \cup {j}, writers \ {j}}
    BY <1>8 DEF CheckReady, BeginInitialization, InitRepository, BindRepository, CopySnapshot
  <2>3. UNCHANGED atWork
    BY <2>1, <2>2 DEF atWork, SlotOfRunning
  <2>4. QED
    BY <2>1, <2>3, ClaimStutters
<1>9. CASE \/ \E j \in Replicas : AbortReplica(j) \/ AbandonReplica(j)
           \/ \E d \in Destinations : Detach(d)
           \/ UNCHANGED replicationVars
  <2>1. UNCHANGED <<replicas, writers>>
    BY <1>9 DEF AbortReplica, AbandonReplica, Detach, replicationVars
  <2>2. QED
    BY <2>1, ClaimStutters DEF atWork, SlotOfRunning
<1>10. QED
  BY <1>1, <1>2, <1>3, <1>4, <1>5, <1>6, <1>7, <1>8, <1>9 DEF ReplicationNext

\* Managed replication implements DurableClaim, whatever crashes, fails or lives on: a
\* claim is taken only when no process of an earlier one can be writing.
THEOREM ReplicationImplementsClaim == ReplicationSpec => ReplicaClaim
<1>1. ReplicationInit => ReplicaTable!ClaimInit
  BY DEF ReplicationInit, ReplicaTable!ClaimInit, replicaPhases, ReplicaPhase, atWork,
         SlotOfRunning
<1>2. QED
  BY <1>1, ReplicationImplementsStep, ReplicationInvHolds, PTL
     DEF ReplicationSpec, ReplicaClaim, ReplicaTable!ClaimSpec
=============================================================================
