-------------------------- MODULE LocalBackupProofs --------------------------
(***************************************************************************)
(* For any number of backups, plans, attempts, cancellations, aborts and    *)
(* restarts, and a queue of any length: the safety properties of            *)
(* LocalBackup.                                                             *)
(***************************************************************************)
EXTENDS LocalBackup, SequenceTheorems, TLAPS

\* Nothing was cancelled and no script aborted.
Calm == cancels = 0 /\ aborts = 0

\* Nobody has settled the backup yet, and nobody is about to.
Unsettled(b) ==
    /\ Exists(b) => rows[b].inProgress
    /\ \A e \in completing : e.backup # b

\* A waiting job counts the attempts of its backup, which is not being executed.
JobFits(j) ==
    /\ j.name = "Backup" => /\ j.payload \in known
                            /\ starts[j.payload] = j.attempts
                            /\ exec.job # NoJob => j.payload # exec.job.payload
                            /\ Calm => Unsettled(j.payload)
    /\ j.name = "RecoveryTest" => j.payload = EmptyObject

QueueInv ==
    /\ \A i \in DOMAIN queue : JobFits(queue[i])
    /\ \A i, k \in DOMAIN queue :
          queue[i].name = "Backup" /\ queue[i].payload = queue[k].payload => i = k

\* The execution has a job; until its outcome is out, nobody has settled the backup; a
\* success on its way has its handler.
ExecInv ==
    /\ exec.pc = "idle" <=> exec.job = NoJob
    /\ runningJob # NoJob => exec.job = runningJob
    /\ exec.pc = "recovery" => exec.job.name = "RecoveryTest" /\ exec.job.payload = EmptyObject
    /\ exec.pc \notin {"idle", "recovery"} =>
          /\ exec.job.name = "Backup" /\ Current \in known
          /\ starts[Current] = exec.job.attempts + 1
    /\ exec.pc = "dryRun" => Exists(Current)
    /\ \/ exec.pc \in Phases \cup {"starting", "failing"}
       \/ exec.pc = "scripts" /\ ~PermanentlyFailed
       => (Calm => Unsettled(Current))
    /\ exec.pc = "ending" /\ rows[Current].inProgress =>
          \E e \in completing : e.backup = Current

\* Rows belong to backups that were asked for; without a cancellation nothing is cancelled.
RowInv ==
    /\ known \subseteq Backups /\ cancelling \subseteq known
    /\ \A e \in completing : e.backup \in known
    /\ \A b \in Backups : rows[b].inProgress => Exists(b)
    /\ cancels = 0 => /\ cancelled = {} /\ cancelling = {}
                      /\ \A b \in Backups : ~WasCancelled(b)

BoundsCounted == cancels \in Nat /\ aborts \in Nat

LocalInv ==
    /\ TypeOK /\ BoundsCounted /\ QueueInv /\ ExecInv /\ RowInv
    /\ OneBackupInProgress /\ ActiveRowHasWorker

-----------------------------------------------------------------------------
(* Records. *)

RowType  == [status : Status, inProgress : BOOLEAN]
ExecType == [pc : Pcs, job : Jobs \cup {NoJob}, retryable : BOOLEAN]

Settled(status) == [status |-> status, inProgress |-> FALSE]
Begun(status)   == [status |-> status, inProgress |-> TRUE]

\* Rows that are settled or begun.
LEMMA RowIs ==
    ASSUME NEW status \in Status
    PROVE  /\ Settled(status) \in RowType /\ Settled(status).status = status
           /\ ~Settled(status).inProgress
           /\ Begun(status) \in RowType /\ Begun(status).status = status
           /\ Begun(status).inProgress
<1>1. \A v \in BOOLEAN : LET row == [status |-> status, inProgress |-> v]
                        IN  row \in RowType /\ row.status = status /\ row.inProgress = v
  BY DEF RowType
<1>2. QED
  BY <1>1, Zenon DEF Settled, Begun

\* The idle processor.
LEMMA IdleIs == IdleExec \in ExecType /\ IdleExec.pc = "idle" /\ IdleExec.job = NoJob
<1>1. \A v \in BOOLEAN : LET x == [pc |-> "idle", job |-> NoJob, retryable |-> v]
                        IN  x \in ExecType /\ x.pc = "idle" /\ x.job = NoJob
  BY DEF ExecType, Pcs
<1>2. QED
  BY <1>1, Zenon DEF IdleExec

\* The processor with a job it has just taken.
LEMMA TakenIs ==
    ASSUME NEW job \in Jobs, NEW pc \in Pcs
    PROVE  LET x == [IdleExec EXCEPT !.pc = pc, !.job = job]
           IN  x \in ExecType /\ x.pc = pc /\ x.job = job
  BY IdleIs DEF ExecType

\* A new job, and a job whose attempt has failed.
LEMMA JobIs ==
    /\ \A b \in Backups : LET j == NewJob("Backup", b)
          IN  j \in Jobs /\ j.name = "Backup" /\ j.payload = b /\ j.attempts = 0
    /\ LET j == NewJob("RecoveryTest", Undefined)
       IN  j \in Jobs /\ j.name = "RecoveryTest" /\ j.payload = EmptyObject
    /\ \A job \in Jobs : job.attempts + 1 < MaxAttempts =>
          LET j == [job EXCEPT !.attempts = @ + 1, !.delayed = TRUE]
          IN  /\ j \in Jobs /\ j.name = job.name /\ j.payload = job.payload
              /\ j.attempts = job.attempts + 1
<1>0. 0 \in 0..MaxAttempts - 1
  BY LocalBackupAssumption
<1>1. \A name \in Names, payload \in Backups \cup {EmptyObject}, v \in BOOLEAN :
         LET j == [name |-> name, payload |-> payload, attempts |-> 0, delayed |-> v]
         IN  j \in Jobs /\ j.name = name /\ j.payload = payload /\ j.attempts = 0
  BY <1>0 DEF Jobs
<1>2. ASSUME NEW b \in Backups
      PROVE  LET j == NewJob("Backup", b)
             IN  j \in Jobs /\ j.name = "Backup" /\ j.payload = b /\ j.attempts = 0
  <2>1. "Backup" \in Names /\ b \in Backups \cup {EmptyObject} /\ b # Undefined
    BY LocalBackupAssumption DEF Names
  <2>2. QED
    BY <1>1, <2>1, Zenon DEF NewJob
<1>3. LET j == NewJob("RecoveryTest", Undefined)
      IN  j \in Jobs /\ j.name = "RecoveryTest" /\ j.payload = EmptyObject
  <2>1. "RecoveryTest" \in Names /\ EmptyObject \in Backups \cup {EmptyObject}
    BY DEF Names
  <2>2. QED
    BY <1>1, <2>1, Zenon DEF NewJob
<1>4. ASSUME NEW job \in Jobs, job.attempts + 1 < MaxAttempts
      PROVE  LET j == [job EXCEPT !.attempts = @ + 1, !.delayed = TRUE]
             IN  /\ j \in Jobs /\ j.name = job.name /\ j.payload = job.payload
                 /\ j.attempts = job.attempts + 1
  <2>1. \A v \in BOOLEAN : LET j == [job EXCEPT !.attempts = @ + 1, !.delayed = v]
             IN  /\ j \in Jobs /\ j.name = job.name /\ j.payload = job.payload
                 /\ j.attempts = job.attempts + 1
    <3>1. job.attempts + 1 \in 0..MaxAttempts - 1
      BY <1>4, LocalBackupAssumption DEF Jobs
    <3>2. QED
      BY <3>1 DEF Jobs
  <2>2. QED
    BY <2>1, Zenon
<1>5. QED
  BY <1>2, <1>3, <1>4, Zenon
-----------------------------------------------------------------------------
(* The queue. *)

\* What is left to show of a step that leaves the queue alone.
LEMMA QueueKept ==
    ASSUME LocalInv,
           queue' = queue, starts' = starts, known' = known, notices' \in [Backups -> Nat],
           runningJob' \in {runningJob, NoJob}, exec' \in ExecType, exec'.job \in {exec.job, NoJob},
           rows' \in [Backups -> RowType], \A b \in Backups : Exists(b)' => b \in known,
           completing' \subseteq [backup : known, success : BOOLEAN],
           cancelled' \subseteq Backups, cancelling' \subseteq known,
           cancels' \in Nat, aborts' \in Nat, Calm' => Calm,
           \A b \in Backups : /\ Calm' /\ Unsettled(b) /\ (exec.job # NoJob => b # Current)
                             => Unsettled(b)'
    PROVE  TypeOK' /\ BoundsCounted' /\ QueueInv'
<1>0. known \subseteq Backups /\ queue \in Seq(Jobs)
  BY DEF LocalInv, RowInv, TypeOK
<1>1. TypeOK'
  BY <1>0 DEF LocalInv, TypeOK, ExecType, RowType
<1>2. ASSUME NEW j \in Jobs, JobFits(j) PROVE JobFits(j)'
  BY <1>0, <1>2 DEF JobFits, Current
<1>3. QueueInv'
  BY <1>0, <1>2 DEF LocalInv, QueueInv
<1>4. QED
  BY <1>1, <1>3 DEF BoundsCounted

\* What the invariant says of the state, by variable.
LEMMA Facts ==
    ASSUME LocalInv
    PROVE  /\ queue \in Seq(Jobs) /\ exec \in ExecType /\ rows \in [Backups -> RowType]
           /\ notices \in [Backups -> Nat] /\ starts \in [Backups -> 0..MaxAttempts]
           /\ known \subseteq Backups /\ cancelling \subseteq known /\ cancelled \subseteq Backups
           /\ completing \subseteq [backup : known, success : BOOLEAN]
           /\ cancels \in Nat /\ aborts \in Nat
           /\ \A b \in Backups : Exists(b) => b \in known
           /\ exec.job # NoJob => exec.job \in Jobs
           /\ exec.pc \notin {"idle", "recovery"} =>
                exec.job \in Jobs /\ exec.job.name = "Backup" /\ Current \in known /\ Current \in Backups
<1>1. TypeOK /\ BoundsCounted /\ RowInv /\ ExecInv
  BY DEF LocalInv
<1>2. exec \in ExecType /\ (exec.job # NoJob => exec.job \in Jobs)
  BY <1>1 DEF TypeOK, ExecType
<1>3. completing \subseteq [backup : known, success : BOOLEAN]
  BY <1>1 DEF TypeOK, RowInv
<1>4. known \subseteq Backups /\ cancelling \subseteq known
  BY <1>1 DEF RowInv
<1>5. exec.pc \notin {"idle", "recovery"} =>
        exec.job \in Jobs /\ exec.job.name = "Backup" /\ Current \in known /\ Current \in Backups
  BY <1>1, <1>2, <1>4 DEF ExecInv
<1>6. QED
  BY <1>1, <1>2, <1>3, <1>4, <1>5 DEF TypeOK, RowType, BoundsCounted

\* The execution ends and nothing is written.
LEMMA Returned ==
    ASSUME LocalInv, exec.job # NoJob, queue' = queue, runningJob' = NoJob, exec' = IdleExec,
           cancelled' \subseteq cancelled,
           UNCHANGED <<rows, completing, cancelling, cancels, historyVars>>,
           aborts' \in {aborts, aborts + 1},
           cancels = 0 /\ Current \in Backups /\ rows[Current].inProgress =>
              \E e \in completing : e.backup = Current
    PROVE  LocalInv'
<1>0. /\ UNCHANGED <<notices, starts, known>> /\ (Calm' => Calm) /\ aborts' \in Nat
      /\ \A b : Unsettled(b)' <=> Unsettled(b)
      /\ exec'.pc = "idle" /\ exec'.job = NoJob /\ exec' \in ExecType
  BY Facts, IdleIs DEF historyVars, Calm, Unsettled, Exists
<1>1. TypeOK' /\ BoundsCounted' /\ QueueInv'
  <2>1. \A b \in Backups : Exists(b)' => b \in known
    BY Facts DEF Exists
  <2>2. QED
    BY <1>0, <2>1, Facts, QueueKept
<1>2. ExecInv'
  BY <1>0 DEF ExecInv, Phases
<1>3. RowInv'
  BY <1>0 DEF LocalInv, RowInv, Exists, WasCancelled
<1>4. OneBackupInProgress'
  BY <1>0 DEF LocalInv, OneBackupInProgress, Calm
<1>5. ActiveRowHasWorker'
  <2> SUFFICES ASSUME cancels = 0, NEW b \in Backups, rows[b].inProgress
               PROVE  (\E j \in Waiting : j.payload = b) \/ \E e \in completing : e.backup = b
    BY DEF ActiveRowHasWorker, Waiting
  <2>1. \/ \E j \in Waiting : j.payload = b
        \/ exec.job.payload = b
        \/ \E e \in completing : e.backup = b
    BY DEF LocalInv, ActiveRowHasWorker
  <2>2. QED
    BY <2>1 DEF Current
<1>6. QED
  BY <1>1, <1>2, <1>3, <1>4, <1>5 DEF LocalInv

\* The execution goes on; what it writes is about its own backup.
LEMMA Advanced ==
    ASSUME LocalInv, exec.pc \notin {"idle", "recovery"},
           UNCHANGED <<queue, runningJob, cancelled, cancelling, cancels, historyVars>>,
           exec' \in ExecType, exec'.job = exec.job, exec'.pc \notin {"idle", "recovery"},
           NEW row \in RowType, rows' = [rows EXCEPT ![Current] = row],
           row.inProgress => row.status # "none",
           row.status = "cancelled" => rows[Current].status = "cancelled",
           completing' \subseteq completing \cup [backup : {Current}, success : BOOLEAN],
           completing \subseteq completing',
           aborts' \in {aborts, aborts + 1},
           exec'.pc = "dryRun" => row.status # "none",
           \/ exec'.pc \in Phases \cup {"starting", "failing"}
           \/ exec'.pc = "scripts" /\ ~PermanentlyFailed'
           => (Calm' => Unsettled(Current)'),
           exec'.pc = "ending" /\ row.inProgress => \E e \in completing' : e.backup = Current,
           Calm' /\ row.inProgress /\ ~rows[Current].inProgress =>
              \A b \in Backups : PlanOf[b] = PlanOf[Current] => ~rows[b].inProgress
    PROVE  LocalInv'
<1>0. /\ UNCHANGED <<notices, starts, known>> /\ (Calm' => Calm) /\ aborts' \in Nat
      /\ Current' = Current /\ exec.job # NoJob
  BY Facts, NoJobAssumption DEF historyVars, Calm, Current
<1>1. /\ rows' \in [Backups -> RowType] /\ rows'[Current] = row
      /\ \A b \in Backups \ {Current} : rows'[b] = rows[b]
  BY Facts
<1>2. TypeOK' /\ BoundsCounted' /\ QueueInv'
  <2>1. \A b \in Backups : Exists(b)' => b \in known
    BY <1>1, Facts DEF Exists
  <2>2. ASSUME NEW b \in Backups, Unsettled(b), b # Current PROVE Unsettled(b)'
    BY <1>1, <2>2 DEF Unsettled, Exists
  <2>3. completing' \subseteq [backup : known, success : BOOLEAN]
    BY Facts
  <2>4. QED
    BY <1>0, <1>1, <2>1, <2>2, <2>3, Facts, QueueKept
<1>3. ExecInv'
  <2>0. ExecInv
    BY DEF LocalInv
  <2>1. /\ exec'.pc = "idle" <=> exec'.job = NoJob
        /\ runningJob' # NoJob => exec'.job = runningJob'
        /\ exec'.job.name = "Backup" /\ Current' \in known' /\ starts'[Current'] = exec'.job.attempts + 1
    BY <1>0, <2>0 DEF ExecInv
  <2>2. exec'.pc = "dryRun" => Exists(Current)'
    BY <1>0, <1>1 DEF Exists
  <2>3. exec'.pc = "ending" /\ rows'[Current'].inProgress => \E e \in completing' : e.backup = Current'
    BY <1>0, <1>1
  <2>4. QED
    BY <1>0, <2>1, <2>2, <2>3 DEF ExecInv
<1>4. RowInv'
  BY <1>0, <1>1, Facts DEF LocalInv, RowInv, Exists, WasCancelled
<1>5. OneBackupInProgress'
  <2> SUFFICES ASSUME Calm', NEW b \in Backups, NEW d \in Backups, PlanOf[b] = PlanOf[d],
                      rows'[b].inProgress, rows'[d].inProgress
               PROVE  b = d
    BY DEF OneBackupInProgress, Calm
  <2>1. CASE row.inProgress /\ ~rows[Current].inProgress
    BY <1>0, <1>1, <2>1 DEF LocalInv, OneBackupInProgress, Calm
  <2>2. CASE ~(row.inProgress /\ ~rows[Current].inProgress)
    BY <1>0, <1>1, <2>2 DEF LocalInv, OneBackupInProgress, Calm
  <2>3. QED
    BY <2>1, <2>2
<1>6. ActiveRowHasWorker'
  <2> SUFFICES ASSUME cancels = 0, NEW b \in Backups, rows'[b].inProgress
               PROVE  \/ \E j \in Waiting : j.payload = b
                      \/ exec.job # NoJob /\ exec.job.payload = b
                      \/ \E e \in completing' : e.backup = b
    BY DEF ActiveRowHasWorker, Waiting
  <2>1. CASE b = Current
    BY <1>0, <2>1 DEF Current
  <2>2. CASE b # Current
    BY <1>1, <2>2 DEF LocalInv, ActiveRowHasWorker
  <2>3. QED
    BY <2>1, <2>2
<1>7. QED
  BY <1>2, <1>3, <1>4, <1>5, <1>6 DEF LocalInv

-----------------------------------------------------------------------------
(* Steps of an execution. *)

\* Rows that are written as they are.
LEMMA SameRow ==
    ASSUME LocalInv, exec.pc \notin {"idle", "recovery"}
    PROVE  /\ rows[Current] \in RowType /\ rows = [rows EXCEPT ![Current] = rows[Current]]
           /\ rows[Current].inProgress => rows[Current].status # "none"
<1>1. rows \in [Backups -> RowType] /\ Current \in Backups
  BY Facts
<1>2. QED
  BY <1>1 DEF LocalInv, RowInv, Exists

\* A recovery test runs.
LEMMA RecoveryKeeps ==
    ASSUME LocalInv, RunRecoveryTest
    PROVE  LocalInv'
<1>1. /\ exec.pc = "recovery" /\ exec' = IdleExec /\ queue' = queue /\ runningJob' = NoJob
      /\ UNCHANGED <<cancelled, cancelling, completing, rows, historyVars, cancels, aborts>>
  BY DEF RunRecoveryTest, CompleteJob, boundVars
<1>2. exec.job # NoJob /\ Current \notin Backups
  BY <1>1, LocalBackupAssumption DEF LocalInv, ExecInv, Current
<1>3. QED
  BY <1>1, <1>2, Returned

\* backup_init, and the wait for backup_created.
LEMMA InitKeeps ==
    ASSUME LocalInv, EmitInit
    PROVE  LocalInv'
<1>0. /\ exec.pc = "starting"
      /\ UNCHANGED <<queue, runningJob, cancelled, cancelling, completing, historyVars, cancels, aborts>>
  BY DEF EmitInit, queueVars, boundVars
<1>a. exec \in ExecType /\ rows \in [Backups -> RowType] /\ Current \in Backups
  BY <1>0, Facts
<1>b. (Calm' => Calm) /\ (Calm => Unsettled(Current)) /\ aborts' \in {aborts, aborts + 1}
  BY <1>0 DEF Calm, LocalInv, ExecInv
<1>1. CASE MayInit(Current)
  <2> DEFINE row == Begun(IF Exists(Current) THEN "retrying" ELSE "initializing")
  <2>1. row \in RowType /\ row.status \in {"retrying", "initializing"} /\ row.inProgress
    BY RowIs, Zenon DEF Status
  <2>2. rows' = [rows EXCEPT ![Current] = row] /\ exec' = [exec EXCEPT !.pc = "dryRun"]
    BY <1>1, Zenon DEF EmitInit, InitRow, Begun
  <2> HIDE DEF row
  <2>3. exec' \in ExecType /\ exec'.job = exec.job /\ exec'.pc = "dryRun"
    BY <1>a, <2>2 DEF ExecType, Pcs, Phases
  <2>4. Calm' => Unsettled(Current)'
    BY <1>0, <1>a, <1>b, <2>1, <2>2, <2>3 DEF Unsettled, Current
  <2>5. Calm' /\ ~rows[Current].inProgress =>
           \A b \in Backups : PlanOf[b] = PlanOf[Current] => ~rows[b].inProgress
    BY <1>1, <1>b DEF MayInit, HasActiveBackups, Unsettled
  <2>6. QED
    BY <1>0, <1>b, <2>1, <2>2, <2>3, <2>4, <2>5, Advanced
<1>2. CASE ~MayInit(Current)
  <2>1. rows' = rows /\ exec' = [exec EXCEPT !.pc = "unconfirmed"]
    BY <1>2 DEF EmitInit
  <2>2. exec' \in ExecType /\ exec'.job = exec.job /\ exec'.pc = "unconfirmed"
    BY <1>a, <2>1 DEF ExecType, Pcs, Phases
  <2>3. Calm' => Unsettled(Current)'
    BY <1>0, <1>b, <2>1, <2>2 DEF Unsettled, Current, Exists
  <2>4. QED
    BY <1>0, <1>b, <2>1, <2>2, <2>3, Advanced, SameRow
<1>3. QED
  BY <1>1, <1>2

\* backup_start.
LEMMA DryRunKeeps ==
    ASSUME LocalInv, DryRunEnds
    PROVE  LocalInv'
<1>0. /\ exec.pc = "dryRun"
      /\ UNCHANGED <<queue, runningJob, cancelled, cancelling, completing, historyVars, cancels, aborts>>
  BY DEF DryRunEnds, queueVars, boundVars
<1>a. exec \in ExecType /\ rows \in [Backups -> RowType] /\ Current \in Backups
  BY <1>0, Facts
<1>b. /\ (Calm' => Calm) /\ (Calm => Unsettled(Current)) /\ aborts' \in {aborts, aborts + 1}
      /\ Exists(Current)
  BY <1>0 DEF Calm, LocalInv, ExecInv, Phases
<1> DEFINE row == [rows[Current] EXCEPT !.status = "started"]
<1>1. row \in RowType /\ row.status = "started" /\ row.inProgress = rows[Current].inProgress
  BY <1>a DEF RowType, Status
<1>2. /\ rows' = [rows EXCEPT ![Current] = row]
      /\ exec' = [exec EXCEPT !.pc = "preBackup"]
  BY DEF DryRunEnds
<1> HIDE DEF row
<1>3. exec' \in ExecType /\ exec'.job = exec.job /\ exec'.pc = "preBackup"
  BY <1>a, <1>2 DEF ExecType, Pcs, Phases
<1>4. Calm' => Unsettled(Current)'
  BY <1>0, <1>a, <1>b, <1>1, <1>2, <1>3 DEF Unsettled, Current
<1>5. QED
  BY <1>0, <1>b, <1>1, <1>2, <1>3, <1>4, Advanced

\* The end of the pre-backup phase and of restic.
LEMMA PhaseKeeps ==
    ASSUME LocalInv, PhaseEnds
    PROVE  LocalInv'
<1>0. /\ exec.pc \in {"preBackup", "restic"}
      /\ UNCHANGED <<cancelling, completing, rows, historyVars, cancels, aborts>>
  BY DEF PhaseEnds, boundVars
<1>a. exec \in ExecType /\ Current \in Backups /\ exec.job # NoJob
  BY <1>0, Facts, NoJobAssumption
<1>b. (Calm' => Calm) /\ (Calm => Unsettled(Current)) /\ aborts' \in {aborts, aborts + 1}
  BY <1>0 DEF Calm, LocalInv, ExecInv, Phases
<1>1. CASE Current \notin cancelled
  <2>1. /\ exec' = [exec EXCEPT !.pc = IF @ = "preBackup" THEN "restic" ELSE "postBackup"]
        /\ UNCHANGED <<queue, runningJob, cancelled>>
    BY <1>1 DEF PhaseEnds, queueVars
  <2>2. exec' \in ExecType /\ exec'.job = exec.job /\ exec'.pc \in {"restic", "postBackup"}
    BY <1>a, <2>1 DEF ExecType, Pcs, Phases
  <2>3. Calm' => Unsettled(Current)'
    BY <1>0, <1>b, <2>1, <2>2 DEF Unsettled, Current, Exists
  <2>4. QED
    BY <1>0, <1>b, <2>1, <2>2, <2>3, Advanced, SameRow
<1>2. CASE Current \in cancelled
  <2>1. cancels # 0
    BY <1>2 DEF LocalInv, RowInv
  <2>2. queue' = queue /\ runningJob' = NoJob /\ exec' = IdleExec /\ cancelled' \subseteq cancelled
    BY <1>2 DEF PhaseEnds, TaskReturned, CompleteJob
  <2>3. QED
    BY <1>0, <1>a, <1>b, <2>1, <2>2, Returned
<1>3. QED
  BY <1>1, <1>2

\* backup_complete of a success.
LEMMA SuccessKeeps ==
    ASSUME LocalInv, EmitSuccess
    PROVE  LocalInv'
<1>0. /\ exec.pc = "postBackup" /\ exec' = [exec EXCEPT !.pc = "ending"]
      /\ UNCHANGED <<queue, runningJob, cancelled, cancelling, rows, historyVars, cancels, aborts>>
      /\ CompleteEvent(Current, TRUE)
  BY DEF EmitSuccess, queueVars, boundVars
<1>a. exec \in ExecType /\ Current \in Backups
  BY <1>0, Facts
<1> DEFINE e == [backup |-> Current, success |-> TRUE]
<1>1. e \in [backup : {Current}, success : BOOLEAN] /\ e.backup = Current
  <2>1. \A v \in BOOLEAN : LET x == [backup |-> Current, success |-> v]
                          IN  x \in [backup : {Current}, success : BOOLEAN] /\ x.backup = Current
    OBVIOUS
  <2>2. QED
    BY <2>1, Zenon
<1>2. completing' = IF ~WasFinalized(Current) THEN completing \cup {e} ELSE completing
  BY <1>0, Zenon DEF CompleteEvent
<1> HIDE DEF e
<1>3. exec' \in ExecType /\ exec'.job = exec.job /\ exec'.pc = "ending"
  BY <1>0, <1>a DEF ExecType, Pcs
<1>4. rows[Current].inProgress => \E x \in completing' : x.backup = Current
  BY <1>1, <1>2 DEF WasFinalized
<1>5. /\ completing' \subseteq completing \cup [backup : {Current}, success : BOOLEAN]
      /\ completing \subseteq completing'
  BY <1>1, <1>2
<1>6. QED
  BY <1>0, <1>3, <1>4, <1>5, Advanced, SameRow DEF Phases

\* The end scripts pass.
LEMMA EndKeeps ==
    ASSUME LocalInv, EndScriptsPass
    PROVE  LocalInv'
<1>1. /\ exec.pc = "ending" /\ exec' = IdleExec /\ queue' = queue /\ runningJob' = NoJob
      /\ cancelled' \subseteq cancelled
      /\ UNCHANGED <<cancelling, completing, rows, historyVars, cancels, aborts>>
  BY DEF EndScriptsPass, TaskReturned, CompleteJob, boundVars
<1>2. exec.job # NoJob /\ (rows[Current].inProgress => \E e \in completing : e.backup = Current)
  BY <1>1, Facts, NoJobAssumption DEF LocalInv, ExecInv
<1>3. QED
  BY <1>1, <1>2, Returned

\* A phase fails.
LEMMA FailKeeps ==
    ASSUME LocalInv, NEW retryable \in BOOLEAN, PhaseFails(retryable)
    PROVE  LocalInv'
<1>0. /\ \/ exec.pc \in Phases /\ aborts' = aborts
         \/ exec.pc = "ending" /\ aborts' = aborts + 1
      /\ UNCHANGED <<cancelling, completing, rows, historyVars, cancels>>
      /\ \/ /\ exec' = [exec EXCEPT !.pc = "failing", !.retryable = retryable]
            /\ UNCHANGED <<queue, runningJob, cancelled>>
         \/ /\ Current \in cancelled /\ queue' = queue /\ runningJob' = NoJob /\ exec' = IdleExec
            /\ cancelled' \subseteq cancelled
  BY DEF PhaseFails, ScriptAborts, TaskReturned, CompleteJob, queueVars
<1>a. /\ exec \in ExecType /\ Current \in Backups /\ exec.job # NoJob /\ aborts \in Nat
      /\ exec.pc \notin {"idle", "recovery"}
  BY <1>0, Facts, NoJobAssumption DEF Phases
<1>b. (Calm' => Calm /\ Unsettled(Current)) /\ aborts' \in {aborts, aborts + 1}
  BY <1>0, <1>a DEF Calm, LocalInv, ExecInv
<1>1. CASE exec' = [exec EXCEPT !.pc = "failing", !.retryable = retryable] /\ UNCHANGED <<queue, runningJob, cancelled>>
  <2>2. exec' \in ExecType /\ exec'.job = exec.job /\ exec'.pc = "failing"
    BY <1>a, <1>1 DEF ExecType, Pcs
  <2>3. Calm' => Unsettled(Current)'
    BY <1>0, <1>b, <2>2 DEF Unsettled, Current, Exists
  <2>4. QED
    BY <1>0, <1>a, <1>b, <1>1, <2>2, <2>3, Advanced, SameRow
<1>2. CASE /\ Current \in cancelled /\ queue' = queue /\ runningJob' = NoJob /\ exec' = IdleExec
           /\ cancelled' \subseteq cancelled
  <2>1. cancels # 0
    BY <1>2 DEF LocalInv, RowInv
  <2>2. QED
    BY <1>0, <1>a, <1>b, <1>2, <2>1, Returned
<1>3. QED
  BY <1>0, <1>1, <1>2

\* backup_complete of a permanent failure, then backup_error.
LEMMA FailureKeeps ==
    ASSUME LocalInv, EmitFailure
    PROVE  LocalInv'
<1>0. /\ exec.pc = "failing" /\ exec' = [exec EXCEPT !.pc = "scripts"] /\ rows' = ErrorRow(Current)
      /\ IF PermanentlyFailed THEN CompleteEvent(Current, FALSE) ELSE UNCHANGED completing
      /\ UNCHANGED <<queue, runningJob, cancelled, cancelling, historyVars, cancels, aborts>>
  BY DEF EmitFailure, queueVars, boundVars
<1>a. exec \in ExecType /\ Current \in Backups /\ rows \in [Backups -> RowType]
  BY <1>0, Facts
<1>b. (Calm' => Calm) /\ (Calm => Unsettled(Current)) /\ aborts' \in {aborts, aborts + 1}
  BY <1>0 DEF Calm, LocalInv, ExecInv
<1> DEFINE e   == [backup |-> Current, success |-> FALSE]
           row == IF Exists(Current) /\ ~WasCancelled(Current)
                  THEN [rows[Current] EXCEPT !.status = "retrying"] ELSE rows[Current]
<1>1. e \in [backup : {Current}, success : BOOLEAN]
  <2>1. \A v \in BOOLEAN : [backup |-> Current, success |-> v] \in [backup : {Current}, success : BOOLEAN]
    OBVIOUS
  <2>2. QED
    BY <2>1, Zenon
<1>2. completing' = completing \/ (PermanentlyFailed /\ completing' = completing \cup {e})
  BY <1>0, Zenon DEF CompleteEvent
<1>3. /\ row \in RowType /\ (row.inProgress <=> rows[Current].inProgress)
      /\ row.inProgress => row.status # "none"
      /\ row.status = "none" <=> rows[Current].status = "none"
      /\ row.status = "cancelled" => rows[Current].status = "cancelled"
  BY <1>0, <1>a, SameRow DEF RowType, Status, Exists, WasCancelled
<1>4. rows' = [rows EXCEPT ![Current] = row]
  BY <1>0, <1>a DEF ErrorRow
<1> HIDE DEF e, row
<1>5. exec' \in ExecType /\ exec'.job = exec.job /\ exec'.pc = "scripts" /\ exec'.retryable = exec.retryable
  BY <1>0, <1>a DEF ExecType, Pcs
<1>6. PermanentlyFailed' <=> PermanentlyFailed
  BY <1>5 DEF PermanentlyFailed
<1>7. ~PermanentlyFailed' => (Calm' => Unsettled(Current)')
  BY <1>2, <1>3, <1>4, <1>5, <1>6, <1>a, <1>b DEF Unsettled, Current, Exists
<1>8. /\ completing' \subseteq completing \cup [backup : {Current}, success : BOOLEAN]
      /\ completing \subseteq completing'
  BY <1>1, <1>2
<1>9. QED
  BY <1>0, <1>b, <1>3, <1>4, <1>5, <1>7, <1>8, Advanced DEF Phases
-----------------------------------------------------------------------------
(* Steps that change the queue. *)

SameJob(j, k) == j.name = k.name /\ j.payload = k.payload /\ j.attempts = k.attempts

\* A job that fits still does.
StillFits(j) == JobFits(j) => JobFits(j)'

\* A new queue made of jobs of the old one, each taken once, and of new ones (place 0).
LEMMA QueueFrom ==
    ASSUME LocalInv, queue' \in Seq(Jobs),
           NEW from \in [DOMAIN queue' -> DOMAIN queue \cup {0}],
           \A i, k \in DOMAIN queue' : from[i] = from[k] => i = k,
           \A i \in DOMAIN queue' : from[i] # 0 =>
              SameJob(queue'[i], queue[from[i]]) /\ \A j \in {queue[from[i]]} : StillFits(j),
           \A i \in DOMAIN queue' : from[i] = 0 =>
              /\ \A j \in {queue'[i]} : JobFits(j)'
              /\ \A k \in DOMAIN queue : "Backup" \in {queue[k].name, queue'[i].name} =>
                                         queue[k].payload # queue'[i].payload
    PROVE  QueueInv'
<1>0. queue \in Seq(Jobs) /\ QueueInv /\ 0 \notin DOMAIN queue
  BY DEF LocalInv, TypeOK
<1>1. ASSUME NEW i \in DOMAIN queue' PROVE JobFits(queue[i])'
  <2>1. CASE from[i] = 0
    BY <2>1 DEF JobFits
  <2>2. CASE from[i] # 0
    BY <1>0, <2>2 DEF QueueInv, StillFits, JobFits, SameJob
  <2>3. QED
    BY <2>1, <2>2
<1>2. ASSUME NEW i \in DOMAIN queue', NEW k \in DOMAIN queue',
             queue'[i].name = "Backup", queue'[i].payload = queue'[k].payload
      PROVE  i = k
  <2>1. CASE from[i] = 0 \/ from[k] = 0
    BY <1>2, <2>1 DEF SameJob
  <2>2. CASE from[i] # 0 /\ from[k] # 0
    <3>1. from[i] = from[k]
      BY <1>0, <1>2, <2>2 DEF QueueInv, SameJob
    <3>2. QED
      BY <3>1
  <2>3. QED
    BY <2>1, <2>2
<1>3. QED
  BY <1>1, <1>2 DEF QueueInv

\* A job joins the queue at its end.
LEMMA QueueAppended ==
    ASSUME LocalInv, NEW job \in Jobs, queue' = Append(queue, job),
           \A j \in Jobs : StillFits(j), JobFits(job)',
           \A k \in DOMAIN queue : "Backup" \in {queue[k].name, job.name} =>
                                  queue[k].payload # job.payload
    PROVE  queue' \in Seq(Jobs) /\ QueueInv' /\ Waiting' = Waiting \cup {job}
<1>0. queue \in Seq(Jobs) /\ Len(queue) \in Nat /\ DOMAIN queue = 1..Len(queue)
  BY Facts
<1>1. /\ queue' \in Seq(Jobs) /\ DOMAIN queue' = 1..Len(queue) + 1
      /\ \A i \in 1..Len(queue) : queue'[i] = queue[i]
  BY <1>0
<1>2. queue'[Len(queue) + 1] = job
  BY <1>0
<1> DEFINE from == [i \in 1..Len(queue) + 1 |-> IF i = Len(queue) + 1 THEN 0 ELSE i]
<1>3. /\ from \in [DOMAIN queue' -> DOMAIN queue \cup {0}]
      /\ \A i, k \in DOMAIN queue' : from[i] = from[k] => i = k
      /\ \A i \in DOMAIN queue' : from[i] # 0 => queue'[i] = queue[from[i]] /\ queue[from[i]] \in Jobs
      /\ \A i \in DOMAIN queue' : from[i] = 0 => queue'[i] = job
  BY <1>0, <1>1, <1>2
<1> HIDE DEF from
<1>4. QueueInv'
  BY <1>1, <1>3, QueueFrom DEF SameJob
<1>5. Waiting' = Waiting \cup {job}
  <2>1. \A x : (\E i \in 1..Len(queue) + 1 : x = queue'[i]) <=> (\E i \in 1..Len(queue) : x = queue[i]) \/ x = job
    BY <1>0, <1>1, <1>2
  <2>2. QED
    BY <1>0, <1>1, <2>1 DEF Waiting
<1>6. QED
  BY <1>1, <1>4, <1>5

\* The task threw: the job waits again, or the failure is recorded.
LEMMA ThrewKeeps ==
    ASSUME LocalInv, exec.pc \in {"starting", "scripts"}, NEW retryable \in BOOLEAN, JobThrew(retryable),
           cancelled' \subseteq cancelled,
           UNCHANGED <<cancelling, completing, starts, known, cancels>>,
           aborts' \in {aborts, aborts + 1},
           Calm' /\ retryable /\ exec.job.attempts + 1 < MaxAttempts => Unsettled(Current)
    PROVE  LocalInv'
<1> DEFINE job == [exec.job EXCEPT !.attempts = @ + 1, !.delayed = TRUE]
<1>0. /\ exec' = IdleExec
      /\ \/ /\ retryable /\ HasAttemptsLeft(job)
            /\ queue' = Append(queue, job) /\ runningJob' = NoJob
            /\ UNCHANGED <<rows, notices>>
         \/ queue' = queue /\ runningJob' = NoJob /\ RecordFailure(Current)
  BY DEF JobThrew, ReQueue, CompleteJob
<1>a. /\ exec.job \in Jobs /\ exec.job.name = "Backup" /\ Current \in known /\ Current \in Backups
      /\ exec.job # NoJob /\ rows \in [Backups -> RowType] /\ notices \in [Backups -> Nat]
      /\ starts[Current] = exec.job.attempts + 1
  BY Facts, NoJobAssumption DEF LocalInv, ExecInv
<1>b. /\ (Calm' => Calm) /\ aborts' \in Nat
      /\ exec'.pc = "idle" /\ exec'.job = NoJob /\ exec' \in ExecType
  BY <1>0, Facts, IdleIs DEF Calm
<1>c. ExecInv'
  BY <1>0, <1>b DEF ExecInv, Phases
<1>1. CASE /\ retryable /\ HasAttemptsLeft(job)
           /\ queue' = Append(queue, job) /\ runningJob' = NoJob
           /\ UNCHANGED <<rows, notices>>
  <2>1. exec.job.attempts + 1 < MaxAttempts
    BY <1>a, <1>1 DEF HasAttemptsLeft, MaxAttemptsOf
  <2>0. /\ job \in Jobs /\ job.name = "Backup" /\ job.payload = Current
        /\ job.attempts = exec.job.attempts + 1
    BY <1>a, <2>1, JobIs, Zenon DEF Current
  <2> HIDE DEF job
  <2>2. PICK new \in Jobs : /\ queue' = Append(queue, new)
                            /\ new.name = "Backup" /\ new.payload = Current
                            /\ new.attempts = exec.job.attempts + 1
    BY <1>1, <2>0
  <2>3. \A b : Unsettled(b)' <=> Unsettled(b)
    BY <1>1 DEF Unsettled, Exists
  <2>4. ASSUME NEW j \in Jobs PROVE StillFits(j)
    BY <1>b, <2>3 DEF StillFits, JobFits
  <2>5. JobFits(new)'
    BY <1>a, <1>b, <1>1, <2>1, <2>2, <2>3 DEF JobFits
  <2>6. ASSUME NEW k \in DOMAIN queue PROVE queue[k].payload # new.payload
    <3>1. JobFits(queue[k]) /\ queue[k] \in Jobs
      BY Facts DEF LocalInv, QueueInv
    <3>2. QED
      BY <1>a, <2>2, <3>1, LocalBackupAssumption DEF JobFits, Jobs, Names, Current
  <2>7. queue' \in Seq(Jobs) /\ QueueInv' /\ Waiting' = Waiting \cup {new}
    BY <2>2, <2>4, <2>5, <2>6, QueueAppended
  <2>8. TypeOK'
    BY <1>b, <1>1, <2>7, Facts DEF LocalInv, TypeOK, ExecType, Exists
  <2>9. RowInv'
    BY <1>1 DEF LocalInv, RowInv, Exists, WasCancelled
  <2>10. OneBackupInProgress'
    BY <1>b, <1>1 DEF LocalInv, OneBackupInProgress, Calm
  <2>11. ActiveRowHasWorker'
    BY <1>1, <2>2, <2>7 DEF LocalInv, ActiveRowHasWorker, Current
  <2>12. QED
    BY <1>b, <1>c, <2>7, <2>8, <2>9, <2>10, <2>11, Facts DEF LocalInv, BoundsCounted
<1>2. CASE queue' = queue /\ runningJob' = NoJob /\ RecordFailure(Current)
  <2>1. PICK row \in RowType : /\ rows' = [rows EXCEPT ![Current] = row]
                               /\ row = rows[Current] \/ (~row.inProgress /\ row.status = "failed")
                               /\ ~row.inProgress \/ WasCancelled(Current)
    <3>1. CASE Exists(Current) /\ ~WasFinalized(Current) /\ ~WasCancelled(Current)
      <4>1. rows' = [rows EXCEPT ![Current] = Settled("failed")]
        BY <1>2, <3>1 DEF RecordFailure, Settled
      <4>2. "failed" \in Status
        BY DEF Status
      <4>3. QED
        BY <4>1, <4>2, RowIs
    <3>2. CASE ~(Exists(Current) /\ ~WasFinalized(Current) /\ ~WasCancelled(Current))
      <4>1. rows' = rows
        BY <1>2, <3>2 DEF RecordFailure
      <4>2. rows[Current].inProgress => Exists(Current)
        BY <1>a DEF LocalInv, RowInv
      <4>3. QED
        BY <1>a, <3>2, <4>1, <4>2 DEF WasFinalized
    <3>3. QED
      BY <3>1, <3>2
  <2>2. notices' \in [Backups -> Nat]
    BY <1>a, <1>2 DEF RecordFailure
  <2>3. /\ rows' \in [Backups -> RowType] /\ rows'[Current] = row
        /\ \A b \in Backups \ {Current} : rows'[b] = rows[b]
    BY <1>a, <2>1
  <2>4. TypeOK' /\ BoundsCounted' /\ QueueInv'
    <3>1. \A b \in Backups : Exists(b)' => b \in known
      BY <1>a, <2>3, Facts DEF Exists
    <3>2. ASSUME NEW b \in Backups, Unsettled(b), b # Current PROVE Unsettled(b)'
      BY <2>3, <3>2 DEF Unsettled, Exists
    <3>3. QED
      BY <1>a, <1>b, <1>2, <2>2, <2>3, <3>1, <3>2, Facts, QueueKept
  <2>5. RowInv'
    BY <1>a, <2>1, <2>3 DEF LocalInv, RowInv, Exists, WasCancelled
  <2>6. OneBackupInProgress'
    BY <1>a, <1>b, <2>1, <2>3 DEF LocalInv, OneBackupInProgress, Calm
  <2>7. ActiveRowHasWorker'
    <3> SUFFICES ASSUME cancels = 0, NEW b \in Backups, rows'[b].inProgress
                 PROVE  (\E j \in Waiting : j.payload = b) \/ \E e \in completing : e.backup = b
      BY <1>2 DEF ActiveRowHasWorker, Waiting
    <3>1. b # Current
      BY <1>a, <2>1, <2>3 DEF LocalInv, RowInv
    <3>2. QED
      BY <2>3, <3>1 DEF LocalInv, ActiveRowHasWorker, Current
  <2>8. QED
    BY <1>c, <2>4, <2>5, <2>6, <2>7 DEF LocalInv
<1>3. QED
  BY <1>0, <1>1, <1>2

\* No schedule is found for the plan.
LEMMA NoScheduleKeeps ==
    ASSUME LocalInv, NoSchedule
    PROVE  LocalInv'
<1>1. /\ exec.pc = "starting" /\ JobThrew(TRUE)
      /\ UNCHANGED <<cancelled, cancelling, completing, starts, known, cancels, aborts>>
  BY DEF NoSchedule, boundVars
<1>2. Calm' => Unsettled(Current)
  BY <1>1 DEF LocalInv, ExecInv, Calm
<1>3. TRUE \in BOOLEAN
  OBVIOUS
<1>4. QED
  BY <1>1, <1>2, <1>3, ThrewKeeps

\* The error goes on to the processor.
LEMMA RethrowKeeps ==
    ASSUME LocalInv, NEW aborted \in BOOLEAN, Rethrow(aborted)
    PROVE  LocalInv'
<1>1. /\ exec.pc = "scripts" /\ JobThrew(exec.retryable \/ aborted)
      /\ aborts' = IF aborted THEN aborts + 1 ELSE aborts
      /\ cancelled' \subseteq cancelled
      /\ UNCHANGED <<cancelling, completing, starts, known, cancels>>
  BY DEF Rethrow, ScriptAborts
<1>2. aborts \in Nat /\ exec.retryable \in BOOLEAN /\ exec.job \in Jobs
  BY <1>1, Facts DEF ExecType
<1>3. ASSUME Calm', exec.retryable \/ aborted, exec.job.attempts + 1 < MaxAttempts
      PROVE  Unsettled(Current)
  <2>1. ~aborted /\ Calm /\ exec.retryable
    BY <1>1, <1>2, <1>3 DEF Calm
  <2>2. ~PermanentlyFailed
    BY <1>2, <1>3, <2>1, LocalBackupAssumption DEF PermanentlyFailed, Jobs
  <2>3. QED
    BY <1>1, <2>1, <2>2 DEF LocalInv, ExecInv
<1>4. PICK r \in BOOLEAN : r = (exec.retryable \/ aborted)
  BY <1>2
<1>5. JobThrew(r) /\ aborts' \in {aborts, aborts + 1}
  BY <1>1, <1>4
<1>6. Calm' /\ r /\ exec.job.attempts + 1 < MaxAttempts => Unsettled(Current)
  BY <1>3, <1>4
<1>7. QED
  BY <1>1, <1>5, <1>6, ThrewKeeps

\* Nothing but the queue changes, and no backup leaves it.
LEMMA QueueChanged ==
    ASSUME LocalInv, queue' \in Seq(Jobs), QueueInv', runningJob' \in {runningJob, NoJob},
           UNCHANGED <<exec, rows, completing, cancelled, cancelling, notices, starts, cancels, aborts>>,
           known \subseteq known', known' \subseteq Backups,
           \A j \in Waiting : \E k \in Waiting' : k.payload = j.payload
    PROVE  LocalInv'
<1>0. (Calm' <=> Calm) /\ (\A b : Unsettled(b)' <=> Unsettled(b)) /\ Current' = Current
  BY DEF Calm, Unsettled, Exists, Current
<1>1. TypeOK'
  BY Facts, NoJobAssumption DEF LocalInv, TypeOK, Exists
<1>2. ExecInv'
  BY <1>0 DEF LocalInv, ExecInv, Exists, PermanentlyFailed
<1>3. RowInv' /\ BoundsCounted'
  BY DEF LocalInv, RowInv, BoundsCounted, Exists, WasCancelled
<1>4. OneBackupInProgress'
  BY DEF LocalInv, OneBackupInProgress
<1>5. ActiveRowHasWorker'
  BY DEF LocalInv, ActiveRowHasWorker
<1>6. QED
  BY <1>1, <1>2, <1>3, <1>4, <1>5 DEF LocalInv

\* The delay of a waiting job is over.
LEMMA DelayKeeps ==
    ASSUME LocalInv, NEW b \in Backups, DelayOver(b)
    PROVE  LocalInv'
<1>1. PICK n \in DOMAIN queue : queue' = [queue EXCEPT ![n].delayed = FALSE]
  BY DEF DelayOver
<1>2. UNCHANGED <<runningJob, exec, cancelled, cancelling, completing, rows, notices, starts, known, cancels, aborts>>
  BY DEF DelayOver, historyVars, boundVars
<1>3. queue \in Seq(Jobs) /\ queue[n] \in Jobs
  BY <1>1, Facts
<1> DEFINE job == [queue[n] EXCEPT !.delayed = FALSE]
<1>4. job \in Jobs /\ SameJob(job, queue[n])
  <2>1. \A v \in BOOLEAN : LET j == [queue[n] EXCEPT !.delayed = v] IN j \in Jobs /\ SameJob(j, queue[n])
    BY <1>3 DEF Jobs, SameJob
  <2>2. QED
    BY <2>1, Zenon
<1>5. queue' = [queue EXCEPT ![n] = job]
  BY <1>1
<1> HIDE DEF job
<1>6. /\ queue' \in Seq(Jobs) /\ DOMAIN queue' = DOMAIN queue
      /\ \A i \in DOMAIN queue : SameJob(queue'[i], queue[i]) /\ queue[i] \in Jobs
  <2>1. DOMAIN queue = 1..Len(queue) /\ \A i \in DOMAIN queue : queue[i] \in Jobs
    BY <1>3
  <2>2. queue' \in Seq(Jobs)
    <3>1. n \in 1..Len(queue) /\ job \in Jobs
      BY <1>4, <2>1
    <3>2. [queue EXCEPT ![n] = job] \in Seq(Jobs)
      BY <1>3, <3>1, ExceptSeq, Zenon
    <3>3. QED
      BY <1>5, <3>2
  <2>3. \A i \in DOMAIN queue : queue'[i] = IF i = n THEN job ELSE queue[i]
    BY <1>5
  <2>4. QED
    BY <1>4, <1>5, <2>1, <2>2, <2>3 DEF SameJob
<1>7. ASSUME NEW j \in Jobs PROVE StillFits(j)
  BY <1>2 DEF StillFits, JobFits, Calm, Unsettled, Exists
<1>8. QueueInv'
  <2> DEFINE from == [i \in DOMAIN queue |-> i]
  <2>1. /\ from \in [DOMAIN queue' -> DOMAIN queue \cup {0}] /\ 0 \notin DOMAIN queue
        /\ \A i \in DOMAIN queue' : from[i] = i
    BY <1>3, <1>6
  <2> HIDE DEF from
  <2>2. QED
    BY <1>6, <1>7, <2>1, QueueFrom
<1>9. \A j \in Waiting : \E k \in Waiting' : k.payload = j.payload
  BY <1>6 DEF Waiting, SameJob
<1>10. QED
  BY <1>2, <1>6, <1>8, <1>9, QueueChanged, Facts

\* The first job and the others.
LEMMA HeadAndTail ==
    ASSUME LocalInv, queue # <<>>
    PROVE  /\ queue \in Seq(Jobs) /\ Len(queue) \in Nat \ {0} /\ DOMAIN queue = 1..Len(queue)
           /\ Head(queue) = queue[1] /\ queue[1] \in Jobs /\ JobFits(queue[1])
           /\ Tail(queue) \in Seq(Jobs) /\ DOMAIN Tail(queue) = 1..Len(queue) - 1
           /\ Len(Tail(queue)) = Len(queue) - 1
           /\ \A i \in 1..Len(queue) - 1 : Tail(queue)[i] = queue[i + 1]
<1>1. queue \in Seq(Jobs)
  BY Facts
<1>2. Len(queue) \in Nat \ {0} /\ DOMAIN queue = 1..Len(queue)
  BY <1>1
<1>3. QED
  BY <1>1, <1>2 DEF LocalInv, QueueInv

\* The queue is turned by one place.
LEMMA TurnedKeeps ==
    ASSUME LocalInv, Len(queue) \in Nat \ {0}, DOMAIN queue = 1..Len(queue),
           queue' \in Seq(Jobs), DOMAIN queue' = 1..Len(queue),
           \A i \in 1..Len(queue) - 1 : queue'[i] = queue[i + 1],
           queue'[Len(queue)] = queue[1], runningJob' = NoJob,
           UNCHANGED <<exec, rows, completing, cancelled, cancelling, notices, starts, known, cancels, aborts>>
    PROVE  LocalInv'
<1>0. \A i \in DOMAIN queue : queue[i] \in Jobs
  BY Facts
<1>2. ASSUME NEW j \in Jobs PROVE StillFits(j)
  BY DEF StillFits, JobFits, Calm, Unsettled, Exists
<1> DEFINE from == [i \in 1..Len(queue) |-> IF i = Len(queue) THEN 1 ELSE i + 1]
<1>3. /\ from \in [DOMAIN queue' -> DOMAIN queue \cup {0}]
      /\ \A i, k \in DOMAIN queue' : from[i] = from[k] => i = k
      /\ \A i \in DOMAIN queue' : from[i] # 0 /\ queue'[i] = queue[from[i]] /\ queue[from[i]] \in Jobs
  BY <1>0
<1> HIDE DEF from
<1>4. QueueInv'
  BY <1>2, <1>3, QueueFrom DEF SameJob
<1>5. ASSUME NEW i \in 1..Len(queue) PROVE \E k \in 1..Len(queue) : queue'[k] = queue[i]
  <2>1. CASE i = 1
    <3>1. Len(queue) \in 1..Len(queue)
      OBVIOUS
    <3>2. QED
      BY <2>1, <3>1
  <2>2. CASE i # 1
    <3>1. i - 1 \in 1..Len(queue) - 1 /\ i - 1 \in 1..Len(queue) /\ (i - 1) + 1 = i
      BY <2>2
    <3>2. QED
      BY <3>1
  <2>3. QED
    BY <2>1, <2>2
<1>6. ASSUME NEW j \in Waiting PROVE \E k \in Waiting' : k.payload = j.payload
  <2>1. PICK i \in 1..Len(queue) : j = queue[i]
    BY DEF Waiting
  <2>2. PICK k \in 1..Len(queue) : queue'[k] = queue[i]
    BY <1>5
  <2>3. queue'[k] \in Waiting'
    BY DEF Waiting
  <2>4. QED
    BY <2>1, <2>2, <2>3
<1>7. QED
  BY <1>4, <1>6, QueueChanged, Facts

\* The first job is still delayed: it goes to the end.
LEMMA RotateKeeps ==
    ASSUME LocalInv, queue # <<>>, queue' = Append(Tail(queue), Head(queue)), runningJob' = NoJob,
           UNCHANGED <<exec, rows, completing, cancelled, cancelling, notices, starts, known, cancels, aborts>>
    PROVE  LocalInv'
<1>0. /\ queue \in Seq(Jobs) /\ Len(queue) \in Nat \ {0} /\ DOMAIN queue = 1..Len(queue)
      /\ Head(queue) = queue[1] /\ queue[1] \in Jobs
      /\ Tail(queue) \in Seq(Jobs) /\ Len(Tail(queue)) = Len(queue) - 1
      /\ \A i \in 1..Len(queue) - 1 : Tail(queue)[i] = queue[i + 1]
  BY HeadAndTail
<1>1. /\ queue' \in Seq(Jobs) /\ DOMAIN queue' = 1..Len(queue)
      /\ \A i \in 1..Len(queue) - 1 : queue'[i] = queue[i + 1]
      /\ queue'[Len(queue)] = queue[1]
  <2>1. Append(Tail(queue), queue[1]) \in Seq(Jobs) /\ Len(Append(Tail(queue), queue[1])) = Len(queue)
    BY <1>0, AppendProperties
  <2>2. /\ \A i \in 1..Len(queue) - 1 : Append(Tail(queue), queue[1])[i] = Tail(queue)[i]
        /\ Append(Tail(queue), queue[1])[Len(queue)] = queue[1]
    BY <1>0
  <2>3. QED
    BY <1>0, <2>1, <2>2
<1>2. QED
  BY <1>0, <1>1, TurnedKeeps, Zenon

\* The first job is taken.
LEMMA TakeKeeps ==
    ASSUME LocalInv, exec.pc = "idle", queue # <<>>, NEW job \in Jobs, job = Head(queue),
           queue' = Tail(queue), runningJob' = job,
           exec' = [IdleExec EXCEPT !.pc = IF job.name = "Backup" THEN "starting" ELSE "recovery",
                                    !.job = job],
           starts' = IF job.name = "Backup" THEN [starts EXCEPT ![job.payload] = @ + 1] ELSE starts,
           UNCHANGED <<rows, completing, cancelled, cancelling, notices, known, cancels, aborts>>
    PROVE  LocalInv'
<1>0. /\ queue \in Seq(Jobs) /\ Len(queue) \in Nat \ {0} /\ DOMAIN queue = 1..Len(queue)
      /\ job = queue[1] /\ JobFits(job)
      /\ queue' \in Seq(Jobs) /\ DOMAIN queue' = 1..Len(queue) - 1
      /\ \A i \in 1..Len(queue) - 1 : queue'[i] = queue[i + 1]
  BY HeadAndTail
<1>1. /\ exec' \in ExecType /\ exec'.job = job /\ job # NoJob
      /\ exec'.pc = IF job.name = "Backup" THEN "starting" ELSE "recovery"
  <2>1. (IF job.name = "Backup" THEN "starting" ELSE "recovery") \in Pcs
    BY DEF Pcs
  <2>2. QED
    BY <2>1, TakenIs, NoJobAssumption
<1>2. /\ job.name = "Backup" => /\ job.payload \in known /\ job.payload \in Backups
                                /\ starts[job.payload] = job.attempts
                                /\ Calm => Unsettled(job.payload)
      /\ job.name # "Backup" => job.name = "RecoveryTest" /\ job.payload = EmptyObject
  BY <1>0, Facts DEF JobFits, Jobs, Names
<1>3. /\ starts' \in [Backups -> 0..MaxAttempts]
      /\ job.name = "Backup" => starts'[job.payload] = job.attempts + 1
      /\ \A b \in Backups : b # job.payload => starts'[b] = starts[b]
  <2>1. starts \in [Backups -> 0..MaxAttempts] /\ job.attempts \in 0..MaxAttempts - 1
    BY Facts DEF Jobs
  <2>2. QED
    BY <1>2, <2>1, LocalBackupAssumption
<1>4. (Calm' <=> Calm) /\ (\A b : Unsettled(b)' <=> Unsettled(b)) /\ Current' = job.payload
  BY <1>1 DEF Calm, Unsettled, Exists, Current
<1>5. QueueInv'
  <2> DEFINE from == [i \in 1..Len(queue) - 1 |-> i + 1]
  <2>1. /\ from \in [DOMAIN queue' -> DOMAIN queue \cup {0}]
        /\ \A i, k \in DOMAIN queue' : from[i] = from[k] => i = k
        /\ \A i \in DOMAIN queue' : /\ from[i] # 0 /\ from[i] # 1 /\ from[i] \in DOMAIN queue
                                    /\ queue'[i] = queue[from[i]]
    BY <1>0
  <2> HIDE DEF from
  <2>2. ASSUME NEW i \in DOMAIN queue, i # 1, NEW j \in {queue[i]} PROVE StillFits(j)
    <3>1. j.name = "Backup" => j.payload # job.payload
      BY <1>0, <2>2 DEF LocalInv, QueueInv
    <3>2. QED
      BY <1>1, <1>3, <1>4, <3>1, Facts DEF StillFits, JobFits
  <2>3. QED
    BY <1>0, <2>1, <2>2, QueueFrom DEF SameJob
<1>6. TypeOK'
  <2>1. \A b \in Backups \ known' : starts'[b] = 0 /\ ~Exists(b)'
    BY <1>2, <1>3 DEF LocalInv, TypeOK, Exists
  <2>2. QED
    BY <1>0, <1>1, <1>3, <2>1 DEF LocalInv, TypeOK, ExecType
<1>7. ExecInv'
  BY <1>1, <1>2, <1>3, <1>4 DEF ExecInv, Phases
<1>8. RowInv' /\ BoundsCounted'
  BY DEF LocalInv, RowInv, BoundsCounted, Exists, WasCancelled
<1>9. OneBackupInProgress'
  BY DEF LocalInv, OneBackupInProgress
<1>10. ActiveRowHasWorker'
  <2>0. ASSUME NEW j \in Waiting PROVE j = job \/ j \in Waiting'
    <3>1. PICK i \in 1..Len(queue) : j = queue[i]
      BY <1>0 DEF Waiting
    <3>2. CASE i = 1
      BY <1>0, <3>1, <3>2
    <3>3. CASE i # 1
      <4>1. i - 1 \in 1..Len(queue) - 1 /\ (i - 1) + 1 = i
        BY <1>0, <3>3
      <4>2. QED
        BY <1>0, <3>1, <4>1 DEF Waiting
    <3>4. QED
      BY <3>2, <3>3
  <2> SUFFICES ASSUME cancels = 0, NEW b \in Backups, rows[b].inProgress
               PROVE  \/ \E j \in Waiting' : j.payload = b
                      \/ job.payload = b
                      \/ \E e \in completing : e.backup = b
    BY <1>1 DEF ActiveRowHasWorker
  <2>1. (\E j \in Waiting : j.payload = b) \/ \E e \in completing : e.backup = b
    BY DEF LocalInv, ActiveRowHasWorker, ExecInv
  <2>2. QED
    BY <2>0, <2>1
<1>11. QED
  BY <1>5, <1>6, <1>7, <1>8, <1>9, <1>10 DEF LocalInv

\* One tick of the processor.
LEMMA ProcessKeeps ==
    ASSUME LocalInv, ProcessQueue
    PROVE  LocalInv'
<1>1. /\ exec.pc = "idle" /\ queue # <<>>
      /\ UNCHANGED <<rows, completing, cancelled, cancelling, notices, known, cancels, aborts>>
  BY DEF ProcessQueue, boundVars
<1>2. PICK job \in Jobs : job = Head(queue)
  BY <1>1, HeadAndTail
<1>3. CASE job.delayed
  BY <1>1, <1>2, <1>3, RotateKeeps DEF ProcessQueue, ReQueue
<1>4. CASE ~job.delayed
  BY <1>1, <1>2, <1>4, TakeKeeps DEF ProcessQueue, NextJob
<1>5. QED
  BY <1>3, <1>4

\* A job is before all the others.
LEMMA QueueShifted ==
    ASSUME LocalInv, NEW job \in Jobs, queue' \in Seq(Jobs), DOMAIN queue' = 1..Len(queue) + 1,
           \A i \in 1..Len(queue) : queue'[i + 1] = queue[i], queue'[1] = job,
           \A j \in Jobs : StillFits(j), JobFits(job)',
           \A k \in DOMAIN queue : "Backup" \in {queue[k].name, job.name} =>
                                  queue[k].payload # job.payload
    PROVE  QueueInv' /\ Waiting \subseteq Waiting'
<1>0. queue \in Seq(Jobs) /\ Len(queue) \in Nat /\ DOMAIN queue = 1..Len(queue)
  BY Facts
<1>1. ASSUME NEW i \in 2..Len(queue) + 1 PROVE queue'[i] = queue[i - 1] /\ i - 1 \in 1..Len(queue)
  <2>1. i - 1 \in 1..Len(queue) /\ (i - 1) + 1 = i
    BY <1>0
  <2>2. QED
    BY <2>1
<1> DEFINE from == [i \in 1..Len(queue) + 1 |-> i - 1]
<1>2. /\ from \in [DOMAIN queue' -> DOMAIN queue \cup {0}]
      /\ \A i, k \in DOMAIN queue' : from[i] = from[k] => i = k
      /\ \A i \in DOMAIN queue' : from[i] = 0 => queue'[i] = job
  BY <1>0
<1>3. \A i \in DOMAIN queue' : from[i] # 0 => queue'[i] = queue[from[i]] /\ queue[from[i]] \in Jobs
  BY <1>0, <1>1
<1> HIDE DEF from
<1>4. QueueInv'
  BY <1>2, <1>3, QueueFrom DEF SameJob
<1>5. ASSUME NEW i \in 1..Len(queue) PROVE \E k \in DOMAIN queue' : queue'[k] = queue[i]
  <2>1. i + 1 \in DOMAIN queue'
    BY <1>0
  <2>2. QED
    BY <2>1
<1>6. Waiting \subseteq Waiting'
  BY <1>0, <1>5 DEF Waiting
<1>7. QED
  BY <1>4, <1>6

\* A job joins the queue at its front.
LEMMA QueuePrepended ==
    ASSUME LocalInv, NEW job \in Jobs, queue' = <<job>> \o queue,
           \A j \in Jobs : StillFits(j), JobFits(job)',
           \A k \in DOMAIN queue : "Backup" \in {queue[k].name, job.name} =>
                                  queue[k].payload # job.payload
    PROVE  queue' \in Seq(Jobs) /\ QueueInv' /\ Waiting \subseteq Waiting'
<1>0. queue \in Seq(Jobs) /\ Len(queue) \in Nat /\ DOMAIN queue = 1..Len(queue)
  BY Facts
<1>1. /\ queue' \in Seq(Jobs) /\ DOMAIN queue' = 1..Len(queue) + 1
      /\ \A i \in 1..Len(queue) : queue'[i + 1] = queue[i]
  BY <1>0
<1>2. queue'[1] = job
  BY <1>0
<1>3. QED
  BY <1>1, <1>2, QueueShifted, Zenon

\* addJob adds a job that fits, or finds that it is there already.
LEMMA JobAdded ==
    ASSUME LocalInv, NEW job \in Jobs,
           queue' \in {queue, Append(queue, job), <<job>> \o queue}, runningJob' = runningJob,
           UNCHANGED <<exec, rows, completing, cancelled, cancelling, notices, starts, cancels, aborts>>,
           known \subseteq known', known' \subseteq Backups, JobFits(job)',
           \A k \in DOMAIN queue : "Backup" \in {queue[k].name, job.name} =>
                                  queue[k].payload # job.payload
    PROVE  LocalInv'
<1>1. ASSUME NEW j \in Jobs PROVE StillFits(j)
  BY DEF StillFits, JobFits, Calm, Unsettled, Exists
<1>2. CASE queue' = queue
  <2>1. QueueInv'
    BY <1>1, <1>2, Facts DEF LocalInv, QueueInv, StillFits, JobFits
  <2>2. Waiting' = Waiting
    BY <1>2 DEF Waiting
  <2>3. queue' \in Seq(Jobs)
    BY <1>2, Facts
  <2>4. QED
    BY <2>1, <2>2, <2>3, QueueChanged
<1>3. CASE queue' = Append(queue, job)
  <2>1. queue' \in Seq(Jobs) /\ QueueInv' /\ Waiting' = Waiting \cup {job}
    BY <1>1, <1>3, QueueAppended
  <2>2. QED
    BY <2>1, QueueChanged
<1>4. CASE queue' = <<job>> \o queue
  <2>1. queue' \in Seq(Jobs) /\ QueueInv' /\ Waiting \subseteq Waiting'
    BY <1>1, <1>4, QueuePrepended
  <2>2. QED
    BY <2>1, QueueChanged
<1>5. QED
  BY <1>2, <1>3, <1>4

\* The scheduler or the user asks for a backup with a fresh id.
LEMMA RequestKeeps ==
    ASSUME LocalInv, NEW b \in Backups, RequestBackup(b)
    PROVE  LocalInv'
<1>1. /\ b \notin known /\ known' = known \cup {b} /\ runningJob' = runningJob
      /\ UNCHANGED <<exec, cancelled, cancelling, completing, rows, notices, starts, cancels, aborts>>
  BY DEF RequestBackup, QueueBackup, PerformBackup, AddJob, boundVars
<1>2. PICK job \in Jobs : /\ job = NewJob("Backup", b) /\ job.name = "Backup" /\ job.payload = b
                          /\ job.attempts = 0
  BY JobIs
<1>3. queue' \in {queue, Append(queue, job), <<job>> \o queue}
  BY <1>2, Zenon DEF RequestBackup, QueueBackup, PerformBackup, AddJob
<1>4. starts[b] = 0 /\ ~Exists(b)
  BY <1>1 DEF LocalInv, TypeOK
<1>5. exec.job # NoJob => b # exec.job.payload
  BY <1>1, LocalBackupAssumption DEF LocalInv, ExecInv, Current
<1>6. Unsettled(b)'
  BY <1>1, <1>4 DEF LocalInv, RowInv, Unsettled, Exists
<1>7. JobFits(job)'
  BY <1>1, <1>2, <1>4, <1>5, <1>6 DEF JobFits
<1>8. ASSUME NEW k \in DOMAIN queue PROVE queue[k].payload # job.payload
  <2>1. JobFits(queue[k]) /\ queue[k] \in Jobs
    BY Facts DEF LocalInv, QueueInv
  <2>2. QED
    BY <1>1, <1>2, <2>1, LocalBackupAssumption DEF JobFits, Jobs, Names
<1>9. known \subseteq known' /\ known' \subseteq Backups
  BY <1>1, Facts
<1>10. QED
  BY <1>1, <1>3, <1>7, <1>8, <1>9, JobAdded

\* A recovery test is asked for every five seconds.
LEMMA TickKeeps ==
    ASSUME LocalInv, RecoveryTick
    PROVE  LocalInv'
<1>1. /\ runningJob' = runningJob
      /\ UNCHANGED <<exec, cancelled, cancelling, completing, rows, notices, starts, known, cancels, aborts>>
  BY DEF RecoveryTick, AddJob, historyVars, boundVars
<1>2. PICK job \in Jobs : /\ job = NewJob("RecoveryTest", Undefined) /\ job.name = "RecoveryTest"
                          /\ job.payload = EmptyObject
  BY JobIs
<1>3. queue' \in {queue, Append(queue, job), <<job>> \o queue}
  BY <1>2, Zenon DEF RecoveryTick, AddJob
<1>4. JobFits(job)'
  BY <1>2 DEF JobFits
<1>5. ASSUME NEW k \in DOMAIN queue, queue[k].name = "Backup" PROVE queue[k].payload # job.payload
  <2>1. JobFits(queue[k])
    BY DEF LocalInv, QueueInv
  <2>2. QED
    BY <1>2, <1>5, <2>1, LocalBackupAssumption, Facts DEF JobFits
<1>6. QED
  BY <1>1, <1>2, <1>3, <1>4, <1>5, JobAdded, Facts
-----------------------------------------------------------------------------
(* Steps of the user, of the file readers and of the service. *)

\* cancelBackup up to the progress file.
LEMMA StartCancelKeeps ==
    ASSUME LocalInv, NEW b \in Backups, StartCancel(b)
    PROVE  LocalInv'
<1>1. /\ Exists(b) /\ cancels' = cancels + 1 /\ cancelled' = cancelled \cup {b}
      /\ cancelling' = cancelling \cup {b}
      /\ UNCHANGED <<queue, runningJob, exec, completing, rows, notices, starts, known, aborts>>
  BY DEF StartCancel, queueVars, historyVars
<1>2. cancels' \in Nat /\ cancels' # 0 /\ b \in known
  BY <1>1, Facts
<1>3. ~Calm'
  BY <1>2 DEF Calm
<1>4. TypeOK' /\ BoundsCounted' /\ QueueInv'
  <2>1. \A d \in Backups : Exists(d)' => d \in known
    BY <1>1, Facts DEF Exists
  <2>2. cancelled' \subseteq Backups /\ cancelling' \subseteq known
    BY <1>1, <1>2, Facts
  <2>3. QED
    BY <1>1, <1>2, <1>3, <2>1, <2>2, Facts, QueueKept
<1>5. ExecInv'
  BY <1>1, <1>3 DEF LocalInv, ExecInv, Current, Exists
<1>6. RowInv'
  BY <1>1, <1>2 DEF LocalInv, RowInv, Exists
<1>7. OneBackupInProgress' /\ ActiveRowHasWorker'
  BY <1>2 DEF OneBackupInProgress, ActiveRowHasWorker
<1>8. QED
  BY <1>4, <1>5, <1>6, <1>7 DEF LocalInv

\* removePlan leaves jobs that fit, each once.
LEMMA RemovalKeepsQueue ==
    ASSUME LocalInv, NEW plan, RemovePlan(plan), \A j \in Jobs : StillFits(j)
    PROVE  queue' \in Seq(Jobs) /\ QueueInv' /\ runningJob' \in {runningJob, NoJob}
<1>0. queue \in Seq(Jobs) /\ 0 \notin DOMAIN queue /\ \A i \in DOMAIN queue : queue[i] \in Jobs
  BY Facts
<1>1. PICK n \in 0..Len(queue) : \E at \in [1..n -> DOMAIN queue] :
         /\ \A i, k \in 1..n : i < k => at[i] < at[k]
         /\ queue' = [i \in 1..n |-> queue[at[i]]]
  BY DEF RemovePlan
<1>2. PICK at \in [1..n -> DOMAIN queue] :
         /\ \A i, k \in 1..n : i < k => at[i] < at[k]
         /\ queue' = [i \in 1..n |-> queue[at[i]]]
  BY <1>1
<1>3. /\ DOMAIN queue' = 1..n /\ queue' \in Seq(Jobs)
      /\ \A i \in 1..n : queue'[i] = queue[at[i]] /\ at[i] # 0 /\ queue[at[i]] \in Jobs
  BY <1>0, <1>2
<1>4. \A i, k \in 1..n : at[i] = at[k] => i = k
  <2> SUFFICES ASSUME NEW i \in 1..n, NEW k \in 1..n, at[i] = at[k] PROVE i = k
    OBVIOUS
  <2>1. at[i] \in Int /\ at[k] \in Int
    BY <1>0, <1>2
  <2>2. QED
    BY <1>2, <2>1
<1>5. at \in [DOMAIN queue' -> DOMAIN queue \cup {0}]
  BY <1>2, <1>3
<1>6. QueueInv'
  <2>1. ASSUME NEW i \in DOMAIN queue'
        PROVE  /\ at[i] # 0 /\ SameJob(queue'[i], queue[at[i]])
               /\ \A j \in {queue[at[i]]} : StillFits(j)
    BY <1>3 DEF SameJob
  <2>2. \A i, k \in DOMAIN queue' : at[i] = at[k] => i = k
    BY <1>3, <1>4
  <2>3. QED
    BY <1>3, <1>5, <2>1, <2>2, QueueFrom
<1>7. QED
  BY <1>3, <1>6 DEF RemovePlan

\* The plan's jobs are removed and the row is written.
LEMMA FinishCancelKeeps ==
    ASSUME LocalInv, NEW b \in Backups, FinishCancel(b)
    PROVE  LocalInv'
<1>1. /\ b \in cancelling /\ cancelling' = cancelling \ {b} /\ RemovePlan(PlanOf[b])
      /\ rows' = [rows EXCEPT ![b] = Settled("cancelled")]
      /\ UNCHANGED <<exec, cancelled, completing, notices, starts, known, cancels, aborts>>
  BY Zenon DEF FinishCancel, Settled, historyVars, boundVars
<1>2. cancels # 0 /\ b \in known /\ ~Calm'
  BY <1>1 DEF LocalInv, RowInv, Calm
<1>3. /\ rows' \in [Backups -> RowType] /\ rows'[b].status = "cancelled" /\ ~rows'[b].inProgress
      /\ \A d \in Backups \ {b} : rows'[d] = rows[d]
  <2>1. Settled("cancelled") \in RowType /\ Settled("cancelled").status = "cancelled"
        /\ ~Settled("cancelled").inProgress
    BY RowIs DEF Status
  <2>2. QED
    BY <1>1, <2>1, Facts
<1>4. ASSUME NEW j \in Jobs PROVE StillFits(j)
  BY <1>1, <1>2 DEF StillFits, JobFits
<1>5. queue' \in Seq(Jobs) /\ QueueInv' /\ runningJob' \in {runningJob, NoJob}
  BY <1>1, <1>4, RemovalKeepsQueue
<1>6. TypeOK'
  <2>1. \A d \in Backups \ known : ~Exists(d)'
    BY <1>2, <1>3, Facts DEF Exists
  <2>2. QED
    BY <1>1, <1>3, <1>5, <2>1, Facts DEF LocalInv, TypeOK, RowType
<1>7. ExecInv'
  <2>1. (exec.pc = "dryRun" => Exists(Current)') /\ Current' = Current
    BY <1>1, <1>3, Facts DEF LocalInv, ExecInv, Exists, Current
  <2>2. exec.pc = "ending" /\ rows'[Current].inProgress => \E e \in completing : e.backup = Current
    BY <1>3, Facts DEF LocalInv, ExecInv
  <2>3. QED
    BY <1>1, <1>2, <1>5, <2>1, <2>2 DEF LocalInv, ExecInv
<1>8. RowInv' /\ BoundsCounted'
  BY <1>1, <1>2, <1>3 DEF LocalInv, RowInv, BoundsCounted, Exists
<1>9. OneBackupInProgress' /\ ActiveRowHasWorker'
  BY <1>1, <1>2 DEF OneBackupInProgress, ActiveRowHasWorker
<1>10. QED
  BY <1>5, <1>6, <1>7, <1>8, <1>9 DEF LocalInv

\* onBackupComplete after its read of the progress file.
LEMMA CompletionKeeps ==
    ASSUME LocalInv, NEW e \in completing, RecordCompletion(e)
    PROVE  LocalInv'
<1>1. /\ completing' = completing \ {e}
      /\ UNCHANGED <<queue, runningJob, exec, cancelled, cancelling, starts, known, cancels, aborts>>
  BY DEF RecordCompletion, queueVars, boundVars
<1>2. e.backup \in known /\ e.backup \in Backups /\ rows \in [Backups -> RowType]
  BY Facts
<1>3. /\ rows' \in [Backups -> RowType] /\ ~rows'[e.backup].inProgress
      /\ \A d \in Backups \ {e.backup} : rows'[d] = rows[d]
      /\ Exists(e.backup)' <=> Exists(e.backup)
      /\ ~WasCancelled(e.backup) => ~WasCancelled(e.backup)'
  <2>1. CASE ~Exists(e.backup)
    <3>1. rows' = rows
      BY <2>1 DEF RecordCompletion
    <3>2. QED
      BY <1>2, <2>1, <3>1 DEF LocalInv, RowInv, Exists, WasCancelled
  <2>2. CASE Exists(e.backup)
    <3>1. PICK status \in {"completed", "failed"} : rows' = [rows EXCEPT ![e.backup] = Settled(status)]
      BY <2>2, Zenon DEF RecordCompletion, Settled
    <3>2. Settled(status) \in RowType /\ Settled(status).status = status /\ ~Settled(status).inProgress
      BY <3>1, RowIs DEF Status
    <3>3. QED
      BY <1>2, <2>2, <3>1, <3>2 DEF Exists, WasCancelled
  <2>3. QED
    BY <2>1, <2>2
<1>4. notices' \in [Backups -> Nat]
  <2>1. notices \in [Backups -> Nat]
    BY Facts
  <2>2. notices' = notices \/ notices' = [notices EXCEPT ![e.backup] = @ + 1]
    BY DEF RecordCompletion
  <2>3. QED
    BY <1>2, <2>1, <2>2
<1>5. /\ Calm' <=> Calm
      /\ \A d \in Backups : rows'[d].inProgress => rows[d].inProgress /\ d # e.backup
      /\ \A d \in Backups : Exists(d)' <=> Exists(d)
  BY <1>1, <1>2, <1>3 DEF Calm, Exists
<1>6. ASSUME NEW d \in Backups, Unsettled(d) PROVE Unsettled(d)'
  BY <1>1, <1>3, <1>6 DEF Unsettled, Exists
<1>7. TypeOK' /\ BoundsCounted' /\ QueueInv'
  <2>1. completing' \subseteq [backup : known, success : BOOLEAN]
    BY <1>1, Facts
  <2>2. QED
    BY <1>1, <1>3, <1>4, <1>5, <1>6, <2>1, Facts, QueueKept
<1>8. ExecInv'
  <2>0. ExecInv /\ Current' = Current /\ (exec.pc \notin {"idle", "recovery"} => Current \in Backups)
    BY <1>1, Facts DEF LocalInv, Current
  <2>1. exec.pc = "dryRun" => Exists(Current)'
    BY <1>5, <2>0 DEF ExecInv
  <2>2. \/ exec.pc \in Phases \cup {"starting", "failing"}
        \/ exec.pc = "scripts" /\ ~PermanentlyFailed'
        => (Calm' => Unsettled(Current)')
    <3>1. PermanentlyFailed' <=> PermanentlyFailed
      BY <1>1 DEF PermanentlyFailed
    <3>2. Unsettled(Current) /\ Current \in Backups => Unsettled(Current)'
      BY <1>1, <1>3, <2>0 DEF Unsettled, Exists
    <3>3. QED
      BY <1>5, <2>0, <3>1, <3>2 DEF ExecInv, Phases
  <2>3. exec.pc = "ending" /\ rows'[Current].inProgress => \E x \in completing' : x.backup = Current
    BY <1>1, <1>5, <2>0 DEF ExecInv
  <2>4. QED
    BY <1>1, <2>0, <2>1, <2>2, <2>3 DEF ExecInv
<1>9. RowInv'
  BY <1>1, <1>2, <1>3, <1>5 DEF LocalInv, RowInv, WasCancelled
<1>10. OneBackupInProgress'
  BY <1>1, <1>5 DEF LocalInv, OneBackupInProgress
<1>11. ActiveRowHasWorker'
  <2>1. Waiting' = Waiting
    BY <1>1 DEF Waiting
  <2>2. QED
    BY <1>1, <1>5, <2>1 DEF LocalInv, ActiveRowHasWorker
<1>12. QED
  BY <1>7, <1>8, <1>9, <1>10, <1>11 DEF LocalInv

\* The memory is lost; StartupRecovery fails what was in progress.
LEMMA RestartKeeps ==
    ASSUME LocalInv, Restart
    PROVE  LocalInv'
<1>1. /\ queue' = <<>> /\ runningJob' = NoJob /\ exec' = IdleExec
      /\ cancelled' = {} /\ cancelling' = {} /\ completing' = {}
      /\ rows' = [b \in Backups |-> IF Orphaned(b) THEN Settled("failed") ELSE rows[b]]
      /\ UNCHANGED <<notices, starts, known, cancels, aborts>>
  BY Zenon DEF Restart, Settled, historyVars
<1>2. /\ Settled("failed") \in RowType /\ Settled("failed").status = "failed"
      /\ ~Settled("failed").inProgress
  BY RowIs DEF Status
<1>3. /\ rows' \in [Backups -> RowType]
      /\ \A b \in Backups : /\ ~rows'[b].inProgress
                            /\ rows'[b] = rows[b] \/ (rows[b].inProgress /\ rows'[b].status = "failed")
  BY <1>1, <1>2, Facts DEF Orphaned
<1>4. exec'.pc = "idle" /\ exec'.job = NoJob /\ exec' \in ExecType
  BY <1>1, IdleIs
<1>5. TypeOK'
  <2>1. \A b \in Backups \ known' : starts'[b] = 0 /\ ~Exists(b)'
    BY <1>1, <1>3, Facts DEF LocalInv, TypeOK, RowInv, Exists
  <2>2. QED
    BY <1>1, <1>3, <1>4, <2>1, Facts DEF TypeOK, ExecType, RowType
<1>6. QueueInv' /\ ExecInv' /\ BoundsCounted'
  BY <1>1, <1>4, Facts DEF QueueInv, ExecInv, BoundsCounted, Phases
<1>7. RowInv'
  BY <1>1, <1>3, Facts DEF LocalInv, RowInv, Exists, WasCancelled
<1>8. OneBackupInProgress' /\ ActiveRowHasWorker'
  BY <1>3 DEF OneBackupInProgress, ActiveRowHasWorker
<1>9. QED
  BY <1>5, <1>6, <1>7, <1>8 DEF LocalInv
-----------------------------------------------------------------------------
(* The invariant. *)

\* It holds of the first state.
LEMMA InitHolds == Init => LocalInv
<1> SUFFICES ASSUME Init PROVE LocalInv
  OBVIOUS
<1>1. /\ queue = <<>> /\ runningJob = NoJob /\ exec = IdleExec /\ rows = [b \in Backups |-> NoBackup]
      /\ cancelled = {} /\ cancelling = {} /\ completing = {} /\ known = {}
      /\ notices = [b \in Backups |-> 0] /\ starts = [b \in Backups |-> 0]
      /\ cancels = 0 /\ aborts = 0
  BY DEF Init
<1>2. NoBackup \in RowType /\ NoBackup.status = "none" /\ ~NoBackup.inProgress
  <2>1. NoBackup = Settled("none") /\ "none" \in Status
    BY Zenon DEF NoBackup, Settled, Status
  <2>2. QED
    BY <2>1, RowIs
<1>3. rows \in [Backups -> RowType] /\ \A b \in Backups : rows[b] = NoBackup
  BY <1>1, <1>2
<1>4. TypeOK
  <2>1. starts \in [Backups -> 0..MaxAttempts] /\ \A b \in Backups : starts[b] = 0
    BY <1>1, LocalBackupAssumption
  <2>2. exec \in ExecType
    BY <1>1, IdleIs
  <2>3. QED
    BY <1>1, <1>2, <1>3, <2>1, <2>2 DEF TypeOK, ExecType, RowType, Exists
<1>5. QueueInv /\ ExecInv /\ BoundsCounted
  BY <1>1, IdleIs DEF QueueInv, ExecInv, BoundsCounted, Phases
<1>6. RowInv /\ OneBackupInProgress /\ ActiveRowHasWorker
  BY <1>1, <1>2, <1>3 DEF RowInv, OneBackupInProgress, ActiveRowHasWorker, Exists, WasCancelled
<1>7. QED
  BY <1>4, <1>5, <1>6 DEF LocalInv

\* A step that changes nothing.
LEMMA StutterKeeps ==
    ASSUME LocalInv, UNCHANGED vars
    PROVE  LocalInv'
<1>1. UNCHANGED <<queue, runningJob, exec, rows, completing, cancelled, cancelling, notices, starts,
                  known, cancels, aborts>>
  BY DEF vars, memoryVars, queueVars, historyVars, boundVars
<1>2. QueueInv'
  BY <1>1 DEF LocalInv, QueueInv, JobFits, Calm, Unsettled, Exists
<1>3. Waiting' = Waiting
  BY <1>1 DEF Waiting
<1>4. QED
  BY <1>1, <1>2, <1>3, Facts, QueueChanged

\* Every step keeps it.
LEMMA StepKeeps ==
    ASSUME LocalInv, [Next]_vars
    PROVE  LocalInv'
<1>1. CASE ProcessQueue
  BY <1>1, ProcessKeeps
<1>2. CASE Work
  <2>1. FALSE \in BOOLEAN
    OBVIOUS
  <2>2. QED
    BY <1>2, <2>1, RecoveryKeeps, InitKeeps, DryRunKeeps, PhaseKeeps, SuccessKeeps, EndKeeps,
       FailureKeeps, RethrowKeeps DEF Work
<1>3. CASE Failures
  <2>1. TRUE \in BOOLEAN
    OBVIOUS
  <2>2. QED
    BY <1>3, <2>1, NoScheduleKeeps, RethrowKeeps, FailKeeps DEF Failures
<1>4. ASSUME NEW b \in Backups, DelayOver(b) \/ RequestBackup(b) \/ StartCancel(b) \/ FinishCancel(b)
      PROVE  LocalInv'
  BY <1>4, DelayKeeps, RequestKeeps, StartCancelKeeps, FinishCancelKeeps
<1>5. ASSUME NEW e \in completing, RecordCompletion(e) PROVE LocalInv'
  BY <1>5, CompletionKeeps
<1>6. CASE RecoveryTick \/ Restart
  BY <1>6, TickKeeps, RestartKeeps
<1>7. CASE UNCHANGED vars
  BY <1>7, StutterKeeps
<1>8. QED
  BY <1>1, <1>2, <1>3, <1>4, <1>5, <1>6, <1>7 DEF Next

\* The inductive invariant: jobs count the attempts of backups nobody executes, an execution
\* whose outcome is not out works on an unsettled backup, and rows in progress have a worker.
THEOREM LocalInvHolds == Spec => []LocalInv
  BY InitHolds, StepKeeps, PTL DEF Spec

\* Every variable has its type, and no backup is handed out more than MaxAttempts times.
THEOREM LocalTypes == Spec => []TypeOK
<1>1. LocalInv => TypeOK
  BY DEF LocalInv
<1>2. QED
  BY <1>1, LocalInvHolds, PTL

\* The running slot of the queue always belongs to the execution.
THEOREM SlotIsExecuted == Spec => []RunningJobIsExecuted
<1>1. LocalInv => RunningJobIsExecuted
  BY DEF LocalInv, ExecInv, RunningJobIsExecuted
<1>2. QED
  BY <1>1, LocalInvHolds, PTL

\* A backup never waits twice, and never waits while it is executed.
THEOREM BackupsHaveOneJob == Spec => []OneJobPerBackup
<1>1. LocalInv => OneJobPerBackup
  BY DEF LocalInv, QueueInv, JobFits, OneJobPerBackup
<1>2. QED
  BY <1>1, LocalInvHolds, PTL

\* Without cancellations and aborts a plan has one backup in progress.
THEOREM PlansHaveOneBackup == Spec => []OneBackupInProgress
<1>1. LocalInv => OneBackupInProgress
  BY DEF LocalInv
<1>2. QED
  BY <1>1, LocalInvHolds, PTL

\* Without cancellations a row in progress has somebody who will finish it.
THEOREM RowsHaveWorkers == Spec => []ActiveRowHasWorker
<1>1. LocalInv => ActiveRowHasWorker
  BY DEF LocalInv
<1>2. QED
  BY <1>1, LocalInvHolds, PTL
=============================================================================
