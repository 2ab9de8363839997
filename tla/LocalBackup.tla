----------------------------- MODULE LocalBackup -----------------------------
(***************************************************************************)
(* Backups of the host itself: the in-memory JobQueue, the JobProcessor     *)
(* that takes one job at a time from it, BackupHandler.execute with its     *)
(* phases and retries, the listeners that write the Backup rows from the    *)
(* events it emits, and a user's cancellation, which runs beside all that.  *)
(*                                                                         *)
(* A step runs up to the next await that really waits: for a file, a        *)
(* program or a timer.  Database calls are synchronous underneath, so what  *)
(* an event handler does between two such awaits is part of the step that   *)
(* emits the event.                                                         *)
(***************************************************************************)
EXTENDS Integers, Sequences

CONSTANTS
    Backups,           \* backup ids that may be generated
    PlanOf,            \* the plan each belongs to
    Undefined,         \* the payload of a job added without one
    EmptyObject,       \* {}, what such a job stores as its payload
    NoJob,             \* the null of runningJob
    MaxAttempts,       \* maxAttempts of a backup job (plan setting retries)
    MaxQueue,          \* bound: jobs waiting
    MaxCancels,        \* bound: cancellations
    MaxAborts,         \* bound: end and failure scripts that abort on error
    MaxRestarts        \* bound: restarts of the service

ASSUME LocalBackupAssumption ==
    /\ EmptyObject \notin Backups /\ Undefined \notin Backups \cup {EmptyObject}
    /\ MaxAttempts \in Nat \ {0}
    /\ {MaxQueue, MaxCancels, MaxAborts, MaxRestarts} \subseteq Nat

VARIABLES
    queue,         \* JobQueue.queue
    runningJob,    \* JobQueue.runningJob
    exec,          \* processQueue and the task it awaits: pc, job, verdict
    rows,          \* the Backup rows: status and inProgress
    cancelled,     \* BackupHandler.cancelledBackups
    cancelling,    \* cancelBackup calls that await the progress file
    completing,    \* backup_complete handlers that await the progress file
    notices,       \* failure notifications sent for each backup
    starts,        \* times each backup was handed to its task
    known,         \* backup ids generated so far
    cancels, aborts, restarts

queueVars   == <<queue, runningJob>>
memoryVars  == <<queueVars, exec, cancelled, cancelling, completing>>
historyVars == <<notices, starts, known>>
boundVars   == <<cancels, aborts, restarts>>
vars        == <<memoryVars, rows, historyVars, boundVars>>

-----------------------------------------------------------------------------
(* JobQueue. *)

Names == {"Backup", "RecoveryTest"}

\* delayed: the retry delay of the last attempt has not passed yet.
Jobs == [name : Names, payload : Backups \cup {EmptyObject},
         attempts : 0..MaxAttempts - 1, delayed : BOOLEAN]

ASSUME NoJobAssumption == NoJob \notin Jobs

MaxAttemptsOf(job) == IF job.name = "Backup" THEN MaxAttempts ELSE 1

NewJob(name, payload) ==
    [name |-> name, payload |-> IF payload = Undefined THEN EmptyObject ELSE payload,
     attempts |-> 0, delayed |-> FALSE]

Waiting == {queue[i] : i \in DOMAIN queue}

\* runningJob is a job or null.
InQueue == Waiting \cup ({runningJob} \ {NoJob})

\* The payload asked for is compared with the payload stored.
IsPresent(name, payload) == \E j \in InQueue : j.name = name /\ j.payload = payload

IsBackupOf(j, plan) == j.name = "Backup" /\ PlanOf[j.payload] = plan

HasPendingForPlan(plan) == \E j \in InQueue : IsBackupOf(j, plan)

AddJob(name, payload, priority) ==
    /\ Len(queue) < MaxQueue
    /\ queue' = IF IsPresent(name, payload) THEN queue
                ELSE IF priority THEN <<NewJob(name, payload)>> \o queue
                ELSE Append(queue, NewJob(name, payload))
    /\ UNCHANGED runningJob

\* Mutant of ReQueue: the slot of the running job is not given back.
ReQueueKeepingSlot(job, rest) ==
    /\ queue' = Append(rest, job)
    /\ UNCHANGED runningJob

ReQueue(job, rest) ==
    /\ queue' = Append(rest, job)
    /\ runningJob' = NoJob

CompleteJob ==
    /\ runningJob' = NoJob
    /\ UNCHANGED queue

\* Mutant of HasAttemptsLeft: one attempt too many.
HasAttemptsLeftOff(job) == job.attempts <= MaxAttemptsOf(job)

\* Asked of a job whose attempt has just been counted.
HasAttemptsLeft(job) == job.attempts < MaxAttemptsOf(job)

\* The jobs of other plans and of recovery tests keep their order.
RemovePlan(plan) ==
    /\ LET kept == {i \in DOMAIN queue : ~IsBackupOf(queue[i], plan)}
       IN \E n \in 0..Len(queue) : \E at \in [1..n -> kept] :
             /\ \A i, k \in 1..n : i < k => at[i] < at[k]
             /\ kept = {at[i] : i \in 1..n}
             /\ queue' = [i \in 1..n |-> queue[at[i]]]
    /\ runningJob' = IF runningJob # NoJob /\ IsBackupOf(runningJob, plan)
                     THEN NoJob ELSE runningJob

-----------------------------------------------------------------------------
(* Backup rows and the handlers that write them.                             *)

NoBackup == [status |-> "none", inProgress |-> FALSE]
Status   == {"none", "initializing", "started", "retrying", "completed", "failed", "cancelled"}

Exists(b)       == rows[b].status # "none"
WasCancelled(b) == rows[b].status = "cancelled"
WasFinalized(b) == ~rows[b].inProgress /\ rows[b].status \in {"completed", "failed"}

HasActiveBackups(plan) == \E b \in Backups : PlanOf[b] = plan /\ rows[b].inProgress

\* Mutant of MayInit: the active backups are not looked up.
MayInitAlways(b) == TRUE

\* onBackupInit: a row that exists is a retry; a new one must be the plan's
\* only active backup.
MayInit(b) == Exists(b) \/ ~HasActiveBackups(PlanOf[b])

InitRow(b) ==
    [rows EXCEPT ![b] = [status |-> IF Exists(b) THEN "retrying" ELSE "initializing",
                         inProgress |-> TRUE]]

\* onBackupError: the status only, and only of a row that is not cancelled.
ErrorRow(b) ==
    IF Exists(b) /\ ~WasCancelled(b) THEN [rows EXCEPT ![b].status = "retrying"] ELSE rows

\* onBackupComplete up to its read of the progress file.  (A success that carries
\* restic's summary skips the read: the two halves then follow at once.)
CompleteEvent(b, success) ==
    completing' = IF ~WasFinalized(b) /\ (success \/ ~WasCancelled(b))
                  THEN completing \cup {[backup |-> b, success |-> success]}
                  ELSE completing

\* Mutant of RecordFailure: the failed backup stays in progress.
RecordFailureInProgress(b) ==
    IF Exists(b) /\ ~WasFinalized(b) /\ ~WasCancelled(b)
    THEN /\ rows' = [rows EXCEPT ![b].status = "failed"]
         /\ notices' = [notices EXCEPT ![b] = @ + 1]
    ELSE UNCHANGED <<rows, notices>>

\* onBackupFailure, with its notification.
RecordFailure(b) ==
    IF Exists(b) /\ ~WasFinalized(b) /\ ~WasCancelled(b)
    THEN /\ rows' = [rows EXCEPT ![b] = [status |-> "failed", inProgress |-> FALSE]]
         /\ notices' = [notices EXCEPT ![b] = @ + 1]
    ELSE UNCHANGED <<rows, notices>>

-----------------------------------------------------------------------------
(* JobProcessor. *)

IdleExec == [pc |-> "idle", job |-> NoJob, retryable |-> TRUE]

Phases == {"unconfirmed", "dryRun", "preBackup", "restic", "postBackup"}
Pcs    == {"idle", "recovery", "starting", "ending", "failing", "scripts"} \cup Phases

\* The backup that is being executed.
Current == exec.job.payload

\* Mutant of NextJob: the job is not taken off the queue.
NextJobPeeking(job) ==
    /\ runningJob' = job
    /\ UNCHANGED queue

NextJob(job) ==
    /\ runningJob' = job
    /\ queue' = Tail(queue)

\* One tick of processQueue.  The limit MAX_CONCURRENT_BACKUPS is never met:
\* isRunning already keeps a second job from starting.
ProcessQueue ==
    /\ exec.pc = "idle"
    /\ runningJob = NoJob
    /\ queue # <<>>
    /\ LET job == Head(queue)
       IN \/ /\ job.delayed
             /\ ReQueue(job, Tail(queue))
             /\ UNCHANGED <<exec, starts>>
          \/ /\ ~job.delayed
             /\ NextJob(job)
             /\ exec' = [IdleExec EXCEPT !.pc = IF job.name = "Backup" THEN "starting" ELSE "recovery",
                                         !.job = job]
             /\ starts' = IF job.name = "Backup" THEN [starts EXCEPT ![job.payload] = @ + 1]
                          ELSE starts
    /\ UNCHANGED <<rows, cancelled, cancelling, completing, notices, known, boundVars>>

DelayOver(b) ==
    /\ \E i \in DOMAIN queue : /\ queue[i].payload = b
                               /\ queue[i].delayed
                               /\ queue' = [queue EXCEPT ![i].delayed = FALSE]
    /\ UNCHANGED <<runningJob, exec, cancelled, cancelling, completing, rows, historyVars, boundVars>>

\* RecoveryTestTask: it is tried once and nobody listens to its failure.
RunRecoveryTest ==
    /\ exec.pc = "recovery"
    /\ CompleteJob
    /\ exec' = IdleExec
    /\ UNCHANGED <<cancelled, cancelling, completing, rows, historyVars, boundVars>>

\* The task threw: retry the job, or give up and emit backup_failed.
JobThrew(retryable) ==
    LET job == [exec.job EXCEPT !.attempts = @ + 1, !.delayed = TRUE]
    IN /\ exec' = IdleExec
       /\ \/ /\ retryable /\ HasAttemptsLeft(job)
             /\ ReQueue(job, queue)
             /\ UNCHANGED <<rows, notices>>
          \/ /\ ~(retryable /\ HasAttemptsLeft(job))
             /\ CompleteJob
             /\ RecordFailure(Current)

\* execute returned, its finally block included.
TaskReturned ==
    /\ CompleteJob
    /\ exec' = IdleExec
    /\ cancelled' = cancelled \ {Current}

-----------------------------------------------------------------------------
(* BackupHandler.execute. *)

\* performBackupExecution finds no schedule for the plan.
NoSchedule ==
    /\ exec.pc = "starting"
    /\ JobThrew(TRUE)
    /\ UNCHANGED <<cancelled, cancelling, completing, starts, known, boundVars>>

\* backup_init, and the wait for backup_created.
EmitInit ==
    /\ exec.pc = "starting"
    /\ IF MayInit(Current)
       THEN rows' = InitRow(Current) /\ exec' = [exec EXCEPT !.pc = "dryRun"]
       ELSE UNCHANGED rows /\ exec' = [exec EXCEPT !.pc = "unconfirmed"]
    /\ UNCHANGED <<queueVars, cancelled, cancelling, completing, historyVars, boundVars>>

\* backup_start: the status of the row is set, whatever it was.
DryRunEnds ==
    /\ exec.pc = "dryRun"
    /\ rows' = [rows EXCEPT ![Current].status = "started"]
    /\ exec' = [exec EXCEPT !.pc = "preBackup"]
    /\ UNCHANGED <<queueVars, cancelled, cancelling, completing, historyVars, boundVars>>

\* The end of the pre-backup phase and of restic, each followed by a look at
\* cancelledBackups.
PhaseEnds ==
    /\ exec.pc \in {"preBackup", "restic"}
    /\ \/ /\ Current \notin cancelled
          /\ exec' = [exec EXCEPT !.pc = IF @ = "preBackup" THEN "restic" ELSE "postBackup"]
          /\ UNCHANGED <<queueVars, cancelled>>
       \/ Current \in cancelled /\ TaskReturned
    /\ UNCHANGED <<cancelling, completing, rows, historyVars, boundVars>>

\* Pruning, statistics, replication, then backup_complete.
EmitSuccess ==
    /\ exec.pc = "postBackup"
    /\ CompleteEvent(Current, TRUE)
    /\ exec' = [exec EXCEPT !.pc = "ending"]
    /\ UNCHANGED <<queueVars, cancelled, cancelling, rows, historyVars, boundVars>>

EndScriptsPass ==
    /\ exec.pc = "ending"
    /\ TaskReturned
    /\ UNCHANGED <<cancelling, completing, rows, historyVars, boundVars>>

\* runScriptsForEvent throws: the script failed and its abortOnError is set.
ScriptAborts ==
    /\ aborts < MaxAborts
    /\ aborts' = aborts + 1

\* Any phase fails, an aborting end script included.  Where restic runs, its
\* exit code may say that a retry cannot help.
PhaseFails(retryable) ==
    /\ \/ exec.pc \in Phases /\ UNCHANGED aborts
       \/ exec.pc = "ending" /\ ScriptAborts
    /\ retryable \/ exec.pc \in {"dryRun", "preBackup", "restic"}
    /\ \/ /\ Current \notin cancelled
          /\ exec' = [exec EXCEPT !.pc = "failing", !.retryable = retryable]
          /\ UNCHANGED <<queueVars, cancelled>>
       \/ Current \in cancelled /\ TaskReturned
    /\ UNCHANGED <<cancelling, completing, rows, historyVars, cancels, restarts>>

PermanentlyFailed == ~exec.retryable \/ exec.job.attempts + 1 >= MaxAttempts

\* backup_complete of a permanent failure, then backup_error.
EmitFailure ==
    /\ exec.pc = "failing"
    /\ IF PermanentlyFailed THEN CompleteEvent(Current, FALSE) ELSE UNCHANGED completing
    /\ rows' = ErrorRow(Current)
    /\ exec' = [exec EXCEPT !.pc = "scripts"]
    /\ UNCHANGED <<queueVars, cancelled, cancelling, historyVars, boundVars>>

\* The error goes on to the processor.  That of an aborting failure script
\* replaces it and carries no retryable flag.
Rethrow(aborted) ==
    /\ exec.pc = "scripts"
    /\ IF aborted THEN ScriptAborts ELSE UNCHANGED aborts
    /\ JobThrew(exec.retryable \/ aborted)
    /\ cancelled' = cancelled \ {Current}
    /\ UNCHANGED <<cancelling, completing, starts, known, cancels, restarts>>

\* onBackupComplete after its read of the progress file.  The update of a row
\* that was never created throws before the notification.
RecordCompletion(e) ==
    /\ completing' = completing \ {e}
    /\ rows' = IF ~Exists(e.backup) THEN rows
               ELSE [rows EXCEPT ![e.backup] =
                       [status |-> IF e.success THEN "completed" ELSE "failed", inProgress |-> FALSE]]
    /\ notices' = IF e.success \/ ~Exists(e.backup) THEN notices
                  ELSE [notices EXCEPT ![e.backup] = @ + 1]
    /\ UNCHANGED <<queueVars, exec, cancelled, cancelling, starts, known, boundVars>>

-----------------------------------------------------------------------------
(* The scheduler, the user and the service itself. *)

\* queueBackup, on the plan's schedule.
QueueBackup(b) ==
    /\ ~HasPendingForPlan(PlanOf[b])
    /\ AddJob("Backup", b, FALSE)

\* performBackup, on the user's demand: at the front, whatever is pending.
PerformBackup(b) == AddJob("Backup", b, TRUE)

RequestBackup(b) ==
    /\ b \notin known
    /\ known' = known \cup {b}
    /\ QueueBackup(b) \/ PerformBackup(b)
    /\ UNCHANGED <<exec, cancelled, cancelling, completing, rows, notices, starts, boundVars>>

\* The five second tick of createApp.
RecoveryTick ==
    /\ AddJob("RecoveryTest", Undefined, FALSE)
    /\ UNCHANGED <<exec, cancelled, cancelling, completing, rows, historyVars, boundVars>>

\* cancelBackup up to the progress file.
StartCancel(b) ==
    /\ Exists(b)
    /\ cancels < MaxCancels
    /\ cancels' = cancels + 1
    /\ cancelled' = cancelled \cup {b}
    /\ cancelling' = cancelling \cup {b}
    /\ UNCHANGED <<queueVars, exec, completing, rows, historyVars, aborts, restarts>>

\* Restic is killed, the plan's jobs are removed and the row is written.
FinishCancel(b) ==
    /\ b \in cancelling
    /\ cancelling' = cancelling \ {b}
    /\ RemovePlan(PlanOf[b])
    /\ rows' = [rows EXCEPT ![b] = [status |-> "cancelled", inProgress |-> FALSE]]
    /\ UNCHANGED <<exec, cancelled, completing, historyVars, boundVars>>

\* Mutant of Orphaned: only the rows of running backups are swept.
OrphanedStarted(b) == rows[b].inProgress /\ rows[b].status = "started"

Orphaned(b) == rows[b].inProgress

\* The memory is lost; StartupRecovery fails what was in progress.
Restart ==
    /\ restarts < MaxRestarts
    /\ restarts' = restarts + 1
    /\ queue' = <<>>
    /\ runningJob' = NoJob
    /\ exec' = IdleExec
    /\ cancelled' = {} /\ cancelling' = {} /\ completing' = {}
    /\ rows' = [b \in Backups |-> IF Orphaned(b) THEN [status |-> "failed", inProgress |-> FALSE]
                                  ELSE rows[b]]
    /\ UNCHANGED <<historyVars, cancels, aborts>>

-----------------------------------------------------------------------------
Init ==
    /\ queue = <<>>
    /\ runningJob = NoJob
    /\ exec = IdleExec
    /\ rows = [b \in Backups |-> NoBackup]
    /\ cancelled = {} /\ cancelling = {} /\ completing = {}
    /\ notices = [b \in Backups |-> 0]
    /\ starts = [b \in Backups |-> 0]
    /\ known = {}
    /\ cancels = 0 /\ aborts = 0 /\ restarts = 0

Work ==
    \/ RunRecoveryTest \/ EmitInit \/ DryRunEnds \/ PhaseEnds \/ EmitSuccess
    \/ EndScriptsPass \/ EmitFailure \/ Rethrow(FALSE)

Failures ==
    \/ NoSchedule \/ Rethrow(TRUE)
    \/ \E retryable \in BOOLEAN : PhaseFails(retryable)

Next ==
    \/ ProcessQueue \/ Work \/ Failures
    \/ \E b \in Backups : DelayOver(b) \/ RequestBackup(b) \/ StartCancel(b) \/ FinishCancel(b)
    \/ \E e \in completing : RecordCompletion(e)
    \/ RecoveryTick \/ Restart

\* The processor's timer keeps firing, delays pass, the programs of a phase end
\* (restic is killed when it stalls) and files are read.
Fairness ==
    /\ WF_vars(ProcessQueue)
    /\ WF_vars(Work)
    /\ WF_vars(exec.pc = "unconfirmed" /\ PhaseFails(TRUE))
    /\ \A b \in Backups : WF_vars(DelayOver(b))
    /\ WF_vars(\E e \in completing : RecordCompletion(e))

Spec == Init /\ [][Next]_vars /\ Fairness

-----------------------------------------------------------------------------
(* Properties. *)

\* Every variable has its type, and a backup is executed only after its id was
\* generated.
TypeOK ==
    /\ queue \in Seq(Jobs)
    /\ runningJob \in Jobs \cup {NoJob}
    /\ exec \in [pc : Pcs, job : Jobs \cup {NoJob}, retryable : BOOLEAN]
    /\ rows \in [Backups -> [status : Status, inProgress : BOOLEAN]]
    /\ cancelled \subseteq Backups /\ cancelling \subseteq Backups
    /\ completing \subseteq [backup : Backups, success : BOOLEAN]
    /\ notices \in [Backups -> Nat] /\ starts \in [Backups -> 0..MaxAttempts]
    /\ \A b \in Backups \ known : starts[b] = 0 /\ ~Exists(b)

\* The running slot is never left behind by an attempt that is over: with a job
\* in it that nobody executes, getNext would answer null for ever.
RunningJobIsExecuted ==
    runningJob # NoJob => exec.pc # "idle" /\ exec.job = runningJob

\* A backup has one job: it never waits in the queue while it is executed, and
\* never waits twice, whatever is cancelled or retried.
OneJobPerBackup ==
    \A i \in DOMAIN queue :
        queue[i].name = "Backup" =>
            /\ exec.job # NoJob => queue[i].payload # exec.job.payload
            /\ \A k \in DOMAIN queue : queue[i].payload = queue[k].payload => i = k

\* As long as nothing is cancelled and no script aborted, a plan has one backup
\* in progress at a time, although two of them may be queued.
OneBackupInProgress ==
    cancels = 0 /\ aborts = 0 =>
        \A b, d \in Backups :
            PlanOf[b] = PlanOf[d] /\ rows[b].inProgress /\ rows[d].inProgress => b = d

\* As long as nothing is cancelled, a row in progress has somebody who will
\* finish it: a waiting job, the execution, or a handler that reads its file.
\* Otherwise the plan could not be backed up again before a restart.
ActiveRowHasWorker ==
    cancels = 0 =>
        \A b \in Backups :
            rows[b].inProgress =>
                \/ \E j \in Waiting : j.payload = b
                \/ exec.job # NoJob /\ exec.job.payload = b
                \/ \E e \in completing : e.backup = b

\* A backup in progress comes to an end, with or without restarts, behind any
\* number of recovery tests and retries, unless a cancellation intervenes.
BackupSettles ==
    \A b \in Backups : rows[b].inProgress ~> (~rows[b].inProgress \/ cancels > 0)

\* "A cancelled backup is terminal: the user asked for it": only a success that
\* beat the kill may still be recorded over it.
CancelledIsTerminal ==
    [][\A b \in Backups :
          rows[b].status = "cancelled" => rows'[b].status \in {"cancelled", "completed"}]_vars

\* "A finished backup is terminal": no duplicate event rewrites the row or sends
\* the notification again.
FinishedIsTerminal ==
    [][\A b \in Backups :
          WasFinalized(b) => rows'[b] = rows[b] /\ notices'[b] = notices[b]]_vars
=============================================================================
