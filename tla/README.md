# Verification of Pluton's backup control flow

Pluton is a self-hosted backup manager: a Node.js control plane (`backend/`)
that runs restic on its own host and sends commands to agents on other machines
(`agent/`), with a web interface on top. This directory holds TLA+ modules that
model the parts of it in which things happen concurrently or can be interrupted,
TLC configurations that check them on small instances, and TLAPS proofs. Paths
below are relative to the repository root.

## 1. Inventory

| Component | State | Operations | Hard behaviour |
| --- | --- | --- | --- |
| Command table (`backend/src/stores/AgentStore.ts`) | rows of `agent_commands`: state, lease owner and expiry, last event sequence | enqueue, leaseNext, acknowledge, recordEvent, complete, cancel, getStatus | leases expire, polls are duplicated, requests arrive late, twice or out of order |
| Control plane endpoints (`services/AgentService.ts`) | none of its own | poll, acknowledge, event, complete, status, heartbeat, enroll, authenticate | two durable writes per completion; a command that can no longer be prepared |
| Remote backups (`services/RemoteBackupService.ts`, `stores/RemoteManagedRepositoryStore.ts`) | Backup rows, managed repositories, schedules | queue, cancel, materialize, record event, complete | cancellation racing a completion; a crash between two rows |
| Agent (`agent/src/runtime.ts`, `client.ts`, `progressDelivery.ts`, `identity.ts`) | current command, sequence, identity file with the last 100 completions | poll, execute, report progress, check status, persist and report completion | crash at any point, lost answers, retries |
| Agent backup (`agent/src/backupFilesystem.ts`) | restic child, temporary files, repository | snapshot lookup, restic, hooks and dumps, kill | killed program that still succeeds; re-execution |
| Job queue (`backend/src/jobs`) | waiting jobs, running slot, in memory | add, priority add, getNext, re-queue, fail, remove | slot cleared under a running task; retries and delays |
| Local backup (`managers/handlers/BackupHandler.ts`, `managers/BaseBackupManager.ts`) | cancelled ids, running plans, progress files | execute with its phases, cancel | cancellation beside every phase; scripts that abort |
| Backup events (`services/events/BackupEventService.ts`) | Backup rows of the host | init, start, complete, error, failure | row checked before an await and written after it |
| Startup recovery, schedules (`services/StartupRecovery.ts`, `managers/CronManager.ts`) | orphaned rows, schedule file | clear orphans, reconcile | restart at any point |
| Notification outbox (`stores/NotificationDeliveryStore.ts`, `notifications/NotificationDeliveryManager.ts`) | sources with a ready mark, channels, subscriptions, deliveries with leases and counters | project, claim, send, finish, retry, test, maintain | crash or sleep while sending, configuration edited between two awaits, full table |
| Recovery tests (`stores/RecoveryTestStore.ts`, `services/RecoveryTestService.ts`) | test rows, import leases, sessions of internal targets | enqueue, cancel, claim, execute, clean up, reconcile, recover | crash between two SQL statements, cancellation beside the end, removal by an operator |
| Database restore (`stores/DatabaseRestoreStore.ts`, `services/DatabaseRestoreService.ts`) | restore rows, leases, approvals | create, delete, expire, inspect, dispatch, import, clean up, recover | rows read before an await and written after it; deletion beside an import |
| Managed replication (`stores/ManagedReplicationStore.ts`, `services/ManagedReplicationService.ts`) | jobs with one slot, destinations | admit, claim, initialise, copy, verify, retry, cancel, detach | restic that outlives the server; a half-created repository |
| MCP actions (`mcp/McpActionService.ts`) | action rows, client token | submit, approve, reject, execute, expire, reconcile | repeated approval, changes after the preview, restart during a call |
| Source access, managed export, agent authentication, agent upgrade | durable policies, reservations, nonces, holds | apply, publish, authenticate, hold | host administration, object stores |
| Restores, restic sessions, keyring, self backup, frontend | various | various | mostly I/O |

How they interact: the web interface and the schedules call the services; the
services write SQLite through the stores; the agents poll the control plane over
HTTP and drive their command with a lease token; the local path goes from the
in-memory queue to the processor, to the handler and, by events, to the rows.
Database triggers turn the end of a backup or a recovery test into a ready mark,
which the outbox projects into deliveries. Recovery tests and restores create
databases on the same targets, read each other's table and the backups' rows when
they claim work, and hand internal targets to an operator through request files.
Replication and MCP actions have tables of their own.

What makes each correct: an agent executes one command at a time and a command is
executed once, by whoever holds its token; what is recorded as a success is in
the repository; command and Backup row tell the same story; a plan has one backup
in progress at a time; finished means finished; whatever was queued comes to an
end, and nothing is left "in progress" that nobody works on; work with effects
outside the database (a request to a receiver, a database on a target, a
repository, a call for an approved action) is recorded before it begins, never
overlaps with its rivals, and is not begun again when its outcome is in doubt.

`PROJECT.json` lists all components with their status, the hazards with their
lines, and which property is aimed at which hazard.

## 2. Modules

| Module | What it is |
| --- | --- |
| `AgentStore` | the command table and the methods of AgentStore.ts, as actions with their guards; no specification of its own |
| `CommandLifecycle` | abstract specification: an agent is a serial executor; no tokens, leases or clocks |
| `AgentCommandQueue` | the table under arbitrary clients; its properties and the refinement of `CommandLifecycle` |
| `AgentCommandQueueProofs` | theorems about `AgentCommandQueue` |
| `RemoteBackup` | `AgentStore` composed with the Backup rows, the endpoints, one agent with its disk and repository, and an unreliable network |
| `LocalBackup` | job queue, processor, backup execution, event handlers, cancellation, restart |
| `NotificationOutbox` | triggers, projection, channels and subscription, the tick with its claims and sends, crashes and suspensions |
| `DatabaseWork` | recovery tests and retained restores composed over their targets, the operator and backups |
| `DurableClaim` | abstract specification: a table of claims for work with outside effects |
| `DurableClaimProofs` | what every implementation of it inherits |
| `ManagedReplication` | replication jobs, destinations, the executor, restic processes; implements `DurableClaim` |
| `McpActions` | requests, approvals and calls of one client; implements `DurableClaim` |
| `ManagedReplicationProofs`, `McpActionsProofs` | theorems about the two |
| `RemoteBackupProofs`, `LocalBackupProofs`, `DatabaseWorkProofs`, `NotificationOutboxProofs` | theorems about those four |
| `MC*` | instances for TLC |

### The command table

A row is state, lease owner, remaining lease time, last event sequence and
creation second. `leaseTtl` is the remaining lease in ticks, so that time is
relative and finite; a null expiry and an expired one are treated alike by every
method. `leaseNext` is `LeaseNone` (sweep only) or `LeaseGrant` (sweep, gate,
oldest, update). A call that changes nothing is a stutter; the `Can*` guards say
when a call answers something else than null. The awaits of a method are on
synchronous better-sqlite3 calls and yield to microtasks only, and two requests
start in different macrotasks, so a method is one step, and so is a request
handler that awaits nothing else.

In `AgentCommandQueue` any token ever handed out may be presented at any time for
any command with any number. This subsumes duplicated agent processes, delayed
and repeated requests and restarts of either side.

### Remote backups

Command and backup share an id in the code (`remote-backup-<id>`), hence one
constant set. The agent has a program counter and three channels: the main loop,
progress delivery and the status check; at most one request is under way on each,
as in the code (`ProgressDelivery` sends one event at a time, `statusInFlight`
joins checks, the main loop awaits). A request that the agent gives up on is lost
or moves to `late`, from where the server may serve it at any later time. The
content of a request is a function of where the agent stands (`RequestOn`).
Handlers of the server are one step (see above; `materializeCommand` only reads
the database and decrypts), except that the server may crash between the
two commits of `complete`, of a failed preparation and of `cancelBackup`
(answer "lost"). The agent may crash at any point; its restic dies with it, as
the service runs with `KillMode=control-group`
(`installers/lib/upgrade-agent.cjs:284`). `saveIdentity` may fail.

Abstracted: request signatures and shapes, statistics, schedules, secrets, the
steps of an execution between the status check, the snapshot lookup and restic
(each may fail, which `EndExecution` allows anywhere). The lookup answers "no
snapshot" also when restic exits with an error that is classified as an unavailable
repository or a failed process, or when its output cannot be parsed
(`NoSnapshotFound`): it may overlook a snapshot that is there, `MaxMisses` times per
backup, which `misses` counts. `Lifecycle` is the set of backups whose plan has
database hooks; their success may be recorded over a cancellation, and
the artifacts are compared with the plan as it is when the completion arrives.
Switching the lifecycle of a plan on while a backup of it runs is not modelled.
The retry branch of `mergeRemoteProgress` is not modelled separately: for the
status it makes no difference, since an event numbered 1 is only recorded while
the status is still "queued". A lease token is 24 random bytes (`randomBytes(24)`); a poll draws one of
`FreshTokens`, and once the bound on tokens is used up no poll is served.

### Local backups

A step runs up to the next await that really waits (a file, a program, a timer).
The one such await inside an event handler is the read of the progress file in
`onBackupComplete`: the set `completing` holds the handlers between the check and
the write. `cancelBackup` has one too (`cancelling`). `JobProcessor` never runs
two jobs (`isRunning`), so `MAX_CONCURRENT_BACKUPS` and `requeueAtFront` are
never reached, nor is the branch without a task; they are not modelled. A phase
may fail wherever the code can throw; restic's exit code may make the failure
non-retryable. `notices` and `starts` are counters for the properties only.
`addJob` never recognises a job without payload as present
(`JSON.stringify(undefined)` against a stored `{}`), so recovery-test jobs pile up
behind a running backup; the model keeps that, bounded by `MaxQueue`. `RemovePlan`
is the filter of `JobQueue.remove`: the new queue is the strictly increasing
selection of the places whose job is not a backup of the plan.

### Notifications

Time is what is left of a delay, a lease or a timeout, in units of 30 seconds. A
tick is synchronous: reconcile, maintenance and the claims follow one another and
only a crash comes between them (`worker`); the server's other handlers run while
it is idle. A send waits for the name server and then for the receiver, and looks
at the channel before each (`flights`, stages "resolving" and "sent"). The lease
owner, drawn anew by each claim, is represented by the attempt number, which is as
unique for one delivery. The code takes due deliveries in an order; the model
takes any of them. "cancelled" is announced like "failed" and
"passed_with_warning" like "passed", and they are merged. `maintenance` deletes by
age and number; the model lets it delete any settled deliveries. There is one plan,
and its removal is not modelled. `Suspend` is a host that sleeps past every
deadline, `LoseOutcome` a `finish` that throws. `naps` counts the suspensions of a
send, for the properties only. All test deliveries of a channel share one key, which
is used again when neither a row nor a send is left of the last one.

### Recovery tests and database restores

The two services are workers with a program counter (`tester`, `restorer`) over one
catalog of databases. An import is lease, CREATE DATABASE, owner's mark, SQL; a
failing statement may have been executed or not. A crash kills the client; what it
had sent takes effect before the next statement of the cleanup, which only runs
after the restart. The database of a test or of a restore is "bare" until it is
marked, and only a marked one is ever dropped. `CleanOutcomes` lists what `cleanup`
and `removeOwned` may leave. `dispatch` of the restores reads all rows at once and
handles them one by one with awaits in between: `pass` holds the rows as they were
read. `cleanup` writes the row before it asks for the removal of an internal target:
these are two steps (`SettleRestore`, `ReadyRestore`), and a crash in between is a
behaviour of the model.

Internal targets are worked on by two host scripts, `deploy/internal-recovery/operator.cjs`
for tests and `deploy/persistent-restore/operator.cjs` for restores. `asked` is the
directory they read their requests from; each request replaces the one before. A
user's request is checked against the row first (`Operator`, `MayRequest`) and written
after awaits (`WriteRequest`), so it may replace a deletion asked for meanwhile; `call`
holds it in between. Each command of a script is one action (`HostProvision`,
`HostStop`, `HostResume`, `HostDelete`, `HostVerifiesAbsence`, `HostActivate`,
`HostDeactivate`) with the script's own conditions on the request; a script takes a lock,
so its commands do not interleave. An administrator runs them by hand, and the model
assumes that none is run within the moments a user's request for the same target takes
from its check to the directory. Partial runs of a script are not modelled: it records
its intent and resumes. The automatic host lifecycle is not configured, and the
resource checks are a request or a step that may fail. What a test checks in the restored files and tables is
one step that may fail.

### Replication and MCP actions

`DurableClaim` says what both promise: an item is begun only when it is open and no
rival can still be at work, and one whose outcome is in doubt is not begun again.
In `ManagedReplication` the items are the jobs of one plan, all rivals; "at work"
includes every restic process that was left behind by a crash, or by an abort that
could not confirm its end (`writers`). restic runs in a process group of its own and
outlives the server. An abort takes effect at the next step; the code looks at the signal
when it starts a program, and may still record what the last one did, which leaves the
same rows as an abort after that step. There is no way out of
"uncertain" in the code: such a job keeps the slot. `AbandonReplica` is the first
`project()` throwing before the `try`. `cancelPending` of the store has no caller.
In `McpActions` the items are the idempotency keys of one client and rivals are
the actions of one plan. Every handler expires overdue rows first, so an overdue
request counts as withdrawn in the refinement mapping even before it is marked.
"At work" is the call of the domain service; the job it starts is one of the
other modules'. What the state hash covers is one number per plan.

## 3. Runs

| Run | Instance | Result |
| --- | --- | --- |
| `durable_tables` | commands: 2 agents, 3 commands, 3 tokens, 2 creation seconds, leases of 2 ticks, sequences to 2; replication: 2 jobs of one destination, 2 runs each, 1 crash; actions: 3 requests about 2 plans, 2 live, 1 change, 1 restart | about 479,000 states, passes |
| `remote_crash` | 2 backups of one plan, one of them with a lifecycle; for the first, 2 events, 1 late request, 1 overlooked snapshot, 1 agent fault, 1 server crash; beside the second, 1 event and 1 agent fault | about 1.8 million states, passes |
| `remote_live` | 1 backup, fair, leases of 2 ticks, no faults | passes |
| `remote_agent_crash` | as `remote_live` with one agent fault and leases of 1 tick | violation, finding |
| `remote_server_crash` | fair, one server crash | violation, finding |
| `remote_lookup` | 1 backup, one agent fault, one overlooked snapshot | violation, finding |
| `local` | 2 backups of one plan, 2 attempts, 2 waiting jobs, 1 cancellation, 1 aborting script, 1 restart | about 578,000 states, passes |
| `local_cancel`, `local_finish` | the same without what is not needed | violations, findings |
| `outbox` | 1 backup or recovery test, 1 channel, 1 place in the table, 2 attempts, 1 manual retry, 1 edit, 2 faults; fair | about 231,000 states, passes |
| `database_work` | 1 test and 1 restore of every policy and mode, not both internal, 1 crash; fair | about 596,000 states, passes |
| `restore_delete` | 1 internal restore, no crash; fair | violation, finding |

**durable_tables.** The three tables share no state: the variable `part` picks the
module a behaviour belongs to, and their state spaces add up. Deadlock is not
checked: the bounds on sequences, runs and requests, and an uncertain replication
job, may stop a table. Commands: `SerialExecutor`: no agent has two commands out, not even an expired
one beside a fresh one. `TokenNamesOneCommand`, `ExpiredLeaseStaysLost`: an old
execution cannot drive a new one. `TerminalIsFinal`, `SequenceNeverGoesBack`:
late and repeated requests change nothing that is settled. `ImplementsLifecycle`:
the refinement. Two commands for one agent and one for another, and three tokens,
allow a re-lease of one command beside the lease of the next; a lease of two ticks
separates renewed from expired. Replication: `CreationIsHeld`, a repository whose
creation is not recorded as finished is held by a job that runs or is in doubt;
`ReplicaClaim`, no job begins while a restic process of any job can be writing. Two
jobs that share a destination are enough for one to meet what the other left.
Actions: `ActionClaim`, a request is executed at most once and two of one plan never
at once; three requests about two plans exercise both limits of `submit`.

**remote_crash.** A recorded success has its snapshot, and a further snapshot of one
backup only where an agent fault and an overlooked snapshot came together; what the identity file remembers is not executed again; no command outlives its
backup; command and backup settle together unless the server crashed between its
writes; a finished backup is final; one backup of a plan is in progress at a time.
`CompletionOutranksEvents` is why a completion is accepted: it holds as long as no
execution was cut short. One late request, one fault and one crash are each
enough to put any single interruption between any two steps; four tokens are
never all in use. All of them are tried on the first backup alone; overlooked snapshots
without late requests and server crashes. Once a second one is queued (`SmallTogether`),
there is one event per execution and, where the first was cancelled, one agent fault: enough for an execution of the cancelled first backup to go on beside the
second, and for a late lifecycle success to overtake a cancellation.

**remote_live.** Every queued backup is completed, failed or cancelled, provided
the programs the agent runs come to an end, and a cancellation stops the agent
even if restic would run for ever.

**local.** The running slot is never left behind; a backup has one job, with bounded
attempts (part of `TypeOK`); as long as nothing was cancelled, a row in progress has a
worker (job, execution or handler) and comes to an end, across retries,
restarts and recovery-test jobs.

**outbox.** A delivery is not sent twice at once, although its lease can run out
under a sleeping host: takeover waits 30 seconds, by which time the old send has
timed out. A second sleep during the same send can let those 30 seconds pass too, and
then a new send begins beside the old one; the property allows exactly that (delivery
is meant to be at least once), and the two faults of the run let it happen. A recovery test is announced with one verdict; an outcome is ticked off
only with its deliveries in the table; a message leaves only under the configuration
of that moment; every delivery settles. A table with one place is full as soon as a
test delivery waits, two attempts separate the limit of a cycle from a retry.

**database_work.** The two workers never overlap; every database on a target has a
lease; "passed" and "deleted" leave nothing behind; a cancelled test never passes; a
deletion or expiry of a custom restore is carried out, or known to be in doubt, also
when it arrives during the import. `RemovalIsRequested`: for a
restore that awaits the removal of its target the dispatch only looks for the receipt,
and a deletion does nothing, so the request must be in the directory when `cleanup` is
done. Two exceptions are stated, since the
code does nothing about them: a crash of the server between the row and the request, and
a user's stop or resume that was checked before the deletion and is written after it.
One test and one restore meet in every pair of
steps; a second of either would wait in the queue. A test and a restore with an internal
target each (`OneInternal` leaves that out) have different targets and meet only in the
exclusion of the workers, which is proved without the bound.

**restore_delete.** The same liveness for an internal restore: a finding.

### Bounds

`MaxSequence`, `MaxEvents`, `MaxLate`, `MaxMisses`, `MaxAgentFaults`, `MaxServerCrashes`,
`MaxQueue`, `MaxCancels`, `MaxAborts`, `MaxRestarts`, `MaxJobs`, `MaxEdits`,
`MaxFaults`, `MaxRuns`, `MaxInterruptions`, `MaxChanges` and `MaxCrashes` are bounds of
the models and appear only in guards; `LeaseTicks`, `MaxAttempts`, `MaxPending`,
`MaxCycle`, `MaxManual` and `MaxDelay` stand for parameters of the program. `MaxQueue` bounds how many jobs wait when a new one is added; a
re-queued job is always accepted. `SmallTogether` and `OneInternal`, in the MC
modules, leave out states of their instances; `OneInternal` only stops requests of the
user, which are under no fairness.

### Fairness

Timers fire, the agent polls for ever, a killed program dies (SIGTERM, then
SIGKILL after a delay), local programs end (restic is killed when it stalls),
files are read: weak fairness of those steps. The network is not down for ever:
an exchange that is attempted again and again is answered again and again (strong
fairness of the answers that matter), and a granted command arrives within its
lease (60 s against a request timeout of 10 s). The liveness run has no late
requests: with them, every poll could be served only after the agent stopped
waiting for it, and nothing would ever be delivered in time; that is the network
being too slow for ever, which the assumption excludes. `QueuedBackupSettles`
carries as its premise that the agent's tools end; `CancelStopsAgent` does not.

Outbox: `setInterval` repeats the tick and a tick runs to its end (weak fairness of
its steps); a send is answered or aborted by its timeout, and time passes (strong
fairness, since a tick disables both while it runs). Database work: a step of a
worker is bounded by a timeout, a crashed server is started again and its recovery
runs before anything is served (weak fairness); backups end; ticks come every five
seconds, and sooner or later one finds no other work in progress (strong fairness of
the dispatch and of the claim). The host scripts are not fair: nothing obliges anyone to
remove a target. A user's request that is under way is written or fails (weak
fairness).

### Findings

1. `remote_agent_crash`. A re-leased command keeps its `lastEventSequence`, and
   the re-execution counts from 1: its completion is refused for ever, and the
   oldest-first lease keeps later commands of the agent waiting. With the column
   reset by `leaseNext` the property holds.
2. `remote_server_crash`. A server crash between the two writes of a completion
   leaves the backup in progress; the plan cannot be backed up again until the
   user cancels it.
3. `local_cancel`. A cancellation during the dry run is overwritten with
   "started". Related behaviour of the same race, visible in the model: a
   cancellation while the scripts of a failing attempt run is forgotten when
   `execute` returns, so a job re-queued right after is executed again; one that
   races the start of a retry is undone by `onBackupInit`, and the row stays in
   progress until a restart. This is why the properties of `local` about active
   rows are stated for runs without cancellations.
4. `local_finish`. A permanent failure is recorded and notified twice. Related:
   `onBackupError` does not look at `wasFinalized`, so an aborting end script
   turns "completed" into "retrying" and the backup runs again; the error of an
   aborting failure script has no `retryable` flag, so a failure that cannot be
   helped by a retry is retried.
5. `restore_delete`. `dispatch` reads the rows of a pass, waits for the binding of an
   internal target, and then writes "queued" whatever the row has become. A deletion
   in between is overwritten: the row is queued and cancelled, which neither the
   cleanup claim nor the import claim nor expiry accepts, until the user deletes once
   more. With a binding that respects the cancellation the property holds.
6. `remote_lookup`. The agent dies between the snapshot and the saved completion; the
   command is leased again, and the lookup of its tag fails in one of the ways that are
   answered with null. restic then makes a second snapshot of the same backup. Without
   overlooked snapshots (`MaxMisses` = 0) the property holds: it is part of what
   `SnapshotsAreExplained` says.

## 4. Proofs

`AgentCommandQueueProofs` proves, for any sets of agents, commands, tokens and
creation seconds and any lease length, from `AgentStoreAssumption`
(types of the constants, `NoToken` is no token) and `MaxSequenceAssumption`:

* `QueueTypeCorrect`, `SerialExecutorHolds`, `TokenNamesOneCommandHolds`;
* `TerminalIsFinalHolds`, `ExpiredLeaseStaysLostHolds`,
  `SequenceNeverGoesBackHolds`;
* `QueueImplementsLifecycle`: the refinement of `CommandLifecycle`.

The inductive invariant is `QueueInv`: types, `SerialExecutor`,
`TokenNamesOneCommand` and that the row of an unused id has sequence 0. The
uniqueness of tokens needs from the types that every owner was handed out, since a
poll draws a token that was not; the refinement needs `SerialExecutor`, since an
empty poll is a stutter only because a busy agent has no expired command beside
its live one; the sequence property needs the blank rows.

Every step is one of two kinds (`StepIsPollOrQuiet`). A poll that grants a command
takes one that was free, and after it no other command of the agent is out
(`PollStep`). Every other step changes each row quietly (`QuietChange`): it puts
no command out, brings in no owner, lowers no sequence, touches no finished row
and revives no expired lease. The invariant and the three action properties follow
from these two lemmas.

`DurableClaimProofs` proves of the abstract table, for any items and any relation of
rivals, `RivalsExcludedHolds` (rivals are never at work together, and only what is
held or in doubt is at work) and `DoneIsFinalHolds`. Both are inherited by every
implementation.

`ManagedReplicationProofs` proves, for any jobs, destinations, numbers of runs and of
crashes, from `ReplicationAssumption` (types of the constants, "none" is no job),
`CreationIsHeldHolds`, `CompletedIsCopiedHolds` and `ReplicationImplementsClaim`. The
inductive invariant `ReplicationInv` adds to types and these two: `SlotIsOne` (one
job runs or is in doubt, and every restic process belongs to it), `ExecutorOwns`
(where the executor stands says what the tables hold) and `ReadyExists` (a ready
destination has its repository). The refinement needs `SlotIsOne`: a claim sees an
empty slot in the table, and only through it that no process is writing.

`McpActionsProofs` proves, for any requests, plans and limits, from
`ActionsAssumption`, `ActionsImplementClaim`. The invariant is `ActionInv`: types,
at most one live action per plan, and that the calls under way are those of the rows
that are executing. The table never looks at the calls; that an approval meets no
rival call follows from the second and third together.

`RemoteBackupProofs` proves, for any backups, plans, tokens, numbers of events, late
requests, agent faults and server crashes, from `AgentStoreAssumption` and
`RemoteBackupAssumption`: `SuccessesAreInTheRepository`, `SnapshotsAreExplained`,
`NoCommandOutlivesItsBackup`, `RowsSettleTogether`, `PlansRunOneBackup`,
`NothingRunsTwice`, `CompletionsCanBeAccepted`, the action property
`FinishedBackupsStay`, and `RemoteTypes`. Nothing is assumed of the network: a request
may be lost, answered without the answer arriving, or served long after the agent
moved on, nor of the lookup but that it invents no snapshot. The inductive invariant
`RemoteInv` has four parts beside the properties:

* `AgentInv`: which phase of the agent allows what in its channels and its identity
  file. Until a completion is flushed the file has none for the command; after that
  it has one for ever.
* `SnapshotInv` and `RequestFits`: a success stands for a snapshot from the moment
  the agent concludes it, and a completion on its way, however late, repeats what the
  file says. So whichever request records a success, the snapshot is there.
* `RepeatInv`: restic runs only with as many snapshots as lookups overlooked, since the
  lookup comes first; and a snapshot that the identity file and the execution under way
  know nothing of is left by an agent fault no overlooked snapshot was counted for yet.
  Together they bound the snapshots of a backup by the misses, and these by the faults.
* `EventsOutranked` (while no execution was cut short) and `FailedAsCancelled` (while
  the server did not crash): the events of a command are those of the one execution
  under way, or its completion outranks them; a failed command beside a cancelled
  backup was reported as cancelled.

The request a handler serves is picked once (`ServeIs`), what it does to the two rows
of its command is one of four changes (`Kept`, `Recorded`, `Reported`, `Unprepared`;
lemma `ServedRows`), and the invariant splits into a part per side (`AgentPart`,
`ServerPart`, `LatePart`), so that a step of one side leaves the others' part alone.

`LocalBackupProofs` proves, for any backups, plans, attempts, cancellations, aborts,
restarts and length of the queue, from `LocalBackupAssumption` and
`NoJobAssumption`: `SlotIsExecuted`, `BackupsHaveOneJob`, `PlansHaveOneBackup`,
`RowsHaveWorkers` and `LocalTypes` (which bounds the attempts). `LocalInv` adds
`QueueInv`: a waiting job counts exactly the attempts its backup was handed out, the
backup is not the one executed and, while nothing was cancelled or aborted, nobody
has settled it; `ExecInv`: the position of the execution says the same of its own
backup, and a success on its way has its handler; `RowInv`: rows and handlers belong
to backups that were asked for. `BackupsHaveOneJob` needs that ids are generated once:
a waiting or executed backup is known, a requested one is not; `PlansHaveOneBackup` needs that a retried
backup is still in progress, since `onBackupInit` looks at the active backups of the
plan only for a row that is new. Every change of the queue is a choice of old places,
each once, plus at most one new job (`QueueFrom`).

`DatabaseWorkProofs` proves, for any tests, restores and crashes, from
`DatabaseWorkAssumption`: `WorkersExclude`, `DatabasesHaveLeases`,
`SuccessEndsClean`, the action property `CancelledTestsNeverPass`, and `WorkTypes`.
`WorkInv` has `Exclusive` (the two services never both work; a pass of the dispatch
and a pending recovery find no worker) and, per row, `TestInv` and `RestoreInv`: a
row is running when it is its worker's, its lease is there from before CREATE
DATABASE until after DROP DATABASE, and a cleanup that reports success has given the
lease up. Exclusion alone is not inductive: a claim looks at the rows of the other
table, and only through the row invariants at the other worker. `AskedInv` adds the
operator's directory: a deletion is asked for only after it was recorded, and where a
script has verified that a target was never provisioned no request to provision it can
follow. Without it a restore could be reported as deleted on that receipt and its target
come up afterwards.

`NotificationOutboxProofs` proves, for any rows, channels, filters, limits, edits and
faults, from `OutboxAssumption` (types of the constants, the channels are finitely
many since they are rows of a table) and `FiltersAssumption`: `OneSender`,
`OneVerdict`, the action properties `NothingDropped` and `SentLive`, and
`OutboxTypes`. `OutboxInv` has a part per group of tables. `JobPart`: an announced
verdict of a recovery test is the row's own, and the row is cleaned up, so nothing can
change it any more. `DeliveryPart`: a delivery is about an announced outcome, so a new
outcome meets no old row, and was queued with a revision its channel has had.
`FlightPart`: per send, `FitsRow` says what its row looks like. While the host has not
slept since the claim, the row is "sending" with a lease that outlasts the send; after
one sleep the row still counts the attempt of the send and, if it was swept or retried,
is not yet due; after two nothing is known but that attempts and revision do not go
back. So a row that is due has no sender, or one that slept twice. `SentLive` follows
from the revisions: the send's is at most the row's, the row's at most the channel's,
and `canSend` has just seen the first and the last equal.

Reasoning about the modules changed them in a few places. The invariant of the outbox
was not inductive because of the second sleep, which one fault per run had hidden:
`OneTransmissionAtATime` now names the exception and the run has two faults. Overlapping arms of a
`CASE`, of which TLC takes the first and the language any, became `IF` chains
(`MergedProgress`, `CompletedBackup`, `RequestOn`). A poll with no unused token left
had no defined result and is now disabled (`FreshTokens`). That ids differ from the
null values is stated (`NoJobAssumption`, `"none"` in `DatabaseWorkAssumption`).

Only model-checked:

* liveness (`QueuedBackupSettles`, `CancelStopsAgent`, `BackupSettles`,
  `DeliveriesSettle`, `CustomDeleteIsCarriedOut`): it rests on fairness, which the
  prover does not handle;
* `RemovalIsRequested`, which is about runs without a crash;
* the findings: they are behaviours, which only a run can show.

## 5. Plan

Done: every module of section 2, model-checked, and every safety property of the
passing runs but `RemovalIsRequested` proved.

Worth adding: theorems that compare components, such as a refinement of `DurableClaim`
by the two tables of `DatabaseWork`, whose exclusion is the same promise.

## 6. Not modelled

The modules cover the state machines in which something can interleave, be
interrupted or be repeated; measured in lines they are a small part of a repository
that is mostly user interface, adapters and checks of input.

* **Web interface** (`frontend/`): shows what the services answer; tables of file
  types, icons and pages have no behaviour to check.
* **Providers and storage settings** (`utils/providers.ts` and the like): data.
* **Source access** (`agent/src/sourceAccessPolicy.ts` and its services): mostly
  administration of users, groups, ACLs and systemd units on a host, with rollback;
  a model would be one of Linux. Its commands travel through the command table.
* **Managed export** (`utils/managedExport/`): encryption and publication whose
  correctness depends on what object stores guarantee; the repository relies on that
  and does not say it.
* **Browsing, downloads and restores of managed repositories**
  (`services/RemoteRepositoryRecoveryService.ts`), **legacy repositories**: selection
  of paths and restic I/O on one snapshot. The worker in memory behind a Restore row,
  with its cancellation, is a candidate for a later module.
* **Agent authentication**: each operation is one conditional statement or
  transaction after a signature check; a property would restate it.
* **Schedules**: timers calling the services; the modules let them fire at any time.
* **Restores, prune and the other tasks of the queue**: the same queue, processor
  and event pattern as `LocalBackup`.
* **Restic sessions, snapshot index, keyring, self backup**: files and processes
  used by one caller at a time.
* **Agent upgrade**: an installer; its atomicity is that of the file system.
* **The automatic lifecycle of internal recovery targets** (containers on the host):
  the scripts of `DatabaseWork` are run by hand.
