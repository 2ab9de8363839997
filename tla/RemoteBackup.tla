---------------------------- MODULE RemoteBackup ----------------------------
(***************************************************************************)
(* A remote filesystem backup end to end: the Backup rows and the command  *)
(* table of the control plane (RemoteBackupService, AgentService,          *)
(* AgentStore), one agent process (runtime.ts, client.ts,                  *)
(* backupFilesystem.ts) with what it keeps on disk, and the HTTP requests  *)
(* between them, which may be lost, answered late or served after the      *)
(* agent gave up on them.  Either side may crash.                          *)
(*                                                                         *)
(* The command of backup b has the id remote-backup-b, so one constant set *)
(* stands for both.  A request handler of the server is one step: between  *)
(* its statements it awaits nothing but synchronous SQLite calls.          *)
(***************************************************************************)
EXTENDS AgentStore, FiniteSets

CONSTANTS
    PlanOf,            \* the plan each backup belongs to
    Lifecycle,         \* backups made while their plan has a database lifecycle
    NoCommand,         \* the agent works on no command
    MaxEvents,         \* bound: progress events of one execution
    MaxLate,           \* bound: abandoned requests still under way
    MaxMisses,         \* bound: lookups of one backup that overlook its snapshot
    MaxAgentFaults,    \* bound: agent crashes and failed identity saves
    MaxServerCrashes   \* bound: crashes of the control plane

ASSUME RemoteBackupAssumption ==
    /\ Lifecycle \subseteq Commands
    /\ NoCommand \notin Commands
    /\ MaxEvents \in Nat \ {0}
    /\ {MaxLate, MaxMisses, MaxAgentFaults, MaxServerCrashes} \subseteq Nat

VARIABLES
    backups,       \* status of the Backup rows
    snapshots,     \* snapshots tagged pluton-backup-<id> in the repository
    misses,        \* history: lookups that overlooked such a snapshot
    agent,         \* memory of the agent process
    chan,          \* its requests: main loop, progress delivery, status check
    remembered,    \* completedCommands in the agent's identity file
    late,          \* requests the agent no longer waits for
    agentFaults, serverCrashes

serverVars == <<commands, backups>>
agentVars  == <<agent, chan, remembered, snapshots, misses>>
faultVars  == <<agentFaults, serverCrashes>>
vars       == <<serverVars, agentVars, late, faultVars>>

-----------------------------------------------------------------------------
(* Values. *)

\* Column in_progress is set exactly in the active statuses.
Active       == {"queued", "started"}
Finished     == {"completed", "failed", "cancelled"}
BackupStates == {"none"} \cup Active \cup Finished

Executing == {"checking", "lookup", "restic", "snapshotted"}
Pcs       == {"idle", "polling", "resending", "acking", "flushing", "completing"} \cup Executing
Outcomes  == {"success", "failure", "cancelled"}

\* "none" while nothing was sent; "lost" when the server died over the request.
Replies  == {"granted", "empty", "ok", "refused", "cancelled"}
Channels == {"main", "event", "status"}

IdleAgent == [pc |-> "idle", command |-> NoCommand, token |-> NoToken,
              sequence |-> 0, verdict |-> "none"]

NoCompletion == [sequence |-> 0, outcome |-> "none"]

Completions == [sequence : 1..MaxEvents + 1, outcome : Outcomes]

Requests == [kind : {"poll", "ack", "event", "status", "complete"},
             command : Commands \cup {NoCommand},
             token : Tokens \cup {NoToken},
             sequence : 0..MaxEvents + 1,
             outcome : Outcomes \cup {"none"}]

\* What the agent sent on a channel, from where it stands.
RequestOn(ch) ==
    LET Request(kind, s, o) == [kind |-> kind, command |-> agent.command,
                                token |-> agent.token, sequence |-> s, outcome |-> o]
        completion == remembered[agent.command]
    IN IF ch = "event"  THEN Request("event", agent.sequence, "none")
       ELSE IF ch = "status" THEN Request("status", 0, "none")
       ELSE CASE agent.pc = "polling" -> [Request("poll", 0, "none") EXCEPT
                                            !.command = NoCommand, !.token = NoToken]
              [] agent.pc = "acking"  -> Request("ack", 0, "none")
              [] OTHER                -> Request("complete", completion.sequence, completion.outcome)

\* crypto.randomBytes(24): a token nobody has ever seen, here one that nothing
\* refers to any more.
FreshTokens == {t \in Tokens : /\ \A c \in Commands : commands[c].leaseOwner # t
                               /\ \A r \in late : r.token # t
                               /\ agent.token # t}
FreshToken == CHOOSE t \in FreshTokens : TRUE

-----------------------------------------------------------------------------
(* Backup rows. *)

\* mergeRemoteProgress for an event the store has just recorded: event 1 says
\* "accepted", the others report work; a finished row is left alone.
MergedProgress(status, sequence) ==
    IF status \notin Active THEN status
    ELSE IF sequence = 1 THEN "queued" ELSE "started"

\* Mutant of CompletedBackup: a success is recorded over a cancellation even
\* when nothing proves that it beat the kill.
CompletedBackupOverCancel(b, status, state, outcome, metadataOk) ==
    IF status \in {"completed", "failed"} THEN status
    ELSE IF outcome = "success" THEN "completed"
    ELSE IF "cancelled" \in {state, outcome} THEN "cancelled" ELSE "failed"

\* RemoteBackupService.completeCommand for a command row in the given state.
\* The metadata of a lifecycle success is checked against the plan as it is
\* now; metadataOk says whether it matches.
CompletedBackup(b, status, state, outcome, metadataOk) ==
    LET proven == outcome = "success" /\ b \in Lifecycle
    IN IF status \in Finished /\ ~(status = "cancelled" /\ proven) THEN status
       ELSE IF "cancelled" \in {state, outcome} /\ ~proven THEN "cancelled"
       ELSE IF outcome # "success" THEN "failed"
       ELSE IF metadataOk THEN "completed"
       ELSE IF status = "cancelled" THEN status ELSE "failed"

\* materializeCommand refuses a backup that is no longer in progress.
Preparable(b) == backups[b] \in Active

-----------------------------------------------------------------------------
(* Request handlers of the server.  Each ends with the answer it gives; an   *)
(* answer "lost" means that the server died after its first commit.          *)

ServeIdlePoll(answer) ==
    /\ answer = "empty"
    /\ \E a \in Agents : LeaseNone(a)
    /\ UNCHANGED <<backups, serverCrashes>>

ServeGrant(c, t, answer) ==
    /\ answer = "granted"
    /\ Preparable(c)
    /\ LeaseGrant(AgentOf[c], c, t)
    /\ UNCHANGED <<backups, serverCrashes>>

\* The plan, its storage or its secrets cannot be prepared any more: the
\* command is leased and failed, and the backup failed, in one request.
ServeUnpreparable(c, t, answer) ==
    /\ ~Busy(AgentOf[c])
    /\ c \in Oldest(AgentOf[c])
    /\ commands' = [Granted(AgentOf[c], c, t) EXCEPT
                      ![c] = FinishedRow(@, @.lastEventSequence + 1, FALSE)]
    /\ \/ /\ answer = "empty"
          /\ backups' = [backups EXCEPT ![c] = CompletedBackup(c, @, "failed", "failure", TRUE)]
          /\ UNCHANGED serverCrashes
       \/ /\ answer = "lost"
          /\ serverCrashes < MaxServerCrashes
          /\ serverCrashes' = serverCrashes + 1
          /\ UNCHANGED backups

ServePoll(c, t, answer) ==
    \/ ServeIdlePoll(answer)
    \/ ServeGrant(c, t, answer)
    \/ ServeUnpreparable(c, t, answer)

ServeAck(r, answer) ==
    /\ \/ AcknowledgeCommand(r.command, r.token) /\ answer = "ok"
       \/ /\ ~CanAcknowledge(r.command, r.token)
          /\ UNCHANGED commands
          /\ answer = IF commands[r.command].state \in {"completed", "failed"}
                      THEN "ok" ELSE "refused"
    /\ UNCHANGED <<backups, serverCrashes>>

\* The store answers a replayed sequence number without an error, and the merge
\* then finds that number already applied.
ServeEvent(r, answer) ==
    LET c == r.command
    IN /\ \/ /\ answer = "ok"
             /\ RecordCommandEvent(c, r.token, r.sequence)
             /\ backups' = [backups EXCEPT ![c] = MergedProgress(@, r.sequence)]
          \/ /\ ~CanRecord(c, r.token, r.sequence)
             /\ answer = IF commands[c].state \in Terminal \/ HoldsLease(c, r.token)
                         THEN "ok" ELSE "refused"
             /\ UNCHANGED serverVars
       /\ UNCHANGED serverCrashes

ServeStatus(r, answer) ==
    /\ \/ GetCommandStatus(r.command, r.token) /\ answer = "ok"
       \/ /\ ~CanRenew(r.command, r.token)
          /\ UNCHANGED commands
          /\ answer = IF /\ commands[r.command].leaseOwner = r.token
                         /\ commands[r.command].state = "cancelled"
                      THEN "cancelled" ELSE "refused"
    /\ UNCHANGED <<backups, serverCrashes>>

\* AgentService.complete: the command row first, then the Backup row.
ServeComplete(r, answer) ==
    LET c       == r.command
        success == r.outcome = "success"
    IN \/ /\ answer = "refused"
          /\ ~CanComplete(c, r.token, r.sequence)
          /\ commands[c].state \notin Terminal
          /\ UNCHANGED <<commands, backups, serverCrashes>>
       \/ /\ \/ CompleteCommand(c, r.token, r.sequence, success)
             \/ commands[c].state \in Terminal /\ UNCHANGED commands
          /\ \/ /\ answer = "ok"
                /\ UNCHANGED serverCrashes
                /\ \E metadataOk \in {TRUE, c \notin Lifecycle} :
                      backups' = IF commands'[c].state = "completed" /\ ~success
                                 THEN backups
                                 ELSE [backups EXCEPT ![c] =
                                         CompletedBackup(c, @, commands'[c].state, r.outcome, metadataOk)]
             \/ /\ answer = "lost"
                /\ serverCrashes < MaxServerCrashes
                /\ serverCrashes' = serverCrashes + 1
                /\ UNCHANGED backups

\* Bound: a poll is served while a token is left (random bytes never run out).
Serve(r, answer) ==
    CASE r.kind = "poll"   -> /\ FreshTokens # {}
                              /\ \E c \in Commands : ServePoll(c, FreshToken, answer)
      [] r.kind = "ack"    -> ServeAck(r, answer)
      [] r.kind = "event"  -> ServeEvent(r, answer)
      [] r.kind = "status" -> ServeStatus(r, answer)
      [] OTHER             -> ServeComplete(r, answer)

\* A request of the agent reaches the server and its answer is on the way back.
\* The content of a granted poll is kept where the agent will put it.
ServeOn(ch, answer) ==
    /\ chan[ch] = "sent"
    /\ Serve(RequestOn(ch), answer)
    /\ chan' = [chan EXCEPT ![ch] = answer]
    /\ agent' = IF answer = "granted"
                THEN [agent EXCEPT !.token = FreshToken,
                                   !.command = CHOOSE c \in Commands :
                                                 commands'[c].leaseOwner = FreshToken]
                ELSE agent
    /\ UNCHANGED <<remembered, snapshots, misses, late, agentFaults>>

\* A request the agent gave up on reaches the server after all.
ServeLate(r, answer) ==
    /\ Serve(r, answer)
    /\ late' = late \ {r}
    /\ UNCHANGED <<agentVars, agentFaults>>

-----------------------------------------------------------------------------
(* The user, the scheduler and the clock. *)

\* Mutant of QueuePlanBackup: the active backups are not looked up.
QueueUnchecked(b) ==
    /\ \E s \in Seconds : EnqueueCommand(b, s)
    /\ backups' = [backups EXCEPT ![b] = "queued"]
    /\ UNCHANGED <<agentVars, late, faultVars>>

\* queuePlanBackup and its transaction: one active backup per plan.
QueuePlanBackup(b) ==
    /\ \A d \in Commands : PlanOf[d] = PlanOf[b] => backups[d] \notin Active
    /\ \E s \in Seconds : EnqueueCommand(b, s)
    /\ backups' = [backups EXCEPT ![b] = "queued"]
    /\ UNCHANGED <<agentVars, late, faultVars>>

\* Mutant of CancelBackup: the command is left in the queue.
CancelBackupOnly(b) ==
    /\ backups[b] \in Active
    /\ backups' = [backups EXCEPT ![b] = "cancelled"]
    /\ UNCHANGED <<commands, agentVars, late, faultVars>>

\* cancelBackup, and each round of the loop of removeManagedPlan.
CancelBackup(b) ==
    /\ backups[b] \in Active
    /\ CancelCommand(b) \/ (commands[b].state \in Terminal /\ UNCHANGED commands)
    /\ \/ /\ backups' = [backups EXCEPT ![b] = "cancelled"]
          /\ UNCHANGED serverCrashes
       \/ /\ serverCrashes < MaxServerCrashes
          /\ serverCrashes' = serverCrashes + 1
          /\ UNCHANGED backups
    /\ UNCHANGED <<agentVars, late, agentFaults>>

SecondPasses ==
    /\ Tick
    /\ UNCHANGED <<backups, agentVars, late, faultVars>>

-----------------------------------------------------------------------------
(* The agent. *)

\* Requests still unserved when the agent stops waiting for them: each is lost
\* or stays under way.
Abandon(requests) ==
    \E S \in SUBSET requests :
        /\ late' = late \cup S
        /\ Cardinality(late') <= MaxLate

Unserved(chs) == {RequestOn(ch) : ch \in {x \in chs : chan[x] = "sent"}}

AgentPoll ==
    /\ agent.pc = "idle"
    /\ agent' = [agent EXCEPT !.pc = "polling"]
    /\ chan' = [chan EXCEPT !["main"] = "sent"]
    /\ UNCHANGED <<serverVars, remembered, snapshots, misses, late, faultVars>>

ReceiveNoCommand ==
    /\ agent.pc = "polling"
    /\ chan["main"] = "empty"
    /\ agent' = IdleAgent
    /\ chan' = [chan EXCEPT !["main"] = "none"]
    /\ UNCHANGED <<serverVars, remembered, snapshots, misses, late, faultVars>>

\* Mutant of ReceiveCommand: the identity file is not consulted.
ReceiveForgetful ==
    /\ agent.pc = "polling"
    /\ chan["main"] = "granted"
    /\ agent' = [agent EXCEPT !.pc = "acking"]
    /\ chan' = [chan EXCEPT !["main"] = "sent"]
    /\ UNCHANGED <<serverVars, remembered, snapshots, misses, late, faultVars>>

\* A command the agent already finished is answered from its identity file.
ReceiveCommand ==
    /\ agent.pc = "polling"
    /\ chan["main"] = "granted"
    /\ agent' = [agent EXCEPT !.pc = IF remembered[agent.command] # NoCompletion
                                     THEN "resending" ELSE "acking"]
    /\ chan' = [chan EXCEPT !["main"] = "sent"]
    /\ UNCHANGED <<serverVars, remembered, snapshots, misses, late, faultVars>>

\* The event numbered 1 says "accepted" and leaves at once; the first thing
\* the execution awaits is a status check.
ReceiveAck ==
    /\ agent.pc = "acking"
    /\ chan["main"] = "ok"
    /\ agent' = [agent EXCEPT !.pc = "checking", !.sequence = 1]
    /\ chan' = [chan EXCEPT !["main"] = "none", !["event"] = "sent", !["status"] = "sent"]
    /\ UNCHANGED <<serverVars, remembered, snapshots, misses, late, faultVars>>

\* An error thrown by an exchange of the main loop, or its plain end.
ReceiveLastAnswer ==
    /\ \/ agent.pc = "acking" /\ chan["main"] = "refused"
       \/ agent.pc \in {"completing", "resending"} /\ chan["main"] \in {"ok", "refused"}
    /\ agent' = IdleAgent
    /\ chan' = [chan EXCEPT !["main"] = "none"]
    /\ UNCHANGED <<serverVars, remembered, snapshots, misses, late, faultVars>>

\* Progress delivery keeps one event under way.
SendEvent ==
    /\ agent.pc \in Executing \cup {"flushing"}
    /\ chan["event"] = "none"
    /\ agent.sequence < MaxEvents
    /\ agent' = [agent EXCEPT !.sequence = @ + 1]
    /\ chan' = [chan EXCEPT !["event"] = "sent"]
    /\ UNCHANGED <<serverVars, remembered, snapshots, misses, late, faultVars>>

ReceiveEventAnswer ==
    /\ chan["event"] \in Replies
    /\ chan' = [chan EXCEPT !["event"] = "none"]
    /\ UNCHANGED <<serverVars, agent, remembered, snapshots, misses, late, faultVars>>

\* Mutant of CheckStatus: the timer does not run beside the backup itself.
CheckBeforeRestic ==
    /\ agent.pc = "lookup"
    /\ chan["status"] = "none"
    /\ chan' = [chan EXCEPT !["status"] = "sent"]
    /\ UNCHANGED <<serverVars, agent, remembered, snapshots, misses, late, faultVars>>

\* The timer of runProgram; at most one check is under way.
CheckStatus ==
    /\ agent.pc \in Executing \ {"checking"}
    /\ chan["status"] = "none"
    /\ chan' = [chan EXCEPT !["status"] = "sent"]
    /\ UNCHANGED <<serverVars, agent, remembered, snapshots, misses, late, faultVars>>

\* What stops the running program: a failed status check has the last word.
Judged(verdict, answer) ==
    CASE answer = "refused"                          -> "failure"
      [] answer = "cancelled" /\ verdict = "none"    -> "cancelled"
      [] OTHER                                       -> verdict

ReceiveStatus ==
    /\ chan["status"] \in Replies
    /\ agent' = [agent EXCEPT
                   !.verdict = Judged(@, chan["status"]),
                   !.pc = IF @ = "checking" /\ chan["status"] = "ok" THEN "lookup" ELSE @]
    /\ chan' = [chan EXCEPT !["status"] = "none"]
    /\ UNCHANGED <<serverVars, remembered, snapshots, misses, late, faultVars>>

\* SIGINT or SIGTERM: the next check answers true without asking the server.
ShutdownSignal ==
    /\ agent.pc \in Executing
    /\ agent.verdict = "none"
    /\ agent' = [agent EXCEPT !.verdict = "cancelled"]
    /\ UNCHANGED <<serverVars, chan, remembered, snapshots, misses, late, faultVars>>

\* Mutant of LookupSnapshot: the tag is not looked for.
LookupNothing ==
    /\ agent.pc = "lookup"
    /\ agent.verdict = "none"
    /\ agent' = [agent EXCEPT !.pc = "restic"]
    /\ UNCHANGED <<serverVars, chan, remembered, snapshots, misses, late, faultVars>>

\* findExistingBackupSnapshot reads the list of the snapshots with this backup's tag.
SnapshotFound ==
    /\ snapshots[agent.command] > 0
    /\ UNCHANGED misses

\* It answers null when the list is empty, but also when restic exits with a status
\* that names no authentication, access, transport or repository format error, or when
\* its output cannot be parsed: a snapshot that is there is then overlooked.
NoSnapshotFound ==
    \/ snapshots[agent.command] = 0 /\ UNCHANGED misses
    \/ /\ snapshots[agent.command] > 0
       /\ misses[agent.command] < MaxMisses
       /\ misses' = [misses EXCEPT ![agent.command] = @ + 1]

\* A snapshot tagged with this backup id is the result of an earlier execution.
LookupSnapshot ==
    /\ agent.pc = "lookup"
    /\ agent.verdict = "none"
    /\ \/ SnapshotFound   /\ agent' = [agent EXCEPT !.pc = "snapshotted"]
       \/ NoSnapshotFound /\ agent' = [agent EXCEPT !.pc = "restic"]
    /\ UNCHANGED <<serverVars, chan, remembered, snapshots, late, faultVars>>

\* Restic saves the snapshot; it may do so even while it is being killed.
TakeSnapshot ==
    /\ agent.pc = "restic"
    /\ agent' = [agent EXCEPT !.pc = "snapshotted"]
    /\ snapshots' = [snapshots EXCEPT ![agent.command] = @ + 1]
    /\ UNCHANGED <<serverVars, chan, remembered, misses, late, faultVars>>

\* Mutant of EndExecution: the exit code of restic is ignored.
EndWithoutSnapshot(outcome) ==
    /\ agent.pc \in Executing
    /\ outcome = IF agent.verdict = "none" THEN "success" ELSE agent.verdict
    /\ agent' = [agent EXCEPT !.pc = "flushing", !.verdict = outcome]
    /\ chan' = [chan EXCEPT !["status"] = "none"]
    /\ Abandon(Unserved({"status"}))
    /\ UNCHANGED <<serverVars, remembered, snapshots, misses, faultVars>>

\* Mutant of EndExecution: the status timer is not stopped with the program.
EndKeepingTimer(outcome) ==
    /\ agent.pc \in Executing
    /\ outcome \in {"failure", agent.verdict}
    /\ agent' = [agent EXCEPT !.pc = "flushing", !.verdict = outcome]
    /\ UNCHANGED <<serverVars, chan, late, remembered, snapshots, misses, faultVars>>

\* The execution ends: as it was judged, with its snapshot, or with any error
\* of its tools (one after the snapshot was saved included).
EndExecution(outcome) ==
    /\ agent.pc \in Executing
    /\ \/ agent.verdict # "none" /\ outcome = agent.verdict
       \/ agent.verdict = "none" /\ outcome = "failure"
       \/ agent.verdict = "none" /\ outcome = "success" /\ agent.pc = "snapshotted"
    /\ agent' = [agent EXCEPT !.pc = "flushing", !.verdict = outcome]
    /\ chan' = [chan EXCEPT !["status"] = "none"]
    /\ Abandon(Unserved({"status"}))
    /\ UNCHANGED <<serverVars, remembered, snapshots, misses, faultVars>>

\* Mutant of Remember: the completion reuses the number of the last event.
RememberLastEvent ==
    [remembered EXCEPT ![agent.command] =
        [sequence |-> agent.sequence, outcome |-> agent.verdict]]

\* flush, then the completion goes to the identity file, then to the server.
Remember ==
    [remembered EXCEPT ![agent.command] =
        [sequence |-> agent.sequence + 1, outcome |-> agent.verdict]]

SaveCompletion ==
    /\ agent.pc = "flushing"
    /\ chan["event"] = "none"
    /\ remembered' = Remember
    /\ agent' = [agent EXCEPT !.pc = "completing"]
    /\ chan' = [chan EXCEPT !["main"] = "sent"]
    /\ UNCHANGED <<serverVars, snapshots, misses, late, faultVars>>

SaveFails ==
    /\ agent.pc = "flushing"
    /\ chan["event"] = "none"
    /\ agentFaults < MaxAgentFaults
    /\ agentFaults' = agentFaults + 1
    /\ agent' = IdleAgent
    /\ UNCHANGED <<serverVars, chan, remembered, snapshots, misses, late, serverCrashes>>

\* A timeout or a broken connection: the main loop starts over, an event is
\* dropped, a status check (after its retries) fails the backup.
GiveUp(ch) ==
    /\ chan[ch] # "none"
    /\ agent' = CASE ch = "main"   -> IdleAgent
                  [] ch = "status" -> [agent EXCEPT !.verdict = "failure"]
                  [] OTHER         -> agent
    /\ chan' = [chan EXCEPT ![ch] = "none"]
    /\ Abandon(Unserved({ch}))
    /\ UNCHANGED <<serverVars, remembered, snapshots, misses, faultVars>>

RetryStatus ==
    /\ chan["status"] # "none"
    /\ chan' = [chan EXCEPT !["status"] = "sent"]
    /\ Abandon(Unserved({"status"}))
    /\ UNCHANGED <<serverVars, agent, remembered, snapshots, misses, faultVars>>

AgentCrash ==
    /\ agentFaults < MaxAgentFaults
    /\ agentFaults' = agentFaults + 1
    /\ agent' = IdleAgent
    /\ chan' = [ch \in Channels |-> "none"]
    /\ Abandon(Unserved(Channels))
    /\ UNCHANGED <<serverVars, remembered, snapshots, misses, serverCrashes>>

-----------------------------------------------------------------------------
Init ==
    /\ commands = [c \in Commands |-> NoRow]
    /\ backups = [c \in Commands |-> "none"]
    /\ snapshots = [c \in Commands |-> 0]
    /\ misses = [c \in Commands |-> 0]
    /\ agent = IdleAgent
    /\ chan = [ch \in Channels |-> "none"]
    /\ remembered = [c \in Commands |-> NoCompletion]
    /\ late = {}
    /\ agentFaults = 0
    /\ serverCrashes = 0

Server ==
    \/ \E ch \in Channels, answer \in Replies \cup {"lost"} : ServeOn(ch, answer)
    \/ \E r \in late, answer \in Replies \cup {"lost"} : ServeLate(r, answer)

Environment ==
    \/ \E b \in Commands : QueuePlanBackup(b) \/ CancelBackup(b)
    \/ SecondPasses

Exchange ==
    \/ AgentPoll \/ ReceiveNoCommand \/ ReceiveCommand \/ ReceiveAck \/ ReceiveLastAnswer
    \/ SendEvent \/ ReceiveEventAnswer \/ CheckStatus \/ ReceiveStatus \/ RetryStatus
    \/ \E ch \in Channels : GiveUp(ch)

Execution ==
    \/ LookupSnapshot \/ TakeSnapshot
    \/ \E outcome \in Outcomes : EndExecution(outcome)
    \/ SaveCompletion
    \/ ShutdownSignal \/ SaveFails \/ AgentCrash

Next == Server \/ Environment \/ Exchange \/ Execution

Spec == Init /\ [][Next]_vars

-----------------------------------------------------------------------------
(* Fairness.  Timers fire, the agent's loop keeps polling, a killed program    *)
(* dies (SIGTERM, then SIGKILL).  The network is not down for ever: an          *)
(* exchange that is tried again and again succeeds again and again, and a       *)
(* grant arrives within its lease (60 s against a request timeout of 10 s).     *)

Acknowledged   == agent.pc = "acking" /\ ServeOn("main", "ok")
CompletionIsIn == agent.pc \in {"completing", "resending"} /\ ServeOn("main", "ok")
ReceivedInTime == ReceiveCommand /\ HoldsLease(agent.command, agent.token)
KilledDies     == agent.verdict # "none" /\ \E outcome \in Outcomes : EndExecution(outcome)

Fairness ==
    /\ WF_vars(SecondPasses)
    /\ WF_vars(AgentPoll)
    /\ WF_vars(ReceiveNoCommand)
    /\ WF_vars(ReceiveLastAnswer)
    /\ WF_vars(ReceiveEventAnswer)
    /\ WF_vars(CheckStatus)
    /\ WF_vars(KilledDies)
    /\ WF_vars(SaveCompletion)
    /\ \A ch \in Channels : WF_vars(GiveUp(ch))
    /\ SF_vars(ServeOn("main", "granted"))
    /\ SF_vars(ReceivedInTime)
    /\ SF_vars(Acknowledged)
    /\ SF_vars(ReceiveAck)
    /\ SF_vars(CompletionIsIn)
    /\ SF_vars(ServeOn("status", "cancelled"))
    /\ SF_vars(ReceiveStatus)

FairSpec == Spec /\ Fairness

\* The programs the agent starts come to an end by themselves.
ToolsFinish ==
    LookupSnapshot \/ TakeSnapshot \/ \E outcome \in Outcomes : EndExecution(outcome)

-----------------------------------------------------------------------------
(* Properties. *)

\* Every variable has its type, and nothing waits on a channel its phase does
\* not use.
TypeOK ==
    /\ commands \in [Commands -> Row]
    /\ backups \in [Commands -> BackupStates]
    /\ snapshots \in [Commands -> Nat]
    /\ misses \in [Commands -> 0..MaxMisses]
    /\ agent \in [pc : Pcs, command : Commands \cup {NoCommand},
                  token : Tokens \cup {NoToken}, sequence : 0..MaxEvents,
                  verdict : Outcomes \cup {"none"}]
    /\ chan \in [Channels -> Replies \cup {"none", "sent", "lost"}]
    /\ remembered \in [Commands -> Completions \cup {NoCompletion}]
    /\ late \subseteq Requests
    /\ chan["main"] # "none" <=> agent.pc \notin Executing \cup {"idle", "flushing"}
    /\ chan["status"] # "none" => agent.pc \in Executing

\* A backup recorded as completed is in the repository, whatever was lost,
\* replayed or re-executed on the way.
RecordedSuccessHasSnapshot ==
    \A b \in Commands : backups[b] = "completed" => snapshots[b] > 0

\* A backup gets a further snapshot only when two things went wrong: the agent failed
\* before it had saved the completion of the execution that made the earlier one, and
\* the lookup of the execution that followed overlooked it.
RepeatedSnapshotIsExplained ==
    \A b \in Commands : snapshots[b] <= 1 + misses[b] /\ misses[b] <= agentFaults

\* "Reuse the snapshot tagged with its stable backup ID rather than creating a second
\* unrelated snapshot": findExistingBackupSnapshot about a command leased again.
OneSnapshotPerBackup == \A b \in Commands : snapshots[b] <= 1

\* "Persist before acknowledging completion so a retry cannot execute a backup
\* twice": what the identity file remembers is only ever sent again.
RememberedIsNotReexecuted ==
    agent.pc \in Executing \cup {"flushing"} => remembered[agent.command] = NoCompletion

\* No command outlives its backup: an agent is never handed work whose result
\* nobody records.
FinishedBackupHasFinishedCommand ==
    \A b \in Commands : backups[b] \in Finished => commands[b].state \in Terminal

\* While the server does not crash between its two writes, a command and its
\* backup finish together and tell the same story.  A success of a lifecycle
\* plan may still be recorded over a cancellation, or be refused because its
\* database artifacts no longer match the plan.
SettledTogether ==
    serverCrashes = 0 =>
        \A b \in Commands :
            /\ commands[b].state = "completed" =>
                  backups[b] = "completed" \/ (b \in Lifecycle /\ backups[b] = "failed")
            /\ commands[b].state = "failed" => backups[b] \in {"failed", "cancelled"}
            /\ commands[b].state = "cancelled" =>
                  backups[b] = "cancelled" \/ (b \in Lifecycle /\ backups[b] = "completed")
            /\ commands[b].state \notin Terminal => backups[b] \notin Finished

\* A plan has one backup in progress at a time, also right after a cancellation
\* while the agent is still busy with the cancelled one.
OneBackupInProgress ==
    \A b, d \in Commands :
        PlanOf[b] = PlanOf[d] /\ backups[b] \in Active /\ backups[d] \in Active => b = d

\* As long as no execution was cut short, the completion the agent remembers
\* outranks every event the server has recorded, so that it can be accepted.
CompletionOutranksEvents ==
    agentFaults = 0 =>
        \A c \in Commands :
            remembered[c] # NoCompletion /\ commands[c].state \notin Terminal
            => remembered[c].sequence > commands[c].lastEventSequence

\* A finished backup is terminal: no late event, replayed completion or
\* cancellation rewrites it, except a lifecycle success that beat its kill.
FinishedBackupIsFinal ==
    [][\A b \in Commands :
          backups[b] \in Finished
          => \/ backups'[b] = backups[b]
             \/ b \in Lifecycle /\ backups[b] = "cancelled" /\ backups'[b] = "completed"]_vars

\* A queued backup is eventually completed, failed or cancelled, provided the
\* programs the agent runs come to an end.
QueuedBackupSettles ==
    WF_vars(ToolsFinish)
    => \A b \in Commands : (backups[b] \in Active) ~> (backups[b] \in Finished)

\* "Restarting the control plane cannot lose a scheduled run": once the agent's
\* report has closed the command, the backup is eventually recorded as finished.
ReportedRunIsRecorded ==
    \A b \in Commands :
        (commands[b].state \in {"completed", "failed"}) ~> (backups[b] \in Finished)

\* A cancellation reaches the agent: it stops working on a cancelled command
\* even when restic itself would run for ever.
CancelStopsAgent ==
    \A c \in Commands :
        (commands[c].state = "cancelled" /\ agent.command = c /\ agent.pc \in Executing)
        ~> ~(agent.command = c /\ agent.pc \in Executing)
=============================================================================
