------------------------- MODULE RemoteBackupProofs -------------------------
(***************************************************************************)
(* For any number of backups, plans, tokens, events, late requests, agent   *)
(* faults and server crashes: the safety properties of RemoteBackup.        *)
(***************************************************************************)
EXTENDS RemoteBackup, TLAPS

\* The phases in which the agent works on a command, and those before its completion
\* is in the identity file.
Running == Executing \cup {"flushing"}
Working == Running \cup {"acking", "completing", "resending"}

\* What the agent's memory, channels and identity file have in common.
AgentInv ==
    /\ agent.pc \in Working \/ chan["main"] = "granted" => agent.command \in Commands
    /\ chan["event"] # "none" => agent.pc \in Running
    /\ agent.pc = "flushing" => agent.verdict \in Outcomes
    /\ agent.pc \in Running \cup {"acking"} => remembered[agent.command] = NoCompletion
    /\ agent.pc \in {"completing", "resending"} => remembered[agent.command] # NoCompletion

\* A success stands for a snapshot from the moment it is concluded.
SnapshotInv ==
    /\ agent.pc = "snapshotted" => snapshots[agent.command] > 0
    /\ agent.verdict = "success" =>
         agent.pc \in {"flushing", "completing"} /\ snapshots[agent.command] > 0
    /\ \A c \in Commands : remembered[c].outcome = "success" => snapshots[c] > 0

\* The execution under way is past its lookup.
LookedUp(c) == agent.command = c /\ agent.pc \in {"restic", "snapshotted", "flushing"}

\* Restic only starts where every snapshot was overlooked.  A snapshot for which there is
\* no completion in the identity file, and which the execution under way has not looked
\* for yet, was left by a fault that explains no lookup so far.
RepeatInv ==
    /\ agent.pc = "restic" => snapshots[agent.command] <= misses[agent.command]
    /\ \A c \in Commands :
          snapshots[c] > 0 /\ remembered[c] = NoCompletion /\ ~LookedUp(c)
          => misses[c] < agentFaults
    /\ RepeatedSnapshotIsExplained

\* A request is about a command, and a completion says what the identity file says.
RequestFits(r) ==
    /\ r.kind # "poll" => r.command \in Commands
    /\ r.kind = "complete" => /\ remembered[r.command] # NoCompletion
                              /\ r.sequence = remembered[r.command].sequence
                              /\ r.outcome = remembered[r.command].outcome

\* While no execution was cut short, a command is executed once: its events are those of
\* the execution under way, or its completion outranks them.
Outranked(c, sequence) ==
    IF remembered[c] # NoCompletion THEN sequence < remembered[c].sequence
    ELSE agent.command = c /\ agent.pc \in Running /\ sequence <= agent.sequence

EventsOutranked ==
    agentFaults = 0 =>
        /\ \A r \in late : r.kind = "event" => Outranked(r.command, r.sequence)
        /\ \A c \in Commands : commands[c].state \notin Terminal =>
             commands[c].lastEventSequence = 0 \/ Outranked(c, commands[c].lastEventSequence)

\* A failed command whose backup is cancelled was reported as cancelled.
FailedAsCancelled ==
    serverCrashes = 0 =>
        \A c \in Commands : commands[c].state = "failed" /\ backups[c] = "cancelled"
                              => remembered[c].outcome = "cancelled"

FaultsCounted == agentFaults \in Nat /\ serverCrashes \in Nat

RemoteInv ==
    /\ TypeOK /\ FaultsCounted /\ AgentInv /\ SnapshotInv /\ RepeatInv
    /\ \A r \in late : RequestFits(r)
    /\ EventsOutranked
    /\ RecordedSuccessHasSnapshot /\ FinishedBackupHasFinishedCommand
    /\ SettledTogether /\ FailedAsCancelled /\ OneBackupInProgress
-----------------------------------------------------------------------------
(* The command table. *)

\* The rows the methods write are rows, with the state and number they say.
LEMMA RowsAreRows ==
    ASSUME NEW row \in Row, NEW t \in Tokens, NEW n \in Nat, NEW success \in BOOLEAN
    PROVE  /\ RequeuedRow(row) \in Row /\ RequeuedRow(row).state = "queued"
           /\ RequeuedRow(row).lastEventSequence = row.lastEventSequence
           /\ LeasedRow(row, t) \in Row /\ LeasedRow(row, t).state = "leased"
           /\ LeasedRow(row, t).lastEventSequence = row.lastEventSequence
           /\ RunningRow(row, n) \in Row /\ RunningRow(row, n).state = "running"
           /\ RunningRow(row, n).lastEventSequence = n
           /\ FinishedRow(row, n, success) \in Row
           /\ FinishedRow(row, n, success).state = IF success THEN "completed" ELSE "failed"
<1>0. 0 \in 0..LeaseTicks /\ LeaseTicks \in 0..LeaseTicks
  BY AgentStoreAssumption
<1> USE <1>0 DEF Row, States, Held, Terminal
<1>1. /\ RequeuedRow(row) \in Row /\ RequeuedRow(row).state = "queued"
      /\ RequeuedRow(row).lastEventSequence = row.lastEventSequence
  BY DEF RequeuedRow
<1>2. /\ LeasedRow(row, t) \in Row /\ LeasedRow(row, t).state = "leased"
      /\ LeasedRow(row, t).lastEventSequence = row.lastEventSequence
  BY DEF LeasedRow
<1>3. /\ RunningRow(row, n) \in Row /\ RunningRow(row, n).state = "running"
      /\ RunningRow(row, n).lastEventSequence = n
  BY DEF RunningRow
<1>4. /\ FinishedRow(row, n, success) \in Row
      /\ FinishedRow(row, n, success).state = IF success THEN "completed" ELSE "failed"
  BY DEF FinishedRow
<1>5. QED
  BY <1>1, <1>2, <1>3, <1>4

\* A row that is queued or out stays so; any other row keeps its state.
Quiet(old, new) ==
    /\ new.state = old.state \/ {old.state, new.state} \subseteq {"queued"} \cup Held
    /\ new.lastEventSequence = old.lastEventSequence

\* The sweep of leaseNext leaves a table, in which every row changed quietly.
LEMMA SweptIs ==
    ASSUME commands \in [Commands -> Row], NEW a
    PROVE  /\ Swept(a) \in [Commands -> Row]
           /\ \A c \in Commands : Quiet(commands[c], Swept(a)[c])
<1>1. ASSUME NEW c \in Commands PROVE RequeuedRow(commands[c]) \in Row
  <2>1. 0 \in 0..LeaseTicks
    BY AgentStoreAssumption
  <2>2. QED
    BY <2>1 DEF Row, RequeuedRow, States
<1>2. Swept(a) \in [Commands -> Row]
  BY <1>1 DEF Swept
<1>3. ASSUME NEW c \in Commands PROVE Quiet(commands[c], Swept(a)[c])
  BY DEF Swept, Quiet, RequeuedRow, Expired, Row
<1>4. QED
  BY <1>2, <1>3

\* A grant gives the token to a command that was free and to no other.
LEMMA GrantedIs ==
    ASSUME commands \in [Commands -> Row], NEW a, NEW c \in Oldest(a), NEW t \in Tokens
    PROVE  /\ Granted(a, c, t) \in [Commands -> Row]
           /\ \A d \in Commands : Quiet(commands[d], Granted(a, c, t)[d])
           /\ c \in Commands /\ Granted(a, c, t)[c].leaseOwner = t
           /\ commands[c].state \in {"queued"} \cup Held
           /\ \A d \in Commands \ {c} : Granted(a, c, t)[d].leaseOwner \in {commands[d].leaseOwner, NoToken}
<1>0. c \in Commands /\ Swept(a)[c].state = "queued"
  BY DEF Oldest, QueuedFor
<1>1. Swept(a) \in [Commands -> Row] /\ \A d \in Commands : Quiet(commands[d], Swept(a)[d])
  BY SweptIs
<1>2. /\ LeasedRow(Swept(a)[c], t) \in Row /\ LeasedRow(Swept(a)[c], t).state = "leased"
      /\ LeasedRow(Swept(a)[c], t).leaseOwner = t
      /\ LeasedRow(Swept(a)[c], t).lastEventSequence = Swept(a)[c].lastEventSequence
  <2>1. LeaseTicks \in 0..LeaseTicks
    BY AgentStoreAssumption
  <2>2. QED
    BY <1>0, <1>1, <2>1 DEF LeasedRow, Row, States, Held
<1>3. Granted(a, c, t) = [Swept(a) EXCEPT ![c] = LeasedRow(Swept(a)[c], t)]
  BY DEF Granted
<1>4. ASSUME NEW d \in Commands, d # c
      PROVE  Granted(a, c, t)[d].leaseOwner \in {commands[d].leaseOwner, NoToken}
  <2>1. Granted(a, c, t)[d] = Swept(a)[d]
    BY <1>1, <1>3, <1>4
  <2>2. QED
    BY <2>1 DEF Swept, RequeuedRow, Row
<1>5. ASSUME NEW d \in Commands PROVE Quiet(commands[d], Granted(a, c, t)[d])
  <2>1. CASE d = c
    BY <1>0, <1>1, <1>2, <1>3, <2>1 DEF Quiet, Held
  <2>2. CASE d # c
    BY <1>1, <1>3, <2>2
  <2>3. QED
    BY <2>1, <2>2
<1>6. commands[c].state \in {"queued"} \cup Held
  BY <1>0, <1>1 DEF Quiet
<1>7. QED
  BY <1>0, <1>1, <1>2, <1>3, <1>4, <1>5, <1>6
-----------------------------------------------------------------------------
(* What a step does to a command and its backup. *)

Kept(c) == Quiet(commands[c], commands'[c]) /\ backups'[c] = backups[c]

Recorded(c, r) ==
    /\ r.kind = "event" /\ c = r.command
    /\ commands[c].state \in Held /\ commands'[c].state = "running"
    /\ commands'[c].lastEventSequence = r.sequence
    /\ backups'[c] = MergedProgress(backups[c], r.sequence)

\* The command is closed, or was before; the backup follows unless the server dies.
Reported(c, r) ==
    /\ r.kind = "complete" /\ c = r.command
    /\ \/ /\ commands[c].state \in Held
          /\ commands'[c].state = IF r.outcome = "success" THEN "completed" ELSE "failed"
       \/ commands[c].state \in Terminal /\ commands'[c].state = commands[c].state
    /\ \/ serverCrashes' = serverCrashes + 1 /\ backups'[c] = backups[c]
       \/ commands'[c].state = "completed" /\ r.outcome # "success" /\ backups'[c] = backups[c]
       \/ /\ ~(commands'[c].state = "completed" /\ r.outcome # "success")
          /\ \E metadataOk \in {TRUE, c \notin Lifecycle} :
               backups'[c] = CompletedBackup(c, backups[c], commands'[c].state, r.outcome, metadataOk)

Unprepared(c) ==
    /\ commands[c].state \in {"queued"} \cup Held /\ commands'[c].state = "failed"
    /\ \/ serverCrashes' = serverCrashes + 1 /\ backups'[c] = backups[c]
       \/ backups'[c] = CompletedBackup(c, backups[c], "failed", "failure", TRUE)

\* The status the services write is a status.
LEMMA StatusIs ==
    ASSUME NEW status \in BackupStates
    PROVE  /\ \A n : MergedProgress(status, n) \in BackupStates
           /\ \A b, state, outcome, ok : CompletedBackup(b, status, state, outcome, ok) \in BackupStates
<1> USE DEF BackupStates, Active, Finished
<1>1. ASSUME NEW n PROVE MergedProgress(status, n) \in BackupStates
  BY DEF MergedProgress
<1>2. ASSUME NEW b, NEW state, NEW outcome, NEW ok
      PROVE  CompletedBackup(b, status, state, outcome, ok) \in BackupStates
  BY DEF CompletedBackup
<1>3. QED
  BY <1>1, <1>2

\* A request that is served changes at most the row of its command; the rest is quiet.
LEMMA ServeIs ==
    ASSUME TypeOK, FaultsCounted, NEW r \in Requests, r.kind # "poll" => r.command \in Commands,
           NEW answer, Serve(r, answer)
    PROVE  /\ commands' \in [Commands -> Row]
           /\ serverCrashes' \in {serverCrashes, serverCrashes + 1}
           /\ \A c \in Commands : Kept(c) \/ Recorded(c, r) \/ Reported(c, r) \/ Unprepared(c)
<1>0. commands \in [Commands -> Row] /\ backups \in [Commands -> BackupStates]
  BY DEF TypeOK
<1>a. ASSUME NEW c \in Commands PROVE Quiet(commands[c], commands[c])
  BY DEF Quiet
<1>1. CASE r.kind = "poll"
  <2> DEFINE t == FreshToken
  <2>1. t \in Tokens
    BY <1>1 DEF Serve, FreshToken, FreshTokens
  <2>2. PICK c \in Commands : ServePoll(c, t, answer)
    BY <1>1 DEF Serve
  <2> HIDE DEF t
  <2>3. CASE ServeIdlePoll(answer)
    BY <1>0, <2>3, SweptIs DEF ServeIdlePoll, LeaseNone, Kept
  <2>4. CASE ServeGrant(c, t, answer)
    BY <1>0, <2>1, <2>4, GrantedIs DEF ServeGrant, LeaseGrant, Kept
  <2>5. CASE ServeUnpreparable(c, t, answer)
    <3> DEFINE table == Granted(AgentOf[c], c, t)
               row   == FinishedRow(table[c], table[c].lastEventSequence + 1, FALSE)
    <3>1. /\ table \in [Commands -> Row] /\ commands[c].state \in {"queued"} \cup Held
          /\ \A d \in Commands : Quiet(commands[d], table[d])
      BY <1>0, <2>1, <2>5, GrantedIs DEF ServeUnpreparable
    <3>2. commands' = [table EXCEPT ![c] = row]
      BY <2>5 DEF ServeUnpreparable
    <3>3. row \in Row /\ row.state = "failed"
      <4>1. table[c].lastEventSequence + 1 \in Nat
        BY <3>1 DEF Row
      <4>2. QED
        BY <3>1, <4>1 DEF FinishedRow, Row, States, Terminal
    <3> HIDE DEF table, row
    <3>4. commands' \in [Commands -> Row]
      BY <3>1, <3>2, <3>3
    <3>5. ASSUME NEW d \in Commands, d # c PROVE Kept(d)
      BY <1>0, <2>5, <3>1, <3>2, <3>5 DEF ServeUnpreparable, Kept
    <3>6. Unprepared(c)
      BY <1>0, <2>5, <3>1, <3>2, <3>3 DEF ServeUnpreparable, Unprepared
    <3>7. serverCrashes' \in {serverCrashes, serverCrashes + 1}
      BY <2>5 DEF ServeUnpreparable
    <3>8. QED
      BY <3>4, <3>5, <3>6, <3>7
  <2>6. QED
    BY <2>2, <2>3, <2>4, <2>5 DEF ServePoll
<1> DEFINE c == r.command
<1>2. CASE r.kind = "ack"
  <2>1. c \in Commands /\ ServeAck(r, answer)
    BY <1>2 DEF Serve
  <2>2. CASE commands' = commands
    BY <1>0, <1>a, <2>1, <2>2 DEF ServeAck, Kept
  <2>3. CASE AcknowledgeCommand(c, r.token)
    <3>1. /\ commands' \in [Commands -> Row]
          /\ Quiet(commands[c], commands'[c]) /\ \A d \in Commands \ {c} : commands'[d] = commands[d]
      BY <1>0, <2>1, <2>3 DEF AcknowledgeCommand, CanAcknowledge, Quiet, Row, States, Held
    <3>2. QED
      BY <1>a, <2>1, <3>1 DEF ServeAck, Kept
  <2>4. QED
    BY <2>1, <2>2, <2>3 DEF ServeAck
<1>3. CASE r.kind = "status"
  <2>1. c \in Commands /\ ServeStatus(r, answer)
    BY <1>3 DEF Serve
  <2>2. CASE commands' = commands
    BY <1>0, <1>a, <2>1, <2>2 DEF ServeStatus, Kept
  <2>3. CASE GetCommandStatus(c, r.token)
    <3>0. LeaseTicks \in 0..LeaseTicks
      BY AgentStoreAssumption
    <3>1. /\ commands' \in [Commands -> Row]
          /\ Quiet(commands[c], commands'[c]) /\ \A d \in Commands \ {c} : commands'[d] = commands[d]
      BY <1>0, <2>1, <2>3, <3>0 DEF GetCommandStatus, Quiet, Row
    <3>2. QED
      BY <1>a, <2>1, <3>1 DEF ServeStatus, Kept
  <2>4. QED
    BY <2>1, <2>2, <2>3 DEF ServeStatus
<1>4. CASE r.kind = "event"
  <2>1. c \in Commands /\ ServeEvent(r, answer) /\ r.sequence \in Nat
    BY <1>4, RemoteBackupAssumption DEF Serve, Requests
  <2>2. CASE UNCHANGED serverVars
    BY <1>0, <1>a, <2>1, <2>2 DEF ServeEvent, Kept, serverVars
  <2>3. CASE /\ RecordCommandEvent(c, r.token, r.sequence)
             /\ backups' = [backups EXCEPT ![c] = MergedProgress(@, r.sequence)]
    <3>1. /\ RunningRow(commands[c], r.sequence) \in Row
          /\ RunningRow(commands[c], r.sequence).state = "running"
          /\ RunningRow(commands[c], r.sequence).lastEventSequence = r.sequence
      <4>1. LeaseTicks \in 0..LeaseTicks
        BY AgentStoreAssumption
      <4>2. QED
        BY <1>0, <2>1, <4>1 DEF RunningRow, Row, States, Held
    <3>2. /\ commands' = [commands EXCEPT ![c] = RunningRow(commands[c], r.sequence)]
          /\ commands[c].state \in Held
      BY <2>3 DEF RecordCommandEvent, CanRecord
    <3>3. Recorded(c, r) /\ commands' \in [Commands -> Row]
      BY <1>0, <1>4, <2>1, <2>3, <3>1, <3>2 DEF Recorded
    <3>4. ASSUME NEW d \in Commands, d # c PROVE Kept(d)
      BY <1>0, <1>a, <2>3, <3>2, <3>4 DEF Kept
    <3>5. QED
      BY <2>1, <3>3, <3>4 DEF ServeEvent
  <2>4. QED
    BY <2>1, <2>2, <2>3 DEF ServeEvent
<1>5. CASE r.kind = "complete"
  <2>1. c \in Commands /\ ServeComplete(r, answer) /\ r.sequence \in Nat
    BY <1>5, RemoteBackupAssumption DEF Serve, Requests
  <2>2. CASE UNCHANGED <<commands, backups, serverCrashes>>
    BY <1>0, <1>a, <2>2 DEF Kept
  <2>3. CASE ~UNCHANGED <<commands, backups, serverCrashes>>
    <3>1. /\ \/ CompleteCommand(c, r.token, r.sequence, r.outcome = "success")
             \/ commands[c].state \in Terminal /\ UNCHANGED commands
          /\ \/ /\ UNCHANGED serverCrashes
                /\ \E metadataOk \in {TRUE, c \notin Lifecycle} :
                      backups' = IF commands'[c].state = "completed" /\ r.outcome # "success"
                                 THEN backups
                                 ELSE [backups EXCEPT ![c] =
                                    CompletedBackup(c, @, commands'[c].state, r.outcome, metadataOk)]
             \/ serverCrashes' = serverCrashes + 1 /\ UNCHANGED backups
      BY <2>1, <2>3, Zenon DEF ServeComplete
    <3>2. /\ commands' \in [Commands -> Row]
          /\ \A d \in Commands \ {c} : commands'[d] = commands[d]
          /\ \/ /\ commands[c].state \in Held
                /\ commands'[c].state = IF r.outcome = "success" THEN "completed" ELSE "failed"
             \/ commands[c].state \in Terminal /\ commands'[c].state = commands[c].state
      <4>1. CASE CompleteCommand(c, r.token, r.sequence, r.outcome = "success")
        <5> DEFINE row == FinishedRow(commands[c], r.sequence, r.outcome = "success")
        <5>1. row \in Row /\ row.state = IF r.outcome = "success" THEN "completed" ELSE "failed"
          BY <1>0, <2>1 DEF FinishedRow, Row, States, Terminal
        <5>2. commands' = [commands EXCEPT ![c] = row] /\ commands[c].state \in Held
          BY <4>1, Zenon DEF CompleteCommand, CanComplete, CanRecord
        <5> HIDE DEF row
        <5>3. QED
          BY <1>0, <2>1, <5>1, <5>2
      <4>2. CASE commands[c].state \in Terminal /\ UNCHANGED commands
        BY <1>0, <4>2
      <4>3. QED
        BY <3>1, <4>1, <4>2
    <3>3. ASSUME NEW d \in Commands, d # c PROVE Kept(d)
      BY <1>0, <1>a, <3>1, <3>2, <3>3 DEF Kept
    <3>4. Reported(c, r)
      BY <1>0, <1>5, <2>1, <3>1, <3>2 DEF Reported
    <3>5. QED
      BY <2>1, <3>1, <3>2, <3>3, <3>4
  <2>4. QED
    BY <2>2, <2>3
<1>6. QED
  BY <1>1, <1>2, <1>3, <1>4, <1>5 DEF Requests

\* The Backup rows stay rows.
LEMMA ServeBackups ==
    ASSUME TypeOK, NEW r \in Requests, r.kind # "poll" => r.command \in Commands,
           NEW answer, Serve(r, answer)
    PROVE  backups' \in [Commands -> BackupStates]
<1>0. backups \in [Commands -> BackupStates]
  BY DEF TypeOK
<1>1. CASE r.kind = "poll"
  <2>1. PICK c \in Commands : ServePoll(c, FreshToken, answer)
    BY <1>1 DEF Serve
  <2>2. \/ backups' = backups
        \/ backups' = [backups EXCEPT ![c] = CompletedBackup(c, @, "failed", "failure", TRUE)]
    BY <2>1, Zenon DEF ServePoll, ServeIdlePoll, ServeGrant, ServeUnpreparable
  <2> DEFINE status == CompletedBackup(c, backups[c], "failed", "failure", TRUE)
  <2>3. status \in BackupStates
    BY <1>0, StatusIs, Zenon
  <2>4. backups' = backups \/ backups' = [backups EXCEPT ![c] = status]
    BY <2>2
  <2> HIDE DEF status
  <2>5. QED
    BY <1>0, <2>3, <2>4
<1>2. CASE r.kind \in {"ack", "status"}
  BY <1>0, <1>2 DEF Serve, ServeAck, ServeStatus
<1>3. CASE r.kind = "event"
  <2>1. ServeEvent(r, answer)
    BY <1>3 DEF Serve
  <2>2. \/ backups' = backups
        \/ backups' = [backups EXCEPT ![r.command] = MergedProgress(@, r.sequence)]
    BY <2>1, Zenon DEF ServeEvent, serverVars
  <2>3. QED
    BY <1>0, <1>3, <2>2, StatusIs
<1>4. CASE r.kind = "complete"
  <2>1. ServeComplete(r, answer)
    BY <1>4 DEF Serve
  <2>2. \/ backups' = backups
        \/ \E ok \in {TRUE, r.command \notin Lifecycle} : backups' = [backups EXCEPT ![r.command] =
                CompletedBackup(r.command, @, commands'[r.command].state, r.outcome, ok)]
    BY <2>1, Zenon DEF ServeComplete
  <2>3. CASE backups' = backups
    BY <1>0, <2>3
  <2>4. CASE backups' # backups
    <3>1. PICK ok \in {TRUE, r.command \notin Lifecycle} : backups' = [backups EXCEPT ![r.command] =
                CompletedBackup(r.command, @, commands'[r.command].state, r.outcome, ok)]
      BY <2>2, <2>4
    <3> DEFINE status == CompletedBackup(r.command, backups[r.command], commands'[r.command].state, r.outcome, ok)
    <3>2. status \in BackupStates
      BY <1>0, <1>4, StatusIs, Zenon
    <3>3. backups' = [backups EXCEPT ![r.command] = status]
      BY <3>1
    <3> HIDE DEF status
    <3>4. QED
      BY <1>0, <3>2, <3>3
  <2>5. QED
    BY <2>3, <2>4
<1>5. QED
  BY <1>1, <1>2, <1>3, <1>4 DEF Requests

\* Only a poll is granted, with a fresh token for a command of the table.
LEMMA GrantIs ==
    ASSUME TypeOK, NEW r \in Requests, Serve(r, "granted")
    PROVE  /\ r.kind = "poll" /\ FreshToken \in Tokens
           /\ \E c \in Commands : commands'[c].leaseOwner = FreshToken
<1>0. commands \in [Commands -> Row]
  BY DEF TypeOK
<1>1. r.kind = "poll"
  <2>1. CASE r.kind = "ack"
    BY <2>1 DEF Serve, ServeAck
  <2>2. CASE r.kind = "status"
    BY <2>2 DEF Serve, ServeStatus
  <2>3. CASE r.kind = "event"
    BY <2>3 DEF Serve, ServeEvent
  <2>4. CASE r.kind = "complete"
    BY <2>4 DEF Serve, ServeComplete
  <2>5. QED
    BY <2>1, <2>2, <2>3, <2>4 DEF Requests
<1>2. FreshToken \in Tokens
  BY <1>1 DEF Serve, FreshToken, FreshTokens
<1>3. PICK c \in Commands : ServePoll(c, FreshToken, "granted")
  BY <1>1 DEF Serve
<1>4. LeaseGrant(AgentOf[c], c, FreshToken)
  BY <1>3 DEF ServePoll, ServeIdlePoll, ServeGrant, ServeUnpreparable
<1>5. QED
  BY <1>0, <1>1, <1>2, <1>4, GrantedIs DEF LeaseGrant

\* What the agent sends on a channel is a request that fits what it remembers.
LEMMA RequestIs ==
    ASSUME TypeOK, AgentInv, NEW ch \in Channels, chan[ch] = "sent"
    PROVE  /\ RequestOn(ch) \in Requests /\ RequestFits(RequestOn(ch))
           /\ RequestOn(ch).kind = "poll" <=> ch = "main" /\ agent.pc = "polling"
           /\ RequestOn(ch).kind = "event" <=> ch = "event"
           /\ ch = "event" => /\ agent.pc \in Running /\ remembered[agent.command] = NoCompletion
                              /\ RequestOn(ch).command = agent.command
                              /\ RequestOn(ch).sequence = agent.sequence
<1>0. /\ agent \in [pc : Pcs, command : Commands \cup {NoCommand},
                    token : Tokens \cup {NoToken}, sequence : 0..MaxEvents,
                    verdict : Outcomes \cup {"none"}]
      /\ 0 \in 0..MaxEvents + 1 /\ agent.sequence \in 0..MaxEvents + 1 /\ MaxEvents \in Nat
  BY RemoteBackupAssumption DEF TypeOK
<1>1. CASE ch = "event"
  <2>1. agent.pc \in Running /\ agent.command \in Commands /\ remembered[agent.command] = NoCompletion
    BY <1>1 DEF AgentInv, Working
  <2>2. RequestOn(ch) = [kind |-> "event", command |-> agent.command, token |-> agent.token,
                         sequence |-> agent.sequence, outcome |-> "none"]
    BY <1>1 DEF RequestOn
  <2>3. QED
    BY <1>0, <1>1, <2>1, <2>2 DEF Requests, RequestFits
<1>2. CASE ch = "status"
  <2>1. agent.command \in Commands
    BY <1>2 DEF TypeOK, AgentInv, Working, Running
  <2>2. RequestOn(ch) = [kind |-> "status", command |-> agent.command, token |-> agent.token,
                         sequence |-> 0, outcome |-> "none"]
    BY <1>2 DEF RequestOn
  <2>3. QED
    BY <1>0, <1>2, <2>1, <2>2 DEF Requests, RequestFits
<1>3. CASE ch = "main" /\ agent.pc = "polling"
  BY <1>0, <1>3 DEF RequestOn, Requests, RequestFits
<1>4. CASE ch = "main" /\ agent.pc = "acking"
  <2>1. agent.command \in Commands
    BY <1>4 DEF AgentInv, Working
  <2>2. QED
    BY <1>0, <1>4, <2>1 DEF RequestOn, Requests, RequestFits
<1>5. CASE ch = "main" /\ agent.pc \notin {"polling", "acking"}
  <2>1. agent.pc \in {"completing", "resending"}
    BY <1>0, <1>5 DEF TypeOK, Pcs
  <2>2. agent.command \in Commands /\ remembered[agent.command] # NoCompletion
    BY <2>1 DEF AgentInv, Working
  <2>3. remembered[agent.command] \in Completions
    BY <2>2 DEF TypeOK
  <2>4. QED
    BY <1>0, <1>5, <2>2, <2>3 DEF RequestOn, Requests, RequestFits, Completions
<1>6. QED
  BY <1>1, <1>2, <1>3, <1>4, <1>5 DEF Channels

-----------------------------------------------------------------------------
(* The two rows of a backup. *)

\* The properties of the command and the Backup row, for one backup.
RowsInv(c) ==
    /\ backups[c] = "completed" => snapshots[c] > 0
    /\ backups[c] \in Finished => commands[c].state \in Terminal
    /\ serverCrashes = 0 =>
         /\ commands[c].state = "completed" =>
              backups[c] = "completed" \/ (c \in Lifecycle /\ backups[c] = "failed")
         /\ commands[c].state = "failed" =>
              \/ backups[c] = "failed"
              \/ backups[c] = "cancelled" /\ remembered[c].outcome = "cancelled"
         /\ commands[c].state = "cancelled" =>
              backups[c] = "cancelled" \/ (c \in Lifecycle /\ backups[c] = "completed")

\* They are the properties of all backups.
LEMMA RowsInvIs ==
    (\A c \in Commands : RowsInv(c)) <=>
      /\ RecordedSuccessHasSnapshot /\ FinishedBackupHasFinishedCommand
      /\ SettledTogether /\ FailedAsCancelled
<1>1. ASSUME \A c \in Commands : RowsInv(c)
      PROVE  /\ RecordedSuccessHasSnapshot /\ FinishedBackupHasFinishedCommand
             /\ SettledTogether /\ FailedAsCancelled
  <2>1. RecordedSuccessHasSnapshot /\ FinishedBackupHasFinishedCommand
    BY <1>1 DEF RowsInv, RecordedSuccessHasSnapshot, FinishedBackupHasFinishedCommand
  <2>2. SettledTogether
    BY <1>1 DEF RowsInv, SettledTogether, Terminal
  <2>3. FailedAsCancelled
    BY <1>1 DEF RowsInv, FailedAsCancelled
  <2>4. QED
    BY <2>1, <2>2, <2>3
<1>2. ASSUME RecordedSuccessHasSnapshot, FinishedBackupHasFinishedCommand,
             SettledTogether, FailedAsCancelled, NEW c \in Commands
      PROVE  RowsInv(c)
  <2>1. /\ backups[c] = "completed" => snapshots[c] > 0
        /\ backups[c] \in Finished => commands[c].state \in Terminal
    BY <1>2 DEF RecordedSuccessHasSnapshot, FinishedBackupHasFinishedCommand
  <2>2. ASSUME serverCrashes = 0
        PROVE  /\ commands[c].state = "completed" =>
                     backups[c] = "completed" \/ (c \in Lifecycle /\ backups[c] = "failed")
               /\ commands[c].state = "failed" => backups[c] \in {"failed", "cancelled"}
               /\ commands[c].state = "cancelled" =>
                     backups[c] = "cancelled" \/ (c \in Lifecycle /\ backups[c] = "completed")
    BY <1>2, <2>2 DEF SettledTogether
  <2>3. ASSUME serverCrashes = 0, commands[c].state = "failed", backups[c] = "cancelled"
        PROVE  remembered[c].outcome = "cancelled"
    BY <1>2, <2>3 DEF FailedAsCancelled
  <2>4. QED
    BY <2>1, <2>2, <2>3 DEF RowsInv
<1>3. QED
  BY <1>1, <1>2

\* A step that leaves both rows and the crash count alone, or the rows of a command that
\* is queued or out, keeps their invariant.
LEMMA KeptRows ==
    ASSUME NEW c \in Commands, RowsInv(c), Kept(c), FaultsCounted,
           serverCrashes' \in {serverCrashes, serverCrashes + 1},
           snapshots'[c] >= snapshots[c], snapshots \in [Commands -> Nat],
           snapshots' \in [Commands -> Nat],
           remembered'[c] = remembered[c] \/ remembered[c] = NoCompletion
    PROVE  RowsInv(c)'
  BY DEF RowsInv, Kept, Quiet, FaultsCounted, Held, Terminal, NoCompletion

\* A request that is served keeps the invariant of the two rows.
LEMMA ServedRows ==
    ASSUME TypeOK, FaultsCounted, SnapshotInv, NEW c \in Commands, RowsInv(c),
           NEW r, RequestFits(r), UNCHANGED <<remembered, snapshots>>,
           serverCrashes' \in {serverCrashes, serverCrashes + 1},
           Kept(c) \/ Recorded(c, r) \/ Reported(c, r) \/ Unprepared(c)
    PROVE  /\ RowsInv(c)'
           /\ backups'[c] \in Active => backups[c] \in Active
           /\ backups[c] \in Finished => \/ backups'[c] = backups[c]
                                         \/ c \in Lifecycle /\ backups[c] = "cancelled" /\ backups'[c] = "completed"
           /\ \/ commands'[c].state \in Terminal
              \/ commands[c].state \notin Terminal /\ commands'[c].lastEventSequence = commands[c].lastEventSequence
              \/ r.kind = "event" /\ c = r.command /\ commands'[c].lastEventSequence = r.sequence
<1>0. /\ backups[c] \in BackupStates /\ snapshots \in [Commands -> Nat]
      /\ Lifecycle \subseteq Commands
  BY RemoteBackupAssumption DEF TypeOK
<1>1. CASE Kept(c)
  BY <1>0, <1>1, KeptRows DEF Kept, Quiet, Held, Terminal
<1>2. CASE Recorded(c, r)
  BY <1>0, <1>2 DEF Recorded, RowsInv, MergedProgress, Active, Finished, Held, Terminal, BackupStates, FaultsCounted
<1>3. CASE Reported(c, r)
  <2>1. r.outcome = remembered[c].outcome /\ (r.outcome = "success" => snapshots[c] > 0)
    BY <1>3 DEF Reported, RequestFits, SnapshotInv
  <2>2. CASE backups'[c] = backups[c] /\ serverCrashes' = serverCrashes + 1
    BY <1>0, <1>3, <2>2 DEF Reported, RowsInv, Held, Terminal, FaultsCounted
  <2>3. CASE commands'[c].state = "completed" /\ r.outcome # "success" /\ backups'[c] = backups[c]
    BY <1>0, <1>3, <2>3 DEF Reported, RowsInv, Held, Terminal, FaultsCounted
  <2>4. CASE /\ ~(commands'[c].state = "completed" /\ r.outcome # "success")
             /\ \E metadataOk \in {TRUE, c \notin Lifecycle} :
                  backups'[c] = CompletedBackup(c, backups[c], commands'[c].state, r.outcome, metadataOk)
    <3>1. PICK ok \in BOOLEAN : /\ ok \/ c \in Lifecycle
              /\ backups'[c] = CompletedBackup(c, backups[c], commands'[c].state, r.outcome, ok)
      BY <1>0, <2>4
    <3>2. \/ /\ commands[c].state \in Held
             /\ commands'[c].state = IF r.outcome = "success" THEN "completed" ELSE "failed"
          \/ commands[c].state \in Terminal /\ commands'[c].state = commands[c].state
      BY <1>3 DEF Reported
    <3>3. commands'[c].state \in Terminal
      BY <3>2 DEF Terminal
    <3>4. /\ backups'[c] \in Active => backups[c] \in Active
          /\ backups[c] \in Finished => \/ backups'[c] = backups[c]
                                        \/ c \in Lifecycle /\ backups[c] = "cancelled" /\ backups'[c] = "completed"
      BY <1>0, <3>1 DEF CompletedBackup, Finished, Active
    <3>5. RowsInv(c)'
      <4>0. serverCrashes' = 0 => serverCrashes = 0
        BY DEF FaultsCounted
      <4>1. /\ backups'[c] = "completed" => snapshots'[c] > 0
            /\ backups'[c] \in Finished => commands'[c].state \in Terminal
        BY <1>0, <2>1, <3>1, <3>3 DEF CompletedBackup, RowsInv, Finished
      <4>2. CASE commands[c].state \in Held
        <5>1. backups[c] \notin Finished
          BY <4>2 DEF RowsInv, Held, Terminal
        <5>2. backups'[c] = IF r.outcome = "success" THEN IF ok THEN "completed" ELSE "failed"
                            ELSE IF r.outcome = "cancelled" THEN "cancelled" ELSE "failed"
          BY <3>1, <3>2, <4>2, <5>1 DEF CompletedBackup, Held, Terminal, Finished
        <5>3. QED
          <6>1. CASE r.outcome = "success"
            <7>1. commands'[c].state = "completed"
              BY <3>2, <4>2, <6>1 DEF Held, Terminal
            <7>2. CASE ok
              <8>1. backups'[c] = "completed"
                BY <5>2, <6>1, <7>2, Zenon
              <8>2. commands'[c].state # "failed" /\ commands'[c].state # "cancelled"
                BY <7>1
              <8>3. QED
                BY <4>1, <7>1, <8>1, <8>2, Zenon DEF RowsInv
            <7>3. CASE ~ok
              <8>1. c \in Lifecycle /\ backups'[c] = "failed"
                BY <3>1, <5>2, <6>1, <7>3, Zenon
              <8>2. QED
                BY <4>1, <7>1, <8>1 DEF RowsInv
            <7>4. QED
              BY <7>2, <7>3
          <6>2. CASE r.outcome # "success"
            <7>1. commands'[c].state = "failed"
              BY <3>2, <4>2, <6>2 DEF Held, Terminal
            <7>2. \/ backups'[c] = "failed"
                  \/ backups'[c] = "cancelled" /\ remembered'[c].outcome = "cancelled"
              BY <2>1, <5>2, <6>2
            <7>3. QED
              BY <4>1, <7>1, <7>2 DEF RowsInv
          <6>3. QED
            BY <6>1, <6>2
      <4>3. CASE commands[c].state \in Terminal /\ commands'[c].state = commands[c].state
        <5>1. ASSUME serverCrashes' = 0, commands'[c].state = "completed"
              PROVE  backups'[c] = "completed" \/ (c \in Lifecycle /\ backups'[c] = "failed")
          BY <3>1, <4>0, <4>3, <5>1 DEF RowsInv, CompletedBackup, Finished
        <5>2. ASSUME serverCrashes' = 0, commands'[c].state = "failed"
              PROVE  \/ backups'[c] = "failed"
                     \/ backups'[c] = "cancelled" /\ remembered[c].outcome = "cancelled"
          BY <2>1, <3>1, <4>0, <4>3, <5>2 DEF RowsInv, CompletedBackup, Finished
        <5>3. ASSUME serverCrashes' = 0, commands'[c].state = "cancelled"
              PROVE  backups'[c] = "cancelled" \/ (c \in Lifecycle /\ backups'[c] = "completed")
          BY <3>1, <4>0, <4>3, <5>3 DEF RowsInv, CompletedBackup, Finished
        <5>4. QED
          BY <4>1, <5>1, <5>2, <5>3 DEF RowsInv
      <4>4. QED
        BY <3>2, <4>2, <4>3
    <3>6. QED
      BY <3>3, <3>4, <3>5
  <2>5. QED
    BY <1>3, <2>2, <2>3, <2>4 DEF Reported
<1>4. CASE Unprepared(c)
  BY <1>0, <1>4 DEF Unprepared, RowsInv, CompletedBackup, Active, Finished, Held, Terminal, BackupStates, FaultsCounted
<1>5. QED
  BY <1>1, <1>2, <1>3, <1>4

-----------------------------------------------------------------------------
(* Requests that are under way. *)

\* What the agent sends on its channels.
Sent == {RequestOn(ch) : ch \in {x \in Channels : chan[x] = "sent"}}

\* An event is outranked, in the sense of EventsOutranked.
EventOutranked(r) == agentFaults = 0 /\ r.kind = "event" => Outranked(r.command, r.sequence)

\* The part of the invariant that is about the requests nobody waits for.
LatePart == late \subseteq Requests /\ \A r \in late : RequestFits(r) /\ EventOutranked(r)

\* The identity file forgets nothing, and the numbers that are outranked stay so.
Progresses ==
    /\ \A c \in Commands : remembered[c] # NoCompletion => remembered'[c] = remembered[c]
    /\ agentFaults' \in {agentFaults, agentFaults + 1}
    /\ agentFaults' = 0 =>
         \A c \in Commands, n \in Nat : Outranked(c, n) => Outranked(c, n)'

\* A request on a channel fits the identity file, and its number is outranked.
LEMMA SentFits ==
    ASSUME RemoteInv, NEW r \in late \cup Sent
    PROVE  r \in Requests /\ RequestFits(r) /\ EventOutranked(r)
<1>1. CASE r \in late
  BY <1>1 DEF RemoteInv, TypeOK, EventsOutranked, EventOutranked
<1>2. CASE r \in Sent
  <2>1. PICK ch \in Channels : chan[ch] = "sent" /\ r = RequestOn(ch)
    BY <1>2 DEF Sent
  <2>2. /\ TypeOK /\ AgentInv
        /\ agent.sequence \in 0..MaxEvents
    BY DEF RemoteInv, TypeOK
  <2>3. /\ r \in Requests /\ RequestFits(r)
        /\ r.kind = "event" => /\ agent.pc \in Running /\ remembered[agent.command] = NoCompletion
                               /\ r.command = agent.command /\ r.sequence = agent.sequence
    BY <2>1, <2>2, RequestIs
  <2>4. QED
    BY <2>2, <2>3, RemoteBackupAssumption DEF EventOutranked, Outranked
<1>3. QED
  BY <1>1, <1>2

\* Requests the agent gives up on keep fitting while the agent progresses.
LEMMA LateStep ==
    ASSUME RemoteInv, Progresses, late' \subseteq late \cup Sent
    PROVE  LatePart'
<1>1. ASSUME NEW r \in late' PROVE r \in Requests /\ RequestFits(r)' /\ EventOutranked(r)'
  <2>1. r \in Requests /\ RequestFits(r) /\ EventOutranked(r)
    BY <1>1, SentFits
  <2>2. RequestFits(r)'
    BY <2>1 DEF Progresses, RequestFits
  <2>3. ASSUME agentFaults' = 0, r.kind = "event" PROVE Outranked(r.command, r.sequence)'
    <3>1. agentFaults = 0 /\ r.command \in Commands /\ r.sequence \in Nat
      BY <2>1, <2>3, RemoteBackupAssumption DEF Progresses, RemoteInv, FaultsCounted, Requests, RequestFits
    <3>2. Outranked(r.command, r.sequence)
      BY <2>1, <2>3, <3>1 DEF EventOutranked
    <3>3. QED
      BY <2>3, <3>1, <3>2 DEF Progresses
  <2>4. QED
    BY <2>1, <2>2, <2>3 DEF EventOutranked
<1>2. QED
  BY <1>1 DEF LatePart

\* The part of the invariant that is about the agent.
AgentPart ==
    /\ agent \in [pc : Pcs, command : Commands \cup {NoCommand},
                  token : Tokens \cup {NoToken}, sequence : 0..MaxEvents,
                  verdict : Outcomes \cup {"none"}]
    /\ chan \in [Channels -> Replies \cup {"none", "sent", "lost"}]
    /\ remembered \in [Commands -> Completions \cup {NoCompletion}]
    /\ snapshots \in [Commands -> Nat]
    /\ chan["main"] # "none" <=> agent.pc \notin Executing \cup {"idle", "flushing"}
    /\ chan["status"] # "none" => agent.pc \in Executing
    /\ AgentInv /\ SnapshotInv

\* The part that is about repeated snapshots.
RepeatPart == misses \in [Commands -> 0..MaxMisses] /\ RepeatInv

\* The part that is about the control plane.
ServerPart ==
    /\ commands \in [Commands -> Row] /\ backups \in [Commands -> BackupStates]
    /\ \A c \in Commands : RowsInv(c)
    /\ agentFaults = 0 =>
          \A c \in Commands : commands[c].state \notin Terminal =>
             commands[c].lastEventSequence = 0 \/ Outranked(c, commands[c].lastEventSequence)
    /\ OneBackupInProgress

\* The parts make the invariant.
LEMMA Parts ==
    RemoteInv <=> AgentPart /\ RepeatPart /\ ServerPart /\ LatePart /\ FaultsCounted
<1>1. ASSUME RemoteInv
      PROVE  AgentPart /\ RepeatPart /\ ServerPart /\ LatePart /\ FaultsCounted
  <2>1. AgentPart
    BY <1>1 DEF RemoteInv, TypeOK, AgentPart
  <2>2. ServerPart
    BY <1>1, RowsInvIs DEF RemoteInv, TypeOK, ServerPart, EventsOutranked
  <2>3. RepeatPart
    BY <1>1 DEF RemoteInv, TypeOK, RepeatPart
  <2>4. QED
    BY <1>1, <2>1, <2>2, <2>3 DEF RemoteInv, TypeOK, EventsOutranked, EventOutranked, LatePart
<1>2. ASSUME AgentPart, RepeatPart, ServerPart, LatePart, FaultsCounted
      PROVE  RemoteInv
  <2>1. TypeOK
    BY <1>2 DEF TypeOK, AgentPart, RepeatPart, ServerPart, LatePart
  <2>2. EventsOutranked
    BY <1>2 DEF EventsOutranked, EventOutranked, ServerPart, LatePart
  <2>3. /\ RecordedSuccessHasSnapshot /\ FinishedBackupHasFinishedCommand
        /\ SettledTogether /\ FailedAsCancelled
    BY <1>2, RowsInvIs DEF ServerPart
  <2>4. QED
    BY <1>2, <2>1, <2>2, <2>3 DEF RemoteInv, AgentPart, RepeatPart, ServerPart, LatePart
<1>3. QED
  BY <1>1, <1>2

\* What is left to show of a step of the agent alone.
LEMMA AgentStep ==
    ASSUME RemoteInv, Progresses, late' \subseteq late \cup Sent, AgentPart', RepeatPart',
           UNCHANGED <<serverVars, serverCrashes>>,
           \A c \in Commands : snapshots'[c] >= snapshots[c]
    PROVE  RemoteInv'
<1>1. LatePart'
  BY LateStep
<1>2. AgentPart /\ ServerPart /\ FaultsCounted
  BY Parts
<1>3. FaultsCounted'
  BY <1>2 DEF FaultsCounted, Progresses
<1>4. ServerPart'
  <2>1. commands' = commands /\ backups' = backups
    BY DEF serverVars
  <2>2. ASSUME NEW c \in Commands PROVE RowsInv(c)'
    <3>1. Kept(c)
      BY <2>1 DEF Kept, Quiet
    <3>2. QED
      BY <1>2, <3>1, KeptRows DEF AgentPart, ServerPart, Progresses
  <2>3. ASSUME agentFaults' = 0, NEW c \in Commands, commands[c].state \notin Terminal
        PROVE  commands[c].lastEventSequence = 0 \/ Outranked(c, commands[c].lastEventSequence)'
    <3>1. agentFaults = 0 /\ commands[c].lastEventSequence \in Nat
      BY <1>2, <2>3 DEF FaultsCounted, Progresses, ServerPart, Row
    <3>2. QED
      BY <1>2, <2>1, <2>3, <3>1 DEF ServerPart, Progresses, Outranked
  <2>4. OneBackupInProgress'
    BY <1>2, <2>1 DEF ServerPart, OneBackupInProgress
  <2>5. QED
    BY <1>2, <2>1, <2>2, <2>3, <2>4 DEF ServerPart
<1>5. QED
  BY <1>1, <1>3, <1>4, Parts, PTL

\* A step keeps what is known of repeated snapshots when it starts no restic and an
\* execution past its lookup stays so, is remembered or is cut short by a fault.
RepeatsKept ==
    /\ agent'.pc = "restic" => agent.pc = "restic" /\ agent'.command = agent.command
    /\ \A c \in Commands : LookedUp(c) =>
          LookedUp(c)' \/ remembered'[c] # NoCompletion \/ agentFaults' = agentFaults + 1

\* Such a step, if it leaves the snapshots and the misses alone.
LEMMA QuietRepeats ==
    ASSUME AgentPart, RepeatPart, FaultsCounted, Progresses, RepeatsKept,
           UNCHANGED <<snapshots, misses>>
    PROVE  RepeatPart'
<1>1. /\ misses \in [Commands -> 0..MaxMisses] /\ MaxMisses \in Nat
      /\ agentFaults \in Nat /\ agentFaults' \in {agentFaults, agentFaults + 1}
  BY RemoteBackupAssumption DEF RepeatPart, FaultsCounted, Progresses
<1>2. agent'.pc = "restic" => snapshots'[agent'.command] <= misses'[agent'.command]
  BY DEF RepeatPart, RepeatInv, RepeatsKept
<1>3. ASSUME NEW c \in Commands, snapshots[c] > 0, remembered'[c] = NoCompletion, ~LookedUp(c)'
      PROVE  misses[c] < agentFaults'
  <2>0. remembered[c] = NoCompletion /\ misses[c] \in Nat
    BY <1>1, <1>3 DEF Progresses
  <2>1. CASE LookedUp(c)
    <3>1. agentFaults' = agentFaults + 1
      BY <1>3, <2>1 DEF RepeatsKept
    <3>2. misses[c] <= agentFaults
      BY DEF RepeatPart, RepeatInv, RepeatedSnapshotIsExplained
    <3>3. QED
      BY <1>1, <2>0, <3>1, <3>2
  <2>2. CASE ~LookedUp(c)
    <3>1. misses[c] < agentFaults
      BY <1>3, <2>0, <2>2 DEF RepeatPart, RepeatInv
    <3>2. QED
      BY <1>1, <2>0, <3>1
  <2>3. QED
    BY <2>1, <2>2
<1>4. RepeatedSnapshotIsExplained'
  <2>1. ASSUME NEW c \in Commands PROVE snapshots[c] <= 1 + misses[c] /\ misses[c] <= agentFaults'
    <3>1. snapshots[c] <= 1 + misses[c] /\ misses[c] <= agentFaults
      BY DEF RepeatPart, RepeatInv, RepeatedSnapshotIsExplained
    <3>2. misses[c] \in Nat
      BY <1>1
    <3>3. QED
      BY <1>1, <3>1, <3>2
  <2>2. QED
    BY <2>1 DEF RepeatedSnapshotIsExplained
<1>5. QED
  BY <1>1, <1>2, <1>3, <1>4 DEF RepeatPart, RepeatInv

-----------------------------------------------------------------------------
(* Steps of the control plane. *)

\* What FinishedBackupIsFinal says of a step.
FinalStep ==
    \A b \in Commands :
       backups[b] \in Finished
       => \/ backups'[b] = backups[b]
          \/ b \in Lifecycle /\ backups[b] = "cancelled" /\ backups'[b] = "completed"

\* A step of the agent alone that starts no restic.
LEMMA QuietAgentStep ==
    ASSUME RemoteInv, Progresses, late' \subseteq late \cup Sent, AgentPart', RepeatsKept,
           UNCHANGED <<serverVars, serverCrashes, snapshots, misses>>
    PROVE  RemoteInv' /\ FinalStep
<1>1. AgentPart /\ RepeatPart /\ FaultsCounted
  BY Parts
<1>2. RepeatPart'
  BY <1>1, QuietRepeats
<1>3. \A c \in Commands : snapshots'[c] >= snapshots[c]
  BY <1>1 DEF AgentPart
<1>4. RemoteInv'
  BY <1>2, <1>3, AgentStep
<1>5. QED
  BY <1>4 DEF FinalStep, serverVars

\* Serving a request keeps the part of the control plane, and its late requests.
LEMMA ServerStep ==
    ASSUME RemoteInv, NEW r \in late \cup Sent, NEW answer, Serve(r, answer),
           UNCHANGED <<remembered, snapshots, agentFaults>>, Progresses,
           late' \subseteq late \cup Sent
    PROVE  ServerPart' /\ LatePart' /\ FaultsCounted' /\ FinalStep
<1>1. AgentPart /\ ServerPart /\ FaultsCounted /\ TypeOK /\ SnapshotInv
  BY Parts DEF RemoteInv
<1>2. r \in Requests /\ RequestFits(r) /\ EventOutranked(r)
  BY SentFits
<1>3. /\ commands' \in [Commands -> Row] /\ backups' \in [Commands -> BackupStates]
      /\ serverCrashes' \in {serverCrashes, serverCrashes + 1}
      /\ \A c \in Commands : Kept(c) \/ Recorded(c, r) \/ Reported(c, r) \/ Unprepared(c)
  BY <1>1, <1>2, ServeIs, ServeBackups DEF RequestFits
<1>4. LatePart'
  BY LateStep
<1>5. FaultsCounted'
  BY <1>1, <1>3 DEF FaultsCounted
<1>6. ASSUME NEW c \in Commands
      PROVE  /\ RowsInv(c)'
             /\ backups'[c] \in Active => backups[c] \in Active
             /\ backups[c] \in Finished =>
                   \/ backups'[c] = backups[c]
                   \/ c \in Lifecycle /\ backups[c] = "cancelled" /\ backups'[c] = "completed"
             /\ \/ commands'[c].state \in Terminal
                \/ commands[c].state \notin Terminal /\ commands'[c].lastEventSequence = commands[c].lastEventSequence
                \/ r.kind = "event" /\ c = r.command /\ commands'[c].lastEventSequence = r.sequence
  BY <1>1, <1>2, <1>3, ServedRows DEF ServerPart
<1>7. ASSUME agentFaults' = 0, NEW c \in Commands, commands'[c].state \notin Terminal,
             commands'[c].lastEventSequence # 0
      PROVE  Outranked(c, commands[c].lastEventSequence)'
  <2>1. agentFaults = 0 /\ commands[c].lastEventSequence \in Nat
    BY <1>1, <1>7 DEF ServerPart, Row
  <2>2. CASE commands[c].state \notin Terminal /\ commands'[c].lastEventSequence = commands[c].lastEventSequence
    <3>1. Outranked(c, commands[c].lastEventSequence)
      BY <1>1, <1>7, <2>1, <2>2 DEF ServerPart
    <3>2. QED
      BY <1>7, <2>1, <2>2, <3>1 DEF Progresses, Outranked
  <2>3. CASE r.kind = "event" /\ c = r.command /\ commands'[c].lastEventSequence = r.sequence
    <3>1. Outranked(c, r.sequence) /\ r.sequence \in Nat
      BY <1>2, <2>1, <2>3, RemoteBackupAssumption DEF EventOutranked, Requests
    <3>2. QED
      BY <1>7, <2>3, <3>1 DEF Progresses, Outranked
  <2>4. QED
    BY <1>6, <1>7, <2>2, <2>3
<1>8. OneBackupInProgress'
  BY <1>1, <1>6 DEF ServerPart, OneBackupInProgress
<1>9. ServerPart'
  BY <1>3, <1>6, <1>7, <1>8 DEF ServerPart
<1>10. QED
  BY <1>4, <1>5, <1>6, <1>9 DEF FinalStep

\* Serving a late request.
LEMMA ServeLateKeeps ==
    ASSUME RemoteInv, NEW r \in late, NEW answer, ServeLate(r, answer)
    PROVE  RemoteInv' /\ FinalStep
<1>1. /\ Serve(r, answer) /\ late' \subseteq late /\ agent' = agent /\ chan' = chan
      /\ UNCHANGED <<remembered, snapshots, misses, agentFaults>>
  BY DEF ServeLate, agentVars
<1>2. Progresses
  BY <1>1 DEF Progresses, Outranked
<1>3. AgentPart'
  <2>1. AgentPart
    BY Parts
  <2>2. QED
    BY <1>1, <2>1 DEF AgentPart, AgentInv, SnapshotInv
<1>4. ServerPart' /\ LatePart' /\ FaultsCounted' /\ FinalStep
  BY <1>1, <1>2, ServerStep
<1>5. RepeatPart'
  <2>1. AgentPart /\ RepeatPart /\ FaultsCounted
    BY Parts
  <2>2. RepeatsKept
    BY <1>1 DEF RepeatsKept, LookedUp
  <2>3. QED
    BY <1>1, <1>2, <2>1, <2>2, QuietRepeats
<1>6. QED
  BY <1>3, <1>4, <1>5, Parts, PTL

\* Serving a request the agent waits for.
LEMMA ServeOnKeeps ==
    ASSUME RemoteInv, NEW ch \in Channels, NEW answer \in Replies \cup {"lost"}, ServeOn(ch, answer)
    PROVE  RemoteInv' /\ FinalStep
<1>0. AgentPart /\ TypeOK /\ AgentInv
  BY Parts DEF AgentPart, RemoteInv
<1> DEFINE r == RequestOn(ch)
<1>1. /\ chan[ch] = "sent" /\ Serve(r, answer) /\ late' = late
      /\ chan' = [chan EXCEPT ![ch] = answer]
      /\ UNCHANGED <<remembered, snapshots, misses, agentFaults>>
      /\ answer # "granted" => agent' = agent
      /\ answer = "granted" => agent' = [agent EXCEPT !.token = FreshToken,
                 !.command = CHOOSE c \in Commands : commands'[c].leaseOwner = FreshToken]
  BY DEF ServeOn
<1>2. r \in Sent /\ r \in Requests /\ (r.kind = "poll" <=> ch = "main" /\ agent.pc = "polling")
  BY <1>0, <1>1, RequestIs DEF Sent
<1> HIDE DEF r
<1>3. /\ agent' \in [pc : Pcs, command : Commands \cup {NoCommand},
                     token : Tokens \cup {NoToken}, sequence : 0..MaxEvents,
                     verdict : Outcomes \cup {"none"}]
      /\ agent'.pc = agent.pc /\ agent'.sequence = agent.sequence /\ agent'.verdict = agent.verdict
      /\ \/ agent' = agent /\ answer # "granted"
         \/ agent.pc = "polling" /\ ch = "main" /\ agent'.command \in Commands
  <2>1. CASE answer # "granted"
    BY <1>0, <1>1, <2>1 DEF AgentPart
  <2>2. CASE answer = "granted"
    <3> DEFINE d == CHOOSE c \in Commands : commands'[c].leaseOwner = FreshToken
    <3>1. r.kind = "poll" /\ FreshToken \in Tokens /\ \E c \in Commands : commands'[c].leaseOwner = FreshToken
      BY <1>0, <1>1, <1>2, <2>2, GrantIs
    <3>2. d \in Commands
      BY <3>1
    <3>3. agent' = [agent EXCEPT !.token = FreshToken, !.command = d]
      BY <1>1, <2>2
    <3> HIDE DEF d
    <3>4. QED
      BY <1>0, <1>2, <3>1, <3>2, <3>3 DEF AgentPart
  <2>3. QED
    BY <2>1, <2>2
<1>4. Progresses
  BY <1>1, <1>3 DEF Progresses, Outranked, Running, Executing
<1>5. chan' \in [Channels -> Replies \cup {"none", "sent", "lost"}]
      /\ \A x \in Channels : chan'[x] # "none" <=> chan[x] # "none"
  BY <1>0, <1>1 DEF AgentPart, Replies
<1>6. AgentInv'
  <2>1. CASE agent' = agent /\ answer # "granted"
    <3>1. chan'["main"] = "granted" => chan["main"] = "granted"
      BY <1>0, <1>1, <2>1 DEF AgentPart
    <3>2. QED
      BY <1>0, <1>1, <1>5, <2>1, <3>1 DEF AgentInv, Channels
  <2>2. CASE agent.pc = "polling" /\ ch = "main" /\ agent'.command \in Commands
    <3>1. chan'["event"] = "none"
      BY <1>0, <1>5, <2>2 DEF AgentInv, Running, Executing, Channels
    <3>2. QED
      BY <1>3, <2>2, <3>1 DEF AgentInv, Running, Executing, Working
  <2>3. QED
    BY <1>3, <2>1, <2>2
<1>7. SnapshotInv'
  BY <1>0, <1>1, <1>3 DEF AgentPart, SnapshotInv
<1>8. AgentPart'
  BY <1>0, <1>1, <1>3, <1>5, <1>6, <1>7 DEF AgentPart, Channels
<1>9. ServerPart' /\ LatePart' /\ FaultsCounted' /\ FinalStep
  BY <1>1, <1>2, <1>4, ServerStep
<1>10. RepeatPart'
  <2>1. RepeatPart /\ FaultsCounted
    BY Parts
  <2>2. RepeatsKept
    BY <1>3 DEF RepeatsKept, LookedUp
  <2>3. QED
    BY <1>0, <1>1, <1>4, <2>1, <2>2, QuietRepeats
<1>11. QED
  BY <1>8, <1>9, <1>10, Parts, PTL

\* What is left to show of a step of the user, the scheduler or the clock.
LEMMA EnvironmentStep ==
    ASSUME RemoteInv, UNCHANGED <<agentVars, late, agentFaults>>, ServerPart',
           serverCrashes' \in {serverCrashes, serverCrashes + 1}
    PROVE  RemoteInv'
<1>1. /\ agent' = agent /\ chan' = chan
      /\ UNCHANGED <<remembered, snapshots, misses, agentFaults, late>>
  BY DEF agentVars
<1>2. Progresses
  BY <1>1 DEF Progresses, Outranked
<1>3. AgentPart /\ RepeatPart /\ FaultsCounted
  BY Parts
<1>4. AgentPart'
  BY <1>1, <1>3 DEF AgentPart, AgentInv, SnapshotInv
<1>5. LatePart'
  BY <1>1, <1>2, LateStep
<1>6. FaultsCounted'
  BY <1>1, <1>3 DEF FaultsCounted
<1>7. RepeatPart'
  <2>1. RepeatsKept
    BY <1>1 DEF RepeatsKept, LookedUp
  <2>2. QED
    BY <1>1, <1>2, <1>3, <2>1, QuietRepeats
<1>8. QED
  BY <1>4, <1>5, <1>6, <1>7, Parts, PTL

\* A backup is queued.
LEMMA QueueKeeps ==
    ASSUME RemoteInv, NEW b \in Commands, QueuePlanBackup(b)
    PROVE  RemoteInv' /\ FinalStep
<1>1. ServerPart
  BY Parts
<1>2. PICK s \in Seconds : EnqueueCommand(b, s)
  BY DEF QueuePlanBackup
<1>3. /\ commands' = [commands EXCEPT ![b] = NewRow(s)] /\ commands[b].state = "absent"
      /\ backups' = [backups EXCEPT ![b] = "queued"]
      /\ \A d \in Commands : PlanOf[d] = PlanOf[b] => backups[d] \notin Active
      /\ UNCHANGED <<agentVars, late, agentFaults, serverCrashes>>
  BY <1>2 DEF EnqueueCommand, QueuePlanBackup, faultVars
<1>4. /\ NewRow(s) \in Row /\ NewRow(s).state = "queued" /\ NewRow(s).lastEventSequence = 0
  <2>1. 0 \in 0..LeaseTicks /\ s \in Nat
    BY AgentStoreAssumption
  <2>2. QED
    BY <2>1 DEF NewRow, Row, States
<1>5. /\ commands' \in [Commands -> Row] /\ backups' \in [Commands -> BackupStates]
      /\ commands'[b] = NewRow(s) /\ backups'[b] = "queued"
      /\ \A d \in Commands \ {b} : commands'[d] = commands[d] /\ backups'[d] = backups[d]
  BY <1>1, <1>3, <1>4 DEF ServerPart, BackupStates, Active
<1>6. backups[b] \notin Finished
  BY <1>1, <1>3 DEF ServerPart, RowsInv, Terminal
<1>7. remembered' = remembered /\ snapshots' = snapshots /\ agent' = agent
  BY <1>3 DEF agentVars
<1>8. ASSUME NEW c \in Commands PROVE RowsInv(c)'
  <2>1. CASE c = b
    BY <1>4, <1>5, <2>1 DEF RowsInv, Finished
  <2>2. CASE c # b
    BY <1>1, <1>3, <1>5, <1>7, <2>2 DEF RowsInv, ServerPart
  <2>3. QED
    BY <2>1, <2>2
<1>9. ASSUME agentFaults' = 0, NEW c \in Commands, commands'[c].state \notin Terminal,
             commands'[c].lastEventSequence # 0
      PROVE  Outranked(c, commands[c].lastEventSequence)'
  <2>1. c # b
    BY <1>4, <1>5, <1>9
  <2>2. QED
    BY <1>1, <1>3, <1>5, <1>7, <1>9, <2>1 DEF ServerPart, Outranked
<1>10. OneBackupInProgress'
  BY <1>1, <1>3, <1>5 DEF ServerPart, OneBackupInProgress
<1>11. ServerPart'
  BY <1>5, <1>8, <1>9, <1>10 DEF ServerPart
<1>12. RemoteInv'
  BY <1>3, <1>11, EnvironmentStep
<1>13. QED
  BY <1>5, <1>6, <1>12 DEF FinalStep

\* A backup is cancelled.
LEMMA CancelKeeps ==
    ASSUME RemoteInv, NEW b \in Commands, CancelBackup(b)
    PROVE  RemoteInv' /\ FinalStep
<1>1. ServerPart /\ FaultsCounted
  BY Parts
<1>2. /\ backups[b] \in Active
      /\ \/ /\ commands[b].state \in {"queued"} \cup Held
            /\ commands' = [commands EXCEPT ![b].state = "cancelled"]
         \/ commands[b].state \in Terminal /\ commands' = commands
      /\ \/ backups' = [backups EXCEPT ![b] = "cancelled"] /\ serverCrashes' = serverCrashes
         \/ serverCrashes' = serverCrashes + 1 /\ backups' = backups
      /\ UNCHANGED <<agentVars, late, agentFaults>>
  BY DEF CancelBackup, CancelCommand
<1>3. /\ commands' \in [Commands -> Row] /\ backups' \in [Commands -> BackupStates]
      /\ commands'[b].state \in Terminal
      /\ commands'[b].state = "cancelled" \/ commands[b].state \in Terminal
      /\ backups'[b] \in {"cancelled", backups[b]} /\ (serverCrashes' = serverCrashes => backups'[b] = "cancelled")
      /\ \A d \in Commands \ {b} : commands'[d] = commands[d] /\ backups'[d] = backups[d]
  BY <1>1, <1>2 DEF ServerPart, FaultsCounted, BackupStates, Finished, Row, States, Terminal
<1>4. serverCrashes' = 0 => serverCrashes = 0 /\ serverCrashes' = serverCrashes
  BY <1>1, <1>2 DEF FaultsCounted
<1>5. remembered' = remembered /\ snapshots' = snapshots /\ agent' = agent
  BY <1>2 DEF agentVars
<1>6. ASSUME NEW c \in Commands PROVE RowsInv(c)'
  <2>1. CASE c = b
    <3>1. serverCrashes = 0 => commands[b].state \notin Terminal
      BY <1>1, <1>2 DEF ServerPart, RowsInv, Active, Terminal
    <3>2. serverCrashes' = 0 => commands'[b].state = "cancelled" /\ backups'[b] = "cancelled"
      BY <1>3, <1>4, <3>1
    <3>3. backups'[b] # "completed"
      BY <1>2, <1>3 DEF Active
    <3>4. QED
      BY <1>3, <2>1, <3>2, <3>3 DEF RowsInv
  <2>2. CASE c # b
    BY <1>1, <1>3, <1>4, <1>5, <2>2 DEF RowsInv, ServerPart
  <2>3. QED
    BY <2>1, <2>2
<1>7. ASSUME agentFaults' = 0, NEW c \in Commands, commands'[c].state \notin Terminal,
             commands'[c].lastEventSequence # 0
      PROVE  Outranked(c, commands[c].lastEventSequence)'
  <2>1. c # b
    BY <1>3, <1>7
  <2>2. QED
    BY <1>1, <1>2, <1>3, <1>5, <1>7, <2>1 DEF ServerPart, Outranked
<1>8. OneBackupInProgress'
  BY <1>1, <1>2, <1>3 DEF ServerPart, OneBackupInProgress, Active
<1>9. ServerPart'
  BY <1>3, <1>6, <1>7, <1>8 DEF ServerPart
<1>10. RemoteInv'
  BY <1>2, <1>9, EnvironmentStep
<1>11. QED
  BY <1>2, <1>3, <1>10 DEF FinalStep, Active, Finished

\* A second passes.
LEMMA TickKeeps ==
    ASSUME RemoteInv, SecondPasses
    PROVE  RemoteInv' /\ FinalStep
<1>1. ServerPart /\ FaultsCounted
  BY Parts
<1>2. /\ commands' = [c \in Commands |->
                        [commands[c] EXCEPT !.leaseTtl = IF @ > 0 THEN @ - 1 ELSE 0]]
      /\ backups' = backups /\ UNCHANGED <<agentVars, late, agentFaults, serverCrashes>>
  BY DEF SecondPasses, Tick, faultVars
<1>3. ASSUME NEW c \in Commands
      PROVE  /\ commands'[c] \in Row /\ commands'[c].state = commands[c].state
             /\ commands'[c].lastEventSequence = commands[c].lastEventSequence
  <2> DEFINE row == commands[c]
             ttl == IF row.leaseTtl > 0 THEN row.leaseTtl - 1 ELSE 0
  <2>1. row \in Row /\ commands'[c] = [row EXCEPT !.leaseTtl = ttl]
    BY <1>1, <1>2 DEF ServerPart
  <2>2. ttl \in 0..LeaseTicks
    BY <2>1, AgentStoreAssumption DEF Row
  <2> HIDE DEF row, ttl
  <2>3. /\ [row EXCEPT !.leaseTtl = ttl] \in Row /\ [row EXCEPT !.leaseTtl = ttl].state = row.state
        /\ [row EXCEPT !.leaseTtl = ttl].lastEventSequence = row.lastEventSequence
    BY <2>1, <2>2 DEF Row
  <2>4. QED
    BY <2>1, <2>3 DEF row
<1>4. commands' \in [Commands -> Row]
  BY <1>2, <1>3
<1>5. remembered' = remembered /\ snapshots' = snapshots /\ agent' = agent
  BY <1>2 DEF agentVars
<1>6. ServerPart'
  BY <1>1, <1>2, <1>3, <1>4, <1>5 DEF ServerPart, RowsInv, Outranked, OneBackupInProgress
<1>7. RemoteInv'
  BY <1>1, <1>2, <1>6, EnvironmentStep
<1>8. QED
  BY <1>2, <1>7 DEF FinalStep

-----------------------------------------------------------------------------
(* Steps of the agent. *)

\* Abandoned requests are among those under way.
LEMMA AbandonIs ==
    ASSUME NEW chs \in SUBSET Channels, Abandon(Unserved(chs))
    PROVE  late' \subseteq late \cup Sent
  BY DEF Abandon, Unserved, Sent

\* The exchanges of the agent with the control plane.
LEMMA ExchangeKeeps ==
    ASSUME RemoteInv, Exchange
    PROVE  RemoteInv' /\ FinalStep
<1>0. AgentPart /\ FaultsCounted
  BY Parts
<1> USE RemoteBackupAssumption DEF Pcs, Channels, Executing, Replies, Outcomes, faultVars, IdleAgent
<1>1. CASE AgentPoll
  <2>1. Progresses
    BY <1>0, <1>1 DEF AgentPoll, AgentPart, Progresses, Outranked, Running
  <2>2. late' \subseteq late \cup Sent
    BY <1>1 DEF AgentPoll
  <2>3. AgentPart'
    BY <1>0, <1>1 DEF AgentPoll, AgentPart, AgentInv, SnapshotInv, Running, Working
  <2>4. UNCHANGED <<serverVars, serverCrashes, snapshots, misses>>
    BY <1>1, Zenon DEF AgentPoll, faultVars
  <2>5. RepeatsKept
    BY <1>0, <1>1 DEF AgentPoll, RepeatsKept, LookedUp, AgentPart, AgentInv, Running, Working
  <2>6. QED
    BY <2>1, <2>2, <2>3, <2>4, <2>5, QuietAgentStep
<1>2. CASE ReceiveNoCommand
  <2>1. Progresses
    BY <1>0, <1>2 DEF ReceiveNoCommand, AgentPart, Progresses, Outranked, Running
  <2>2. late' \subseteq late \cup Sent
    BY <1>2 DEF ReceiveNoCommand
  <2>3. AgentPart'
    BY <1>0, <1>2 DEF ReceiveNoCommand, AgentPart, AgentInv, SnapshotInv, Running, Working
  <2>4. UNCHANGED <<serverVars, serverCrashes, snapshots, misses>>
    BY <1>2, Zenon DEF ReceiveNoCommand, faultVars
  <2>5. RepeatsKept
    BY <1>0, <1>2 DEF ReceiveNoCommand, RepeatsKept, LookedUp, AgentPart, AgentInv, Running, Working
  <2>6. QED
    BY <2>1, <2>2, <2>3, <2>4, <2>5, QuietAgentStep
<1>3. CASE ReceiveCommand
  <2>1. Progresses
    BY <1>0, <1>3 DEF ReceiveCommand, AgentPart, Progresses, Outranked, Running
  <2>2. late' \subseteq late \cup Sent
    BY <1>3 DEF ReceiveCommand
  <2>3. AgentPart'
    BY <1>0, <1>3 DEF ReceiveCommand, AgentPart, AgentInv, SnapshotInv, Running, Working
  <2>4. UNCHANGED <<serverVars, serverCrashes, snapshots, misses>>
    BY <1>3, Zenon DEF ReceiveCommand, faultVars
  <2>5. RepeatsKept
    BY <1>0, <1>3 DEF ReceiveCommand, RepeatsKept, LookedUp, AgentPart, AgentInv, Running, Working
  <2>6. QED
    BY <2>1, <2>2, <2>3, <2>4, <2>5, QuietAgentStep
<1>4. CASE ReceiveAck
  <2>1. Progresses
    BY <1>0, <1>4 DEF ReceiveAck, AgentPart, Progresses, Outranked, Running
  <2>2. late' \subseteq late \cup Sent
    BY <1>4 DEF ReceiveAck
  <2>3. AgentPart'
    <3>1. /\ agent.pc = "acking" /\ agent' = [agent EXCEPT !.pc = "checking", !.sequence = 1]
          /\ chan' = [chan EXCEPT !["main"] = "none", !["event"] = "sent", !["status"] = "sent"]
          /\ UNCHANGED <<remembered, snapshots>>
      BY <1>4 DEF ReceiveAck
    <3>2. /\ chan' \in [Channels -> Replies \cup {"none", "sent", "lost"}]
          /\ chan'["main"] = "none" /\ chan'["event"] = "sent" /\ chan'["status"] = "sent"
      BY <1>0, <3>1 DEF AgentPart
    <3>3. /\ agent' \in [pc : Pcs, command : Commands \cup {NoCommand},
                         token : Tokens \cup {NoToken}, sequence : 0..MaxEvents,
                         verdict : Outcomes \cup {"none"}]
          /\ agent'.pc = "checking" /\ agent'.command = agent.command /\ agent'.verdict = agent.verdict
      <4>1. 1 \in 0..MaxEvents
        BY RemoteBackupAssumption
      <4>2. QED
        BY <1>0, <3>1, <4>1 DEF AgentPart
    <3>4. QED
      BY <1>0, <3>1, <3>2, <3>3
      DEF AgentPart, AgentInv, SnapshotInv, Running, Working
  <2>4. UNCHANGED <<serverVars, serverCrashes, snapshots, misses>>
    BY <1>4, Zenon DEF ReceiveAck, faultVars
  <2>5. RepeatsKept
    BY <1>0, <1>4 DEF ReceiveAck, RepeatsKept, LookedUp, AgentPart, AgentInv, Running, Working
  <2>6. QED
    BY <2>1, <2>2, <2>3, <2>4, <2>5, QuietAgentStep
<1>5. CASE ReceiveLastAnswer
  <2>1. Progresses
    BY <1>0, <1>5 DEF ReceiveLastAnswer, AgentPart, Progresses, Outranked, Running
  <2>2. late' \subseteq late \cup Sent
    BY <1>5 DEF ReceiveLastAnswer
  <2>3. AgentPart'
    BY <1>0, <1>5 DEF ReceiveLastAnswer, AgentPart, AgentInv, SnapshotInv, Running, Working
  <2>4. UNCHANGED <<serverVars, serverCrashes, snapshots, misses>>
    BY <1>5, Zenon DEF ReceiveLastAnswer, faultVars
  <2>5. RepeatsKept
    BY <1>0, <1>5 DEF ReceiveLastAnswer, RepeatsKept, LookedUp, AgentPart, AgentInv, Running, Working
  <2>6. QED
    BY <2>1, <2>2, <2>3, <2>4, <2>5, QuietAgentStep
<1>6. CASE SendEvent
  <2>1. Progresses
    BY <1>0, <1>6 DEF SendEvent, AgentPart, Progresses, Outranked, Running
  <2>2. late' \subseteq late \cup Sent
    BY <1>6 DEF SendEvent
  <2>3. AgentPart'
    BY <1>0, <1>6 DEF SendEvent, AgentPart, AgentInv, SnapshotInv, Running, Working
  <2>4. UNCHANGED <<serverVars, serverCrashes, snapshots, misses>>
    BY <1>6, Zenon DEF SendEvent, faultVars
  <2>5. RepeatsKept
    BY <1>0, <1>6 DEF SendEvent, RepeatsKept, LookedUp, AgentPart, AgentInv, Running, Working
  <2>6. QED
    BY <2>1, <2>2, <2>3, <2>4, <2>5, QuietAgentStep
<1>7. CASE ReceiveEventAnswer
  <2>1. Progresses
    BY <1>0, <1>7 DEF ReceiveEventAnswer, AgentPart, Progresses, Outranked, Running
  <2>2. late' \subseteq late \cup Sent
    BY <1>7 DEF ReceiveEventAnswer
  <2>3. AgentPart'
    BY <1>0, <1>7 DEF ReceiveEventAnswer, AgentPart, AgentInv, SnapshotInv, Running, Working
  <2>4. UNCHANGED <<serverVars, serverCrashes, snapshots, misses>>
    BY <1>7, Zenon DEF ReceiveEventAnswer, faultVars
  <2>5. RepeatsKept
    BY <1>0, <1>7 DEF ReceiveEventAnswer, RepeatsKept, LookedUp, AgentPart, AgentInv, Running, Working
  <2>6. QED
    BY <2>1, <2>2, <2>3, <2>4, <2>5, QuietAgentStep
<1>8. CASE CheckStatus
  <2>1. Progresses
    BY <1>0, <1>8 DEF CheckStatus, AgentPart, Progresses, Outranked, Running
  <2>2. late' \subseteq late \cup Sent
    BY <1>8 DEF CheckStatus
  <2>3. AgentPart'
    BY <1>0, <1>8 DEF CheckStatus, AgentPart, AgentInv, SnapshotInv, Running, Working
  <2>4. UNCHANGED <<serverVars, serverCrashes, snapshots, misses>>
    BY <1>8, Zenon DEF CheckStatus, faultVars
  <2>5. RepeatsKept
    BY <1>0, <1>8 DEF CheckStatus, RepeatsKept, LookedUp, AgentPart, AgentInv, Running, Working
  <2>6. QED
    BY <2>1, <2>2, <2>3, <2>4, <2>5, QuietAgentStep
<1>9. CASE ReceiveStatus
  <2>1. Progresses
    BY <1>0, <1>9 DEF ReceiveStatus, AgentPart, Progresses, Outranked, Running
  <2>2. late' \subseteq late \cup Sent
    BY <1>9 DEF ReceiveStatus
  <2>3. AgentPart'
    BY <1>0, <1>9 DEF ReceiveStatus, AgentPart, AgentInv, SnapshotInv, Running, Working, Judged
  <2>4. UNCHANGED <<serverVars, serverCrashes, snapshots, misses>>
    BY <1>9, Zenon DEF ReceiveStatus, faultVars
  <2>5. RepeatsKept
    BY <1>0, <1>9 DEF ReceiveStatus, RepeatsKept, LookedUp, AgentPart, AgentInv, Running, Working
  <2>6. QED
    BY <2>1, <2>2, <2>3, <2>4, <2>5, QuietAgentStep
<1>10. CASE RetryStatus
  <2>1. Progresses
    BY <1>0, <1>10 DEF RetryStatus, AgentPart, Progresses, Outranked, Running
  <2>2. late' \subseteq late \cup Sent
    BY <1>10, AbandonIs DEF RetryStatus
  <2>3. AgentPart'
    BY <1>0, <1>10 DEF RetryStatus, AgentPart, AgentInv, SnapshotInv, Running, Working
  <2>4. UNCHANGED <<serverVars, serverCrashes, snapshots, misses>>
    BY <1>10, Zenon DEF RetryStatus, faultVars
  <2>5. RepeatsKept
    BY <1>0, <1>10 DEF RetryStatus, RepeatsKept, LookedUp, AgentPart, AgentInv, Running, Working
  <2>6. QED
    BY <2>1, <2>2, <2>3, <2>4, <2>5, QuietAgentStep
<1>11. CASE \E ch \in Channels : GiveUp(ch)
  <2>0. PICK ch \in Channels : GiveUp(ch)
    BY <1>11
  <2>1. Progresses
    BY <1>0, <2>0 DEF GiveUp, AgentPart, Progresses, Outranked, Running
  <2>2. late' \subseteq late \cup Sent
    BY <2>0, AbandonIs DEF GiveUp
  <2>3. AgentPart'
    BY <1>0, <2>0 DEF GiveUp, AgentPart, AgentInv, SnapshotInv, Running, Working
  <2>4. UNCHANGED <<serverVars, serverCrashes, snapshots, misses>>
    BY <2>0, Zenon DEF GiveUp, faultVars
  <2>5. RepeatsKept
    BY <1>0, <2>0 DEF GiveUp, RepeatsKept, LookedUp, AgentPart, AgentInv, Running, Working
  <2>6. QED
    BY <2>1, <2>2, <2>3, <2>4, <2>5, QuietAgentStep
<1>12. QED
  BY <1>1, <1>2, <1>3, <1>4, <1>5, <1>6, <1>7, <1>8, <1>9, <1>10, <1>11 DEF Exchange

\* The execution of a command, and the agent's faults.
LEMMA ExecutionKeeps ==
    ASSUME RemoteInv, Execution
    PROVE  RemoteInv' /\ FinalStep
<1>0. AgentPart /\ RepeatPart /\ FaultsCounted
  BY Parts
<1> USE RemoteBackupAssumption DEF Pcs, Channels, Executing, Replies, Outcomes, faultVars, IdleAgent
<1>1. CASE LookupSnapshot
  <2>0. /\ agent.pc = "lookup" /\ agent.verdict = "none"
        /\ \/ /\ snapshots[agent.command] > 0 /\ misses' = misses
              /\ agent' = [agent EXCEPT !.pc = "snapshotted"]
           \/ /\ snapshots[agent.command] = 0 /\ misses' = misses
              /\ agent' = [agent EXCEPT !.pc = "restic"]
           \/ /\ snapshots[agent.command] > 0 /\ misses[agent.command] < MaxMisses
              /\ misses' = [misses EXCEPT ![agent.command] = @ + 1]
              /\ agent' = [agent EXCEPT !.pc = "restic"]
        /\ UNCHANGED <<serverVars, serverCrashes, agentFaults, chan, remembered, snapshots, late>>
    BY <1>1, Zenon DEF LookupSnapshot, SnapshotFound, NoSnapshotFound, faultVars
  <2>a. /\ agent.command \in Commands /\ agent'.command = agent.command /\ agent'.verdict = "none"
        /\ agent'.pc \in {"restic", "snapshotted"} /\ agent'.sequence = agent.sequence
        /\ remembered[agent.command] = NoCompletion
    BY <1>0, <2>0 DEF AgentPart, AgentInv, Running, Working
  <2>1. Progresses
    BY <1>0, <2>0, <2>a DEF Progresses, Outranked, Running
  <2>2. late' \subseteq late \cup Sent
    BY <2>0
  <2>3. AgentPart'
    BY <1>0, <2>0 DEF AgentPart, AgentInv, SnapshotInv, Running, Working
  <2>4. RepeatPart'
    <3>1. /\ misses \in [Commands -> 0..MaxMisses] /\ MaxMisses \in Nat /\ agentFaults \in Nat
          /\ snapshots \in [Commands -> Nat]
      BY <1>0 DEF RepeatPart, FaultsCounted, AgentPart
    <3>2. /\ \A c \in Commands : snapshots[c] <= 1 + misses[c] /\ misses[c] <= agentFaults
          /\ \A c \in Commands : snapshots[c] > 0 /\ remembered[c] = NoCompletion /\ agent.command # c
                                  => misses[c] < agentFaults
          /\ snapshots[agent.command] > 0 => misses[agent.command] < agentFaults
      BY <1>0, <2>0, <2>a DEF RepeatPart, RepeatInv, RepeatedSnapshotIsExplained, LookedUp
    <3>3. CASE misses' = misses
      <4>1. agent'.pc = "restic" => snapshots[agent.command] = 0
        <5>1. CASE agent'.pc = "restic"
          <6>1. agent \in [pc : Pcs, command : Commands \cup {NoCommand},
                           token : Tokens \cup {NoToken}, sequence : 0..MaxEvents,
                           verdict : Outcomes \cup {"none"}]
            BY <1>0 DEF AgentPart
          <6>2. agent' # [agent EXCEPT !.pc = "snapshotted"]
            BY <5>1, <6>1
          <6>3. misses[agent.command] \in Nat
            BY <2>a, <3>1
          <6>4. misses' # [misses EXCEPT ![agent.command] = @ + 1]
            BY <2>a, <3>1, <3>3, <6>3
          <6>5. QED
            BY <2>0, <6>2, <6>4
        <5>2. QED
          BY <5>1
      <4>2. misses[agent.command] \in Nat
        BY <2>a, <3>1
      <4>3. agent'.pc = "restic" => snapshots[agent.command] <= misses[agent.command]
        BY <4>1, <4>2
      <4>4. QED
        BY <2>0, <2>a, <3>1, <3>2, <3>3, <4>3
        DEF RepeatPart, RepeatInv, RepeatedSnapshotIsExplained, LookedUp
    <3>4. CASE /\ misses' = [misses EXCEPT ![agent.command] = @ + 1]
               /\ snapshots[agent.command] > 0 /\ misses[agent.command] < MaxMisses
      <4>1. /\ misses' \in [Commands -> 0..MaxMisses]
            /\ misses'[agent.command] = misses[agent.command] + 1
            /\ \A c \in Commands \ {agent.command} : misses'[c] = misses[c]
        BY <2>a, <3>1, <3>4
      <4>2. \A c \in Commands : snapshots[c] <= 1 + misses'[c] /\ misses'[c] <= agentFaults
        BY <2>a, <3>1, <3>2, <3>4, <4>1
      <4>3. snapshots[agent.command] <= misses'[agent.command]
        BY <2>a, <3>1, <3>2, <4>1
      <4>4. QED
        BY <2>0, <2>a, <3>2, <4>1, <4>2, <4>3
        DEF RepeatPart, RepeatInv, RepeatedSnapshotIsExplained, LookedUp
    <3>5. QED
      BY <2>0, <3>3, <3>4
  <2>5. \A c \in Commands : snapshots'[c] >= snapshots[c]
    BY <1>0, <2>0 DEF AgentPart
  <2>6. QED
    BY <2>0, <2>1, <2>2, <2>3, <2>4, <2>5, AgentStep DEF FinalStep, serverVars
<1>2. CASE TakeSnapshot
  <2>1. Progresses
    BY <1>0, <1>2 DEF TakeSnapshot, AgentPart, Progresses, Outranked, Running
  <2>2. late' \subseteq late \cup Sent
    BY <1>2 DEF TakeSnapshot
  <2>3. AgentPart'
    BY <1>0, <1>2 DEF TakeSnapshot, AgentPart, AgentInv, SnapshotInv, Running, Working
  <2>4. UNCHANGED <<serverVars, serverCrashes>>
    BY <1>2, Zenon DEF TakeSnapshot, faultVars
  <2>5. /\ snapshots \in [Commands -> Nat] /\ snapshots' = [snapshots EXCEPT ![agent.command] = @ + 1]
        /\ agent.command \in Commands /\ agent'.command = agent.command
        /\ agent.pc = "restic" /\ agent'.pc = "snapshotted"
        /\ remembered' = remembered /\ misses' = misses /\ agentFaults' = agentFaults
    BY <1>0, <1>2 DEF TakeSnapshot, AgentPart, AgentInv, Running, Working
  <2>6. \A c \in Commands : snapshots'[c] >= snapshots[c]
    BY <2>5
  <2>7. RepeatPart'
    <3>1. /\ misses \in [Commands -> 0..MaxMisses] /\ MaxMisses \in Nat
          /\ snapshots[agent.command] <= misses[agent.command]
          /\ \A c \in Commands : snapshots[c] <= 1 + misses[c] /\ misses[c] <= agentFaults
          /\ \A c \in Commands : snapshots[c] > 0 /\ remembered[c] = NoCompletion /\ agent.command # c
                                  => misses[c] < agentFaults
      BY <1>0, <2>5 DEF RepeatPart, RepeatInv, RepeatedSnapshotIsExplained, LookedUp
    <3>2. /\ snapshots'[agent.command] <= 1 + misses[agent.command]
          /\ \A c \in Commands \ {agent.command} : snapshots'[c] = snapshots[c]
      <4>0. /\ misses \in [Commands -> 0..MaxMisses] /\ MaxMisses \in Nat
            /\ snapshots \in [Commands -> Nat] /\ agent.command \in Commands
        BY <2>5, <3>1
      <4>1. misses[agent.command] \in Nat /\ snapshots[agent.command] \in Nat
        BY <4>0
      <4>2. /\ snapshots'[agent.command] = snapshots[agent.command] + 1
            /\ \A c \in Commands \ {agent.command} : snapshots'[c] = snapshots[c]
        BY <2>5
      <4>3. QED
        BY <3>1, <4>1, <4>2
    <3>3. QED
      BY <2>5, <3>1, <3>2 DEF RepeatPart, RepeatInv, RepeatedSnapshotIsExplained, LookedUp
  <2>8. QED
    BY <2>1, <2>2, <2>3, <2>4, <2>6, <2>7, AgentStep DEF FinalStep, serverVars
<1>3. CASE \E outcome \in Outcomes : EndExecution(outcome)
  <2>0. PICK outcome \in Outcomes : EndExecution(outcome)
    BY <1>3
  <2>1. Progresses
    BY <1>0, <2>0 DEF EndExecution, AgentPart, Progresses, Outranked, Running
  <2>2. late' \subseteq late \cup Sent
    BY <2>0, AbandonIs DEF EndExecution
  <2>3. AgentPart'
    BY <1>0, <2>0 DEF EndExecution, AgentPart, AgentInv, SnapshotInv, Running, Working
  <2>4. UNCHANGED <<serverVars, serverCrashes, snapshots, misses>>
    BY <2>0, Zenon DEF EndExecution, faultVars
  <2>5. RepeatsKept
    BY <1>0, <2>0 DEF EndExecution, RepeatsKept, LookedUp, AgentPart, AgentInv, Running, Working
  <2>6. QED
    BY <2>1, <2>2, <2>3, <2>4, <2>5, QuietAgentStep
<1>4. CASE SaveCompletion
  <2>1. Progresses
    <3>1. /\ remembered' = [remembered EXCEPT ![agent.command] =
                             [sequence |-> agent.sequence + 1, outcome |-> agent.verdict]]
          /\ agent.command \in Commands /\ remembered[agent.command] = NoCompletion
          /\ remembered \in [Commands -> Completions \cup {NoCompletion}]
          /\ agent.sequence \in Nat /\ agentFaults' = agentFaults
      BY <1>0, <1>4 DEF SaveCompletion, Remember, AgentPart, AgentInv, Running, Working
    <3>2. /\ remembered'[agent.command].sequence = agent.sequence + 1
          /\ remembered'[agent.command] # NoCompletion
          /\ \A c \in Commands \ {agent.command} : remembered'[c] = remembered[c]
      BY <3>1 DEF NoCompletion
    <3>3. ASSUME NEW c \in Commands, NEW n \in Nat, Outranked(c, n) PROVE Outranked(c, n)'
      BY <3>1, <3>2, <3>3 DEF Outranked
    <3>4. QED
      BY <3>1, <3>2, <3>3 DEF Progresses
  <2>2. late' \subseteq late \cup Sent
    BY <1>4 DEF SaveCompletion
  <2>3. AgentPart'
    BY <1>0, <1>4 DEF SaveCompletion, AgentPart, AgentInv, SnapshotInv, Running, Working, Remember, Completions, NoCompletion
  <2>4. UNCHANGED <<serverVars, serverCrashes, snapshots, misses>>
    BY <1>4, Zenon DEF SaveCompletion, faultVars
  <2>5. RepeatsKept
    BY <1>0, <1>4 DEF SaveCompletion, RepeatsKept, LookedUp, AgentPart, AgentInv, Running, Working, Remember, NoCompletion
  <2>6. QED
    BY <2>1, <2>2, <2>3, <2>4, <2>5, QuietAgentStep
<1>5. CASE ShutdownSignal
  <2>1. Progresses
    BY <1>0, <1>5 DEF ShutdownSignal, AgentPart, Progresses, Outranked, Running
  <2>2. late' \subseteq late \cup Sent
    BY <1>5 DEF ShutdownSignal
  <2>3. AgentPart'
    BY <1>0, <1>5 DEF ShutdownSignal, AgentPart, AgentInv, SnapshotInv, Running, Working
  <2>4. UNCHANGED <<serverVars, serverCrashes, snapshots, misses>>
    BY <1>5, Zenon DEF ShutdownSignal, faultVars
  <2>5. RepeatsKept
    BY <1>0, <1>5 DEF ShutdownSignal, RepeatsKept, LookedUp, AgentPart, AgentInv, Running, Working
  <2>6. QED
    BY <2>1, <2>2, <2>3, <2>4, <2>5, QuietAgentStep
<1>6. CASE SaveFails
  <2>1. Progresses
    BY <1>0, <1>6 DEF SaveFails, AgentPart, Progresses, Outranked, Running, FaultsCounted
  <2>2. late' \subseteq late \cup Sent
    BY <1>6 DEF SaveFails
  <2>3. AgentPart'
    BY <1>0, <1>6 DEF SaveFails, AgentPart, AgentInv, SnapshotInv, Running, Working
  <2>4. UNCHANGED <<serverVars, serverCrashes, snapshots, misses>>
    BY <1>6, Zenon DEF SaveFails, faultVars
  <2>5. RepeatsKept
    BY <1>0, <1>6 DEF SaveFails, RepeatsKept, LookedUp, AgentPart, AgentInv, Running, Working
  <2>6. QED
    BY <2>1, <2>2, <2>3, <2>4, <2>5, QuietAgentStep
<1>7. CASE AgentCrash
  <2>1. Progresses
    BY <1>0, <1>7 DEF AgentCrash, AgentPart, Progresses, Outranked, Running, FaultsCounted
  <2>2. late' \subseteq late \cup Sent
    BY <1>7, AbandonIs DEF AgentCrash
  <2>3. AgentPart'
    BY <1>0, <1>7 DEF AgentCrash, AgentPart, AgentInv, SnapshotInv, Running, Working
  <2>4. UNCHANGED <<serverVars, serverCrashes, snapshots, misses>>
    BY <1>7, Zenon DEF AgentCrash, faultVars
  <2>5. RepeatsKept
    BY <1>0, <1>7 DEF AgentCrash, RepeatsKept, LookedUp, AgentPart, AgentInv, Running, Working
  <2>6. QED
    BY <2>1, <2>2, <2>3, <2>4, <2>5, QuietAgentStep
<1>8. QED
  BY <1>1, <1>2, <1>3, <1>4, <1>5, <1>6, <1>7 DEF Execution
-----------------------------------------------------------------------------
(* The theorems. *)

\* Every step keeps the invariant and rewrites no finished backup.
LEMMA StepKeeps ==
    ASSUME RemoteInv, [Next]_vars
    PROVE  RemoteInv' /\ FinalStep
<1>1. CASE Server
  BY <1>1, ServeOnKeeps, ServeLateKeeps DEF Server
<1>2. CASE Environment
  BY <1>2, QueueKeeps, CancelKeeps, TickKeeps DEF Environment
<1>3. CASE Exchange
  BY <1>3, ExchangeKeeps
<1>4. CASE Execution
  BY <1>4, ExecutionKeeps
<1>5. CASE UNCHANGED vars
  <2>1. UNCHANGED <<agentVars, late, agentFaults, serverCrashes, commands, backups>>
    BY <1>5 DEF vars, serverVars, faultVars
  <2>2. ServerPart
    BY Parts
  <2>3. ServerPart'
    BY <2>1, <2>2 DEF ServerPart, RowsInv, OneBackupInProgress, Outranked, agentVars
  <2>4. QED
    BY <2>1, <2>3, EnvironmentStep DEF FinalStep
<1>6. QED
  BY <1>1, <1>2, <1>3, <1>4, <1>5 DEF Next

\* The invariant holds at the start, when every table is empty.
LEMMA StartsRight == Init => RemoteInv
<1> SUFFICES ASSUME Init PROVE RemoteInv
  OBVIOUS
<1>0. 0 \in 0..LeaseTicks /\ 0 \in 0..MaxEvents
  BY AgentStoreAssumption, RemoteBackupAssumption
<1>1. AgentPart
  BY <1>0 DEF Init, AgentPart, IdleAgent, Pcs, Executing, Channels, Replies, AgentInv, SnapshotInv,
               Running, Working, NoCompletion
<1>2. ServerPart
  BY <1>0 DEF Init, ServerPart, NoRow, Row, States, BackupStates, RowsInv, Finished, Active,
              OneBackupInProgress
<1>3. LatePart /\ FaultsCounted
  BY DEF Init, LatePart, FaultsCounted
<1>4. RepeatPart
  BY RemoteBackupAssumption DEF Init, IdleAgent, RepeatPart, RepeatInv, RepeatedSnapshotIsExplained
<1>5. QED
  BY <1>1, <1>2, <1>3, <1>4, Parts

\* The invariant always holds.
THEOREM RemoteInvHolds == Spec => []RemoteInv
<1>1. RemoteInv /\ [Next]_vars => RemoteInv'
  BY StepKeeps
<1>2. QED
  BY <1>1, StartsRight, PTL DEF Spec

\* Every variable keeps its type, and nothing waits on a channel its phase does not use.
THEOREM RemoteTypes == Spec => []TypeOK
<1>1. RemoteInv => TypeOK
  BY DEF RemoteInv
<1>2. QED
  BY <1>1, RemoteInvHolds, PTL

\* A backup the control plane records as completed is in the repository.
THEOREM SuccessesAreInTheRepository == Spec => []RecordedSuccessHasSnapshot
<1>1. RemoteInv => RecordedSuccessHasSnapshot
  BY DEF RemoteInv
<1>2. QED
  BY <1>1, RemoteInvHolds, PTL

\* A backup has one snapshot more for each lookup that overlooked the ones before, and no
\* lookup can overlook one unless the agent failed before it remembered the execution.
THEOREM SnapshotsAreExplained == Spec => []RepeatedSnapshotIsExplained
<1>1. RemoteInv => RepeatedSnapshotIsExplained
  BY DEF RemoteInv, RepeatInv
<1>2. QED
  BY <1>1, RemoteInvHolds, PTL

\* A finished backup has no open command.
THEOREM NoCommandOutlivesItsBackup == Spec => []FinishedBackupHasFinishedCommand
<1>1. RemoteInv => FinishedBackupHasFinishedCommand
  BY DEF RemoteInv
<1>2. QED
  BY <1>1, RemoteInvHolds, PTL

\* Without a crash of the server the two rows tell the same story.
THEOREM RowsSettleTogether == Spec => []SettledTogether
<1>1. RemoteInv => SettledTogether
  BY DEF RemoteInv
<1>2. QED
  BY <1>1, RemoteInvHolds, PTL

\* A plan has one backup in progress at a time.
THEOREM PlansRunOneBackup == Spec => []OneBackupInProgress
<1>1. RemoteInv => OneBackupInProgress
  BY DEF RemoteInv
<1>2. QED
  BY <1>1, RemoteInvHolds, PTL

\* What the identity file remembers is never executed again.
THEOREM NothingRunsTwice == Spec => []RememberedIsNotReexecuted
<1>1. RemoteInv => RememberedIsNotReexecuted
  BY DEF RemoteInv, AgentInv, RememberedIsNotReexecuted, Running
<1>2. QED
  BY <1>1, RemoteInvHolds, PTL

\* A remembered completion outranks what the server has recorded of its command.
THEOREM CompletionsCanBeAccepted == Spec => []CompletionOutranksEvents
<1>1. RemoteInv => CompletionOutranksEvents
  <2> SUFFICES ASSUME RemoteInv, agentFaults = 0, NEW c \in Commands,
                      remembered[c] # NoCompletion, commands[c].state \notin Terminal
               PROVE  remembered[c].sequence > commands[c].lastEventSequence
    BY DEF CompletionOutranksEvents
  <2>1. remembered[c] \in Completions /\ commands[c].lastEventSequence \in Nat
    BY DEF RemoteInv, TypeOK, Row
  <2>2. commands[c].lastEventSequence = 0 \/ Outranked(c, commands[c].lastEventSequence)
    BY DEF RemoteInv, EventsOutranked
  <2>3. QED
    BY <2>1, <2>2, RemoteBackupAssumption DEF Outranked, Completions
<1>2. QED
  BY <1>1, RemoteInvHolds, PTL

\* No step rewrites a finished backup, except by a lifecycle success that beat its kill.
THEOREM FinishedBackupsStay == Spec => FinishedBackupIsFinal
<1>1. RemoteInv /\ [Next]_vars => [FinalStep]_vars
  BY StepKeeps
<1>2. Spec => [][FinalStep]_vars
  BY <1>1, RemoteInvHolds, PTL DEF Spec
<1>3. QED
  BY <1>2 DEF FinishedBackupIsFinal, FinalStep
=============================================================================
