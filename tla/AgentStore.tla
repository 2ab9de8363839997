----------------------------- MODULE AgentStore -----------------------------
(***************************************************************************)
(* The durable command queue of the agent control plane: the table         *)
(* agent_commands of backend/src/stores/AgentStore.ts and the methods that  *)
(* change it.  Every method runs on synchronous better-sqlite3 calls, whose *)
(* awaits only yield to microtasks, so a method is one step.  An action is  *)
(* a call that changes the table; the Can* guards say when a call does not  *)
(* answer null.  AgentCommandQueue runs these actions under arbitrary       *)
(* clients, RemoteBackup under the agent and the services of the program.   *)
(***************************************************************************)
EXTENDS Integers

CONSTANTS
    Agents,       \* enrolled agents
    Commands,     \* command ids that may be enqueued
    AgentOf,      \* the agent each command id is addressed to
    Tokens,       \* lease tokens (24 random bytes: never drawn twice)
    NoToken,      \* the null of column lease_owner
    Seconds,      \* values of column created_at (unixepoch(): ties happen)
    LeaseTicks    \* length of a lease, AGENT_COMMAND_LEASE_MS

ASSUME AgentStoreAssumption ==
    /\ AgentOf \in [Commands -> Agents]
    /\ NoToken \notin Tokens
    /\ Seconds \subseteq Nat
    /\ LeaseTicks \in Nat \ {0}

VARIABLE commands     \* the rows, by command id

-----------------------------------------------------------------------------
(* Rows. *)

Held     == {"leased", "acknowledged", "running"}
Terminal == {"completed", "failed", "cancelled"}
States   == {"absent", "queued"} \cup Held \cup Terminal

\* leaseTtl is max(0, lease_expires_at - now) in whole seconds; a null
\* lease_expires_at reads as 0, which every method treats like an expired one.
Row == [state : States,
        leaseOwner : Tokens \cup {NoToken},
        leaseTtl : 0..LeaseTicks,
        lastEventSequence : Nat,
        createdAt : Nat]

NoRow == [state |-> "absent", leaseOwner |-> NoToken, leaseTtl |-> 0,
          lastEventSequence |-> 0, createdAt |-> 0]

NewRow(s) == [state |-> "queued", leaseOwner |-> NoToken, leaseTtl |-> 0,
              lastEventSequence |-> 0, createdAt |-> s]

RequeuedRow(row) == [row EXCEPT !.state = "queued",
                                !.leaseOwner = NoToken,
                                !.leaseTtl = 0]

LeasedRow(row, t) == [row EXCEPT !.state = "leased",
                                 !.leaseOwner = t,
                                 !.leaseTtl = LeaseTicks]

\* Mutant of RunningRow: the renewal is added to what is left of the lease.
RunningRowAdding(row, s) == [row EXCEPT !.state = "running",
                                        !.lastEventSequence = s,
                                        !.leaseTtl = @ + LeaseTicks]

RunningRow(row, s) == [row EXCEPT !.state = "running",
                                  !.lastEventSequence = s,
                                  !.leaseTtl = LeaseTicks]

FinishedRow(row, s, success) ==
    [row EXCEPT !.state = IF success THEN "completed" ELSE "failed",
                !.lastEventSequence = s]

-----------------------------------------------------------------------------
(* Guards the methods share. *)

Expired(row) == row.state \in Held /\ row.leaseTtl = 0

\* existing.leaseOwner === leaseToken and the lease has not run out.
HoldsLease(c, t) == commands[c].leaseOwner = t /\ commands[c].leaseTtl > 0

\* Mutant of Swept: the sweep's state list misses the running commands.
SweptUnlessRunning(a) ==
    [c \in Commands |-> IF AgentOf[c] = a /\ Expired(commands[c]) /\ commands[c].state # "running"
                        THEN RequeuedRow(commands[c])
                        ELSE commands[c]]

\* First statement of leaseNext: every expired lease of the agent is queued.
Swept(a) ==
    [c \in Commands |-> IF AgentOf[c] = a /\ Expired(commands[c])
                        THEN RequeuedRow(commands[c])
                        ELSE commands[c]]

\* Mutant of Busy: the gate's state list misses one of the active states.
BusyUnlessAcknowledged(a) ==
    \E c \in Commands : /\ AgentOf[c] = a
                        /\ commands[c].state \in {"leased", "running"}
                        /\ commands[c].leaseTtl > 0

\* The durable gate: a non-expired command of the agent is active.
Busy(a) ==
    \E c \in Commands : /\ AgentOf[c] = a
                        /\ commands[c].state \in Held
                        /\ commands[c].leaseTtl > 0

QueuedFor(a) ==
    {c \in Commands : AgentOf[c] = a /\ Swept(a)[c].state = "queued"}

\* orderBy asc(createdAt), first row: any row of the oldest second.
Oldest(a) ==
    {c \in QueuedFor(a) :
        \A d \in QueuedFor(a) : commands[c].createdAt <= commands[d].createdAt}

\* Mutant of Granted: the update's condition misses the candidate's id.
GrantedWithoutId(a, c, t) ==
    [d \in Commands |-> IF d \in QueuedFor(a) THEN LeasedRow(Swept(a)[d], t) ELSE Swept(a)[d]]

Granted(a, c, t) == [Swept(a) EXCEPT ![c] = LeasedRow(@, t)]

CanAcknowledge(c, t) ==
    HoldsLease(c, t) /\ commands[c].state \in {"leased", "acknowledged"}

\* Mutant of CanRecord: replayed and reordered events are not told apart.
CanRecordAnySequence(c, t, s) == HoldsLease(c, t) /\ commands[c].state \in Held

CanRecord(c, t, s) ==
    /\ HoldsLease(c, t)
    /\ commands[c].state \in Held
    /\ s > commands[c].lastEventSequence

\* Mutant of CanComplete: the terminal states are not looked at.
CanCompleteAnyState(c, t, s) == HoldsLease(c, t) /\ s > commands[c].lastEventSequence

CanComplete(c, t, s) == CanRecord(c, t, s)

\* Mutant of CanRenew: an expired lease is renewed.
CanRenewExpired(c, t) == commands[c].leaseOwner = t /\ commands[c].state \in Held

CanRenew(c, t) == HoldsLease(c, t) /\ commands[c].state \in Held

-----------------------------------------------------------------------------
(* The methods. *)

EnqueueCommand(c, s) ==
    /\ commands[c].state = "absent"
    /\ \A d \in Commands : commands[d].createdAt <= s
    /\ commands' = [commands EXCEPT ![c] = NewRow(s)]

\* leaseNext returning null: the sweep still happened.
LeaseNone(a) ==
    /\ Busy(a) \/ QueuedFor(a) = {}
    /\ commands' = Swept(a)

LeaseGrant(a, c, t) ==
    /\ ~Busy(a)
    /\ c \in Oldest(a)
    /\ commands' = Granted(a, c, t)

AcknowledgeCommand(c, t) ==
    /\ CanAcknowledge(c, t)
    /\ commands' = [commands EXCEPT ![c].state = "acknowledged"]

RecordCommandEvent(c, t, s) ==
    /\ CanRecord(c, t, s)
    /\ commands' = [commands EXCEPT ![c] = RunningRow(@, s)]

CompleteCommand(c, t, s, success) ==
    /\ CanComplete(c, t, s)
    /\ commands' = [commands EXCEPT ![c] = FinishedRow(@, s, success)]

\* Mutant of CancelCommand: a finished command is cancelled.
CancelFinished(c) ==
    /\ commands[c].state # "absent"
    /\ commands' = [commands EXCEPT ![c].state = "cancelled"]

\* The lease columns stay: a running agent still reads the cancellation with
\* the token it holds.
CancelCommand(c) ==
    /\ commands[c].state \in {"queued"} \cup Held
    /\ commands' = [commands EXCEPT ![c].state = "cancelled"]

GetCommandStatus(c, t) ==
    /\ CanRenew(c, t)
    /\ commands' = [commands EXCEPT ![c].leaseTtl = LeaseTicks]

\* One second passes.
Tick ==
    /\ \E c \in Commands : commands[c].leaseTtl > 0
    /\ commands' = [c \in Commands |->
                      [commands[c] EXCEPT !.leaseTtl = IF @ > 0 THEN @ - 1 ELSE 0]]
=============================================================================
