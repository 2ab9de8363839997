------------------------- MODULE AgentCommandQueue -------------------------
(***************************************************************************)
(* The command table under arbitrary clients: a token that was ever handed  *)
(* out may be presented at any time, for any command, with any sequence     *)
(* number.  This covers every agent, duplicated agent processes, delayed    *)
(* requests and restarts of either side (the table is durable and the store *)
(* keeps nothing in memory).                                                *)
(***************************************************************************)
EXTENDS AgentStore

CONSTANT MaxSequence      \* bound on the sequence numbers clients present

ASSUME MaxSequenceAssumption == MaxSequence \in Nat \ {0}

VARIABLE issued           \* the tokens handed out so far

queueVars == <<commands, issued>>

QueueInit ==
    /\ commands = [c \in Commands |-> NoRow]
    /\ issued = {}

\* A poll hands out a token that was never drawn before.
Poll(a, c, t) ==
    /\ LeaseGrant(a, c, t)
    /\ issued' = issued \cup {t}

\* The calls a client makes with a lease token.
ClientCall(c, t) ==
    \/ AcknowledgeCommand(c, t)
    \/ GetCommandStatus(c, t)
    \/ \E s \in 1..MaxSequence : RecordCommandEvent(c, t, s)
    \/ \E s \in 1..MaxSequence, success \in BOOLEAN : CompleteCommand(c, t, s, success)

QueueNext ==
    \/ \E a \in Agents, c \in Commands, t \in Tokens \ issued : Poll(a, c, t)
    \/ /\ UNCHANGED issued
       /\ \/ \E c \in Commands, s \in Seconds : EnqueueCommand(c, s)
          \/ \E a \in Agents : LeaseNone(a)
          \/ \E c \in Commands, t \in issued : ClientCall(c, t)
          \/ \E c \in Commands : CancelCommand(c)
          \/ Tick

QueueSpec == QueueInit /\ [][QueueNext]_queueVars

-----------------------------------------------------------------------------
(* Properties. *)

\* The rows are rows of the table, and only handed-out tokens own leases.
QueueTypeOK ==
    /\ commands \in [Commands -> Row]
    /\ issued \subseteq Tokens
    /\ \A c \in Commands : commands[c].leaseOwner \in issued \cup {NoToken}

\* "One agent service is deliberately a serial executor": whatever the clients
\* do, no agent ever has two commands out at once, not even one whose lease
\* has run out beside a fresh one.
SerialExecutor ==
    \A c, d \in Commands :
        /\ AgentOf[c] = AgentOf[d]
        /\ commands[c].state \in Held
        /\ commands[d].state \in Held
        => c = d

\* A token opens one command only, and every command that is out has one: a
\* token that leaked from one delivery cannot drive another.
TokenNamesOneCommand ==
    /\ \A c \in Commands : commands[c].state \in Held => commands[c].leaseOwner # NoToken
    /\ \A c, d \in Commands :
          commands[c].leaseOwner = commands[d].leaseOwner /\ commands[c].leaseOwner # NoToken
          => c = d

\* A finished command is never touched again: no re-lease, no late event or
\* completion, no cancellation after the fact (only its unread lease clock runs).
TerminalIsFinal ==
    [][\A c \in Commands :
          commands[c].state \in Terminal
          => commands'[c] = [commands[c] EXCEPT !.leaseTtl = commands'[c].leaseTtl]]_queueVars

\* A lease that ran out stays lost: the row changes hands only through the
\* queue, so its old token never regains a live lease on it.
ExpiredLeaseStaysLost ==
    [][\A c \in Commands :
          Expired(commands[c]) /\ commands'[c].leaseTtl > 0
          => /\ commands'[c].state = "leased"
             /\ commands'[c].leaseOwner \notin issued]_queueVars

\* Event sequence numbers never go back, not even across a re-lease.
SequenceNeverGoesBack ==
    [][\A c \in Commands :
          commands'[c].lastEventSequence >= commands[c].lastEventSequence]_queueVars

\* The abstract phase of a command: who holds it and for how long is left out.
Phase(state) == CASE state = "queued" -> "pending"
                  [] state \in Held   -> "held"
                  [] OTHER            -> state

phases == [c \in Commands |-> Phase(commands[c].state)]

Lifecycle == INSTANCE CommandLifecycle WITH phase <- phases

\* The queue implements the serial executor CommandLifecycle describes.
ImplementsLifecycle == Lifecycle!Spec
=============================================================================
