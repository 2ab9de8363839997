---------------------- MODULE AgentCommandQueueProofs ----------------------
(***************************************************************************)
(* Proofs about the command queue for any agents, commands, tokens, clocks *)
(* and lease lengths.  The inductive invariant QueueInv joins the type      *)
(* invariant, the serial executor and the uniqueness of tokens: the serial  *)
(* executor is inductive beside the types, the uniqueness of tokens needs   *)
(* that every owner was handed out, which QueueTypeOK says.                 *)
(***************************************************************************)
EXTENDS AgentCommandQueue, TLAPS

\* A command id that was never used has a blank row.
AbsentIsBlank ==
    \A c \in Commands : commands[c].state = "absent" => commands[c].lastEventSequence = 0

QueueInv == QueueTypeOK /\ SerialExecutor /\ TokenNamesOneCommand /\ AbsentIsBlank

\* What a step that hands out no command may do to a row.
QuietChange(old, new) ==
    /\ new.state \in Held => old.state \in Held
    /\ new.state = "absent" => old.state = "absent"
    /\ \/ new.leaseOwner = old.leaseOwner
       \/ new.leaseOwner = NoToken /\ new.state = "queued"
    /\ new.lastEventSequence >= old.lastEventSequence \/ old.state = "absent"
    /\ new.state = "absent" => new.lastEventSequence = old.lastEventSequence
    /\ old.state \in Terminal => new = [old EXCEPT !.leaseTtl = new.leaseTtl]
    /\ Expired(old) => new.leaseTtl = 0

\* The rows the methods write are rows.
LEMMA RowsAreRows ==
    ASSUME NEW row \in Row
    PROVE  /\ RequeuedRow(row) \in Row
           /\ \A t \in Tokens : LeasedRow(row, t) \in Row
           /\ \A s \in Nat : RunningRow(row, s) \in Row
           /\ \A s \in Nat, success \in BOOLEAN : FinishedRow(row, s, success) \in Row
<1>0. 0 \in 0..LeaseTicks /\ LeaseTicks \in 0..LeaseTicks
  BY AgentStoreAssumption DEF AgentStoreAssumption
<1>1. RequeuedRow(row) \in Row
  BY <1>0 DEF Row, States, Held, Terminal, RequeuedRow
<1>2. ASSUME NEW t \in Tokens PROVE LeasedRow(row, t) \in Row
  BY <1>0 DEF Row, States, Held, Terminal, LeasedRow
<1>3. ASSUME NEW s \in Nat PROVE RunningRow(row, s) \in Row
  BY <1>0 DEF Row, States, Held, Terminal, RunningRow
<1>4. ASSUME NEW s \in Nat, NEW success \in BOOLEAN PROVE FinishedRow(row, s, success) \in Row
  BY DEF Row, States, Held, Terminal, FinishedRow
<1>5. QED
  BY <1>1, <1>2, <1>3, <1>4

\* What the sweep of leaseNext does to one row.
LEMMA SweptIs ==
    ASSUME QueueTypeOK, NEW a \in Agents
    PROVE  /\ Swept(a) \in [Commands -> Row]
           /\ \A c \in Commands :
                 Swept(a)[c] = IF AgentOf[c] = a /\ Expired(commands[c])
                               THEN RequeuedRow(commands[c]) ELSE commands[c]
BY RowsAreRows DEF QueueTypeOK, Swept

\* What a granting poll does to the table.
LEMMA GrantedIs ==
    ASSUME QueueTypeOK, NEW a \in Agents, NEW c \in Commands, NEW t \in Tokens
    PROVE  /\ Granted(a, c, t) \in [Commands -> Row]
           /\ Granted(a, c, t)[c].state = "leased"
           /\ Granted(a, c, t)[c].leaseOwner = t
           /\ Granted(a, c, t)[c].lastEventSequence = Swept(a)[c].lastEventSequence
           /\ \A d \in Commands \ {c} : Granted(a, c, t)[d] = Swept(a)[d]
<1>1. Swept(a) \in [Commands -> Row]
  BY SweptIs
<1>2. Granted(a, c, t) = [Swept(a) EXCEPT ![c] = LeasedRow(Swept(a)[c], t)]
  BY DEF Granted
<1>3. LeasedRow(Swept(a)[c], t) \in Row
  BY <1>1, RowsAreRows
<1>4. /\ LeasedRow(Swept(a)[c], t).state = "leased"
      /\ LeasedRow(Swept(a)[c], t).leaseOwner = t
      /\ LeasedRow(Swept(a)[c], t).lastEventSequence = Swept(a)[c].lastEventSequence
  BY <1>1 DEF LeasedRow, Row
<1>5. QED
  BY <1>1, <1>2, <1>3, <1>4

\* What enqueueCommand inserts is a row.
LEMMA NewRowIsRow ==
    ASSUME NEW s \in Seconds
    PROVE  NewRow(s) \in Row
BY AgentStoreAssumption DEF AgentStoreAssumption, NewRow, Row, States, Held, Terminal

\* The empty table is well typed.
LEMMA TypeInit == QueueInit => QueueTypeOK
BY AgentStoreAssumption DEF AgentStoreAssumption, QueueInit, QueueTypeOK, NoRow, Row, States, Held, Terminal

\* Every call a client can make keeps the table a table and its owners known.
LEMMA TypeClientCall ==
    ASSUME QueueTypeOK, NEW c \in Commands, NEW t \in issued,
           ClientCall(c, t), UNCHANGED issued
    PROVE  QueueTypeOK'
<1>0. commands[c] \in Row /\ LeaseTicks \in 0..LeaseTicks
  BY AgentStoreAssumption DEF AgentStoreAssumption, QueueTypeOK
<1>1. CASE AcknowledgeCommand(c, t)
  BY <1>0, <1>1 DEF QueueTypeOK, AcknowledgeCommand, Row, States, Held
<1>2. CASE GetCommandStatus(c, t)
  BY <1>0, <1>2 DEF QueueTypeOK, GetCommandStatus, Row
<1>3. CASE \E s \in 1..MaxSequence : RecordCommandEvent(c, t, s)
  <2> PICK s \in 1..MaxSequence : RecordCommandEvent(c, t, s)
    BY <1>3
  <2>1. RunningRow(commands[c], s) \in Row
    BY <1>0, RowsAreRows, MaxSequenceAssumption DEF MaxSequenceAssumption
  <2>2. RunningRow(commands[c], s).leaseOwner = commands[c].leaseOwner
    BY <1>0 DEF RunningRow, Row
  <2>3. commands' = [commands EXCEPT ![c] = RunningRow(commands[c], s)]
    BY DEF RecordCommandEvent
  <2>4. QED
    BY <2>1, <2>2, <2>3 DEF QueueTypeOK
<1>4. CASE \E s \in 1..MaxSequence, success \in BOOLEAN : CompleteCommand(c, t, s, success)
  <2> PICK s \in 1..MaxSequence, success \in BOOLEAN : CompleteCommand(c, t, s, success)
    BY <1>4
  <2>1. FinishedRow(commands[c], s, success) \in Row
    BY <1>0, RowsAreRows, MaxSequenceAssumption DEF MaxSequenceAssumption
  <2>2. FinishedRow(commands[c], s, success).leaseOwner = commands[c].leaseOwner
    BY <1>0 DEF FinishedRow, Row
  <2>3. commands' = [commands EXCEPT ![c] = FinishedRow(commands[c], s, success)]
    BY DEF CompleteCommand
  <2>4. QED
    BY <2>1, <2>2, <2>3 DEF QueueTypeOK
<1>5. QED
  BY <1>1, <1>2, <1>3, <1>4 DEF ClientCall

\* QueueTypeOK is inductive.
LEMMA TypeNext == QueueTypeOK /\ [QueueNext]_queueVars => QueueTypeOK'
<1> SUFFICES ASSUME QueueTypeOK, [QueueNext]_queueVars
             PROVE  QueueTypeOK'
  OBVIOUS
<1>1. ASSUME NEW a \in Agents, NEW c \in Commands, NEW t \in Tokens \ issued, Poll(a, c, t)
      PROVE  QueueTypeOK'
  <2>1. commands' = Granted(a, c, t) /\ issued' = issued \cup {t}
    BY <1>1 DEF Poll, LeaseGrant
  <2>2. commands' \in [Commands -> Row] /\ issued' \subseteq Tokens
    BY <2>1, GrantedIs DEF QueueTypeOK
  <2>3. ASSUME NEW d \in Commands PROVE commands'[d].leaseOwner \in issued' \cup {NoToken}
    <3>1. Swept(a)[d] \in Row /\ Swept(a)[d].leaseOwner \in issued \cup {NoToken}
      BY SweptIs DEF QueueTypeOK, RequeuedRow, Row
    <3>2. CASE d = c
      BY <2>1, <3>2, GrantedIs
    <3>3. CASE d # c
      BY <2>1, <3>1, <3>3, GrantedIs
    <3>4. QED
      BY <3>2, <3>3
  <2>4. QED
    BY <2>2, <2>3 DEF QueueTypeOK
<1>2. ASSUME NEW c \in Commands, NEW s \in Seconds, EnqueueCommand(c, s), UNCHANGED issued
      PROVE  QueueTypeOK'
  <2>1. NewRow(s).leaseOwner = NoToken
    BY DEF NewRow
  <2>2. QED
    BY <1>2, <2>1, NewRowIsRow DEF QueueTypeOK, EnqueueCommand
<1>3. ASSUME NEW a \in Agents, LeaseNone(a), UNCHANGED issued
      PROVE  QueueTypeOK'
  BY <1>3, SweptIs DEF QueueTypeOK, LeaseNone, RequeuedRow, Row
<1>4. ASSUME NEW c \in Commands, NEW t \in issued, ClientCall(c, t), UNCHANGED issued
      PROVE  QueueTypeOK'
  BY <1>4, TypeClientCall
<1>5. ASSUME NEW c \in Commands, CancelCommand(c), UNCHANGED issued
      PROVE  QueueTypeOK'
  BY <1>5 DEF QueueTypeOK, CancelCommand, Row, States, Terminal
<1>6. ASSUME Tick, UNCHANGED issued
      PROVE  QueueTypeOK'
  <2>1. ASSUME NEW c \in Commands
        PROVE  (IF commands[c].leaseTtl > 0 THEN commands[c].leaseTtl - 1 ELSE 0) \in 0..LeaseTicks
    BY AgentStoreAssumption DEF AgentStoreAssumption, QueueTypeOK, Row
  <2>2. QED
    BY <1>6, <2>1 DEF QueueTypeOK, Tick, Row
<1>7. CASE UNCHANGED queueVars
  BY <1>7 DEF QueueTypeOK, queueVars
<1>8. QED
  BY <1>1, <1>2, <1>3, <1>4, <1>5, <1>6, <1>7 DEF QueueNext

\* The rows stay rows of the table and their owners tokens that were handed out.
THEOREM QueueTypeCorrect == QueueSpec => []QueueTypeOK
BY TypeInit, TypeNext, PTL DEF QueueSpec

-----------------------------------------------------------------------------
(* Steps that hand out no command. *)

\* A row a step leaves alone.
LEMMA QuietUnchanged ==
    ASSUME NEW row \in Row
    PROVE  QuietChange(row, row)
BY DEF QuietChange, Row, Expired, Held, Terminal

\* A client's call changes one row, quietly.
LEMMA QuietClientCall ==
    ASSUME QueueTypeOK, NEW c \in Commands, NEW t \in issued, ClientCall(c, t),
           NEW d \in Commands
    PROVE  QuietChange(commands[d], commands'[d])
<1>0. commands \in [Commands -> Row] /\ commands[d] \in Row /\ commands[c] \in Row
  BY DEF QueueTypeOK
<1>1. CASE AcknowledgeCommand(c, t)
  <2>1. CASE d = c
    <3>1. commands'[d] = [commands[d] EXCEPT !.state = "acknowledged"]
      BY <1>0, <1>1, <2>1 DEF AcknowledgeCommand
    <3>2. commands[d].state \in Held /\ ~Expired(commands[d])
      BY <1>0, <1>1, <2>1 DEF AcknowledgeCommand, CanAcknowledge, HoldsLease, Held, Expired, Row
    <3>3. QED
      BY <1>0, <3>1, <3>2 DEF QuietChange, Row, Held, Terminal
  <2>2. CASE d # c
    BY <1>0, <1>1, <2>2, QuietUnchanged DEF AcknowledgeCommand
  <2>3. QED
    BY <2>1, <2>2
<1>2. CASE GetCommandStatus(c, t)
  <2>1. CASE d = c
    <3>1. commands'[d] = [commands[d] EXCEPT !.leaseTtl = LeaseTicks]
      BY <1>0, <1>2, <2>1 DEF GetCommandStatus
    <3>2. commands[d].state \in Held /\ ~Expired(commands[d])
      BY <1>0, <1>2, <2>1 DEF GetCommandStatus, CanRenew, HoldsLease, Held, Expired, Row
    <3>3. QED
      BY <1>0, <3>1, <3>2 DEF QuietChange, Row, Held, Terminal
  <2>2. CASE d # c
    BY <1>0, <1>2, <2>2, QuietUnchanged DEF GetCommandStatus
  <2>3. QED
    BY <2>1, <2>2
<1>3. CASE \E s \in 1..MaxSequence : RecordCommandEvent(c, t, s)
  <2> PICK s \in 1..MaxSequence : RecordCommandEvent(c, t, s)
    BY <1>3
  <2>1. CASE d = c
    <3>1. commands'[d] = RunningRow(commands[d], s)
      BY <1>0, <2>1 DEF RecordCommandEvent
    <3>2. /\ commands[d].state \in Held /\ ~Expired(commands[d])
          /\ s > commands[d].lastEventSequence
      BY <1>0, <2>1 DEF RecordCommandEvent, CanRecord, HoldsLease, Held, Expired, Row
    <3>3. QED
      BY <1>0, <3>1, <3>2 DEF QuietChange, RunningRow, Row, Held, Terminal
  <2>2. CASE d # c
    BY <1>0, <2>2, QuietUnchanged DEF RecordCommandEvent
  <2>3. QED
    BY <2>1, <2>2
<1>4. CASE \E s \in 1..MaxSequence, success \in BOOLEAN : CompleteCommand(c, t, s, success)
  <2> PICK s \in 1..MaxSequence, success \in BOOLEAN : CompleteCommand(c, t, s, success)
    BY <1>4
  <2>1. CASE d = c
    <3>1. commands'[d] = FinishedRow(commands[d], s, success)
      BY <1>0, <2>1 DEF CompleteCommand
    <3>2. /\ commands[d].state \in Held /\ ~Expired(commands[d])
          /\ s > commands[d].lastEventSequence
      BY <1>0, <2>1 DEF CompleteCommand, CanComplete, CanRecord, HoldsLease, Held, Expired, Row
    <3>3. QED
      BY <1>0, <3>1, <3>2 DEF QuietChange, FinishedRow, Row, Held, Terminal
  <2>2. CASE d # c
    BY <1>0, <2>2, QuietUnchanged DEF CompleteCommand
  <2>3. QED
    BY <2>1, <2>2
<1>5. QED
  BY <1>1, <1>2, <1>3, <1>4 DEF ClientCall

\* So do enqueueing, cancelling, the sweep of an empty poll and the clock.
LEMMA QuietOther ==
    ASSUME QueueTypeOK, NEW d \in Commands,
           \/ \E c \in Commands, s \in Seconds : EnqueueCommand(c, s)
           \/ \E a \in Agents : LeaseNone(a)
           \/ \E c \in Commands : CancelCommand(c)
           \/ Tick
    PROVE  QuietChange(commands[d], commands'[d])
<1>0. commands \in [Commands -> Row] /\ commands[d] \in Row
  BY DEF QueueTypeOK
<1>1. ASSUME NEW c \in Commands, NEW s \in Seconds, EnqueueCommand(c, s)
      PROVE  QuietChange(commands[d], commands'[d])
  <2>1. CASE d = c
    <3>1. commands'[d] = NewRow(s) /\ commands[d].state = "absent"
      BY <1>0, <1>1, <2>1 DEF EnqueueCommand
    <3>2. QED
      BY <1>0, <3>1 DEF QuietChange, NewRow, Row, Held, Terminal, Expired
  <2>2. CASE d # c
    BY <1>0, <1>1, <2>2, QuietUnchanged DEF EnqueueCommand
  <2>3. QED
    BY <2>1, <2>2
<1>2. ASSUME NEW a \in Agents, LeaseNone(a)
      PROVE  QuietChange(commands[d], commands'[d])
  <2>1. commands'[d] = IF AgentOf[d] = a /\ Expired(commands[d])
                       THEN RequeuedRow(commands[d]) ELSE commands[d]
    BY <1>2, SweptIs DEF LeaseNone
  <2>2. CASE AgentOf[d] = a /\ Expired(commands[d])
    BY <1>0, <2>1, <2>2 DEF QuietChange, RequeuedRow, Row, Held, Terminal, Expired
  <2>3. CASE ~(AgentOf[d] = a /\ Expired(commands[d]))
    BY <1>0, <2>1, <2>3, QuietUnchanged
  <2>4. QED
    BY <2>2, <2>3
<1>3. ASSUME NEW c \in Commands, CancelCommand(c)
      PROVE  QuietChange(commands[d], commands'[d])
  <2>1. CASE d = c
    <3>1. /\ commands'[d] = [commands[d] EXCEPT !.state = "cancelled"]
          /\ commands[d].state \in {"queued"} \cup Held
      BY <1>0, <1>3, <2>1 DEF CancelCommand
    <3>2. QED
      BY <1>0, <3>1 DEF QuietChange, Row, Held, Terminal, Expired
  <2>2. CASE d # c
    BY <1>0, <1>3, <2>2, QuietUnchanged DEF CancelCommand
  <2>3. QED
    BY <2>1, <2>2
<1>4. CASE Tick
  <2>1. commands'[d] = [commands[d] EXCEPT !.leaseTtl =
                          IF commands[d].leaseTtl > 0 THEN commands[d].leaseTtl - 1 ELSE 0]
    BY <1>0, <1>4 DEF Tick
  <2>2. QED
    BY <1>0, <2>1 DEF QuietChange, Row, Held, Terminal, Expired
<1>5. QED
  BY <1>1, <1>2, <1>3, <1>4

-----------------------------------------------------------------------------
(* A poll that hands out a command. *)

\* The command was free, the others change quietly, and none of the same agent
\* stays out.
LEMMA PollStep ==
    ASSUME QueueTypeOK, NEW a \in Agents, NEW c \in Commands, NEW t \in Tokens \ issued,
           Poll(a, c, t)
    PROVE  /\ AgentOf[c] = a
           /\ commands[c].state = "queued" \/ Expired(commands[c])
           /\ commands'[c].state = "leased"
           /\ commands'[c].leaseOwner = t
           /\ commands'[c].lastEventSequence = commands[c].lastEventSequence
           /\ \A d \in Commands \ {c} :
                 /\ QuietChange(commands[d], commands'[d])
                 /\ AgentOf[d] = a => commands'[d].state \notin Held
<1>0. /\ commands \in [Commands -> Row]
      /\ commands' = Granted(a, c, t)
      /\ ~Busy(a)
      /\ c \in QueuedFor(a)
  BY DEF QueueTypeOK, Poll, LeaseGrant, Oldest
<1>1. AgentOf[c] = a /\ Swept(a)[c].state = "queued"
  BY <1>0 DEF QueuedFor
<1>2. commands[c].state = "queued" \/ Expired(commands[c])
  BY <1>0, <1>1, SweptIs
<1>3. Swept(a)[c].lastEventSequence = commands[c].lastEventSequence
  BY <1>0, SweptIs DEF RequeuedRow, Row
<1>4. ASSUME NEW d \in Commands \ {c}
      PROVE  /\ QuietChange(commands[d], commands'[d])
             /\ AgentOf[d] = a => commands'[d].state \notin Held
  <2>1. commands'[d] = IF AgentOf[d] = a /\ Expired(commands[d])
                       THEN RequeuedRow(commands[d]) ELSE commands[d]
    BY <1>0, GrantedIs, SweptIs
  <2>2. CASE AgentOf[d] = a /\ Expired(commands[d])
    BY <1>0, <2>1, <2>2 DEF QuietChange, RequeuedRow, Row, Held, Terminal, Expired
  <2>3. CASE ~(AgentOf[d] = a /\ Expired(commands[d]))
    <3>1. QuietChange(commands[d], commands'[d])
      BY <1>0, <2>1, <2>3, QuietUnchanged
    <3>2. AgentOf[d] = a => commands[d].state \notin Held
      BY <1>0, <2>3, AgentStoreAssumption DEF AgentStoreAssumption, Busy, Expired, Row
    <3>3. QED
      BY <2>1, <2>3, <3>1, <3>2
  <2>4. QED
    BY <2>2, <2>3
<1>5. QED
  BY <1>0, <1>1, <1>2, <1>3, <1>4, GrantedIs

\* Every step is such a poll or changes every row quietly.
LEMMA StepIsPollOrQuiet ==
    ASSUME QueueTypeOK, [QueueNext]_queueVars
    PROVE  \/ \E a \in Agents, c \in Commands, t \in Tokens \ issued : Poll(a, c, t)
           \/ \A d \in Commands : QuietChange(commands[d], commands'[d])
<1>1. CASE UNCHANGED queueVars
  BY <1>1, QuietUnchanged DEF queueVars, QueueTypeOK
<1>2. CASE \E c \in Commands, t \in issued : ClientCall(c, t)
  BY <1>2, QuietClientCall
<1>3. CASE \/ \E c \in Commands, s \in Seconds : EnqueueCommand(c, s)
           \/ \E a \in Agents : LeaseNone(a)
           \/ \E c \in Commands : CancelCommand(c)
           \/ Tick
  BY <1>3, QuietOther
<1>4. QED
  BY <1>1, <1>2, <1>3 DEF QueueNext

-----------------------------------------------------------------------------
(* The inductive invariant. *)

\* The empty table satisfies the inductive invariant.
LEMMA InvInit == QueueInit => QueueInv
<1> SUFFICES ASSUME QueueInit PROVE QueueInv
  OBVIOUS
<1>1. \A c \in Commands : commands[c] = NoRow
  BY DEF QueueInit
<1>2. SerialExecutor /\ TokenNamesOneCommand /\ AbsentIsBlank
  BY <1>1 DEF SerialExecutor, TokenNamesOneCommand, AbsentIsBlank, NoRow, Held
<1>3. QED
  BY <1>2, TypeInit DEF QueueInv

\* Every method of the store preserves it: a granting poll because the sweep and
\* the gate leave the agent nothing else, every other call because it is quiet.
LEMMA InvNext == QueueInv /\ [QueueNext]_queueVars => QueueInv'
<1> SUFFICES ASSUME QueueInv, [QueueNext]_queueVars
             PROVE  QueueInv'
  OBVIOUS
<1>0. QueueTypeOK'
  BY TypeNext DEF QueueInv
<1>1. CASE \A d \in Commands : QuietChange(commands[d], commands'[d])
  <2>1. SerialExecutor'
    BY <1>1 DEF QueueInv, SerialExecutor, QuietChange
  <2>2. ASSUME NEW c \in Commands, commands'[c].state \in Held
        PROVE  commands'[c].leaseOwner # NoToken
    BY <1>1, <2>2 DEF QueueInv, TokenNamesOneCommand, QuietChange, Held
  <2>3. ASSUME NEW c \in Commands, NEW d \in Commands,
               commands'[c].leaseOwner = commands'[d].leaseOwner,
               commands'[c].leaseOwner # NoToken
        PROVE  c = d
    <3>1. ASSUME NEW e \in Commands, commands'[e].leaseOwner # NoToken
          PROVE  commands'[e].leaseOwner = commands[e].leaseOwner
      BY <1>1, <3>1 DEF QuietChange
    <3>2. commands[c].leaseOwner = commands[d].leaseOwner /\ commands[c].leaseOwner # NoToken
      BY <2>3, <3>1
    <3>3. QED
      BY <3>2 DEF QueueInv, TokenNamesOneCommand
  <2>4. AbsentIsBlank'
    BY <1>1 DEF QueueInv, AbsentIsBlank, QuietChange
  <2>5. QED
    BY <1>0, <2>1, <2>2, <2>3, <2>4 DEF QueueInv, TokenNamesOneCommand
<1>2. ASSUME NEW a \in Agents, NEW c \in Commands, NEW t \in Tokens \ issued, Poll(a, c, t)
      PROVE  QueueInv'
  <2>0. /\ AgentOf[c] = a
        /\ commands'[c].state = "leased"
        /\ commands'[c].leaseOwner = t
        /\ \A d \in Commands \ {c} :
              /\ QuietChange(commands[d], commands'[d])
              /\ AgentOf[d] = a => commands'[d].state \notin Held
    BY <1>2, PollStep DEF QueueInv
  <2>1. SerialExecutor'
    BY <2>0 DEF QueueInv, SerialExecutor, QuietChange
  <2>2. t # NoToken /\ \A d \in Commands : commands[d].leaseOwner # t
    BY AgentStoreAssumption DEF AgentStoreAssumption, QueueInv, QueueTypeOK
  <2>3. \A d \in Commands \ {c} : commands'[d].leaseOwner # t
    BY <2>0, <2>2 DEF QuietChange
  <2>4. ASSUME NEW d \in Commands, commands'[d].state \in Held
        PROVE  commands'[d].leaseOwner # NoToken
    BY <2>0, <2>2, <2>4 DEF QueueInv, TokenNamesOneCommand, QuietChange, Held
  <2>5. ASSUME NEW d \in Commands, NEW e \in Commands,
               commands'[d].leaseOwner = commands'[e].leaseOwner,
               commands'[d].leaseOwner # NoToken
        PROVE  d = e
    <3>1. ASSUME NEW f \in Commands \ {c}, commands'[f].leaseOwner # NoToken
          PROVE  commands'[f].leaseOwner = commands[f].leaseOwner
      BY <2>0, <3>1 DEF QuietChange
    <3>2. CASE d = c \/ e = c
      BY <2>0, <2>3, <2>5, <3>2
    <3>3. CASE d # c /\ e # c
      <4>1. commands[d].leaseOwner = commands[e].leaseOwner /\ commands[d].leaseOwner # NoToken
        BY <2>5, <3>1, <3>3
      <4>2. QED
        BY <4>1 DEF QueueInv, TokenNamesOneCommand
    <3>4. QED
      BY <3>2, <3>3
  <2>6. AbsentIsBlank'
    BY <2>0 DEF QueueInv, AbsentIsBlank, QuietChange
  <2>7. QED
    BY <1>0, <2>1, <2>4, <2>5, <2>6 DEF QueueInv, TokenNamesOneCommand
<1>3. QED
  BY <1>1, <1>2, StepIsPollOrQuiet DEF QueueInv

\* The rows, the serial executor and the tokens hold together in every state of
\* the queue: the inductive invariant of the methods of AgentStore.
THEOREM QueueInvHolds == QueueSpec => []QueueInv
BY InvInit, InvNext, PTL DEF QueueSpec

\* No agent ever has two commands out at once.
THEOREM SerialExecutorHolds == QueueSpec => []SerialExecutor
BY QueueInvHolds, PTL DEF QueueInv

\* A lease token opens one command only.
THEOREM TokenNamesOneCommandHolds == QueueSpec => []TokenNamesOneCommand
BY QueueInvHolds, PTL DEF QueueInv
-----------------------------------------------------------------------------
(* What a step may never do. *)

\* A step leaves a finished row alone, its lease clock excepted.
LEMMA TerminalStep ==
    ASSUME QueueInv, [QueueNext]_queueVars, NEW c \in Commands, commands[c].state \in Terminal
    PROVE  commands'[c] = [commands[c] EXCEPT !.leaseTtl = commands'[c].leaseTtl]
<1>1. CASE \A d \in Commands : QuietChange(commands[d], commands'[d])
  BY <1>1 DEF QuietChange
<1>2. ASSUME NEW a \in Agents, NEW d \in Commands, NEW t \in Tokens \ issued, Poll(a, d, t)
      PROVE  QuietChange(commands[c], commands'[c])
  <2>1. commands[d].state = "queued" \/ Expired(commands[d])
    BY <1>2, PollStep DEF QueueInv
  <2>2. c # d
    BY <2>1 DEF Expired, Held, Terminal
  <2>3. QED
    BY <1>2, <2>2, PollStep DEF QueueInv
<1>3. QED
  BY <1>1, <1>2, StepIsPollOrQuiet DEF QueueInv, QuietChange

\* A step that gives an expired row a live lease is a poll with a new token.
LEMMA ExpiredStep ==
    ASSUME QueueInv, [QueueNext]_queueVars, NEW c \in Commands,
           Expired(commands[c]), commands'[c].leaseTtl > 0
    PROVE  commands'[c].state = "leased" /\ commands'[c].leaseOwner \notin issued
<1>1. ~QuietChange(commands[c], commands'[c])
  BY DEF QuietChange
<1>2. PICK a \in Agents, d \in Commands, t \in Tokens \ issued : Poll(a, d, t)
  BY <1>1, StepIsPollOrQuiet DEF QueueInv
<1>3. c = d
  BY <1>1, <1>2, PollStep DEF QueueInv
<1>4. QED
  BY <1>2, <1>3, PollStep DEF QueueInv

\* No step lowers lastEventSequence.
LEMMA SequenceStep ==
    ASSUME QueueInv, [QueueNext]_queueVars, NEW c \in Commands
    PROVE  commands'[c].lastEventSequence >= commands[c].lastEventSequence
<1>0. commands[c] \in Row /\ commands'[c] \in Row
  BY TypeNext DEF QueueInv, QueueTypeOK
<1>1. ASSUME QuietChange(commands[c], commands'[c])
      PROVE  commands'[c].lastEventSequence >= commands[c].lastEventSequence
  BY <1>0, <1>1 DEF QuietChange, QueueInv, AbsentIsBlank, Row
<1>2. ASSUME NEW a \in Agents, NEW d \in Commands, NEW t \in Tokens \ issued, Poll(a, d, t)
      PROVE  commands'[c].lastEventSequence >= commands[c].lastEventSequence
  <2>1. CASE c = d
    <3>1. commands'[c].lastEventSequence = commands[c].lastEventSequence
      BY <1>2, <2>1, PollStep DEF QueueInv
    <3>2. QED
      BY <1>0, <3>1 DEF Row
  <2>2. CASE c # d
    BY <1>1, <1>2, <2>2, PollStep DEF QueueInv
  <2>3. QED
    BY <2>1, <2>2
<1>3. QED
  BY <1>1, <1>2, StepIsPollOrQuiet DEF QueueInv

\* No method of the store touches a command that completed, failed or was
\* cancelled: no re-lease, late event, late completion or second cancellation.
THEOREM TerminalIsFinalHolds == QueueSpec => TerminalIsFinal
<1>1. QueueInv /\ [QueueNext]_queueVars
      => [\A c \in Commands :
            commands[c].state \in Terminal
            => commands'[c] = [commands[c] EXCEPT !.leaseTtl = commands'[c].leaseTtl]]_queueVars
  BY TerminalStep
<1>2. QED
  BY <1>1, QueueInvHolds, PTL DEF QueueSpec, TerminalIsFinal

\* An expired lease comes back to life only by a poll that draws a new token.
THEOREM ExpiredLeaseStaysLostHolds == QueueSpec => ExpiredLeaseStaysLost
<1>1. QueueInv /\ [QueueNext]_queueVars
      => [\A c \in Commands :
            Expired(commands[c]) /\ commands'[c].leaseTtl > 0
            => /\ commands'[c].state = "leased"
               /\ commands'[c].leaseOwner \notin issued]_queueVars
  BY ExpiredStep
<1>2. QED
  BY <1>1, QueueInvHolds, PTL DEF QueueSpec, ExpiredLeaseStaysLost

\* The event sequence of a command only grows, across every lease it has.
THEOREM SequenceNeverGoesBackHolds == QueueSpec => SequenceNeverGoesBack
<1>1. QueueInv /\ [QueueNext]_queueVars
      => [\A c \in Commands :
            commands'[c].lastEventSequence >= commands[c].lastEventSequence]_queueVars
  BY SequenceStep
<1>2. QED
  BY <1>1, QueueInvHolds, PTL DEF QueueSpec, SequenceNeverGoesBack
-----------------------------------------------------------------------------
(* The refinement of CommandLifecycle. *)

\* What a step does to the phases follows from what it does to the states.
LEMMA PhaseUpdate ==
    ASSUME NEW c \in Commands, NEW s,
           \A d \in Commands : commands'[d].state = IF d = c THEN s ELSE commands[d].state
    PROVE  phases' = [phases EXCEPT ![c] = Phase(s)]
BY DEF phases

\* A step that moves no row between "queued", the held states and the others.
LEMMA PhaseStutter ==
    ASSUME \A d \in Commands :
              \/ commands'[d].state = commands[d].state
              \/ commands'[d].state \in Held /\ commands[d].state \in Held
    PROVE  UNCHANGED phases
<1>1. ASSUME NEW d \in Commands PROVE Phase(commands'[d].state) = Phase(commands[d].state)
  BY DEF Phase, Held
<1>2. QED
  BY <1>1 DEF phases

\* An empty poll finds no expired lease to take back: an agent that is busy has
\* its one command live, and an agent that is not has nothing queued or expired.
LEMMA EmptyPollChangesNothing ==
    ASSUME QueueInv, NEW a \in Agents, LeaseNone(a)
    PROVE  \A d \in Commands : commands'[d] = commands[d]
<1> SUFFICES ASSUME NEW d \in Commands, AgentOf[d] = a, Expired(commands[d])
             PROVE  FALSE
  BY SweptIs DEF QueueInv, LeaseNone
<1>1. Swept(a)[d] = RequeuedRow(commands[d]) /\ commands[d] \in Row
  BY SweptIs DEF QueueInv, QueueTypeOK
<1>2. d \in QueuedFor(a)
  BY <1>1 DEF QueuedFor, RequeuedRow, Row
<1>3. ~Busy(a)
  BY DEF Busy, Expired, QueueInv, SerialExecutor
<1>4. QED
  BY <1>2, <1>3 DEF LeaseNone

\* A poll that hands out a command is the abstract assignment of that command.
LEMMA PollAssigns ==
    ASSUME QueueInv, NEW a \in Agents, NEW c \in Commands, NEW t \in Tokens \ issued,
           Poll(a, c, t)
    PROVE  Lifecycle!Assign(a, {c})
<1>1. /\ AgentOf[c] = a
      /\ commands[c].state = "queued" \/ Expired(commands[c])
      /\ commands'[c].state = "leased"
  BY PollStep DEF QueueInv
<1>2. phases[c] \in {"pending", "held"}
  BY <1>1 DEF phases, Phase, Expired
<1>3. ASSUME NEW d \in Commands
      PROVE  Phase(commands'[d].state) =
               IF AgentOf[d] = a /\ Phase(commands[d].state) \in {"pending", "held"}
               THEN IF d = c THEN "held" ELSE "pending"
               ELSE Phase(commands[d].state)
  <2>1. CASE d = c
    BY <1>1, <1>2, <2>1 DEF Phase, Held, phases
  <2>2. CASE d # c
    <3>1. commands'[d] = IF AgentOf[d] = a /\ Expired(commands[d])
                         THEN RequeuedRow(commands[d]) ELSE commands[d]
      BY <2>2, GrantedIs, SweptIs DEF QueueInv, Poll, LeaseGrant
    <3>2. AgentOf[d] = a => commands'[d].state \notin Held
      BY <2>2, PollStep DEF QueueInv
    <3>3. commands[d] \in Row
      BY DEF QueueInv, QueueTypeOK
    <3>4. commands'[d].state = IF AgentOf[d] = a /\ Expired(commands[d])
                               THEN "queued" ELSE commands[d].state
      BY <3>1, <3>3 DEF RequeuedRow, Row
    <3>5. CASE AgentOf[d] = a /\ Expired(commands[d])
      BY <2>2, <3>4, <3>5 DEF Phase, Held, Expired
    <3>6. CASE ~(AgentOf[d] = a /\ Expired(commands[d]))
      BY <2>2, <3>2, <3>3, <3>4, <3>6 DEF Phase, Held, Row, States, Terminal
    <3>7. QED
      BY <3>5, <3>6
  <2>3. QED
    BY <2>1, <2>2
<1>4. phases' = [d \in Commands |->
                   IF AgentOf[d] = a /\ phases[d] \in {"pending", "held"}
                   THEN IF d \in {c} THEN "held" ELSE "pending"
                   ELSE phases[d]]
  BY <1>3 DEF phases
<1>5. QED
  BY <1>1, <1>2, <1>4 DEF Lifecycle!Assign, Lifecycle!Open

\* A client's call finishes a held command or leaves every phase alone.
LEMMA ClientCallImplements ==
    ASSUME QueueInv, NEW c \in Commands, NEW t \in issued, ClientCall(c, t)
    PROVE  \/ \E outcome \in {"completed", "failed"} : Lifecycle!Finish(c, outcome)
           \/ UNCHANGED phases
<1>0. commands \in [Commands -> Row] /\ commands[c] \in Row
  BY DEF QueueInv, QueueTypeOK
<1>1. CASE AcknowledgeCommand(c, t)
  BY <1>0, <1>1, PhaseStutter DEF AcknowledgeCommand, CanAcknowledge, Held, Row
<1>2. CASE GetCommandStatus(c, t)
  BY <1>0, <1>2, PhaseStutter DEF GetCommandStatus, Row
<1>3. CASE \E s \in 1..MaxSequence : RecordCommandEvent(c, t, s)
  BY <1>0, <1>3, PhaseStutter DEF RecordCommandEvent, CanRecord, RunningRow, Held, Row
<1>4. CASE \E s \in 1..MaxSequence, success \in BOOLEAN : CompleteCommand(c, t, s, success)
  <2> PICK s \in 1..MaxSequence, success \in BOOLEAN : CompleteCommand(c, t, s, success)
    BY <1>4
  <2> DEFINE outcome == IF success THEN "completed" ELSE "failed"
  <2>1. \A d \in Commands : commands'[d].state = IF d = c THEN outcome ELSE commands[d].state
    BY <1>0 DEF CompleteCommand, FinishedRow, Row
  <2>2. phases' = [phases EXCEPT ![c] = Phase(outcome)]
    <3> HIDE DEF outcome
    <3> QED BY <2>1, PhaseUpdate
  <2>3. Phase(outcome) = outcome
    BY DEF Phase, Held
  <2>4. phases[c] = "held"
    BY DEF CompleteCommand, CanComplete, CanRecord, phases, Phase, Held
  <2>5. Lifecycle!Finish(c, outcome) /\ outcome \in {"completed", "failed"}
    BY <2>2, <2>3, <2>4 DEF Lifecycle!Finish
  <2>6. QED
    BY <2>5
<1>5. QED
  BY <1>1, <1>2, <1>3, <1>4 DEF ClientCall

\* Every step of the queue is a step of CommandLifecycle or leaves the phases
\* alone.
LEMMA StepImplements ==
    QueueInv /\ [QueueNext]_queueVars => [Lifecycle!Next]_phases
<1> SUFFICES ASSUME QueueInv, [QueueNext]_queueVars
             PROVE  [Lifecycle!Next]_phases
  OBVIOUS
<1>0. commands \in [Commands -> Row]
  BY DEF QueueInv, QueueTypeOK
<1>1. ASSUME NEW a \in Agents, NEW c \in Commands, NEW t \in Tokens \ issued, Poll(a, c, t)
      PROVE  [Lifecycle!Next]_phases
  <2>1. Lifecycle!Assign(a, {c}) /\ {c} \in SUBSET Commands
    BY <1>1, PollAssigns
  <2>2. QED
    BY <2>1 DEF Lifecycle!Next
<1>2. ASSUME NEW c \in Commands, NEW s \in Seconds, EnqueueCommand(c, s)
      PROVE  [Lifecycle!Next]_phases
  <2>1. /\ commands[c].state = "absent"
        /\ \A d \in Commands : commands'[d].state = IF d = c THEN "queued" ELSE commands[d].state
    BY <1>0, <1>2 DEF EnqueueCommand, NewRow
  <2>2. phases' = [phases EXCEPT ![c] = Phase("queued")]
    BY <2>1, PhaseUpdate
  <2>3. phases[c] = "absent" /\ Phase("queued") = "pending"
    BY <2>1 DEF phases, Phase, Held
  <2>4. Lifecycle!Submit(c)
    BY <2>2, <2>3 DEF Lifecycle!Submit
  <2>5. QED
    BY <2>4 DEF Lifecycle!Next
<1>3. ASSUME NEW a \in Agents, LeaseNone(a)
      PROVE  [Lifecycle!Next]_phases
  <2>1. UNCHANGED phases
    BY <1>3, EmptyPollChangesNothing, PhaseStutter
  <2>2. QED
    BY <2>1
<1>4. ASSUME NEW c \in Commands, NEW t \in issued, ClientCall(c, t)
      PROVE  [Lifecycle!Next]_phases
  BY <1>4, ClientCallImplements DEF Lifecycle!Next
<1>5. ASSUME NEW c \in Commands, CancelCommand(c)
      PROVE  [Lifecycle!Next]_phases
  <2>1. /\ commands[c].state \in {"queued"} \cup Held
        /\ \A d \in Commands : commands'[d].state = IF d = c THEN "cancelled" ELSE commands[d].state
    BY <1>0, <1>5 DEF CancelCommand, Row
  <2>2. phases' = [phases EXCEPT ![c] = Phase("cancelled")]
    BY <2>1, PhaseUpdate
  <2>3. phases[c] \in {"pending", "held"} /\ Phase("cancelled") = "cancelled"
    BY <2>1 DEF phases, Phase, Held
  <2>4. Lifecycle!Cancel(c)
    BY <2>2, <2>3 DEF Lifecycle!Cancel, Lifecycle!Open
  <2>5. QED
    BY <2>4 DEF Lifecycle!Next
<1>6. CASE Tick
  <2>1. \A d \in Commands : commands'[d].state = commands[d].state
    BY <1>0, <1>6 DEF Tick, Row
  <2>2. QED
    BY <2>1, PhaseStutter
<1>7. CASE UNCHANGED queueVars
  BY <1>7 DEF queueVars, phases
<1>8. QED
  BY <1>1, <1>2, <1>3, <1>4, <1>5, <1>6, <1>7 DEF QueueNext

\* The store, under any clients, implements the serial executor of
\* CommandLifecycle: leases, tokens and sequence numbers only restrict when a
\* command is handed out, finished or cancelled.
THEOREM QueueImplementsLifecycle == QueueSpec => ImplementsLifecycle
<1>1. QueueInit => Lifecycle!Init
  BY DEF QueueInit, Lifecycle!Init, phases, Phase, NoRow, Held
<1>2. QED
  BY <1>1, StepImplements, QueueInvHolds, PTL
     DEF QueueSpec, ImplementsLifecycle, Lifecycle!Spec
=============================================================================
