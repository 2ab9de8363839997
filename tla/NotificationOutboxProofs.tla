----------------------- MODULE NotificationOutboxProofs -----------------------
(***************************************************************************)
(* For any number of rows, channels, attempts, retries, edits and faults:   *)
(* the safety properties of NotificationOutbox.                             *)
(***************************************************************************)
EXTENDS NotificationOutbox, FiniteSetTheorems, TLAPS

(* The invariant. *)

Inserted == {j \in Jobs : jobs[j].order > 0}

JobRow == [status : {"none", "running"} \cup Outcomes, cleaned : BOOLEAN,
           order : 0..MaxJobs, success : BOOLEAN]

\* The announced rows: they are counted, and the outcome announced of a recovery test
\* is the one it keeps.
JobPart ==
    /\ jobs \in [Jobs -> JobRow] /\ ready \in [Jobs -> BOOLEAN] /\ observed \subseteq Jobs \X Outcomes
    /\ IsFiniteSet(Inserted) /\ Floor \in 0..MaxJobs
    /\ \A j \in Jobs : jobs[j].order = 0 => jobs[j].status = "none" /\ jobs[j].cleaned
    /\ \A o \in observed : o[1] \in RecoveryTests =>
          o[2] = jobs[o[1]].status /\ Terminal(o[1]) /\ jobs[o[1]].cleaned

ChannelRow == [state : {"new", "live", "deleted", "gone"}, enabled : BOOLEAN,
               events : SUBSET Outcomes, revision : Nat, floor : 0..MaxJobs]
Subscriptions == [enabled : BOOLEAN, channels : SUBSET Channels, events : SUBSET Outcomes,
                  floor : 0..MaxJobs]

\* The configuration; a channel that was never saved has the first revision.
ConfigPart ==
    /\ channels \in [Channels -> ChannelRow] /\ subscription \in Subscriptions
    /\ \A c \in Channels : channels[c].state = "new" => channels[c].revision = 1

\* A delivery is about an announced outcome and was queued with a revision its channel
\* has had.
RowFits(k, row) ==
    /\ k \in Events \X Channels /\ row \in Row
    /\ k[1] = Test \/ k[1] \in observed
    /\ row.revision <= channels[k[2]].revision

DeliveryPart ==
    /\ IsFiniteSet(DOMAIN deliveries)
    /\ \A k \in DOMAIN deliveries : RowFits(k, deliveries[k])

\* A send and the row of its delivery.  Until a suspension the lease outlasts the send;
\* until a second one the row counts no later attempt, and is not due.
FitsRow(f, row) ==
    /\ f.attempts <= row.attempts /\ f.revision <= row.revision
    /\ f.stage = "done" => row.status = "failed"
    /\ f.stage # "done" /\ f.naps = 0 => row.status = "sending" /\ f.left < row.lease
    /\ f.naps < Naps => /\ f.attempts = row.attempts
                        /\ row.status = "pending" => row.next > 0

FlightFits(f) ==
    /\ f \in Flight
    /\ f.key[1] = Test \/ f.key[1] \in observed
    /\ f.stage = "done" => worker = "claim"
    /\ f.naps > 0 => f.left = 0
    /\ f.stage # "done" /\ f.naps = 0 => f.key \in DOMAIN deliveries
    /\ f.key \in DOMAIN deliveries => FitsRow(f, deliveries[f.key])

FlightPart ==
    /\ worker \in {"idle", "reconcile", "claim"}
    /\ IsFiniteSet(flights) /\ Cardinality(flights) <= Slots
    /\ \A f \in flights : FlightFits(f)
    /\ \A f, g \in flights : f.key = g.key /\ f.attempts = g.attempts => f = g
    /\ OneTransmissionAtATime

BoundPart == edits \in 0..MaxEdits /\ faults \in 0..MaxFaults

OutboxInv == JobPart /\ ConfigPart /\ DeliveryPart /\ FlightPart /\ BoundPart
-----------------------------------------------------------------------------
(* Sets and records. *)

\* The image of a finite set is finite and no larger.
LEMMA ImageIsFinite ==
    ASSUME NEW S, IsFiniteSet(S), NEW T, NEW m \in [S -> T], \A t \in T : \E s \in S : m[s] = t
    PROVE  IsFiniteSet(T) /\ Cardinality(T) <= Cardinality(S)
<1>1. m \in Surjection(S, T)
  BY DEF Surjection
<1>2. QED
  BY <1>1, FS_Surjection, Zenon

\* The sweep makes a row out of a row, of the same attempt.
LEMMA RecoveredIs ==
    ASSUME NEW row \in Row
    PROVE  /\ Recovered(row) \in Row
           /\ Recovered(row).attempts = row.attempts /\ Recovered(row).revision = row.revision
           /\ Recovered(row).cycle = row.cycle
           /\ \/ Recovered(row) = row
              \/ /\ row.status = "sending" /\ row.lease = 0
                 /\ \/ Recovered(row).status = "failed"
                    \/ Recovered(row).status = "pending" /\ Recovered(row).next = 1
<1>1. 0 \in 0..MaxDelay /\ 1 \in 0..MaxDelay
  BY OutboxAssumption
<1>3. CASE row.status = "sending" /\ row.lease = 0 /\ Exhausted(row)
  <2>1. Recovered(row) = [row EXCEPT !.status = "failed", !.next = 0]
    BY <1>3 DEF Recovered
  <2>2. Recovered(row) \in Row
    BY <1>1, <2>1 DEF Row
  <2>3. /\ Recovered(row).attempts = row.attempts /\ Recovered(row).revision = row.revision
        /\ Recovered(row).cycle = row.cycle /\ Recovered(row).status = "failed"
    BY <2>1 DEF Row
  <2>4. QED
    BY <1>3, <2>2, <2>3
<1>4. CASE row.status = "sending" /\ row.lease = 0 /\ ~Exhausted(row)
  <2>1. Recovered(row) = [row EXCEPT !.status = "pending", !.next = 1]
    BY <1>4 DEF Recovered, Pause
  <2>2. Recovered(row) \in Row
    BY <1>1, <2>1 DEF Row
  <2>3. /\ Recovered(row).attempts = row.attempts /\ Recovered(row).revision = row.revision
        /\ Recovered(row).cycle = row.cycle /\ Recovered(row).status = "pending"
        /\ Recovered(row).next = 1
    BY <2>1 DEF Row
  <2>4. QED
    BY <1>4, <2>2, <2>3
<1>5. CASE ~(row.status = "sending" /\ row.lease = 0)
  <2>1. Recovered(row) = row
    BY <1>5 DEF Recovered
  <2>2. QED
    BY <2>1
<1>6. QED
  BY <1>3, <1>4, <1>5

\* A claim counts an attempt of a row that has one left.
LEMMA ClaimedIs ==
    ASSUME NEW row \in Row, ~Exhausted(row)
    PROVE  /\ Claimed(row) \in Row /\ Claimed(row).status = "sending" /\ Claimed(row).lease = 2
           /\ Claimed(row).attempts = row.attempts + 1 /\ Claimed(row).cycle = row.cycle + 1
           /\ Claimed(row).attempts \in 1..MaxAttempts /\ Claimed(row).cycle \in 1..MaxCycle
           /\ Claimed(row).revision = row.revision
<1>1. /\ row.attempts \in 0..MaxAttempts /\ row.cycle \in 0..MaxCycle
      /\ row.attempts < MaxAttempts /\ row.cycle < MaxCycle /\ {MaxAttempts, MaxCycle} \subseteq Nat
  BY OutboxAssumption DEF Row, Exhausted
<1>2. /\ row.attempts + 1 \in 1..MaxAttempts /\ row.cycle + 1 \in 1..MaxCycle
      /\ row.attempts + 1 \in 0..MaxAttempts /\ row.cycle + 1 \in 0..MaxCycle /\ 2 \in 0..2
  BY <1>1
<1>3. Claimed(row) = [row EXCEPT !.status = "sending", !.attempts = row.attempts + 1,
                                 !.cycle = row.cycle + 1, !.lease = 2]
  BY DEF Claimed, Lease
<1>4. Claimed(row) \in Row
  BY <1>2, <1>3 DEF Row, Lease
<1>5. /\ Claimed(row).status = "sending" /\ Claimed(row).lease = 2
      /\ Claimed(row).attempts = row.attempts + 1 /\ Claimed(row).cycle = row.cycle + 1
      /\ Claimed(row).revision = row.revision
  BY <1>3 DEF Row
<1>6. QED
  BY <1>2, <1>4, <1>5

\* What finish() makes of a table: at most the row of the send changes, if it is still its own.
LEMMA FinishedIs ==
    ASSUME NEW rows, \A k \in DOMAIN rows : rows[k] \in Row, NEW f, f.key \in DOMAIN rows,
           NEW result, NEW after
    PROVE  LET new == Finished(rows, f, result, after)
               old == rows[f.key]
           IN  /\ DOMAIN new = DOMAIN rows
               /\ \A k \in DOMAIN rows : k # f.key => new[k] = rows[k]
               /\ \/ new[f.key] = old /\ ~(old.status = "sending" /\ old.attempts = f.attempts)
                  \/ /\ old.status = "sending" /\ old.attempts = f.attempts
                     /\ new[f.key] \in Row /\ new[f.key].attempts = old.attempts
                     /\ new[f.key].revision = old.revision
                     /\ result = "permanent" => new[f.key].status = "failed"
<1> DEFINE retry  == result = "retryable" /\ f.cycle < MaxCycle /\ f.attempts < MaxAttempts
           status == CASE result = "success" -> "succeeded"
                       [] retry -> "pending"
                       [] OTHER -> "failed"
           next   == IF retry THEN RetryDelay(f.cycle, after) ELSE 0
           old    == rows[f.key]
           mine   == old.status = "sending" /\ old.attempts = f.attempts
           row    == [old EXCEPT !.status = status, !.next = next, !.lease = 0]
           new    == Finished(rows, f, result, after)
<1>1. status \in {"succeeded", "pending", "failed"} /\ (result = "permanent" => status = "failed")
  OBVIOUS
<1>2. next \in 0..MaxDelay
  <2>1. \A n : Capped(n, MaxDelay) \in 0..MaxDelay
    BY OutboxAssumption DEF Capped
  <2>2. 0 \in 0..MaxDelay
    BY OutboxAssumption
  <2>3. QED
    BY <2>1, <2>2 DEF RetryDelay
<1>3. new = IF mine THEN [rows EXCEPT ![f.key] = row] ELSE rows
  BY DEF Finished
<1> HIDE DEF status, next
<1>4. /\ row \in Row /\ row.attempts = old.attempts /\ row.revision = old.revision /\ row.status = status
  <2>1. 0 \in 0..Lease /\ old \in Row
    BY DEF Lease
  <2>2. QED
    BY <1>1, <1>2, <2>1 DEF Row
<1> HIDE DEF row, new
<1>5. QED
  BY <1>1, <1>3, <1>4 DEF new
-----------------------------------------------------------------------------
(* A send and the row of its delivery. *)

\* The sweep leaves the row of a send as the send needs it.
LEMMA FitsRecovered ==
    ASSUME NEW f \in Flight, NEW row \in Row, FitsRow(f, row)
    PROVE  FitsRow(f, Recovered(row))
<1>1. CASE Recovered(row) = row
  BY <1>1
<1>2. CASE /\ row.status = "sending" /\ row.lease = 0
           /\ \/ Recovered(row).status = "failed"
              \/ Recovered(row).status = "pending" /\ Recovered(row).next = 1
  <2>1. ~(f.stage = "done")
    BY <1>2 DEF FitsRow
  <2>2. ~(f.naps = 0)
    <3>1. f.left \in Nat
      BY DEF Flight, Timeout
    <3>2. QED
      BY <1>2, <2>1, <3>1 DEF FitsRow
  <2>3. QED
    BY <1>2, <2>1, <2>2, RecoveredIs DEF FitsRow
<1>3. QED
  BY <1>1, <1>2, RecoveredIs

\* A send that no suspension has touched keeps its lease while time passes.
LEMMA FitsAged ==
    ASSUME NEW f \in Flight, NEW row \in Row, FitsRow(f, row),
           f.left > 0, f.naps > 0 => f.left = 0, f.stage # "done"
    PROVE  FitsRow([f EXCEPT !.left = Less(@)],
                   [row EXCEPT !.next = Less(@), !.lease = Less(@)])
<1>1. f.naps = 0 /\ f.left = 1 /\ f.naps \in 0..2
  BY DEF Flight, Timeout, Naps
<1>2. row.status = "sending" /\ row.lease > 1 /\ row.lease \in 0..2 /\ f.attempts = row.attempts
  BY <1>1 DEF FitsRow, Row, Lease, Naps
<1>3. Less(f.left) = 0 /\ Less(row.lease) > 0
  BY <1>1, <1>2 DEF Less
<1>4. PICK l, n : l > 0 /\ l = Less(row.lease) /\ n = Less(row.next)
  BY <1>3
<1>5. DEFINE g == [f EXCEPT !.left = 0]
             new == [row EXCEPT !.next = n, !.lease = l]
<1>6. /\ g.stage = f.stage /\ g.naps = 0 /\ g.left = 0 /\ g.attempts = f.attempts /\ g.revision = f.revision
  BY <1>1 DEF Flight
<1>7. /\ new.status = "sending" /\ new.lease = l /\ new.attempts = row.attempts
      /\ new.revision = row.revision
  BY <1>2 DEF Row
<1>8. FitsRow(g, new)
  <2> HIDE DEF g, new
  <2>1. f.attempts <= row.attempts /\ f.revision <= row.revision
    BY DEF FitsRow
  <2>2. QED
    BY <1>2, <1>4, <1>6, <1>7, <2>1 DEF FitsRow
<1>9. g = [f EXCEPT !.left = Less(@)] /\ new = [row EXCEPT !.next = Less(@), !.lease = Less(@)]
  BY <1>3, <1>4
<1>10. QED
  BY <1>8, <1>9

\* A suspension ends every lease, and is counted.
LEMMA FitsAsleep ==
    ASSUME NEW f \in Flight, NEW row \in Row, FitsRow(f, row), f.stage # "done"
    PROVE  FitsRow([f EXCEPT !.left = 0, !.naps = Capped(@ + 1, Naps)],
                   [row EXCEPT !.next = 0, !.lease = 0])
<1>1. PICK m : m = Capped(f.naps + 1, Naps)
  OBVIOUS
<1>2. m \in 1..2 /\ (m < 2 => f.naps = 0)
  BY <1>1 DEF Flight, Naps, Capped
<1>3. DEFINE g == [f EXCEPT !.left = 0, !.naps = m]
             new == [row EXCEPT !.next = 0, !.lease = 0]
<1>4. /\ g.stage = f.stage /\ g.naps = m /\ g.attempts = f.attempts /\ g.revision = f.revision
  BY DEF Flight
<1>5. new.status = row.status /\ new.attempts = row.attempts /\ new.revision = row.revision
  BY DEF Row
<1>6. FitsRow(g, new)
  <2> HIDE DEF g, new
  <2>1. f.attempts <= row.attempts /\ f.revision <= row.revision
    BY DEF FitsRow
  <2>2. f.naps = 0 => row.status = "sending" /\ f.attempts = row.attempts
    BY DEF FitsRow, Naps
  <2>3. QED
    BY <1>2, <1>4, <1>5, <2>1, <2>2 DEF FitsRow, Naps
<1>7. QED
  BY <1>1, <1>6

\* Only a send that was suspended is under way while its row is failed; a manual retry
\* lets the row wait 30 seconds more.
LEMMA FitsRetried ==
    ASSUME NEW f \in Flight, NEW row \in Row, NEW new \in Row, FitsRow(f, row), f.stage # "done",
           row.status = "failed", new.attempts = row.attempts, row.revision <= new.revision,
           new.next > 0
    PROVE  FitsRow(f, new)
<1>1. f.naps # 0 /\ f.attempts <= row.attempts /\ f.revision <= row.revision
  BY DEF FitsRow
<1>2. f.revision \in Nat /\ row.revision \in Nat /\ new.revision \in Nat
  BY DEF Flight, Row
<1>3. f.naps < Naps => f.attempts = row.attempts
  BY DEF FitsRow
<1>4. QED
  BY <1>1, <1>2, <1>3 DEF FitsRow

\* A send of an earlier attempt than the row's was suspended twice: nothing else is asked of
\* the row.
LEMMA FitsOlder ==
    ASSUME NEW f \in Flight, NEW row \in Row, NEW new \in Row, FitsRow(f, row), f.stage # "done",
           f.naps = Naps \/ f.attempts # row.attempts,
           row.attempts <= new.attempts, new.revision = row.revision
    PROVE  FitsRow(f, new)
<1>1. f.naps = 2 /\ f.attempts <= row.attempts /\ f.revision <= row.revision
  BY DEF FitsRow, Naps, Flight
<1>2. f.attempts \in Nat /\ row.attempts \in Nat /\ new.attempts \in Nat
  BY DEF Flight, Row
<1>3. QED
  BY <1>1, <1>2 DEF FitsRow, Naps

\* Only sends that were suspended twice are under way when their row is due.
LEMMA DueIsFree ==
    ASSUME NEW f \in Flight, NEW row \in Row, FitsRow(f, row),
           row.status = "pending", row.next = 0
    PROVE  f.naps = Naps /\ f.stage # "done"
BY DEF FitsRow, Naps, Flight
-----------------------------------------------------------------------------
(* What a step leaves alone. *)

\* The part of the invariant about the announced rows, when they stay.
LEMMA JobsStay ==
    ASSUME JobPart, UNCHANGED <<jobs, ready, observed>>
    PROVE  JobPart'
BY DEF JobPart, Floor, Inserted, Terminal

\* The part about the configuration, when it stays.
LEMMA ConfigStays ==
    ASSUME ConfigPart, UNCHANGED <<channels, subscription>>
    PROVE  ConfigPart'
BY DEF ConfigPart

\* A delivery stays or changes its row, and the revision of its channel does not go back.
LEMMA RowsStay ==
    ASSUME DeliveryPart, DOMAIN deliveries' \subseteq DOMAIN deliveries, observed \subseteq observed',
           \A k \in DOMAIN deliveries' : /\ deliveries'[k] \in Row
                                         /\ deliveries'[k].revision <= channels'[k[2]].revision
    PROVE  DeliveryPart'
<1>1. IsFiniteSet(DOMAIN deliveries')
  BY FS_Subset DEF DeliveryPart
<1>2. ASSUME NEW k \in DOMAIN deliveries' PROVE RowFits(k, deliveries[k])'
  <2>1. RowFits(k, deliveries[k])
    BY DEF DeliveryPart
  <2>2. k \in Events \X Channels /\ (k[1] = Test \/ k[1] \in observed')
    BY <2>1 DEF RowFits
  <2>3. QED
    BY <2>2 DEF RowFits
<1>3. QED
  BY <1>1, <1>2 DEF DeliveryPart

\* A send stays in step with the tables when its row does.
LEMMA FitsKept ==
    ASSUME NEW f, FlightFits(f), observed \subseteq observed', f.stage = "done" => worker' = "claim",
           f.key \notin DOMAIN deliveries => f.key \notin DOMAIN deliveries',
           f.stage # "done" /\ f.naps = 0 /\ f.key \in DOMAIN deliveries => f.key \in DOMAIN deliveries',
           f.key \in DOMAIN deliveries /\ f.key \in DOMAIN deliveries'
             => FitsRow(f, deliveries'[f.key])
    PROVE  FlightFits(f)'
BY DEF FlightFits

\* Sends that end leave the others as they are.
LEMMA FlightsLeave ==
    ASSUME FlightPart, flights' \subseteq flights, worker' \in {"idle", "reconcile", "claim"},
           \A f \in flights' : FlightFits(f)'
    PROVE  FlightPart'
<1>1. IsFiniteSet(flights') /\ Cardinality(flights') <= Slots
  <2>1. IsFiniteSet(flights') /\ Cardinality(flights') <= Cardinality(flights)
    BY FS_Subset DEF FlightPart
  <2>2. Cardinality(flights) \in Nat /\ Cardinality(flights') \in Nat
    BY <2>1, FS_CardinalityType DEF FlightPart
  <2>3. QED
    BY <2>1, <2>2 DEF FlightPart, Slots
<1>2. \A f, g \in flights' : f.key = g.key /\ f.attempts = g.attempts => f = g
  BY DEF FlightPart
<1>3. OneTransmissionAtATime'
  BY DEF FlightPart, OneTransmissionAtATime
<1>4. QED
  BY <1>1, <1>2, <1>3 DEF FlightPart

\* Sends that go on are the ones that were under way, with no fewer suspensions.
LEMMA FlightsGoOn ==
    ASSUME FlightPart, worker' \in {"idle", "reconcile", "claim"},
           IsFiniteSet(flights'), Cardinality(flights') <= Slots,
           \A x \in flights' : FlightFits(x)',
           \A x \in flights' : \E f \in flights :
              x.key = f.key /\ x.attempts = f.attempts /\ f.naps <= x.naps,
           \A x, y \in flights' : x.key = y.key /\ x.attempts = y.attempts => x = y
    PROVE  FlightPart'
<1>1. OneTransmissionAtATime'
  <2>1. SUFFICES ASSUME NEW x \in flights', NEW y \in flights', x.key = y.key, x # y
                 PROVE  Naps \in {x.naps, y.naps}
    BY DEF OneTransmissionAtATime
  <2>2. PICK f \in flights : x.key = f.key /\ x.attempts = f.attempts /\ f.naps <= x.naps
    OBVIOUS
  <2>3. PICK g \in flights : y.key = g.key /\ y.attempts = g.attempts /\ g.naps <= y.naps
    OBVIOUS
  <2>4. f # g
    BY <2>1, <2>2, <2>3
  <2>5. Naps \in {f.naps, g.naps}
    BY <2>1, <2>2, <2>3, <2>4 DEF FlightPart, OneTransmissionAtATime
  <2>6. x \in Flight /\ y \in Flight
    BY DEF FlightFits
  <2>7. x.naps \in 0..2 /\ y.naps \in 0..2
    BY <2>6 DEF Flight, Naps
  <2>8. QED
    BY <2>2, <2>3, <2>5, <2>7 DEF Naps
<1>2. QED
  BY <1>1 DEF FlightPart

\* With the tables' rows and the sends as they are, and no tick ending, the sends stay in step.
LEMMA FlightsStay ==
    ASSUME FlightPart, observed \subseteq observed', UNCHANGED <<deliveries, flights>>,
           worker' \in {"idle", "reconcile", "claim"}, worker = "claim" => worker' = "claim"
    PROVE  FlightPart'
<1>1. ASSUME NEW f \in flights' PROVE FlightFits(f)'
  <2>1. FlightFits(f)
    BY DEF FlightPart
  <2>2. f.stage = "done" => worker' = "claim"
    BY <2>1 DEF FlightFits
  <2>3. f.key \in DOMAIN deliveries => FitsRow(f, deliveries'[f.key])
    BY <2>1 DEF FlightFits
  <2>4. QED
    BY <2>1, <2>2, <2>3, FitsKept
<1>2. QED
  BY <1>1, FlightsLeave
-----------------------------------------------------------------------------
(* The initial states and the announced rows. *)

\* Init establishes the invariant.
LEMMA InitInv == Init => OutboxInv
<1> SUFFICES ASSUME Init PROVE OutboxInv
  OBVIOUS
<1>0. /\ MaxJobs \in Nat /\ MaxEdits \in Nat /\ MaxFaults \in Nat
      /\ 0 \in 0..MaxJobs /\ 0 \in 0..MaxEdits /\ 0 \in 0..MaxFaults
  BY OutboxAssumption
<1>1. JobPart
  <2>1. \A v, w \in BOOLEAN : [status |-> "none", order |-> 0, cleaned |-> v, success |-> w] \in JobRow
    BY <1>0 DEF JobRow
  <2>2. [status |-> "none", order |-> 0, cleaned |-> TRUE, success |-> FALSE] \in JobRow
    BY <2>1, Zenon
  <2>3. jobs \in [Jobs -> JobRow] /\ ready \in [Jobs -> BOOLEAN] /\ observed = {}
    BY <2>2, Zenon DEF Init
  <2>4. \A j \in Jobs : jobs[j].order = 0 /\ jobs[j].status = "none" /\ jobs[j].cleaned
    BY DEF Init
  <2>5. Inserted = {}
    BY <2>4 DEF Inserted
  <2>6. IsFiniteSet(Inserted) /\ Floor = 0
    BY <2>5, FS_EmptySet DEF Floor, Inserted
  <2>7. QED
    BY <1>0, <2>3, <2>4, <2>6 DEF JobPart
<1>2. ConfigPart
  <2>1. PICK live \in SUBSET Channels :
          /\ channels = [c \in Channels |->
               [state |-> IF c \in live THEN "live" ELSE "new", enabled |-> c \in live,
                revision |-> 1, events |-> Outcomes, floor |-> 0]]
          /\ subscription = [enabled |-> live # {}, channels |-> live, events |-> Outcomes,
                             floor |-> 0]
    BY DEF Init
  <2>2. \A v \in BOOLEAN, t \in {"live", "new"} :
          [state |-> t, enabled |-> v, revision |-> 1, events |-> Outcomes, floor |-> 0] \in ChannelRow
    BY <1>0 DEF ChannelRow
  <2>3. \A v \in BOOLEAN :
          [enabled |-> v, channels |-> live, events |-> Outcomes, floor |-> 0] \in Subscriptions
    BY <1>0 DEF Subscriptions
  <2>4. subscription \in Subscriptions
    <3>1. (live # {}) \in BOOLEAN
      OBVIOUS
    <3>2. QED
      BY <2>1, <2>3, <3>1, Zenon
  <2>5. ASSUME NEW c \in Channels PROVE channels[c] \in ChannelRow /\ channels[c].revision = 1
    <3>1. PICK v \in BOOLEAN, t \in {"live", "new"} :
            channels[c] = [state |-> t, enabled |-> v, revision |-> 1, events |-> Outcomes, floor |-> 0]
      <4>1. (c \in live) \in BOOLEAN /\ (IF c \in live THEN "live" ELSE "new") \in {"live", "new"}
        OBVIOUS
      <4>2. channels[c] = [state |-> IF c \in live THEN "live" ELSE "new", enabled |-> c \in live,
                           revision |-> 1, events |-> Outcomes, floor |-> 0]
        BY <2>1, Zenon
      <4>3. QED
        BY <4>1, <4>2, Zenon
    <3>2. channels[c] \in ChannelRow
      BY <2>2, <3>1, Zenon
    <3>3. channels[c].revision = 1
      BY <3>1
    <3>4. QED
      BY <3>2, <3>3
  <2>6. channels \in [Channels -> ChannelRow]
    <3>1. channels = [c \in Channels |-> channels[c]]
      BY <2>1, Zenon
    <3>2. QED
      BY <2>5, <3>1, Zenon
  <2>7. QED
    BY <2>4, <2>5, <2>6 DEF ConfigPart
<1>3. DOMAIN deliveries = {}
  BY Zenon DEF Init
<1>4. DeliveryPart
  BY <1>3, FS_EmptySet DEF DeliveryPart
<1>5. FlightPart
  <2>1. flights = {} /\ worker = "idle"
    BY Zenon DEF Init
  <2>2. IsFiniteSet({}) /\ Cardinality({}) = 0
    BY FS_EmptySet, Zenon
  <2>3. QED
    BY <2>1, <2>2 DEF FlightPart, OneTransmissionAtATime, Slots
<1>6. BoundPart
  <2>1. edits = 0 /\ faults = 0
    BY Zenon DEF Init
  <2>2. QED
    BY <1>0, <2>1 DEF BoundPart
<1>7. QED
  BY <1>1, <1>2, <1>4, <1>5, <1>6 DEF OutboxInv

\* A row that was inserted before changes: what is announced of a recovery test stays so.
LEMMA JobChanges ==
    ASSUME JobPart, NEW j \in Jobs, NEW row \in JobRow, NEW ready2 \in [Jobs -> BOOLEAN],
           jobs' = [jobs EXCEPT ![j] = row], ready' = ready2, observed' = observed,
           row.order = jobs[j].order, row.order > 0,
           j \in RecoveryTests => ~(Terminal(j) /\ jobs[j].cleaned)
    PROVE  JobPart'
<1>1. jobs' \in [Jobs -> JobRow] /\ \A i \in Jobs : jobs'[i] = IF i = j THEN row ELSE jobs[i]
  BY DEF JobPart
<1>2. Inserted' = Inserted
  BY <1>1 DEF Inserted
<1>3. Floor' = Floor
  <2>1. Floor = Cardinality(Inserted)
    BY DEF Floor, Inserted
  <2>2. Floor' = Cardinality(Inserted')
    BY DEF Floor, Inserted
  <2>3. QED
    BY <1>2, <2>1, <2>2
<1>4. \A i \in Jobs : jobs'[i].order = 0 => jobs'[i].status = "none" /\ jobs'[i].cleaned
  BY <1>1 DEF JobPart
<1>5. ASSUME NEW o \in observed', o[1] \in RecoveryTests
      PROVE  o[2] = jobs'[o[1]].status /\ Terminal(o[1])' /\ jobs'[o[1]].cleaned
  <2>1. o[1] \in Jobs /\ o[2] = jobs[o[1]].status /\ Terminal(o[1]) /\ jobs[o[1]].cleaned
    BY <1>5 DEF JobPart, Jobs
  <2>2. o[1] # j
    BY <1>5, <2>1
  <2>3. QED
    BY <1>1, <2>1, <2>2 DEF Terminal
<1>6. QED
  BY <1>1, <1>2, <1>3, <1>4, <1>5 DEF JobPart

\* A new row is counted.
LEMMA JobInserted ==
    ASSUME JobPart, NEW j \in Jobs, InsertJob(j)
    PROVE  JobPart'
<1>0. jobs \in [Jobs -> JobRow] /\ Floor \in 0..MaxJobs /\ MaxJobs \in Nat
  BY OutboxAssumption DEF JobPart
<1>1. PICK n : n = Floor + 1
  OBVIOUS
<1>2. /\ jobs[j].order = 0 /\ jobs[j].status = "none"
      /\ n \in 0..MaxJobs /\ n > 0 /\ Floor < MaxJobs
  BY <1>0, <1>1 DEF InsertJob, JobPart
<1>3. DEFINE row == [jobs[j] EXCEPT !.status = "running", !.order = n]
<1>4. row \in JobRow /\ row.order = n /\ row.status = "running"
  BY <1>0, <1>2 DEF JobRow
<1>5. jobs' = [jobs EXCEPT ![j] = row] /\ UNCHANGED <<ready, observed>>
  BY <1>1 DEF InsertJob
<1> HIDE DEF row
<1>6. jobs' \in [Jobs -> JobRow] /\ \A i \in Jobs : jobs'[i] = IF i = j THEN row ELSE jobs[i]
  BY <1>0, <1>4, <1>5
<1>7. Inserted' = Inserted \cup {j} /\ j \notin Inserted
  BY <1>2, <1>4, <1>6 DEF Inserted
<1>8. Floor = Cardinality(Inserted) /\ Floor' = Cardinality(Inserted')
  BY DEF Floor, Inserted
<1>9. IsFiniteSet(Inserted') /\ Cardinality(Inserted') = Cardinality(Inserted) + 1
  <2>1. IsFiniteSet(Inserted)
    BY DEF JobPart
  <2>2. QED
    BY <1>7, <2>1, FS_AddElement
<1>10. Floor' \in 0..MaxJobs
  BY <1>0, <1>2, <1>8, <1>9
<1>11. \A i \in Jobs : jobs'[i].order = 0 => jobs'[i].status = "none" /\ jobs'[i].cleaned
  BY <1>2, <1>4, <1>6 DEF JobPart
<1>12. ASSUME NEW o \in observed', o[1] \in RecoveryTests
       PROVE  o[2] = jobs'[o[1]].status /\ Terminal(o[1])' /\ jobs'[o[1]].cleaned
  <2>1. o[1] \in Jobs /\ o[2] = jobs[o[1]].status /\ Terminal(o[1]) /\ jobs[o[1]].cleaned
    BY <1>5, <1>12 DEF JobPart, Jobs
  <2>2. o[1] # j
    BY <1>2, <2>1 DEF Terminal, Ended
  <2>3. QED
    BY <1>6, <2>1, <2>2 DEF Terminal
<1>13. QED
  BY <1>5, <1>6, <1>9, <1>10, <1>11, <1>12 DEF JobPart

\* The rows' own steps: inserted, ended, corrected, cleaned up.
LEMMA JobInv == OutboxInv /\ Job => OutboxInv'
<1> SUFFICES ASSUME OutboxInv, Job PROVE OutboxInv'
  OBVIOUS
<1>0. JobPart /\ jobs \in [Jobs -> JobRow] /\ ready \in [Jobs -> BOOLEAN]
  BY DEF OutboxInv, JobPart
<1>1. PICK j \in Jobs : \/ InsertJob(j)
                        \/ \E s \in Outcomes : EndJob(j, s)
                        \/ CompleteLate(j)
                        \/ \E success \in BOOLEAN : EndUncleaned(j, success)
                        \/ CompleteCleanup(j)
  BY Zenon DEF Job
<1>2. jobs[j] \in JobRow /\ ready[j] \in BOOLEAN /\ jobs[j].success \in BOOLEAN
  BY <1>0 DEF JobRow
<1>3. jobs[j].status # "none" \/ ~jobs[j].cleaned => jobs[j].order > 0
  BY <1>0, <1>2 DEF JobPart, JobRow
<1>4. \A b \in BOOLEAN : [ready EXCEPT ![j] = b] \in [Jobs -> BOOLEAN]
  BY <1>0
<1>5. JobPart'
  <2>1. CASE InsertJob(j)
    BY <1>0, <2>1, JobInserted
  <2>2. CASE \E s \in Outcomes : EndJob(j, s)
    <3>1. PICK s \in Outcomes : EndJob(j, s)
      BY <2>2
    <3>2. DEFINE row == [jobs[j] EXCEPT !.status = s]
    <3>3. row \in JobRow /\ row.order = jobs[j].order
      BY <1>2 DEF JobRow
    <3>4. jobs' = [jobs EXCEPT ![j] = row] /\ ready' = [ready EXCEPT ![j] = TRUE] /\ observed' = observed
      BY <3>1 DEF EndJob
    <3>5. jobs[j].status = "running" /\ ~Terminal(j)
      BY <3>1 DEF EndJob, Terminal, Ended
    <3>6. [ready EXCEPT ![j] = TRUE] \in [Jobs -> BOOLEAN] /\ row.order > 0
      BY <1>3, <1>4, <3>3, <3>5
    <3> HIDE DEF row
    <3>7. QED
      BY <1>0, <3>3, <3>4, <3>5, <3>6, JobChanges
  <2>3. CASE CompleteLate(j)
    <3>1. DEFINE row == [jobs[j] EXCEPT !.status = "completed"]
    <3>2. row \in JobRow /\ row.order = jobs[j].order
      BY <1>2 DEF JobRow, Outcomes
    <3>3. jobs' = [jobs EXCEPT ![j] = row] /\ ready' = [ready EXCEPT ![j] = TRUE] /\ observed' = observed
      BY <2>3 DEF CompleteLate
    <3>4. jobs[j].status = "failed" /\ j \notin RecoveryTests
      BY <2>3, OutboxAssumption DEF CompleteLate
    <3>5. [ready EXCEPT ![j] = TRUE] \in [Jobs -> BOOLEAN] /\ row.order > 0
      BY <1>3, <1>4, <3>2, <3>4
    <3> HIDE DEF row
    <3>6. QED
      BY <1>0, <3>2, <3>3, <3>4, <3>5, JobChanges
  <2>4. CASE \E success \in BOOLEAN : EndUncleaned(j, success)
    <3>1. PICK success \in BOOLEAN : EndUncleaned(j, success)
      BY <2>4
    <3>2. PICK no \in BOOLEAN : no = FALSE
      OBVIOUS
    <3>3. DEFINE row == [jobs[j] EXCEPT !.status = "failed", !.cleaned = no, !.success = success]
    <3>4. row \in JobRow /\ row.order = jobs[j].order
      BY <1>2 DEF JobRow, Outcomes
    <3>5. jobs' = [jobs EXCEPT ![j] = row] /\ ready' = [ready EXCEPT ![j] = TRUE] /\ observed' = observed
      BY <3>1, <3>2, Zenon DEF EndUncleaned
    <3>6. jobs[j].status = "running" /\ ~Terminal(j)
      BY <3>1 DEF EndUncleaned, Terminal, Ended
    <3>7. [ready EXCEPT ![j] = TRUE] \in [Jobs -> BOOLEAN] /\ row.order > 0
      BY <1>3, <1>4, <3>4, <3>6
    <3> HIDE DEF row
    <3>8. QED
      BY <1>0, <3>4, <3>5, <3>6, <3>7, JobChanges
  <2>5. CASE CompleteCleanup(j)
    <3>1. PICK yes \in BOOLEAN : yes = TRUE
      OBVIOUS
    <3>2. PICK s : s = IF jobs[j].success THEN "passed" ELSE jobs[j].status
      OBVIOUS
    <3>3. DEFINE row == [jobs[j] EXCEPT !.cleaned = yes, !.status = s]
    <3>4. s \in {"none", "running"} \cup Outcomes
      BY <1>2, <3>2 DEF JobRow, Outcomes
    <3>5. row \in JobRow /\ row.order = jobs[j].order
      BY <1>2, <3>4 DEF JobRow
    <3>6. PICK b \in BOOLEAN : b = (ready[j] \/ jobs[j].success)
      OBVIOUS
    <3>7. jobs' = [jobs EXCEPT ![j] = row] /\ ready' = [ready EXCEPT ![j] = b] /\ observed' = observed
      <4>1. jobs' = [jobs EXCEPT ![j] = [jobs[j] EXCEPT !.cleaned = TRUE,
                                          !.status = IF jobs[j].success THEN "passed" ELSE jobs[j].status]]
        BY <2>5, Zenon DEF CompleteCleanup
      <4>2. jobs' = [jobs EXCEPT ![j] = row]
        BY <3>1, <3>2, <4>1, Zenon
      <4>3. ready' = [ready EXCEPT ![j] = b] /\ observed' = observed
        BY <2>5, <3>6, Zenon DEF CompleteCleanup
      <4>4. QED
        BY <4>2, <4>3
    <3>8. ~jobs[j].cleaned /\ row.order > 0
      BY <1>3, <2>5, <3>5 DEF CompleteCleanup
    <3> HIDE DEF row
    <3>9. QED
      BY <1>0, <1>4, <3>5, <3>7, <3>8, JobChanges
  <2>6. QED
    BY <1>1, <2>1, <2>2, <2>3, <2>4, <2>5
<1>6. UNCHANGED <<observed, channels, subscription, deliveries, worker, flights, edits, faults>>
  BY <1>1 DEF Job, InsertJob, EndJob, CompleteLate, EndUncleaned, CompleteCleanup
<1>7. ConfigPart' /\ DeliveryPart' /\ FlightPart' /\ BoundPart'
  BY <1>6 DEF OutboxInv, ConfigPart, DeliveryPart, RowFits, FlightPart, FlightFits,
              OneTransmissionAtATime, BoundPart
<1>8. QED
  BY <1>5, <1>7 DEF OutboxInv
-----------------------------------------------------------------------------
(* Edits of the configuration. *)

\* Saving a channel counts its revision on, unless it is its first.
LEMMA SaveChannelConfig ==
    ASSUME JobPart, ConfigPart, NEW c \in Channels, NEW enabled \in BOOLEAN, NEW events \in Filters,
           SaveChannel(c, enabled, events)
    PROVE  /\ ConfigPart'
           /\ \A d \in Channels : channels[d].revision <= channels'[d].revision
<1>0. /\ channels \in [Channels -> ChannelRow] /\ subscription \in Subscriptions
      /\ Floor \in 0..MaxJobs /\ events \in SUBSET Outcomes
  BY FiltersAssumption DEF ConfigPart, JobPart
<1>1. PICK r : r = IF channels[c].state = "new" THEN 1 ELSE channels[c].revision + 1
  OBVIOUS
<1>2. r \in Nat /\ channels[c].revision <= r
  BY <1>0, <1>1 DEF ConfigPart, ChannelRow
<1>3. PICK l : l = IF channels[c].state = "new" \/ (~channels[c].enabled /\ enabled)
                   THEN Floor ELSE channels[c].floor
  OBVIOUS
<1>4. l \in 0..MaxJobs
  <2>1. channels[c].floor \in 0..MaxJobs
    BY <1>0 DEF ChannelRow
  <2>2. QED
    BY <1>0, <1>3, <2>1, Zenon
<1>5. DEFINE row == [state |-> "live", enabled |-> enabled, events |-> events, revision |-> r, floor |-> l]
<1>6. channels' = [channels EXCEPT ![c] = row] /\ UNCHANGED subscription
  BY <1>1, <1>3, Zenon DEF SaveChannel
<1>7. row \in ChannelRow /\ row.state = "live" /\ row.revision = r
  BY <1>0, <1>2, <1>4 DEF ChannelRow
<1> HIDE DEF row
<1>8. channels' \in [Channels -> ChannelRow] /\ \A d \in Channels : channels'[d] = IF d = c THEN row ELSE channels[d]
  BY <1>0, <1>6, <1>7
<1>9. \A d \in Channels : channels[d].revision \in Nat
  BY <1>0 DEF ChannelRow
<1>10. QED
  BY <1>0, <1>2, <1>6, <1>7, <1>8, <1>9 DEF ConfigPart

\* So does deleting it.
LEMMA DeleteChannelConfig ==
    ASSUME ConfigPart, NEW c \in Channels, DeleteChannel(c)
    PROVE  /\ ConfigPart'
           /\ \A d \in Channels : channels[d].revision <= channels'[d].revision
<1>0. channels \in [Channels -> ChannelRow] /\ subscription \in Subscriptions
  BY DEF ConfigPart
<1>1. PICK r : r = channels[c].revision + 1
  OBVIOUS
<1>2. PICK no \in BOOLEAN : no = FALSE
  OBVIOUS
<1>3. r \in Nat /\ channels[c].revision <= r /\ channels[c] \in ChannelRow
  BY <1>0, <1>1 DEF ChannelRow
<1>4. DEFINE row == [channels[c] EXCEPT !.state = "deleted", !.enabled = no, !.revision = r]
<1>5. channels' = [channels EXCEPT ![c] = row]
  BY <1>1, <1>2, Zenon DEF DeleteChannel
<1>6. row \in ChannelRow /\ row.state = "deleted" /\ row.revision = r
  BY <1>3 DEF ChannelRow
<1> HIDE DEF row
<1>7. channels' \in [Channels -> ChannelRow] /\ \A d \in Channels : channels'[d] = IF d = c THEN row ELSE channels[d]
  BY <1>0, <1>5, <1>6
<1>8. subscription' \in Subscriptions
  <2>1. PICK b \in BOOLEAN :
          b = (subscription.enabled /\ subscription.channels # {c} /\ subscription.channels # {})
    OBVIOUS
  <2>2. subscription' = [subscription EXCEPT !.channels = subscription.channels \ {c}, !.enabled = b]
    BY <2>1, Zenon DEF DeleteChannel
  <2>3. QED
    BY <1>0, <2>2 DEF Subscriptions
<1>9. \A d \in Channels : channels[d].revision \in Nat
  BY <1>0 DEF ChannelRow
<1>10. QED
  BY <1>3, <1>6, <1>7, <1>8, <1>9 DEF ConfigPart

\* The subscription is saved without any change to a channel.
LEMMA SaveSubscriptionConfig ==
    ASSUME JobPart, ConfigPart, NEW enabled \in BOOLEAN, NEW chosen \in SUBSET Channels,
           NEW events \in Filters, SaveSubscription(enabled, chosen, events)
    PROVE  /\ ConfigPart'
           /\ \A d \in Channels : channels[d].revision <= channels'[d].revision
<1>0. /\ channels \in [Channels -> ChannelRow] /\ subscription \in Subscriptions
      /\ Floor \in 0..MaxJobs /\ events \in SUBSET Outcomes
  BY FiltersAssumption DEF ConfigPart, JobPart
<1>1. PICK l \in 0..MaxJobs :
        subscription' = [enabled |-> enabled, channels |-> chosen, events |-> events, floor |-> l]
  <2>1. subscription.floor \in 0..MaxJobs
    BY <1>0 DEF Subscriptions
  <2>2. PICK l : /\ l = Floor \/ l = subscription.floor
                 /\ subscription' = [enabled |-> enabled, channels |-> chosen, events |-> events, floor |-> l]
    BY Zenon DEF SaveSubscription
  <2>3. QED
    BY <1>0, <2>1, <2>2, Zenon
<1>2. subscription' \in Subscriptions
  BY <1>0, <1>1 DEF Subscriptions
<1>3. channels' = channels
  BY DEF SaveSubscription
<1>4. \A d \in Channels : channels[d].revision \in Nat
  BY <1>0 DEF ChannelRow
<1>5. QED
  BY <1>2, <1>3, <1>4 DEF ConfigPart

\* The administrator's edits.
LEMMA EditInv == OutboxInv /\ Edit => OutboxInv'
<1> SUFFICES ASSUME OutboxInv, Edit PROVE OutboxInv'
  OBVIOUS
<1>0. JobPart /\ ConfigPart /\ DeliveryPart /\ FlightPart /\ BoundPart
  BY DEF OutboxInv
<1>1. UNCHANGED <<jobs, ready, observed, deliveries, worker, flights, faults>> /\ edits < MaxEdits /\ edits' = edits + 1
  BY DEF Edit
<1>2. ConfigPart' /\ \A d \in Channels : channels[d].revision <= channels'[d].revision
  <2>1. CASE \E c \in Channels, enabled \in BOOLEAN, events \in Filters : SaveChannel(c, enabled, events)
    BY <1>0, <2>1, SaveChannelConfig
  <2>2. CASE \E c \in Channels : DeleteChannel(c)
    BY <1>0, <2>2, DeleteChannelConfig
  <2>3. CASE \E enabled \in BOOLEAN, chosen \in SUBSET Channels, events \in Filters :
               SaveSubscription(enabled, chosen, events)
    BY <1>0, <2>3, SaveSubscriptionConfig
  <2>4. QED
    BY <2>1, <2>2, <2>3, Zenon DEF Edit
<1>3. JobPart'
  BY <1>0, <1>1, JobsStay
<1>4. DeliveryPart'
  <2>1. ASSUME NEW k \in DOMAIN deliveries'
        PROVE  deliveries'[k] \in Row /\ deliveries'[k].revision <= channels'[k[2]].revision
    <3>1. RowFits(k, deliveries[k]) /\ deliveries'[k] = deliveries[k]
      BY <1>0, <1>1 DEF DeliveryPart
    <3>2. /\ deliveries[k] \in Row /\ k[2] \in Channels
          /\ deliveries[k].revision <= channels[k[2]].revision
      BY <3>1 DEF RowFits
    <3>3. channels[k[2]].revision <= channels'[k[2]].revision
      BY <1>2, <3>2
    <3>4. /\ deliveries[k].revision \in Nat /\ channels[k[2]].revision \in Nat
          /\ channels'[k[2]].revision \in Nat
      BY <1>0, <1>2, <3>2 DEF ConfigPart, ChannelRow, Row
    <3>5. QED
      BY <3>1, <3>2, <3>3, <3>4
  <2>2. QED
    BY <1>0, <1>1, <2>1, RowsStay
<1>5. FlightPart'
  <2>1. worker' \in {"idle", "reconcile", "claim"}
    BY <1>0, <1>1 DEF FlightPart
  <2>2. QED
    BY <1>0, <1>1, <2>1, FlightsStay
<1>6. BoundPart'
  BY <1>0, <1>1, OutboxAssumption DEF BoundPart
<1>7. QED
  BY <1>2, <1>3, <1>4, <1>5, <1>6 DEF OutboxInv
-----------------------------------------------------------------------------
(* Projection of ready outcomes. *)

\* A new row is a row, of its channel's revision.
LEMMA NewRowIs ==
    ASSUME ConfigPart, NEW c \in Channels
    PROVE  /\ NewRow(c) \in Row /\ NewRow(c).revision = channels[c].revision
           /\ channels[c].revision \in Nat
<1>1. channels[c].revision \in Nat
  BY DEF ConfigPart, ChannelRow
<1>2. /\ 0 \in 0..MaxAttempts /\ 0 \in 0..MaxCycle /\ 0 \in 0..MaxManual /\ 0 \in 0..MaxDelay
      /\ 0 \in 0..Lease
  BY OutboxAssumption DEF Lease
<1>3. QED
  BY <1>1, <1>2 DEF NewRow, Row

\* insertEvent adds at most one delivery per chosen channel and touches no other.
LEMMA InsertEventIs ==
    ASSUME NEW event, NEW chosen \in SUBSET Channels, InsertEvent(event, chosen)
    PROVE  /\ DOMAIN deliveries \subseteq DOMAIN deliveries'
           /\ \A c \in chosen : <<event, c>> \in DOMAIN deliveries'
           /\ \A k \in DOMAIN deliveries : deliveries'[k] = deliveries[k]
           /\ \A k \in DOMAIN deliveries' \ DOMAIN deliveries :
                 deliveries'[k] = NewRow(k[2]) /\ \E c \in chosen : k = <<event, c>>
           /\ IsFiniteSet(chosen) /\ IsFiniteSet(DOMAIN deliveries' \ DOMAIN deliveries)
           /\ Cardinality(DOMAIN deliveries' \ DOMAIN deliveries) <= Cardinality(chosen)
<1> DEFINE all == {<<event, c>> : c \in chosen}
           new == all \ DOMAIN deliveries
<1>1. deliveries' = [k \in DOMAIN deliveries \cup new |->
                       IF k \in new THEN NewRow(k[2]) ELSE deliveries[k]]
  BY DEF InsertEvent
<1> HIDE DEF new
<1>2. /\ DOMAIN deliveries' = DOMAIN deliveries \cup new
      /\ \A k \in new : deliveries'[k] = NewRow(k[2])
      /\ \A k \in DOMAIN deliveries : k \notin new => deliveries'[k] = deliveries[k]
  BY <1>1, Zenon
<1>3. DOMAIN deliveries' \ DOMAIN deliveries = new /\ \A k \in new : k \notin DOMAIN deliveries /\ k \in all
  BY <1>2 DEF new
<1>4. \A k \in new : \E c \in chosen : k = <<event, c>>
  BY <1>3
<1>5. IsFiniteSet(chosen)
  BY OutboxAssumption, FS_Subset
<1>6. IsFiniteSet(all) /\ Cardinality(all) <= Cardinality(chosen)
  <2>1. PICK m \in [chosen -> all] : \A c \in chosen : m[c] = <<event, c>>
    <3>1. [c \in chosen |-> <<event, c>>] \in [chosen -> all]
      OBVIOUS
    <3>2. QED
      BY <3>1, Zenon
  <2>2. \A t \in all : \E c \in chosen : m[c] = t
    BY <2>1
  <2> HIDE DEF all
  <2>3. QED
    BY <1>5, <2>1, <2>2, ImageIsFinite
<1>7. IsFiniteSet(new) /\ Cardinality(new) <= Cardinality(chosen)
  <2>1. new \subseteq all
    BY DEF new
  <2> HIDE DEF all
  <2>2. IsFiniteSet(new) /\ Cardinality(new) <= Cardinality(all)
    BY <1>6, <2>1, FS_Subset
  <2>3. Cardinality(new) \in Nat /\ Cardinality(all) \in Nat /\ Cardinality(chosen) \in Nat
    BY <1>5, <1>6, <2>2, FS_CardinalityType
  <2>4. QED
    BY <1>6, <2>2, <2>3
<1>8. \A c \in chosen : <<event, c>> \in DOMAIN deliveries'
  BY <1>2 DEF new
<1> HIDE DEF all
<1>9. QED
  BY <1>2, <1>3, <1>4, <1>5, <1>7, <1>8

\* New deliveries of an event no send is about.
LEMMA InsertEventInv ==
    ASSUME ConfigPart, DeliveryPart, FlightPart, NEW event \in Events, NEW chosen \in SUBSET Channels,
           InsertEvent(event, chosen), observed \subseteq observed', event = Test \/ event \in observed',
           \A f \in flights : f.key[1] = event /\ f.key[2] \in chosen => f.key \in DOMAIN deliveries,
           UNCHANGED <<channels, worker, flights>>
    PROVE  DeliveryPart' /\ FlightPart'
<1>1. /\ DOMAIN deliveries \subseteq DOMAIN deliveries'
      /\ \A k \in DOMAIN deliveries : deliveries'[k] = deliveries[k]
      /\ \A k \in DOMAIN deliveries' \ DOMAIN deliveries :
            deliveries'[k] = NewRow(k[2]) /\ \E c \in chosen : k = <<event, c>>
      /\ IsFiniteSet(DOMAIN deliveries' \ DOMAIN deliveries)
  BY InsertEventIs
<1>2. DeliveryPart'
  <2>1. IsFiniteSet(DOMAIN deliveries')
    <3>1. DOMAIN deliveries' = DOMAIN deliveries \cup (DOMAIN deliveries' \ DOMAIN deliveries)
      BY <1>1
    <3>2. IsFiniteSet(DOMAIN deliveries)
      BY DEF DeliveryPart
    <3>3. IsFiniteSet(DOMAIN deliveries \cup (DOMAIN deliveries' \ DOMAIN deliveries))
      BY <1>1, <3>2, FS_Union
    <3>4. QED
      BY <3>1, <3>3
  <2>2. ASSUME NEW k \in DOMAIN deliveries' PROVE RowFits(k, deliveries[k])'
    <3>1. CASE k \in DOMAIN deliveries
      <4>1. RowFits(k, deliveries[k]) /\ deliveries'[k] = deliveries[k]
        BY <1>1, <3>1 DEF DeliveryPart
      <4>2. QED
        BY <4>1 DEF RowFits
    <3>2. CASE k \notin DOMAIN deliveries
      <4>1. PICK c \in chosen : k = <<event, c>> /\ deliveries'[k] = NewRow(c)
        BY <1>1, <3>2
      <4>2. c \in Channels /\ k[1] = event /\ k[2] = c /\ k \in Events \X Channels
        BY <4>1
      <4>3. NewRow(c) \in Row /\ NewRow(c).revision <= channels[c].revision
        BY <4>2, NewRowIs
      <4>4. QED
        BY <4>1, <4>2, <4>3 DEF RowFits
    <3>3. QED
      BY <3>1, <3>2
  <2>3. QED
    BY <2>1, <2>2 DEF DeliveryPart
<1>3. ASSUME NEW f \in flights' PROVE FlightFits(f)'
  <2>1. FlightFits(f) /\ f \in flights
    BY DEF FlightPart
  <2>2. f.key \notin DOMAIN deliveries => f.key \notin DOMAIN deliveries'
    <3>1. SUFFICES ASSUME f.key \notin DOMAIN deliveries, f.key \in DOMAIN deliveries' PROVE FALSE
      OBVIOUS
    <3>2. PICK c \in chosen : f.key = <<event, c>>
      BY <1>1, <3>1
    <3>3. QED
      BY <2>1, <3>1, <3>2
  <2>3. f.key \in DOMAIN deliveries => FitsRow(f, deliveries'[f.key])
    BY <1>1, <2>1 DEF FlightFits
  <2>4. f.stage = "done" => worker' = "claim"
    BY <2>1 DEF FlightFits
  <2>5. f.key \in DOMAIN deliveries => f.key \in DOMAIN deliveries'
    BY <1>1
  <2>6. QED
    BY <2>1, <2>2, <2>3, <2>4, <2>5, FitsKept
<1>4. worker' \in {"idle", "reconcile", "claim"} /\ flights' \subseteq flights
  BY DEF FlightPart
<1>5. QED
  BY <1>2, <1>3, <1>4, FlightsLeave

\* An outcome is announced, or was before.
LEMMA ReconcileInv == OutboxInv /\ ReconcileStep => OutboxInv'
<1> SUFFICES ASSUME OutboxInv, ReconcileStep PROVE OutboxInv'
  OBVIOUS
<1>0. JobPart /\ ConfigPart /\ DeliveryPart /\ FlightPart /\ BoundPart
  BY DEF OutboxInv
<1>1. UNCHANGED <<worker, flights, edits, faults>>
  BY DEF ReconcileStep
<1>2. PICK j \in Jobs : Reconcile(j)
  BY DEF ReconcileStep
<1>3. First(j) /\ ready' = [ready EXCEPT ![j] = FALSE] /\ UNCHANGED <<jobs, channels, subscription>>
  BY <1>2, Zenon DEF Reconcile
<1>4. Terminal(j) /\ jobs[j].cleaned
  BY <1>3 DEF First, Announceable
<1>5. PICK s \in Outcomes : s = jobs[j].status
  BY <1>4 DEF Terminal, Ended, Outcomes
<1>6. ready' \in [Jobs -> BOOLEAN]
  BY <1>0, <1>3 DEF JobPart
<1>7. \/ observed' = observed /\ deliveries' = deliveries
      \/ /\ <<j, s>> \notin observed /\ InsertEvent(<<j, s>>, Audience(j))
         /\ observed' = observed \cup {<<j, s>>}
  BY <1>2, <1>5 DEF Reconcile
<1>8. observed \subseteq observed' /\ observed' \subseteq observed \cup {<<j, s>>}
  BY <1>7
<1>9. JobPart'
  <2>1. observed' \subseteq Jobs \X Outcomes
    BY <1>0, <1>8 DEF JobPart
  <2>2. ASSUME NEW o \in observed', o[1] \in RecoveryTests
        PROVE  o[2] = jobs[o[1]].status /\ Terminal(o[1]) /\ jobs[o[1]].cleaned
    <3>1. CASE o \in observed
      BY <1>0, <2>2, <3>1 DEF JobPart
    <3>2. CASE o = <<j, s>>
      BY <1>4, <1>5, <3>2
    <3>3. QED
      BY <1>8, <3>1, <3>2
  <2>3. QED
    BY <1>0, <1>3, <1>6, <2>1, <2>2 DEF JobPart, Floor, Inserted, Terminal
<1>10. DeliveryPart' /\ FlightPart'
  <2>1. CASE observed' = observed /\ deliveries' = deliveries
    BY <1>0, <1>1, <1>3, <2>1 DEF DeliveryPart, RowFits, FlightPart, FlightFits, OneTransmissionAtATime
  <2>2. CASE /\ <<j, s>> \notin observed /\ InsertEvent(<<j, s>>, Audience(j))
             /\ observed' = observed \cup {<<j, s>>}
    <3>1. PICK chosen \in SUBSET Channels : chosen = Audience(j)
      <4>1. subscription.channels \subseteq Channels
        BY <1>0 DEF ConfigPart, Subscriptions
      <4>2. Audience(j) \subseteq Channels
        BY <4>1 DEF Audience
      <4>3. QED
        BY <4>2
    <3>2. <<j, s>> \in Events /\ <<j, s>> # Test
      BY <1>5 DEF Events, Test, Outcomes
    <3>3. ASSUME NEW f \in flights, f.key[1] = <<j, s>> PROVE FALSE
      BY <1>0, <2>2, <3>2, <3>3 DEF FlightPart, FlightFits
    <3>4. InsertEvent(<<j, s>>, chosen) /\ <<j, s>> \in observed'
      BY <2>2, <3>1
    <3>5. QED
      BY <1>0, <1>1, <1>3, <1>8, <3>2, <3>3, <3>4, InsertEventInv
  <2>3. QED
    BY <1>7, <2>1, <2>2
<1>11. QED
  BY <1>0, <1>1, <1>3, <1>9, <1>10 DEF OutboxInv, ConfigPart, BoundPart
-----------------------------------------------------------------------------
(* The rest of the tick, test deliveries and retries. *)

\* A tick begins.
LEMMA StartTickInv == OutboxInv /\ StartTick => OutboxInv'
<1> SUFFICES ASSUME OutboxInv, StartTick PROVE OutboxInv'
  OBVIOUS
<1>1. /\ UNCHANGED <<jobs, ready, observed, channels, subscription, deliveries, flights, edits, faults>>
      /\ worker = "idle" /\ worker' = "reconcile"
  BY DEF StartTick, storeVars
<1>2. JobPart' /\ ConfigPart'
  BY <1>1, JobsStay, ConfigStays DEF OutboxInv
<1>3. DeliveryPart' /\ BoundPart'
  BY <1>1 DEF OutboxInv, DeliveryPart, RowFits, BoundPart
<1>4. FlightPart'
  BY <1>1, FlightsStay DEF OutboxInv
<1>5. QED
  BY <1>2, <1>3, <1>4 DEF OutboxInv

\* Maintenance deletes settled deliveries, and a delivery that is being sent is not settled.
LEMMA MaintenanceInv == OutboxInv /\ MaintenanceStep => OutboxInv'
<1> SUFFICES ASSUME OutboxInv, MaintenanceStep PROVE OutboxInv'
  OBVIOUS
<1>0. JobPart /\ ConfigPart /\ DeliveryPart /\ FlightPart /\ BoundPart
  BY DEF OutboxInv
<1>1. PICK old \in SUBSET DOMAIN deliveries : Maintenance(old)
  BY DEF MaintenanceStep
<1>2. /\ worker = "reconcile" /\ worker' = "claim"
      /\ UNCHANGED <<jobs, ready, observed, subscription, flights, edits, faults>>
  BY <1>1, Zenon DEF Maintenance
<1>3. /\ DOMAIN deliveries' = DOMAIN deliveries \ old
      /\ \A k \in DOMAIN deliveries' : deliveries'[k] = deliveries[k]
  <2>1. deliveries' = [k \in DOMAIN deliveries \ old |-> deliveries[k]]
    BY <1>1, Zenon DEF Maintenance
  <2>2. QED
    BY <2>1
<1>4. \A k \in old : deliveries[k].status # "sending"
  BY <1>1 DEF Maintenance, Waiting
<1>5. ConfigPart' /\ \A c \in Channels : channels'[c].revision = channels[c].revision
  <2>0. channels \in [Channels -> ChannelRow]
    BY <1>0 DEF ConfigPart
  <2>1. channels' = [c \in Channels |->
           IF channels[c].state = "deleted" /\ ~\E k \in DOMAIN deliveries' : k[2] = c
           THEN [channels[c] EXCEPT !.state = "gone"] ELSE channels[c]]
    BY <1>1, Zenon DEF Maintenance
  <2>2. ASSUME NEW c \in Channels
        PROVE  /\ channels'[c] \in ChannelRow /\ channels'[c].revision = channels[c].revision
               /\ channels'[c].state = "new" => channels[c].state = "new"
    <3>1. channels'[c] = [channels[c] EXCEPT !.state = "gone"] \/ channels'[c] = channels[c]
      BY <2>1, Zenon
    <3>2. CASE channels'[c] = [channels[c] EXCEPT !.state = "gone"]
      BY <2>0, <3>2 DEF ChannelRow
    <3>3. QED
      BY <2>0, <3>1, <3>2
  <2>3. channels' \in [Channels -> ChannelRow]
    <3>1. DOMAIN channels' = Channels /\ channels' = [c \in Channels |-> channels'[c]]
      BY <2>1, Zenon
    <3>2. QED
      BY <2>2, <3>1, Zenon
  <2>4. QED
    BY <1>0, <1>2, <2>2, <2>3 DEF ConfigPart
<1>6. DeliveryPart'
  <2>1. ASSUME NEW k \in DOMAIN deliveries'
        PROVE  deliveries'[k] \in Row /\ deliveries'[k].revision <= channels'[k[2]].revision
    <3>1. RowFits(k, deliveries[k]) /\ deliveries'[k] = deliveries[k]
      BY <1>0, <1>3 DEF DeliveryPart
    <3>2. QED
      BY <1>5, <3>1 DEF RowFits
  <2>2. QED
    BY <1>0, <1>2, <1>3, <2>1, RowsStay
<1>7. ASSUME NEW f \in flights' PROVE FlightFits(f)'
  <2>1. FlightFits(f) /\ f.stage # "done"
    BY <1>0, <1>2, <1>7 DEF FlightPart, FlightFits
  <2>2. f.naps = 0 => f.key \in DOMAIN deliveries'
    BY <1>3, <1>4, <2>1 DEF FlightFits, FitsRow
  <2>3. f.key \in DOMAIN deliveries' => FitsRow(f, deliveries'[f.key])
    BY <1>3, <2>1 DEF FlightFits
  <2>4. f.key \notin DOMAIN deliveries => f.key \notin DOMAIN deliveries'
    BY <1>3
  <2>5. QED
    BY <1>2, <2>1, <2>2, <2>3, <2>4, FitsKept
<1>8. JobPart' /\ FlightPart'
  BY <1>0, <1>2, <1>7, JobsStay, FlightsLeave
<1>9. QED
  BY <1>0, <1>2, <1>5, <1>6, <1>8 DEF OutboxInv, BoundPart

\* A test delivery is an event of its own.
LEMMA TestChannelInv == \A c \in Channels : OutboxInv /\ TestChannel(c) => OutboxInv'
<1> SUFFICES ASSUME NEW c \in Channels, OutboxInv, TestChannel(c) PROVE OutboxInv'
  OBVIOUS
<1>0. JobPart /\ ConfigPart /\ DeliveryPart /\ FlightPart /\ BoundPart
  BY DEF OutboxInv
<1>1. /\ UNCHANGED <<jobs, ready, observed, channels, subscription, worker, flights, faults>>
      /\ edits < MaxEdits /\ edits' = edits + 1 /\ InsertEvent(Test, {c})
      /\ \A f \in flights : f.key # <<Test, c>>
  BY DEF TestChannel, storeVars
<1>2. DeliveryPart' /\ FlightPart'
  <2>1. Test \in Events /\ {c} \in SUBSET Channels
    BY DEF Events
  <2>2. ASSUME NEW f \in flights, f.key[1] = Test, f.key[2] \in {c} PROVE FALSE
    <3>1. f.key \in Events \X Channels
      BY <1>0 DEF FlightPart, FlightFits, Flight
    <3>2. f.key = <<Test, c>>
      BY <2>2, <3>1
    <3>3. QED
      BY <1>1, <3>2
  <2>3. QED
    BY <1>0, <1>1, <2>1, <2>2, InsertEventInv
<1>3. JobPart' /\ ConfigPart'
  BY <1>0, <1>1, JobsStay, ConfigStays
<1>4. BoundPart'
  BY <1>0, <1>1, OutboxAssumption DEF BoundPart
<1>5. QED
  BY <1>2, <1>3, <1>4 DEF OutboxInv

\* A failed delivery is queued again, under its channel's present revision.
LEMMA RetryInv == \A k \in DOMAIN deliveries : OutboxInv /\ Retry(k) => OutboxInv'
<1> SUFFICES ASSUME NEW k \in DOMAIN deliveries, OutboxInv, Retry(k) PROVE OutboxInv'
  OBVIOUS
<1>0. JobPart /\ ConfigPart /\ DeliveryPart /\ FlightPart /\ BoundPart
  BY DEF OutboxInv
<1>1. /\ UNCHANGED <<jobs, ready, observed, channels, subscription, worker, flights, edits, faults>>
      /\ worker = "idle" /\ deliveries[k].status = "failed" /\ deliveries[k].manual < MaxManual
  BY DEF Retry, CanRetry, storeVars
<1>2. /\ deliveries[k] \in Row /\ k[2] \in Channels
      /\ deliveries[k].revision <= channels[k[2]].revision
  BY <1>0 DEF DeliveryPart, RowFits
<1>3. PICK r, m : r = channels[k[2]].revision /\ m = deliveries[k].manual + 1
  OBVIOUS
<1>4. r \in Nat /\ m \in 0..MaxManual /\ 0 \in 0..MaxCycle /\ 1 \in 0..MaxDelay
  BY <1>0, <1>1, <1>2, <1>3, OutboxAssumption DEF ConfigPart, ChannelRow, Row
<1>5. DEFINE row == [deliveries[k] EXCEPT !.status = "pending", !.revision = r, !.cycle = 0,
                                          !.manual = m, !.next = 1]
<1>6. row \in Row /\ row.attempts = deliveries[k].attempts /\ row.revision = r /\ row.next = 1
  BY <1>2, <1>4 DEF Row
<1>7. deliveries' = [deliveries EXCEPT ![k] = row]
  BY <1>3 DEF Retry, Pause
<1> HIDE DEF row
<1>8. /\ DOMAIN deliveries' = DOMAIN deliveries /\ deliveries'[k] = row
      /\ \A l \in DOMAIN deliveries : l # k => deliveries'[l] = deliveries[l]
  BY <1>7
<1>9. DeliveryPart'
  <2>1. ASSUME NEW l \in DOMAIN deliveries'
        PROVE  deliveries'[l] \in Row /\ deliveries'[l].revision <= channels'[l[2]].revision
    <3>1. CASE l = k
      BY <1>1, <1>3, <1>4, <1>6, <1>8, <3>1
    <3>2. CASE l # k
      BY <1>0, <1>1, <1>8, <3>2 DEF DeliveryPart, RowFits
    <3>3. QED
      BY <3>1, <3>2
  <2>2. QED
    BY <1>0, <1>1, <1>8, <2>1, RowsStay
<1>10. ASSUME NEW f \in flights' PROVE FlightFits(f)'
  <2>1. FlightFits(f) /\ f.stage # "done" /\ f \in Flight
    BY <1>0, <1>1, <1>10 DEF FlightPart, FlightFits
  <2>2. ASSUME f.key \in DOMAIN deliveries PROVE FitsRow(f, deliveries'[f.key])
    <3>0. FitsRow(f, deliveries[f.key])
      BY <2>1, <2>2 DEF FlightFits
    <3>1. CASE f.key = k
      <4>1. row.next > 0 /\ deliveries[k].revision <= row.revision
        BY <1>2, <1>3, <1>6
      <4>2. FitsRow(f, row)
        BY <1>1, <1>2, <1>6, <2>1, <3>0, <3>1, <4>1, FitsRetried
      <4>3. QED
        BY <1>8, <3>1, <4>2
    <3>2. CASE f.key # k
      BY <1>8, <2>2, <3>0, <3>2
    <3>3. QED
      BY <3>1, <3>2
  <2>3. QED
    BY <1>1, <1>8, <2>1, <2>2, FitsKept
<1>11. worker' \in {"idle", "reconcile", "claim"} /\ flights' \subseteq flights
  BY <1>1
<1>12. JobPart' /\ ConfigPart' /\ FlightPart'
  BY <1>0, <1>1, <1>10, <1>11, JobsStay, ConfigStays, FlightsLeave
<1>13. QED
  BY <1>0, <1>1, <1>9, <1>12 DEF OutboxInv, BoundPart
-----------------------------------------------------------------------------
(* Claims and the end of a tick. *)

\* The sweep keeps the deliveries and what the sends need of their rows.
LEMMA SweptIs ==
    ASSUME DeliveryPart, FlightPart
    PROVE  /\ DOMAIN Swept = DOMAIN deliveries
           /\ \A k \in DOMAIN deliveries : /\ Swept[k] = Recovered(deliveries[k]) /\ Swept[k] \in Row
                                           /\ Swept[k].revision <= channels[k[2]].revision
           /\ \A f \in flights : f.key \in DOMAIN deliveries => FitsRow(f, Swept[f.key])
<1>1. DOMAIN Swept = DOMAIN deliveries /\ \A k \in DOMAIN deliveries : Swept[k] = Recovered(deliveries[k])
  BY DEF Swept
<1>2. ASSUME NEW k \in DOMAIN deliveries
      PROVE  Swept[k] \in Row /\ Swept[k].revision <= channels[k[2]].revision
  <2>1. deliveries[k] \in Row /\ deliveries[k].revision <= channels[k[2]].revision
    BY DEF DeliveryPart, RowFits
  <2>2. QED
    BY <1>1, <2>1, RecoveredIs
<1>3. ASSUME NEW f \in flights, f.key \in DOMAIN deliveries PROVE FitsRow(f, Swept[f.key])
  <2>1. f \in Flight /\ FitsRow(f, deliveries[f.key])
    BY <1>3 DEF FlightPart, FlightFits
  <2>2. deliveries[f.key] \in Row
    BY <1>3 DEF DeliveryPart, RowFits
  <2>3. FitsRow(f, Recovered(deliveries[f.key]))
    BY <2>1, <2>2, FitsRecovered
  <2>4. QED
    BY <1>1, <1>3, <2>3
<1>4. QED
  BY <1>1, <1>2, <1>3

\* The last sweep of a tick; the sends that ended before they waited leave.
LEMMA EndTickInv == OutboxInv /\ EndTick => OutboxInv'
<1> SUFFICES ASSUME OutboxInv, EndTick PROVE OutboxInv'
  OBVIOUS
<1>0. JobPart /\ ConfigPart /\ DeliveryPart /\ FlightPart /\ BoundPart
  BY DEF OutboxInv
<1>1. /\ UNCHANGED <<jobs, ready, observed, channels, subscription, edits, faults>> /\ worker' = "idle"
      /\ flights' = {f \in flights : f.stage # "done"}
      /\ deliveries' = Swept \/ deliveries' = deliveries
  BY DEF EndTick, storeVars
<1>2. /\ DOMAIN deliveries' = DOMAIN deliveries
      /\ \A k \in DOMAIN deliveries :
           deliveries'[k] \in Row /\ deliveries'[k].revision <= channels'[k[2]].revision
      /\ \A f \in flights : f.key \in DOMAIN deliveries => FitsRow(f, deliveries'[f.key])
  <2>1. CASE deliveries' = Swept
    BY <1>0, <1>1, <2>1, SweptIs
  <2>2. CASE deliveries' = deliveries
    BY <1>0, <1>1, <2>2 DEF DeliveryPart, RowFits, FlightPart, FlightFits
  <2>3. QED
    BY <1>1, <2>1, <2>2
<1>3. DeliveryPart'
  BY <1>0, <1>1, <1>2, RowsStay
<1>4. ASSUME NEW f \in flights' PROVE FlightFits(f)'
  <2>1. f \in flights /\ f.stage # "done" /\ FlightFits(f)
    BY <1>0, <1>1, <1>4 DEF FlightPart
  <2>2. f.key \in DOMAIN deliveries => FitsRow(f, deliveries'[f.key])
    BY <1>2, <2>1
  <2>3. QED
    BY <1>1, <1>2, <2>1, <2>2, FitsKept
<1>5. JobPart' /\ ConfigPart' /\ FlightPart'
  <2>1. worker' \in {"idle", "reconcile", "claim"} /\ flights' \subseteq flights
    BY <1>1
  <2>2. QED
    BY <1>0, <1>1, <1>4, <2>1, JobsStay, ConfigStays, FlightsLeave
<1>6. QED
  BY <1>0, <1>1, <1>3, <1>5 DEF OutboxInv, BoundPart

\* What a claim leaves: a send and its row, in step with each other.
LEMMA ClaimIs ==
    ASSUME OutboxInv, NEW k \in DOMAIN deliveries, Claim(k)
    PROVE  \E f \in Flight :
             /\ flights' = flights \cup {f} /\ f.key = k /\ f.naps = 0 /\ f.stage \in {"resolving", "done"}
             /\ f.attempts = deliveries[k].attempts + 1
             /\ DOMAIN deliveries' = DOMAIN deliveries
             /\ \A l \in DOMAIN deliveries : l # k => deliveries'[l] = Swept[l]
             /\ deliveries'[k] \in Row /\ FitsRow(f, deliveries'[k])
             /\ deliveries'[k].attempts = deliveries[k].attempts + 1
             /\ deliveries'[k].revision = deliveries[k].revision
             /\ deliveries[k].status = "pending" /\ deliveries[k].next = 0
<1>0. DeliveryPart /\ FlightPart
  BY DEF OutboxInv
<1>1. /\ DOMAIN Swept = DOMAIN deliveries /\ Swept[k] = Recovered(deliveries[k])
      /\ \A l \in DOMAIN Swept : Swept[l] \in Row
  BY <1>0, SweptIs
<1>2. /\ Swept[k].status = "pending" /\ Swept[k].next = 0 /\ ~Exhausted(Swept[k])
  BY DEF Claim, Due
<1>3. deliveries[k] \in Row /\ k \in Events \X Channels
  BY <1>0 DEF DeliveryPart, RowFits
<1>4. Swept[k] = deliveries[k]
  BY <1>1, <1>2, <1>3, RecoveredIs
<1>5. PICK row : row = Claimed(Swept[k])
  OBVIOUS
<1>6. /\ row \in Row /\ row.status = "sending" /\ row.lease = 2
      /\ row.attempts = deliveries[k].attempts + 1
      /\ row.attempts \in 1..MaxAttempts /\ row.cycle \in 1..MaxCycle
      /\ row.revision = deliveries[k].revision /\ row.revision \in Nat
  <2>1. ~Exhausted(deliveries[k])
    BY <1>2, <1>4
  <2>2. row = Claimed(deliveries[k])
    BY <1>4, <1>5
  <2>3. row.revision = deliveries[k].revision /\ row.revision \in Nat
    BY <1>3, <2>1, <2>2, ClaimedIs DEF Row
  <2>4. QED
    BY <1>3, <2>1, <2>2, <2>3, ClaimedIs
<1>7. PICK s \in {"resolving", "done"} :
        s = IF CanSend([key |-> k, revision |-> row.revision]) THEN "resolving" ELSE "done"
  OBVIOUS
<1>8. DEFINE f == [key |-> k, attempts |-> row.attempts, cycle |-> row.cycle,
                   revision |-> row.revision, left |-> Timeout, naps |-> 0, stage |-> s]
             rows == [Swept EXCEPT ![k] = row]
<1>9. /\ flights' = flights \cup {f}
      /\ deliveries' = IF f.stage = "done" THEN Finished(rows, f, "permanent", 0) ELSE rows
  BY <1>5, <1>7, Zenon DEF Claim
<1>10. /\ f.key = k /\ f.attempts = row.attempts /\ f.revision = row.revision /\ f.left = 1
       /\ f.naps = 0 /\ f.stage = s
  BY DEF Timeout
<1>11. f \in Flight
  <2>1. Timeout \in 0..Timeout /\ 0 \in 0..Naps
    BY DEF Timeout, Naps
  <2>2. QED
    BY <1>3, <1>6, <2>1 DEF Flight
<1> HIDE DEF f
<1>12. /\ DOMAIN rows = DOMAIN deliveries /\ rows[k] = row
       /\ \A l \in DOMAIN deliveries : l # k => rows[l] = Swept[l]
       /\ \A l \in DOMAIN rows : rows[l] \in Row
  BY <1>1, <1>6
<1> HIDE DEF rows
<1>13. CASE s = "resolving"
  <2>1. deliveries' = rows
    BY <1>9, <1>10, <1>13
  <2>2. FitsRow(f, row)
    BY <1>6, <1>10, <1>13 DEF FitsRow
  <2>3. QED
    BY <1>2, <1>4, <1>6, <1>9, <1>10, <1>11, <1>12, <2>1, <2>2
<1>14. CASE s = "done"
  <2>1. deliveries' = Finished(rows, f, "permanent", 0)
    BY <1>9, <1>10, <1>14
  <2>2. f.key \in DOMAIN rows /\ rows[f.key] = row
    BY <1>10, <1>12
  <2>3. /\ DOMAIN deliveries' = DOMAIN rows
        /\ \A l \in DOMAIN rows : l # f.key => deliveries'[l] = rows[l]
        /\ deliveries'[f.key] \in Row /\ deliveries'[f.key].attempts = row.attempts
        /\ deliveries'[f.key].revision = row.revision /\ deliveries'[f.key].status = "failed"
    <3>1. row.status = "sending" /\ row.attempts = f.attempts
      BY <1>6, <1>10
    <3>2. QED
      BY <1>12, <2>1, <2>2, <3>1, FinishedIs
  <2>4. FitsRow(f, deliveries'[k])
    BY <1>6, <1>10, <1>14, <2>3 DEF FitsRow
  <2>5. QED
    BY <1>2, <1>4, <1>6, <1>9, <1>10, <1>11, <1>12, <2>3, <2>4
<1>15. QED
  BY <1>13, <1>14

\* A due delivery is claimed: whoever still sends it was suspended twice.
LEMMA ClaimInv == OutboxInv /\ ClaimStep => OutboxInv'
<1> SUFFICES ASSUME OutboxInv, ClaimStep PROVE OutboxInv'
  OBVIOUS
<1>0. JobPart /\ ConfigPart /\ DeliveryPart /\ FlightPart /\ BoundPart
  BY DEF OutboxInv
<1>1. PICK k \in DOMAIN deliveries : Claim(k)
  BY DEF ClaimStep
<1>2. /\ UNCHANGED <<jobs, ready, observed, channels, subscription, worker, edits, faults>>
      /\ worker = "claim" /\ Cardinality(flights) < Slots
  BY <1>1, Zenon DEF Claim, storeVars
<1>3. PICK f \in Flight :
        /\ flights' = flights \cup {f} /\ f.key = k /\ f.naps = 0 /\ f.stage \in {"resolving", "done"}
        /\ f.attempts = deliveries[k].attempts + 1
        /\ DOMAIN deliveries' = DOMAIN deliveries
        /\ \A l \in DOMAIN deliveries : l # k => deliveries'[l] = Swept[l]
        /\ deliveries'[k] \in Row /\ FitsRow(f, deliveries'[k])
        /\ deliveries'[k].attempts = deliveries[k].attempts + 1
        /\ deliveries'[k].revision = deliveries[k].revision
        /\ deliveries[k].status = "pending" /\ deliveries[k].next = 0
  BY <1>1, ClaimIs
<1>4. RowFits(k, deliveries[k]) /\ deliveries[k] \in Row /\ deliveries[k].attempts \in Nat
  <2>1. RowFits(k, deliveries[k])
    BY <1>0 DEF DeliveryPart
  <2>2. QED
    BY <2>1 DEF RowFits, Row
<1>5. DeliveryPart'
  <2>1. ASSUME NEW l \in DOMAIN deliveries'
        PROVE  deliveries'[l] \in Row /\ deliveries'[l].revision <= channels'[l[2]].revision
    <3>1. CASE l = k
      BY <1>2, <1>3, <1>4, <3>1 DEF RowFits
    <3>2. CASE l # k
      BY <1>0, <1>2, <1>3, <3>2, SweptIs
    <3>3. QED
      BY <3>1, <3>2
  <2>2. QED
    BY <1>0, <1>2, <1>3, <2>1, RowsStay
<1>6. ASSUME NEW g \in flights, g.key = k
      PROVE  /\ g \in Flight /\ g.naps = Naps /\ g.stage # "done" /\ g.attempts # f.attempts
             /\ FitsRow(g, deliveries[k])
  <2>1. g \in Flight /\ FitsRow(g, deliveries[k])
    BY <1>0, <1>6 DEF FlightPart, FlightFits
  <2>2. g.naps = Naps /\ g.stage # "done"
    BY <1>3, <1>4, <2>1, DueIsFree
  <2>3. g.attempts <= deliveries[k].attempts /\ g.attempts \in Nat
    BY <2>1 DEF FitsRow, Flight
  <2>4. QED
    BY <1>3, <1>4, <2>1, <2>2, <2>3
<1>7. ASSUME NEW g \in flights PROVE FlightFits(g)'
  <2>1. FlightFits(g)
    BY <1>0 DEF FlightPart
  <2>2. ASSUME g.key \in DOMAIN deliveries PROVE FitsRow(g, deliveries'[g.key])
    <3>1. CASE g.key = k
      <4>1. deliveries[k].attempts <= deliveries'[k].attempts
        BY <1>3, <1>4
      <4>2. FitsRow(g, deliveries'[k])
        BY <1>3, <1>4, <1>6, <3>1, <4>1, FitsOlder
      <4>3. QED
        BY <3>1, <4>2
    <3>2. CASE g.key # k
      BY <1>0, <1>3, <2>2, <3>2, SweptIs
    <3>3. QED
      BY <3>1, <3>2
  <2>3. g.stage = "done" => worker' = "claim"
    BY <1>2
  <2>4. QED
    BY <1>2, <1>3, <2>1, <2>2, <2>3, FitsKept
<1>8. FlightFits(f)'
  BY <1>2, <1>3, <1>4 DEF FlightFits, RowFits
<1>9. IsFiniteSet(flights') /\ Cardinality(flights') <= Slots
  <2>1. f \notin flights
    BY <1>3, <1>6 DEF Naps
  <2>2. IsFiniteSet(flights)
    BY <1>0 DEF FlightPart
  <2>3. IsFiniteSet(flights') /\ Cardinality(flights') = Cardinality(flights) + 1
    BY <1>3, <2>1, <2>2, FS_AddElement
  <2>4. Cardinality(flights) \in Nat
    BY <2>2, FS_CardinalityType
  <2>5. QED
    BY <1>2, <2>3, <2>4 DEF Slots
<1>10. \A g, h \in flights' : g.key = h.key /\ g.attempts = h.attempts => g = h
  <2>1. ASSUME NEW g \in flights', NEW h \in flights', g.key = h.key, g.attempts = h.attempts PROVE g = h
    <3>1. CASE g \in flights /\ h \in flights
      BY <1>0, <2>1, <3>1 DEF FlightPart
    <3>2. CASE g = f \/ h = f
      BY <1>3, <1>6, <2>1, <3>2
    <3>3. QED
      BY <1>3, <3>1, <3>2
  <2>2. QED
    BY <2>1
<1>11. OneTransmissionAtATime'
  <2>1. ASSUME NEW g \in flights', NEW h \in flights', g.key = h.key
        PROVE  g = h \/ Naps \in {g.naps, h.naps}
    <3>1. CASE g \in flights /\ h \in flights
      BY <1>0, <2>1, <3>1 DEF FlightPart, OneTransmissionAtATime
    <3>2. CASE g = f \/ h = f
      BY <1>3, <1>6, <2>1, <3>2
    <3>3. QED
      BY <1>3, <3>1, <3>2
  <2>2. QED
    BY <2>1 DEF OneTransmissionAtATime
<1>12. FlightPart'
  <2>1. \A g \in flights' : FlightFits(g)'
    BY <1>3, <1>7, <1>8
  <2>2. worker' \in {"idle", "reconcile", "claim"}
    BY <1>2
  <2>3. QED
    BY <1>9, <1>10, <1>11, <2>1, <2>2 DEF FlightPart
<1>13. JobPart' /\ ConfigPart'
  BY <1>0, <1>2, JobsStay, ConfigStays
<1>14. QED
  BY <1>0, <1>2, <1>5, <1>12, <1>13 DEF OutboxInv, BoundPart
-----------------------------------------------------------------------------
(* Sends. *)

\* finish() by one send leaves the others, of other keys or of other attempts, in step.
LEMMA FinishedRows ==
    ASSUME OutboxInv, NEW f \in flights, NEW result, NEW after, worker = "idle",
           deliveries' = Finished(deliveries, f, result, after),
           UNCHANGED <<observed, channels, worker>>
    PROVE  /\ DeliveryPart'
           /\ \A g \in flights : g # f => FlightFits(g)'
<1>0. DeliveryPart /\ FlightPart
  BY DEF OutboxInv
<1>1. \A k \in DOMAIN deliveries :
        deliveries[k] \in Row /\ deliveries[k].revision <= channels[k[2]].revision
  BY <1>0 DEF DeliveryPart, RowFits
<1>2. CASE f.key \notin DOMAIN deliveries
  <2>1. deliveries' = deliveries
    BY <1>2 DEF Finished
  <2>2. QED
    BY <1>0, <2>1 DEF DeliveryPart, RowFits, FlightPart, FlightFits
<1>3. CASE f.key \in DOMAIN deliveries
  <2>1. /\ DOMAIN deliveries' = DOMAIN deliveries
        /\ \A k \in DOMAIN deliveries : k # f.key => deliveries'[k] = deliveries[k]
        /\ \/ deliveries'[f.key] = deliveries[f.key]
           \/ /\ deliveries[f.key].attempts = f.attempts
              /\ deliveries'[f.key] \in Row /\ deliveries'[f.key].attempts = deliveries[f.key].attempts
              /\ deliveries'[f.key].revision = deliveries[f.key].revision
    BY <1>1, <1>3, FinishedIs
  <2>2. DeliveryPart'
    <3>1. ASSUME NEW k \in DOMAIN deliveries'
          PROVE  deliveries'[k] \in Row /\ deliveries'[k].revision <= channels'[k[2]].revision
      BY <1>1, <2>1
    <3>2. QED
      BY <1>0, <2>1, <3>1, RowsStay
  <2>3. ASSUME NEW g \in flights, g # f PROVE FlightFits(g)'
    <3>1. FlightFits(g) /\ g.stage # "done" /\ g \in Flight
      BY <1>0 DEF FlightPart, FlightFits
    <3>2. ASSUME g.key \in DOMAIN deliveries PROVE FitsRow(g, deliveries'[g.key])
      <4>0. FitsRow(g, deliveries[g.key])
        BY <3>1, <3>2 DEF FlightFits
      <4>1. CASE deliveries'[g.key] = deliveries[g.key]
        BY <4>0, <4>1
      <4>2. CASE g.key = f.key /\ deliveries'[f.key] # deliveries[f.key]
        <5>1. g.attempts # f.attempts
          BY <1>0, <2>3, <4>2 DEF FlightPart
        <5>2. /\ deliveries[f.key] \in Row /\ deliveries'[f.key] \in Row
              /\ g.attempts # deliveries[f.key].attempts
              /\ deliveries'[f.key].attempts = deliveries[f.key].attempts
              /\ deliveries'[f.key].revision = deliveries[f.key].revision
          BY <1>1, <1>3, <2>1, <4>2, <5>1
        <5>3. deliveries[f.key].attempts <= deliveries'[f.key].attempts
          BY <5>2 DEF Row
        <5>4. FitsRow(g, deliveries'[f.key])
          BY <3>1, <4>0, <4>2, <5>2, <5>3, FitsOlder
        <5>5. QED
          BY <4>2, <5>4
      <4>3. QED
        BY <2>1, <3>2, <4>1, <4>2
    <3>3. QED
      BY <2>1, <3>1, <3>2, FitsKept
  <2>4. QED
    BY <2>2, <2>3
<1>4. QED
  BY <1>2, <1>3

\* A send ends and its outcome is written.
LEMMA SendEnds ==
    ASSUME OutboxInv, NEW f \in flights, NEW result, NEW after, worker = "idle",
           flights' = flights \ {f}, deliveries' = Finished(deliveries, f, result, after),
           UNCHANGED <<storeVars, worker, edits, faults>>
    PROVE  OutboxInv'
<1>0. JobPart /\ ConfigPart /\ DeliveryPart /\ FlightPart /\ BoundPart
  BY DEF OutboxInv
<1>1. UNCHANGED <<jobs, ready, observed, channels, subscription>>
  BY DEF storeVars
<1>2. DeliveryPart' /\ \A g \in flights' : FlightFits(g)'
  BY <1>1, FinishedRows
<1>3. worker' \in {"idle", "reconcile", "claim"} /\ flights' \subseteq flights
  OBVIOUS
<1>4. JobPart' /\ ConfigPart' /\ FlightPart'
  BY <1>0, <1>1, <1>2, <1>3, JobsStay, ConfigStays, FlightsLeave
<1>5. QED
  BY <1>0, <1>2, <1>4 DEF OutboxInv, BoundPart

\* The message goes out.
LEMMA SendGoesOn ==
    ASSUME OutboxInv, NEW f \in flights, worker = "idle", f.stage = "resolving",
           flights' = (flights \ {f}) \cup {[f EXCEPT !.stage = "sent"]},
           UNCHANGED <<storeVars, deliveries, worker, edits, faults>>
    PROVE  OutboxInv'
<1>0. JobPart /\ ConfigPart /\ DeliveryPart /\ FlightPart /\ BoundPart
  BY DEF OutboxInv
<1>1. UNCHANGED <<jobs, ready, observed, channels, subscription>>
  BY DEF storeVars
<1>2. JobPart' /\ ConfigPart' /\ DeliveryPart' /\ BoundPart'
  <2>1. DeliveryPart' /\ BoundPart'
    BY <1>0, <1>1 DEF DeliveryPart, RowFits, BoundPart
  <2>2. QED
    BY <1>0, <1>1, <2>1, JobsStay, ConfigStays
<1>3. PICK x : x = [f EXCEPT !.stage = "sent"]
  OBVIOUS
<1>4. FlightFits(f) /\ f \in Flight
  BY <1>0 DEF FlightPart, FlightFits
<1>5. /\ x \in Flight /\ x.key = f.key /\ x.attempts = f.attempts /\ x.naps = f.naps
      /\ x.left = f.left /\ x.revision = f.revision /\ x.stage = "sent"
  BY <1>3, <1>4 DEF Flight
<1>6. FlightFits(x)'
  <2>1. f.key \in DOMAIN deliveries => FitsRow(x, deliveries[f.key])
    BY <1>4, <1>5 DEF FlightFits, FitsRow
  <2>2. QED
    BY <1>1, <1>4, <1>5, <2>1 DEF FlightFits
<1>7. \A y \in flights' : y = x \/ (y \in flights /\ y # f)
  BY <1>3
<1>8. \A y \in flights' : FlightFits(y)'
  <2>1. ASSUME NEW y \in flights PROVE FlightFits(y)'
    BY <1>0, <1>1 DEF FlightPart, FlightFits
  <2>2. QED
    BY <1>6, <1>7, <2>1
<1>9. IsFiniteSet(flights') /\ Cardinality(flights') <= Slots
  <2>1. IsFiniteSet(flights) /\ Cardinality(flights) \in Nat /\ Cardinality(flights) <= 2
    BY <1>0, FS_CardinalityType DEF FlightPart, Slots
  <2>2. IsFiniteSet(flights \ {f}) /\ Cardinality(flights \ {f}) = Cardinality(flights) - 1
    BY <2>1, FS_RemoveElement
  <2>3. x \notin flights \ {f}
    <3>1. x \in flights => x = f
      BY <1>0, <1>5 DEF FlightPart
    <3>2. QED
      BY <3>1
  <2>4. /\ IsFiniteSet((flights \ {f}) \cup {x})
        /\ Cardinality((flights \ {f}) \cup {x}) = Cardinality(flights \ {f}) + 1
    BY <2>2, <2>3, FS_AddElement
  <2>5. QED
    BY <1>3, <2>1, <2>2, <2>4 DEF Slots
<1>10. \A y \in flights' : \E g \in flights :
          y.key = g.key /\ y.attempts = g.attempts /\ g.naps <= y.naps
  <2>1. \A g \in flights : g.naps <= g.naps
    BY <1>0 DEF FlightPart, FlightFits, Flight
  <2>2. QED
    BY <1>5, <1>7, <2>1
<1>11. \A y, z \in flights' : y.key = z.key /\ y.attempts = z.attempts => y = z
  <2>1. \A y \in flights : y # f => ~(y.key = x.key /\ y.attempts = x.attempts)
    BY <1>0, <1>5 DEF FlightPart
  <2>2. \A y, z \in flights : y.key = z.key /\ y.attempts = z.attempts => y = z
    BY <1>0 DEF FlightPart
  <2>3. QED
    BY <1>7, <2>1, <2>2
<1>12. FlightPart'
  <2>1. worker' \in {"idle", "reconcile", "claim"}
    OBVIOUS
  <2>2. QED
    BY <1>0, <1>8, <1>9, <1>10, <1>11, <2>1, FlightsGoOn
<1>13. QED
  BY <1>2, <1>12 DEF OutboxInv

\* The steps of a send.
LEMMA SendInv == OutboxInv /\ SendStep => OutboxInv'
<1> SUFFICES ASSUME OutboxInv, SendStep PROVE OutboxInv'
  OBVIOUS
<1>1. PICK f \in flights : \/ Transmit(f)
                           \/ \E result \in {"success", "retryable", "permanent"},
                                 after \in {0, MaxDelay} : Settle(f, result, after)
  BY DEF SendStep
<1>2. CASE Transmit(f) /\ CanSend(f)
  BY <1>2, SendGoesOn DEF Transmit
<1>3. CASE Transmit(f) /\ ~CanSend(f)
  BY <1>3, SendEnds DEF Transmit
<1>4. ASSUME NEW result, NEW after, Settle(f, result, after) PROVE OutboxInv'
  BY <1>4, SendEnds DEF Settle
<1>5. QED
  BY <1>1, <1>2, <1>3, <1>4

\* An outcome is lost: the row is left to its lease.
LEMMA LoseOutcomeInv == \A f \in flights : OutboxInv /\ LoseOutcome(f) => OutboxInv'
<1> SUFFICES ASSUME NEW f \in flights, OutboxInv, LoseOutcome(f) PROVE OutboxInv'
  OBVIOUS
<1>0. JobPart /\ ConfigPart /\ DeliveryPart /\ FlightPart /\ BoundPart
  BY DEF OutboxInv
<1>1. /\ UNCHANGED <<jobs, ready, observed, channels, subscription, deliveries, worker, edits>>
      /\ flights' = flights \ {f} /\ worker = "idle" /\ faults < MaxFaults /\ faults' = faults + 1
  BY DEF LoseOutcome, storeVars
<1>2. \A g \in flights' : FlightFits(g)'
  BY <1>0, <1>1 DEF FlightPart, FlightFits
<1>3. worker' \in {"idle", "reconcile", "claim"} /\ flights' \subseteq flights
  BY <1>1
<1>4. JobPart' /\ ConfigPart' /\ FlightPart'
  BY <1>0, <1>1, <1>2, <1>3, JobsStay, ConfigStays, FlightsLeave
<1>5. DeliveryPart' /\ BoundPart'
  BY <1>0, <1>1, OutboxAssumption DEF DeliveryPart, RowFits, BoundPart
<1>6. QED
  BY <1>4, <1>5 DEF OutboxInv

\* A crash leaves the tables.
LEMMA CrashInv == OutboxInv /\ Crash => OutboxInv'
<1> SUFFICES ASSUME OutboxInv, Crash PROVE OutboxInv'
  OBVIOUS
<1>0. JobPart /\ ConfigPart /\ DeliveryPart /\ FlightPart /\ BoundPart
  BY DEF OutboxInv
<1>1. /\ UNCHANGED <<jobs, ready, observed, channels, subscription, deliveries, edits>>
      /\ flights' = {} /\ worker' = "idle" /\ faults < MaxFaults /\ faults' = faults + 1
  BY DEF Crash, storeVars
<1>2. JobPart' /\ ConfigPart' /\ FlightPart'
  <2>1. \A g \in flights' : FlightFits(g)'
    BY <1>1
  <2>2. worker' \in {"idle", "reconcile", "claim"} /\ flights' \subseteq flights
    BY <1>1
  <2>3. QED
    BY <1>0, <1>1, <2>1, <2>2, JobsStay, ConfigStays, FlightsLeave
<1>3. DeliveryPart' /\ BoundPart'
  BY <1>0, <1>1, OutboxAssumption DEF DeliveryPart, RowFits, BoundPart
<1>4. QED
  BY <1>2, <1>3 DEF OutboxInv
-----------------------------------------------------------------------------
(* Time. *)

\* Every delivery and every send moves in time at once: the sends are the same ones.
LEMMA TimeInv ==
    ASSUME OutboxInv, worker = "idle", UNCHANGED <<storeVars, worker>>,
           NEW moved \in [flights -> flights'], \A x \in flights' : \E f \in flights : moved[f] = x,
           \A f \in flights : /\ moved[f] \in Flight /\ moved[f].key = f.key
                              /\ moved[f].attempts = f.attempts /\ f.naps <= moved[f].naps
                              /\ moved[f].stage = f.stage
                              /\ moved[f].naps > 0 => moved[f].left = 0
                              /\ f.key \in DOMAIN deliveries => FitsRow(moved[f], deliveries'[f.key]),
           DOMAIN deliveries' = DOMAIN deliveries,
           \A k \in DOMAIN deliveries : /\ deliveries'[k] \in Row
                                        /\ deliveries'[k].revision = deliveries[k].revision
    PROVE  JobPart' /\ ConfigPart' /\ DeliveryPart' /\ FlightPart'
<1>0. JobPart /\ ConfigPart /\ DeliveryPart /\ FlightPart
  BY DEF OutboxInv
<1>1. UNCHANGED <<jobs, ready, observed, channels, subscription>>
  BY DEF storeVars
<1>2. JobPart' /\ ConfigPart'
  BY <1>0, <1>1, JobsStay, ConfigStays
<1>3. DeliveryPart'
  <2>1. ASSUME NEW k \in DOMAIN deliveries'
        PROVE  deliveries'[k] \in Row /\ deliveries'[k].revision <= channels'[k[2]].revision
    BY <1>0, <1>1 DEF DeliveryPart, RowFits
  <2>2. QED
    BY <1>0, <1>1, <2>1, RowsStay
<1>4. \A x \in flights' : \E f \in flights : x = moved[f]
  OBVIOUS
<1>5. ASSUME NEW x \in flights' PROVE FlightFits(x)'
  <2>1. PICK f \in flights : x = moved[f]
    BY <1>4
  <2>2. FlightFits(f) /\ f.stage # "done"
    BY <1>0 DEF FlightPart, FlightFits
  <2>3. /\ x \in Flight /\ x.key = f.key /\ x.attempts = f.attempts /\ f.naps <= x.naps
        /\ x.stage = f.stage /\ (x.naps > 0 => x.left = 0)
        /\ f.key \in DOMAIN deliveries => FitsRow(x, deliveries'[f.key])
    BY <2>1
  <2>4. x.naps = 0 => f.naps = 0
    <3>1. f \in Flight
      BY <2>2 DEF FlightFits
    <3>2. f.naps \in 0..2
      BY <3>1 DEF Flight, Naps
    <3>3. QED
      BY <2>3, <3>2
  <2>5. QED
    BY <1>1, <2>2, <2>3, <2>4 DEF FlightFits
<1>6. IsFiniteSet(flights') /\ Cardinality(flights') <= Slots
  <2>1. IsFiniteSet(flights)
    BY <1>0 DEF FlightPart
  <2>2. IsFiniteSet(flights') /\ Cardinality(flights') <= Cardinality(flights)
    <3>1. PICK S, T : S = flights /\ T = flights'
      OBVIOUS
    <3>2. IsFiniteSet(T) /\ Cardinality(T) <= Cardinality(S)
      BY <2>1, <3>1, ImageIsFinite
    <3>3. QED
      BY <3>1, <3>2
  <2>3. Cardinality(flights) \in Nat /\ Cardinality(flights') \in Nat
    BY <2>1, <2>2, FS_CardinalityType
  <2>4. QED
    BY <1>0, <2>2, <2>3 DEF FlightPart, Slots
<1>7. \A x \in flights' : \E f \in flights :
          x.key = f.key /\ x.attempts = f.attempts /\ f.naps <= x.naps
  BY <1>4
<1>8. \A x, y \in flights' : x.key = y.key /\ x.attempts = y.attempts => x = y
  <2>1. SUFFICES ASSUME NEW x \in flights', NEW y \in flights', x.key = y.key, x.attempts = y.attempts
                 PROVE  x = y
    OBVIOUS
  <2>2. PICK f \in flights : x = moved[f]
    BY <1>4
  <2>3. PICK g \in flights : y = moved[g]
    BY <1>4
  <2>4. f.key = g.key /\ f.attempts = g.attempts
    BY <2>1, <2>2, <2>3
  <2>5. f = g
    BY <1>0, <2>4 DEF FlightPart
  <2>6. QED
    BY <2>2, <2>3, <2>5
<1>9. FlightPart'
  <2>1. worker' \in {"idle", "reconcile", "claim"}
    OBVIOUS
  <2>2. QED
    BY <1>0, <1>5, <1>6, <1>7, <1>8, <2>1, FlightsGoOn
<1>10. QED
  BY <1>2, <1>3, <1>9

\* Thirty seconds pass: a send under way has not been suspended.
LEMMA TimePassesInv == OutboxInv /\ TimePasses => OutboxInv'
<1> SUFFICES ASSUME OutboxInv, TimePasses PROVE OutboxInv'
  OBVIOUS
<1>0. DeliveryPart /\ FlightPart /\ BoundPart
  BY DEF OutboxInv
<1>1. /\ UNCHANGED <<storeVars, worker, edits, faults>> /\ worker = "idle"
      /\ \A f \in flights : f.left > 0
      /\ flights' = {[f EXCEPT !.left = Less(@)] : f \in flights}
  BY DEF TimePasses
<1>2. /\ DOMAIN deliveries' = DOMAIN deliveries
      /\ \A k \in DOMAIN deliveries :
           deliveries'[k] = [deliveries[k] EXCEPT !.next = Less(@), !.lease = Less(@)]
  BY DEF TimePasses
<1>3. \A k \in DOMAIN deliveries : deliveries[k] \in Row
  BY <1>0 DEF DeliveryPart, RowFits
<1>4. ASSUME NEW k \in DOMAIN deliveries
      PROVE  deliveries'[k] \in Row /\ deliveries'[k].revision = deliveries[k].revision
  <2>1. PICK n, l : n = Less(deliveries[k].next) /\ l = Less(deliveries[k].lease)
    OBVIOUS
  <2>2. n \in 0..MaxDelay /\ l \in 0..Lease
    BY <1>3, <2>1, OutboxAssumption DEF Row, Lease, Less
  <2>3. deliveries'[k] = [deliveries[k] EXCEPT !.next = n, !.lease = l]
    BY <1>2, <2>1
  <2>4. QED
    BY <1>3, <2>2, <2>3 DEF Row
<1>5. PICK moved \in [flights -> flights'] :
        \A f \in flights : moved[f] = [f EXCEPT !.left = Less(@)]
  <2>1. [f \in flights |-> [f EXCEPT !.left = Less(@)]] \in [flights -> flights']
    BY <1>1
  <2>2. QED
    BY <2>1, Zenon
<1>6. \A x \in flights' : \E f \in flights : moved[f] = x
  BY <1>1, <1>5
<1>7. ASSUME NEW f \in flights
      PROVE  /\ moved[f] \in Flight /\ moved[f].key = f.key /\ moved[f].attempts = f.attempts
             /\ f.naps <= moved[f].naps /\ moved[f].stage = f.stage
             /\ moved[f].naps > 0 => moved[f].left = 0
             /\ f.key \in DOMAIN deliveries => FitsRow(moved[f], deliveries'[f.key])
  <2>1. f \in Flight /\ f.stage # "done" /\ (f.naps > 0 => f.left = 0) /\ FlightFits(f)
    BY <1>0, <1>1 DEF FlightPart, FlightFits
  <2>2. f.left = 1 /\ f.naps = 0
    BY <1>1, <2>1 DEF Flight, Timeout, Naps
  <2>3. moved[f] = [f EXCEPT !.left = 0]
    BY <1>5, <2>2 DEF Less
  <2>4. /\ moved[f] \in Flight /\ moved[f].key = f.key /\ moved[f].attempts = f.attempts
        /\ moved[f].naps = 0 /\ moved[f].stage = f.stage /\ moved[f].left = 0
    BY <2>1, <2>2, <2>3 DEF Flight, Timeout
  <2>5. ASSUME f.key \in DOMAIN deliveries PROVE FitsRow(moved[f], deliveries'[f.key])
    <3>1. FitsRow(f, deliveries[f.key])
      BY <2>1, <2>5 DEF FlightFits
    <3>2. FitsRow([f EXCEPT !.left = Less(@)],
                  [deliveries[f.key] EXCEPT !.next = Less(@), !.lease = Less(@)])
      BY <1>1, <1>3, <2>1, <2>5, <3>1, FitsAged
    <3>3. QED
      BY <1>2, <1>5, <2>5, <3>2
  <2>6. QED
    BY <2>2, <2>4, <2>5
<1>8. JobPart' /\ ConfigPart' /\ DeliveryPart' /\ FlightPart'
  <2>1. UNCHANGED <<storeVars, worker>>
    BY <1>1
  <2>2. QED
    BY <1>1, <1>2, <1>4, <1>6, <1>7, <2>1, TimeInv
<1>9. QED
  BY <1>0, <1>1, <1>8 DEF OutboxInv, BoundPart

\* A suspension is counted by every send it meets.
LEMMA SuspendInv == OutboxInv /\ Suspend => OutboxInv'
<1> SUFFICES ASSUME OutboxInv, Suspend PROVE OutboxInv'
  OBVIOUS
<1>0. DeliveryPart /\ FlightPart /\ BoundPart
  BY DEF OutboxInv
<1>1. /\ UNCHANGED <<storeVars, worker, edits>> /\ worker = "idle" /\ faults < MaxFaults /\ faults' = faults + 1
      /\ flights' = {[f EXCEPT !.left = 0, !.naps = Capped(@ + 1, Naps)] : f \in flights}
  BY DEF Suspend
<1>2. /\ DOMAIN deliveries' = DOMAIN deliveries
      /\ \A k \in DOMAIN deliveries : deliveries'[k] = [deliveries[k] EXCEPT !.next = 0, !.lease = 0]
  BY DEF Suspend
<1>3. \A k \in DOMAIN deliveries : deliveries[k] \in Row
  BY <1>0 DEF DeliveryPart, RowFits
<1>4. ASSUME NEW k \in DOMAIN deliveries
      PROVE  deliveries'[k] \in Row /\ deliveries'[k].revision = deliveries[k].revision
  <2>1. 0 \in 0..MaxDelay /\ 0 \in 0..Lease
    BY OutboxAssumption DEF Lease
  <2>2. QED
    BY <1>2, <1>3, <2>1 DEF Row
<1>5. PICK moved \in [flights -> flights'] :
        \A f \in flights : moved[f] = [f EXCEPT !.left = 0, !.naps = Capped(@ + 1, Naps)]
  <2>1. [f \in flights |-> [f EXCEPT !.left = 0, !.naps = Capped(@ + 1, Naps)]] \in [flights -> flights']
    BY <1>1
  <2>2. QED
    BY <2>1, Zenon
<1>6. \A x \in flights' : \E f \in flights : moved[f] = x
  BY <1>1, <1>5
<1>7. ASSUME NEW f \in flights
      PROVE  /\ moved[f] \in Flight /\ moved[f].key = f.key /\ moved[f].attempts = f.attempts
             /\ f.naps <= moved[f].naps /\ moved[f].stage = f.stage
             /\ moved[f].naps > 0 => moved[f].left = 0
             /\ f.key \in DOMAIN deliveries => FitsRow(moved[f], deliveries'[f.key])
  <2>1. f \in Flight /\ f.stage # "done" /\ FlightFits(f)
    BY <1>0, <1>1 DEF FlightPart, FlightFits
  <2>2. PICK m : m = Capped(f.naps + 1, Naps)
    OBVIOUS
  <2>3. m \in 0..Naps /\ f.naps <= m /\ 0 \in 0..Timeout
    BY <2>1, <2>2 DEF Flight, Naps, Capped, Timeout
  <2>4. moved[f] = [f EXCEPT !.left = 0, !.naps = m]
    BY <1>5, <2>2
  <2>5. /\ moved[f] \in Flight /\ moved[f].key = f.key /\ moved[f].attempts = f.attempts
        /\ moved[f].naps = m /\ moved[f].stage = f.stage /\ moved[f].left = 0
    BY <2>1, <2>3, <2>4 DEF Flight
  <2>6. ASSUME f.key \in DOMAIN deliveries PROVE FitsRow(moved[f], deliveries'[f.key])
    <3>1. FitsRow(f, deliveries[f.key])
      BY <2>1, <2>6 DEF FlightFits
    <3>2. FitsRow([f EXCEPT !.left = 0, !.naps = Capped(@ + 1, Naps)],
                  [deliveries[f.key] EXCEPT !.next = 0, !.lease = 0])
      BY <1>3, <2>1, <2>6, <3>1, FitsAsleep
    <3>3. QED
      BY <1>2, <1>5, <2>6, <3>2
  <2>7. QED
    BY <2>3, <2>5, <2>6
<1>8. JobPart' /\ ConfigPart' /\ DeliveryPart' /\ FlightPart'
  <2>1. UNCHANGED <<storeVars, worker>>
    BY <1>1
  <2>2. QED
    BY <1>1, <1>2, <1>4, <1>6, <1>7, <2>1, TimeInv
<1>9. BoundPart'
  <2>1. faults < MaxFaults /\ faults' = faults + 1 /\ edits' = edits
    BY <1>1, Zenon
  <2>2. QED
    BY <1>0, <2>1, OutboxAssumption DEF BoundPart
<1>10. QED
  BY <1>8, <1>9 DEF OutboxInv
-----------------------------------------------------------------------------
(* The theorems. *)

\* Every step preserves the invariant.
LEMMA NextInv == OutboxInv /\ [Next]_vars => OutboxInv'
<1> SUFFICES ASSUME OutboxInv, [Next]_vars PROVE OutboxInv'
  OBVIOUS
<1>1. CASE Job
  BY <1>1, JobInv
<1>2. CASE Edit
  BY <1>2, EditInv
<1>3. CASE StartTick
  BY <1>3, StartTickInv
<1>4. CASE ReconcileStep
  BY <1>4, ReconcileInv
<1>5. CASE MaintenanceStep
  BY <1>5, MaintenanceInv
<1>6. CASE ClaimStep
  BY <1>6, ClaimInv
<1>7. CASE EndTick
  BY <1>7, EndTickInv
<1>8. CASE \E c \in Channels : TestChannel(c)
  BY <1>8, TestChannelInv
<1>9. CASE \E k \in DOMAIN deliveries : Retry(k)
  BY <1>9, RetryInv
<1>10. CASE SendStep
  BY <1>10, SendInv
<1>11. CASE TimePasses
  BY <1>11, TimePassesInv
<1>12. CASE Suspend
  BY <1>12, SuspendInv
<1>13. CASE Crash
  BY <1>13, CrashInv
<1>14. CASE \E f \in flights : LoseOutcome(f)
  BY <1>14, LoseOutcomeInv
<1>15. CASE UNCHANGED vars
  <2>1. UNCHANGED <<jobs, ready, observed, channels, subscription, deliveries, worker, flights, edits, faults>>
    BY <1>15 DEF vars, storeVars
  <2>2. JobPart' /\ ConfigPart'
    BY <2>1, JobsStay, ConfigStays DEF OutboxInv
  <2>3. DeliveryPart' /\ BoundPart'
    BY <2>1 DEF OutboxInv, DeliveryPart, RowFits, BoundPart
  <2>4. FlightPart'
    BY <2>1, FlightsStay DEF OutboxInv, FlightPart
  <2>5. QED
    BY <2>2, <2>3, <2>4 DEF OutboxInv
<1>16. QED
  BY <1>1, <1>2, <1>3, <1>4, <1>5, <1>6, <1>7, <1>8, <1>9, <1>10, <1>11, <1>12, <1>13, <1>14,
     <1>15, Zenon DEF Next

\* The invariant holds in every state the outbox can be in: outcomes, configuration, deliveries
\* and sends under way stay in step through edits, ticks, crashes, suspensions and lost writes.
THEOREM OutboxInvHolds == Spec => []OutboxInv
<1>1. Init => OutboxInv
  BY InitInv
<1>2. OutboxInv /\ [Next]_vars => OutboxInv'
  BY NextInv
<1>3. QED
  BY <1>1, <1>2, PTL DEF Spec

\* The tables, the tick and the sends keep their types; a delivery's counters stay within its
\* limits of attempts, of attempts in a row and of manual retries, and two sends at most are
\* under way (claim, finish, retry).
THEOREM OutboxTypes == Spec => []TypeOK
<1>1. OutboxInv => TypeOK
  <2> SUFFICES ASSUME OutboxInv PROVE TypeOK
    OBVIOUS
  <2>1. jobs \in [Jobs -> JobRow] /\ ready \in [Jobs -> BOOLEAN] /\ observed \subseteq Jobs \X Outcomes
    BY DEF OutboxInv, JobPart
  <2>2. channels \in [Channels -> ChannelRow] /\ subscription \in Subscriptions
    BY DEF OutboxInv, ConfigPart
  <2>3. DOMAIN deliveries \subseteq Events \X Channels /\ \A k \in DOMAIN deliveries : deliveries[k] \in Row
    BY DEF OutboxInv, DeliveryPart, RowFits
  <2>4. /\ flights \subseteq Flight /\ Cardinality(flights) <= Slots
        /\ worker \in {"idle", "reconcile", "claim"}
    BY DEF OutboxInv, FlightPart, FlightFits
  <2>5. edits \in 0..MaxEdits /\ faults \in 0..MaxFaults
    BY DEF OutboxInv, BoundPart
  <2>6. QED
    BY <2>1, <2>2, <2>3, <2>4, <2>5, Zenon DEF TypeOK, JobRow, ChannelRow, Subscriptions
<1>2. QED
  BY <1>1, OutboxInvHolds, PTL

\* One delivery is sent by one promise at a time, unless its host slept twice during the send:
\* the lease outlasts the send's timeout, and a lease that ran out in a suspension is taken over
\* 30 seconds later (claim).
THEOREM OneSender == Spec => []OneTransmissionAtATime
<1>1. OutboxInv => OneTransmissionAtATime
  BY DEF OutboxInv, FlightPart
<1>2. QED
  BY <1>1, OutboxInvHolds, PTL

\* A recovery test is announced with one outcome, the one it keeps (reconcile and its wait for
\* the cleanup).
THEOREM OneVerdict == Spec => []OneVerdictPerTest
<1>1. OutboxInv => OneVerdictPerTest
  <2> SUFFICES ASSUME OutboxInv, NEW r \in RecoveryTests
               PROVE  Cardinality({o \in observed : o[1] = r}) <= 1
    BY DEF OneVerdictPerTest
  <2>1. PICK S : S = {o \in observed : o[1] = r}
    OBVIOUS
  <2>2. PICK v : v = <<r, jobs[r].status>>
    OBVIOUS
  <2>3. S \subseteq {v}
    <3>1. ASSUME NEW o \in S PROVE o = v
      <4>1. o \in observed /\ o[1] = r
        BY <2>1
      <4>2. o \in Jobs \X Outcomes /\ o[2] = jobs[r].status
        BY <4>1 DEF OutboxInv, JobPart
      <4>3. QED
        BY <2>2, <4>1, <4>2
    <3>2. QED
      BY <3>1
  <2>4. IsFiniteSet({v}) /\ Cardinality({v}) = 1
    BY FS_Singleton
  <2>5. Cardinality(S) <= Cardinality({v})
    BY <2>3, <2>4, FS_Subset
  <2>6. QED
    BY <2>1, <2>4, <2>5
<1>2. QED
  BY <1>1, OutboxInvHolds, PTL

\* Only reconciliation announces outcomes.
LEMMA OnlyReconcileObserves == [Next]_vars /\ observed' # observed => ReconcileStep
<1> SUFFICES ASSUME [Next]_vars, ~ReconcileStep PROVE observed' = observed
  OBVIOUS
<1>1. CASE Job
  BY <1>1 DEF Job, InsertJob, EndJob, CompleteLate, EndUncleaned, CompleteCleanup
<1>2. CASE Edit \/ StartTick \/ EndTick \/ TimePasses \/ Suspend \/ Crash
  BY <1>2, Zenon DEF Edit, StartTick, EndTick, TimePasses, Suspend, Crash, storeVars
<1>3. CASE MaintenanceStep \/ ClaimStep
  BY <1>3, Zenon DEF MaintenanceStep, Maintenance, ClaimStep, Claim, storeVars
<1>4. CASE \/ \E c \in Channels : TestChannel(c)
           \/ \E k \in DOMAIN deliveries : Retry(k)
           \/ \E f \in flights : LoseOutcome(f)
  BY <1>4, Zenon DEF TestChannel, Retry, LoseOutcome, storeVars
<1>5. CASE SendStep
  BY <1>5, Zenon DEF SendStep, Transmit, Settle, storeVars
<1>6. CASE UNCHANGED vars
  BY <1>6, Zenon DEF vars, storeVars
<1>7. QED
  BY <1>1, <1>2, <1>3, <1>4, <1>5, <1>6, Zenon DEF Next

\* No outcome is ticked off without a delivery for each of its subscribers, or past the limit of
\* the queue (reconcile).
THEOREM NothingDropped == Spec => NoOutcomeDropped
<1> DEFINE A == \A o \in observed' \ observed :
                  /\ \A c \in Audience(o[1]) : <<o, c>> \in DOMAIN deliveries'
                  /\ Cardinality(Waiting(deliveries')) <= MaxPending
<1>1. OutboxInv /\ [Next]_vars => [A]_vars
  <2> SUFFICES ASSUME OutboxInv, [Next]_vars, NEW o \in observed' \ observed
               PROVE  /\ \A c \in Audience(o[1]) : <<o, c>> \in DOMAIN deliveries'
                      /\ Cardinality(Waiting(deliveries')) <= MaxPending
    OBVIOUS
  <2>1. ReconcileStep
    BY OnlyReconcileObserves
  <2>2. PICK j \in Jobs : Reconcile(j)
    BY <2>1 DEF ReconcileStep
  <2>3. PICK e : e = <<j, jobs[j].status>>
    OBVIOUS
  <2>4. /\ Fits(Audience(j)) /\ InsertEvent(e, Audience(j)) /\ observed' = observed \cup {e}
    BY <2>2, <2>3 DEF Reconcile
  <2>5. o = e /\ o[1] = j
    BY <2>3, <2>4
  <2>6. PICK chosen \in SUBSET Channels : chosen = Audience(j)
    <3>1. subscription.channels \subseteq Channels
      BY DEF OutboxInv, ConfigPart, Subscriptions
    <3>2. Audience(j) \subseteq Channels
      BY <3>1 DEF Audience
    <3>3. QED
      BY <3>2
  <2>7. PICK New, Old, All : /\ New = DOMAIN deliveries' \ DOMAIN deliveries
                             /\ Old = Waiting(deliveries) /\ All = Waiting(deliveries')
    OBVIOUS
  <2>8. /\ \A c \in chosen : <<e, c>> \in DOMAIN deliveries'
        /\ DOMAIN deliveries \subseteq DOMAIN deliveries'
        /\ \A k \in DOMAIN deliveries : deliveries'[k] = deliveries[k]
        /\ IsFiniteSet(chosen) /\ IsFiniteSet(New) /\ Cardinality(New) <= Cardinality(chosen)
    BY <2>4, <2>6, <2>7, InsertEventIs
  <2>9. All \subseteq Old \cup New
    BY <2>7, <2>8 DEF Waiting
  <2>10. IsFiniteSet(Old)
    <3>1. Old \subseteq DOMAIN deliveries
      BY <2>7 DEF Waiting
    <3>2. QED
      BY <3>1, FS_Subset DEF OutboxInv, DeliveryPart
  <2>11. Cardinality(Old) + Cardinality(chosen) <= MaxPending
    BY <2>4, <2>6, <2>7 DEF Fits
  <2>12. Cardinality(All) <= MaxPending
    <3>1. IsFiniteSet(Old \cup New) /\ IsFiniteSet(Old \cap New)
      BY <2>8, <2>10, FS_Union, FS_Intersection
    <3>2. Cardinality(Old \cup New) = Cardinality(Old) + Cardinality(New) - Cardinality(Old \cap New)
      BY <2>8, <2>10, FS_Union
    <3>3. IsFiniteSet(All) /\ Cardinality(All) <= Cardinality(Old \cup New)
      BY <2>9, <3>1, FS_Subset
    <3>4. /\ Cardinality(All) \in Nat /\ Cardinality(Old) \in Nat /\ Cardinality(New) \in Nat
          /\ Cardinality(chosen) \in Nat /\ Cardinality(Old \cap New) \in Nat
          /\ Cardinality(Old \cup New) \in Nat
      BY <2>8, <2>10, <3>1, <3>3, FS_CardinalityType
    <3>5. MaxPending \in Nat
      BY OutboxAssumption
    <3>6. QED
      BY <2>8, <2>11, <3>2, <3>3, <3>4, <3>5
  <2>13. QED
    BY <2>5, <2>6, <2>7, <2>8, <2>12
<1>2. QED
  BY <1>1, OutboxInvHolds, PTL DEF Spec, NoOutcomeDropped

\* A send is marked as sent by its own step, after one more look at the configuration.
LEMMA OnlyTransmitSends ==
    ASSUME OutboxInv, [Next]_vars, NEW f \in flights, f.stage = "resolving",
           [f EXCEPT !.stage = "sent"] \in flights'
    PROVE  CanSend(f)
<1>0. \A g, h \in flights : g.key = h.key /\ g.attempts = h.attempts => g = h
  BY DEF OutboxInv, FlightPart
<1>1. \A g \in flights : g \in Flight
  BY DEF OutboxInv, FlightPart, FlightFits
<1>2. PICK x \in flights' : x = [f EXCEPT !.stage = "sent"]
  OBVIOUS
<1>3. x.key = f.key /\ x.attempts = f.attempts /\ x.stage = "sent"
  BY <1>1, <1>2 DEF Flight
<1>4. x \notin flights
  BY <1>0, <1>3
<1>5. CASE flights' \subseteq flights
  BY <1>4, <1>5
<1>6. CASE ClaimStep
  <2>1. PICK k \in DOMAIN deliveries : Claim(k)
    BY <1>6 DEF ClaimStep
  <2>2. PICK g : flights' = flights \cup {g} /\ g.stage \in {"resolving", "done"}
    BY <2>1, ClaimIs
  <2>3. QED
    BY <1>3, <1>4, <2>2
<1>7. CASE TimePasses
  <2>1. PICK g \in flights : x = [g EXCEPT !.left = Less(@)]
    BY <1>7 DEF TimePasses
  <2>2. x.key = g.key /\ x.attempts = g.attempts /\ x.stage = g.stage
    BY <1>1, <2>1 DEF Flight
  <2>3. QED
    BY <1>0, <1>3, <2>2
<1>8. CASE Suspend
  <2>1. PICK g \in flights : x = [g EXCEPT !.left = 0, !.naps = Capped(@ + 1, Naps)]
    BY <1>8 DEF Suspend
  <2>2. x.key = g.key /\ x.attempts = g.attempts /\ x.stage = g.stage
    BY <1>1, <2>1 DEF Flight
  <2>3. QED
    BY <1>0, <1>3, <2>2
<1>9. CASE SendStep
  <2>1. PICK g \in flights : \/ Transmit(g)
                             \/ \E result \in {"success", "retryable", "permanent"},
                                   after \in {0, MaxDelay} : Settle(g, result, after)
    BY <1>9 DEF SendStep
  <2>2. \/ flights' = flights \ {g}
        \/ CanSend(g) /\ flights' = (flights \ {g}) \cup {[g EXCEPT !.stage = "sent"]}
    BY <2>1, Zenon DEF Transmit, Settle
  <2>3. CASE flights' = flights \ {g}
    BY <1>4, <2>3
  <2>4. CASE CanSend(g) /\ flights' = (flights \ {g}) \cup {[g EXCEPT !.stage = "sent"]}
    <3>1. x = [g EXCEPT !.stage = "sent"]
      BY <1>4, <2>4
    <3>2. x.key = g.key /\ x.attempts = g.attempts
      BY <1>1, <3>1 DEF Flight
    <3>3. f = g
      BY <1>0, <1>3, <3>2
    <3>4. QED
      BY <2>4, <3>3
  <2>5. QED
    BY <2>2, <2>3, <2>4
<1>10. CASE EndTick \/ Crash \/ \E g \in flights : LoseOutcome(g)
  <2>1. flights' \subseteq flights
    <3>1. CASE EndTick
      BY <3>1 DEF EndTick
    <3>2. CASE Crash
      BY <3>2 DEF Crash
    <3>3. CASE \E g \in flights : LoseOutcome(g)
      BY <3>3 DEF LoseOutcome
    <3>4. QED
      BY <1>10, <3>1, <3>2, <3>3
  <2>2. QED
    BY <1>5, <2>1
<1>11. CASE \/ Job \/ Edit \/ StartTick \/ ReconcileStep \/ MaintenanceStep
            \/ \E c \in Channels : TestChannel(c)
            \/ \E k \in DOMAIN deliveries : Retry(k)
            \/ UNCHANGED vars
  <2>1. flights' = flights
    BY <1>11, Zenon DEF Job, Edit, StartTick, ReconcileStep, MaintenanceStep, Maintenance, TestChannel,
                        Retry, vars
  <2>2. QED
    BY <1>5, <2>1
<1>12. QED
  BY <1>6, <1>7, <1>8, <1>9, <1>10, <1>11, Zenon DEF Next

\* A message goes out only to a channel that is enabled and subscribed, under the revision its
\* delivery was queued with, at the moment it goes out (canSend after the name is resolved).
THEOREM SentLive == Spec => SentUnderLiveConfiguration
<1> DEFINE A == \A f \in flights :
                  f.stage = "resolving" /\ [f EXCEPT !.stage = "sent"] \in flights' =>
                     /\ Usable(f.key[2]) /\ PolicyAllows(f.key)
                     /\ f.key \in DOMAIN deliveries =>
                          channels[f.key[2]].revision = deliveries[f.key].revision
<1>1. OutboxInv /\ [Next]_vars => [A]_vars
  <2> SUFFICES ASSUME OutboxInv, [Next]_vars, NEW f \in flights, f.stage = "resolving",
                      [f EXCEPT !.stage = "sent"] \in flights'
               PROVE  /\ Usable(f.key[2]) /\ PolicyAllows(f.key)
                      /\ f.key \in DOMAIN deliveries =>
                           channels[f.key[2]].revision = deliveries[f.key].revision
    OBVIOUS
  <2>1. CanSend(f)
    BY OnlyTransmitSends
  <2>2. Usable(f.key[2]) /\ PolicyAllows(f.key) /\ channels[f.key[2]].revision = f.revision
    BY <2>1 DEF CanSend
  <2>3. ASSUME f.key \in DOMAIN deliveries
        PROVE  channels[f.key[2]].revision = deliveries[f.key].revision
    <3>1. f \in Flight /\ FitsRow(f, deliveries[f.key])
      BY <2>3 DEF OutboxInv, FlightPart, FlightFits
    <3>2. deliveries[f.key] \in Row /\ deliveries[f.key].revision <= channels[f.key[2]].revision
      BY <2>3 DEF OutboxInv, DeliveryPart, RowFits
    <3>3. f.revision <= deliveries[f.key].revision /\ f.revision \in Nat /\ deliveries[f.key].revision \in Nat
      BY <3>1, <3>2 DEF FitsRow, Flight, Row
    <3>4. QED
      BY <2>2, <3>2, <3>3
  <2>4. QED
    BY <2>2, <2>3
<1>2. QED
  BY <1>1, OutboxInvHolds, PTL DEF Spec, SentUnderLiveConfiguration
=============================================================================
