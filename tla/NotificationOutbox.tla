-------------------------- MODULE NotificationOutbox --------------------------
(***************************************************************************)
(* The durable outbox of outgoing notifications: the triggers that mark an  *)
(* ended backup or recovery test as ready, NotificationDeliveryStore, which *)
(* projects ready outcomes into one delivery per subscribed channel, and    *)
(* NotificationDeliveryManager, whose tick claims due deliveries under a    *)
(* lease and sends them while the administrator edits channels and          *)
(* subscriptions.                                                           *)
(*                                                                         *)
(* Time is kept as what is left: a delivery's next attempt, its lease and   *)
(* the send timeout count down in units of 30 seconds.  A tick is           *)
(* synchronous, so nothing but a crash comes between its transactions; a    *)
(* send waits twice, for the name server and for the receiver.              *)
(***************************************************************************)
EXTENDS Naturals, FiniteSets

CONSTANTS
    Backups, RecoveryTests,  \* rows whose outcome may be announced
    Channels,                \* notification_channels rows
    Filters,                 \* the sets of outcomes that may be chosen to notify of
    MaxPending,              \* maxPending: 10000 deliveries
    MaxCycle,                \* 5 attempts in a row
    MaxAttempts,             \* 20 attempts in all
    MaxManual,               \* 3 manual retries
    MaxDelay,                \* one hour: the longest delay before an attempt
    MaxJobs,                 \* bound: announced rows inserted
    MaxEdits,                \* bound: edits of channels and the subscription
    MaxFaults                \* bound: crashes, suspensions and lost writes

ASSUME OutboxAssumption ==
    /\ Backups \cap RecoveryTests = {}
    /\ {MaxPending, MaxManual, MaxJobs, MaxEdits, MaxFaults} \subseteq Nat
    /\ {MaxCycle, MaxAttempts, MaxDelay} \subseteq Nat \ {0}
    /\ IsFiniteSet(Channels)

VARIABLES
    jobs,          \* the rows announced: status, pending cleanup, order of insertion
    ready,         \* notification_sources.ready
    observed,      \* notification_observed: <<job, terminal status>>
    channels,      \* notification_channels
    subscription,  \* notification_subscriptions of the one plan
    deliveries,    \* notification_deliveries, keyed by <<event, channel>>
    worker,        \* where tick() is between its transactions
    flights,       \* NotificationDeliveryManager.active: the sends under way
    edits, faults

storeVars == <<jobs, ready, observed, channels, subscription>>
vars == <<storeVars, deliveries, worker, flights, edits, faults>>

Jobs     == Backups \cup RecoveryTests
\* cancelled is announced like failed, passed_with_warning like passed.
Ended(j) == IF j \in Backups THEN {"completed", "failed"} ELSE {"passed", "failed"}
Outcomes == {"completed", "passed", "failed"}
Test     == <<"test", "test">>     \* the event of a test delivery
Events   == (Jobs \X Outcomes) \cup {Test}
Slots    == 2                      \* sends at a time
Lease    == 2                      \* 60 seconds
Naps     == 2                      \* "more than once"
Timeout  == 1                      \* timeoutMs is at most 30 seconds
Pause    == 1                      \* 30 seconds

Row == [status : {"pending", "sending", "succeeded", "failed"},
        attempts : 0..MaxAttempts, cycle : 0..MaxCycle, manual : 0..MaxManual,
        next : 0..MaxDelay, lease : 0..Lease, revision : Nat]
Flight == [key : Events \X Channels, attempts : 1..MaxAttempts, cycle : 1..MaxCycle,
           revision : Nat, stage : {"resolving", "sent", "done"}, left : 0..Timeout,
           naps : 0..Naps]         \* history: suspensions since the claim

ASSUME FiltersAssumption == Filters \subseteq SUBSET Outcomes

Less(t)        == IF t = 0 THEN 0 ELSE t - 1
Capped(n, max) == IF n \in 0..max THEN n ELSE max
Larger(a, b)   == IF a < b THEN b ELSE a
-----------------------------------------------------------------------------
(* The announced rows and the triggers on them. *)

Terminal(j) == jobs[j].status \in Ended(j)

\* notification_sources ids count the inserted rows.
Floor == Cardinality({j \in Jobs : jobs[j].order > 0})

InsertJob(j) ==
    /\ jobs[j].order = 0 /\ Floor < MaxJobs
    /\ jobs' = [jobs EXCEPT ![j] = [@ EXCEPT !.status = "running", !.order = Floor + 1]]
    /\ UNCHANGED <<ready, observed, channels, subscription>>

\* A terminal status is written; the trigger fires when the status changes.
EndJob(j, s) ==
    /\ jobs[j].status = "running" /\ s \in Ended(j)
    /\ jobs' = [jobs EXCEPT ![j].status = s]
    /\ ready' = [ready EXCEPT ![j] = TRUE]
    /\ UNCHANGED <<observed, channels, subscription>>

\* The agent reports success for a backup that was recorded as failed.
CompleteLate(j) ==
    /\ j \in Backups /\ jobs[j].status = "failed"
    /\ jobs' = [jobs EXCEPT ![j].status = "completed"]
    /\ ready' = [ready EXCEPT ![j] = TRUE]
    /\ UNCHANGED <<observed, channels, subscription>>

\* A test that used an internal target ends as failed with
\* result.cleanup.infrastructure = false, also when all else went well.
EndUncleaned(j, success) ==
    /\ j \in RecoveryTests /\ jobs[j].status = "running"
    /\ jobs' = [jobs EXCEPT ![j] = [@ EXCEPT !.status = "failed", !.cleaned = FALSE,
                                              !.success = success]]
    /\ ready' = [ready EXCEPT ![j] = TRUE]
    /\ UNCHANGED <<observed, channels, subscription>>

\* reconcileInfrastructure: the removal receipt turns it into its real outcome.
CompleteCleanup(j) ==
    /\ j \in RecoveryTests /\ ~jobs[j].cleaned
    /\ jobs' = [jobs EXCEPT ![j] =
                  [@ EXCEPT !.cleaned = TRUE,
                            !.status = IF jobs[j].success THEN "passed" ELSE jobs[j].status]]
    /\ ready' = [ready EXCEPT ![j] = ready[j] \/ jobs[j].success]
    /\ UNCHANGED <<observed, channels, subscription>>

Job == /\ worker = "idle"
       /\ \E j \in Jobs :
            \/ InsertJob(j)
            \/ \E s \in Outcomes : EndJob(j, s)
            \/ CompleteLate(j)
            \/ \E success \in BOOLEAN : EndUncleaned(j, success)
            \/ CompleteCleanup(j)
       /\ UNCHANGED <<deliveries, worker, flights, edits, faults>>
-----------------------------------------------------------------------------
(* Channels and the subscription. *)

Usable(c) == channels[c].state = "live" /\ channels[c].enabled

SaveChannel(c, enabled, events) ==
    /\ channels[c].state \in {"new", "live"}
    /\ channels' = [channels EXCEPT ![c] =
         [state |-> "live", enabled |-> enabled, events |-> events,
          revision |-> IF @.state = "new" THEN 1 ELSE @.revision + 1,
          floor |-> IF @.state = "new" \/ (~@.enabled /\ enabled) THEN Floor ELSE @.floor]]
    /\ UNCHANGED subscription

DeleteChannel(c) ==
    /\ channels[c].state = "live"
    /\ channels' = [channels EXCEPT ![c] = [@ EXCEPT !.state = "deleted", !.enabled = FALSE,
                                                     !.revision = channels[c].revision + 1]]
    /\ subscription' = [subscription EXCEPT
         !.channels = @ \ {c},
         !.enabled = @ /\ subscription.channels # {c} /\ subscription.channels # {}]

SaveSubscription(enabled, chosen, events) ==
    /\ enabled => chosen # {} /\ events # {}
    /\ \A c \in chosen : channels[c].state = "live"
    /\ LET changed == \/ ~subscription.enabled
                      \/ subscription.channels # chosen
                      \/ subscription.events # events
       IN  subscription' = [enabled |-> enabled, channels |-> chosen, events |-> events,
                            floor |-> IF changed THEN Floor ELSE subscription.floor]
    /\ UNCHANGED channels

Edit == /\ worker = "idle" /\ edits < MaxEdits /\ edits' = edits + 1
        /\ \/ \E c \in Channels, enabled \in BOOLEAN, events \in Filters :
                SaveChannel(c, enabled, events)
           \/ \E c \in Channels : DeleteChannel(c)
           \/ \E enabled \in BOOLEAN, chosen \in SUBSET Channels, events \in Filters :
                SaveSubscription(enabled, chosen, events)
        /\ UNCHANGED <<jobs, ready, observed, deliveries, worker, flights, faults>>
-----------------------------------------------------------------------------
(* Projection of ready outcomes, history, test deliveries and retries. *)

Waiting(rows) == {k \in DOMAIN rows : rows[k].status \in {"pending", "sending"}}

NewRow(c) == [status |-> "pending", attempts |-> 0, cycle |-> 0, manual |-> 0,
              next |-> 0, lease |-> 0, revision |-> channels[c].revision]

InsertEvent(event, chosen) ==
    LET new == {<<event, c>> : c \in chosen} \ DOMAIN deliveries
    IN  deliveries' = [k \in DOMAIN deliveries \cup new |->
                         IF k \in new THEN NewRow(k[2]) ELSE deliveries[k]]

AnnounceableEarly(j) == ready[j] /\ Terminal(j)   \* mutant: pending cleanup is ignored

\* A test whose infrastructure is still to be removed is not announced yet.
Announceable(j) == ready[j] /\ Terminal(j) /\ jobs[j].cleaned

Audience(j) ==
    IF /\ subscription.enabled /\ subscription.floor < jobs[j].order
       /\ jobs[j].status \in subscription.events
    THEN {c \in subscription.channels :
            /\ Usable(c) /\ channels[c].floor < jobs[j].order
            /\ jobs[j].status \in channels[c].events}
    ELSE {}

FitsBefore(chosen) ==      \* mutant: the new deliveries are not counted
    Cardinality(Waiting(deliveries)) <= MaxPending

Fits(chosen) == Cardinality(Waiting(deliveries)) + Cardinality(chosen) <= MaxPending

\* The rows are taken in the order of their sources, up to the first that does
\* not fit; one step takes one of them.
First(j) == /\ Announceable(j)
            /\ \A i \in Jobs : Announceable(i) => jobs[i].order >= jobs[j].order

Reconcile(j) ==
    /\ First(j)
    /\ IF <<j, jobs[j].status>> \in observed
       THEN UNCHANGED <<observed, deliveries>>
       ELSE /\ Fits(Audience(j))
            /\ InsertEvent(<<j, jobs[j].status>>, Audience(j))
            /\ observed' = observed \cup {<<j, jobs[j].status>>}
    /\ ready' = [ready EXCEPT ![j] = FALSE]
    /\ UNCHANGED <<jobs, channels, subscription>>

Reconcilable(j) == First(j) /\ (<<j, jobs[j].status>> \in observed \/ Fits(Audience(j)))

StartTick == /\ worker = "idle"
             /\ worker' = "reconcile"
             /\ UNCHANGED <<storeVars, deliveries, flights, edits, faults>>

ReconcileStep == /\ worker = "reconcile" /\ \E j \in Jobs : Reconcile(j)
                 /\ UNCHANGED <<worker, flights, edits, faults>>

\* maintenance() deletes settled deliveries past 20000 rows or 30 days: any of
\* them, here.  Channels deleted before go once nothing refers to them.
Maintenance(old) ==
    /\ worker = "reconcile" /\ ~\E j \in Jobs : Reconcilable(j)
    /\ old \subseteq DOMAIN deliveries \ Waiting(deliveries)
    /\ deliveries' = [k \in DOMAIN deliveries \ old |-> deliveries[k]]
    /\ channels' = [c \in Channels |->
         IF channels[c].state = "deleted" /\ ~\E k \in DOMAIN deliveries' : k[2] = c
         THEN [channels[c] EXCEPT !.state = "gone"] ELSE channels[c]]
    /\ worker' = "claim"
    /\ UNCHANGED <<jobs, ready, observed, subscription, flights, edits, faults>>

TestChannel(c) ==
    /\ worker = "idle" /\ edits < MaxEdits /\ edits' = edits + 1
    /\ Usable(c) /\ Cardinality(Waiting(deliveries)) < MaxPending
    \* Each test is an event of its own: the key is used again when nothing is left of the last.
    /\ <<Test, c>> \notin DOMAIN deliveries /\ \A f \in flights : f.key # <<Test, c>>
    /\ InsertEvent(Test, {c})
    /\ UNCHANGED <<storeVars, worker, flights, faults>>

\* deliveryPolicyError is undefined.
PolicyAllows(k) ==
    \/ k[1] = Test
    \/ /\ subscription.enabled /\ k[2] \in subscription.channels
       /\ k[1][2] \in subscription.events

CanRetryExhausted(k) ==    \* mutant: the total number of attempts is not looked at
    /\ deliveries[k].status = "failed" /\ deliveries[k].manual < MaxManual
    /\ Usable(k[2]) /\ PolicyAllows(k)

CanRetry(k) ==
    /\ deliveries[k].status = "failed"
    /\ deliveries[k].manual < MaxManual /\ deliveries[k].attempts < MaxAttempts
    /\ Usable(k[2]) /\ PolicyAllows(k)

Retry(k) ==
    /\ worker = "idle" /\ k \in DOMAIN deliveries /\ CanRetry(k)
    /\ Cardinality(Waiting(deliveries)) < MaxPending
    /\ deliveries' = [deliveries EXCEPT ![k] =
         [@ EXCEPT !.status = "pending", !.revision = channels[k[2]].revision,
                   !.cycle = 0, !.manual = deliveries[k].manual + 1, !.next = Pause]]
    /\ UNCHANGED <<storeVars, worker, flights, edits, faults>>
-----------------------------------------------------------------------------
(* Claims, sends and outcomes. *)

ExhaustedLate(row) ==      \* mutant: one attempt too many
    row.cycle > MaxCycle \/ row.attempts > MaxAttempts

Exhausted(row) == row.cycle >= MaxCycle \/ row.attempts >= MaxAttempts

RecoveredAtOnce(row) ==    \* mutant: it may be claimed again at once
    IF row.status = "sending" /\ row.lease = 0
    THEN [row EXCEPT !.status = IF Exhausted(row) THEN "failed" ELSE "pending", !.next = 0]
    ELSE row

\* The lease of a delivery that was interrupted has run out.
Recovered(row) ==
    IF row.status = "sending" /\ row.lease = 0
    THEN [row EXCEPT !.status = IF Exhausted(row) THEN "failed" ELSE "pending",
                     !.next = IF Exhausted(row) THEN 0 ELSE Pause]
    ELSE row

Swept == [k \in DOMAIN deliveries |-> Recovered(deliveries[k])]

Due(rows) == {k \in DOMAIN rows : /\ rows[k].status = "pending" /\ rows[k].next = 0
                                  /\ ~Exhausted(rows[k])}

Claimable == /\ Cardinality({k \in DOMAIN Swept : Swept[k].status = "sending"}) < Slots
             /\ Due(Swept) # {}

Claimed(row) == [row EXCEPT !.status = "sending", !.attempts = @ + 1, !.cycle = @ + 1,
                            !.lease = Lease]

\* finish(): the delay doubles with each attempt of the cycle.
RetryDelay(cycle, after) == Capped(Larger(2 ^ (cycle - 1), after), MaxDelay)

Finished(rows, f, result, after) ==
    LET retry == result = "retryable" /\ f.cycle < MaxCycle /\ f.attempts < MaxAttempts
    IN  IF /\ f.key \in DOMAIN rows /\ rows[f.key].status = "sending"
           /\ rows[f.key].attempts = f.attempts          \* lease_owner
        THEN [rows EXCEPT ![f.key] =
                [@ EXCEPT !.status = CASE result = "success" -> "succeeded"
                                       [] retry -> "pending"
                                       [] OTHER -> "failed",
                          !.next = IF retry THEN RetryDelay(f.cycle, after) ELSE 0,
                          !.lease = 0]]
        ELSE rows

CanSendStale(f) == TRUE    \* mutant: what was checked before the await is trusted

CanSend(f) == /\ Usable(f.key[2]) /\ channels[f.key[2]].revision = f.revision
              /\ PolicyAllows(f.key)

\* claim() and what send() does before it first waits.
Claim(k) ==
    /\ worker = "claim" /\ Cardinality(flights) < Slots /\ Claimable /\ k \in Due(Swept)
    /\ LET row == Claimed(Swept[k])
           f == [key |-> k, attempts |-> row.attempts, cycle |-> row.cycle,
                 revision |-> row.revision, left |-> Timeout, naps |-> 0,
                 stage |-> IF CanSend([key |-> k, revision |-> row.revision])
                           THEN "resolving" ELSE "done"]
           rows == [Swept EXCEPT ![k] = row]
       IN  /\ flights' = flights \cup {f}
           /\ deliveries' = IF f.stage = "done" THEN Finished(rows, f, "permanent", 0)
                                                ELSE rows
    /\ UNCHANGED <<storeVars, worker, edits, faults>>

\* The loop ends; sends that ended before they waited leave the active set.
EndTick ==
    /\ worker = "claim" /\ (Cardinality(flights) >= Slots \/ ~Claimable)
    /\ deliveries' = IF Cardinality(flights) < Slots THEN Swept ELSE deliveries
    /\ flights' = {f \in flights : f.stage # "done"}
    /\ worker' = "idle"
    /\ UNCHANGED <<storeVars, edits, faults>>

\* The name is resolved: the channel is looked at once more, and the message goes out.
Transmit(f) ==
    /\ worker = "idle" /\ f.stage = "resolving"
    /\ IF CanSend(f)
       THEN /\ flights' = (flights \ {f}) \cup {[f EXCEPT !.stage = "sent"]}
            /\ UNCHANGED deliveries
       ELSE /\ flights' = flights \ {f}
            /\ deliveries' = Finished(deliveries, f, "permanent", 0)
    /\ UNCHANGED <<storeVars, worker, edits, faults>>

Results(f) == IF f.stage = "sent" THEN {"success", "retryable", "permanent"}
                                  ELSE {"retryable", "permanent"}

Settle(f, result, after) ==
    /\ worker = "idle" /\ result \in Results(f)
    /\ after > 0 => result = "retryable"
    /\ flights' = flights \ {f}
    /\ deliveries' = Finished(deliveries, f, result, after)
    /\ UNCHANGED <<storeVars, worker, edits, faults>>
-----------------------------------------------------------------------------
(* Time and faults. *)

\* A send ends when its timeout does, so time waits for it.
TimePasses ==
    /\ worker = "idle" /\ \A f \in flights : f.left > 0
    /\ \/ flights # {}
       \/ \E k \in DOMAIN deliveries : deliveries[k].next + deliveries[k].lease > 0
    /\ deliveries' = [k \in DOMAIN deliveries |->
                        [deliveries[k] EXCEPT !.next = Less(@), !.lease = Less(@)]]
    /\ flights' = {[f EXCEPT !.left = Less(@)] : f \in flights}
    /\ UNCHANGED <<storeVars, worker, edits, faults>>

\* The machine sleeps: every deadline of the tables has passed when it wakes up, and less
\* than 30 seconds are left to a send, whether its timer ran on meanwhile or not.
Suspend ==
    /\ worker = "idle" /\ faults < MaxFaults /\ faults' = faults + 1
    /\ deliveries' = [k \in DOMAIN deliveries |->
                        [deliveries[k] EXCEPT !.next = 0, !.lease = 0]]
    /\ flights' = {[f EXCEPT !.left = 0, !.naps = Capped(@ + 1, Naps)] : f \in flights}
    /\ UNCHANGED <<storeVars, worker, edits>>

\* finish() itself fails: the outcome is lost and the lease is left to run out.
LoseOutcome(f) ==
    /\ worker = "idle" /\ faults < MaxFaults /\ faults' = faults + 1
    /\ flights' = flights \ {f}
    /\ UNCHANGED <<storeVars, deliveries, worker, edits>>

\* The process dies, between two transactions of a tick too, and starts again.
Crash ==
    /\ faults < MaxFaults /\ faults' = faults + 1
    /\ flights' = {} /\ worker' = "idle"
    /\ UNCHANGED <<storeVars, deliveries, edits>>
-----------------------------------------------------------------------------
\* The administrator has created some channels and subscribed the plan to them
\* before its first job.
Init ==
    /\ jobs = [j \in Jobs |-> [status |-> "none", order |-> 0, cleaned |-> TRUE,
                               success |-> FALSE]]
    /\ ready = [j \in Jobs |-> FALSE] /\ observed = {}
    /\ \E live \in SUBSET Channels :
         /\ channels = [c \in Channels |->
              [state |-> IF c \in live THEN "live" ELSE "new", enabled |-> c \in live,
               revision |-> 1, events |-> Outcomes, floor |-> 0]]
         /\ subscription = [enabled |-> live # {}, channels |-> live, events |-> Outcomes,
                            floor |-> 0]
    /\ deliveries = [k \in {} |-> NewRow(k[2])]
    /\ worker = "idle" /\ flights = {} /\ edits = 0 /\ faults = 0

ClaimStep == \E k \in DOMAIN deliveries : Claim(k)
SendStep  == \E f \in flights : \/ Transmit(f)
                                \/ \E result \in {"success", "retryable", "permanent"},
                                      after \in {0, MaxDelay} : Settle(f, result, after)
MaintenanceStep == \E old \in SUBSET DOMAIN deliveries : Maintenance(old)

Next == \/ Job
        \/ Edit
        \/ StartTick \/ ReconcileStep \/ MaintenanceStep \/ ClaimStep \/ EndTick
        \/ \E c \in Channels : TestChannel(c)
        \/ \E k \in DOMAIN deliveries : Retry(k)
        \/ SendStep
        \/ TimePasses
        \/ Suspend \/ Crash \/ \E f \in flights : LoseOutcome(f)

\* setInterval repeats the tick, a tick runs to its end, a send is answered or
\* times out, and time passes.
Fairness == /\ WF_vars(StartTick) /\ WF_vars(ReconcileStep) /\ WF_vars(MaintenanceStep)
            /\ WF_vars(ClaimStep) /\ WF_vars(EndTick)
            /\ SF_vars(SendStep) /\ SF_vars(TimePasses)

Spec == Init /\ [][Next]_vars /\ Fairness
-----------------------------------------------------------------------------
\* Every variable holds what the tables, the tick and the sends keep; the counters of a
\* delivery stay within its limits.
TypeOK ==
    /\ jobs \in [Jobs -> [status : {"none", "running"} \cup Outcomes, cleaned : BOOLEAN,
                          order : 0..MaxJobs, success : BOOLEAN]]
    /\ ready \in [Jobs -> BOOLEAN] /\ observed \subseteq Jobs \X Outcomes
    /\ channels \in [Channels -> [state : {"new", "live", "deleted", "gone"},
                                  enabled : BOOLEAN, events : SUBSET Outcomes,
                                  revision : Nat, floor : 0..MaxJobs]]
    /\ subscription \in [enabled : BOOLEAN, channels : SUBSET Channels,
                         events : SUBSET Outcomes, floor : 0..MaxJobs]
    /\ DOMAIN deliveries \subseteq Events \X Channels
    /\ \A k \in DOMAIN deliveries : deliveries[k] \in Row
    /\ flights \subseteq Flight /\ Cardinality(flights) <= Slots
    /\ worker \in {"idle", "reconcile", "claim"}
    /\ edits \in 0..MaxEdits /\ faults \in 0..MaxFaults

\* No delivery is sent by two promises at once: a lease that ran out during a
\* suspension is taken over only 30 seconds later, when the old send has timed
\* out (claim, lease recovery).  Only a second suspension within those 30 seconds
\* can let a new send begin beside the old one.
OneTransmissionAtATime ==
    \A f, g \in flights : f.key = g.key => f = g \/ Naps \in {f.naps, g.naps}

\* A recovery test has one announced outcome, ever: it is not announced as
\* failed while a cleanup is pending that may still turn it into passed.
OneVerdictPerTest ==
    \A r \in RecoveryTests : Cardinality({o \in observed : o[1] = r}) <= 1

\* An outcome is only ticked off with a delivery for everyone subscribed to it
\* at that moment, and the queue never exceeds its limit for it: a full queue
\* leaves the outcome ready (reconcile, backpressure).
NoOutcomeDropped ==
    [][\A o \in observed' \ observed :
          /\ \A c \in Audience(o[1]) : <<o, c>> \in DOMAIN deliveries'
          /\ Cardinality(Waiting(deliveries')) <= MaxPending]_vars

\* A message leaves only under the channel revision its delivery was queued
\* with, to a channel enabled and subscribed at that moment, whatever was
\* edited while the delivery waited or its host name was resolved (canSend).
SentUnderLiveConfiguration ==
    [][\A f \in flights :
          f.stage = "resolving" /\ [f EXCEPT !.stage = "sent"] \in flights' =>
             /\ Usable(f.key[2]) /\ PolicyAllows(f.key)
             /\ f.key \in DOMAIN deliveries =>
                  channels[f.key[2]].revision = deliveries[f.key].revision]_vars

\* Every delivery ends, as succeeded or failed, through crashes, suspensions,
\* lost writes and manual retries: none is left pending with its attempts used
\* up (claim, finish, retry).
DeliveriesSettle ==
    \A k \in Events \X Channels :
        [](k \in Waiting(deliveries) => <>(k \notin Waiting(deliveries)))
=============================================================================
