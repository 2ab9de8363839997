----------------------------- MODULE DatabaseWork -----------------------------
(***************************************************************************)
(* The two services that create databases on recovery targets and share     *)
(* them with backups: RecoveryTestService, which imports a snapshot, checks *)
(* it and drops it again, and DatabaseRestoreService, which retains an      *)
(* imported database until it expires or is deleted.  Both keep a durable   *)
(* lease from before CREATE DATABASE until after DROP DATABASE, and each    *)
(* reads the other's table when it claims work.                             *)
(*                                                                         *)
(* Internal targets are provisioned, stopped and removed by scripts that an *)
(* operator runs by hand on the host, on the request the server has last    *)
(* written for them.  The automatic host lifecycle is not configured.  A    *)
(* statement sent to a target takes effect or not, and then its client      *)
(* learns the outcome or fails.                                             *)
(***************************************************************************)
EXTENDS Naturals, FiniteSets

CONSTANTS
    Tests,       \* recovery tests, each of a plan of its own
    Restores,    \* persistent database restores
    Policies,    \* what a test may do with databases, of TestPolicies
    Modes,       \* where a restore may be imported, of RestoreModes
    MaxCrashes   \* bound: crashes of the server

TestPolicies == {"files", "custom", "internal"}
RestoreModes == {"custom", "internal"}

ASSUME DatabaseWorkAssumption ==
    /\ Tests \cap Restores = {} /\ "none" \notin Tests \cup Restores
    /\ Policies \subseteq TestPolicies /\ Modes \subseteq RestoreModes
    /\ MaxCrashes \in Nat

VARIABLES
    test,      \* recovery_tests with their sessions and import leases
    restore,   \* persistent_database_restores with their leases
    catalog,   \* the databases that exist on targets
    host,      \* what the operator's scripts have done with internal targets
    asked,     \* the operator's request directory: the last request for each target
    call,      \* a user's request that is checked but not yet in the directory
    backup,    \* a backup or restore is in progress
    tester,    \* RecoveryTestService.running
    restorer,  \* DatabaseRestoreService.running
    pass,      \* the rows dispatch() of DatabaseRestoreService has still to handle
    pending,   \* tests that recoverInterrupted has still to handle
    crashes

workers == <<tester, restorer, pass, pending, crashes>>
targets == <<catalog, host, asked, call>>
vars    == <<test, restore, targets, backup, workers>>

Ids  == Tests \cup Restores
Idle == [id |-> "none", pc |-> "idle", aborted |-> FALSE, failed |-> FALSE]
TestSteps    == {"stage", "prepare", "lease", "create", "mark", "import", "clean",
                 "tidy", "release", "finish"}
RestoreSteps == {"stage", "create", "mark", "import", "activate", "clean", "settle",
                 "ready", "inspect"}
UserRequests == {"provision", "stop", "resume"}
Requests     == UserRequests \cup {"no", "delete", "ready"}  \* ready: delete, cleanupReady

TestRow ==
    [status  : {"none", "queued", "running", "passed", "warned", "failed", "cancelled"},
     policy  : TestPolicies,
     cancel  : BOOLEAN,
     code    : {"none", "cleanup", "other"},    \* cleanup: internal-cleanup-required
     warned  : BOOLEAN,                         \* warnings of cleanup or disabled import
     clean   : BOOLEAN,                         \* result.cleanup.databases and workspace
     lease   : BOOLEAN,
     session : {"none", "open", "ready", "released"}]
RestoreRow ==
    [status   : {"none", "provisioning_required", "queued", "importing", "active",
                 "stopped", "expired", "cleanup_required", "deleting", "deleted"},
     mode     : RestoreModes,
     cancel   : BOOLEAN,
     cleanup  : {"none", "requested", "uncertain", "infrastructure_pending"},
     lease    : {"none", "held", "validated"},
     approval : BOOLEAN,
     expired  : BOOLEAN]                        \* expires_at has passed


\* RecoveryTestStore.claim and DatabaseRestoreStore.busy look at both tables.
TestRunning          == \E t \in Tests : test[t].status = "running"
RestoreWorking(except) ==
    \E r \in Restores \ except : restore[r].status \in {"importing", "deleting"}
Busy(except) == TestRunning \/ RestoreWorking(except) \/ backup

Serving == pending = {}
-----------------------------------------------------------------------------
(* SQL on a target: each statement with the outcomes its client may see. *)

Connected(x) ==
    \/ x \in Tests /\ test[x].policy = "custom"
    \/ x \in Restores /\ restore[x].mode = "custom"
    \/ host[x] = "up"

\* Fault: the lease of a database that does not carry the owner's mark is given up.
CleanOutcomesUnmarked(x, leased) ==
    {<<catalog[x], leased>>, <<catalog[x], FALSE>>}
      \cup IF leased /\ Connected(x) /\ catalog[x] = "owned" THEN {<<"absent", FALSE>>} ELSE {}

\* cleanup and removeOwned: <<database, lease kept>> afterwards.  Nothing was done;
\* or the database was dropped; or the lease went too.  A database without the
\* owner's mark is never dropped.
CleanOutcomes(x, leased) ==
    {<<catalog[x], leased>>} \cup
      IF ~leased THEN {<<catalog[x], FALSE>>}
      ELSE IF ~Connected(x) \/ catalog[x] = "bare" THEN {}
      ELSE {<<"absent", TRUE>>, <<"absent", FALSE>>}
-----------------------------------------------------------------------------
(* Recovery tests: requests of the user. *)

Enqueue(t, policy) ==
    /\ Serving /\ test[t].status = "none"
    /\ test' = [test EXCEPT ![t].status = "queued", ![t].policy = policy]
    /\ UNCHANGED <<restore, targets, backup, workers>>

\* requestCancellation, and the abort of the test when it is the one running.
CancelTest(t) ==
    /\ Serving /\ test[t].status \in {"queued", "running"}
    /\ test' = [test EXCEPT ![t].cancel = TRUE,
                            ![t].status = IF @ = "queued" THEN "cancelled" ELSE @,
                            ![t].code = IF test[t].status = "queued" THEN "other" ELSE @]
    /\ tester' = [tester EXCEPT !.aborted = @ \/ tester.id = t]
    /\ UNCHANGED <<restore, targets, backup, restorer, pass, pending, crashes>>
-----------------------------------------------------------------------------
(* Recovery tests: the worker. *)

\* Fault: the claim looks at recovery tests and backups only.
MayClaimAlone(t) == test[t].status = "queued" /\ ~TestRunning /\ ~backup

\* claim: an unreleased internal session lets only tests without import start.
MayClaim(t) ==
    /\ test[t].status = "queued"
    /\ ~Busy({})
    /\ (\E u \in Tests : test[u].session \in {"open", "ready"}) => test[t].policy = "files"

ClaimTest(t) ==
    /\ Serving /\ tester = Idle
    /\ MayClaim(t)
    /\ test' = [test EXCEPT ![t].status = "running"]
    /\ tester' = [Idle EXCEPT !.id = t, !.pc = "stage"]
    /\ UNCHANGED <<restore, targets, backup, restorer, pass, pending, crashes>>

\* The statement or stage at pc ends well, unless the test is aborted.
TestSucceeds(t, pc, next) ==
    /\ tester.id = t /\ tester.pc = pc /\ ~tester.aborted
    /\ tester' = [tester EXCEPT !.pc = next]
    /\ UNCHANGED <<restore, backup, restorer, pass, pending, crashes>>

\* The binding is checked, the snapshot restored and its artifacts validated.
StageTest(t) ==
    /\ ~test[t].cancel
    /\ TestSucceeds(t, "stage", CASE test[t].policy = "files"    -> "clean"
                                  [] test[t].policy = "custom"   -> "lease"
                                  [] test[t].policy = "internal" -> "prepare")
    /\ test' = [test EXCEPT ![t].warned = @ \/ test[t].policy = "files"]
    /\ UNCHANGED targets

\* internal.prepare reads the operator's activation; beginInternalSession binds it.
PrepareTest(t) ==
    /\ test[t].status = "running" /\ host[t] = "up"
    /\ TestSucceeds(t, "prepare", "lease")
    /\ test' = [test EXCEPT ![t].session = "open"]
    /\ UNCHANGED targets

\* Yields to a backup; the lease is durable before CREATE DATABASE.
LeaseTest(t) ==
    /\ ~backup
    /\ TestSucceeds(t, "lease", "create")
    /\ test' = [test EXCEPT ![t].lease = TRUE]
    /\ UNCHANGED targets

CreateTest(t) ==
    /\ TestSucceeds(t, "create", "mark")
    /\ catalog' = [catalog EXCEPT ![t] = "bare"]
    /\ UNCHANGED <<test, host, asked, call>>

MarkTest(t) ==
    /\ TestSucceeds(t, "mark", "import")
    /\ catalog' = [catalog EXCEPT ![t] = "owned"]
    /\ UNCHANGED <<test, host, asked, call>>

ImportTest(t) ==
    /\ TestSucceeds(t, "import", "clean")
    /\ UNCHANGED <<test, targets>>

\* Any of these fails or is aborted, with its statement executed or not.
FailTest(t) ==
    /\ tester.id = t
    /\ tester.pc \in {"stage", "prepare", "lease", "create", "mark", "import"}
    /\ tester' = [tester EXCEPT !.pc = "clean", !.failed = TRUE]
    /\ \E c \in {catalog[t]} \cup (CASE tester.pc = "create" -> {"bare"}
                                     [] tester.pc = "mark"   -> {"owned"}
                                     [] OTHER                -> {}) :
            catalog' = [catalog EXCEPT ![t] = c]
    /\ UNCHANGED <<test, restore, host, asked, call, backup, restorer, pass, pending, crashes>>

\* The finally block: every lease's database is dropped if it is owned.
CleanTest(t) ==
    /\ tester.id = t /\ tester.pc = "clean"
    /\ \E o \in CleanOutcomes(t, test[t].lease) :
         /\ catalog' = [catalog EXCEPT ![t] = o[1]]
         /\ test' = [test EXCEPT ![t].lease = o[2], ![t].clean = ~o[2]]
    /\ tester' = [tester EXCEPT !.pc = "tidy"]
    /\ UNCHANGED <<restore, host, asked, call, backup, restorer, pass, pending, crashes>>

\* An internal target must be seen empty; then the workspace is removed.
EmptyOutcomes(t) ==
    IF test[t].session \notin {"open"} THEN {TRUE}
    ELSE {FALSE} \cup IF Connected(t) /\ catalog[t] = "absent" THEN {TRUE} ELSE {}

TidyTest(t) ==
    /\ tester.id = t /\ tester.pc = "tidy"
    /\ \E empty \in EmptyOutcomes(t), removed \in BOOLEAN :
         LET clean == test[t].clean /\ empty /\ removed
         IN  test' = [test EXCEPT ![t].clean = clean, ![t].warned = @ \/ ~clean]
    /\ tester' = [tester EXCEPT
         !.pc = IF test[t].session = "none" THEN "finish" ELSE "release"]
    /\ UNCHANGED <<restore, targets, backup, restorer, pass, pending, crashes>>

\* markInternalCleanupReady, when clean and without leases; requestCleanup may fail.
Released(row) == IF row.session = "open" /\ row.clean /\ ~row.lease
                 THEN [row EXCEPT !.session = "ready"] ELSE row
\* The operator does nothing about a test before it is ready.
RequestRelease(t, session) ==
    {asked} \cup IF session = "ready" THEN {[asked EXCEPT ![t] = "ready"]} ELSE {}

ReleaseTest(t) ==
    /\ tester.id = t /\ tester.pc = "release"
    /\ test' = [test EXCEPT ![t] = Released(@)]
    /\ asked' \in RequestRelease(t, test'[t].session)
    /\ tester' = [tester EXCEPT !.pc = "finish"]
    /\ UNCHANGED <<restore, catalog, host, call, backup, restorer, pass, pending, crashes>>

\* Fault: a cancellation counts only when it made something fail.
VerdictUncancelled(row, aborted, failed) ==
    IF failed \/ row.session # "none" THEN "failed"
    ELSE IF row.warned THEN "warned" ELSE "passed"

\* The status recorded at the end: an internal target must still be removed.
Verdict(row, aborted, failed) ==
    CASE aborted \/ row.cancel                  -> "cancelled"
      [] ~(aborted \/ row.cancel)
           /\ (failed \/ row.session # "none")  -> "failed"
      [] OTHER                                  -> IF row.warned THEN "warned" ELSE "passed"

FinishTest(t) ==
    /\ tester.id = t /\ tester.pc = "finish"
    /\ LET verdict == Verdict(test[t], tester.aborted, tester.failed)
       IN  test' = [test EXCEPT
             ![t].status = verdict,
             ![t].code = CASE verdict = "failed" /\ ~tester.failed -> "cleanup"
                           [] verdict \in {"passed", "warned"}     -> "none"
                           [] OTHER                                -> "other"]
    /\ tester' = Idle
    /\ UNCHANGED <<restore, targets, backup, restorer, pass, pending, crashes>>

\* Fault: cleaned databases are taken for a removed target.
ReconcilableUnconfirmed(t) ==
    /\ test[t].status \notin {"queued", "running"}
    /\ test[t].session = "ready" /\ ~test[t].lease

\* reconcileInfrastructure: only the operator's receipt can turn it into a success.
Reconcilable(t) ==
    /\ test[t].status \notin {"queued", "running"}
    /\ test[t].session = "ready" /\ ~test[t].lease
    /\ host[t] = "removed"

Reconcile(t) ==
    /\ Serving /\ tester = Idle
    /\ Reconcilable(t)
    /\ LET success == ~test[t].cancel /\ test[t].code = "cleanup" /\ test[t].clean
       IN  test' = [test EXCEPT
             ![t].session = "released",
             ![t].status = IF ~success THEN @ ELSE IF test[t].warned THEN "warned" ELSE "passed",
             ![t].code = IF success THEN "none" ELSE @]
    /\ UNCHANGED <<restore, targets, backup, workers>>
-----------------------------------------------------------------------------
(* Persistent restores: requests of the user. *)

Create(r, mode) ==
    /\ Serving /\ restore[r].status = "none"
    /\ mode = "internal" => ~Busy({})
    /\ restore' = [restore EXCEPT
         ![r].status = IF mode = "internal" THEN "provisioning_required" ELSE "queued",
         ![r].mode = mode, ![r].approval = mode = "custom"]
    /\ call' = [call EXCEPT ![r] = IF mode = "internal" THEN "provision" ELSE @]
    /\ UNCHANGED <<test, catalog, host, asked, backup, workers>>

\* operator(): what a user may ask for, by the row as it is when the request arrives.
MayRequest(row, action) ==
    /\ row.mode = "internal" /\ ~row.cancel /\ ~row.expired
    /\ row.status = CASE action = "provision" -> "provisioning_required"
                       [] action = "stop"      -> "active"
                       [] action = "resume"    -> "stopped"

Operator(r, action) ==
    /\ Serving /\ call[r] = "none"
    /\ MayRequest(restore[r], action)
    /\ call' = [call EXCEPT ![r] = action]
    /\ UNCHANGED <<test, restore, catalog, host, asked, backup, workers>>

\* The request replaces the one in the directory, whatever that has become meanwhile,
\* or it cannot be written or the resources do not allow it.
WriteRequest(r) ==
    /\ call[r] # "none"
    /\ asked' \in {asked, [asked EXCEPT ![r] = call[r]]}
    /\ call' = [call EXCEPT ![r] = "none"]
    /\ UNCHANGED <<test, restore, catalog, host, backup, workers>>

\* requestDelete
Deleting(row) ==
    IF row.status \in {"none", "deleted"} \/ row.cleanup = "infrastructure_pending" THEN row
    ELSE [row EXCEPT !.cancel = TRUE, !.cleanup = "requested",
                     !.status = IF @ \in {"importing", "deleting"} THEN @
                                ELSE "cleanup_required"]

Delete(r) ==
    /\ Serving /\ restore[r].status \notin {"none", "deleted"}
    /\ restore' = [restore EXCEPT ![r] = Deleting(@)]
    /\ restorer' = [restorer EXCEPT !.aborted = @ \/ restorer.id = r]
    /\ UNCHANGED <<test, targets, backup, tester, pass, pending, crashes>>

\* tick() while an operation runs on a restore that has expired.
TickExpired(r) ==
    /\ Serving /\ restorer.id = r /\ restore[r].expired
    /\ restore' = [restore EXCEPT ![r] = Deleting(@)]
    /\ restorer' = [restorer EXCEPT !.aborted = TRUE]
    /\ UNCHANGED <<test, targets, backup, tester, pass, pending, crashes>>

\* An inspection occupies the worker and changes nothing that is modelled.
Inspect(r) ==
    /\ Serving /\ restorer = Idle /\ pass = <<>>
    /\ restore[r].status = "active" /\ ~restore[r].cancel /\ ~restore[r].expired
    /\ ~Busy({})
    /\ restorer' = [Idle EXCEPT !.id = r, !.pc = "inspect"]
    /\ UNCHANGED <<test, restore, targets, backup, tester, pass, pending, crashes>>

InspectEnds(r) ==
    /\ restorer.id = r /\ restorer.pc = "inspect"
    /\ restorer' = Idle
    /\ UNCHANGED <<test, restore, targets, backup, tester, pass, pending, crashes>>
-----------------------------------------------------------------------------
(* Persistent restores: dispatch(). *)

\* pending(): the rows are read at once and handled one by one, with waits for the
\* operator's files in between.
DispatchStart ==
    /\ Serving /\ restorer = Idle /\ pass = <<>>
    /\ pass' = [r \in {q \in Restores : restore[q].status \notin {"none", "deleted"}}
                  |-> restore[r]]
    /\ pass' # <<>>
    /\ UNCHANGED <<test, restore, targets, backup, tester, restorer, pending, crashes>>

Expiring(row, stored) ==
    IF stored.expired /\ ~row.cancel
    THEN [stored EXCEPT !.status = "expired", !.cancel = TRUE, !.cleanup = "requested"]
    ELSE row

\* The operator's receipt: removed after cleanup, or never provisioned.
VerifiedGone(r, row) ==
    /\ row.mode = "internal" /\ restore[r].lease = "none"
    /\ \/ row.approval /\ row.cleanup = "infrastructure_pending" /\ host[r] = "removed"
       \/ ~row.approval /\ row.cancel /\ host[r] = "never"

\* The target is approved, bound and the restore queued, as the row read says.
Binds(r, row) ==
    row.status = "provisioning_required" /\ ~row.cancel /\ host[r] = "up"
Bound(stored) == [stored EXCEPT !.approval = TRUE, !.status = "queued"]

\* The status of a retained restore follows its target.
Follows(r, row) ==
    /\ row.mode = "internal" /\ row.approval /\ ~row.cancel
    /\ row.status \in {"active", "stopped"} /\ host[r] \in {"up", "stopped"}
\* Fault: the operator's word for the state is stored as the status.
FollowedRaw(r, stored) == [stored EXCEPT !.status = host[r]]

Followed(r, stored) == [stored EXCEPT !.status = IF host[r] = "up" THEN "active" ELSE "stopped"]

\* Fault: a restore that became active after its deletion was requested is not cleaned up.
ClaimsRetired(row, cleanup) ==
    IF cleanup THEN row.cancel /\ row.status \in {"cleanup_required", "expired"}
    ELSE row.status = "queued" /\ ~row.cancel /\ ~row.expired

Claims(row, cleanup) ==
    IF cleanup
    THEN row.cancel /\ row.status \in {"cleanup_required", "expired", "active", "stopped"}
    ELSE row.status = "queued" /\ ~row.cancel /\ ~row.expired
Claimed(row, cleanup) == [row EXCEPT !.status = IF cleanup THEN "deleting" ELSE "importing"]

\* claim, with the row as stored and the cancellation as dispatch knows it.
ClaimRestore(r, stored, known) ==
    IF /\ known.cleanup # "infrastructure_pending" /\ ~Busy({})
       /\ Claims(stored, known.cancel)
    THEN /\ restore' = [restore EXCEPT ![r] = Claimed(stored, known.cancel)]
         /\ restorer' = [Idle EXCEPT !.id = r, !.pc = IF known.cancel THEN "clean" ELSE "stage"]
         /\ pass' = <<>>
    ELSE /\ restore' = [restore EXCEPT ![r] = stored]
         /\ pass' = [q \in DOMAIN pass \ {r} |-> pass[q]]
         /\ UNCHANGED restorer

Handle(r) ==
    /\ r \in DOMAIN pass
    /\ LET row    == Expiring(pass[r], restore[r])
           stored == IF row = pass[r] THEN restore[r] ELSE row
       IN  \/ /\ VerifiedGone(r, row)
              /\ restore' = [restore EXCEPT ![r] = [stored EXCEPT !.status = "deleted"]]
              /\ pass' = [q \in DOMAIN pass \ {r} |-> pass[q]]
              /\ UNCHANGED restorer
           \/ /\ Binds(r, row)
              /\ ClaimRestore(r, Bound(stored), Bound(stored))
           \/ /\ Follows(r, row)
              /\ ClaimRestore(r, Followed(r, stored), Followed(r, stored))
           \/ /\ ~VerifiedGone(r, row)
              /\ row.status = "provisioning_required" => row.cancel
              /\ ClaimRestore(r, stored, row)
           \/ /\ row.status = "provisioning_required" /\ ~row.cancel
              /\ restore' = [restore EXCEPT ![r] = stored]
              /\ pass' = [q \in DOMAIN pass \ {r} |-> pass[q]]
              /\ UNCHANGED restorer
    /\ UNCHANGED <<test, targets, backup, tester, pending, crashes>>
-----------------------------------------------------------------------------
(* Persistent restores: the worker. *)

RestoreSucceeds(r, pc, next) ==
    /\ restorer.id = r /\ restorer.pc = pc /\ ~restorer.aborted
    /\ restorer' = [restorer EXCEPT !.pc = next]
    /\ UNCHANGED <<test, backup, tester, pass, pending, crashes>>

\* The artifact is fetched and validated, the target approved and idle; the lease
\* is durable before CREATE DATABASE.
StageRestore(r) ==
    /\ ~restore[r].cancel /\ ~restore[r].expired /\ ~Busy({r})
    /\ restore[r].status = "importing" /\ restore[r].lease = "none"
    /\ Connected(r) /\ catalog[r] = "absent"
    /\ RestoreSucceeds(r, "stage", "create")
    /\ restore' = [restore EXCEPT ![r].lease = "held"]
    /\ UNCHANGED targets

CreateRestore(r) ==
    /\ Connected(r)
    /\ RestoreSucceeds(r, "create", "mark")
    /\ catalog' = [catalog EXCEPT ![r] = "bare"]
    /\ UNCHANGED <<restore, host, asked, call>>

MarkRestore(r) ==
    /\ Connected(r)
    /\ RestoreSucceeds(r, "mark", "import")
    /\ catalog' = [catalog EXCEPT ![r] = "owned"]
    /\ UNCHANGED <<restore, host, asked, call>>

ImportRestore(r) ==
    /\ Connected(r) /\ ~restore[r].cancel /\ ~restore[r].expired
    /\ RestoreSucceeds(r, "import", "activate")
    /\ restore' = [restore EXCEPT ![r].lease = "validated"]
    /\ UNCHANGED targets

\* The workspace is removed and the row written, whatever was asked meanwhile.
ActivateRestore(r) ==
    /\ restorer.id = r /\ restorer.pc = "activate"
    /\ restore' = [restore EXCEPT ![r].status = "active", ![r].cleanup = "none"]
    /\ restorer' = Idle
    /\ UNCHANGED <<test, targets, backup, tester, pass, pending, crashes>>

FailRestore(r) ==
    /\ restorer.id = r
    /\ restorer.pc \in {"stage", "create", "mark", "import", "activate"}
    /\ restorer' = [restorer EXCEPT !.pc = "clean"]
    /\ restore' = [restore EXCEPT ![r].cancel = TRUE, ![r].cleanup = "requested"]
    /\ \E c \in {catalog[r]} \cup (CASE restorer.pc = "create" /\ Connected(r) -> {"bare"}
                                     [] restorer.pc = "mark" /\ Connected(r)   -> {"owned"}
                                     [] OTHER                                  -> {}) :
            catalog' = [catalog EXCEPT ![r] = c]
    /\ UNCHANGED <<test, host, asked, call, backup, tester, pass, pending, crashes>>

InDoubt(row) == [row EXCEPT !.status = "cleanup_required", !.cleanup = "uncertain"]

\* cleanup(): ask the operator to keep the target reachable, then removeOwned.
CleanRestore(r) ==
    /\ restorer.id = r /\ restorer.pc = "clean"
    /\ \/ /\ restore[r].mode = "internal"     \* the request cannot be written
          /\ restore' = [restore EXCEPT ![r] = InDoubt(@)]
          /\ restorer' = Idle
          /\ UNCHANGED <<catalog, asked>>
       \/ /\ restore[r].approval
          /\ asked' = IF restore[r].mode = "internal" THEN [asked EXCEPT ![r] = "delete"]
                                                      ELSE asked
          /\ \E o \in CleanOutcomes(r, restore[r].lease # "none"), done \in BOOLEAN :
               /\ done => Connected(r) /\ ~o[2]
               /\ catalog' = [catalog EXCEPT ![r] = o[1]]
               /\ LET row == [restore[r] EXCEPT !.lease = IF o[2] THEN @ ELSE "none"]
                  IN  restore' = [restore EXCEPT ![r] = IF done THEN row ELSE InDoubt(row)]
               /\ restorer' = IF done THEN [restorer EXCEPT !.pc = "settle"] ELSE Idle
       \/ /\ ~restore[r].approval
          /\ asked' = [asked EXCEPT ![r] = "delete"]
          /\ restore' = [restore EXCEPT
               ![r] = InDoubt([@ EXCEPT !.approval = host[r] = "up"])]
          /\ restorer' = Idle
          /\ UNCHANGED catalog
    /\ UNCHANGED <<test, host, call, backup, tester, pass, pending, crashes>>

\* The database is gone: a custom restore is deleted, an internal target awaits removal.
Settled(row) ==
    IF row.mode = "custom" THEN [row EXCEPT !.status = "deleted"]
    ELSE [row EXCEPT !.status = "cleanup_required", !.cleanup = "infrastructure_pending"]

\* The workspace is removed, or that fails; then the row is written.
SettleRestore(r) ==
    /\ restorer.id = r /\ restorer.pc = "settle"
    /\ \/ /\ restore' = [restore EXCEPT ![r] = Settled(@)]
          /\ restorer' = IF restore[r].mode = "custom" THEN Idle
                         ELSE [restorer EXCEPT !.pc = "ready"]
       \/ restore' = [restore EXCEPT ![r] = InDoubt(@)] /\ restorer' = Idle
    /\ UNCHANGED <<test, targets, backup, tester, pass, pending, crashes>>

\* Fault: a request that could not be written is taken for one that was.
ReadyUnanswered(r) ==
    /\ restorer.id = r /\ restorer.pc = "ready"
    /\ asked' \in {asked, [asked EXCEPT ![r] = "ready"]}
    /\ restorer' = Idle
    /\ UNCHANGED <<test, restore, catalog, host, call, backup, tester, pass, pending, crashes>>

\* Only then is the operator asked to remove the target; that may fail.
ReadyRestore(r) ==
    /\ restorer.id = r /\ restorer.pc = "ready"
    /\ \/ asked' = [asked EXCEPT ![r] = "ready"] /\ UNCHANGED restore
       \/ restore' = [restore EXCEPT ![r] = InDoubt(@)] /\ UNCHANGED asked
    /\ restorer' = Idle
    /\ UNCHANGED <<test, catalog, host, call, backup, tester, pass, pending, crashes>>
-----------------------------------------------------------------------------
(* The operator's scripts.  They are run by hand, so never within the moments that
   a user's request takes from its check to the directory. *)

HostRuns(x, state) ==
    /\ x \in Restores => call[x] = "none"
    /\ host' = [host EXCEPT ![x] = state]
    /\ UNCHANGED <<test, restore, asked, call, backup, workers>>

\* provision: creates the target, or starts the one there is.
HostProvision(r) ==
    /\ asked[r] = "provision" /\ ~restore[r].expired
    /\ host[r] \notin {"up", "removed"}
    /\ HostRuns(r, "up")
    /\ UNCHANGED catalog

HostStop(r) ==
    /\ host[r] = "up" /\ asked[r] = "stop"
    /\ HostRuns(r, "stopped")
    /\ UNCHANGED catalog

\* resume, and resume-cleanup for the server to drop its database.
HostResume(r) ==
    /\ host[r] = "stopped"
    /\ \/ asked[r] = "resume" /\ ~restore[r].expired
       \/ asked[r] \in {"delete", "ready"}
    /\ HostRuns(r, "up")
    /\ UNCHANGED catalog

\* delete: a target goes with its data, once its database is said to be gone.
HostDelete(r) ==
    /\ host[r] \in {"up", "stopped"} /\ asked[r] = "ready"
    /\ HostRuns(r, "removed")
    /\ catalog' = [catalog EXCEPT ![r] = "absent"]

\* delete, of a target that was never provisioned.
HostVerifiesAbsence(r) ==
    /\ host[r] = "absent" /\ asked[r] = "delete"
    /\ HostRuns(r, "never")
    /\ UNCHANGED catalog

\* One target for internal tests is active at a time.
HostActivate(t) ==
    /\ test[t].policy = "internal" /\ test[t].status # "none"
    /\ host[t] = "absent" /\ \A u \in Tests : host[u] # "up"
    /\ HostRuns(t, "up")
    /\ UNCHANGED catalog

HostDeactivate(t) ==
    /\ host[t] = "up" /\ asked[t] = "ready"
    /\ HostRuns(t, "removed")
    /\ catalog' = [catalog EXCEPT ![t] = "absent"]
-----------------------------------------------------------------------------
(* Time, backups and crashes. *)

Expire(r) ==
    /\ restore[r].status \notin {"none", "deleted"}
    /\ ~restore[r].expired /\ ~restore[r].cancel
    /\ restore' = [restore EXCEPT ![r].expired = TRUE]
    /\ UNCHANGED <<test, targets, backup, workers>>

BackupStarts == /\ Serving /\ ~backup /\ backup' = TRUE
                /\ UNCHANGED <<test, restore, targets, workers>>
BackupEnds   == /\ backup /\ backup' = FALSE
                /\ UNCHANGED <<test, restore, targets, workers>>

\* interrupted() and recoverInterrupted() of the stores, before anything is served.
InterruptedTest(row) ==
    IF row.status # "running" THEN row
    ELSE [row EXCEPT !.status = IF row.cancel THEN "cancelled" ELSE "failed", !.code = "other"]
InterruptedRestore(row) ==
    IF row.status \notin {"importing", "deleting"} THEN row
    ELSE [row EXCEPT !.status = "cleanup_required", !.cleanup = "uncertain", !.cancel = TRUE]

Crash ==
    /\ crashes < MaxCrashes /\ crashes' = crashes + 1
    /\ test' = [t \in Tests |-> InterruptedTest(test[t])]
    /\ restore' = [r \in Restores |-> InterruptedRestore(restore[r])]
    /\ pending' = {t \in Tests : \/ test[t].status = "running" \/ test[t].lease
                                 \/ test[t].session \in {"open", "ready"}
                                 \/ test[t].warned /\ ~test[t].clean}
    /\ tester' = Idle /\ restorer' = Idle /\ pass' = <<>>
    /\ call' = [r \in Restores |-> "none"]
    /\ UNCHANGED <<catalog, host, asked, backup>>

\* recoverInterrupted of RecoveryTestService, for one test.
RecoverTest(t) ==
    /\ t \in pending
    /\ \E o \in CleanOutcomes(t, test[t].lease), empty, removed \in BOOLEAN :
         /\ empty /\ test[t].session = "open" => Connected(t) /\ o[1] = "absent"
         /\ catalog' = [catalog EXCEPT ![t] = o[1]]
         /\ LET clean == ~o[2] /\ empty /\ removed
            IN  test' = [test EXCEPT ![t] = Released(
                  [@ EXCEPT !.lease = o[2], !.clean = clean, !.warned = ~clean])]
    /\ asked' \in RequestRelease(t, test'[t].session)
    /\ pending' = pending \ {t}
    /\ UNCHANGED <<restore, host, call, backup, tester, restorer, pass, crashes>>
-----------------------------------------------------------------------------
Init ==
    /\ test = [t \in Tests |-> [status |-> "none", policy |-> "files", cancel |-> FALSE,
                                code |-> "none", warned |-> FALSE, clean |-> FALSE,
                                lease |-> FALSE, session |-> "none"]]
    /\ restore = [r \in Restores |-> [status |-> "none", mode |-> "custom", cancel |-> FALSE,
                                      cleanup |-> "none", lease |-> "none",
                                      approval |-> FALSE, expired |-> FALSE]]
    /\ catalog = [x \in Ids |-> "absent"]
    /\ host = [x \in Ids |-> "absent"]
    /\ asked = [x \in Ids |-> "no"] /\ call = [r \in Restores |-> "none"]
    /\ backup = FALSE
    /\ tester = Idle /\ restorer = Idle /\ pass = <<>> /\ pending = {}
    /\ crashes = 0

TestStep(t) ==
    \/ StageTest(t) \/ PrepareTest(t) \/ LeaseTest(t) \/ CreateTest(t) \/ MarkTest(t)
    \/ ImportTest(t) \/ FailTest(t) \/ CleanTest(t) \/ TidyTest(t) \/ ReleaseTest(t)
    \/ FinishTest(t)

RestoreStep(r) ==
    \/ StageRestore(r) \/ CreateRestore(r) \/ MarkRestore(r) \/ ImportRestore(r)
    \/ ActivateRestore(r) \/ FailRestore(r) \/ CleanRestore(r) \/ SettleRestore(r)
    \/ ReadyRestore(r) \/ InspectEnds(r)

HostTestStep(t)    == HostActivate(t) \/ HostDeactivate(t)
HostRestoreStep(r) == \/ HostProvision(r) \/ HostStop(r) \/ HostResume(r) \/ HostDelete(r)
                      \/ HostVerifiesAbsence(r)

Next ==
    \/ \E t \in Tests : \/ \E p \in Policies : Enqueue(t, p)
                        \/ CancelTest(t) \/ ClaimTest(t) \/ TestStep(t)
                        \/ Reconcile(t) \/ RecoverTest(t)
                        \/ HostTestStep(t)
    \/ \E r \in Restores : \/ \E m \in Modes : Create(r, m)
                           \/ Delete(r) \/ TickExpired(r) \/ Inspect(r) \/ Handle(r)
                           \/ RestoreStep(r) \/ Expire(r) \/ WriteRequest(r)
                           \/ \E a \in UserRequests : Operator(r, a)
                           \/ HostRestoreStep(r)
    \/ DispatchStart
    \/ BackupStarts \/ BackupEnds \/ Crash

\* A worker's steps are bounded by timeouts and a crashed server is started again.
\* Ticks come every five seconds and backups end; sooner or later a tick finds no
\* other work in progress.
Fairness ==
    /\ \A t \in Tests : WF_vars(TestStep(t)) /\ WF_vars(RecoverTest(t))
    /\ \A r \in Restores : /\ WF_vars(RestoreStep(r)) /\ WF_vars(Handle(r))
                           /\ WF_vars(WriteRequest(r))
                           /\ SF_vars(Handle(r) /\ restorer' # Idle)
    /\ SF_vars(DispatchStart /\ ~Busy({}))
    /\ WF_vars(BackupEnds)

Spec == Init /\ [][Next]_vars /\ Fairness
-----------------------------------------------------------------------------
(* Properties. *)

\* Every variable holds what the tables and the services keep.
TypeOK ==
    /\ test \in [Tests -> TestRow] /\ restore \in [Restores -> RestoreRow]
    /\ catalog \in [Ids -> {"absent", "bare", "owned"}]
    /\ host \in [Ids -> {"absent", "up", "stopped", "removed", "never"}]
    /\ asked \in [Ids -> Requests] /\ call \in [Restores -> UserRequests \cup {"none"}]
    /\ backup \in BOOLEAN
    /\ tester = Idle \/ tester \in [id : Tests, pc : TestSteps, aborted : BOOLEAN, failed : BOOLEAN]
    /\ restorer = Idle
         \/ restorer \in [id : Restores, pc : RestoreSteps, aborted : BOOLEAN, failed : BOOLEAN]
    /\ DOMAIN pass \subseteq Restores /\ \A r \in DOMAIN pass : pass[r] \in RestoreRow
    /\ pending \subseteq Tests /\ crashes \in 0..MaxCrashes

\* Recovery tests, imports and owned deletions never overlap, although two services
\* claim them from two tables and neither holds a lock while it works.
OneDatabaseWorker ==
    Cardinality({x \in Ids : \/ x = tester.id
                             \/ x = restorer.id /\ restorer.pc \notin {"ready", "inspect"}}) <= 1

\* No database on a target is without the lease that lets a later start find and
\* drop it, whatever failed or crashed.
NoOrphanDatabase ==
    \A x \in Ids : catalog[x] # "absent" =>
        IF x \in Tests THEN test[x].lease ELSE restore[x].lease # "none"

\* A test that passed without warnings and a restore reported as deleted have left
\* nothing behind: no database, no lease, no internal target that is still there.
EndsClean ==
    /\ \A t \in Tests : test[t].status = "passed" =>
         /\ catalog[t] = "absent" /\ ~test[t].lease /\ test[t].session \in {"none", "released"}
         /\ test[t].session = "released" => host[t] = "removed"
    /\ \A r \in Restores : restore[r].status = "deleted" =>
         /\ catalog[r] = "absent" /\ restore[r].lease = "none"
         /\ restore[r].mode = "internal" => host[r] \in {"removed", "never"}

\* A test that was cancelled is never reported as passed, also when the cancellation
\* meets its claim, its end or the removal of its target.
CancelledNeverPasses ==
    [][\A t \in Tests : test[t].cancel => test'[t].status \notin {"passed", "warned"}
                                          \/ test'[t].status = test[t].status]_vars

\* For a target that awaits its removal the dispatch only looks for the receipt, so
\* nobody asks again: when cleanup() is done with it the removal has been asked for.  A crash
\* before the request is excepted, and a user's earlier request may replace it.
RemovalIsRequested ==
    crashes = 0 =>
        \A r \in Restores :
            restore[r].cleanup = "infrastructure_pending" /\ restorer.id # r
            => asked[r] \in UserRequests \cup {"ready"}

CarriedOut(r) == restore[r].status = "deleted" \/ restore[r].cleanup = "uncertain"

\* Deleting a custom restore, or its expiry, ends with the database gone or with a
\* cleanup that is known to be in doubt.
CustomDeleteIsCarriedOut ==
    \A r \in Restores : (restore[r].mode = "custom" /\ restore[r].cancel) ~> CarriedOut(r)

\* The same for an internal restore; here the target may also await the operator.
InternalDeleteIsCarriedOut ==
    \A r \in Restores : (restore[r].mode = "internal" /\ restore[r].cancel)
                          ~> (CarriedOut(r) \/ restore[r].cleanup = "infrastructure_pending")
=============================================================================
