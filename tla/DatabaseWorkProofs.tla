--------------------------- MODULE DatabaseWorkProofs ---------------------------
(***************************************************************************)
(* For any number of recovery tests, restores and crashes: the two          *)
(* services never work at the same time, no database is without its lease,  *)
(* what is reported as passed or deleted has left nothing behind, and a     *)
(* cancelled test never passes.                                             *)
(***************************************************************************)
EXTENDS DatabaseWork, FiniteSetTheorems, TLAPS

\* What holds of a recovery test.  It is running when it is the tester's; its lease is
\* there from before CREATE DATABASE until after DROP DATABASE; a result that is clean
\* is without lease and one that is not has its warning; and it ends clean.
TestInv(t) ==
    /\ test[t].status = "running" <=> tester.id = t
    /\ tester.id = t /\ tester.pc \in {"create", "mark", "import"} => test[t].lease
    /\ catalog[t] # "absent" => test[t].lease
    /\ tester.id = t /\ tester.pc \in {"tidy", "release", "finish"}
         => (test[t].clean => ~test[t].lease)
    /\ tester.id = t /\ tester.pc \in {"release", "finish"} => test[t].warned \/ test[t].clean
    /\ test[t].status = "passed" =>
         /\ catalog[t] = "absent" /\ ~test[t].lease /\ test[t].session \in {"none", "released"}
         /\ test[t].session = "released" => host[t] = "removed"

\* What holds of a persistent restore.  It is worked on when it is the restorer's, and
\* exists while a dispatch has still to handle it; its lease is there as long as its
\* database; a settled cleanup gave the lease up; and it ends clean.
RestoreInv(r) ==
    /\ restore[r].status \in {"importing", "deleting"} <=> restorer.id = r /\ restorer.pc \notin {"ready", "inspect"}
    /\ r \in DOMAIN pass => restore[r].status \notin {"none", "deleted"}
    /\ restorer.id = r /\ restorer.pc \in {"create", "mark", "import"} => restore[r].lease # "none"
    /\ catalog[r] # "absent" => restore[r].lease # "none"
    /\ restorer.id = r /\ restorer.pc = "settle" => restore[r].lease = "none"
    /\ restore[r].status = "deleted" =>
         /\ catalog[r] = "absent" /\ restore[r].lease = "none"
         /\ restore[r].mode = "internal" => host[r] \in {"removed", "never"}

\* The services exclude each other; a dispatch and a recovery wait for no worker.
Exclusive ==
    /\ tester = Idle \/ restorer = Idle \/ restorer.pc \in {"ready", "inspect"}
    /\ DOMAIN pass # {} => restorer = Idle
    /\ pending # {} => tester = Idle

\* What the requests in the operator's directory say of a restore: a deletion is only asked
\* for after it was recorded, and where the absence of a target was verified no request
\* to provision it can follow.
AskedRestore(r) ==
    /\ restore[r].cancel \/ restorer.id = r => restore[r].status # "none"
    /\ restorer.id = r /\ restorer.pc \in {"clean", "settle", "ready"} => restore[r].cancel
    /\ asked[r] \in {"delete", "ready"} => restore[r].cancel
    /\ host[r] = "never" => asked[r] \in {"delete", "ready"} /\ call[r] = "none"
AskedInv == /\ \A r \in Restores : AskedRestore(r)
            /\ \A t \in Tests : host[t] # "never"

WorkInv == /\ TypeOK /\ Exclusive
           /\ \A t \in Tests : TestInv(t)
           /\ \A r \in Restores : RestoreInv(r)
-----------------------------------------------------------------------------
(* Types. *)

TestStatus    == {"none", "queued", "running", "passed", "warned", "failed", "cancelled"}
RestoreStatus == {"none", "provisioning_required", "queued", "importing", "active",
                  "stopped", "expired", "cleanup_required", "deleting", "deleted"}
Cleanup       == {"none", "requested", "uncertain", "infrastructure_pending"}
TestJob    == [id : Tests, pc : TestSteps, aborted : BOOLEAN, failed : BOOLEAN]
RestoreJob == [id : Restores, pc : RestoreSteps, aborted : BOOLEAN, failed : BOOLEAN]

\* A row, and what a worker keeps, stays one when a field is given a value of its type.
LEMMA TestFields ==
    ASSUME NEW row \in TestRow
    PROVE  /\ \A v \in TestStatus : [row EXCEPT !.status = v] \in TestRow
           /\ \A v \in TestPolicies : [row EXCEPT !.policy = v] \in TestRow
           /\ \A v \in {"none", "cleanup", "other"} : [row EXCEPT !.code = v] \in TestRow
           /\ \A v \in {"none", "open", "ready", "released"} : [row EXCEPT !.session = v] \in TestRow
           /\ \A v \in BOOLEAN : /\ [row EXCEPT !.cancel = v] \in TestRow
                                 /\ [row EXCEPT !.warned = v] \in TestRow
                                 /\ [row EXCEPT !.clean = v] \in TestRow
                                 /\ [row EXCEPT !.lease = v] \in TestRow
BY DEF TestRow, TestStatus

\* The same for the row of a restore.
LEMMA RestoreFields ==
    ASSUME NEW row \in RestoreRow
    PROVE  /\ \A v \in RestoreStatus : [row EXCEPT !.status = v] \in RestoreRow
           /\ \A v \in RestoreModes : [row EXCEPT !.mode = v] \in RestoreRow
           /\ \A v \in Cleanup : [row EXCEPT !.cleanup = v] \in RestoreRow
           /\ \A v \in {"none", "held", "validated"} : [row EXCEPT !.lease = v] \in RestoreRow
           /\ \A v \in BOOLEAN : /\ [row EXCEPT !.cancel = v] \in RestoreRow
                                 /\ [row EXCEPT !.approval = v] \in RestoreRow
                                 /\ [row EXCEPT !.expired = v] \in RestoreRow
BY DEF RestoreRow, RestoreStatus, Cleanup

\* The same for what a worker keeps.
LEMMA JobFields ==
    /\ \A job \in TestJob : /\ \A v \in TestSteps : [job EXCEPT !.pc = v] \in TestJob
                            /\ \A v \in BOOLEAN : [job EXCEPT !.aborted = v] \in TestJob
                            /\ \A v \in BOOLEAN : [job EXCEPT !.failed = v] \in TestJob
    /\ \A job \in RestoreJob : /\ \A v \in RestoreSteps : [job EXCEPT !.pc = v] \in RestoreJob
                               /\ \A v \in BOOLEAN : [job EXCEPT !.aborted = v] \in RestoreJob
BY DEF TestJob, RestoreJob

\* The outcomes of a cleanup: nothing happened, or the database is gone.
LEMMA CleanOutcomesAre ==
    ASSUME TypeOK, NEW x \in Ids, NEW leased \in BOOLEAN, NEW o \in CleanOutcomes(x, leased)
    PROVE  /\ o[1] \in {catalog[x], "absent"} /\ o[1] \in {"absent", "bare", "owned"}
           /\ o[2] \in BOOLEAN /\ (o[2] => leased)
           /\ leased /\ ~o[2] => o[1] = "absent"
<1>1. \/ o = <<catalog[x], leased>>
      \/ leased /\ o = <<"absent", TRUE>>
      \/ leased /\ o = <<"absent", FALSE>>
      \/ ~leased /\ o = <<catalog[x], FALSE>>
  BY Zenon DEF CleanOutcomes
<1>2. catalog[x] \in {"absent", "bare", "owned"}
  BY DEF TypeOK
<1>3. CASE o = <<catalog[x], leased>>
  <2>1. o[1] = catalog[x] /\ o[2] = leased
    BY <1>3, Zenon
  <2>2. QED
    BY <1>2, <2>1, Zenon
<1>4. CASE leased /\ o = <<"absent", TRUE>>
  <2>1. o[1] = "absent" /\ o[2] = TRUE
    BY <1>4, Zenon
  <2>2. QED
    BY <1>4, <2>1, Zenon
<1>5. CASE leased /\ o = <<"absent", FALSE>>
  <2>1. o[1] = "absent" /\ o[2] = FALSE
    BY <1>5, Zenon
  <2>2. QED
    BY <1>5, <2>1, Zenon
<1>6. CASE ~leased /\ o = <<catalog[x], FALSE>>
  <2>1. o[1] = catalog[x] /\ o[2] = FALSE
    BY <1>6, Zenon
  <2>2. QED
    BY <1>2, <1>6, <2>1, Zenon
<1>7. QED
  BY <1>1, <1>3, <1>4, <1>5, <1>6

\* The rows that requests, claims and cleanups write are rows.
LEMMA RestoreRowsAre ==
    ASSUME NEW row \in RestoreRow, NEW stored \in RestoreRow, NEW b \in BOOLEAN, NEW r
    PROVE  /\ Deleting(row) \in RestoreRow /\ Bound(row) \in RestoreRow
           /\ Followed(r, row) \in RestoreRow /\ Claimed(row, b) \in RestoreRow
           /\ InDoubt(row) \in RestoreRow /\ Settled(row) \in RestoreRow
           /\ InterruptedRestore(row) \in RestoreRow /\ Expiring(row, stored) \in RestoreRow
<1> USE RestoreFields DEF RestoreStatus, Cleanup
<1>1. Deleting(row) \in RestoreRow
  <2>1. row.status \in RestoreStatus
    BY DEF RestoreRow
  <2>2. QED
    BY <2>1, Zenon DEF Deleting
<1>2. Bound(row) \in RestoreRow
  BY Zenon DEF Bound
<1>3. Followed(r, row) \in RestoreRow /\ Claimed(row, b) \in RestoreRow
  BY Zenon DEF Followed, Claimed
<1>4. InDoubt(row) \in RestoreRow /\ Settled(row) \in RestoreRow
  BY Zenon DEF InDoubt, Settled
<1>5. InterruptedRestore(row) \in RestoreRow
  BY Zenon DEF InterruptedRestore
<1>6. Expiring(row, stored) \in RestoreRow
  BY Zenon DEF Expiring
<1>7. QED
  BY <1>1, <1>2, <1>3, <1>4, <1>5, <1>6

\* The rows that a release and the recovery of the store write are rows.
LEMMA TestRowsAre ==
    ASSUME NEW row \in TestRow
    PROVE  Released(row) \in TestRow /\ InterruptedTest(row) \in TestRow
BY TestFields, Zenon DEF Released, InterruptedTest, TestStatus

\* A request directory stays one, and only the test or restore meant is changed in it.
LEMMA AskedIs ==
    ASSUME TypeOK, NEW x \in Ids, NEW a, \E s : a \in RequestRelease(x, s)
    PROVE  a \in [Ids -> Requests]
<1>1. a = asked \/ a = [asked EXCEPT ![x] = "ready"]
  BY DEF RequestRelease
<1>2. QED
  BY <1>1 DEF TypeOK, Requests

\* The requests for a test and the claim of its worker keep the types.
LEMMA TestTypeNext ==
    ASSUME TypeOK, NEW t \in Tests,
           \/ \E p \in Policies : Enqueue(t, p)
           \/ CancelTest(t) \/ ClaimTest(t) \/ Reconcile(t) \/ RecoverTest(t)
    PROVE  TypeOK'
<1> USE DatabaseWorkAssumption DEF TypeOK, workers, targets, Ids
<1>0. /\ test[t] \in TestRow
      /\ tester = Idle \/ tester \in TestJob
      /\ [Idle EXCEPT !.id = t, !.pc = "stage"] \in TestJob
  BY DEF TestJob, Idle, TestSteps
<1>1. ASSUME NEW p \in Policies, Enqueue(t, p) PROVE TypeOK'
  <2>1. [[test[t] EXCEPT !.status = "queued"] EXCEPT !.policy = p] \in TestRow
    BY <1>0, TestFields, Zenon DEF TestStatus
  <2>2. QED
    BY <1>1, <2>1 DEF Enqueue
<1>2. CASE CancelTest(t)
  <2>1. PICK v \in TestStatus, c \in {"none", "cleanup", "other"} :
          test' = [test EXCEPT ![t].cancel = TRUE, ![t].status = v, ![t].code = c]
    BY <1>0, <1>2 DEF CancelTest, TestStatus, TestRow
  <2>2. [[[test[t] EXCEPT !.cancel = TRUE] EXCEPT !.status = v] EXCEPT !.code = c] \in TestRow
    BY <1>0, <2>1, TestFields, Zenon
  <2>3. test' \in [Tests -> TestRow]
    BY <2>1, <2>2
  <2>4. tester' = Idle \/ tester' \in TestJob
    <3>1. CASE tester = Idle
      BY <1>2, <3>1 DEF CancelTest, Idle
    <3>2. CASE tester \in TestJob
      BY <1>2, <3>2, JobFields, Zenon DEF CancelTest
    <3>3. QED
      BY <1>0, <3>1, <3>2
  <2>5. QED
    BY <1>2, <2>3, <2>4 DEF CancelTest, TestJob
<1>3. CASE ClaimTest(t)
  <2>1. [test[t] EXCEPT !.status = "running"] \in TestRow
    BY <1>0, TestFields, Zenon DEF TestStatus
  <2>2. QED
    BY <1>0, <1>3, <2>1 DEF ClaimTest, TestJob
<1>4. CASE Reconcile(t)
  <2>1. PICK v \in TestStatus, c \in {"none", "cleanup", "other"} :
          test' = [test EXCEPT ![t].session = "released", ![t].status = v, ![t].code = c]
    BY <1>0, <1>4 DEF Reconcile, TestStatus, TestRow
  <2>2. [[[test[t] EXCEPT !.session = "released"] EXCEPT !.status = v] EXCEPT !.code = c] \in TestRow
    BY <1>0, <2>1, TestFields, Zenon
  <2>3. test' \in [Tests -> TestRow]
    BY <2>1, <2>2
  <2>4. QED
    BY <1>4, <2>3 DEF Reconcile
<1>5. CASE RecoverTest(t)
  <2>1. PICK o \in CleanOutcomes(t, test[t].lease), clean \in BOOLEAN :
          /\ catalog' = [catalog EXCEPT ![t] = o[1]]
          /\ test' = [test EXCEPT ![t] = Released(
                 [@ EXCEPT !.lease = o[2], !.clean = clean, !.warned = ~clean])]
    BY <1>5 DEF RecoverTest
  <2>2. o[1] \in {"absent", "bare", "owned"} /\ o[2] \in BOOLEAN
    BY <1>0, CleanOutcomesAre DEF TestRow
  <2>3. Released([[[test[t] EXCEPT !.lease = o[2]] EXCEPT !.clean = clean] EXCEPT !.warned = ~clean])
          \in TestRow
    BY <1>0, <2>1, <2>2, TestRowsAre, TestFields, Zenon
  <2>4. test' \in [Tests -> TestRow] /\ catalog' \in [Ids -> {"absent", "bare", "owned"}]
    BY <2>1, <2>2, <2>3
  <2>5. asked' \in [Ids -> Requests]
    BY <1>5, AskedIs, Zenon DEF RecoverTest
  <2>6. QED
    BY <1>5, <2>4, <2>5 DEF RecoverTest
<1>6. QED
  BY <1>1, <1>2, <1>3, <1>4, <1>5

\* The steps of a test keep the types.
LEMMA TestStepTypeNext ==
    ASSUME TypeOK, NEW t \in Tests, TestStep(t)
    PROVE  TypeOK'
<1> USE DatabaseWorkAssumption DEF TypeOK, targets, Ids
<1>1. tester.id = t /\ tester \in TestJob /\ test[t] \in TestRow
  BY DEF TestStep, StageTest, PrepareTest, LeaseTest, CreateTest, MarkTest, ImportTest, FailTest,
         CleanTest, TidyTest, ReleaseTest, FinishTest, TestSucceeds, Idle, TestJob
<1>2. ASSUME NEW pc \in TestSteps PROVE [tester EXCEPT !.pc = pc] \in TestJob
  BY <1>1, <1>2, JobFields
<1>3. CASE StageTest(t)
  <2>1. tester' \in TestJob
    BY <1>1, <1>2, <1>3 DEF StageTest, TestSucceeds, TestSteps, TestRow, TestPolicies
  <2>2. [test[t] EXCEPT !.warned = @ \/ test[t].policy = "files"] \in TestRow
    BY <1>1, TestFields, Zenon
  <2>3. test' \in [Tests -> TestRow]
    BY <1>3, <2>2 DEF StageTest
  <2>4. QED
    BY <1>3, <2>1, <2>3 DEF StageTest, TestSucceeds, TestJob
<1>4. CASE PrepareTest(t)
  <2>1. [test[t] EXCEPT !.session = "open"] \in TestRow
    BY <1>1, TestFields, Zenon
  <2>2. tester' \in TestJob /\ test' \in [Tests -> TestRow]
    BY <1>2, <1>4, <2>1 DEF PrepareTest, TestSucceeds, TestSteps
  <2>3. QED
    BY <1>4, <2>2 DEF PrepareTest, TestSucceeds, TestJob
<1>5. CASE LeaseTest(t)
  <2>1. [test[t] EXCEPT !.lease = TRUE] \in TestRow
    BY <1>1, TestFields, Zenon
  <2>2. tester' \in TestJob /\ test' \in [Tests -> TestRow]
    BY <1>2, <1>5, <2>1 DEF LeaseTest, TestSucceeds, TestSteps
  <2>3. QED
    BY <1>5, <2>2 DEF LeaseTest, TestSucceeds, TestJob
<1>6. CASE CreateTest(t) \/ MarkTest(t) \/ ImportTest(t)
  <2>1. tester' \in TestJob
    BY <1>2, <1>6 DEF CreateTest, MarkTest, ImportTest, TestSucceeds, TestSteps
  <2>2. catalog' \in [Ids -> {"absent", "bare", "owned"}]
    BY <1>6 DEF CreateTest, MarkTest, ImportTest
  <2>3. QED
    BY <1>6, <2>1, <2>2 DEF CreateTest, MarkTest, ImportTest, TestSucceeds, TestJob
<1>7. CASE FailTest(t)
  <2>1. [[tester EXCEPT !.pc = "clean"] EXCEPT !.failed = TRUE] \in TestJob
    BY <1>1, JobFields, Zenon DEF TestSteps
  <2>2. catalog' \in [Ids -> {"absent", "bare", "owned"}]
    <3>1. PICK c \in {catalog[t], "bare", "owned"} : catalog' = [catalog EXCEPT ![t] = c]
      BY <1>7 DEF FailTest
    <3>2. QED
      BY <3>1
  <2>3. QED
    BY <1>7, <2>1, <2>2 DEF FailTest, TestJob
<1>8. CASE CleanTest(t)
  <2>1. PICK o \in CleanOutcomes(t, test[t].lease) :
          /\ catalog' = [catalog EXCEPT ![t] = o[1]]
          /\ test' = [test EXCEPT ![t].lease = o[2], ![t].clean = ~o[2]]
    BY <1>8 DEF CleanTest
  <2>2. o[1] \in {"absent", "bare", "owned"} /\ o[2] \in BOOLEAN
    BY <1>1, CleanOutcomesAre DEF TestRow
  <2>3. [[test[t] EXCEPT !.lease = o[2]] EXCEPT !.clean = ~o[2]] \in TestRow
    BY <1>1, <2>2, TestFields, Zenon
  <2>4. test' \in [Tests -> TestRow] /\ catalog' \in [Ids -> {"absent", "bare", "owned"}]
    BY <2>1, <2>2, <2>3
  <2>5. tester' \in TestJob
    BY <1>2, <1>8 DEF CleanTest, TestSteps
  <2>6. QED
    BY <1>8, <2>4, <2>5 DEF CleanTest, TestJob
<1>9. CASE TidyTest(t)
  <2>1. PICK clean \in BOOLEAN :
          test' = [test EXCEPT ![t].clean = clean, ![t].warned = @ \/ ~clean]
    BY <1>9, Zenon DEF TidyTest
  <2>2. [[test[t] EXCEPT !.clean = clean] EXCEPT !.warned = test[t].warned \/ ~clean] \in TestRow
    BY <1>1, <2>1, TestFields, Zenon
  <2>3. test' \in [Tests -> TestRow]
    BY <2>1, <2>2
  <2>4. tester' \in TestJob
    BY <1>2, <1>9 DEF TidyTest, TestSteps
  <2>5. QED
    BY <1>9, <2>3, <2>4 DEF TidyTest, TestJob
<1>10. CASE ReleaseTest(t)
  <2>1. test' \in [Tests -> TestRow]
    BY <1>1, <1>10, TestRowsAre DEF ReleaseTest
  <2>2. tester' \in TestJob
    BY <1>2, <1>10 DEF ReleaseTest, TestSteps
  <2>3. asked' \in [Ids -> Requests]
    BY <1>10, AskedIs DEF ReleaseTest
  <2>4. QED
    BY <1>10, <2>1, <2>2, <2>3 DEF ReleaseTest, TestJob
<1>11. CASE FinishTest(t)
  <2>1. PICK v \in TestStatus, c \in {"none", "cleanup", "other"} :
          test' = [test EXCEPT ![t].status = v, ![t].code = c]
    BY <1>1, <1>11 DEF FinishTest, Verdict, TestStatus
  <2>2. [[test[t] EXCEPT !.status = v] EXCEPT !.code = c] \in TestRow
    BY <1>1, <2>1, TestFields, Zenon
  <2>3. test' \in [Tests -> TestRow]
    BY <2>1, <2>2
  <2>4. QED
    BY <1>11, <2>3 DEF FinishTest
<1>12. QED
  BY <1>3, <1>4, <1>5, <1>6, <1>7, <1>8, <1>9, <1>10, <1>11 DEF TestStep

\* The requests for a restore, time and a dispatch keep the types.
LEMMA RestoreTypeNext ==
    ASSUME TypeOK, NEW r \in Restores,
           \/ \E m \in Modes : Create(r, m)
           \/ Delete(r) \/ TickExpired(r) \/ Inspect(r) \/ Expire(r) \/ Handle(r)
           \/ (\E a \in UserRequests : Operator(r, a)) \/ WriteRequest(r)
    PROVE  TypeOK'
<1> USE DatabaseWorkAssumption DEF TypeOK, workers, targets, Ids
<1>0. restore[r] \in RestoreRow /\ (restorer = Idle \/ restorer \in RestoreJob)
  BY DEF RestoreJob
<1>1. ASSUME NEW m \in Modes, Create(r, m) PROVE TypeOK'
  <2>1. PICK v \in RestoreStatus, b \in BOOLEAN :
          restore' = [restore EXCEPT ![r].status = v, ![r].mode = m, ![r].approval = b]
    BY <1>1, Zenon DEF Create, RestoreStatus
  <2>2. [[[restore[r] EXCEPT !.status = v] EXCEPT !.mode = m] EXCEPT !.approval = b] \in RestoreRow
    BY <1>0, <2>1, RestoreFields, Zenon
  <2>3. restore' \in [Restores -> RestoreRow]
    BY <2>1, <2>2
  <2>4. call' \in [Restores -> UserRequests \cup {"none"}]
    BY <1>1 DEF Create, UserRequests
  <2>5. QED
    BY <1>1, <2>3, <2>4 DEF Create
<1>2. CASE Delete(r) \/ TickExpired(r)
  <2>0. Deleting(restore[r]) \in RestoreRow
    BY <1>0, RestoreRowsAre, Zenon
  <2>1. restore' \in [Restores -> RestoreRow]
    BY <1>2, <2>0 DEF Delete, TickExpired
  <2>2. restorer' = Idle \/ restorer' \in RestoreJob
    <3>1. CASE restorer = Idle
      <4>1. restorer.id # r
        BY <3>1 DEF Idle
      <4>2. CASE Delete(r)
        BY <3>1, <4>1, <4>2 DEF Delete, Idle
      <4>3. QED
        BY <1>2, <4>1, <4>2 DEF TickExpired
    <3>2. CASE restorer \in RestoreJob
      <4>1. CASE Delete(r)
        BY <3>2, <4>1, JobFields, Zenon DEF Delete
      <4>2. CASE TickExpired(r)
        BY <3>2, <4>2, JobFields, Zenon DEF TickExpired
      <4>3. QED
        BY <1>2, <4>1, <4>2
    <3>3. QED
      BY <1>0, <3>1, <3>2
  <2>3. QED
    BY <1>2, <2>1, <2>2 DEF Delete, TickExpired, RestoreJob
<1>3. CASE Inspect(r)
  <2>1. restorer' \in RestoreJob
    BY <1>3 DEF Inspect, Idle, RestoreSteps, RestoreJob
  <2>2. QED
    BY <1>3, <2>1 DEF Inspect, RestoreJob
<1>4. CASE Expire(r)
  <2>1. [restore[r] EXCEPT !.expired = TRUE] \in RestoreRow
    BY <1>0, RestoreFields, Zenon
  <2>2. QED
    BY <1>4, <2>1 DEF Expire
<1>5. CASE Handle(r)
  <2> DEFINE row    == Expiring(pass[r], restore[r])
             stored == IF row = pass[r] THEN restore[r] ELSE row
  <2>1. row \in RestoreRow /\ stored \in RestoreRow
    BY <1>5, RestoreRowsAre DEF Handle
  <2>2. ASSUME NEW s \in RestoreRow, NEW k \in RestoreRow, ClaimRestore(r, s, k)
        PROVE  /\ restore' \in [Restores -> RestoreRow]
               /\ restorer' = restorer \/ restorer' \in RestoreJob
               /\ DOMAIN pass' \subseteq Restores /\ \A q \in DOMAIN pass' : pass'[q] \in RestoreRow
    <3>1. k.cancel \in BOOLEAN
      BY DEF RestoreRow
    <3>2. Claimed(s, k.cancel) \in RestoreRow
      BY <3>1, RestoreRowsAre, Zenon
    <3>3. ASSUME NEW pc \in RestoreSteps
          PROVE  [Idle EXCEPT !.id = r, !.pc = pc] \in RestoreJob
      BY DEF Idle, RestoreJob
    <3>4. CASE UNCHANGED restorer /\ restore' = [restore EXCEPT ![r] = s]
                 /\ pass' = [q \in DOMAIN pass \ {r} |-> pass[q]]
      BY <3>4
    <3>5. CASE /\ restore' = [restore EXCEPT ![r] = Claimed(s, k.cancel)]
               /\ restorer' = [Idle EXCEPT !.id = r, !.pc = IF k.cancel THEN "clean" ELSE "stage"]
               /\ pass' = <<>>
      <4>1. restorer' \in RestoreJob
        BY <3>3, <3>5 DEF RestoreSteps
      <4>2. QED
        BY <3>2, <3>5, <4>1
    <3>6. QED
      BY <2>2, <3>4, <3>5, Zenon DEF ClaimRestore
  <2>3. /\ Bound(stored) \in RestoreRow /\ Followed(r, stored) \in RestoreRow
        /\ [stored EXCEPT !.status = "deleted"] \in RestoreRow
    <3>1. \A k \in RestoreRow : Bound(k) \in RestoreRow /\ Followed(r, k) \in RestoreRow
      BY RestoreRowsAre, Zenon
    <3>2. "deleted" \in RestoreStatus
      BY DEF RestoreStatus
    <3> HIDE DEF row, stored
    <3>3. QED
      BY <2>1, <3>1, <3>2, RestoreFields, Zenon
  <2> HIDE DEF row, stored
  <2>4. \/ /\ restore' = [restore EXCEPT ![r] = [stored EXCEPT !.status = "deleted"]]
           /\ pass' = [q \in DOMAIN pass \ {r} |-> pass[q]]
           /\ UNCHANGED restorer
        \/ ClaimRestore(r, Bound(stored), Bound(stored))
        \/ ClaimRestore(r, Followed(r, stored), Followed(r, stored))
        \/ ClaimRestore(r, stored, row)
        \/ /\ restore' = [restore EXCEPT ![r] = stored]
           /\ pass' = [q \in DOMAIN pass \ {r} |-> pass[q]]
           /\ UNCHANGED restorer
    BY <1>5, Zenon DEF Handle, row, stored
  <2>5. /\ restore' \in [Restores -> RestoreRow]
        /\ restorer' = restorer \/ restorer' \in RestoreJob
        /\ DOMAIN pass' \subseteq Restores /\ \A q \in DOMAIN pass' : pass'[q] \in RestoreRow
    BY <2>1, <2>2, <2>3, <2>4
  <2>6. QED
    BY <1>0, <1>5, <2>5 DEF Handle, RestoreJob
<1>6. ASSUME NEW a \in UserRequests, Operator(r, a) PROVE TypeOK'
  BY <1>6 DEF Operator
<1>7. CASE WriteRequest(r)
  <2>1. asked' \in [Ids -> Requests]
    BY <1>7 DEF WriteRequest, Requests
  <2>2. QED
    BY <1>7, <2>1 DEF WriteRequest
<1>8. QED
  BY <1>1, <1>2, <1>3, <1>4, <1>5, <1>6, <1>7

\* The steps of a restore keep the types.
LEMMA RestoreStepTypeNext ==
    ASSUME TypeOK, NEW r \in Restores, RestoreStep(r)
    PROVE  TypeOK'
<1> USE DatabaseWorkAssumption DEF TypeOK, targets, Ids
<1>1. restorer.id = r /\ restorer \in RestoreJob /\ restore[r] \in RestoreRow
  <2>1. restorer.id = r
    BY Zenon DEF RestoreStep, StageRestore, CreateRestore, MarkRestore, ImportRestore,
       ActivateRestore, FailRestore, CleanRestore, SettleRestore, ReadyRestore, InspectEnds, RestoreSucceeds
  <2>2. QED
    BY <2>1 DEF Idle, RestoreJob
<1>2. ASSUME NEW pc \in RestoreSteps PROVE [restorer EXCEPT !.pc = pc] \in RestoreJob
  BY <1>1, <1>2, JobFields
<1>3. CASE StageRestore(r) \/ ImportRestore(r)
  <2>1. \A v \in {"held", "validated"} : [restore[r] EXCEPT !.lease = v] \in RestoreRow
    BY <1>1, RestoreFields, Zenon
  <2>2. restore' \in [Restores -> RestoreRow]
    BY <1>3, <2>1 DEF StageRestore, ImportRestore
  <2>3. restorer' \in RestoreJob
    BY <1>2, <1>3 DEF StageRestore, ImportRestore, RestoreSucceeds, RestoreSteps
  <2>4. QED
    BY <1>3, <2>2, <2>3 DEF StageRestore, ImportRestore, RestoreSucceeds, RestoreJob
<1>4. CASE CreateRestore(r) \/ MarkRestore(r)
  <2>1. restorer' \in RestoreJob
    BY <1>2, <1>4 DEF CreateRestore, MarkRestore, RestoreSucceeds, RestoreSteps
  <2>2. QED
    BY <1>4, <2>1 DEF CreateRestore, MarkRestore, RestoreSucceeds, RestoreJob
<1>5. CASE ActivateRestore(r)
  <2>1. [[restore[r] EXCEPT !.status = "active"] EXCEPT !.cleanup = "none"] \in RestoreRow
    BY <1>1, RestoreFields, Zenon DEF RestoreStatus, Cleanup
  <2>2. QED
    BY <1>5, <2>1 DEF ActivateRestore
<1>6. CASE FailRestore(r)
  <2>1. [[restore[r] EXCEPT !.cancel = TRUE] EXCEPT !.cleanup = "requested"] \in RestoreRow
    BY <1>1, RestoreFields, Zenon DEF Cleanup
  <2>2. restore' \in [Restores -> RestoreRow]
    BY <1>6, <2>1 DEF FailRestore
  <2>3. restorer' \in RestoreJob
    BY <1>2, <1>6 DEF FailRestore, RestoreSteps
  <2>4. PICK c \in {catalog[r], "bare", "owned"} : catalog' = [catalog EXCEPT ![r] = c]
    BY <1>6 DEF FailRestore
  <2>5. catalog' \in [Ids -> {"absent", "bare", "owned"}]
    BY <2>4
  <2>6. QED
    BY <1>6, <2>2, <2>3, <2>5 DEF FailRestore, RestoreJob
<1>7. CASE CleanRestore(r)
  <2>1. asked' \in [Ids -> Requests]
    BY <1>7 DEF CleanRestore, Requests
  <2>2. ASSUME NEW o \in CleanOutcomes(r, restore[r].lease # "none"), NEW done \in BOOLEAN,
               catalog' = [catalog EXCEPT ![r] = o[1]],
               LET row == [restore[r] EXCEPT !.lease = IF o[2] THEN @ ELSE "none"]
               IN  restore' = [restore EXCEPT ![r] = IF done THEN row ELSE InDoubt(row)],
               restorer' = IF done THEN [restorer EXCEPT !.pc = "settle"] ELSE Idle
        PROVE  /\ restore' \in [Restores -> RestoreRow]
               /\ catalog' \in [Ids -> {"absent", "bare", "owned"}]
               /\ restorer' = Idle \/ restorer' \in RestoreJob
    <3> DEFINE row == [restore[r] EXCEPT !.lease = IF o[2] THEN @ ELSE "none"]
    <3>1. o[1] \in {"absent", "bare", "owned"} /\ o[2] \in BOOLEAN
      BY CleanOutcomesAre, Zenon
    <3>2. restore[r].lease \in {"none", "held", "validated"}
      BY <1>1 DEF RestoreRow
    <3>3. row \in RestoreRow
      BY <1>1, <3>1, <3>2, RestoreFields, Zenon
    <3>4. InDoubt(row) \in RestoreRow
      BY <3>3, RestoreFields, Zenon DEF InDoubt, RestoreStatus, Cleanup
    <3> HIDE DEF row
    <3>5. restore' = [restore EXCEPT ![r] = row] \/ restore' = [restore EXCEPT ![r] = InDoubt(row)]
      BY <2>2, Zenon DEF row
    <3>6. restorer' = Idle \/ restorer' \in RestoreJob
      BY <1>2, <2>2 DEF RestoreSteps
    <3>7. QED
      BY <2>2, <3>1, <3>3, <3>4, <3>5, <3>6
  <2>3. CASE /\ restore' = [restore EXCEPT ![r] = InDoubt([@ EXCEPT !.approval = host[r] = "up"])]
             /\ restorer' = Idle /\ UNCHANGED catalog
    <3>1. [restore[r] EXCEPT !.approval = host[r] = "up"] \in RestoreRow
      BY <1>1, RestoreFields, Zenon
    <3>2. InDoubt([restore[r] EXCEPT !.approval = host[r] = "up"]) \in RestoreRow
      BY <3>1, RestoreRowsAre, Zenon
    <3>3. QED
      BY <1>7, <2>1, <2>3, <3>2 DEF CleanRestore
  <2>4. CASE /\ restore' = [restore EXCEPT ![r] = InDoubt(@)]
             /\ restorer' = Idle /\ UNCHANGED catalog
    <3>1. InDoubt(restore[r]) \in RestoreRow
      BY <1>1, RestoreRowsAre, Zenon
    <3>2. QED
      BY <1>7, <2>1, <2>4, <3>1 DEF CleanRestore
  <2>5. /\ restore' \in [Restores -> RestoreRow]
        /\ catalog' \in [Ids -> {"absent", "bare", "owned"}]
        /\ restorer' = Idle \/ restorer' \in RestoreJob
    BY <1>7, <2>2, <2>3, <2>4, Zenon DEF CleanRestore
  <2>6. QED
    BY <1>7, <2>1, <2>5 DEF CleanRestore, RestoreJob
<1>8. CASE SettleRestore(r)
  <2>1. restore' \in [Restores -> RestoreRow]
    <3>1. Settled(restore[r]) \in RestoreRow /\ InDoubt(restore[r]) \in RestoreRow
      BY <1>1, RestoreRowsAre, Zenon
    <3>2. QED
      BY <1>8, <3>1 DEF SettleRestore
  <2>2. restorer' = Idle \/ restorer' \in RestoreJob
    BY <1>2, <1>8 DEF SettleRestore, RestoreSteps
  <2>3. QED
    BY <1>8, <2>1, <2>2 DEF SettleRestore, RestoreJob
<1>9. CASE ReadyRestore(r)
  <2>1. InDoubt(restore[r]) \in RestoreRow
    BY <1>1, RestoreRowsAre, Zenon
  <2>2. restore' \in [Restores -> RestoreRow] /\ asked' \in [Ids -> Requests]
    BY <1>9, <2>1 DEF ReadyRestore, Requests
  <2>3. QED
    BY <1>9, <2>2 DEF ReadyRestore
<1>10. CASE InspectEnds(r)
  BY <1>10 DEF InspectEnds
<1>11. QED
  BY <1>3, <1>4, <1>5, <1>6, <1>7, <1>8, <1>9, <1>10 DEF RestoreStep

\* The states a script leaves a target in, and every script.
HostStates == {"up", "stopped", "removed", "never"}
HostStep(x) == \/ x \in Tests /\ HostTestStep(x)
               \/ x \in Restores /\ HostRestoreStep(x)

\* What a script does to the target it is run on, and to the database there.
LEMMA HostStepIs ==
    ASSUME NEW x \in Ids, HostStep(x)
    PROVE  /\ \E h \in HostStates : HostRuns(x, h)
           /\ catalog' = catalog \/ catalog' = [catalog EXCEPT ![x] = "absent"]
           /\ host[x] # "removed" /\ (host[x] = "never" => asked[x] = "provision")
BY DEF HostStep, HostTestStep, HostRestoreStep, HostProvision, HostStop, HostResume, HostDelete,
       HostVerifiesAbsence, HostActivate, HostDeactivate, HostStates

\* The operator, backups, crashes and the start of a dispatch keep the types.
LEMMA EnvironmentTypeNext ==
    ASSUME TypeOK,
           \/ DispatchStart \/ BackupStarts \/ BackupEnds \/ Crash \/ UNCHANGED vars
           \/ (\E t \in Tests : HostTestStep(t)) \/ (\E r \in Restores : HostRestoreStep(r))
    PROVE  TypeOK'
<1> USE DatabaseWorkAssumption DEF TypeOK, targets, workers
<1>1. CASE DispatchStart
  BY <1>1 DEF DispatchStart
<1>2. ASSUME NEW x \in Ids, HostStep(x) PROVE TypeOK'
  <2>1. PICK h \in HostStates : HostRuns(x, h)
    BY <1>2, HostStepIs
  <2>2. catalog' = catalog \/ catalog' = [catalog EXCEPT ![x] = "absent"]
    BY <1>2, HostStepIs
  <2>3. QED
    BY <2>1, <2>2 DEF HostRuns, HostStates
<1>3. CASE BackupStarts \/ BackupEnds
  BY <1>3 DEF BackupStarts, BackupEnds
<1>4. CASE Crash
  <2>1. test' \in [Tests -> TestRow] /\ restore' \in [Restores -> RestoreRow]
    <3>1. \A row \in TestRow : InterruptedTest(row) \in TestRow
      BY TestRowsAre
    <3>2. \A row \in RestoreRow : InterruptedRestore(row) \in RestoreRow
      BY RestoreRowsAre, Zenon
    <3>3. QED
      BY <1>4, <3>1, <3>2 DEF Crash
  <2>2. pending' \subseteq Tests /\ crashes' \in 0..MaxCrashes
    BY <1>4 DEF Crash
  <2>3. QED
    BY <1>4, <2>1, <2>2 DEF Crash
<1>5. CASE UNCHANGED vars
  BY <1>5 DEF vars
<1>6. QED
  BY <1>1, <1>2, <1>3, <1>4, <1>5 DEF HostStep, Ids

\* Every action keeps the types.
LEMMA TypeNext == TypeOK /\ [Next]_vars => TypeOK'
<1> SUFFICES ASSUME TypeOK, [Next]_vars PROVE TypeOK'
  OBVIOUS
<1>1. QED
  BY TestTypeNext, TestStepTypeNext, RestoreTypeNext, RestoreStepTypeNext, EnvironmentTypeNext
     DEF Next
-----------------------------------------------------------------------------
(* The operator's requests. *)

\* A restore's requests are as good as before when its deletion is not taken back.
LEMMA AskedFrame ==
    ASSUME NEW r \in Restores, AskedRestore(r), restore[r].cancel => restore'[r].cancel,
           restore'[r].cancel \/ restorer'.id = r => restore'[r].status # "none",
           asked'[r] = asked[r] \/ (asked'[r] \in {"delete", "ready"} /\ restore'[r].cancel),
           host'[r] = host[r], call'[r] = call[r],
           \/ restorer'.id = restorer.id /\ restorer'.pc = restorer.pc
           \/ restorer'.id # r \/ restorer'.pc \notin {"clean", "settle", "ready"}
           \/ restore'[r].cancel
    PROVE  AskedRestore(r)'
BY DEF AskedRestore

\* What is left to show of an action on one restore.
LEMMA AskedOthers ==
    ASSUME AskedInv, NEW r \in Restores, AskedRestore(r)', UNCHANGED host,
           \A q \in Restores \ {r} : /\ restore'[q] = restore[q] /\ asked'[q] = asked[q]
                                     /\ call'[q] = call[q],
           \/ restorer'.id = restorer.id /\ restorer'.pc = restorer.pc
           \/ restorer'.id \in {r, "none"}
    PROVE  AskedInv'
<1>1. ASSUME NEW q \in Restores, q # r PROVE AskedRestore(q)'
  <2>1. q # "none"
    BY DatabaseWorkAssumption
  <2>2. QED
    BY <1>1, <2>1, AskedFrame DEF AskedInv, AskedRestore
<1>2. QED
  BY <1>1 DEF AskedInv

\* The rows that requests, claims and cleanups write keep a recorded deletion.
LEMMA CancelKept ==
    ASSUME NEW row \in RestoreRow, NEW b \in BOOLEAN, NEW r, row.cancel => row.status # "none"
    PROVE  /\ row.cancel => Deleting(row).cancel /\ Deleting(row).status # "none"
           /\ Deleting(row).cancel \/ row.status # "none" => Deleting(row).status # "none"
           /\ Bound(row).cancel = row.cancel /\ Bound(row).status # "none"
           /\ Followed(r, row).cancel = row.cancel /\ Followed(r, row).status # "none"
           /\ Claimed(row, b).cancel = row.cancel /\ Claimed(row, b).status # "none"
           /\ InDoubt(row).cancel = row.cancel /\ InDoubt(row).status # "none"
           /\ Settled(row).cancel = row.cancel /\ Settled(row).status # "none"
<1>1. /\ row.cancel => Deleting(row).cancel /\ Deleting(row).status # "none"
      /\ Deleting(row).cancel \/ row.status # "none" => Deleting(row).status # "none"
  BY DEF Deleting, RestoreRow
<1>2. /\ Bound(row).cancel = row.cancel /\ Bound(row).status # "none"
      /\ Followed(r, row).cancel = row.cancel /\ Followed(r, row).status # "none"
      /\ Claimed(row, b).cancel = row.cancel /\ Claimed(row, b).status # "none"
  BY DEF Bound, Followed, Claimed, RestoreRow
<1>3. /\ InDoubt(row).cancel = row.cancel /\ InDoubt(row).status # "none"
      /\ Settled(row).cancel = row.cancel /\ Settled(row).status # "none"
  BY DEF InDoubt, Settled, RestoreRow
<1>4. QED
  BY <1>1, <1>2, <1>3

\* The actions on a test concern no restore.
LEMMA AskedTestNext ==
    ASSUME TypeOK, AskedInv, NEW t \in Tests,
           \/ \E p \in Policies : Enqueue(t, p)
           \/ CancelTest(t) \/ ClaimTest(t) \/ TestStep(t) \/ Reconcile(t) \/ RecoverTest(t)
    PROVE  AskedInv'
<1>1. UNCHANGED <<restore, restorer, host, call>>
  BY Zenon DEF Enqueue, CancelTest, ClaimTest, TestStep, Reconcile, RecoverTest, StageTest,
     PrepareTest, LeaseTest, CreateTest, MarkTest, ImportTest, FailTest, CleanTest, TidyTest,
     ReleaseTest, FinishTest, TestSucceeds, targets, workers
<1>2. asked' = asked \/ asked' = [asked EXCEPT ![t] = "ready"]
  <2>1. UNCHANGED asked \/ \E s : asked' \in RequestRelease(t, s)
    BY Zenon DEF Enqueue, CancelTest, ClaimTest, TestStep, Reconcile, RecoverTest, StageTest,
       PrepareTest, LeaseTest, CreateTest, MarkTest, ImportTest, FailTest, CleanTest, TidyTest,
       ReleaseTest, FinishTest, TestSucceeds, targets, workers
  <2>2. QED
    BY <2>1 DEF RequestRelease
<1>3. ASSUME NEW r \in Restores PROVE asked'[r] = asked[r]
  BY <1>2, <1>3, DatabaseWorkAssumption DEF TypeOK, Ids
<1>4. QED
  BY <1>1, <1>3 DEF AskedInv, AskedRestore

\* The requests for a restore, time and a dispatch.
LEMMA AskedRestoreNext ==
    ASSUME TypeOK, AskedInv, NEW r \in Restores,
           \/ \E m \in Modes : Create(r, m)
           \/ Delete(r) \/ TickExpired(r) \/ Inspect(r) \/ Expire(r) \/ Handle(r)
           \/ (\E a \in UserRequests : Operator(r, a)) \/ WriteRequest(r)
    PROVE  AskedInv'
<1> USE DEF targets, workers
<1>0. /\ restore[r] \in RestoreRow /\ restore \in [Restores -> RestoreRow] /\ AskedRestore(r)
      /\ restorer = Idle \/ restorer \in RestoreJob
      /\ asked \in [Ids -> Requests] /\ call \in [Restores -> UserRequests \cup {"none"}]
      /\ Restores \subseteq Ids /\ restore[r].cancel \in BOOLEAN
  BY DEF TypeOK, AskedInv, RestoreJob, Ids, RestoreRow
<1>1. ASSUME NEW m \in Modes, Create(r, m) PROVE AskedInv'
  <2>1. /\ restore[r].status = "none" /\ restore'[r].cancel = restore[r].cancel
        /\ restore'[r].status # "none"
        /\ UNCHANGED <<asked, host, restorer>>
        /\ \A q \in Restores \ {r} : restore'[q] = restore[q] /\ call'[q] = call[q]
    BY <1>0, <1>1 DEF Create, RestoreRow
  <2>2. AskedRestore(r)'
    BY <1>0, <2>1 DEF AskedRestore
  <2>3. QED
    BY <2>1, <2>2, AskedOthers
<1>2. CASE Delete(r) \/ TickExpired(r)
  <2>1. /\ restore' = [restore EXCEPT ![r] = Deleting(restore[r])] /\ UNCHANGED <<asked, host, call>>
        /\ \/ restorer' = [restorer EXCEPT !.aborted = restorer.aborted \/ restorer.id = r]
           \/ restorer' = [restorer EXCEPT !.aborted = TRUE]
    BY <1>2, Zenon DEF Delete, TickExpired
  <2>2. restorer'.id = restorer.id /\ restorer'.pc = restorer.pc
    BY <1>0, <2>1 DEF Idle, RestoreJob
  <2>3. /\ restore'[r] = Deleting(restore[r]) /\ \A q \in Restores \ {r} : restore'[q] = restore[q]
    BY <1>0, <2>1
  <2>4. /\ restore[r].cancel => Deleting(restore[r]).cancel
        /\ Deleting(restore[r]).cancel \/ restore[r].status # "none"
             => Deleting(restore[r]).status # "none"
    BY <1>0, CancelKept, Zenon DEF AskedRestore
  <2>5. AskedRestore(r)'
    BY <1>0, <2>1, <2>2, <2>3, <2>4, AskedFrame DEF AskedRestore
  <2>6. QED
    BY <2>1, <2>2, <2>3, <2>5, AskedOthers
<1>3. CASE Inspect(r)
  <2>1. /\ UNCHANGED <<restore, asked, host, call>> /\ restore[r].status = "active"
        /\ restorer'.id = r /\ restorer'.pc = "inspect"
    BY <1>3 DEF Inspect, Idle
  <2>2. AskedRestore(r)'
    BY <1>0, <2>1 DEF AskedRestore
  <2>3. QED
    BY <2>1, <2>2, AskedOthers
<1>4. CASE Expire(r)
  <2>1. /\ restore'[r].cancel = restore[r].cancel /\ restore'[r].status = restore[r].status
        /\ UNCHANGED <<asked, host, call, restorer>>
        /\ \A q \in Restores \ {r} : restore'[q] = restore[q]
    BY <1>0, <1>4 DEF Expire, RestoreRow
  <2>2. AskedRestore(r)'
    BY <1>0, <2>1 DEF AskedRestore
  <2>3. QED
    BY <2>1, <2>2, AskedOthers
<1>5. CASE Handle(r)
  <2> DEFINE row    == Expiring(pass[r], restore[r])
             stored == IF row = pass[r] THEN restore[r] ELSE row
  <2>0. /\ r \in DOMAIN pass /\ pass[r] \in RestoreRow /\ UNCHANGED <<asked, host, call>>
    BY <1>5 DEF Handle, TypeOK
  <2>1. /\ row \in RestoreRow /\ stored \in RestoreRow
        /\ restore[r].cancel => stored.cancel
        /\ stored.cancel \/ restore[r].status # "none" => stored.status # "none"
    <3>1. row \in RestoreRow /\ stored \in RestoreRow
      BY <1>0, <2>0, RestoreRowsAre
    <3>2. CASE row = pass[r]
      <4>1. stored = restore[r]
        BY <3>2
      <4> HIDE DEF stored, row
      <4>2. QED
        BY <1>0, <3>1, <4>1 DEF AskedRestore
    <3>3. CASE row # pass[r]
      <4>1. row = [restore[r] EXCEPT !.status = "expired", !.cancel = TRUE, !.cleanup = "requested"]
        BY <3>3 DEF Expiring
      <4>2. row.cancel = TRUE /\ row.status = "expired"
        BY <1>0, <4>1 DEF RestoreRow
      <4> HIDE DEF row
      <4>3. QED
        BY <3>1, <3>3, <4>2
    <3>4. QED
      BY <3>2, <3>3
  <2> HIDE DEF row, stored
  <2>2. ASSUME NEW s \in RestoreRow, NEW k \in RestoreRow, ClaimRestore(r, s, k),
               restore[r].cancel => s.cancel,
               s.cancel \/ restore[r].status # "none" => s.status # "none"
        PROVE  AskedInv'
    <3>1. k.cancel \in BOOLEAN /\ s.cancel \in BOOLEAN
      BY DEF RestoreRow
    <3>2. CASE UNCHANGED restorer /\ restore' = [restore EXCEPT ![r] = s]
      <4>1. restore'[r] = s /\ \A q \in Restores \ {r} : restore'[q] = restore[q]
        BY <1>0, <3>2
      <4>2. AskedRestore(r)'
        BY <1>0, <2>0, <2>2, <3>2, <4>1, AskedFrame DEF AskedRestore
      <4>3. QED
        BY <2>0, <3>2, <4>1, <4>2, AskedOthers
    <3>3. CASE /\ restore' = [restore EXCEPT ![r] = Claimed(s, k.cancel)]
               /\ restorer' = [Idle EXCEPT !.id = r, !.pc = IF k.cancel THEN "clean" ELSE "stage"]
               /\ Claims(s, k.cancel)
      <4>1. restore'[r] = Claimed(s, k.cancel) /\ \A q \in Restores \ {r} : restore'[q] = restore[q]
        BY <1>0, <3>3
      <4>2. Claimed(s, k.cancel).cancel = s.cancel /\ Claimed(s, k.cancel).status # "none"
        BY <3>1 DEF Claimed, RestoreRow
      <4>3. k.cancel => s.cancel
        BY <3>3 DEF Claims
      <4>4. restorer'.id = r /\ restorer'.pc = IF k.cancel THEN "clean" ELSE "stage"
        BY <3>3 DEF Idle
      <4>5. AskedRestore(r)'
        BY <1>0, <2>0, <2>2, <4>1, <4>2, <4>3, <4>4, AskedFrame
      <4>6. QED
        BY <2>0, <4>1, <4>4, <4>5, AskedOthers
    <3>4. QED
      BY <2>2, <3>2, <3>3, Zenon DEF ClaimRestore
  <2>3. /\ Bound(stored) \in RestoreRow /\ Followed(r, stored) \in RestoreRow
        /\ Bound(stored).cancel = stored.cancel /\ Bound(stored).status # "none"
        /\ Followed(r, stored).cancel = stored.cancel /\ Followed(r, stored).status # "none"
    <3>1. Bound(stored) \in RestoreRow /\ Followed(r, stored) \in RestoreRow
      BY <2>1, RestoreFields, Zenon DEF Bound, Followed, RestoreStatus
    <3>2. /\ Bound(stored).cancel = stored.cancel /\ Bound(stored).status # "none"
          /\ Followed(r, stored).cancel = stored.cancel /\ Followed(r, stored).status # "none"
      BY <2>1 DEF Bound, Followed, RestoreRow
    <3>3. QED
      BY <3>1, <3>2
  <2>4. CASE /\ restore' = [restore EXCEPT ![r] = [stored EXCEPT !.status = "deleted"]]
             /\ UNCHANGED restorer
    <3>1. restore'[r].cancel = stored.cancel /\ restore'[r].status = "deleted"
      BY <1>0, <2>1, <2>4 DEF RestoreRow
    <3>2. \A q \in Restores \ {r} : restore'[q] = restore[q]
      BY <1>0, <2>4
    <3>3. AskedRestore(r)'
      BY <1>0, <2>0, <2>1, <2>4, <3>1, AskedFrame
    <3>4. QED
      BY <2>0, <2>4, <3>2, <3>3, AskedOthers
  <2>5. CASE restore' = [restore EXCEPT ![r] = stored] /\ UNCHANGED restorer
    <3>1. restore'[r] = stored /\ \A q \in Restores \ {r} : restore'[q] = restore[q]
      BY <1>0, <2>5
    <3>2. AskedRestore(r)'
      BY <1>0, <2>0, <2>1, <2>5, <3>1, AskedFrame DEF AskedRestore
    <3>3. QED
      BY <2>0, <2>5, <3>1, <3>2, AskedOthers
  <2>6. CASE ClaimRestore(r, Bound(stored), Bound(stored))
    BY <2>1, <2>2, <2>3, <2>6, Zenon
  <2>7. CASE ClaimRestore(r, Followed(r, stored), Followed(r, stored))
    BY <2>1, <2>2, <2>3, <2>7, Zenon
  <2>8. CASE ClaimRestore(r, stored, row)
    BY <2>1, <2>2, <2>8, Zenon
  <2>9. QED
    BY <1>5, <2>4, <2>5, <2>6, <2>7, <2>8, Zenon DEF Handle, row, stored
<1>6. CASE (\E a \in UserRequests : Operator(r, a)) \/ WriteRequest(r)
  <2>1. /\ UNCHANGED <<restore, host, restorer>>
        /\ \A q \in Restores \ {r} : call'[q] = call[q] /\ asked'[q] = asked[q]
    BY <1>0, <1>6 DEF Operator, WriteRequest
  <2>2. ASSUME NEW a \in UserRequests, Operator(r, a) PROVE AskedRestore(r)'
    BY <1>0, <2>1, <2>2 DEF Operator, MayRequest, AskedRestore
  <2>3. ASSUME WriteRequest(r) PROVE AskedRestore(r)'
    <3>1. call[r] # "none" /\ asked'[r] \in {asked[r]} \cup UserRequests
      BY <1>0, <2>3 DEF WriteRequest
    <3>2. QED
      BY <1>0, <2>1, <3>1 DEF AskedRestore, UserRequests
  <2>4. QED
    BY <1>6, <2>1, <2>2, <2>3, AskedOthers
<1>7. QED
  BY <1>1, <1>2, <1>3, <1>4, <1>5, <1>6

\* The steps of a restore.
LEMMA AskedStepNext ==
    ASSUME TypeOK, AskedInv, NEW r \in Restores, RestoreStep(r)
    PROVE  AskedInv'
<1> USE DEF targets
<1>0. /\ restore[r] \in RestoreRow /\ restore \in [Restores -> RestoreRow] /\ AskedRestore(r)
      /\ asked \in [Ids -> Requests] /\ r \in Ids /\ Restores \subseteq Ids
      /\ restore[r].cancel \in BOOLEAN
  BY DEF TypeOK, AskedInv, Ids, RestoreRow
<1>1. restorer.id = r /\ restorer \in RestoreJob
  <2>1. restorer.id = r
    BY Zenon DEF RestoreStep, StageRestore, CreateRestore, MarkRestore, ImportRestore,
       ActivateRestore, FailRestore, CleanRestore, SettleRestore, ReadyRestore, InspectEnds,
       RestoreSucceeds
  <2>2. QED
    BY <2>1, DatabaseWorkAssumption DEF TypeOK, Idle, RestoreJob
<1>2. UNCHANGED <<host, call>>
  BY Zenon DEF RestoreStep, StageRestore, CreateRestore, MarkRestore, ImportRestore,
     ActivateRestore, FailRestore, CleanRestore, SettleRestore, ReadyRestore, InspectEnds,
     RestoreSucceeds
<1>3. (\E pc : restorer' = [restorer EXCEPT !.pc = pc]) \/ restorer' = Idle
  BY Zenon DEF RestoreStep, StageRestore, CreateRestore, MarkRestore, ImportRestore,
     ActivateRestore, FailRestore, CleanRestore, SettleRestore, ReadyRestore, InspectEnds,
     RestoreSucceeds
<1>4. restorer'.id \in {r, "none"}
  <2>1. ASSUME NEW pc, restorer' = [restorer EXCEPT !.pc = pc] PROVE restorer'.id = r
    BY <1>1, <2>1 DEF RestoreJob
  <2>2. QED
    BY <1>3, <2>1 DEF Idle
<1>5. ASSUME NEW row \in RestoreRow, restore' = [restore EXCEPT ![r] = row],
             restore[r].cancel => row.cancel, row.status # "none",
             \/ asked' = asked
             \/ \E a \in {"delete", "ready"} : asked' = [asked EXCEPT ![r] = a] /\ row.cancel,
             row.cancel \/ restorer'.id # r \/ restorer'.pc \notin {"clean", "settle", "ready"}
      PROVE  AskedInv'
  <2>1. restore'[r] = row /\ \A q \in Restores \ {r} : restore'[q] = restore[q]
    BY <1>0, <1>5
  <2>2. /\ asked'[r] = asked[r] \/ (asked'[r] \in {"delete", "ready"} /\ row.cancel)
        /\ \A q \in Restores \ {r} : asked'[q] = asked[q]
    BY <1>0, <1>5
  <2>3. AskedRestore(r)'
    BY <1>0, <1>2, <1>5, <2>1, <2>2, AskedFrame
  <2>4. QED
    BY <1>2, <1>4, <2>1, <2>2, <2>3, AskedOthers
<1>6. CASE StageRestore(r) \/ ImportRestore(r)
  <2>1. PICK v \in {"held", "validated"} : restore' = [restore EXCEPT ![r].lease = v]
    BY <1>6 DEF StageRestore, ImportRestore
  <2>2. /\ [restore[r] EXCEPT !.lease = v].cancel = restore[r].cancel
        /\ [restore[r] EXCEPT !.lease = v].status = restore[r].status
        /\ [restore[r] EXCEPT !.lease = v] \in RestoreRow
    BY <1>0 DEF RestoreRow
  <2>3. restorer'.pc \in {"create", "activate"} /\ asked' = asked
    BY <1>1, <1>6 DEF StageRestore, ImportRestore, RestoreSucceeds, RestoreJob
  <2>4. restore' = [restore EXCEPT ![r] = [restore[r] EXCEPT !.lease = v]]
    BY <2>1
  <2>5. QED
    BY <1>0, <1>1, <1>5, <2>2, <2>3, <2>4 DEF AskedRestore
<1>7. CASE CreateRestore(r) \/ MarkRestore(r) \/ InspectEnds(r)
  <2>1. restore' = restore /\ asked' = asked
    BY <1>7 DEF CreateRestore, MarkRestore, InspectEnds
  <2>2. restorer'.id # r \/ restorer'.pc \in {"mark", "import"}
    BY <1>1, <1>7, DatabaseWorkAssumption
       DEF CreateRestore, MarkRestore, InspectEnds, RestoreSucceeds, RestoreJob, Idle
  <2>3. AskedRestore(r)'
    BY <1>0, <1>1, <1>2, <2>1, <2>2 DEF AskedRestore
  <2>4. QED
    BY <1>2, <1>4, <2>1, <2>3, AskedOthers
<1>8. CASE ActivateRestore(r)
  <2>1. /\ restore'[r].cancel = restore[r].cancel /\ restore'[r].status = "active"
        /\ \A q \in Restores \ {r} : restore'[q] = restore[q]
    BY <1>0, <1>8 DEF ActivateRestore, RestoreRow
  <2>2. asked' = asked /\ restorer'.id # r
    BY <1>8, DatabaseWorkAssumption DEF ActivateRestore, Idle
  <2>3. AskedRestore(r)'
    BY <1>0, <1>2, <2>1, <2>2, AskedFrame
  <2>4. QED
    BY <1>2, <1>4, <2>1, <2>2, <2>3, AskedOthers
<1>9. CASE FailRestore(r)
  <2>1. /\ restore'[r].cancel = TRUE /\ restore'[r].status = restore[r].status
        /\ \A q \in Restores \ {r} : restore'[q] = restore[q]
    BY <1>0, <1>9 DEF FailRestore, RestoreRow
  <2>2. asked' = asked /\ restore[r].status # "none"
    BY <1>0, <1>1, <1>9 DEF FailRestore, AskedRestore
  <2>3. AskedRestore(r)'
    BY <1>0, <1>2, <2>1, <2>2 DEF AskedRestore
  <2>4. QED
    BY <1>2, <1>4, <2>1, <2>2, <2>3, AskedOthers
<1>10. CASE CleanRestore(r) \/ SettleRestore(r) \/ ReadyRestore(r)
  <2>1. restorer.pc \in {"clean", "settle", "ready"}
    BY <1>10 DEF CleanRestore, SettleRestore, ReadyRestore
  <2>2. restore[r].cancel /\ restore[r].status # "none"
    BY <1>0, <1>1, <2>1 DEF AskedRestore
  <2>3. \/ asked' = asked
        \/ \E a \in {"delete", "ready"} : asked' = [asked EXCEPT ![r] = a]
    BY <1>10 DEF CleanRestore, SettleRestore, ReadyRestore
  <2>4. PICK row \in RestoreRow :
          restore' = [restore EXCEPT ![r] = row] /\ row.cancel /\ row.status # "none"
    <3>1. /\ InDoubt(restore[r]) \in RestoreRow /\ Settled(restore[r]) \in RestoreRow
          /\ InDoubt(restore[r]).cancel /\ InDoubt(restore[r]).status # "none"
          /\ Settled(restore[r]).cancel /\ Settled(restore[r]).status # "none"
      <4>1. TRUE \in BOOLEAN
        OBVIOUS
      <4>2. QED
        BY <1>0, <2>2, <4>1, RestoreRowsAre, CancelKept, Zenon
    <3>2. CASE SettleRestore(r) \/ ReadyRestore(r)
      <4>1. \/ restore' = [restore EXCEPT ![r] = restore[r]]
            \/ restore' = [restore EXCEPT ![r] = InDoubt(restore[r])]
            \/ restore' = [restore EXCEPT ![r] = Settled(restore[r])]
        <5>1. \/ restore' = restore \/ restore' = [restore EXCEPT ![r] = InDoubt(restore[r])]
              \/ restore' = [restore EXCEPT ![r] = Settled(restore[r])]
          BY <3>2, Zenon DEF SettleRestore, ReadyRestore
        <5>2. restore = [restore EXCEPT ![r] = restore[r]]
          BY <1>0
        <5>3. QED
          BY <5>1, <5>2, Zenon
      <4>2. QED
        BY <1>0, <2>2, <3>1, <4>1, Zenon
    <3>3. CASE CleanRestore(r)
      <4>1. ASSUME NEW l \in {"none", "held", "validated"}
            PROVE  LET k == [restore[r] EXCEPT !.lease = l]
                   IN  /\ k \in RestoreRow /\ k.cancel = restore[r].cancel
                       /\ k.status = restore[r].status
        BY <1>0, <4>1 DEF RestoreRow
      <4>2. ASSUME NEW b \in BOOLEAN
            PROVE  LET k == [restore[r] EXCEPT !.approval = b]
                   IN  /\ k \in RestoreRow /\ k.cancel = restore[r].cancel
                       /\ k.status = restore[r].status
        BY <1>0, <4>2 DEF RestoreRow
      <4>3. ASSUME NEW k \in RestoreRow, k.cancel, k.status # "none"
            PROVE  InDoubt(k) \in RestoreRow /\ InDoubt(k).cancel /\ InDoubt(k).status # "none"
        <5>1. TRUE \in BOOLEAN
          OBVIOUS
        <5>2. QED
          BY <4>3, <5>1, RestoreRowsAre, CancelKept, Zenon
      <4>4. \/ restore' = [restore EXCEPT ![r] = InDoubt(restore[r])]
            \/ \E l \in {"none", "held", "validated"} :
                 \/ restore' = [restore EXCEPT ![r] = [restore[r] EXCEPT !.lease = l]]
                 \/ restore' = [restore EXCEPT ![r] = InDoubt([restore[r] EXCEPT !.lease = l])]
            \/ \E b \in BOOLEAN :
                 restore' = [restore EXCEPT ![r] = InDoubt([restore[r] EXCEPT !.approval = b])]
        <5>1. restore[r].lease \in {"none", "held", "validated"}
          BY <1>0 DEF RestoreRow
        <5>2. (host[r] = "up") \in BOOLEAN
          OBVIOUS
        <5>3. ASSUME NEW o, NEW done \in BOOLEAN,
                     LET row == [restore[r] EXCEPT !.lease = IF o[2] THEN @ ELSE "none"]
                     IN  restore' = [restore EXCEPT ![r] = IF done THEN row ELSE InDoubt(row)]
              PROVE  \E l \in {"none", "held", "validated"} :
                 \/ restore' = [restore EXCEPT ![r] = [restore[r] EXCEPT !.lease = l]]
                 \/ restore' = [restore EXCEPT ![r] = InDoubt([restore[r] EXCEPT !.lease = l])]
          <6> DEFINE l == IF o[2] THEN restore[r].lease ELSE "none"
          <6>1. l \in {"none", "held", "validated"}
            BY <5>1
          <6>2. \/ restore' = [restore EXCEPT ![r] = [restore[r] EXCEPT !.lease = l]]
                \/ restore' = [restore EXCEPT ![r] = InDoubt([restore[r] EXCEPT !.lease = l])]
            BY <5>3, Zenon
          <6> HIDE DEF l
          <6>3. QED
            BY <6>1, <6>2, Zenon
        <5>4. QED
          BY <3>3, <5>2, <5>3, Zenon DEF CleanRestore
      <4>5. QED
        BY <2>2, <3>1, <4>1, <4>2, <4>3, <4>4, Zenon
    <3>4. QED
      BY <1>10, <3>2, <3>3
  <2>5. QED
    BY <1>5, <2>3, <2>4
<1>11. QED
  BY <1>6, <1>7, <1>8, <1>9, <1>10 DEF RestoreStep

\* The operator, backups, crashes and the start of a dispatch.
LEMMA AskedEnvironmentNext ==
    ASSUME TypeOK, AskedInv,
           \/ DispatchStart \/ BackupStarts \/ BackupEnds \/ Crash \/ UNCHANGED vars
           \/ (\E t \in Tests : HostTestStep(t)) \/ (\E r \in Restores : HostRestoreStep(r))
    PROVE  AskedInv'
<1> USE DEF targets, workers
<1>1. CASE DispatchStart \/ BackupStarts \/ BackupEnds \/ UNCHANGED vars
  <2>1. UNCHANGED <<restore, restorer, asked, call, host>>
    BY <1>1, Zenon DEF DispatchStart, BackupStarts, BackupEnds, vars
  <2>2. QED
    BY <2>1 DEF AskedInv, AskedRestore
<1>2. CASE Crash
  <2>1. /\ UNCHANGED <<host, asked>> /\ restorer'.id = "none" /\ \A r \in Restores : call'[r] = "none"
    BY <1>2 DEF Crash, Idle
  <2>2. ASSUME NEW r \in Restores PROVE AskedRestore(r)'
    <3>1. restore[r] \in RestoreRow /\ restore'[r] = InterruptedRestore(restore[r]) /\ r # "none"
      BY <1>2, DatabaseWorkAssumption DEF Crash, TypeOK
    <3>2. /\ restore[r].cancel => restore'[r].cancel
          /\ restore'[r].cancel /\ ~restore[r].cancel => restore'[r].status # "none"
          /\ restore[r].status # "none" => restore'[r].status # "none"
      BY <3>1 DEF InterruptedRestore, RestoreRow
    <3>3. QED
      BY <2>1, <3>1, <3>2 DEF AskedInv, AskedRestore
  <2>3. QED
    BY <2>1, <2>2 DEF AskedInv
<1>3. ASSUME NEW x \in Ids, HostStep(x) PROVE AskedInv'
  <2>1. PICK h \in HostStates : HostRuns(x, h)
    BY <1>3, HostStepIs
  <2>2. UNCHANGED <<restore, restorer, asked, call>> /\ \A y \in Ids \ {x} : host'[y] = host[y]
    BY <2>1 DEF HostRuns, TypeOK
  <2>3. host'[x] = "never" => x \in Restores /\ asked[x] = "delete" /\ call[x] = "none"
    BY <1>3 DEF HostStep, HostTestStep, HostRestoreStep, HostProvision, HostStop, HostResume,
       HostDelete, HostVerifiesAbsence, HostActivate, HostDeactivate, HostRuns, TypeOK
  <2>4. QED
    BY <2>2, <2>3, DatabaseWorkAssumption DEF AskedInv, AskedRestore, Ids
<1>4. QED
  BY <1>1, <1>2, <1>3 DEF HostStep, Ids

\* Every action keeps what the requests say.
LEMMA AskedInvNext == TypeOK /\ AskedInv /\ [Next]_vars => AskedInv'
<1> SUFFICES ASSUME TypeOK, AskedInv, [Next]_vars PROVE AskedInv'
  OBVIOUS
<1>1. QED
  BY AskedTestNext, AskedRestoreNext, AskedStepNext, AskedEnvironmentNext DEF Next
-----------------------------------------------------------------------------
(* One worker. *)

\* A worker is idle exactly when it has no test or restore.
LEMMA IdleIs ==
    ASSUME TypeOK
    PROVE  /\ \A t \in Tests : tester.id = t => tester # Idle
           /\ \A r \in Restores : restorer.id = r => restorer # Idle
           /\ tester # Idle => tester.id \in Tests
           /\ restorer # Idle => restorer.id \in Restores
BY DatabaseWorkAssumption DEF TypeOK, Idle

\* A test, or a restore, is as good as before when nothing about it changes.
LEMMA TestFrame ==
    ASSUME NEW t \in Tests, TestInv(t), test'[t] = test[t], catalog'[t] = catalog[t],
           host[t] = "removed" => host'[t] = "removed",
           \/ tester'.id = tester.id /\ tester'.pc = tester.pc
           \/ tester.id # t /\ tester'.id # t
    PROVE  TestInv(t)'
BY DEF TestInv

\* The same for a restore, which a dispatch may also stop looking at.
LEMMA RestoreFrame ==
    ASSUME NEW r \in Restores, RestoreInv(r), restore'[r] = restore[r], catalog'[r] = catalog[r],
           host[r] \in {"removed", "never"} => host'[r] \in {"removed", "never"},
           r \in DOMAIN pass' => r \in DOMAIN pass,
           \/ restorer'.id = restorer.id /\ restorer'.pc = restorer.pc
           \/ restorer.id # r /\ restorer'.id # r
    PROVE  RestoreInv(r)'
BY DEF RestoreInv

\* What is left to show of an action on one test.
LEMMA OnlyTest ==
    ASSUME WorkInv, NEW t \in Tests, TestInv(t)', UNCHANGED <<restore, restorer, pass, host>>,
           \A u \in Tests \ {t} : test'[u] = test[u],
           \A x \in Ids \ {t} : catalog'[x] = catalog[x],
           \/ tester'.id = tester.id /\ tester'.pc = tester.pc
           \/ tester.id \in {t, "none"} /\ tester'.id \in {t, "none"}
    PROVE  (\A u \in Tests : TestInv(u)') /\ (\A r \in Restores : RestoreInv(r)')
<1> USE DatabaseWorkAssumption DEF Ids
<1>1. ASSUME NEW u \in Tests, u # t PROVE TestInv(u)'
  BY <1>1, TestFrame DEF WorkInv
<1>2. ASSUME NEW r \in Restores PROVE RestoreInv(r)'
  BY <1>2, RestoreFrame DEF WorkInv
<1>3. QED
  BY <1>1, <1>2

\* What is left to show of an action on one restore.
LEMMA OnlyRestore ==
    ASSUME WorkInv, NEW r \in Restores, RestoreInv(r)', UNCHANGED <<test, tester, host>>,
           \A q \in Restores \ {r} : restore'[q] = restore[q],
           \A x \in Ids \ {r} : catalog'[x] = catalog[x],
           DOMAIN pass' \subseteq DOMAIN pass,
           \/ restorer'.id = restorer.id /\ restorer'.pc = restorer.pc
           \/ restorer.id \in {r, "none"} /\ restorer'.id \in {r, "none"}
    PROVE  (\A t \in Tests : TestInv(t)') /\ (\A q \in Restores : RestoreInv(q)')
<1> USE DatabaseWorkAssumption DEF Ids
<1>1. ASSUME NEW q \in Restores, q # r PROVE RestoreInv(q)'
  BY <1>1, RestoreFrame DEF WorkInv
<1>2. ASSUME NEW t \in Tests PROVE TestInv(t)'
  BY <1>2, TestFrame DEF WorkInv
<1>3. QED
  BY <1>1, <1>2
-----------------------------------------------------------------------------
(* The steps of tests. *)

\* What the recovery at startup makes of a test, with the outcome of its cleanup.
LEMMA RecoveredRow ==
    ASSUME TypeOK, NEW t \in Tests, RecoverTest(t)
    PROVE  \E o \in CleanOutcomes(t, test[t].lease), row \in TestRow :
             /\ catalog' = [catalog EXCEPT ![t] = o[1]]
             /\ test' = [test EXCEPT ![t] = row]
             /\ row.status = test[t].status /\ row.lease = o[2]
             /\ row.session = test[t].session \/ test[t].session = "open"
<1>0. test[t] \in TestRow
  BY DEF TypeOK
<1>1. PICK o \in CleanOutcomes(t, test[t].lease), clean \in BOOLEAN :
        /\ catalog' = [catalog EXCEPT ![t] = o[1]]
        /\ test' = [test EXCEPT ![t] = Released(
               [@ EXCEPT !.lease = o[2], !.clean = clean, !.warned = ~clean])]
  BY DEF RecoverTest
<1>2. o[2] \in BOOLEAN
  BY <1>0, CleanOutcomesAre DEF TestRow, Ids
<1> DEFINE row == [[[test[t] EXCEPT !.lease = o[2]] EXCEPT !.clean = clean] EXCEPT !.warned = ~clean]
<1>3. row \in TestRow
  BY <1>0, <1>1, <1>2, TestFields, Zenon
<1>4. row.status = test[t].status /\ row.lease = o[2] /\ row.session = test[t].session
  BY <1>0, <1>3 DEF TestRow
<1>5. test' = [test EXCEPT ![t] = Released(row)]
  BY <1>1
<1> HIDE DEF row
<1>6. /\ Released(row) \in TestRow /\ Released(row).status = row.status
      /\ Released(row).lease = row.lease
      /\ Released(row).session = row.session \/ row.session = "open"
  BY <1>3, TestRowsAre DEF Released, TestRow
<1>7. QED
  BY <1>1, <1>4, <1>5, <1>6

\* The requests for a test, its claim, its recovery and its receipt keep the invariant.
LEMMA TestNext ==
    ASSUME WorkInv, TypeOK', NEW t \in Tests,
           \/ \E p \in Policies : Enqueue(t, p)
           \/ CancelTest(t) \/ ClaimTest(t) \/ Reconcile(t) \/ RecoverTest(t)
    PROVE  WorkInv'
<1> USE DatabaseWorkAssumption DEF workers, targets
<1>0. /\ test[t] \in TestRow /\ TestInv(t)
      /\ test \in [Tests -> TestRow]
  BY DEF WorkInv, TypeOK
<1>1. ASSUME NEW p \in Policies, Enqueue(t, p) PROVE WorkInv'
  <2>1. /\ test'[t].status = "queued" /\ test[t].status = "none"
        /\ test'[t].lease = test[t].lease /\ test'[t].clean = test[t].clean
        /\ test'[t].warned = test[t].warned
        /\ \A u \in Tests \ {t} : test'[u] = test[u]
    BY <1>0, <1>1 DEF Enqueue, TestRow
  <2>2. TestInv(t)'
    BY <1>0, <1>1, <2>1 DEF Enqueue, TestInv
  <2>3. QED
    BY <1>1, <2>1, <2>2, OnlyTest DEF Enqueue, WorkInv, Exclusive
<1>2. CASE CancelTest(t)
  <2>1. /\ test'[t].status = IF test[t].status = "queued" THEN "cancelled" ELSE test[t].status
        /\ test[t].status \in {"queued", "running"}
        /\ test'[t].lease = test[t].lease /\ test'[t].clean = test[t].clean
        /\ test'[t].warned = test[t].warned
        /\ \A u \in Tests \ {t} : test'[u] = test[u]
    BY <1>2 DEF CancelTest, WorkInv, TypeOK, TestRow
  <2>2. tester'.id = tester.id /\ tester'.pc = tester.pc /\ (tester = Idle => tester' = Idle)
    BY <1>2 DEF CancelTest, WorkInv, TypeOK, Idle
  <2>3. TestInv(t)'
    BY <1>0, <1>2, <2>1, <2>2 DEF CancelTest, TestInv
  <2>4. QED
    BY <1>2, <2>1, <2>2, <2>3, OnlyTest DEF CancelTest, WorkInv, Exclusive
<1>3. CASE ClaimTest(t)
  <2>1. /\ test'[t].status = "running" /\ test[t].status = "queued"
        /\ test'[t].lease = test[t].lease
        /\ \A u \in Tests \ {t} : test'[u] = test[u]
    BY <1>3 DEF ClaimTest, MayClaim, WorkInv, TypeOK, TestRow
  <2>2. tester.id = "none" /\ tester'.id = t /\ tester'.pc = "stage"
    BY <1>3 DEF ClaimTest, Idle
  <2>3. TestInv(t)'
    BY <1>0, <1>3, <2>1, <2>2 DEF ClaimTest, TestInv
  <2>4. restorer = Idle \/ restorer.pc \in {"ready", "inspect"}
    BY <1>3 DEF ClaimTest, MayClaim, Busy, RestoreWorking, WorkInv, RestoreInv, TypeOK
  <2>5. Exclusive'
    BY <1>3, <2>4 DEF ClaimTest, Serving, WorkInv, Exclusive
  <2>6. QED
    BY <1>3, <2>1, <2>2, <2>3, <2>5, OnlyTest DEF ClaimTest, WorkInv
<1>4. CASE Reconcile(t)
  <2>1. /\ test'[t].status \in {test[t].status, "warned", "passed"} /\ test[t].status # "running"
        /\ test'[t].lease = test[t].lease /\ ~test[t].lease /\ host[t] = "removed"
        /\ test'[t].session = "released"
        /\ \A u \in Tests \ {t} : test'[u] = test[u]
    BY <1>4 DEF Reconcile, Reconcilable, WorkInv, TypeOK, TestRow
  <2>2. TestInv(t)'
    BY <1>0, <1>4, <2>1 DEF Reconcile, TestInv
  <2>3. QED
    BY <1>4, <2>1, <2>2, OnlyTest DEF Reconcile, WorkInv, Exclusive
<1>5. CASE RecoverTest(t)
  <2>1. PICK o \in CleanOutcomes(t, test[t].lease), row \in TestRow :
          /\ catalog' = [catalog EXCEPT ![t] = o[1]]
          /\ test' = [test EXCEPT ![t] = row]
          /\ row.status = test[t].status /\ row.lease = o[2]
          /\ row.session = test[t].session \/ test[t].session = "open"
    BY <1>5, RecoveredRow DEF WorkInv
  <2>2. /\ o[1] \in {catalog[t], "absent"} /\ o[2] \in BOOLEAN
        /\ (o[2] => test[t].lease) /\ (test[t].lease /\ ~o[2] => o[1] = "absent")
    BY <1>0, CleanOutcomesAre DEF TestRow, WorkInv, Ids
  <2>3. test'[t] = row /\ \A u \in Tests \ {t} : test'[u] = test[u]
    BY <1>0, <2>1
  <2>4. tester = Idle /\ tester.id # t
    <3>1. pending # {}
      BY <1>5 DEF RecoverTest
    <3>2. QED
      BY <3>1 DEF WorkInv, Exclusive, Idle
  <2>5. catalog'[t] = o[1] /\ \A x \in Ids \ {t} : catalog'[x] = catalog[x]
    BY <2>1 DEF WorkInv, TypeOK, Ids
  <2>6. TestInv(t)'
    BY <1>0, <1>5, <2>1, <2>2, <2>3, <2>4, <2>5 DEF RecoverTest, TestInv
  <2>7. Exclusive'
    BY <1>5 DEF RecoverTest, WorkInv, Exclusive
  <2>8. QED
    BY <1>5, <2>3, <2>5, <2>6, <2>7, OnlyTest DEF RecoverTest, WorkInv
<1>6. QED
  BY <1>1, <1>2, <1>3, <1>4, <1>5

\* The steps of a test keep the invariant.
LEMMA TestStepNext ==
    ASSUME WorkInv, TypeOK', NEW t \in Tests, TestStep(t)
    PROVE  WorkInv'
<1> USE DatabaseWorkAssumption DEF targets
<1>0. /\ test[t] \in TestRow /\ test \in [Tests -> TestRow] /\ TestInv(t)
      /\ catalog \in [Ids -> {"absent", "bare", "owned"}] /\ t \in Ids
  BY DEF WorkInv, TypeOK, Ids
<1>1. tester.id = t /\ tester \in TestJob
  <2>1. tester.id = t
    BY Zenon DEF TestStep, StageTest, PrepareTest, LeaseTest, CreateTest, MarkTest, ImportTest,
       FailTest, CleanTest, TidyTest, ReleaseTest, FinishTest, TestSucceeds
  <2>2. QED
    BY <2>1 DEF WorkInv, TypeOK, Idle, TestJob
<1>2. /\ UNCHANGED <<restore, restorer, pass, pending, host>>
      /\ \A x \in Ids \ {t} : catalog'[x] = catalog[x]
      /\ \A u \in Tests \ {t} : test'[u] = test[u]
  <2>1. UNCHANGED <<restore, restorer, pass, pending, host>>
    BY Zenon DEF TestStep, StageTest, PrepareTest, LeaseTest, CreateTest, MarkTest, ImportTest,
       FailTest, CleanTest, TidyTest, ReleaseTest, FinishTest, TestSucceeds
  <2>2. ASSUME NEW x \in Ids, x # t PROVE catalog'[x] = catalog[x]
    BY <1>0, <2>2 DEF TestStep, StageTest, PrepareTest, LeaseTest, CreateTest, MarkTest, ImportTest,
       FailTest, CleanTest, TidyTest, ReleaseTest, FinishTest, TestSucceeds
  <2>3. ASSUME NEW u \in Tests, u # t PROVE test'[u] = test[u]
    BY <1>0, <2>3 DEF TestStep, StageTest, PrepareTest, LeaseTest, CreateTest, MarkTest, ImportTest,
       FailTest, CleanTest, TidyTest, ReleaseTest, FinishTest, TestSucceeds
  <2>4. QED
    BY <2>1, <2>2, <2>3
<1>3. tester'.id \in {t, "none"}
  <2>1. \/ \E pc : tester' = [tester EXCEPT !.pc = pc]
        \/ tester' = [tester EXCEPT !.pc = "clean", !.failed = TRUE]
        \/ tester' = Idle
    BY Zenon DEF TestStep, StageTest, PrepareTest, LeaseTest, CreateTest, MarkTest, ImportTest,
       FailTest, CleanTest, TidyTest, ReleaseTest, FinishTest, TestSucceeds
  <2>2. ASSUME NEW pc, tester' = [tester EXCEPT !.pc = pc] PROVE tester'.id = t
    BY <1>1, <2>2 DEF TestJob
  <2>3. CASE tester' = [tester EXCEPT !.pc = "clean", !.failed = TRUE]
    BY <1>1, <2>3 DEF TestJob
  <2>4. CASE tester' = Idle
    BY <2>4 DEF Idle
  <2>5. QED
    BY <2>1, <2>2, <2>3, <2>4
<1>4. Exclusive'
  BY <1>1, <1>2, IdleIs DEF WorkInv, Exclusive
<1>5. TestInv(t)'
  <2>0. test[t].status = "running"
    BY <1>0, <1>1 DEF TestInv
  <2>1. CASE StageTest(t)
    <3>1. /\ test'[t].status = test[t].status /\ test'[t].lease = test[t].lease
          /\ catalog'[t] = catalog[t]
      BY <1>0, <2>1 DEF StageTest, TestRow
    <3>2. tester'.id = t /\ tester'.pc \in {"clean", "lease", "prepare"}
      BY <1>0, <1>1, <2>1 DEF StageTest, TestSucceeds, TestRow, TestPolicies, TestJob
    <3>3. QED
      BY <1>0, <2>0, <3>1, <3>2 DEF TestInv
  <2>2. CASE PrepareTest(t)
    <3>1. /\ test'[t].status = test[t].status /\ test'[t].lease = test[t].lease
          /\ catalog'[t] = catalog[t]
      BY <1>0, <2>2 DEF PrepareTest, TestRow
    <3>2. tester'.id = t /\ tester'.pc = "lease"
      BY <1>1, <2>2 DEF PrepareTest, TestSucceeds, TestJob
    <3>3. QED
      BY <1>0, <2>0, <3>1, <3>2 DEF TestInv
  <2>3. CASE LeaseTest(t)
    <3>1. test'[t].status = test[t].status /\ test'[t].lease
      BY <1>0, <2>3 DEF LeaseTest, TestRow
    <3>2. tester'.id = t /\ tester'.pc = "create"
      BY <1>1, <2>3 DEF LeaseTest, TestSucceeds, TestJob
    <3>3. QED
      BY <2>0, <3>1, <3>2 DEF TestInv
  <2>4. CASE CreateTest(t) \/ MarkTest(t) \/ ImportTest(t)
    <3>1. test' = test /\ test[t].lease
      BY <1>0, <1>1, <2>4 DEF CreateTest, MarkTest, ImportTest, TestSucceeds, TestInv
    <3>2. tester'.id = t /\ tester'.pc \in {"mark", "import", "clean"}
      BY <1>1, <2>4 DEF CreateTest, MarkTest, ImportTest, TestSucceeds, TestJob
    <3>3. QED
      BY <2>0, <3>1, <3>2 DEF TestInv
  <2>5. CASE FailTest(t)
    <3>1. test' = test /\ (catalog'[t] = catalog[t] \/ test[t].lease)
      BY <1>0, <1>1, <2>5 DEF FailTest, TestInv
    <3>2. tester'.id = t /\ tester'.pc = "clean"
      BY <1>1, <2>5 DEF FailTest, TestJob
    <3>3. QED
      BY <1>0, <2>0, <3>1, <3>2 DEF TestInv
  <2>6. CASE CleanTest(t)
    <3>1. PICK o \in CleanOutcomes(t, test[t].lease) :
            /\ catalog' = [catalog EXCEPT ![t] = o[1]]
            /\ test' = [test EXCEPT ![t].lease = o[2], ![t].clean = ~o[2]]
      BY <2>6 DEF CleanTest
    <3>2. /\ o[1] \in {catalog[t], "absent"} /\ o[2] \in BOOLEAN
          /\ (o[2] => test[t].lease) /\ (test[t].lease /\ ~o[2] => o[1] = "absent")
      BY <1>0, CleanOutcomesAre DEF TestRow, WorkInv
    <3>3. /\ test'[t].status = test[t].status /\ test'[t].lease = o[2]
          /\ test'[t].clean = ~o[2] /\ catalog'[t] = o[1]
      BY <1>0, <3>1, <3>2 DEF TestRow
    <3>4. tester'.id = t /\ tester'.pc = "tidy"
      BY <1>1, <2>6 DEF CleanTest, TestJob
    <3>5. QED
      BY <1>0, <2>0, <3>2, <3>3, <3>4 DEF TestInv
  <2>7. CASE TidyTest(t)
    <3>1. PICK clean \in BOOLEAN :
            /\ test' = [test EXCEPT ![t].clean = clean, ![t].warned = @ \/ ~clean]
            /\ clean => test[t].clean
      BY <2>7, Zenon DEF TidyTest
    <3>2. /\ test'[t].status = test[t].status /\ test'[t].lease = test[t].lease
          /\ test'[t].clean = clean /\ (~clean => test'[t].warned)
      BY <1>0, <3>1 DEF TestRow
    <3>3. tester'.id = t /\ tester'.pc \in {"finish", "release"} /\ tester.pc = "tidy"
      BY <1>1, <2>7 DEF TidyTest, TestJob
    <3>4. catalog' = catalog
      BY <2>7 DEF TidyTest
    <3>5. QED
      BY <1>0, <1>1, <2>0, <3>1, <3>2, <3>3, <3>4 DEF TestInv
  <2>8. CASE ReleaseTest(t)
    <3>1. /\ test'[t].status = test[t].status /\ test'[t].lease = test[t].lease
          /\ test'[t].clean = test[t].clean /\ test'[t].warned = test[t].warned
      BY <1>0, <2>8 DEF ReleaseTest, Released, TestRow
    <3>2. tester'.id = t /\ tester'.pc = "finish" /\ tester.pc = "release"
      BY <1>1, <2>8 DEF ReleaseTest, TestJob
    <3>3. catalog' = catalog
      BY <2>8 DEF ReleaseTest
    <3>4. QED
      BY <1>0, <1>1, <2>0, <3>1, <3>2, <3>3 DEF TestInv
  <2>9. CASE FinishTest(t)
    <3>1. /\ test'[t].status # "running" /\ test'[t].lease = test[t].lease
          /\ test'[t].session = test[t].session
          /\ test'[t].status = "passed" => test[t].session = "none" /\ ~test[t].warned
      BY <1>0, <2>9 DEF FinishTest, Verdict, TestRow
    <3>2. tester'.id = "none" /\ tester.pc = "finish" /\ catalog' = catalog
      BY <2>9 DEF FinishTest, Idle
    <3>3. QED
      BY <1>0, <1>1, <3>1, <3>2 DEF TestInv
  <2>10. QED
    BY <2>1, <2>2, <2>3, <2>4, <2>5, <2>6, <2>7, <2>8, <2>9 DEF TestStep
<1>6. QED
  BY <1>1, <1>2, <1>3, <1>4, <1>5, OnlyTest DEF WorkInv
-----------------------------------------------------------------------------
(* The steps of restores. *)

\* The requests for a restore, time and a dispatch keep the invariant.
LEMMA RestoreNext ==
    ASSUME WorkInv, TypeOK', NEW r \in Restores,
           \/ \E m \in Modes : Create(r, m)
           \/ Delete(r) \/ TickExpired(r) \/ Inspect(r) \/ Expire(r) \/ Handle(r)
           \/ (\E a \in UserRequests : Operator(r, a)) \/ WriteRequest(r)
    PROVE  WorkInv'
<1> USE DatabaseWorkAssumption DEF workers, targets
<1>0. /\ restore[r] \in RestoreRow /\ restore \in [Restores -> RestoreRow] /\ RestoreInv(r)
      /\ restorer = Idle \/ restorer \in RestoreJob
  BY DEF WorkInv, TypeOK, RestoreJob
<1>1. ASSUME NEW m \in Modes, Create(r, m) PROVE WorkInv'
  <2>1. /\ restore'[r].status \in {"provisioning_required", "queued"} /\ restore[r].status = "none"
        /\ restore'[r].lease = restore[r].lease
        /\ \A q \in Restores \ {r} : restore'[q] = restore[q]
    BY <1>0, <1>1 DEF Create, RestoreRow
  <2>2. RestoreInv(r)'
    BY <1>0, <1>1, <2>1 DEF Create, RestoreInv
  <2>3. QED
    BY <1>1, <2>1, <2>2, OnlyRestore DEF Create, WorkInv, Exclusive
<1>2. CASE Delete(r) \/ TickExpired(r)
  <2>1. /\ restore'[r].lease = restore[r].lease /\ restore'[r].mode = restore[r].mode
        /\ \/ restore'[r].status = restore[r].status
           \/ /\ restore[r].status \notin {"importing", "deleting", "none", "deleted"}
              /\ restore'[r].status = "cleanup_required"
        /\ \A q \in Restores \ {r} : restore'[q] = restore[q]
    <3> DEFINE row == Deleting(restore[r])
    <3>1. row.lease = restore[r].lease /\ row.mode = restore[r].mode
      BY <1>0 DEF Deleting, RestoreRow
    <3>2. \/ row.status = restore[r].status
          \/ /\ restore[r].status \notin {"importing", "deleting", "none", "deleted"}
             /\ row.status = "cleanup_required"
      BY <1>0 DEF Deleting, RestoreRow
    <3>3. restore' = [restore EXCEPT ![r] = row]
      BY <1>2 DEF Delete, TickExpired
    <3> HIDE DEF row
    <3>4. QED
      BY <1>0, <3>1, <3>2, <3>3
  <2>2. restorer'.id = restorer.id /\ restorer'.pc = restorer.pc /\ (restorer = Idle => restorer' = Idle)
    <3>1. CASE restorer = Idle
      <4>1. restorer.id # r
        BY <3>1 DEF Idle
      <4>2. CASE Delete(r)
        BY <3>1, <4>1, <4>2 DEF Delete, Idle
      <4>3. QED
        BY <1>2, <4>1, <4>2 DEF TickExpired
    <3>2. CASE restorer \in RestoreJob /\ restorer # Idle
      BY <1>2, <3>2 DEF Delete, TickExpired, RestoreJob
    <3>3. QED
      BY <1>0, <3>1, <3>2
  <2>3. UNCHANGED <<test, catalog, host, tester, pass, pending>>
    BY <1>2 DEF Delete, TickExpired
  <2>4. RestoreInv(r)'
    BY <1>0, <2>1, <2>2, <2>3 DEF RestoreInv
  <2>5. Exclusive'
    BY <2>2, <2>3 DEF WorkInv, Exclusive
  <2>6. QED
    BY <2>1, <2>2, <2>3, <2>4, <2>5, OnlyRestore DEF WorkInv
<1>3. CASE Inspect(r)
  <2>1. /\ UNCHANGED <<test, restore, catalog, host, tester, pass, pending>>
        /\ DOMAIN pass = {} /\ restore[r].status = "active"
    BY <1>3 DEF Inspect
  <2>2. restorer.id = "none" /\ restorer'.id = r /\ restorer'.pc = "inspect"
    BY <1>3 DEF Inspect, Idle
  <2>3. RestoreInv(r)'
    BY <1>0, <2>1, <2>2 DEF RestoreInv
  <2>4. Exclusive'
    BY <2>1, <2>2 DEF WorkInv, Exclusive
  <2>5. QED
    BY <2>1, <2>2, <2>3, <2>4, OnlyRestore DEF WorkInv
<1>4. CASE Expire(r)
  <2>1. /\ restore'[r].lease = restore[r].lease /\ restore'[r].mode = restore[r].mode
        /\ restore'[r].status = restore[r].status
        /\ \A q \in Restores \ {r} : restore'[q] = restore[q]
    BY <1>0, <1>4 DEF Expire, RestoreRow
  <2>2. RestoreInv(r)'
    BY <1>0, <1>4, <2>1 DEF Expire, RestoreInv
  <2>3. QED
    BY <1>4, <2>1, <2>2, OnlyRestore DEF Expire, WorkInv, Exclusive
<1>5. CASE Handle(r)
  <2> DEFINE row    == Expiring(pass[r], restore[r])
             stored == IF row = pass[r] THEN restore[r] ELSE row
  <2>0. /\ r \in DOMAIN pass /\ restorer = Idle /\ restorer.id = "none" /\ pass[r] \in RestoreRow
        /\ UNCHANGED <<test, catalog, host, tester, pending>>
        /\ restore[r].status \notin {"none", "deleted", "importing", "deleting"}
    <3>1. r \in DOMAIN pass /\ UNCHANGED <<test, catalog, host, tester, pending>>
      BY <1>5 DEF Handle
    <3>2. restorer = Idle /\ restorer.id = "none" /\ pass[r] \in RestoreRow
      BY <3>1 DEF WorkInv, Exclusive, TypeOK, Idle
    <3>3. QED
      BY <1>0, <3>1, <3>2 DEF RestoreInv
  <2>1. /\ row \in RestoreRow /\ stored \in RestoreRow
        /\ stored.lease = restore[r].lease /\ stored.mode = restore[r].mode
        /\ stored.status \in {restore[r].status, "expired"}
    <3>1. row \in RestoreRow /\ stored \in RestoreRow
      BY <1>0, <2>0, RestoreRowsAre
    <3>2. CASE row = pass[r]
      BY <1>0, <3>1, <3>2
    <3>3. CASE row # pass[r]
      BY <1>0, <3>1, <3>3 DEF Expiring, RestoreRow
    <3>4. QED
      BY <3>2, <3>3
  <2> HIDE DEF row, stored
  <2>2. ASSUME NEW s \in RestoreRow, s.lease = restore[r].lease,
               s.status \notin {"none", "deleted", "importing", "deleting"},
               \/ /\ restore' = [restore EXCEPT ![r] = s]
                  /\ pass' = [q \in DOMAIN pass \ {r} |-> pass[q]]
                  /\ UNCHANGED restorer
               \/ \E k \in RestoreRow : ClaimRestore(r, s, k)
        PROVE  WorkInv'
    <3>1. CASE /\ restore' = [restore EXCEPT ![r] = s]
               /\ pass' = [q \in DOMAIN pass \ {r} |-> pass[q]]
               /\ UNCHANGED restorer
      <4>1. /\ restore'[r] = s /\ \A q \in Restores \ {r} : restore'[q] = restore[q]
            /\ DOMAIN pass' = DOMAIN pass \ {r}
        BY <1>0, <3>1
      <4>2. RestoreInv(r)'
        BY <1>0, <2>0, <2>2, <3>1, <4>1 DEF RestoreInv
      <4>3. Exclusive'
        BY <2>0, <3>1, <4>1 DEF WorkInv, Exclusive
      <4>4. QED
        BY <2>0, <3>1, <4>1, <4>2, <4>3, OnlyRestore DEF WorkInv
    <3>2. ASSUME NEW k \in RestoreRow, ~Busy({}),
                 restore' = [restore EXCEPT ![r] = Claimed(s, k.cancel)],
                 restorer' = [Idle EXCEPT !.id = r, !.pc = IF k.cancel THEN "clean" ELSE "stage"],
                 pass' = <<>>
          PROVE  WorkInv'
      <4>1. /\ restore'[r].lease = s.lease /\ restore'[r].status \in {"importing", "deleting"}
            /\ \A q \in Restores \ {r} : restore'[q] = restore[q]
        BY <1>0, <3>2 DEF Claimed, RestoreRow
      <4>2. restorer'.id = r /\ restorer'.pc \in {"clean", "stage"} /\ DOMAIN pass' = {}
        BY <3>2 DEF Idle
      <4>3. RestoreInv(r)'
        BY <1>0, <2>0, <2>2, <4>1, <4>2 DEF RestoreInv
      <4>4. tester = Idle
        BY <3>2, IdleIs DEF Busy, TestRunning, WorkInv, TestInv
      <4>5. Exclusive'
        BY <2>0, <4>2, <4>4 DEF WorkInv, Exclusive
      <4>6. QED
        BY <2>0, <4>1, <4>2, <4>3, <4>5, OnlyRestore DEF WorkInv
    <3>3. QED
      BY <2>2, <3>1, <3>2, Zenon DEF ClaimRestore
  <2>3. CASE /\ VerifiedGone(r, row)
             /\ restore' = [restore EXCEPT ![r] = [stored EXCEPT !.status = "deleted"]]
             /\ pass' = [q \in DOMAIN pass \ {r} |-> pass[q]]
             /\ UNCHANGED restorer
    <3>1. /\ restore'[r].lease = restore[r].lease /\ restore'[r].status = "deleted"
          /\ \A q \in Restores \ {r} : restore'[q] = restore[q]
          /\ DOMAIN pass' = DOMAIN pass \ {r}
      BY <1>0, <2>1, <2>3 DEF RestoreRow
    <3>2. restore[r].lease = "none" /\ host[r] \in {"removed", "never"}
      BY <2>3 DEF VerifiedGone
    <3>3. RestoreInv(r)'
      BY <1>0, <2>0, <2>3, <3>1, <3>2 DEF RestoreInv
    <3>4. Exclusive'
      BY <2>0, <2>3, <3>1 DEF WorkInv, Exclusive
    <3>5. QED
      BY <2>0, <2>3, <3>1, <3>3, <3>4, OnlyRestore DEF WorkInv
  <2>4. CASE ClaimRestore(r, Bound(stored), Bound(stored))
    <3>1. Bound(stored) \in RestoreRow
      BY <2>1, RestoreRowsAre, Zenon
    <3>2. Bound(stored).lease = restore[r].lease /\ Bound(stored).status = "queued"
      BY <2>1 DEF Bound, RestoreRow
    <3>3. QED
      BY <2>2, <2>4, <3>1, <3>2
  <2>5. CASE ClaimRestore(r, Followed(r, stored), Followed(r, stored))
    <3>1. Followed(r, stored) \in RestoreRow
      BY <2>1, RestoreRowsAre, Zenon
    <3>2. /\ Followed(r, stored).lease = restore[r].lease
          /\ Followed(r, stored).status \in {"active", "stopped"}
      BY <2>1 DEF Followed, RestoreRow
    <3>3. QED
      BY <2>2, <2>5, <3>1, <3>2
  <2>6. CASE \/ ClaimRestore(r, stored, row)
             \/ /\ restore' = [restore EXCEPT ![r] = stored]
                /\ pass' = [q \in DOMAIN pass \ {r} |-> pass[q]]
                /\ UNCHANGED restorer
    BY <2>0, <2>1, <2>2, <2>6
  <2>7. QED
    BY <1>5, <2>3, <2>4, <2>5, <2>6, Zenon DEF Handle, row, stored
<1>6. CASE (\E a \in UserRequests : Operator(r, a)) \/ WriteRequest(r)
  <2>1. UNCHANGED <<test, restore, catalog, host, tester, restorer, pass, pending>>
    BY <1>6, Zenon DEF Operator, WriteRequest
  <2>2. RestoreInv(r)'
    BY <1>0, <2>1, RestoreFrame
  <2>3. QED
    BY <2>1, <2>2, OnlyRestore DEF WorkInv, Exclusive
<1>7. QED
  BY <1>1, <1>2, <1>3, <1>4, <1>5, <1>6

\* The steps of a restore keep the invariant.
LEMMA RestoreStepNext ==
    ASSUME WorkInv, TypeOK', NEW r \in Restores, RestoreStep(r)
    PROVE  WorkInv'
<1> USE DatabaseWorkAssumption DEF targets
<1>0. /\ restore[r] \in RestoreRow /\ restore \in [Restores -> RestoreRow] /\ RestoreInv(r)
      /\ catalog \in [Ids -> {"absent", "bare", "owned"}] /\ r \in Ids
  BY DEF WorkInv, TypeOK, Ids
<1>1. restorer.id = r /\ restorer \in RestoreJob
  <2>1. restorer.id = r
    BY Zenon DEF RestoreStep, StageRestore, CreateRestore, MarkRestore, ImportRestore,
       ActivateRestore, FailRestore, CleanRestore, SettleRestore, ReadyRestore, InspectEnds, RestoreSucceeds
  <2>2. QED
    BY <2>1 DEF WorkInv, TypeOK, Idle, RestoreJob
<1>2. /\ UNCHANGED <<test, tester, pass, pending, host>>
      /\ \A x \in Ids \ {r} : catalog'[x] = catalog[x]
      /\ \A q \in Restores \ {r} : restore'[q] = restore[q]
  <2>1. UNCHANGED <<test, tester, pass, pending, host>>
    BY Zenon DEF RestoreStep, StageRestore, CreateRestore, MarkRestore, ImportRestore,
       ActivateRestore, FailRestore, CleanRestore, SettleRestore, ReadyRestore, InspectEnds, RestoreSucceeds
  <2>2. ASSUME NEW x \in Ids, x # r PROVE catalog'[x] = catalog[x]
    BY <1>0, <2>2 DEF RestoreStep, StageRestore, CreateRestore, MarkRestore, ImportRestore,
       ActivateRestore, FailRestore, CleanRestore, SettleRestore, ReadyRestore, InspectEnds, RestoreSucceeds
  <2>3. ASSUME NEW q \in Restores, q # r PROVE restore'[q] = restore[q]
    BY <1>0, <2>3 DEF RestoreStep, StageRestore, CreateRestore, MarkRestore, ImportRestore,
       ActivateRestore, FailRestore, CleanRestore, SettleRestore, ReadyRestore, InspectEnds, RestoreSucceeds
  <2>4. QED
    BY <2>1, <2>2, <2>3
<1>3. (\E pc : restorer' = [restorer EXCEPT !.pc = pc]) \/ restorer' = Idle
  BY Zenon DEF RestoreStep, StageRestore, CreateRestore, MarkRestore, ImportRestore,
     ActivateRestore, FailRestore, CleanRestore, SettleRestore, ReadyRestore, InspectEnds, RestoreSucceeds
<1>4. restorer'.id \in {r, "none"}
  <2>1. ASSUME NEW pc, restorer' = [restorer EXCEPT !.pc = pc] PROVE restorer'.id = r
    BY <1>1, <2>1 DEF RestoreJob
  <2>2. QED
    BY <1>3, <2>1 DEF Idle
<1>5. DOMAIN pass = {}
  BY <1>1, IdleIs DEF WorkInv, Exclusive
<1>6. CASE InspectEnds(r) \/ ReadyRestore(r)
  <2>1. /\ restorer.pc \in {"ready", "inspect"}
        /\ restorer'.id = "none" /\ catalog' = catalog /\ restorer' = Idle
    BY <1>6 DEF InspectEnds, ReadyRestore, Idle
  <2>2. CASE restore' = restore
    <3>1. RestoreInv(r)'
      BY <1>0, <1>1, <1>2, <2>1, <2>2 DEF RestoreInv
    <3>2. QED
      BY <1>1, <1>2, <1>4, <2>1, <2>2, <3>1, OnlyRestore DEF WorkInv, Exclusive
  <2>3. CASE restore' = [restore EXCEPT ![r] = InDoubt(@)]
    <3>1. restore'[r].lease = restore[r].lease /\ restore'[r].status = "cleanup_required"
      BY <1>0, <2>3 DEF InDoubt, RestoreRow
    <3>2. RestoreInv(r)'
      BY <1>0, <1>1, <1>2, <1>5, <2>1, <3>1 DEF RestoreInv
    <3>3. QED
      BY <1>1, <1>2, <1>4, <2>1, <3>2, OnlyRestore DEF WorkInv, Exclusive
  <2>4. QED
    BY <1>6, <2>2, <2>3 DEF InspectEnds, ReadyRestore
<1>7. CASE ~(InspectEnds(r) \/ ReadyRestore(r))
  <2>0. restorer.pc \notin {"ready", "inspect"}
    BY <1>7, Zenon DEF RestoreStep, StageRestore, CreateRestore, MarkRestore, ImportRestore,
       ActivateRestore, FailRestore, CleanRestore, SettleRestore, RestoreSucceeds
  <2>1. restore[r].status \in {"importing", "deleting"}
    BY <1>0, <1>1, <2>0 DEF RestoreInv
  <2>2. tester = Idle
    BY <1>1, <2>0, IdleIs DEF WorkInv, Exclusive
  <2>3. Exclusive'
    BY <1>2, <1>5, <2>2 DEF WorkInv, Exclusive
  <2>4. RestoreInv(r)'
    <3>1. CASE StageRestore(r) \/ ImportRestore(r)
      <4>1. /\ restore'[r].status = restore[r].status /\ restore'[r].lease # "none"
        BY <1>0, <3>1 DEF StageRestore, ImportRestore, RestoreRow
      <4>2. restorer'.id = r /\ restorer'.pc \in {"create", "activate"}
        BY <1>1, <3>1 DEF StageRestore, ImportRestore, RestoreSucceeds, RestoreJob
      <4>3. QED
        BY <1>2, <1>5, <2>1, <4>1, <4>2 DEF RestoreInv
    <3>2. CASE CreateRestore(r) \/ MarkRestore(r)
      <4>1. restore' = restore /\ restore[r].lease # "none"
        BY <1>0, <1>1, <3>2 DEF CreateRestore, MarkRestore, RestoreSucceeds, RestoreInv
      <4>2. restorer'.id = r /\ restorer'.pc \in {"mark", "import"}
        BY <1>1, <3>2 DEF CreateRestore, MarkRestore, RestoreSucceeds, RestoreJob
      <4>3. QED
        BY <1>2, <1>5, <2>1, <4>1, <4>2 DEF RestoreInv
    <3>3. CASE ActivateRestore(r)
      <4>1. /\ restore'[r].status = "active" /\ restore'[r].lease = restore[r].lease
            /\ catalog' = catalog
        BY <1>0, <3>3 DEF ActivateRestore, RestoreRow
      <4>2. restorer'.id = "none"
        BY <3>3 DEF ActivateRestore, Idle
      <4>3. QED
        BY <1>0, <1>2, <1>5, <4>1, <4>2 DEF RestoreInv
    <3>4. CASE FailRestore(r)
      <4>1. restore'[r].status = restore[r].status /\ restore'[r].lease = restore[r].lease
        BY <1>0, <3>4 DEF FailRestore, RestoreRow
      <4>2. catalog'[r] = catalog[r] \/ restore[r].lease # "none"
        BY <1>0, <1>1, <3>4 DEF FailRestore, RestoreInv
      <4>3. restorer'.id = r /\ restorer'.pc = "clean"
        BY <1>1, <3>4 DEF FailRestore, RestoreJob
      <4>4. QED
        BY <1>0, <1>2, <1>5, <2>1, <4>1, <4>2, <4>3 DEF RestoreInv
    <3>5. CASE CleanRestore(r)
      <4>1. ASSUME NEW o \in CleanOutcomes(r, restore[r].lease # "none"), NEW done \in BOOLEAN,
                   done => ~o[2],
                   catalog' = [catalog EXCEPT ![r] = o[1]],
                   LET row == [restore[r] EXCEPT !.lease = IF o[2] THEN @ ELSE "none"]
                   IN  restore' = [restore EXCEPT ![r] = IF done THEN row ELSE InDoubt(row)],
                   restorer' = IF done THEN [restorer EXCEPT !.pc = "settle"] ELSE Idle
            PROVE  RestoreInv(r)'
        <5> DEFINE row == [restore[r] EXCEPT !.lease = IF o[2] THEN @ ELSE "none"]
        <5>1. /\ o[1] \in {catalog[r], "absent"} /\ o[2] \in BOOLEAN
              /\ (o[2] => restore[r].lease # "none")
              /\ (restore[r].lease # "none" /\ ~o[2] => o[1] = "absent")
          BY <1>0, CleanOutcomesAre, Zenon DEF WorkInv
        <5>2. catalog'[r] = o[1]
          BY <1>0, <4>1
        <5>3. row.status = restore[r].status /\ row.lease = IF o[2] THEN restore[r].lease ELSE "none"
          BY <1>0 DEF RestoreRow
        <5>4. /\ InDoubt(row).status = "cleanup_required"
              /\ InDoubt(row).lease = IF o[2] THEN restore[r].lease ELSE "none"
          BY <1>0 DEF RestoreRow, InDoubt
        <5>5. restore' = [restore EXCEPT ![r] = IF done THEN row ELSE InDoubt(row)]
          BY <4>1, Zenon
        <5> HIDE DEF row
        <5>6. restore'[r] = IF done THEN row ELSE InDoubt(row)
          BY <1>0, <5>5, Zenon
        <5>7. CASE done
          <6>1. restorer'.id = r /\ restorer'.pc = "settle"
            BY <1>1, <4>1, <5>7 DEF RestoreJob
          <6>2. QED
            BY <1>0, <1>2, <1>5, <2>1, <4>1, <5>1, <5>2, <5>3, <5>6, <5>7, <6>1 DEF RestoreInv
        <5>8. CASE ~done
          <6>1. restorer'.id = "none"
            BY <4>1, <5>8 DEF Idle
          <6>2. QED
            BY <1>0, <1>2, <1>5, <2>1, <4>1, <5>1, <5>2, <5>4, <5>6, <5>8, <6>1 DEF RestoreInv
        <5>9. QED
          BY <5>7, <5>8
      <4>2. CASE /\ restore' = [restore EXCEPT ![r] = InDoubt([@ EXCEPT !.approval = host[r] = "up"])]
                 /\ restorer' = Idle /\ UNCHANGED catalog
        <5>1. restore'[r].status = "cleanup_required" /\ restore'[r].lease = restore[r].lease
          BY <1>0, <4>2 DEF InDoubt, RestoreRow
        <5>2. restorer'.id = "none"
          BY <4>2 DEF Idle
        <5>3. QED
          BY <1>0, <1>2, <1>5, <4>2, <5>1, <5>2 DEF RestoreInv
      <4>3. CASE /\ restore' = [restore EXCEPT ![r] = InDoubt(@)]
                 /\ restorer' = Idle /\ UNCHANGED catalog
        <5>1. restore'[r].status = "cleanup_required" /\ restore'[r].lease = restore[r].lease
          BY <1>0, <4>3 DEF InDoubt, RestoreRow
        <5>2. restorer'.id = "none"
          BY <4>3 DEF Idle
        <5>3. QED
          BY <1>0, <1>2, <1>5, <4>3, <5>1, <5>2 DEF RestoreInv
      <4>4. QED
        BY <3>5, <4>1, <4>2, <4>3, Zenon DEF CleanRestore
    <3>6. CASE SettleRestore(r)
      <4>1. catalog' = catalog /\ restore[r].lease = "none"
        BY <1>0, <3>6 DEF SettleRestore, RestoreInv
      <4>2. CASE /\ restore' = [restore EXCEPT ![r] = Settled(@)]
                 /\ restorer' = IF restore[r].mode = "custom" THEN Idle
                                ELSE [restorer EXCEPT !.pc = "ready"]
        <5>1. /\ restore'[r].lease = restore[r].lease
              /\ restore'[r].status \in {"deleted", "cleanup_required"}
              /\ restore'[r].status = "deleted" => restore'[r].mode = "custom"
          BY <1>0, <4>2 DEF Settled, RestoreRow
        <5>2. restorer'.id # r \/ restorer'.pc = "ready"
          BY <1>1, <4>2 DEF Idle, RestoreJob
        <5>3. QED
          BY <1>0, <1>2, <1>5, <4>1, <5>1, <5>2 DEF RestoreInv
      <4>3. CASE restore' = [restore EXCEPT ![r] = InDoubt(@)] /\ restorer' = Idle
        <5>1. restore'[r].lease = restore[r].lease /\ restore'[r].status = "cleanup_required"
          BY <1>0, <4>3 DEF InDoubt, RestoreRow
        <5>2. restorer'.id = "none"
          BY <4>3 DEF Idle
        <5>3. QED
          BY <1>0, <1>2, <1>5, <4>1, <5>1, <5>2 DEF RestoreInv
      <4>4. QED
        BY <3>6, <4>2, <4>3 DEF SettleRestore
    <3>7. QED
      BY <1>7, <3>1, <3>2, <3>3, <3>4, <3>5, <3>6, Zenon DEF RestoreStep
  <2>5. QED
    BY <1>1, <1>2, <1>4, <2>3, <2>4, OnlyRestore DEF WorkInv
<1>8. QED
  BY <1>6, <1>7
-----------------------------------------------------------------------------
(* The environment, and the theorems. *)

\* The operator, backups, crashes and the start of a dispatch keep the invariant.
LEMMA EnvironmentNext ==
    ASSUME WorkInv, AskedInv, TypeOK',
           \/ DispatchStart \/ BackupStarts \/ BackupEnds \/ Crash \/ UNCHANGED vars
           \/ (\E t \in Tests : HostTestStep(t)) \/ (\E r \in Restores : HostRestoreStep(r))
    PROVE  WorkInv'
<1> USE DatabaseWorkAssumption DEF targets, workers, Ids
<1>0. ASSUME Exclusive', NEW x \in Ids, UNCHANGED <<test, restore, tester, restorer, pass>>,
             \/ UNCHANGED <<catalog, host>>
             \/ /\ host[x] \notin {"removed", "never"}
                /\ \A y \in Ids \ {x} : host'[y] = host[y] /\ catalog'[y] = catalog[y]
                /\ catalog'[x] \in {catalog[x], "absent"}
      PROVE  WorkInv'
  <2>1. ASSUME NEW t \in Tests PROVE TestInv(t)'
    BY <1>0, <2>1 DEF WorkInv, TestInv
  <2>2. ASSUME NEW r \in Restores PROVE RestoreInv(r)'
    BY <1>0, <2>2 DEF WorkInv, RestoreInv
  <2>3. QED
    BY <1>0, <2>1, <2>2 DEF WorkInv
<1>1. CASE DispatchStart
  <2>1. /\ UNCHANGED <<test, restore, catalog, host, tester, restorer, pending>> /\ restorer = Idle
        /\ \A r \in DOMAIN pass' : restore[r].status \notin {"none", "deleted"}
    BY <1>1 DEF DispatchStart
  <2>2. ASSUME NEW t \in Tests PROVE TestInv(t)'
    BY <2>1, <2>2, TestFrame DEF WorkInv
  <2>3. ASSUME NEW r \in Restores PROVE RestoreInv(r)'
    BY <2>1, <2>3 DEF WorkInv, RestoreInv
  <2>4. QED
    BY <2>1, <2>2, <2>3 DEF WorkInv, Exclusive
<1>2. ASSUME NEW x \in Ids, HostStep(x) PROVE WorkInv'
  <2>1. PICK h \in HostStates : HostRuns(x, h)
    BY <1>2, HostStepIs
  <2>2. host[x] \notin {"removed", "never"}
    BY <1>2, HostStepIs DEF AskedInv, AskedRestore, HostStep, HostTestStep, HostActivate,
       HostDeactivate
  <2>3. \A y \in Ids \ {x} : host'[y] = host[y]
    BY <2>1 DEF HostRuns, WorkInv, TypeOK
  <2>4. catalog'[x] \in {catalog[x], "absent"} /\ \A y \in Ids \ {x} : catalog'[y] = catalog[y]
    BY <1>2, HostStepIs DEF WorkInv, TypeOK
  <2>5. UNCHANGED <<test, restore, tester, restorer, pass, pending>>
    BY <2>1 DEF HostRuns
  <2>6. Exclusive'
    BY <2>5 DEF WorkInv, Exclusive
  <2>7. QED
    BY <1>0, <2>2, <2>3, <2>4, <2>5, <2>6
<1>3. CASE BackupStarts \/ BackupEnds \/ UNCHANGED vars
  <2>1. UNCHANGED <<test, restore, catalog, host, tester, restorer, pass, pending>>
    BY <1>3 DEF BackupStarts, BackupEnds, vars
  <2>2. ASSUME NEW t \in Tests PROVE TestInv(t)'
    BY <2>1, <2>2, TestFrame DEF WorkInv
  <2>3. ASSUME NEW r \in Restores PROVE RestoreInv(r)'
    BY <2>1, <2>3, RestoreFrame DEF WorkInv
  <2>4. QED
    BY <2>1, <2>2, <2>3 DEF WorkInv, Exclusive
<1>4. CASE Crash
  <2>1. /\ UNCHANGED <<catalog, host>> /\ tester' = Idle /\ restorer' = Idle /\ DOMAIN pass' = {}
        /\ tester'.id = "none" /\ restorer'.id = "none"
    BY <1>4 DEF Crash, Idle
  <2>2. ASSUME NEW t \in Tests PROVE TestInv(t)'
    <3>1. test[t] \in TestRow /\ test'[t] = InterruptedTest(test[t]) /\ TestInv(t)
      BY <1>4 DEF Crash, WorkInv, TypeOK
    <3>2. /\ test'[t].lease = test[t].lease /\ test'[t].session = test[t].session
          /\ test'[t].status # "running"
          /\ test'[t].status = "passed" => test[t].status = "passed"
      BY <3>1 DEF InterruptedTest, TestRow
    <3>3. QED
      BY <2>1, <3>1, <3>2 DEF TestInv
  <2>3. ASSUME NEW r \in Restores PROVE RestoreInv(r)'
    <3>1. restore[r] \in RestoreRow /\ restore'[r] = InterruptedRestore(restore[r]) /\ RestoreInv(r)
      BY <1>4 DEF Crash, WorkInv, TypeOK
    <3>2. /\ restore'[r].lease = restore[r].lease /\ restore'[r].mode = restore[r].mode
          /\ restore'[r].status \notin {"importing", "deleting"}
          /\ restore'[r].status = "deleted" => restore[r].status = "deleted"
      BY <3>1 DEF InterruptedRestore, RestoreRow
    <3>3. QED
      BY <2>1, <3>1, <3>2 DEF RestoreInv
  <2>4. QED
    BY <2>1, <2>2, <2>3 DEF WorkInv, Exclusive
<1>5. QED
  BY <1>1, <1>2, <1>3, <1>4 DEF HostStep

\* The invariant holds when the tables are empty.
LEMMA WorkInvInit == Init => WorkInv
<1> SUFFICES ASSUME Init PROVE WorkInv
  OBVIOUS
<1> USE DatabaseWorkAssumption
<1>1. TypeOK
  <2>1. test \in [Tests -> TestRow]
    BY DEF Init, TestRow, TestPolicies
  <2>2. restore \in [Restores -> RestoreRow]
    BY DEF Init, RestoreRow, RestoreModes
  <2>3. /\ catalog \in [Ids -> {"absent", "bare", "owned"}] /\ asked \in [Ids -> Requests]
        /\ call \in [Restores -> UserRequests \cup {"none"}]
        /\ host \in [Ids -> {"absent", "up", "stopped", "removed", "never"}] /\ backup \in BOOLEAN
    BY DEF Init, Requests
  <2>4. DOMAIN pass = {} /\ pending = {} /\ crashes \in 0..MaxCrashes
    BY DEF Init
  <2>5. QED
    BY <2>1, <2>2, <2>3, <2>4 DEF Init, TypeOK
<1>2. QED
  BY <1>1 DEF Init, WorkInv, Exclusive, TestInv, RestoreInv, Idle, Ids

\* Every action keeps the invariant.
LEMMA WorkInvNext == WorkInv /\ AskedInv /\ [Next]_vars => WorkInv'
<1> SUFFICES ASSUME WorkInv, AskedInv, [Next]_vars PROVE WorkInv'
  OBVIOUS
<1>1. TypeOK'
  BY TypeNext DEF WorkInv
<1>2. QED
  BY <1>1, TestNext, TestStepNext, RestoreNext, RestoreStepNext, EnvironmentNext DEF Next

\* Every reachable state is typed and satisfies the invariant.
THEOREM WorkInvHolds == Spec => []WorkInv
<1>1. Init => AskedInv
  <2> SUFFICES ASSUME Init PROVE AskedInv
    OBVIOUS
  <2>1. ASSUME NEW r \in Restores PROVE AskedRestore(r)
    <3>1. restore[r].cancel = FALSE /\ restorer.id # r /\ asked[r] = "no" /\ host[r] = "absent"
      BY <2>1, DatabaseWorkAssumption DEF Init, Idle, Ids
    <3>2. QED
      BY <3>1 DEF AskedRestore
  <2>2. QED
    BY <2>1 DEF Init, AskedInv, Ids
<1>2. WorkInv => TypeOK
  BY DEF WorkInv
<1>3. QED
  BY <1>1, <1>2, WorkInvInit, WorkInvNext, AskedInvNext, PTL DEF Spec

\* The tables and the services always hold values of their types.
THEOREM WorkTypes == Spec => []TypeOK
<1>1. WorkInv => TypeOK
  BY DEF WorkInv
<1>2. QED
  BY <1>1, WorkInvHolds, PTL

\* Recovery tests, imports and owned deletions never overlap: the claims, which look at
\* both tables, exclude each other for any number of tests, restores and crashes.
THEOREM WorkersExclude == Spec => []OneDatabaseWorker
<1>1. WorkInv => OneDatabaseWorker
  <2> SUFFICES ASSUME WorkInv PROVE OneDatabaseWorker
    OBVIOUS
  <2> DEFINE W == {x \in Ids : x = tester.id \/ (x = restorer.id /\ restorer.pc \notin {"ready", "inspect"})}
  <2>1. \E y : W \subseteq {y}
    <3>1. CASE tester = Idle
      <4>1. tester.id \notin Ids
        BY <3>1, DatabaseWorkAssumption DEF Idle, Ids
      <4>2. W \subseteq {restorer.id}
        BY <4>1
      <4>3. QED
        BY <4>2
    <3>2. CASE restorer = Idle \/ restorer.pc \in {"ready", "inspect"}
      <4>1. restorer.id \notin Ids \/ restorer.pc \in {"ready", "inspect"}
        BY <3>2, DatabaseWorkAssumption DEF Idle, Ids
      <4>2. W \subseteq {tester.id}
        BY <4>1
      <4>3. QED
        BY <4>2
    <3>3. QED
      BY <3>1, <3>2 DEF WorkInv, Exclusive
  <2>2. ASSUME NEW y, W \subseteq {y} PROVE Cardinality(W) <= 1
    <3>1. IsFiniteSet({y}) /\ Cardinality({y}) = 1
      BY FS_Singleton
    <3>2. Cardinality(W) <= Cardinality({y})
      BY <2>2, <3>1, FS_Subset
    <3>3. QED
      BY <3>1, <3>2
  <2>3. QED
    BY <2>1, <2>2 DEF OneDatabaseWorker
<1>2. QED
  BY <1>1, WorkInvHolds, PTL

\* No failure, crash or late statement leaves a database without the lease that lets a
\* later start find and drop it.
THEOREM DatabasesHaveLeases == Spec => []NoOrphanDatabase
<1>1. WorkInv => NoOrphanDatabase
  BY DEF WorkInv, TestInv, RestoreInv, NoOrphanDatabase, Ids
<1>2. QED
  BY <1>1, WorkInvHolds, PTL

\* What is reported as passed without warnings, or as deleted, has left nothing behind.
THEOREM SuccessEndsClean == Spec => []EndsClean
<1>1. WorkInv => EndsClean
  BY DEF WorkInv, TestInv, RestoreInv, EndsClean
<1>2. QED
  BY <1>1, WorkInvHolds, PTL

\* Neither the end of a test nor the receipt for its removed target makes a success of
\* a cancelled test.
THEOREM CancelledTestsNeverPass == Spec => CancelledNeverPasses
<1> DEFINE Kept == \A t \in Tests : test[t].cancel => test'[t].status \notin {"passed", "warned"}
                                                       \/ test'[t].status = test[t].status
<1>1. WorkInv /\ [Next]_vars => [Kept]_vars
  <2> SUFFICES ASSUME WorkInv, [Next]_vars PROVE Kept \/ UNCHANGED vars
    OBVIOUS
  <2> USE DatabaseWorkAssumption
  <2>0. test \in [Tests -> TestRow]
    BY DEF WorkInv, TypeOK
  <2>1. ASSUME NEW t \in Tests, NEW u \in Tests, test[u].cancel,
               test'[u].status \in {"passed", "warned"},
               \/ \E p \in Policies : Enqueue(t, p)
               \/ CancelTest(t) \/ ClaimTest(t) \/ TestStep(t) \/ Reconcile(t) \/ RecoverTest(t)
        PROVE  test'[u].status = test[u].status
    <3>1. CASE (\E p \in Policies : Enqueue(t, p)) \/ ClaimTest(t)
      BY <2>0, <2>1, <3>1 DEF Enqueue, ClaimTest, TestRow
    <3>2. CASE CancelTest(t)
      BY <2>0, <2>1, <3>2 DEF CancelTest, TestRow
    <3>3. CASE Reconcile(t)
      BY <2>0, <2>1, <3>3 DEF Reconcile, TestRow
    <3>4. CASE RecoverTest(t)
      <4>1. PICK row : row.status = test[t].status /\ test' = [test EXCEPT ![t] = row]
        BY <3>4, RecoveredRow DEF WorkInv
      <4>2. QED
        BY <2>0, <4>1
    <3>5. CASE FinishTest(t)
      BY <2>0, <2>1, <3>5 DEF FinishTest, Verdict, TestRow
    <3>6. CASE TestStep(t) /\ ~FinishTest(t)
      <4>1. CASE StageTest(t)
        BY <2>0, <4>1 DEF StageTest, TestRow
      <4>2. CASE PrepareTest(t) \/ LeaseTest(t)
        BY <2>0, <4>2 DEF PrepareTest, LeaseTest, TestRow
      <4>3. CASE CreateTest(t) \/ MarkTest(t) \/ ImportTest(t) \/ FailTest(t)
        BY <4>3 DEF CreateTest, MarkTest, ImportTest, FailTest
      <4>4. CASE CleanTest(t)
        <5>1. PICK o : test' = [test EXCEPT ![t].lease = o[2], ![t].clean = ~o[2]]
          BY <4>4 DEF CleanTest
        <5>2. QED
          BY <2>0, <5>1 DEF TestRow
      <4>5. CASE TidyTest(t)
        <5>1. PICK clean : test' = [test EXCEPT ![t].clean = clean, ![t].warned = @ \/ ~clean]
          BY <4>5, Zenon DEF TidyTest
        <5>2. QED
          BY <2>0, <5>1 DEF TestRow
      <4>6. CASE ReleaseTest(t)
        BY <2>0, <4>6 DEF ReleaseTest, Released, TestRow
      <4>7. QED
        BY <3>6, <4>1, <4>2, <4>3, <4>4, <4>5, <4>6 DEF TestStep
    <3>7. QED
      BY <2>1, <3>1, <3>2, <3>3, <3>4, <3>5, <3>6
  <2>2. ASSUME NEW r \in Restores,
               \/ \E m \in Modes : Create(r, m)
               \/ Delete(r) \/ TickExpired(r) \/ Inspect(r) \/ Handle(r) \/ RestoreStep(r) \/ Expire(r)
               \/ (\E a \in UserRequests : Operator(r, a)) \/ WriteRequest(r)
        PROVE  test' = test
    BY <2>2, Zenon DEF Create, Delete, TickExpired, Inspect, Handle, RestoreStep, Expire,
       Operator, WriteRequest, StageRestore, CreateRestore, MarkRestore, ImportRestore, ActivateRestore, FailRestore,
       CleanRestore, SettleRestore, ReadyRestore, InspectEnds, RestoreSucceeds
  <2>3. CASE \/ DispatchStart \/ BackupStarts \/ BackupEnds
             \/ (\E t \in Tests : HostTestStep(t)) \/ (\E r \in Restores : HostRestoreStep(r))
    BY <2>3, Zenon DEF DispatchStart, BackupStarts, BackupEnds, HostTestStep, HostRestoreStep,
       HostProvision, HostStop, HostResume, HostDelete, HostVerifiesAbsence, HostActivate,
       HostDeactivate, HostRuns
  <2>4. CASE Crash
    BY <2>0, <2>4 DEF Crash, InterruptedTest, TestRow
  <2>5. QED
    BY <2>1, <2>2, <2>3, <2>4 DEF Next
<1>2. QED
  BY <1>1, WorkInvHolds, PTL DEF Spec, CancelledNeverPasses
=============================================================================
