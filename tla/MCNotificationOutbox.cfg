CONSTANTS
    Backups = {b1}
    RecoveryTests = {t1}
    Channels = {c1}
    Filters <- AllOrFailures
    MaxPending = 1
    MaxCycle = 2
    MaxAttempts = 2
    MaxManual = 1
    MaxDelay = 2
    MaxJobs = 1
    MaxEdits = 1
    MaxFaults = 2
SPECIFICATION Spec
INVARIANTS
    TypeOK
    OneTransmissionAtATime
    OneVerdictPerTest
PROPERTIES
    NoOutcomeDropped
    SentUnderLiveConfiguration
    DeliveriesSettle
