CONSTANTS
    Backups = {b1, b2}
    PlanOf <- OnePlan
    Undefined = Undefined
    EmptyObject = EmptyObject
    NoJob = NoJob
    MaxAttempts = 2
    MaxAborts = 1
    MaxQueue = 2
    MaxCancels = 1
    MaxRestarts = 1
SPECIFICATION Spec
INVARIANTS
    TypeOK
    RunningJobIsExecuted
    OneJobPerBackup
    OneBackupInProgress
    ActiveRowHasWorker
PROPERTIES
    BackupSettles
