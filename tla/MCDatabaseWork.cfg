CONSTANTS
    Tests = {t1}
    Restores = {r1}
    Policies = {"files", "custom", "internal"}
    Modes = {"custom", "internal"}
    MaxCrashes = 1
SPECIFICATION Spec
ACTION_CONSTRAINT OneInternal
INVARIANTS
    TypeOK
    OneDatabaseWorker
    NoOrphanDatabase
    EndsClean
    RemovalIsRequested
PROPERTIES
    CancelledNeverPasses
    CustomDeleteIsCarriedOut
