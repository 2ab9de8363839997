CONSTANTS
    Backups = {b1, b2}
    PlanOf <- OnePlan
    Undefined = Undefined
    EmptyObject = EmptyObject
    NoJob = NoJob
    MaxAttempts = 2
    MaxAborts = 0
    MaxQueue = 2
    MaxCancels = 0
    MaxRestarts = 0
SPECIFICATION Spec
PROPERTIES
    FinishedIsTerminal
