CONSTANTS
    a1 = a1
    b1 = b1
    Agents = {a1}
    Commands = {b1, b2}
    AgentOf <- MCAgentOf
    PlanOf <- OnePlan
    Tokens = {t1, t2, t3, t4}
    NoToken = NoToken
    NoCommand = NoCommand
    Seconds = {1}
    LeaseTicks = 1
    Lifecycle = {b2}
    MaxEvents = 2
    MaxLate = 1
    MaxMisses = 1
    MaxAgentFaults = 1
    MaxServerCrashes = 1
SPECIFICATION FaultySpec
ACTION_CONSTRAINT SmallTogether
INVARIANTS
    TypeOK
    RecordedSuccessHasSnapshot
    RepeatedSnapshotIsExplained
    RememberedIsNotReexecuted
    FinishedBackupHasFinishedCommand
    SettledTogether
    OneBackupInProgress
    CompletionOutranksEvents
PROPERTIES
    FinishedBackupIsFinal
