CONSTANTS
    a1 = a1
    b1 = b1
    Agents = {a1}
    Commands = {b1}
    AgentOf <- MCAgentOf
    PlanOf <- OnePlan
    Tokens = {t1, t2, t3, t4}
    NoToken = NoToken
    NoCommand = NoCommand
    Seconds = {1}
    LeaseTicks = 1
    Lifecycle = {}
    MaxEvents = 1
    MaxLate = 0
    MaxMisses = 0
    MaxAgentFaults = 0
    MaxServerCrashes = 1
SPECIFICATION FairSpec
PROPERTIES
    ReportedRunIsRecorded
