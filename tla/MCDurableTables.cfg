CONSTANTS
    a1 = a1
    a2 = a2
    c1 = c1
    c2 = c2
    c3 = c3
    Agents = {a1, a2}
    Commands = {c1, c2, c3}
    AgentOf <- MCAgentOf
    Tokens = {t1, t2, t3}
    NoToken = NoToken
    Seconds = {1, 2}
    LeaseTicks = 2
    MaxSequence = 2
    j1 = j1
    j2 = j2
    d1 = d1
    Replicas = {j1, j2}
    Destinations = {d1}
    DestinationOf <- MCDestinationOf
    MaxRuns = 2
    MaxInterruptions = 1
    r1 = r1
    r2 = r2
    r3 = r3
    p1 = p1
    p2 = p2
    Requests = {r1, r2, r3}
    Plans = {p1, p2}
    PlanOf <- MCPlanOf
    MaxPending = 2
    MaxChanges = 1
    MaxRestarts = 1
SYMMETRY TokenSymmetry
SPECIFICATION TablesSpec
INVARIANTS
    QueueTypeOK
    SerialExecutor
    TokenNamesOneCommand
    CreationIsHeld
PROPERTIES
    TerminalIsFinal
    ExpiredLeaseStaysLost
    SequenceNeverGoesBack
    ImplementsLifecycle
    ReplicaClaim
    ActionClaim
CHECK_DEADLOCK FALSE
