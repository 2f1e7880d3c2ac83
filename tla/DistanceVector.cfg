SPECIFICATION FairSpec
CONSTANTS
    Nodes = {1, 2, 3}
    Links <- Triangle
    InitLatency <- TriangleLatency
    Latencies = {1, 4}
    MaxChanges = 1
INVARIANTS TypeOK Converged CopiesCurrent
PROPERTY ExchangeEnds
CHECK_DEADLOCK FALSE
