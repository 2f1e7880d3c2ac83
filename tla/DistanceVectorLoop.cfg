SPECIFICATION Spec
CONSTANTS
    Nodes = {1, 2, 3}
    Links <- Triangle
    InitLatency <- TriangleLatency
    Latencies = {1, 4}
    MaxChanges = 1
INVARIANT NoRoutingLoop
CHECK_DEADLOCK FALSE
