SPECIFICATION FairSpec
CONSTANTS
    NodeNum = 4
    Links <- Square
    InitLatency <- SquareLatency
    Latencies = {1, 4}
    Inf = 127
    MaxChanges = 1
    MaxWalks = 2
INVARIANTS VisitedAreFinal PathIsShortest
PROPERTIES NextHopShortest WalkEnds
CHECK_DEADLOCK FALSE
