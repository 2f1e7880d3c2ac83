SPECIFICATION FairSpec
CONSTANTS
  Nodes = {1, 2, 3}
  Latencies = {1, 2}
  MaxTm = 2
  Links <- Lasso
  InitLinks <- Lasso
  InitLatency <- LassoLatency
INVARIANTS
  IInv
  Converged
PROPERTIES
  FloodingEnds
CHECK_DEADLOCK FALSE
