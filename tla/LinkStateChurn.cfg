SPECIFICATION ChurnSpec
CONSTANTS
  Nodes = {1, 2}
  Latencies = {1}
  MaxTm = 2
  Links <- Pair
  InitLinks <- OneWay
  InitLatency <- OneWayLatency
PROPERTIES
  NeverOlder
CHECK_DEADLOCK FALSE
