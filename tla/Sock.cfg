SPECIFICATION AppFairSpec
CONSTANTS
  NumSocks = 4
  NumPorts = 3
  BinSize = 1
  Peers = {p, q}
  AppProtocols = {"udp"}
  LongWrites = FALSE
  Calls = {"mSOCKET", "mBIND", "mLISTEN", "mACCEPT", "mCONNECT", "mREAD", "mWRITE", "mCLOSE", "mSENDTO"}
  MaxCalls = 5
  MaxRequests = 4
  MaxWrites = 1
  Programs = {"any", "udp_server", "udp_client", "tcp_server", "tcp_client", "http_client", "http_server1", "icmp_app"}
  FileFd = 3
INVARIANTS
  TypeOK
  StatusInOrder
  AnswersTheCall
  CallNotForgotten
  NotRefused
  NoSocketLeft
PROPERTIES
  ForwardsKept
  CallReturns
CHECK_DEADLOCK FALSE
