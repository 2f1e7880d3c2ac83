SPECIFICATION FairSpec
CONSTANTS
  Packets = {a}
  NoPacket = NoPacket
  InputSize = 2
  OutputSize = 3
  SourceRoom = 2
  MuxRoom = 1
  WriterRoom = 1
  AnswerRoom = 1
INVARIANTS
  TypeOK
  NeverStuckBlocked
  NeverBusy
PROPERTIES
  InputIsQueue
  OutputIsQueue
  ReaderServed
CHECK_DEADLOCK FALSE
