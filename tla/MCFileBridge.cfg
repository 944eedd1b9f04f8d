SPECIFICATION BridgeLiveSpec
CONSTANTS
  a = a
  b = b
  Workers = {a, b}
  Calls = {1, 2, 3, 4}
  By <- MCBy
  May <- MCMay
  Mortal = {a}
  NoCall = NoCall
  GlobalCap = 2
  PerWorker = 1
  QueueCap = 1
  MaxStuck = 1
  MaxFds = 1
CHECK_DEADLOCK FALSE
INVARIANTS
  OwnReply
  HostInOrder
  QuietWhenIdle
PROPERTIES
  Answered
