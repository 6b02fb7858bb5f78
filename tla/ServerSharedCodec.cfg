SPECIFICATION Spec
CONSTANTS
  p1 = p1
  p2 = p2
  c1 = c1
  c2 = c2
  b0 = b0
  b1 = b1
  NoPeer = NoPeer
  LowBit = b0
  DetBits <- AllBits
  MaxTick = 9
  Half = 16
  TPSets <- TinyStream
  Queries <- FewQuestions
  QueueSettings <- OneSetting
  InitSetting <- Shallow
  DetMasks <- OneMask
  Depth = 2
  Skew = 9
  Conduct = {}
  MaxSend = 2
  MaxOutstanding = 1
  Peers = {p1, p2}
  Clients = {c1, c2}
CHECK_DEADLOCK FALSE
INVARIANT AnswerMatchesQuery
