SPECIFICATION FairSpec
CONSTANTS
  r = r
  n = n
  Ops = {r, n}
  Replies = {r}
  Priority <- MCPriority
  Workers = {w1, w2}
  NoOp = NoOp
  NoPacket = NoPacket
  MaxPackets = 3
PROPERTY
  EventuallyDrained
