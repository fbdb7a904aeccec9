SPECIFICATION Spec
CONSTANTS
  r = r
  n = n
  Ops = {r, n}
  Replies = {r}
  Priority <- MCPriority
  Workers = {w1, w2}
  NoOp = NoOp
  NoPacket = NoPacket
  MaxPackets = 4
SYMMETRY WorkerSymmetry
INVARIANTS
  TypeOK
  PendingIsCovered
  AnnouncedAfterErased
PROPERTY
  LossNeedsOverlap
