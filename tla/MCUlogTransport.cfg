SPECIFICATION Spec
CONSTANTS
  Timer = Timer
  Workers = {w1}
  NoOp = NoOp
  PollLimit = 1
  WaitLimit = 1
  Attempts = 1
  MaxPackets = 2
  MaxItems = 2
CHECK_DEADLOCK FALSE
INVARIANTS
  TypeOK
  NoLeakedClaim
  NoLostReply
  PrintIsFresh
PROPERTY
  FlagExcludes
