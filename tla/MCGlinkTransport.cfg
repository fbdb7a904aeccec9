SPECIFICATION Spec
CONSTANTS
  Senders = {s1, s2}
  Ops = {o1, o2}
  Unmatched = {o2}
  NoSender = NoSender
  NoOp = NoOp
  NoPacket = NoPacket
  NoEvent = NoEvent
  PollLimit = 0
  Wait1Limit = 1
  Wait2Limit = 1
SYMMETRY TransportSymmetry
INVARIANTS
  TypeOK
  Exclusive
  NoLeakedClaim
  NoLostReply
  NoStaleReply
PROPERTY
  RefinesExchange
