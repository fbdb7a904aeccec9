SPECIFICATION FairSpec
CONSTANTS
  Senders = {s1, s2}
  Ops = {o1}
  Unmatched = {}
  NoSender = NoSender
  NoOp = NoOp
  NoPacket = NoPacket
  NoEvent = NoEvent
  PollLimit = 1
  Wait1Limit = 1
  Wait2Limit = 1
PROPERTY
  EveryCallReturns
