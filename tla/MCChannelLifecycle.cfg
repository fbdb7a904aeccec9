SPECIFICATION Spec
CONSTANTS
  Channel = {c1, c2}
  NoChannel = NoChannel
SYMMETRY ChannelSymmetry
CONSTRAINTS
  Pairwise
  OneException
CHECK_DEADLOCK FALSE
INVARIANTS
  TypeOK
  RemovedIsQuiet
  RegisteredIsKnown
  ClosedIsForgotten
PROPERTIES
  OnlyLinkUpStops
