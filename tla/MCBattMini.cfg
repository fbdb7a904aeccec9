SPECIFICATION Spec
CONSTANT MaxBoots = 1
INVARIANTS
  TypeOK
  DropNeedsOverlap
  TimerCovers
PROPERTY
  OnlyCrowdedOpensBreak
CONSTRAINT
  FourAtATime
