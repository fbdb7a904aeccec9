SPECIFICATION Spec
CONSTANTS
  Queue = queue
  Standby = standby
  w1 = w1
  Workers <- MCWorkers
  FirmwareWords <- MCWords
INVARIANTS
  TypeOK
  InfoIsAnswered
