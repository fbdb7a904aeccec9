SPECIFICATION GaugeSpec
CONSTANTS
  Capacities <- MCCapacities
  Charges <- MCCharges
  Holder = h
  Workers = {w}
INVARIANTS
  GaugeTypeOK
  KnownSocIsShown
  PercentageSurvives
