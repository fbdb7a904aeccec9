SPECIFICATION UsbcSpec
CONSTANTS
  p1 = p1
  p2 = p2
  s1 = s1
  t1 = t1
  r1 = r1
  r2 = r2
  Ports <- MCPorts
  Selections <- MCSelections
  FirstSelect = s0
  States <- MCStates
  Pool <- MCPool
  Acpi = acpi
  Register = register
  None = none
  MaxCalls = 5
PROPERTIES
  OnlyOverwritingLoses
CHECK_DEADLOCK FALSE
