SPECIFICATION FairSpec
CHECK_DEADLOCK FALSE
CONSTANTS
  MaxColours = 2
  MaxQueue = 3
  MaxEvents = 2
  MaxFaults = 1
  Updates = 1
INVARIANT InStep
INVARIANT NewestColour
PROPERTY GateOpens
