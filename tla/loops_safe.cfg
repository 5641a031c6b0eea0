SPECIFICATION Spec
CONSTANTS
  Setups <- SafetySetups
  Modes = {"Off", "Auto", "EmergencyHeat"}
  Excesses <- SafetyExcesses
  Updates = FALSE
  SensorFails = TRUE
  FailsAgain = FALSE
INVARIANT TypeOK
INVARIANT Interlock
INVARIANT StageOrder
INVARIANT DelayAfterValve
PROPERTY CompressorRests
PROPERTY ValveAtRest
