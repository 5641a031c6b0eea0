SPECIFICATION FairSpec
CONSTANTS
  Others = {"temp", "fan"}
  FanShares = FALSE
  MaxPending = 2
  PerfTests = TRUE
  OtherSettings = TRUE
  SensorFails = TRUE
INVARIANT AccessoryOff
PROPERTY Served
