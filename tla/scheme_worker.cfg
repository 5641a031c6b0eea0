SPECIFICATION FairSpec
CONSTANTS
  Others = {"hum"}
  FanShares = TRUE
  MaxPending = 2
  PerfTests = TRUE
  Updates = TRUE
  SensorFails = TRUE
INVARIANT RestartArmed
INVARIANT QuietWaitRelaysOff
PROPERTY StopHonoured
PROPERTY FinishedIsRestarted
