SPECIFICATION FairSpec
CONSTANTS
  Senders = {"temp", "hum"}
  TempConfigs <- OneStage
  AccTypes = {"acc2"}
  FirstSend = FALSE
  HeatPump = FALSE
  Restarts = TRUE
  SensorFails = TRUE
INVARIANT SendingMarked
PROPERTY CallReturns
