SPECIFICATION Spec
CONSTANTS
  Senders = {"temp", "hum", "fan"}
  TempConfigs <- OneStage
  AccTypes = {"none"}
  FirstSend = FALSE
  HeatPump = FALSE
  Restarts = FALSE
  SensorFails = FALSE
INVARIANT TypeOK
INVARIANT BlockedOnlyBySender
