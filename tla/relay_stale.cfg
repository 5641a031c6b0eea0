SPECIFICATION Spec
CONSTANTS
  Senders = {"temp", "hum"}
  TempConfigs <- OneStage
  AccTypes = {"none", "acc2"}
  FirstSend = FALSE
  HeatPump = FALSE
  Restarts = FALSE
  SensorFails = FALSE
PROPERTY OneRelayAtATime
