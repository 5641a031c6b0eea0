SPECIFICATION FairSpec
CONSTANTS
  Senders = {"temp"}
  TempConfigs <- AllConfigs
  AccTypes = {"none"}
  FirstSend = TRUE
  HeatPump = TRUE
  Restarts = TRUE
  SensorFails = FALSE
INVARIANT FanWithLoad
PROPERTY BoardSpec
