SPECIFICATION FairSpec
CONSTANTS
  Setups <- LiveSetups
  Modes = {"Cooling", "Heating"}
  Excesses <- FewExcesses
  Updates = TRUE
  SensorFails = TRUE
  FailsAgain = FALSE
PROPERTY DemandServed
PROPERTY OvershootEnds
