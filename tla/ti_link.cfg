SPECIFICATION FairSpec
CONSTANTS
  MaxUpdates = 3
  MaxFeeds = 1
  MaxFaults = 1
INVARIANT TypeOK
INVARIANT BoardHasLast
INVARIANT ConfirmedIsSet
PROPERTY BoardForward
PROPERTY QueueDrains
PROPERTY InfoComes
