SPECIFICATION FairSpec
CONSTANTS
  Tests = {t1, t2}
  NoTest = none
  Readings = 2
INVARIANT TestModeIffTesting
INVARIANT HasExit
INVARIANT ResultKept
INVARIANT NotPerformedTwice
PROPERTY CheckEnds
PROPERTY ResultArrives
