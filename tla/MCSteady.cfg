\* A clock that never steps back, read in whole seconds: the worst case for a
\* call that waits for a later reading.
SPECIFICATION FairSpec
CONSTANTS
  SecondMs = 2
  Sources = {"s"}
  MaxTime = 6
  MaxLag = 0
  Threshold = 2
  RandALimit = 2
  HighLimit = 2
  LowLimit = 3
  TsLimit = 7
  NoId = NoId
PROPERTIES StrictlyIncreasing CallReturns
