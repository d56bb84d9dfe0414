\* A clock that may be set to anything, read in milliseconds.
SPECIFICATION Spec
CONSTANTS
  SecondMs = 1
  Sources <- MCMilliseconds
  MaxTime = 4
  MaxLag = 4
  Threshold = 1
  RandALimit = 2
  HighLimit = 2
  LowLimit = 4
  TsLimit = 5
  NoId = NoId
PROPERTIES StrictlyIncreasing
