\* Every regression is within the threshold.
SPECIFICATION Spec
CONSTANTS
  SecondMs = 2
  Sources <- MCMilliseconds
  MaxTime = 6
  MaxLag = 2
  Threshold = 2
  RandALimit = 2
  HighLimit = 2
  LowLimit = 2
  TsLimit = 7
  NoId = NoId
PROPERTIES TimestampNeverRegresses
