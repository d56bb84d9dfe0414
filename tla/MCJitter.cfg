\* Corrections and the fallback to whole seconds stay within the threshold.
SPECIFICATION Spec
CONSTANTS
  SecondMs = 2
  Sources <- MCBoth
  MaxTime = 6
  MaxLag = 1
  Threshold = 2
  RandALimit = 2
  HighLimit = 2
  LowLimit = 2
  TsLimit = 7
  NoId = NoId
PROPERTIES RegressOnlyAtExhaustion
