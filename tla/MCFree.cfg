\* A clock that may be set to anything.
SPECIFICATION Spec
CONSTANTS
  SecondMs = 2
  Sources <- MCBoth
  MaxTime = 5
  MaxLag = 5
  Threshold = 2
  RandALimit = 2
  HighLimit = 2
  LowLimit = 2
  TsLimit = 6
  NoId = NoId
INVARIANTS TypeOK NeverAheadOfClock ContextRemembersOut
PROPERTIES OrderBreaksOnlyBackInTime TimestampFollowsReading
