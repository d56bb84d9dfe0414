\* Two goroutines on a clock that never steps back.
SPECIFICATION FairSpec
CONSTANTS
  SecondMs = 1
  Sources = {"ms"}
  MaxTime = 2
  MaxLag = 0
  Threshold = 1
  RandALimit = 1
  HighLimit = 2
  LowLimit = 2
  TsLimit = 3
  Threads = {g1, g2}
  NoId = NoId
  Nobody = Nobody
INVARIANTS TypeOK NoUseAfterFree ZeroOnlyWhenClosed
PROPERTIES IsSequential HandedOutInOrder CallsReturn
