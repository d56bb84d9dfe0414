\* The three bindings, two threads, two failed creations, time passing.
SPECIFICATION FairSpec
CONSTANTS
  SecondMs = 1
  Sources = {"ms"}
  MaxTime = 2
  MaxLag = 0
  Threshold = 1
  RandALimit = 1
  HighLimit = 1
  LowLimit = 2
  TsLimit = 3
  Threads = {t1, t2}
  NoId = NoId
  Nobody = Nobody
  MaxFailures = 2
  Bindings = {"python", "go", "rust"}
INVARIANT OneDefault
PROPERTIES LockedIsSequential LockedInOrder Recovers CallsReturn
