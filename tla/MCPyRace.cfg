\* Two threads; nothing keeps their calls apart.
SPECIFICATION Spec
CONSTANTS
  SecondMs = 1
  Sources = {"ms"}
  MaxTime = 1
  MaxLag = 0
  Threshold = 1
  RandALimit = 1
  HighLimit = 1
  LowLimit = 2
  TsLimit = 3
  Threads = {t1, t2}
  NoId = NoId
  Nobody = Nobody
  MaxFailures = 2
  Bindings = {"python"}
SYMMETRY Symmetry
INVARIANT NoDuplicates
