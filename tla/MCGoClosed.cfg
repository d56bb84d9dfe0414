\* One goroutine keeps the generator after another has closed it.
SPECIFICATION Spec
CONSTANTS
  SecondMs = 1
  Sources = {"ms"}
  MaxTime = 1
  MaxLag = 0
  Threshold = 1
  RandALimit = 1
  HighLimit = 2
  LowLimit = 2
  TsLimit = 2
  Threads = {g1, g2}
  NoId = NoId
  Nobody = Nobody
SYMMETRY Symmetry
INVARIANT ReturnsIdentifier
