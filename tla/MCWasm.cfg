\* Two objects and room for both, a clock that may be set to anything.
SPECIFICATION Spec
CONSTANTS
  SecondMs = 1
  Sources = {"ms"}
  MaxTime = 2
  MaxLag = 2
  Threshold = 1
  RandALimit = 1
  HighLimit = 1
  LowLimit = 2
  TsLimit = 3
  Objects = {g1, g2}
  Nobody = Nobody
  Addresses = {a1, a2, a3, a4}
  Null = Null
  Failures = {"null", "abort"}
  NoId = NoId
SYMMETRY Symmetry
INVARIANTS TypeOK BlocksOwnedOnce DefaultKeepsContext
PROPERTIES IsolatedState AnswersInOrder AnswersAreOwn HeldBytesStay
