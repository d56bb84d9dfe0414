\* Bytes of three bits: one for rand_a beside two of the version.
SPECIFICATION Spec
CONSTANTS
  Threshold = 1
  RandALimit = 2
  HighLimit = 16
  LowLimit = 2097152
  TsLimit = 262144
  Byte = 8
  Nibble = 3
  SixBits = 2
  Versions = 4
  Version = 1
  Contexts <- MCContexts
INVARIANTS WellFormed RenderingsAgree
PROPERTIES BytesInFieldOrder TextInByteOrder
