\* Two contexts, every value of the time stamp counter.
SPECIFICATION Spec
CONSTANTS
  Width = 4
  Half = 2
  Shift = 1
  Rotate = 3
  Drop = 1
  Golden <- MCGolden
  Places <- MCPlaces
  Times <- MCTimes
  Stamps <- Word
  Stacks <- MCStacks
  Entropy <- MCEntropy
  Warmup = 2
  MaxDraws = 1
INVARIANTS TypeOK ZeroOnlyFromEntropy NoTwins
