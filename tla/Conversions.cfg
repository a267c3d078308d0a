SPECIFICATION Spec
CONSTANTS
  Bits <- MCBits
  MaxSize = 4000
  Buffer = 20
  MaxFloat = 99999
  CutNear = 6
  IntBits <- MCIntBits
  Digits2 = 8
  MaxE = 24
  Bias = 18
  Precision = 24
  MinDecExp <- MCMinDecExp
  DecStep = 2
  CachedPowers = 7
  Samples <- MCSamples
  Foreign <- MCForeign
INVARIANTS
  WrittenReadsBack
  CutIsRefused
  ReadCanBeWritten
CHECK_DEADLOCK FALSE
