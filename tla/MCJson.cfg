SPECIFICATION Spec
CONSTANTS
  MaxTokens = 8
  LongBeginnings <- MCLongBeginnings
  Values = {x, y}
  Elements <- MCElements
  Keys <- MCKeys
  MaxLen = 3
  Buffer = 20
  Dumped <- MCDumped
SYMMETRY Symmetry
VIEW View
INVARIANTS
  ErrorAtTheFirstWrongToken
  ReturnsWhatWasKept
  BufferIsEnough
PROPERTIES
  FollowsOn
  ThrowsChangeNothing
CHECK_DEADLOCK FALSE
