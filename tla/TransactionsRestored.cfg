SPECIFICATION TransactionSpec
CONSTANTS
  Kinds = {"work", "robust"}
  MaxTrans = 2
  MaxStatements = 2
  Mishaps = {}
CHECK_DEADLOCK FALSE
INVARIANT RestoredAutomatically
