SPECIFICATION ServiceSpec
CONSTANTS
  Configs <- MCConfigs
  Messages <- MCMessages
  Batches <- MCBatches
  Malformed = {"bad"}
  MaxURLs = 2
  Sizes = {1, 3}
  ErrorSize = 1
  MaxResponse = 4
CHECK_DEADLOCK FALSE
INVARIANTS DialectKept BatchInOrder Drained
PROPERTY Stops
