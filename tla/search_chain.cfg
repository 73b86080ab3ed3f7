SPECIFICATION Spec
CONSTANTS
  Urls <- MCUrls
  Limits = {0, 1}
  MaxResults = 3
  DefaultLimit = 3
  MinCounts = {0, 2}
  MaxHits = 2
  MaxAttempts = 2
  Engines = {"e", "f"}
  Critical = {"e"}
  SiteEngines = {"f"}
CHECK_DEADLOCK FALSE
INVARIANTS FailureKept TopUpKeepsRanks
PROPERTIES SearcherSpec SearchAnswered
