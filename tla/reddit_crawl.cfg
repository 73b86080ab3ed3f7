SPECIFICATION CrawlSpec
CONSTANTS
  Order <- MCOrder
  Parent <- MCParent
  Removed = {"a"}
  Chains <- MCChains
  Requests <- MCRequests
  MaxBatch = 2
  MaxInPage = 2
CHECK_DEADLOCK FALSE
INVARIANT Accounted
PROPERTIES EachAskedOnce CapsKeepThreads PartialSaid CrawlAnswered
