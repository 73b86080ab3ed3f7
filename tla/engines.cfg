SPECIFICATION CrawlSpec
CONSTANTS
  Kinds <- MCKinds
  Splits = 3
  MaxComments = 2
  PageBound = 4
  PageSizes = {0, 1}
  Patches <- MCPatches
  MaxDiff = 3
  MaxAssets = 2
  TopicSize = 4
  MaxPosts = 3
  MaxBatch = 2
  MaxAnswers = 2
  Order <- MCOrder
  Parent <- MCParent
  Caps <- MCCaps
  MaxReplies = 2
CHECK_DEADLOCK FALSE
INVARIANT DocumentHonest
PROPERTIES EngineSpec EngineAnswered
