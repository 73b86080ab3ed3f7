SPECIFICATION FairSpec
CONSTANTS
  Slots = 1
  MaxAttempts = 2
  Selector = TRUE
  Agent = TRUE
  ChallengeWait = TRUE
INVARIANTS HostSpared NoWallTwice AnswerKept
PROPERTY CallAnswered
