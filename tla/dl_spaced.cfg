SPECIFICATION FairSpec
CONSTANTS
  c1 = c1
  c2 = c2
  c3 = c3
  c4 = c4
  NoDeadline = NoDeadline
  Callers <- ThreeCallers
  MaxConcurrent = 2
  MinDelay = 2
  Quota = 2
  Period = 3
  SpaceSends = TRUE
  IdleFloor = 1
  SweepEvery = 9
  Jitters = {0}
  Budgets <- AnyBudget
  Holds = {2}
  HoldTimes = {}
  LastStart = 1
  MaxHold = 1
  MaxCalls = 4
  MaxTime = 12
INVARIANT SendsSpaced
PROPERTY CallersAnswered
