SPECIFICATION Spec
CONSTANTS
  c1 = c1
  c2 = c2
  c3 = c3
  c4 = c4
  NoDeadline = NoDeadline
  Callers <- ThreeCallers
  MaxConcurrent = 3
  MinDelay = 0
  Quota = 2
  Period = 2
  SpaceSends = FALSE
  IdleFloor = 1
  SweepEvery = 9
  Jitters = {0}
  Budgets <- Unhurried
  Holds = {2}
  HoldTimes = {}
  LastStart = 4
  MaxHold = 0
  MaxCalls = 9
  MaxTime = 4
SYMMETRY Symmetric
INVARIANT BookedWindow
