SPECIFICATION Spec
CONSTANTS
  c1 = c1
  c2 = c2
  c3 = c3
  c4 = c4
  NoDeadline = NoDeadline
  Callers <- ThreeCallers
  MaxConcurrent = 2
  MinDelay = 1
  Quota = 2
  Period = 2
  SpaceSends = FALSE
  IdleFloor = 1
  SweepEvery = 2
  Jitters = {0, 1}
  Budgets <- AnyBudget
  Holds = {1, 4}
  HoldTimes = {0}
  LastStart = 4
  MaxHold = 1
  MaxCalls = 4
  MaxTime = 9
SYMMETRY Symmetric
INVARIANTS ConcurrencyCap HeldSlotIsLive ObligationsMet BookingsKept
