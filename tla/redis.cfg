SPECIFICATION FairSpec
CONSTANTS
  c1 = c1
  c2 = c2
  p1 = p1
  p2 = p2
  NoDeadline = NoDeadline
  Callers <- TwoCallers
  Pods <- TwoPods
  PodOf <- Split
  MaxConcurrent = 0
  MinDelay = 1
  Quota = 2
  Window = 3
  Caps = {0, 1}
  LeaseTTL = 4
  ConcurrencyRetry = 1
  KeyTTLSlack = 1
  Jitters = {0}
  Budgets <- AnyBudget
  Holds = {3}
  HoldTimes = {1}
  Lag = 1
  MaxHold = 2
  LastStart = 2
  MaxFaults = 1
  MaxCalls = 4
  MaxTime = 16
INVARIANTS WindowKept ClusterCap
PROPERTIES PacedSpec CallersAnswered
