SPECIFICATION FairSpec
CONSTANTS
  c1 = c1
  c2 = c2
  c3 = c3
  Callers <- TwoCallers
  Cooldown = 2
  Holds = {2}
INVARIANT SlotsBalanced
PROPERTIES FallbackWarm OneTimeoutPerCooldown Recovers
