SPECIFICATION Spec
CONSTANTS
  c1 = c1
  c2 = c2
  c3 = c3
  p1 = p1
  p2 = p2
  session = session
  browser = browser
  Callers <- TwoCallers
  Pods <- OnePod
  PodOf <- Together
  Methods <- TwoMethods
  Browser <- browser
  MethodCooldown = 1
  SharedCooldown = 1
  Backoffs = {2}
  MaxCall = 1
  MaxRuns = 3
  MaxFaults = 1
  MaxTime = 3
SYMMETRY Symmetric
INVARIANT BlipNeverStopsReddit
PROPERTY HoldsKept
