SPECIFICATION Spec
CONSTANTS
  c1 = c1
  c2 = c2
  c3 = c3
  NoOne = NoOne
  Callers <- ThreeCallers
  TTL = 1
  Cooldown = 1
  MaxFetch = 1
  MaxVersion = 1
  MaxFaults = 1
SYMMETRY Symmetric
INVARIANTS OneFetch LiveCallersServed NoLostWakeup
PROPERTY BoundedStaleness
