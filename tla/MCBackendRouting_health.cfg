\* Health checks beside calls on backends, which hold the lock to the end.
SPECIFICATION FairSpec
CONSTANTS
  a1 = a1 a2 = a2 b1 = b1 b2 = b2 g1 = g1 g2 = g2 p1 = p1 p2 = p2
  Backends = {b1, b2}
  Groups = {g1}
  Admins = {a1}
  Ops <- BackendOps
  Probes = {p1}
  Probed = {b1, b2}
  TlsBackends = {b1}
  PlainBackends = {b1, b2}
  FailThreshold = 2
  RecoverThreshold = 2
  MaxFails = 2
  MaxRestarts = 1
PROPERTIES DeadLeavesRoutes RecoveredReturns
