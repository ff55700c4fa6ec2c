\* A group call overtaken by the health check that takes a dead backend out.
SPECIFICATION FairSpec
CONSTANTS
  a1 = a1 a2 = a2 b1 = b1 b2 = b2 g1 = g1 g2 = g2 p1 = p1 p2 = p2
  Backends = {b1}
  Groups = {g1}
  Admins = {a1}
  Ops <- WindowOps
  Probes = {p1}
  Probed = {b1}
  TlsBackends = {b1}
  PlainBackends = {b1}
  FailThreshold = 1
  RecoverThreshold = 1
  MaxFails = 1
  MaxRestarts = 0
PROPERTY DeadLeavesRoutes
