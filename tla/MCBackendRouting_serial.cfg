\* One administrator, backends on private addresses: nothing overtakes a call.
SPECIFICATION Spec
CONSTANTS
  a1 = a1 a2 = a2 b1 = b1 b2 = b2 g1 = g1 g2 = g2 p1 = p1 p2 = p2
  Backends = {b1, b2}
  Groups = {g1, g2}
  Admins = {a1}
  Ops <- AllOps
  Probes = {p1}
  Probed = {}
  TlsBackends = {b1}
  PlainBackends = {b1, b2}
  FailThreshold = 1
  RecoverThreshold = 1
  MaxFails = 1
  MaxRestarts = 1
INVARIANTS RoutesFollowMemory RestartKeepsRoutes
PROPERTY KeepsPromise
