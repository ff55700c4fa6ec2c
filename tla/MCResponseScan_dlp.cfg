SPECIFICATION ScanSpec
CONSTANTS
  g1 = g1 b1 = b1 nobody = nobody
  Streams = {g1}
  Buffers = {b1}
  Kinds <- LeakingPages
  Nobody = nobody
INVARIANT BlockedIsWithheld
