SPECIFICATION FairSpec
CONSTANTS
  admin = admin ticker = ticker v6 = v6
  Bits = 2
  IPv6 = {}
  Named <- ThreeAddresses
  Workers = {admin, ticker}
  Ops <- AllOps
  MaxFailures = 1
INVARIANTS NoCollateral
PROPERTIES LiveFollowsTable KeepsListPromise
