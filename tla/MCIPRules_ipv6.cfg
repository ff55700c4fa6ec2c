SPECIFICATION Spec
CONSTANTS
  admin = admin ticker = ticker v6 = v6
  Bits = 2
  IPv6 = {v6}
  Named <- WithIPv6
  Workers = {admin}
  Ops = {"AddIPRule"}
  MaxFailures = 0
PROPERTY AddingLosesNothing
