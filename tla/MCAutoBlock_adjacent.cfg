SPECIFICATION ABFairSpec
CONSTANTS
  blocker = blocker ticker = ticker
  Bits = 2
  IPv6 = {}
  Named <- NoRule
  Workers = {blocker, ticker}
  Ops = {"ReloadRules"}
  MaxFailures = 0
  IPs <- Adjacent
  Blocker = blocker
  Threshold = 2
  MaxCrashes = 0
PROPERTY BansEnd
