SPECIFICATION ABFairSpec
CONSTANTS
  blocker = blocker ticker = ticker
  Bits = 2
  IPv6 = {}
  Named <- NoRule
  Workers = {blocker, ticker}
  Ops = {"ReloadRules"}
  MaxFailures = 2
  IPs <- Apart
  Blocker = blocker
  Threshold = 2
  MaxCrashes = 1
INVARIANTS BansAreOnRecord BannedHasRule RuleHasRecord
PROPERTY BansEnd
